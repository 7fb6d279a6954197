------------------------- MODULE MC_UnitsOwnership --------------------------
(* Three objects: enough for a replaced object to deinit itself after its *)
(* successor, and for a third one to be built after that.                 *)
EXTENDS UnitsOwnership, TLC

CONSTANTS o1, o2, o3

MC_Objs == {o1, o2, o3}

\* The objects are interchangeable.
Symm == Permutations(MC_Objs)
=============================================================================
