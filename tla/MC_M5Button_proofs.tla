------------------------- MODULE MC_M5Button_proofs -------------------------
(* The instance of MC_M5Button, for checking the inductive invariants of   *)
(* M5Button_proofs with TLC before they are proved.                        *)
EXTENDS M5Button_proofs

MC_DbTime == 2
MC_TicksPeriod == 8
MC_Timeouts == {0, 3}
MC_MaxPending == 2
=============================================================================
