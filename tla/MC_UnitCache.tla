---------------------------- MODULE MC_UnitCache ----------------------------
(* UnitCache on a small clock: a 2 ms window and a 6 ms wrap period, so   *)
(* that a wrap happens while a tuple is cached.                            *)
EXTENDS UnitCache

MC_CacheMs == 2
MC_TicksPeriod == 6
=============================================================================
