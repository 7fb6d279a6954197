---------------------------- MODULE MC_M5Button ----------------------------
(* A small instance of M5Button for TLC: a 20 ms debounce scaled to 2      *)
(* ticks, a clock that wraps every 8 ticks so that wrap-around happens in  *)
(* short behaviours, one disabled and one enabled held-for timeout.        *)
EXTENDS M5Button

MC_DbTime == 2
MC_TicksPeriod == 8
MC_Timeouts == {0, 3}
MC_MaxPending == 2
=============================================================================
