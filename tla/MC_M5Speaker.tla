---------------------------- MODULE MC_M5Speaker ----------------------------
(* One model millisecond stands for 5 ms: the 15 ms lead is 3, the        *)
(* constructor's 10 ms period is 2; a 10 ms note is shorter than the lead *)
(* and a 30 ms note longer.                                               *)
EXTENDS M5Speaker

MC_Lead == 3
MC_InitPeriod == 2
MC_Durations == {2, 6}
=============================================================================
