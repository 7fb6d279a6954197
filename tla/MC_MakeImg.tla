----------------------------- MODULE MC_MakeImg -----------------------------
(* The offsets of makeimg.py in KiB (0x1000, 0x8000, 0xf000, 0x10000) and *)
(* input lengths that fill a gap exactly (28, 4) or overrun it by one     *)
(* (29, 5), next to a small one (3).                                      *)
EXTENDS MakeImg

MC_Offsets == <<4, 32, 60, 64>>
MC_Sizes == {3, 4, 5, 28, 29}
=============================================================================
