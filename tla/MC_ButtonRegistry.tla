------------------------- MODULE MC_ButtonRegistry --------------------------
(* Two registered buttons: enough for clear() to loop and for an edge on  *)
(* the first line to be handled while the second is being constructed.    *)
EXTENDS ButtonRegistry

MC_MaxLines == 2
=============================================================================
