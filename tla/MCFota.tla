------------------------------- MODULE MCFota -------------------------------
(* Fota with model values for images; a partition is two or three cells, so *)
(* that a transfer has a first and a last step and, with three, a middle.   *)
EXTENDS Fota
=============================================================================
