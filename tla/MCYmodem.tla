------------------------------ MODULE MCYmodem ------------------------------
(* Two files, the first of them longer than the packet numbers go.          *)
EXTENDS Ymodem

MCFiles == <<5, 2>>
=============================================================================
