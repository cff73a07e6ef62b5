------------------------------- MODULE MCLwrb -------------------------------
(* Lwrb on an array of Size bytes with two byte values.                    *)
EXTENDS Lwrb

\* Transfers: empty, partial, and one byte more than the buffer can hold.
MCData == UNION {[1 .. n -> Byte] : n \in 0 .. Size}
MCReq  == 0 .. Size
=============================================================================
