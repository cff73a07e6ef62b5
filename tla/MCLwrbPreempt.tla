--------------------------- MODULE MCLwrbPreempt ---------------------------
(* LwrbPreempt on an array of Size bytes, stamped modulo 2 * Size + 1.     *)
EXTENDS LwrbPreempt

\* As many calls of the handler as it likes: after fewer than this the buffer is full,
\* or empty, and it moves nothing.
Any == 2 * Size

\* lwrb_read is interrupted at will, the other calls once.
OneEach == [c \in {"read", "skip", "write", "advance"} |-> IF c = "read" THEN Any ELSE 1]

AnyEach == [c \in {"read", "skip", "write", "advance"} |-> Any]
============================================================================
