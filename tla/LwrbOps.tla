------------------------------ MODULE LwrbOps ------------------------------
(***************************************************************************)
(* The structure of lwrb/lwrb.c, and what its calls compute from a write   *)
(* index wi, a read index ri and an array m.                               *)
(***************************************************************************)
EXTENDS Integers, Sequences

CONSTANT Size        \* buff->size, the length of the array

ASSUME SizeAssumption == Size \in Nat \ {0}      \* lwrb_init refuses size == 0

VARIABLES mem,       \* buff->buff[0 .. size-1]
          r, w       \* buff->r, buff->w

Index == 0 .. Size - 1

BUF_MIN(a, b) == IF a <= b THEN a ELSE b

\* Mutant: with r ahead of w, the cell that keeps full apart from empty is counted.
MutantGetFree(wi, ri) ==
    IF wi = ri THEN Size - 1 ELSE IF ri > wi THEN ri - wi ELSE Size - (wi - ri) - 1

lwrb_get_free(wi, ri) ==
    (IF wi = ri THEN Size ELSE IF ri > wi THEN ri - wi ELSE Size - (wi - ri)) - 1

\* Mutant: off by one when the contents wrap.
MutantGetFull(wi, ri) ==
    IF wi = ri THEN 0 ELSE IF wi > ri THEN wi - ri ELSE Size - (ri - wi) + 1

lwrb_get_full(wi, ri) ==
    IF wi = ri THEN 0 ELSE IF wi > ri THEN wi - ri ELSE Size - (ri - wi)

linear_block_read_length(wi, ri) ==
    IF wi > ri THEN wi - ri ELSE IF ri > wi THEN Size - ri ELSE 0

\* Mutant: forgets the cell that keeps a full buffer apart from an empty one.
MutantWriteLength(wi, ri) == IF wi >= ri THEN Size - wi ELSE ri - wi - 1

linear_block_write_length(wi, ri) ==
    IF wi >= ri THEN IF ri = 0 THEN Size - wi - 1 ELSE Size - wi
                ELSE ri - wi - 1

\* memcpy of d into m at offset `at', and of n bytes out of it.
CopyIn(m, at, d) ==
    [i \in Index |-> IF at <= i /\ i < at + Len(d) THEN d[i - at + 1] ELSE m[i]]

CopyOut(m, at, n) == [i \in 1 .. n |-> m[at + i - 1]]

\* Steps 1 to 3 of lwrb_write and lwrb_read: the index after moving n bytes,
\* the first `tocopy' of them up to the end of the array.
NextIndex(i, n) ==
    LET tocopy == BUF_MIN(Size - i, n)
        moved  == IF n > tocopy THEN n - tocopy ELSE i + tocopy
    IN  IF moved >= Size THEN 0 ELSE moved

\* lwrb_skip and lwrb_advance wrap by subtraction instead.
WrapIndex(i) == IF i >= Size THEN i - Size ELSE i

\* Mutant: the overflow part is never written.
MutantPutBytes(m, i, d) == CopyIn(m, i, SubSeq(d, 1, BUF_MIN(Size - i, Len(d))))

\* memcpy in two parts around the end of the array.
PutBytes(m, i, d) ==
    LET tocopy == BUF_MIN(Size - i, Len(d)) IN
    CopyIn(CopyIn(m, i, SubSeq(d, 1, tocopy)), 0, SubSeq(d, tocopy + 1, Len(d)))

GetBytes(m, i, n) ==
    LET tocopy == BUF_MIN(Size - i, n) IN
    CopyOut(m, i, tocopy) \o CopyOut(m, 0, n - tocopy)
============================================================================
