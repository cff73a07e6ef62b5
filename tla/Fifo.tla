-------------------------------- MODULE Fifo --------------------------------
(***************************************************************************)
(* What lwrb/lwrb.h promises to the single writer and the single reader of *)
(* a ring buffer: a first-in first-out queue of at most `size - 1' bytes   *)
(* (lwrb.c:57).  `call' is the last call with its arguments and result, so *)
(* that the promise covers what every call returns, not only what it keeps.*)
(***************************************************************************)
EXTENDS Integers, Sequences

CONSTANTS Data,      \* byte sequences a writer may hand over
          Req,       \* counts a reader may ask for
          Capacity   \* bytes the queue can hold

VARIABLES q,         \* bytes written and not yet read, oldest first
          ready,     \* lwrb_is_ready
          call       \* last call: operation, arguments, bytes and count returned

fvars == <<q, ready, call>>

Lesser(a, b) == IF a <= b THEN a ELSE b

Call(op, skip, req, data, ret) ==
    [op |-> op, skip |-> skip, req |-> req, data |-> data, ret |-> ret]

FInit == q = << >> /\ ready = TRUE /\ call = Call("init", 0, 0, << >>, 1)

\* As much of d as fits is appended; the count appended is returned.
FWrite(d) ==
    LET n == Lesser(Len(d), Capacity - Len(q)) IN
    /\ ready
    /\ q' = q \o SubSeq(d, 1, n)
    /\ call' = Call("write", 0, Len(d), d, n)
    /\ UNCHANGED ready

\* The oldest bytes are removed and returned, at most k of them.
FRead(k) ==
    LET n == Lesser(k, Len(q)) IN
    /\ ready
    /\ q' = SubSeq(q, n + 1, Len(q))
    /\ call' = Call("read", 0, k, SubSeq(q, 1, n), n)
    /\ UNCHANGED ready

\* The bytes after the first s are returned, at most k of them; none is removed.
FPeek(s, k) ==
    LET n == IF s >= Len(q) THEN 0 ELSE Lesser(k, Len(q) - s) IN
    /\ ready
    /\ call' = Call("peek", s, k, SubSeq(q, s + 1, s + n), n)
    /\ UNCHANGED <<q, ready>>

FSkip(k) ==
    LET n == Lesser(k, Len(q)) IN
    /\ ready
    /\ q' = SubSeq(q, n + 1, Len(q))
    /\ call' = Call("skip", 0, k, << >>, n)
    /\ UNCHANGED ready

\* The two counts add up to the capacity, whatever came before.
FQuery ==
    /\ call' \in {Call("full", 0, 0, << >>, IF ready THEN Len(q) ELSE 0),
                  Call("free", 0, 0, << >>, IF ready THEN Capacity - Len(q) ELSE 0)}
    /\ UNCHANGED <<q, ready>>

\* Handing out a linear block changes nothing the caller can observe.
FLinear(op) == call' = Call(op, 0, 0, << >>, 0) /\ UNCHANGED <<q, ready>>

FEmpty(op, rdy, ret) ==
    /\ q' = << >>
    /\ ready' = rdy
    /\ call' = Call(op, 0, 0, << >>, ret)

\* On a handle without memory every transfer returns 0.
FRefused == ~ready /\ call' = Call("refused", 0, 0, << >>, 0) /\ UNCHANGED <<q, ready>>

FNext ==
    \/ \E d \in Data : FWrite(d)
    \/ \E k \in Req : FRead(k) \/ FSkip(k)
    \/ \E s \in Req, k \in Req : FPeek(s, k)
    \/ FQuery
    \/ FLinear("linear_write") \/ FLinear("linear_read")
    \/ FEmpty("reset", ready, 0)
    \/ FEmpty("free_handle", FALSE, 0)
    \/ FEmpty("init", TRUE, 1)
    \/ FRefused

FSpec == FInit /\ [][FNext]_fvars
=============================================================================
