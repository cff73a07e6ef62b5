-------------------------------- MODULE Lwrb --------------------------------
(***************************************************************************)
(* The ring buffer of lwrb/lwrb.c, one action per call.  Every call runs to*)
(* its end before the next one starts (LwrbPreempt takes that away), but a *)
(* DMA transfer over a linear block may be under way between two calls.    *)
(***************************************************************************)
EXTENDS LwrbOps

CONSTANTS Byte,      \* byte values
          Data,      \* byte sequences a writer hands over
          Req        \* counts a reader asks for

ASSUME DataAssumption == Data \subseteq Seq(Byte)
ASSUME ReqAssumption  == Req \subseteq Nat /\ 0 .. Size \subseteq Req

VARIABLES ready,     \* buff->buff # NULL
          wblk,      \* length of the linear block a DMA is filling, 0 when none
          rblk,      \* length of the linear block a DMA is draining, 0 when none
          call       \* last call with its arguments and result

vars == <<mem, r, w, ready, wblk, rblk, call>>

Call(op, skip, req, data, ret) ==
    [op |-> op, skip |-> skip, req |-> req, data |-> data, ret |-> ret]

-----------------------------------------------------------------------------
Init ==
    /\ mem \in [Index -> Byte]        \* the caller's array, contents arbitrary
    /\ r = 0 /\ w = 0 /\ ready = TRUE
    /\ wblk = 0 /\ rblk = 0
    /\ call = Call("init", 0, 0, << >>, 1)

lwrb_write(d) ==
    LET n == BUF_MIN(lwrb_get_free(w, r), Len(d)) IN
    /\ ready /\ wblk = 0
    /\ mem' = PutBytes(mem, w, SubSeq(d, 1, n))
    /\ w' = NextIndex(w, n)
    /\ call' = Call("write", 0, Len(d), d, n)
    /\ UNCHANGED <<r, ready, wblk, rblk>>

lwrb_read(btr) ==
    LET n == BUF_MIN(lwrb_get_full(w, r), btr) IN
    /\ ready /\ rblk = 0
    /\ r' = NextIndex(r, n)
    /\ call' = Call("read", 0, btr, GetBytes(mem, r, n), n)
    /\ UNCHANGED <<mem, w, ready, wblk, rblk>>

lwrb_peek(skip_count, btp) ==
    LET full == lwrb_get_full(w, r)
        n    == IF skip_count >= full THEN 0 ELSE BUF_MIN(full - skip_count, btp)
        got  == IF n = 0 THEN << >> ELSE GetBytes(mem, WrapIndex(r + skip_count), n)
    IN  /\ ready
        /\ call' = Call("peek", skip_count, btp, got, n)
        /\ UNCHANGED <<mem, r, w, ready, wblk, rblk>>

lwrb_skip(len) ==
    LET n == BUF_MIN(len, lwrb_get_full(w, r)) IN
    /\ ready /\ rblk = 0
    /\ r' = WrapIndex(r + n)
    /\ call' = Call("skip", 0, len, << >>, n)
    /\ UNCHANGED <<mem, w, ready, wblk, rblk>>

Query ==
    /\ call' \in {Call("full", 0, 0, << >>, IF ready THEN lwrb_get_full(w, r) ELSE 0),
                  Call("free", 0, 0, << >>, IF ready THEN lwrb_get_free(w, r) ELSE 0)}
    /\ UNCHANGED <<mem, r, w, ready, wblk, rblk>>

\* The writer starts a DMA on the block at &buff[w] ...
StartLinearWrite ==
    /\ ready /\ wblk = 0
    /\ wblk' = linear_block_write_length(w, r)
    /\ call' = Call("linear_write", 0, 0, << >>, 0)
    /\ UNCHANGED <<mem, r, w, ready, rblk>>

\* ... and calls lwrb_advance with the number of bytes that arrived.
lwrb_advance(d) ==
    LET n == BUF_MIN(Len(d), lwrb_get_free(w, r)) IN
    /\ ready /\ wblk > 0 /\ Len(d) <= wblk
    /\ mem' = CopyIn(mem, w, d)
    /\ w' = WrapIndex(w + n)
    /\ wblk' = 0
    /\ call' = Call("write", 0, Len(d), d, n)
    /\ UNCHANGED <<r, ready, rblk>>

\* The reader starts a DMA on the block at &buff[r]; the writer goes on.
StartLinearRead ==
    /\ ready /\ rblk = 0
    /\ rblk' = linear_block_read_length(w, r)
    /\ call' = Call("linear_read", 0, 0, << >>, 0)
    /\ UNCHANGED <<mem, r, w, ready, wblk>>

\* The block has been sent as it is in memory by then; lwrb_skip releases it.
FinishLinearRead ==
    LET n == BUF_MIN(rblk, lwrb_get_full(w, r)) IN
    /\ ready /\ rblk > 0
    /\ r' = WrapIndex(r + n)
    /\ rblk' = 0
    /\ call' = Call("read", 0, rblk, CopyOut(mem, r, rblk), n)
    /\ UNCHANGED <<mem, w, ready, wblk>>

\* Reset, free and init need both ends: no DMA is under way.
Idle == wblk = 0 /\ rblk = 0

lwrb_reset ==
    /\ ready /\ Idle
    /\ w' = 0 /\ r' = 0
    /\ call' = Call("reset", 0, 0, << >>, 0)
    /\ UNCHANGED <<mem, ready, wblk, rblk>>

lwrb_free ==
    /\ ready /\ Idle
    /\ ready' = FALSE
    /\ call' = Call("free_handle", 0, 0, << >>, 0)
    /\ UNCHANGED <<mem, r, w, wblk, rblk>>

lwrb_init ==
    /\ Idle
    /\ w' = 0 /\ r' = 0 /\ ready' = TRUE
    /\ call' = Call("init", 0, 0, << >>, 1)
    /\ UNCHANGED <<mem, wblk, rblk>>

\* BUF_IS_VALID fails: every transfer returns 0 before it touches anything.
Refused ==
    /\ ~ready
    /\ call' = Call("refused", 0, 0, << >>, 0)
    /\ UNCHANGED <<mem, r, w, ready, wblk, rblk>>

Next ==
    \/ \E d \in Data : lwrb_write(d) \/ lwrb_advance(d)
    \/ \E k \in Req : lwrb_read(k) \/ lwrb_skip(k)
    \/ \E s \in Req, k \in Req : lwrb_peek(s, k)
    \/ Query
    \/ StartLinearWrite \/ StartLinearRead \/ FinishLinearRead
    \/ lwrb_reset \/ lwrb_free \/ lwrb_init \/ Refused

Spec == Init /\ [][Next]_vars

-----------------------------------------------------------------------------
(* The bytes in the buffer, oldest first: what the queue of Fifo holds.    *)
Contents ==
    IF ready THEN [i \in 1 .. lwrb_get_full(w, r) |-> mem[WrapIndex(r + i - 1)]]
             ELSE << >>

Queue == INSTANCE Fifo WITH q <- Contents, Capacity <- Size - 1

\* The indices stay inside the array and every cell holds a byte, whatever
\* calls and DMA completions come in whatever order (lwrb.c:60-465).
TypeOK ==
    /\ mem \in [Index -> Byte]
    /\ r \in Index /\ w \in Index
    /\ ready \in BOOLEAN
    /\ wblk \in 0 .. Size /\ rblk \in 0 .. Size

\* A block handed to a DMA stays the owner's until it is given back: what the
\* reader frees never makes the free block shorter, what the writer adds never
\* makes the full block shorter, and the two blocks share no cell
\* (lwrb_get_linear_block_read_length, lwrb_get_linear_block_write_length).
BlocksOwned ==
    /\ wblk <= lwrb_get_free(w, r) /\ w + wblk <= Size
    /\ rblk <= lwrb_get_full(w, r) /\ r + rblk <= Size
    /\ \A i \in Index : ~(w <= i /\ i < w + wblk /\ r <= i /\ i < r + rblk)

\* Every call of lwrb.c does and returns what the queue of Fifo does.
IsFifo == Queue!FSpec
=============================================================================
