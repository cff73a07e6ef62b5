---------------------------- MODULE LwrbPreempt ----------------------------
(***************************************************************************)
(* The ring buffer of lwrb/lwrb.c between the main program and an interrupt*)
(* handler: one end calls from the main program and is interrupted between *)
(* any two of its accesses, the other end runs a whole call at a time.     *)
(* The k-th byte written is k % M, so that a byte that is lost, repeated   *)
(* or overwritten is seen when it is read.                                 *)
(***************************************************************************)
EXTENDS LwrbOps

CONSTANTS MaxIsr,         \* calls of the handler during one call of each function
          M               \* stamps, more than twice the size of the array

ASSUME IsrAssumption == MaxIsr \in [{"read", "skip", "write", "advance"} -> Nat]
ASSUME StampAssumption == M \in Nat /\ M > 2 * Size

VARIABLES sent, next,     \* stamp of the next byte to write, and to read
          inOrder,        \* every byte read so far was the next one
          writerIsr,      \* the interrupt handler writes and the main program reads
          task, pc,       \* the call of the main program and where it is in it
          left,           \* bytes the call still has to move (btw, btr, len)
          tocopy,         \* length of the linear part
          done,           \* bytes of the current memcpy that are done
          hits            \* calls of the handler since the main call began

preemptVars == <<mem, r, w, sent, next, inOrder, writerIsr, task, pc, left, tocopy, done, hits>>

Stamps(from, count) == [i \in 1 .. count |-> (from + i - 1) % M]

PreemptInit ==
    /\ mem = [i \in Index |-> 0]
    /\ r = 0 /\ w = 0
    /\ sent = 0 /\ next = 0 /\ inOrder = TRUE
    /\ writerIsr \in BOOLEAN /\ task = "none"
    /\ pc = "idle" /\ left = 0 /\ tocopy = 0 /\ done = 0 /\ hits = 0

-----------------------------------------------------------------------------
(* lwrb_read in the main program.                                          *)

ReadStart(btr) ==
    LET count == BUF_MIN(lwrb_get_full(w, r), btr) IN
    /\ pc = "idle" /\ writerIsr /\ count > 0
    /\ task' = "read" /\ pc' = "read" /\ left' = count /\ done' = 0
    /\ tocopy' = BUF_MIN(Size - r, count)
    /\ UNCHANGED <<mem, r, w, sent, next, inOrder, writerIsr, hits>>

\* One byte of either memcpy: the linear part at r, the rest at 0.
ReadByte ==
    /\ \/ pc = "read" /\ done < tocopy /\ inOrder' = (inOrder /\ mem[r + done] = next)
       \/ pc = "read_over" /\ done < left /\ inOrder' = (inOrder /\ mem[done] = next)
    /\ next' = (next + 1) % M /\ done' = done + 1
    /\ UNCHANGED <<mem, r, w, sent, writerIsr, task, pc, left, tocopy, hits>>

ReadLinearDone ==
    /\ pc = "read" /\ done = tocopy
    /\ r' = r + tocopy /\ left' = left - tocopy /\ done' = 0
    /\ pc' = IF left > tocopy THEN "read_over" ELSE "read_end"
    /\ UNCHANGED <<mem, w, sent, next, inOrder, writerIsr, task, tocopy, hits>>

ReadOverDone ==
    /\ pc = "read_over" /\ done = left
    /\ r' = left /\ pc' = "read_end"
    /\ UNCHANGED <<mem, w, sent, next, inOrder, writerIsr, task, left, tocopy, done, hits>>

ReadEnd ==
    /\ pc = "read_end"
    /\ r' = (IF r >= Size THEN 0 ELSE r) /\ pc' = "idle" /\ task' = "none" /\ hits' = 0
    /\ left' = 0 /\ tocopy' = 0 /\ done' = 0
    /\ UNCHANGED <<mem, w, sent, next, inOrder, writerIsr>>

(* lwrb_skip in the main program.                                          *)
SkipStart(len) ==
    /\ pc = "idle" /\ writerIsr
    /\ task' = "skip" /\ pc' = "skip" /\ left' = BUF_MIN(len, lwrb_get_full(w, r))
    /\ UNCHANGED <<mem, r, w, sent, next, inOrder, writerIsr, tocopy, done, hits>>

SkipMove ==
    /\ pc = "skip"
    /\ r' = r + left /\ next' = (next + left) % M /\ pc' = "skip_end"
    /\ UNCHANGED <<mem, w, sent, inOrder, writerIsr, task, left, tocopy, done, hits>>

SkipEnd ==
    /\ pc = "skip_end"
    /\ r' = WrapIndex(r) /\ pc' = "idle" /\ task' = "none" /\ hits' = 0 /\ left' = 0
    /\ UNCHANGED <<mem, w, sent, next, inOrder, writerIsr, tocopy, done>>

-----------------------------------------------------------------------------
(* lwrb_write in the main program.                                         *)

WriteStart(btw) ==
    LET count == BUF_MIN(lwrb_get_free(w, r), btw) IN
    /\ pc = "idle" /\ ~writerIsr /\ count > 0
    /\ task' = "write" /\ pc' = "write" /\ left' = count /\ done' = 0
    /\ tocopy' = BUF_MIN(Size - w, count)
    /\ UNCHANGED <<mem, r, w, sent, next, inOrder, writerIsr, hits>>

WriteByte ==
    /\ \/ pc = "write" /\ done < tocopy /\ mem' = [mem EXCEPT ![w + done] = sent]
       \/ pc = "write_over" /\ done < left /\ mem' = [mem EXCEPT ![done] = sent]
    /\ sent' = (sent + 1) % M /\ done' = done + 1
    /\ UNCHANGED <<r, w, next, inOrder, writerIsr, task, pc, left, tocopy, hits>>

WriteLinearDone ==
    /\ pc = "write" /\ done = tocopy
    /\ w' = w + tocopy /\ left' = left - tocopy /\ done' = 0
    /\ pc' = IF left > tocopy THEN "write_over" ELSE "write_end"
    /\ UNCHANGED <<mem, r, sent, next, inOrder, writerIsr, task, tocopy, hits>>

WriteOverDone ==
    /\ pc = "write_over" /\ done = left
    /\ w' = left /\ pc' = "write_end"
    /\ UNCHANGED <<mem, r, sent, next, inOrder, writerIsr, task, left, tocopy, done, hits>>

WriteEnd ==
    /\ pc = "write_end"
    /\ w' = (IF w >= Size THEN 0 ELSE w) /\ pc' = "idle" /\ task' = "none" /\ hits' = 0
    /\ left' = 0 /\ tocopy' = 0 /\ done' = 0
    /\ UNCHANGED <<mem, r, sent, next, inOrder, writerIsr>>

(* A DMA has filled len bytes of the linear block; lwrb_advance.           *)
AdvanceStart(len) ==
    /\ pc = "idle" /\ ~writerIsr
    /\ len <= linear_block_write_length(w, r)
    /\ mem' = CopyIn(mem, w, Stamps(sent, len)) /\ sent' = (sent + len) % M
    /\ task' = "advance" /\ pc' = "advance" /\ left' = BUF_MIN(len, lwrb_get_free(w, r))
    /\ UNCHANGED <<r, w, next, inOrder, writerIsr, tocopy, done, hits>>

AdvanceMove ==
    /\ pc = "advance"
    /\ w' = w + left /\ pc' = "advance_end"
    /\ UNCHANGED <<mem, r, sent, next, inOrder, writerIsr, task, left, tocopy, done, hits>>

AdvanceEnd ==
    /\ pc = "advance_end"
    /\ w' = WrapIndex(w) /\ pc' = "idle" /\ task' = "none" /\ hits' = 0 /\ left' = 0
    /\ UNCHANGED <<mem, r, sent, next, inOrder, writerIsr, tocopy, done>>

-----------------------------------------------------------------------------
(* The interrupt handler: a whole lwrb_write or lwrb_read.                 *)
Interrupt ==
    \/ pc = "idle" /\ UNCHANGED hits
    \/ pc # "idle" /\ hits < MaxIsr[task] /\ hits' = hits + 1

IsrWrite(btw) ==
    LET count == BUF_MIN(lwrb_get_free(w, r), btw) IN
    /\ writerIsr /\ count > 0 /\ Interrupt
    /\ mem' = PutBytes(mem, w, Stamps(sent, count))
    /\ w' = NextIndex(w, count) /\ sent' = (sent + count) % M
    /\ UNCHANGED <<r, next, inOrder, writerIsr, task, pc, left, tocopy, done>>

IsrRead(btr) ==
    LET count == BUF_MIN(lwrb_get_full(w, r), btr) IN
    /\ ~writerIsr /\ count > 0 /\ Interrupt
    /\ inOrder' = (inOrder /\ GetBytes(mem, r, count) = Stamps(next, count))
    /\ r' = NextIndex(r, count) /\ next' = (next + count) % M
    /\ UNCHANGED <<mem, w, sent, writerIsr, task, pc, left, tocopy, done>>

Main ==
    \/ \E c \in 1 .. Size : ReadStart(c) \/ SkipStart(c) \/ WriteStart(c) \/ AdvanceStart(c)
    \/ ReadByte \/ ReadLinearDone \/ ReadOverDone \/ ReadEnd \/ SkipMove \/ SkipEnd
    \/ WriteByte \/ WriteLinearDone \/ WriteOverDone \/ WriteEnd \/ AdvanceMove \/ AdvanceEnd

Isr == \E c \in 1 .. Size : IsrWrite(c) \/ IsrRead(c)

PreemptNext == Main \/ Isr

PreemptSpec == PreemptInit /\ [][PreemptNext]_preemptVars

-----------------------------------------------------------------------------
\* Whenever the handler comes, the bytes read are the bytes written, each once
\* and in order: neither end works on a count the other has made stale.
InOrder == inOrder

\* lwrb.c:57: "Maximum number of bytes buffer can hold is `size - 1`": the count
\* the handler computes, whenever it comes, is that of a buffer of size - 1.
CapacityKept ==
    (pc = "idle" \/ hits < MaxIsr[task]) =>
    (IF writerIsr THEN lwrb_get_free(w, r) ELSE lwrb_get_full(w, r)) \in 0 .. Size - 1
============================================================================
