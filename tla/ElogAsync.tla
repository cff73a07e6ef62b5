----------------------------- MODULE ElogAsync ------------------------------
(***************************************************************************)
(* The asynchronous output of easylogger: threads that log put characters  *)
(* into the ring buffer of src/elog_async.c under the output lock of       *)
(* src/elog.c and post a semaphore; one thread takes them out under the    *)
(* lock and writes them to the port without it.  A step is what a thread   *)
(* does between two points where another one can see a difference.         *)
(***************************************************************************)
EXTENDS Integers, Sequences

CONSTANTS Threads,        \* threads that log
          Logs,           \* what they log, as sequences of characters
          Size,           \* OUTPUT_BUF_SIZE
          Poll,           \* ELOG_ASYNC_POLL_GET_LOG_BUF_SIZE
          MaxNotices,     \* SEM_VALUE_MAX
          Newline,        \* ELOG_NEWLINE_SIGN
          Builds          \* values of ELOG_ASYNC_LINE_OUTPUT

Unset == "unset"
\* What a cell of the buffer may hold.
Char == {Unset} \cup UNION {{d[i] : i \in 1 .. Len(d)} : d \in Logs}

ASSUME ElogAssumption == /\ Size \in Nat \ {0} /\ Poll \in Nat \ {0} /\ MaxNotices \in Nat \ {0}
                         /\ "out" \notin Threads /\ "none" \notin Threads
                         /\ \A d \in Logs : d \in Seq(Char) /\ Len(d) > 0
                         /\ Len(Newline) \in Nat \ {0} /\ Builds \subseteq BOOLEAN

VARIABLES line,           \* ELOG_ASYNC_LINE_OUTPUT of this build
          is_enabled,
          log_buf, write_index, read_index, buf_is_full, buf_is_empty,
          lock,           \* the thread that holds the output lock
          notice,         \* the semaphore output_notice
          pc, job,        \* per thread: where it is, what it logs
          out,            \* where the output thread is
          poll_get_buf    \* what it has taken

ring == <<log_buf, write_index, read_index, buf_is_full, buf_is_empty>>
vars == <<line, is_enabled, ring, lock, notice, pc, job, out, poll_get_buf>>

Index == 0 .. Size - 1

Init == /\ line \in Builds /\ is_enabled = TRUE
        /\ log_buf = [i \in Index |-> Unset] /\ write_index = 0 /\ read_index = 0
        /\ buf_is_full = FALSE /\ buf_is_empty = TRUE
        /\ lock = "none" /\ notice = 0
        /\ pc = [t \in Threads |-> "idle"] /\ job = [t \in Threads |-> << >>]
        /\ out = "wait" /\ poll_get_buf = << >>

-----------------------------------------------------------------------------
(* The ring buffer                                                         *)

\* Mutant: a buffer that is full counts as empty.
MutantUsed ==
    IF write_index > read_index THEN write_index - read_index
    ELSE IF ~buf_is_full /\ ~buf_is_empty THEN Size - (read_index - write_index)
    ELSE 0

elog_async_get_buf_used ==
    IF write_index > read_index THEN write_index - read_index
    ELSE IF ~buf_is_full /\ ~buf_is_empty THEN Size - (read_index - write_index)
    ELSE IF buf_is_full THEN Size
    ELSE 0

Space == Size - elog_async_get_buf_used
\* An index after n characters.
Advance(i, n) == IF i + n < Size THEN i + n ELSE i + n - Size
Least(a, b) == IF a <= b THEN a ELSE b

\* The two memcpy around the end of the array.
CopyIn(i, d, n) ==
    [j \in Index |-> LET k == IF j >= i THEN j - i + 1 ELSE j - i + Size + 1 IN
                     IF k <= n THEN d[k] ELSE log_buf[j]]
Taken(n) == [k \in 1 .. n |-> log_buf[Advance(read_index, k - 1)]]

\* async_put_log: what does not fit is dropped.
async_put_log(d) ==
    LET n == Least(Space, Len(d)) IN
    IF Space = 0 THEN UNCHANGED ring
    ELSE /\ log_buf' = CopyIn(write_index, d, n) /\ write_index' = Advance(write_index, n)
         /\ buf_is_full' = (buf_is_full \/ Space <= Len(d))
         /\ buf_is_empty' = FALSE
         /\ UNCHANGED read_index

\* elog_cpyln: up to and with the first newline sign, else all.
elog_cpyln(d) ==
    LET n == Len(Newline)
        ends == {k \in n .. Len(d) : SubSeq(d, k - n + 1, k) = Newline}
    IN  IF ends = {} THEN Len(d) ELSE CHOOSE k \in ends : \A j \in ends : k <= j

\* How much is taken: elog_async_get_log, or elog_async_get_line_log, which looks for the
\* newline sign before and after the end of the array apart.
TakeSize ==
    LET n == Least(elog_async_get_buf_used, Poll)
        end == Size - read_index
        first == elog_cpyln(Taken(Least(n, end)))
    IN  IF ~line THEN n
        ELSE IF read_index + n < Size THEN first
        ELSE IF first = end THEN end + elog_cpyln(SubSeq(Taken(n), end + 1, n))
        ELSE first

elog_async_get_log ==
    LET n == TakeSize IN
    IF n = 0 THEN poll_get_buf' = << >> /\ UNCHANGED ring
    ELSE /\ poll_get_buf' = Taken(n) /\ read_index' = Advance(read_index, n)
         /\ buf_is_empty' = (buf_is_empty \/ n = elog_async_get_buf_used)
         /\ buf_is_full' = FALSE
         /\ UNCHANGED <<log_buf, write_index>>

-----------------------------------------------------------------------------
(* elog_output and elog_raw in a thread that logs                          *)

Acquire(t) == lock = "none" /\ lock' = t
Release(t) == lock' = "none"
Goto(t, to) == pc' = [pc EXCEPT ![t] = to]

\* elog_get_filter_tag_lvl looks at the filters under the lock of its own.
FilterLock(t) ==
    /\ pc[t] = "idle" /\ Acquire(t) /\ Goto(t, "filter")
    /\ UNCHANGED <<line, is_enabled, ring, notice, job, out, poll_get_buf>>

\* The log may be filtered out.
FilterUnlock(t) ==
    /\ pc[t] = "filter" /\ Release(t)
    /\ \/ Goto(t, "idle") /\ UNCHANGED job
       \/ Goto(t, "lock") /\ \E d \in Logs : job' = [job EXCEPT ![t] = d]
    /\ UNCHANGED <<line, is_enabled, ring, notice, out, poll_get_buf>>

\* elog_raw is not filtered.
elog_raw(t) ==
    /\ pc[t] = "idle" /\ Goto(t, "lock") /\ \E d \in Logs : job' = [job EXCEPT ![t] = d]
    /\ UNCHANGED <<line, is_enabled, ring, lock, notice, out, poll_get_buf>>

elog_output_lock(t) ==
    /\ pc[t] = "lock" /\ Acquire(t) /\ Goto(t, "put")
    /\ UNCHANGED <<line, is_enabled, ring, notice, job, out, poll_get_buf>>

\* The log does not hold the keyword that is set.
KeywordFilter(t) ==
    /\ pc[t] = "put" /\ Goto(t, "unlock")
    /\ UNCHANGED <<line, is_enabled, ring, lock, notice, job, out, poll_get_buf>>

\* elog_async_output: to the buffer, or at once to the port when the mode is off or the
\* level is below OUTPUT_LVL.
elog_async_output(t) ==
    /\ pc[t] = "put"
    /\ \/ is_enabled /\ async_put_log(job[t]) /\ Goto(t, IF Space > 0 THEN "notice" ELSE "unlock")
       \/ Goto(t, "direct") /\ UNCHANGED ring
    /\ UNCHANGED <<line, is_enabled, lock, notice, job, out, poll_get_buf>>

\* Mutant: the output thread is not told.
Mutant_output_notice(t) ==
    /\ pc[t] = "notice" /\ Goto(t, "unlock")
    /\ UNCHANGED <<line, is_enabled, ring, lock, notice, job, out, poll_get_buf>>

\* sem_post
elog_async_output_notice(t) ==
    /\ pc[t] = "notice" /\ Goto(t, "unlock")
    /\ notice' = Least(notice + 1, MaxNotices)
    /\ UNCHANGED <<line, is_enabled, ring, lock, job, out, poll_get_buf>>

\* elog_port_output returns.
DirectOutput(t) ==
    /\ pc[t] = "direct" /\ Goto(t, "unlock")
    /\ UNCHANGED <<line, is_enabled, ring, lock, notice, job, out, poll_get_buf>>

elog_output_unlock(t) ==
    /\ pc[t] = "unlock" /\ Release(t) /\ Goto(t, "idle") /\ job' = [job EXCEPT ![t] = << >>]
    /\ UNCHANGED <<line, is_enabled, ring, notice, out, poll_get_buf>>

\* It takes no lock.
elog_async_enabled(b) ==
    /\ is_enabled' = b /\ is_enabled # b
    /\ UNCHANGED <<line, ring, lock, notice, pc, job, out, poll_get_buf>>

-----------------------------------------------------------------------------
(* async_output, the output thread                                         *)

SemWait ==
    /\ out = "wait" /\ notice > 0 /\ notice' = notice - 1 /\ out' = "lock"
    /\ UNCHANGED <<line, is_enabled, ring, lock, pc, job, poll_get_buf>>

GetLock ==
    /\ out = "lock" /\ Acquire("out") /\ out' = "get"
    /\ UNCHANGED <<line, is_enabled, ring, notice, pc, job, poll_get_buf>>

Get ==
    /\ out = "get" /\ out' = "unlock" /\ elog_async_get_log
    /\ UNCHANGED <<line, is_enabled, lock, notice, pc, job>>

\* The loop goes on until nothing is left.
GetUnlock ==
    /\ out = "unlock" /\ Release("out")
    /\ out' = IF poll_get_buf # << >> THEN "output" ELSE "wait"
    /\ UNCHANGED <<line, is_enabled, ring, notice, pc, job, poll_get_buf>>

\* Mutant: one chunk is written for each notice.
MutantOutput ==
    /\ out = "output" /\ out' = "wait"
    /\ UNCHANGED <<line, is_enabled, ring, lock, notice, pc, job, poll_get_buf>>

\* elog_port_output returns.
Output ==
    /\ out = "output" /\ out' = "lock"
    /\ UNCHANGED <<line, is_enabled, ring, lock, notice, pc, job, poll_get_buf>>

Thread(t) ==
    \/ FilterLock(t) \/ FilterUnlock(t) \/ elog_raw(t)
    \/ elog_output_lock(t) \/ KeywordFilter(t) \/ elog_async_output(t) \/ elog_async_output_notice(t)
    \/ DirectOutput(t) \/ elog_output_unlock(t)

Next ==
    \/ \E t \in Threads : Thread(t)
    \/ \E b \in BOOLEAN : elog_async_enabled(b)
    \/ SemWait \/ GetLock \/ Get \/ GetUnlock \/ Output

\* A thread that holds the lock goes on.  The output thread runs, and since it has the
\* highest priority but one (elog_async.c:47) it gets the lock when it is free again and again.
Inside(t) == \/ FilterUnlock(t) \/ KeywordFilter(t) \/ elog_async_output(t)
             \/ elog_async_output_notice(t) \/ DirectOutput(t) \/ elog_output_unlock(t)
Fairness ==
    /\ \A t \in Threads : WF_vars(Inside(t))
    /\ WF_vars(SemWait \/ Get \/ GetUnlock \/ Output) /\ SF_vars(GetLock)

Spec == Init /\ [][Next]_vars /\ Fairness

-----------------------------------------------------------------------------
(* Properties                                                              *)

Locked == {"filter", "put", "notice", "direct", "unlock"}

TypeOK ==
    /\ line \in BOOLEAN /\ is_enabled \in BOOLEAN /\ write_index \in Index /\ read_index \in Index
    /\ buf_is_full \in BOOLEAN /\ buf_is_empty \in BOOLEAN /\ log_buf \in [Index -> Char]
    /\ lock \in Threads \cup {"out", "none"} /\ notice \in 0 .. MaxNotices
    /\ pc \in [Threads -> Locked \cup {"idle", "lock"}] /\ job \in [Threads -> Logs \cup {<< >>}]
    /\ out \in {"wait", "lock", "get", "unlock", "output"} /\ poll_get_buf \in Seq(Char)

\* The two flags and the two indices say the same of the buffer, whatever fits, is cut or is
\* read back to the last character: equal indices mean full or empty and never both, and
\* different ones neither.
FlagsAgree ==
    /\ ~(buf_is_full /\ buf_is_empty)
    /\ (write_index = read_index) = (buf_is_full \/ buf_is_empty)

\* As long as there is something in the buffer the output thread is at work, or a notice is
\* waiting for it, or the thread that put it there is about to post one: no order of put,
\* post, wait and the last read of the loop leaves a log behind.
NoLostWakeup == ~buf_is_empty => notice > 0 \/ out # "wait" \/ \E t \in Threads : pc[t] = "notice"

Stream == INSTANCE LogStream WITH
    Capacity <- Size, Chunk <- Poll, q <- Taken(elog_async_get_buf_used), taken <- poll_get_buf

\* What the output thread takes is what was put, in order and without a gap, and only the end
\* of a log is ever dropped, with either way of reading.
IsStream == Stream!SSpec

\* What is in the buffer is written to the port in the end, however busy the other threads.
Drains == ~buf_is_empty ~> out = "output"
=============================================================================
