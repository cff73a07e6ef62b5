----------------------------- MODULE LogStream ------------------------------
(***************************************************************************)
(* What the asynchronous output of easylogger promises: the logs go to one *)
(* thread as a stream, in the order they were made.  Of a log that does    *)
(* not fit its end is dropped, and nothing else (elog_async.c:128).        *)
(***************************************************************************)
EXTENDS Integers, Sequences

CONSTANTS Logs,      \* logs that may be made, as sequences of characters
          Capacity,  \* characters the stream holds
          Chunk      \* characters taken at once

VARIABLES q,         \* what was put and not yet taken, oldest first
          taken      \* what was taken last

SInit == q = << >> /\ taken = << >>

SPut(d) ==
    LET room == Capacity - Len(q) IN
    /\ q' = q \o SubSeq(d, 1, IF Len(d) <= room THEN Len(d) ELSE room)
    /\ UNCHANGED taken

STake(n) ==
    /\ n <= Len(q)
    /\ taken' = SubSeq(q, 1, n) /\ q' = SubSeq(q, n + 1, Len(q))

SNext == (\E d \in Logs : SPut(d)) \/ (\E n \in 0 .. Chunk : STake(n))

SSpec == SInit /\ [][SNext]_<<q, taken>>
=============================================================================
