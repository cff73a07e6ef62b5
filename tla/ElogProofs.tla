----------------------------- MODULE ElogProofs -----------------------------
(***************************************************************************)
(* Theorems about the asynchronous output of easylogger for any number of  *)
(* threads, any logs, any newline sign and every size of the ring buffer,  *)
(* of a chunk and of the semaphore, with both ways of reading.             *)
(***************************************************************************)
EXTENDS ElogAsync, SequenceTheorems, WellFoundedInduction, TLAPS

\* A set of numbers that is not empty has a least one.
LEMMA LeastOf ==
    ASSUME NEW T, T \subseteq Nat, T # {}
    PROVE  \E x \in T : \A y \in T : x <= y
  <1> DEFINE R == OpToRel(<, Nat)
  <1>1. PICK x \in T : \A y \in T : ~(<<y, x>> \in R)
    <2>1. IsWellFoundedOn(R, Nat)
      BY NatLessThanWellFounded
    <2> HIDE DEF R
    <2> QED BY <2>1, WFMin
  <1>2. \A y \in T : <<y, x>> \in R <=> y < x
    BY DEF OpToRel
  <1> HIDE DEF R
  <1>3. \A y \in T : ~(y < x)
    BY <1>1, <1>2
  <1> QED BY <1>3

-----------------------------------------------------------------------------
(* The ring buffer                                                         *)

\* What the two indices and the two flags say of the buffer.
Ring == /\ write_index \in Index /\ read_index \in Index
        /\ buf_is_full \in BOOLEAN /\ buf_is_empty \in BOOLEAN
        /\ log_buf \in [Index -> Char] /\ FlagsAgree

\* elog_async_get_buf_used of any indices and flags.
UsedOf(wi, ri, full, empty) ==
    IF wi > ri THEN wi - ri
    ELSE IF ~full /\ ~empty THEN Size - (ri - wi)
    ELSE IF full THEN Size
    ELSE 0

\* It is the way from the read to the write index, going round; the flags are its two ends.
LEMMA UsedOfIs ==
    ASSUME NEW wi \in Index, NEW ri \in Index, NEW full \in BOOLEAN, NEW empty \in BOOLEAN,
           ~(full /\ empty), (wi = ri) = (full \/ empty)
    PROVE  /\ UsedOf(wi, ri, full, empty) \in 0 .. Size
           /\ Advance(ri, UsedOf(wi, ri, full, empty)) = wi
           /\ empty <=> UsedOf(wi, ri, full, empty) = 0
           /\ full <=> UsedOf(wi, ri, full, empty) = Size
  <1>1. Size \in Nat /\ Size > 0 /\ wi \in 0 .. Size - 1 /\ ri \in 0 .. Size - 1
    BY ElogAssumption DEF Index
  <1>2. CASE wi > ri
    <2>1. UsedOf(wi, ri, full, empty) = wi - ri /\ ~full /\ ~empty
      BY <1>1, <1>2 DEF UsedOf
    <2> QED BY <1>1, <1>2, <2>1 DEF Advance
  <1>3. CASE wi < ri
    <2>1. ~full /\ ~empty
      BY <1>1, <1>3
    <2>2. UsedOf(wi, ri, full, empty) = Size - (ri - wi)
      BY <1>1, <1>3, <2>1 DEF UsedOf
    <2> QED BY <1>1, <1>3, <2>1, <2>2 DEF Advance
  <1>4. CASE wi = ri
    <2>1. CASE full
      <3>1. ~empty /\ ~(wi > ri)
        BY <1>1, <1>4, <2>1
      <3>2. UsedOf(wi, ri, full, empty) = Size
        BY <2>1, <3>1 DEF UsedOf
      <3>3. Advance(ri, Size) = wi /\ Size \in 0 .. Size /\ Size # 0
        BY <1>1, <1>4 DEF Advance
      <3> QED BY <2>1, <3>1, <3>2, <3>3
    <2>2. CASE empty
      <3>1. ~full /\ ~(wi > ri)
        BY <1>1, <1>4, <2>2
      <3>2. UsedOf(wi, ri, full, empty) = 0
        BY <2>2, <3>1 DEF UsedOf
      <3>3. Advance(ri, 0) = wi /\ 0 \in 0 .. Size /\ Size # 0
        BY <1>1, <1>4 DEF Advance
      <3> QED BY <2>2, <3>1, <3>2, <3>3
    <2> QED BY <1>4, <2>1, <2>2
  <1> QED BY <1>1, <1>2, <1>3, <1>4

\* The same of the buffer as it is.
LEMMA UsedIs ==
    ASSUME Ring
    PROVE  /\ elog_async_get_buf_used \in 0 .. Size
           /\ Advance(read_index, elog_async_get_buf_used) = write_index
           /\ buf_is_empty <=> elog_async_get_buf_used = 0
           /\ buf_is_full <=> elog_async_get_buf_used = Size
           /\ Space \in 0 .. Size /\ Space = Size - elog_async_get_buf_used
  <1>1. elog_async_get_buf_used = UsedOf(write_index, read_index, buf_is_full, buf_is_empty)
    BY DEF elog_async_get_buf_used, UsedOf
  <1>2. /\ elog_async_get_buf_used \in 0 .. Size
        /\ Advance(read_index, elog_async_get_buf_used) = write_index
        /\ buf_is_empty <=> elog_async_get_buf_used = 0
        /\ buf_is_full <=> elog_async_get_buf_used = Size
    BY <1>1, UsedOfIs DEF Ring, FlagsAgree
  <1> QED BY <1>2, ElogAssumption DEF Space

\* The same of the state after a step.
LEMMA UsedWillBe ==
    ASSUME Ring'
    PROVE  /\ elog_async_get_buf_used' \in 0 .. Size
           /\ Advance(read_index', elog_async_get_buf_used') = write_index'
           /\ buf_is_empty' <=> elog_async_get_buf_used' = 0
           /\ buf_is_full' <=> elog_async_get_buf_used' = Size
  <1>1. elog_async_get_buf_used' = UsedOf(write_index', read_index', buf_is_full', buf_is_empty')
    BY DEF elog_async_get_buf_used, UsedOf
  <1> QED BY <1>1, UsedOfIs DEF Ring, FlagsAgree

\* The cells that are taken are characters.
LEMMA TakenIs ==
    ASSUME Ring, NEW n \in 0 .. Size
    PROVE  /\ Taken(n) \in Seq(Char) /\ Len(Taken(n)) = n
           /\ \A k \in 1 .. n : /\ Advance(read_index, k - 1) \in Index
                                /\ Taken(n)[k] = log_buf[Advance(read_index, k - 1)]
                                /\ Taken(n)[k] \in Char
  <1>1. \A k \in 1 .. n : Advance(read_index, k - 1) \in Index
    BY ElogAssumption DEF Ring, Index, Advance
  <1>2. \A k \in 1 .. n : log_buf[Advance(read_index, k - 1)] \in Char
    BY <1>1 DEF Ring
  <1>3. Taken(n) \in [1 .. n -> Char]
    BY <1>2 DEF Taken
  <1>4. n \in Nat
    BY ElogAssumption
  <1>5. Taken(n) \in Seq(Char) /\ Len(Taken(n)) = n
    BY <1>3, <1>4
  <1> QED BY <1>1, <1>2, <1>5 DEF Taken

\* elog_cpyln copies something when there is something, and never more.
LEMMA LineIs ==
    ASSUME NEW d \in Seq(Char)
    PROVE  elog_cpyln(d) \in 0 .. Len(d) /\ (Len(d) > 0 => elog_cpyln(d) > 0)
  <1> DEFINE n == Len(Newline)
             ends == {k \in n .. Len(d) : SubSeq(d, k - n + 1, k) = Newline}
  <1>1. n \in Nat /\ n > 0
    BY ElogAssumption
  <1>2. ends \subseteq Nat /\ \A k \in ends : k \in 1 .. Len(d)
    BY <1>1
  <1>3. elog_cpyln(d) = IF ends = {} THEN Len(d) ELSE CHOOSE k \in ends : \A j \in ends : k <= j
    BY DEF elog_cpyln
  <1> HIDE DEF ends, n
  <1>4. CASE ends = {}
    BY <1>3, <1>4
  <1>5. CASE ends # {}
    <2>1. \E k \in ends : \A j \in ends : k <= j
      BY <1>2, <1>5, LeastOf
    <2>2. elog_cpyln(d) \in ends
      BY <1>3, <1>5, <2>1
    <2>3. elog_cpyln(d) \in 1 .. Len(d)
      BY <1>2, <2>2, Zenon
    <2>4. Len(d) \in Nat
      OBVIOUS
    <2> QED BY <2>3, <2>4
  <1> QED BY <1>4, <1>5

\* Either way of reading takes something when there is something, and no more than there is
\* or than the chunk holds.
LEMMA TakeSizeIs ==
    ASSUME Ring, line \in BOOLEAN
    PROVE  /\ TakeSize \in 0 .. elog_async_get_buf_used /\ TakeSize \in 0 .. Poll
           /\ TakeSize = 0 <=> elog_async_get_buf_used = 0
  <1> DEFINE u == elog_async_get_buf_used
             n == Least(u, Poll)
             end == Size - read_index
             first == elog_cpyln(Taken(Least(n, end)))
             second == elog_cpyln(SubSeq(Taken(n), end + 1, n))
  <1>1. u \in 0 .. Size /\ Size \in Nat /\ Size > 0 /\ Poll \in Nat /\ Poll > 0
    BY UsedIs, ElogAssumption
  <1>2. end \in 1 .. Size /\ read_index \in 0 .. Size - 1
    BY <1>1 DEF Ring, Index
  <1>3. TakeSize = IF ~line THEN n ELSE IF read_index + n < Size THEN first
                   ELSE IF first = end THEN end + second ELSE first
    BY DEF TakeSize
  <1> HIDE DEF u
  <1>4. n \in 0 .. u /\ n \in 0 .. Poll /\ n \in 0 .. Size /\ (n = 0 <=> u = 0)
    BY <1>1 DEF Least
  <1> HIDE DEF n
  <1>5. Least(n, end) \in 0 .. Size /\ Least(n, end) = IF read_index + n < Size THEN n ELSE end
    BY <1>1, <1>2, <1>4 DEF Least
  <1>6. /\ Taken(Least(n, end)) \in Seq(Char)
        /\ Len(Taken(Least(n, end))) = Least(n, end) /\ Least(n, end) \in Nat
    BY <1>1, <1>5, TakenIs
  <1>7. first \in 0 .. Least(n, end) /\ (Least(n, end) > 0 => first > 0)
    BY <1>6, LineIs
  <1>8. ASSUME ~(read_index + n < Size)
        PROVE  second \in 0 .. n - end
    <2>1. n \in Nat /\ end \in Nat /\ end + 1 \in Int /\ end <= n
      BY <1>1, <1>2, <1>4, <1>8
    <2>2. \A i \in end + 1 .. n : Taken(n)[i] \in Char
      BY <1>2, <1>4, <2>1, TakenIs
    <2>3. /\ SubSeq(Taken(n), end + 1, n) \in Seq(Char)
          /\ Len(SubSeq(Taken(n), end + 1, n)) = IF end + 1 <= n THEN n - (end + 1) + 1 ELSE 0
      BY <2>1, <2>2, SubSeqProperties
    <2>4. Len(SubSeq(Taken(n), end + 1, n)) = n - end /\ n - end \in Nat
      BY <2>1, <2>3
    <2> QED BY <2>3, <2>4, LineIs
  <1> HIDE DEF first, second, end
  <1>9. CASE ~line
    BY <1>3, <1>4, <1>9 DEF u
  <1>10. CASE line /\ read_index + n < Size
    <2>1. TakeSize = first /\ first \in 0 .. n /\ (n > 0 => first > 0)
      BY <1>3, <1>5, <1>7, <1>10
    <2> QED BY <1>1, <1>4, <2>1 DEF u
  <1>11. CASE line /\ ~(read_index + n < Size)
    <2>1. first \in 1 .. end /\ end <= n
      BY <1>1, <1>2, <1>4, <1>5, <1>7, <1>11 DEF end
    <2>2. second \in 0 .. n - end
      BY <1>8, <1>11
    <2>3. TakeSize \in 1 .. n
      BY <1>2, <1>3, <1>4, <1>11, <2>1, <2>2
    <2> QED BY <1>1, <1>4, <2>3 DEF u
  <1> QED BY <1>9, <1>10, <1>11

\* Going round is one to one as long as it is no full round.
LEMMA AdvanceIs ==
    ASSUME NEW i \in Index, NEW m \in 0 .. Size
    PROVE  /\ Advance(i, m) \in Index
           /\ \A n \in 0 .. Size :
                 /\ (Advance(i, m) = Advance(i, n)) => (m = n \/ (m = 0 /\ n = Size) \/ (m = Size /\ n = 0))
                 /\ m + n <= Size => Advance(Advance(i, m), n) = Advance(i, m + n)
  <1>1. Size \in Nat /\ Size > 0 /\ i \in 0 .. Size - 1
    BY ElogAssumption DEF Index
  <1>2. Advance(i, m) \in Index
    BY <1>1 DEF Advance, Index
  <1> SUFFICES ASSUME NEW n \in 0 .. Size
               PROVE  /\ (Advance(i, m) = Advance(i, n)) => (m = n \/ (m = 0 /\ n = Size) \/ (m = Size /\ n = 0))
                      /\ m + n <= Size => Advance(Advance(i, m), n) = Advance(i, m + n)
    BY <1>2
  <1>3. (Advance(i, m) = Advance(i, n)) => (m = n \/ (m = 0 /\ n = Size) \/ (m = Size /\ n = 0))
    BY <1>1 DEF Advance
  <1>4. m + n <= Size => Advance(Advance(i, m), n) = Advance(i, m + n)
    BY <1>1 DEF Advance
  <1> QED BY <1>3, <1>4

\* The lesser of two numbers.
LEMMA LeastIs ==
    ASSUME NEW a \in Nat, NEW b \in Nat
    PROVE  Least(a, b) \in Nat /\ Least(a, b) <= a /\ Least(a, b) <= b /\ Least(a, b) \in {a, b}
  BY DEF Least

\* async_put_log keeps flags and indices in agreement, and n more cells are used.
LEMMA PutKeeps ==
    ASSUME Ring, NEW d \in Logs, async_put_log(d), NEW n, n = Least(Space, Len(d))
    PROVE  /\ Ring'
           /\ n \in 0 .. Len(d) /\ n <= Space /\ elog_async_get_buf_used' = elog_async_get_buf_used + n
           /\ Space > 0 => ~buf_is_empty'
  <1> DEFINE u == elog_async_get_buf_used
  <1>1. /\ d \in Seq(Char) /\ Len(d) \in Nat /\ Len(d) > 0 /\ Size \in Nat /\ Size > 0
    BY ElogAssumption
  <1>2. /\ u \in 0 .. Size /\ Space \in 0 .. Size /\ Space = Size - u
        /\ Advance(read_index, u) = write_index
        /\ (buf_is_empty <=> u = 0) /\ (buf_is_full <=> u = Size)
    BY UsedIs
  <1>3. n \in 0 .. Len(d) /\ n <= Space /\ n \in {Space, Len(d)}
    BY <1>1, <1>2, LeastIs
  <1>4. CASE Space = 0
    <2>1. UNCHANGED ring
      BY <1>4 DEF async_put_log
    <2>2. Ring' /\ u' = u
      BY <2>1 DEF ring, Ring, FlagsAgree, elog_async_get_buf_used
    <2> QED BY <1>2, <1>3, <1>4, <2>2
  <1>5. CASE Space # 0
    <2>1. /\ log_buf' = CopyIn(write_index, d, n) /\ write_index' = Advance(write_index, n)
          /\ buf_is_full' = (buf_is_full \/ Space <= Len(d)) /\ buf_is_empty' = FALSE
          /\ read_index' = read_index
      BY <1>5 DEF async_put_log
    <2>2. n >= 1 /\ ~buf_is_full /\ buf_is_full' = (n = Space)
      BY <1>1, <1>2, <1>3, <1>5, <2>1 DEF Ring, Least
    <2>3. read_index \in Index /\ write_index \in Index
      BY DEF Ring
    <2> HIDE DEF u
    <2>4. /\ write_index' \in Index /\ write_index' = Advance(read_index, u + n)
          /\ u + n \in 1 .. Size /\ (n = Space <=> u + n = Size)
      <3>1. n \in 0 .. Size /\ u + n <= Size /\ u + n \in 1 .. Size /\ (n = Space <=> u + n = Size)
        BY <1>1, <1>2, <1>3, <2>2
      <3>2. Advance(write_index, n) = Advance(read_index, u + n)
        BY <1>2, <2>3, <3>1, AdvanceIs
      <3>3. u + n \in 0 .. Size
        BY <1>1, <3>1
      <3> QED BY <2>1, <2>3, <3>1, <3>2, <3>3, AdvanceIs
    <2>5. write_index' = read_index' <=> u + n = Size
      BY <1>1, <2>1, <2>3, <2>4 DEF Advance, Index
    <2>6. log_buf' \in [Index -> Char]
      <3>1. \A k \in 1 .. n : d[k] \in Char
        BY <1>1, <1>3
      <3>2. ASSUME NEW j \in Index
            PROVE  LET k == IF j >= write_index THEN j - write_index + 1 ELSE j - write_index + Size + 1
                   IN  k <= n => k \in 1 .. n
        BY <1>1, <1>3, <2>3 DEF Index
      <3> QED BY <2>1, <3>1, <3>2 DEF CopyIn, Ring
    <2>7. Ring'
      BY <2>1, <2>2, <2>3, <2>4, <2>5, <2>6 DEF Ring, FlagsAgree
    <2>8. u' = u + n
      <3>1. u' \in 0 .. Size /\ Advance(read_index, u') = Advance(read_index, u + n) /\ u' # 0
        <4>1. ~buf_is_empty'
          BY <2>1
        <4>2. /\ u' \in 0 .. Size /\ Advance(read_index', u') = write_index' /\ u' # 0
          BY <2>7, <4>1, UsedWillBe DEF u
        <4> QED BY <2>1, <2>4, <4>2
      <3>2. u + n \in 0 .. Size /\ u + n # 0
        BY <1>1, <2>4
      <3> QED BY <2>3, <3>1, <3>2, AdvanceIs
    <2> QED BY <1>3, <2>1, <2>7, <2>8 DEF u
  <1> QED BY <1>4, <1>5

\* Reading takes the oldest cells, n of them; when it takes none the buffer is empty.
LEMMA GetKeeps ==
    ASSUME Ring, line \in BOOLEAN, elog_async_get_log, NEW n, n = TakeSize
    PROVE  /\ Ring' /\ n \in 0 .. elog_async_get_buf_used /\ n \in 0 .. Poll
           /\ poll_get_buf' = Taken(n) /\ poll_get_buf' \in Seq(Char)
           /\ log_buf' = log_buf /\ read_index' = Advance(read_index, n)
           /\ elog_async_get_buf_used' = elog_async_get_buf_used - n
           /\ poll_get_buf' = << >> => buf_is_empty'
  <1> DEFINE u == elog_async_get_buf_used
  <1>1. /\ Size \in Nat /\ Size > 0 /\ Poll \in Nat /\ read_index \in Index /\ write_index \in Index
    BY ElogAssumption DEF Ring
  <1>2. /\ u \in 0 .. Size /\ Advance(read_index, u) = write_index
        /\ (buf_is_empty <=> u = 0) /\ (buf_is_full <=> u = Size)
    BY UsedIs
  <1>3. n \in 0 .. u /\ n \in 0 .. Poll /\ (n = 0 <=> u = 0)
    BY TakeSizeIs
  <1>4. n \in 0 .. Size /\ u - n \in 0 .. Size /\ n + (u - n) = u /\ n + (u - n) <= Size
    BY <1>1, <1>2, <1>3
  <1>5. Taken(n) \in Seq(Char) /\ Len(Taken(n)) = n
    BY <1>4, TakenIs
  <1>6. CASE n = 0
    <2>1. poll_get_buf' = << >> /\ UNCHANGED ring
      BY <1>6 DEF elog_async_get_log
    <2>2. Ring' /\ u' = u
      BY <2>1 DEF ring, Ring, FlagsAgree, elog_async_get_buf_used
    <2>3. Taken(n) = << >>
      BY <1>5, <1>6
    <2>4. Advance(read_index, n) = read_index
      BY <1>1, <1>6 DEF Advance, Index
    <2>5. buf_is_empty' /\ u' = u - n
      BY <1>2, <1>3, <1>6, <2>1, <2>2 DEF ring
    <2> QED BY <1>3, <1>5, <2>1, <2>2, <2>3, <2>4, <2>5 DEF ring
  <1>7. CASE n # 0
    <2>1. /\ poll_get_buf' = Taken(n) /\ read_index' = Advance(read_index, n)
          /\ buf_is_empty' = (buf_is_empty \/ n = u) /\ buf_is_full' = FALSE
          /\ log_buf' = log_buf /\ write_index' = write_index
      BY <1>7 DEF elog_async_get_log
    <2>2. ~buf_is_empty
      BY <1>2, <1>3, <1>7
    <2>3. buf_is_empty' <=> u = n
      BY <2>1, <2>2
    <2> HIDE DEF u
    <2>4. read_index' \in Index /\ Advance(read_index', u - n) = write_index
      BY <1>1, <1>2, <1>4, <2>1, AdvanceIs
    <2>5. u - n < Size
      BY <1>1, <1>2, <1>3, <1>7
    <2>6. write_index' = read_index' <=> u = n
      <3>1. CASE u = n
        BY <1>1, <1>2, <2>1, <3>1
      <3>2. CASE u # n
        <4>1. u - n \in 1 .. Size - 1
          BY <1>1, <1>2, <1>3, <2>5, <3>2
        <4> QED BY <1>1, <2>1, <2>4, <3>2, <4>1 DEF Advance, Index
      <3> QED BY <3>1, <3>2
    <2>7. Ring'
      <3>1. buf_is_empty' \in BOOLEAN /\ buf_is_full' \in BOOLEAN /\ ~buf_is_full'
        BY <2>1
      <3>2. (write_index' = read_index') = (buf_is_full' \/ buf_is_empty')
        BY <2>3, <2>6, <3>1
      <3> QED BY <1>1, <2>1, <2>4, <3>1, <3>2 DEF Ring, FlagsAgree
    <2>8. u' = u - n
      <3>1. /\ u' \in 0 .. Size /\ Advance(read_index', u') = write_index' /\ u' # Size
        BY <2>1, <2>7, UsedWillBe DEF u
      <3>2. Advance(read_index', u') = Advance(read_index', u - n)
        BY <2>1, <2>4, <3>1
      <3>3. u - n # Size
        BY <1>1, <1>4, <2>5
      <3> QED BY <1>4, <2>4, <3>1, <3>2, <3>3, AdvanceIs
    <2>9. poll_get_buf' # << >>
      BY <1>5, <1>7, <2>1
    <2> QED BY <1>3, <1>5, <2>1, <2>7, <2>8, <2>9 DEF u
  <1> QED BY <1>6, <1>7

-----------------------------------------------------------------------------
(* The invariant                                                           *)

\* The lock belongs to the thread that is between taking and giving it back.
LockHeld ==
    /\ \A t \in Threads : pc[t] \in Locked <=> lock = t
    /\ out \in {"get", "unlock"} <=> lock = "out"

\* A thread that is about to put has something to put.
HasJob == \A t \in Threads : pc[t] \in {"lock", "put"} => job[t] \in Logs

\* The output thread goes back to wait only when it left nothing.
Emptied == out = "unlock" /\ poll_get_buf = << >> => buf_is_empty

IInv == TypeOK /\ FlagsAgree /\ LockHeld /\ HasJob /\ Emptied /\ NoLostWakeup

\* The program starts in it.
LEMMA InitIInv == Init => IInv
  <1> SUFFICES ASSUME Init PROVE IInv
    OBVIOUS
  <1>1. 0 \in Index /\ 0 \in 0 .. MaxNotices /\ Unset \in Char /\ << >> \in Seq(Char)
    BY ElogAssumption DEF Index, Char
  <1>2. TypeOK
    <2>1. log_buf \in [Index -> Char]
      BY <1>1 DEF Init
    <2>2. /\ line \in BOOLEAN /\ is_enabled \in BOOLEAN /\ write_index \in Index /\ read_index \in Index
          /\ buf_is_full \in BOOLEAN /\ buf_is_empty \in BOOLEAN
      BY <1>1, ElogAssumption DEF Init
    <2>3. /\ lock \in Threads \cup {"out", "none"} /\ notice \in 0 .. MaxNotices
          /\ pc \in [Threads -> Locked \cup {"idle", "lock"}] /\ job \in [Threads -> Logs \cup {<< >>}]
          /\ out \in {"wait", "lock", "get", "unlock", "output"} /\ poll_get_buf \in Seq(Char)
      BY <1>1 DEF Init
    <2> QED BY <2>1, <2>2, <2>3 DEF TypeOK
  <1>3. FlagsAgree /\ Emptied /\ NoLostWakeup
    BY DEF Init, FlagsAgree, Emptied, NoLostWakeup
  <1>4. LockHeld
    BY ElogAssumption DEF Init, LockHeld, Locked
  <1>5. HasJob
    BY DEF Init, HasJob
  <1> QED BY <1>2, <1>3, <1>4, <1>5 DEF IInv

\* What is left alone keeps its part of the invariant.
LEMMA RingStays ==
    ASSUME TypeOK, FlagsAgree, UNCHANGED ring
    PROVE  /\ write_index' \in Index /\ read_index' \in Index /\ buf_is_full' \in BOOLEAN
           /\ buf_is_empty' \in BOOLEAN /\ log_buf' \in [Index -> Char] /\ FlagsAgree'
           /\ buf_is_empty' = buf_is_empty
  BY DEF TypeOK, FlagsAgree, ring

\* A thread that logs and leaves the buffer alone.
LEMMA ThreadKeeps ==
    ASSUME IInv, NEW t \in Threads, Thread(t), UNCHANGED ring
    PROVE  IInv'
  <1> USE DEF Goto, Acquire, Release
  <1>1. /\ TypeOK /\ FlagsAgree /\ LockHeld /\ HasJob /\ Emptied /\ NoLostWakeup
        /\ t # "out" /\ t # "none" /\ \A s \in Threads : s # "out" /\ s # "none"
    BY ElogAssumption DEF IInv
  <1>2. UNCHANGED <<line, is_enabled, out, poll_get_buf>>
    BY DEF Thread, FilterLock, FilterUnlock, elog_raw, elog_output_lock, KeywordFilter,
       elog_async_output, elog_async_output_notice, DirectOutput, elog_output_unlock
  <1>3. notice' \in 0 .. MaxNotices /\ (notice > 0 => notice' > 0) /\ (pc[t] = "notice" => notice' > 0)
    <2>1. MaxNotices \in Nat /\ MaxNotices > 0 /\ notice \in 0 .. MaxNotices
      BY <1>1, ElogAssumption DEF TypeOK
    <2>2. CASE elog_async_output_notice(t)
      BY <2>1, <2>2 DEF elog_async_output_notice, Least
    <2>3. CASE ~elog_async_output_notice(t)
      <3>1. notice' = notice /\ pc[t] # "notice"
        BY <2>3 DEF Thread, FilterLock, FilterUnlock, elog_raw, elog_output_lock, KeywordFilter,
           elog_async_output, DirectOutput, elog_output_unlock
      <3> QED BY <2>1, <3>1
    <2> QED BY <2>2, <2>3
  <1>4. \E to \in Locked \cup {"idle", "lock"} :
           /\ pc' = [pc EXCEPT ![t] = to]
           /\ \/ pc[t] \in Locked /\ to \in Locked /\ lock' = lock
              \/ pc[t] \in Locked /\ to \notin Locked /\ lock' = "none"
              \/ pc[t] \notin Locked /\ to \notin Locked /\ lock' = lock
              \/ pc[t] \notin Locked /\ to \in Locked /\ lock = "none" /\ lock' = t
           /\ \/ job' = job /\ (to \in {"lock", "put"} => pc[t] = "lock")
              \/ \E d \in Logs : job' = [job EXCEPT ![t] = d]
              \/ to = "idle" /\ job' = [job EXCEPT ![t] = << >>]
    BY <1>1 DEF Thread, FilterLock, FilterUnlock, elog_raw, elog_output_lock, KeywordFilter,
       elog_async_output, elog_async_output_notice, DirectOutput, elog_output_unlock, Locked
  <1>5. PICK to \in Locked \cup {"idle", "lock"} :
           /\ pc' = [pc EXCEPT ![t] = to]
           /\ \/ pc[t] \in Locked /\ to \in Locked /\ lock' = lock
              \/ pc[t] \in Locked /\ to \notin Locked /\ lock' = "none"
              \/ pc[t] \notin Locked /\ to \notin Locked /\ lock' = lock
              \/ pc[t] \notin Locked /\ to \in Locked /\ lock = "none" /\ lock' = t
           /\ \/ job' = job /\ (to \in {"lock", "put"} => pc[t] = "lock")
              \/ \E d \in Logs : job' = [job EXCEPT ![t] = d]
              \/ to = "idle" /\ job' = [job EXCEPT ![t] = << >>]
    BY <1>4
  <1>6. /\ pc' \in [Threads -> Locked \cup {"idle", "lock"}] /\ pc'[t] = to
        /\ \A s \in Threads \ {t} : pc'[s] = pc[s]
    BY <1>1, <1>5 DEF TypeOK
  <1>7. job' \in [Threads -> Logs \cup {<< >>}] /\ \A s \in Threads \ {t} : job'[s] = job[s]
    BY <1>1, <1>5 DEF TypeOK
  <1>8. lock' \in Threads \cup {"out", "none"}
    BY <1>1, <1>5 DEF TypeOK
  <1>9. TypeOK' /\ FlagsAgree'
    BY <1>1, <1>2, <1>3, <1>6, <1>7, <1>8, RingStays DEF TypeOK
  <1>10. LockHeld'
    <2>1. \A s \in Threads : pc'[s] \in Locked <=> lock' = s
      BY <1>1, <1>5, <1>6 DEF LockHeld
    <2>2. lock' = "out" <=> lock = "out"
      BY <1>1, <1>5 DEF LockHeld
    <2> QED BY <1>1, <1>2, <2>1, <2>2 DEF LockHeld
  <1>11. HasJob'
    <2> SUFFICES ASSUME NEW s \in Threads, pc'[s] \in {"lock", "put"} PROVE job'[s] \in Logs
      BY DEF HasJob
    <2>1. CASE s # t
      BY <1>1, <1>6, <1>7, <2>1 DEF HasJob
    <2>2. CASE s = t
      BY <1>1, <1>5, <1>6, <2>2 DEF HasJob, TypeOK
    <2> QED BY <2>1, <2>2
  <1>12. Emptied'
    BY <1>1, <1>2, RingStays DEF Emptied
  <1>13. NoLostWakeup'
    <2> SUFFICES ASSUME ~buf_is_empty', out' = "wait", ~(notice' > 0)
                 PROVE  \E s \in Threads : pc'[s] = "notice"
      BY DEF NoLostWakeup
    <2>1. ~buf_is_empty /\ out = "wait" /\ ~(notice > 0) /\ pc[t] # "notice"
      BY <1>1, <1>2, <1>3, RingStays
    <2>2. PICK s \in Threads : pc[s] = "notice"
      BY <1>1, <2>1 DEF NoLostWakeup
    <2> QED BY <1>6, <2>1, <2>2
  <1> QED BY <1>9, <1>10, <1>11, <1>12, <1>13 DEF IInv

\* A thread that puts what fits: it goes on to post unless nothing fitted.
LEMMA PutStepKeeps ==
    ASSUME IInv, NEW t \in Threads, pc[t] = "put", async_put_log(job[t]),
           pc' = [pc EXCEPT ![t] = IF Space > 0 THEN "notice" ELSE "unlock"],
           UNCHANGED <<line, is_enabled, lock, notice, job, out, poll_get_buf>>
    PROVE  IInv'
  <1>1. /\ TypeOK /\ FlagsAgree /\ LockHeld /\ HasJob /\ Emptied /\ NoLostWakeup
        /\ t # "out" /\ t # "none" /\ Ring /\ job[t] \in Logs
    BY ElogAssumption DEF IInv, Ring, TypeOK, HasJob
  <1>2. Ring' /\ (Space > 0 => ~buf_is_empty') /\ Space \in Nat
    BY <1>1, PutKeeps, UsedIs
  <1>3. /\ pc' \in [Threads -> Locked \cup {"idle", "lock"}]
        /\ pc'[t] = IF Space > 0 THEN "notice" ELSE "unlock"
        /\ \A s \in Threads \ {t} : pc'[s] = pc[s]
    BY <1>1 DEF TypeOK, Locked
  <1>4. TypeOK' /\ FlagsAgree'
    BY <1>1, <1>2, <1>3 DEF TypeOK, Ring
  <1>5. lock = t /\ out # "unlock"
    BY <1>1 DEF LockHeld, Locked
  <1>6. LockHeld' /\ HasJob' /\ Emptied'
    BY <1>1, <1>3, <1>5 DEF LockHeld, HasJob, Emptied, Locked
  <1>7. NoLostWakeup'
    <2>1. CASE Space > 0
      BY <1>3, <2>1 DEF NoLostWakeup
    <2>2. CASE ~(Space > 0)
      <3>1. UNCHANGED ring
        BY <1>2, <2>2 DEF async_put_log
      <3>2. buf_is_empty' = buf_is_empty
        BY <3>1 DEF ring
      <3>3. \A s \in Threads : pc[s] = "notice" => pc'[s] = "notice"
        BY <1>3
      <3> QED BY <1>1, <3>2, <3>3 DEF NoLostWakeup
    <2> QED BY <2>1, <2>2
  <1> QED BY <1>4, <1>6, <1>7 DEF IInv

\* The steps of the output thread.
LEMMA OutKeeps ==
    ASSUME IInv, SemWait \/ GetLock \/ GetUnlock \/ Output
    PROVE  IInv'
  <1> USE DEF Acquire, Release
  <1>1. /\ TypeOK /\ FlagsAgree /\ LockHeld /\ HasJob /\ Emptied /\ NoLostWakeup
        /\ \A s \in Threads : s # "out" /\ s # "none"
    BY ElogAssumption DEF IInv
  <1>2. UNCHANGED <<line, is_enabled, ring, pc, job, poll_get_buf>>
    BY DEF SemWait, GetLock, GetUnlock, Output
  <1>3. notice' \in 0 .. MaxNotices /\ (notice' = notice \/ out' # "wait")
    BY <1>1, ElogAssumption DEF TypeOK, SemWait, GetLock, GetUnlock, Output
  <1>4. /\ out' \in {"wait", "lock", "get", "unlock", "output"} /\ lock' \in Threads \cup {"out", "none"}
    BY <1>1 DEF TypeOK, SemWait, GetLock, GetUnlock, Output
  <1>5. TypeOK' /\ FlagsAgree'
    BY <1>1, <1>2, <1>3, <1>4, RingStays DEF TypeOK
  <1>6. LockHeld'
    BY <1>1, <1>2 DEF LockHeld, SemWait, GetLock, GetUnlock, Output, Locked
  <1>7. HasJob'
    BY <1>1, <1>2 DEF HasJob
  <1>8. Emptied'
    BY DEF Emptied, SemWait, GetLock, GetUnlock, Output
  <1>9. NoLostWakeup'
    <2>1. CASE out' # "wait"
      BY <2>1 DEF NoLostWakeup
    <2>2. CASE out' = "wait"
      <3>1. out = "unlock" /\ poll_get_buf = << >>
        BY <2>2 DEF SemWait, GetLock, GetUnlock, Output
      <3>2. buf_is_empty'
        BY <1>1, <1>2, <3>1, RingStays DEF Emptied
      <3> QED BY <3>2 DEF NoLostWakeup
    <2> QED BY <2>1, <2>2
  <1> QED BY <1>5, <1>6, <1>7, <1>8, <1>9 DEF IInv

\* The output thread reads.
LEMMA GetStepKeeps ==
    ASSUME IInv, Get
    PROVE  IInv'
  <1>1. TypeOK /\ FlagsAgree /\ LockHeld /\ HasJob /\ Ring /\ line \in BOOLEAN
    BY DEF IInv, Ring, TypeOK
  <1>2. /\ out = "get" /\ out' = "unlock" /\ elog_async_get_log
        /\ UNCHANGED <<line, is_enabled, lock, notice, pc, job>>
    BY DEF Get
  <1>3. Ring' /\ poll_get_buf' \in Seq(Char) /\ (poll_get_buf' = << >> => buf_is_empty')
    BY <1>1, <1>2, GetKeeps
  <1>4. TypeOK' /\ FlagsAgree'
    BY <1>1, <1>2, <1>3 DEF TypeOK, Ring
  <1>5. LockHeld' /\ HasJob'
    BY <1>1, <1>2 DEF LockHeld, HasJob
  <1>6. Emptied' /\ NoLostWakeup'
    BY <1>2, <1>3 DEF Emptied, NoLostWakeup
  <1> QED BY <1>4, <1>5, <1>6 DEF IInv

\* The mode is switched.
LEMMA EnabledKeeps ==
    ASSUME IInv, NEW b \in BOOLEAN, elog_async_enabled(b)
    PROVE  IInv'
  <1>1. /\ UNCHANGED <<line, log_buf, write_index, read_index, buf_is_full, buf_is_empty>>
        /\ UNCHANGED <<lock, notice, pc, job, out, poll_get_buf>> /\ is_enabled' \in BOOLEAN
    BY DEF elog_async_enabled, ring
  <1>2. TypeOK'
    BY <1>1 DEF IInv, TypeOK
  <1> QED BY <1>1, <1>2 DEF IInv, FlagsAgree, LockHeld, HasJob, Emptied, NoLostWakeup

\* Every step keeps the invariant.
LEMMA NextIInv == IInv /\ [Next]_vars => IInv'
  <1> SUFFICES ASSUME IInv, [Next]_vars PROVE IInv'
    OBVIOUS
  <1>1. ASSUME NEW t \in Threads, Thread(t) PROVE IInv'
    <2>1. CASE UNCHANGED ring
      BY <1>1, <2>1, ThreadKeeps
    <2>2. CASE ~UNCHANGED ring
      <3>1. /\ pc[t] = "put" /\ async_put_log(job[t])
            /\ pc' = [pc EXCEPT ![t] = IF Space > 0 THEN "notice" ELSE "unlock"]
            /\ UNCHANGED <<line, is_enabled, lock, notice, job, out, poll_get_buf>>
        BY <1>1, <2>2 DEF Thread, FilterLock, FilterUnlock, elog_raw, elog_output_lock, KeywordFilter,
           elog_async_output, elog_async_output_notice, DirectOutput, elog_output_unlock, Goto
      <3> QED BY <3>1, PutStepKeeps
    <2> QED BY <2>1, <2>2
  <1>2. CASE UNCHANGED vars
    <2>1. /\ UNCHANGED <<line, is_enabled, log_buf, write_index, read_index, buf_is_full, buf_is_empty>>
          /\ UNCHANGED <<lock, notice, pc, job, out, poll_get_buf>>
      BY <1>2 DEF vars, ring
    <2> QED BY <2>1 DEF IInv, TypeOK, FlagsAgree, LockHeld, HasJob, Emptied, NoLostWakeup
  <1> QED BY <1>1, <1>2, EnabledKeeps, GetStepKeeps, OutKeeps DEF Next

\* What the threads rely on holds in every reachable state.
THEOREM Invariant == Spec => []IInv
  BY InitIInv, NextIInv, PTL DEF Spec

\* Every variable has the type the code declares for it: the indices stay inside the array,
\* the semaphore below its limit, and the buffer holds only characters of logs.
THEOREM Typed == Spec => []TypeOK
  <1>1. IInv => TypeOK
    BY DEF IInv
  <1> QED BY <1>1, Invariant, PTL

\* The flags and the indices of the ring buffer never disagree.
THEOREM FlagsHold == Spec => []FlagsAgree
  <1>1. IInv => FlagsAgree
    BY DEF IInv
  <1> QED BY <1>1, Invariant, PTL

\* No order of put, post, wait and the last read of the loop leaves a log behind, however
\* many threads log and however low the limit of the semaphore.
THEOREM WakeupKept == Spec => []NoLostWakeup
  <1>1. IInv => NoLostWakeup
    BY DEF IInv
  <1> QED BY <1>1, Invariant, PTL

-----------------------------------------------------------------------------
(* The refinement of LogStream                                             *)

Content == Taken(elog_async_get_buf_used)

\* Sequences of characters with the same length and the same characters are the same.
LEMMA SameSeq ==
    ASSUME NEW a \in Seq(Char), NEW b \in Seq(Char), NEW n \in Nat,
           Len(a) = n, Len(b) = n, \A i \in 1 .. n : a[i] = b[i]
    PROVE  a = b
  BY SeqEqual

\* The stream the buffer stands for.
LEMMA ContentIs ==
    ASSUME Ring
    PROVE  /\ Content \in Seq(Char) /\ Len(Content) = elog_async_get_buf_used
           /\ \A k \in 1 .. elog_async_get_buf_used : Content[k] = log_buf[Advance(read_index, k - 1)]
  BY UsedIs, TakenIs DEF Content

\* The same after a step.
LEMMA ContentWillBe ==
    ASSUME Ring'
    PROVE  /\ Content' \in Seq(Char) /\ Len(Content') = elog_async_get_buf_used'
           /\ \A k \in 1 .. elog_async_get_buf_used' : Content'[k] = log_buf'[Advance(read_index', k - 1)]
  <1>1. Content' = [k \in 1 .. elog_async_get_buf_used' |-> log_buf'[Advance(read_index', k - 1)]]
    BY DEF Content, Taken
  <1>2. elog_async_get_buf_used' \in Nat /\ elog_async_get_buf_used' \in 0 .. Size
    BY UsedWillBe, ElogAssumption
  <1> HIDE DEF Content
  <1>3. \A k \in 1 .. elog_async_get_buf_used' : Advance(read_index', k - 1) \in Index
    BY <1>2, ElogAssumption DEF Ring, Index, Advance
  <1>4. Content' \in [1 .. elog_async_get_buf_used' -> Char]
    BY <1>1, <1>3 DEF Ring
  <1> QED BY <1>1, <1>2, <1>4

\* async_put_log appends what fits, over the end of the array too.
LEMMA Appended ==
    ASSUME Ring, Ring', NEW d \in Seq(Char), NEW n \in 0 .. Len(d), n <= Space,
           log_buf' = CopyIn(write_index, d, n), read_index' = read_index,
           elog_async_get_buf_used' = elog_async_get_buf_used + n
    PROVE  Content' = Content \o SubSeq(d, 1, n)
  <1> DEFINE u == elog_async_get_buf_used
             e == SubSeq(d, 1, n)
  <1>1. /\ Size \in Nat /\ Size > 0 /\ read_index \in Index /\ write_index \in Index /\ n \in Nat
        /\ u \in 0 .. Size /\ u + n \in 0 .. Size /\ Advance(read_index, u) = write_index
        /\ u \in Nat /\ u + n \in Nat
    BY UsedIs, ElogAssumption DEF Ring
  <1>2. e \in Seq(Char) /\ Len(e) = n /\ \A k \in 1 .. n : e[k] = d[k]
    OBVIOUS
  <1>3. /\ Content \in Seq(Char) /\ Len(Content) = u
        /\ \A k \in 1 .. u : Content[k] = log_buf[Advance(read_index, k - 1)]
    BY ContentIs
  <1>4. /\ Content' \in Seq(Char) /\ Len(Content') = u + n
        /\ \A k \in 1 .. u + n : Content'[k] = log_buf'[Advance(read_index, k - 1)]
    BY ContentWillBe
  <1>5. \A j \in Index : log_buf'[j] = LET k == IF j >= write_index THEN j - write_index + 1
                                                ELSE j - write_index + Size + 1
                                       IN  IF k <= n THEN d[k] ELSE log_buf[j]
    BY DEF CopyIn
  <1> HIDE DEF u, e
  <1>6. /\ Content \o e \in Seq(Char) /\ Len(Content \o e) = u + n
        /\ \A k \in 1 .. u + n : (Content \o e)[k] = IF k <= u THEN Content[k] ELSE e[k - u]
    <2>1. /\ Content \o e \in Seq(Char) /\ Len(Content \o e) = Len(Content) + Len(e)
          /\ \A k \in 1 .. Len(Content) + Len(e) :
                (Content \o e)[k] = IF k <= Len(Content) THEN Content[k] ELSE e[k - Len(Content)]
      BY <1>2, <1>3, ConcatProperties
    <2> QED BY <1>2, <1>3, <2>1
  <1>7. ASSUME NEW k \in 1 .. u + n
        PROVE  Content'[k] = (Content \o e)[k]
    <2> DEFINE j == Advance(read_index, k - 1)
    <2>1. j \in Index
      BY <1>1 DEF Advance, Index
    <2>2. CASE k <= u
      <3>1. ~((IF j >= write_index THEN j - write_index + 1 ELSE j - write_index + Size + 1) <= n)
        BY <1>1, <2>2 DEF Advance, Index
      <3>2. log_buf'[j] = log_buf[j]
        BY <1>5, <2>1, <3>1
      <3> QED BY <1>1, <1>3, <1>4, <1>6, <2>2, <3>2
    <2>3. CASE ~(k <= u)
      <3>1. /\ (IF j >= write_index THEN j - write_index + 1 ELSE j - write_index + Size + 1) = k - u
            /\ k - u \in 1 .. n /\ k - u <= n
        BY <1>1, <2>3 DEF Advance, Index
      <3>2. log_buf'[j] = d[k - u]
        BY <1>5, <2>1, <3>1
      <3> QED BY <1>2, <1>4, <1>6, <2>3, <3>1, <3>2
    <2> QED BY <2>2, <2>3
  <1> QED BY <1>1, <1>4, <1>6, <1>7, SameSeq DEF e

\* Moving the read index by n forgets the n oldest characters.
LEMMA Dropped ==
    ASSUME Ring, Ring', NEW n \in 0 .. elog_async_get_buf_used, log_buf' = log_buf,
           read_index' = Advance(read_index, n),
           elog_async_get_buf_used' = elog_async_get_buf_used - n
    PROVE  /\ Content' = SubSeq(Content, n + 1, Len(Content))
           /\ Taken(n) = SubSeq(Content, 1, n)
  <1> DEFINE u == elog_async_get_buf_used
  <1>1. /\ Size \in Nat /\ Size > 0 /\ read_index \in Index /\ n \in Nat
        /\ u \in 0 .. Size /\ u \in Nat /\ u - n \in Nat /\ n \in 0 .. Size
    BY UsedIs, ElogAssumption DEF Ring
  <1>2. /\ Content \in Seq(Char) /\ Len(Content) = u
        /\ \A k \in 1 .. u : Content[k] = log_buf[Advance(read_index, k - 1)]
    BY ContentIs
  <1>3. /\ Content' \in Seq(Char) /\ Len(Content') = u - n
        /\ \A k \in 1 .. u - n : Content'[k] = log_buf[Advance(read_index', k - 1)]
    BY ContentWillBe
  <1>4. /\ Taken(n) \in Seq(Char) /\ Len(Taken(n)) = n
        /\ \A k \in 1 .. n : Taken(n)[k] = log_buf[Advance(read_index, k - 1)]
    BY <1>1, TakenIs
  <1>5. \A k \in 1 .. u - n : k + n \in 1 .. u /\ Advance(read_index', k - 1) = Advance(read_index, (k + n) - 1)
    BY <1>1 DEF Advance, Index
  <1> HIDE DEF u
  <1>6. /\ SubSeq(Content, n + 1, u) \in Seq(Char) /\ Len(SubSeq(Content, n + 1, u)) = u - n
        /\ \A k \in 1 .. u - n : SubSeq(Content, n + 1, u)[k] = Content[k + n]
    <2>1. n + 1 \in Int /\ u \in Int /\ \A k \in n + 1 .. u : Content[k] \in Char
      BY <1>1, <1>2
    <2>2. /\ SubSeq(Content, n + 1, u) \in Seq(Char)
          /\ Len(SubSeq(Content, n + 1, u)) = IF n + 1 <= u THEN u - (n + 1) + 1 ELSE 0
          /\ \A k \in 1 .. u - (n + 1) + 1 : SubSeq(Content, n + 1, u)[k] = Content[(n + 1) + k - 1]
      BY <2>1, SubSeqProperties
    <2>3. u - (n + 1) + 1 = u - n /\ \A k \in 1 .. u - n : (n + 1) + k - 1 = k + n
      BY <1>1
    <2>4. Len(SubSeq(Content, n + 1, u)) = u - n
      BY <1>1, <2>2
    <2> QED BY <2>2, <2>3, <2>4
  <1>7. Content' = SubSeq(Content, n + 1, u)
    <2>1. \A k \in 1 .. u - n : Content'[k] = SubSeq(Content, n + 1, u)[k]
      BY <1>2, <1>3, <1>5, <1>6
    <2> QED BY <1>1, <1>3, <1>6, <2>1, SameSeq
  <1>8. /\ SubSeq(Content, 1, n) \in Seq(Char) /\ Len(SubSeq(Content, 1, n)) = n
        /\ \A k \in 1 .. n : SubSeq(Content, 1, n)[k] = Content[k]
    <2>1. n <= u
      BY <1>1 DEF u
    <2> QED BY <1>1, <1>2, <2>1
  <1>9. Taken(n) = SubSeq(Content, 1, n)
    <2>1. \A k \in 1 .. n : k \in 1 .. u
      BY <1>1
    <2>2. \A k \in 1 .. n : Taken(n)[k] = SubSeq(Content, 1, n)[k]
      BY <1>2, <1>4, <1>8, <2>1
    <2> QED BY <1>1, <1>4, <1>8, <2>2, SameSeq
  <1> QED BY <1>2, <1>7, <1>9 DEF u

\* A put is a put of the stream.
LEMMA PutIsStream ==
    ASSUME Ring, NEW d \in Logs, async_put_log(d), UNCHANGED poll_get_buf
    PROVE  Stream!SPut(d)
  <1> DEFINE n == Least(Space, Len(d))
  <1>1. /\ Ring' /\ n \in 0 .. Len(d) /\ n <= Space
        /\ elog_async_get_buf_used' = elog_async_get_buf_used + n
    BY PutKeeps
  <1>2. d \in Seq(Char) /\ Len(d) \in Nat /\ Size \in Nat
    BY ElogAssumption
  <1>3. /\ Content \in Seq(Char) /\ Len(Content) = elog_async_get_buf_used
        /\ Space \in 0 .. Size /\ Space = Size - Len(Content)
    BY ContentIs, UsedIs
  <1>4. n = IF Len(d) <= Size - Len(Content) THEN Len(d) ELSE Size - Len(Content)
    BY <1>2, <1>3 DEF Least
  <1>5. Content' = Content \o SubSeq(d, 1, n)
    <2>1. CASE Space = 0
      <3>1. n = 0 /\ UNCHANGED ring
        BY <1>2, <2>1 DEF async_put_log, Least
      <3>2. Content' = Content
        BY <3>1 DEF ring, Content, Taken, elog_async_get_buf_used
      <3>3. SubSeq(d, 1, n) = << >>
        BY <1>2, <3>1
      <3>4. Content \o << >> = Content
        BY <1>3, ConcatEmptySeq
      <3> QED BY <3>2, <3>3, <3>4
    <2>2. CASE Space # 0
      <3>1. log_buf' = CopyIn(write_index, d, n) /\ read_index' = read_index
        BY <2>2 DEF async_put_log
      <3> HIDE DEF n
      <3> QED BY <1>1, <1>2, <3>1, Appended
    <2> QED BY <2>1, <2>2
  <1> HIDE DEF n
  <1> QED BY <1>4, <1>5 DEF Stream!SPut, Content

\* A read is a take of the stream.
LEMMA GetIsStream ==
    ASSUME Ring, line \in BOOLEAN, elog_async_get_log
    PROVE  \E n \in 0 .. Poll : Stream!STake(n)
  <1> DEFINE n == TakeSize
  <1>1. /\ Ring' /\ n \in 0 .. elog_async_get_buf_used /\ n \in 0 .. Poll
        /\ poll_get_buf' = Taken(n) /\ log_buf' = log_buf /\ read_index' = Advance(read_index, n)
        /\ elog_async_get_buf_used' = elog_async_get_buf_used - n
    BY GetKeeps
  <1> HIDE DEF n
  <1>2. /\ Content' = SubSeq(Content, n + 1, Len(Content)) /\ Taken(n) = SubSeq(Content, 1, n)
        /\ Len(Content) = elog_async_get_buf_used
    BY <1>1, Dropped, ContentIs
  <1>3. n <= Len(Content)
    BY <1>1, <1>2, UsedIs
  <1> QED BY <1>1, <1>2, <1>3 DEF Stream!STake, Content

\* What leaves the buffer and the chunk alone leaves the stream alone.
LEMMA StreamStays ==
    ASSUME UNCHANGED ring, UNCHANGED poll_get_buf
    PROVE  UNCHANGED <<Taken(elog_async_get_buf_used), poll_get_buf>>
  BY DEF ring, Taken, elog_async_get_buf_used

\* The output thread takes what was put, in order and without a gap, and only the end of a
\* log is dropped: for every size of the buffer and of a chunk, every newline sign, and any
\* number of threads.
THEOREM Streams == Spec => IsStream
  <1>1. Init => Stream!SInit
    <2> SUFFICES ASSUME Init PROVE Stream!SInit
      OBVIOUS
    <2>1. elog_async_get_buf_used = 0 /\ poll_get_buf = << >>
      BY DEF Init, elog_async_get_buf_used
    <2>2. Ring
      BY InitIInv DEF IInv, TypeOK, Ring
    <2>3. Content \in Seq(Char) /\ Len(Content) = 0
      BY <2>1, <2>2, ContentIs
    <2> QED BY <2>1, <2>3 DEF Stream!SInit, Content
  <1>2. IInv /\ [Next]_vars => [Stream!SNext]_<<Taken(elog_async_get_buf_used), poll_get_buf>>
    <2> SUFFICES ASSUME IInv, [Next]_vars
                 PROVE  [Stream!SNext]_<<Taken(elog_async_get_buf_used), poll_get_buf>>
      OBVIOUS
    <2>1. Ring /\ line \in BOOLEAN /\ HasJob
      BY DEF IInv, TypeOK, Ring
    <2>2. CASE Get
      <3>1. \E n \in 0 .. Poll : Stream!STake(n)
        BY <2>1, <2>2, GetIsStream DEF Get
      <3> QED BY <3>1 DEF Stream!SNext
    <2>3. ASSUME NEW t \in Threads, elog_async_output(t)
          PROVE  [Stream!SNext]_<<Taken(elog_async_get_buf_used), poll_get_buf>>
      <3>1. /\ job[t] \in Logs /\ UNCHANGED poll_get_buf
            /\ async_put_log(job[t]) \/ UNCHANGED ring
        BY <2>1, <2>3 DEF elog_async_output, HasJob
      <3>2. async_put_log(job[t]) => Stream!SPut(job[t])
        BY <2>1, <3>1, PutIsStream
      <3> QED BY <3>1, <3>2, StreamStays DEF Stream!SNext
    <2>4. CASE ~Get /\ ~ \E t \in Threads : elog_async_output(t)
      <3>1. UNCHANGED ring /\ UNCHANGED poll_get_buf
        BY <2>4 DEF Next, Thread, vars, FilterLock, FilterUnlock, elog_raw, elog_output_lock,
           KeywordFilter, elog_async_output_notice, DirectOutput, elog_output_unlock,
           elog_async_enabled, SemWait, GetLock, GetUnlock, Output
      <3> QED BY <3>1, StreamStays
    <2> QED BY <2>2, <2>3, <2>4
  <1> QED BY <1>1, <1>2, Invariant, PTL DEF Spec, IsStream, Stream!SSpec
=============================================================================
