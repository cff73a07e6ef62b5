----------------------------- MODULE LwrbProofs -----------------------------
(***************************************************************************)
(* Theorems about the ring buffer for every array size.  Lwrb: for every   *)
(* set of bytes and of transfer lengths, it is a queue.  LwrbPreempt: for  *)
(* every number of stamps, the bytes read are the bytes written, in order, *)
(* with a handler that may come between any two accesses, as often as it   *)
(* likes during lwrb_read and once during lwrb_skip, lwrb_write and        *)
(* lwrb_advance.                                                           *)
(***************************************************************************)
EXTENDS Lwrb, LwrbPreempt, SequenceTheorems, TLAPS

-----------------------------------------------------------------------------
(* What the operators of LwrbOps return, for every array size.             *)

\* The two counts stay below the size of the array and add up to size - 1.
LEMMA Counts ==
    ASSUME NEW wi \in Index, NEW ri \in Index
    PROVE  /\ lwrb_get_full(wi, ri) \in 0 .. Size - 1
           /\ lwrb_get_free(wi, ri) = Size - 1 - lwrb_get_full(wi, ri)
           /\ lwrb_get_free(wi, ri) \in 0 .. Size - 1
  BY SizeAssumption DEF Index, lwrb_get_full, lwrb_get_free

\* An index moved by less than the size wraps into the array.
LEMMA Wrapped ==
    ASSUME NEW i \in Index, NEW n \in 0 .. Size - 1
    PROVE  WrapIndex(i + n) \in Index
  BY SizeAssumption DEF Index, WrapIndex

\* The two parts of lwrb_write and lwrb_read move the index as the single
\* subtraction of lwrb_skip and lwrb_advance does.
LEMMA SameIndex ==
    ASSUME NEW i \in Index, NEW n \in 0 .. Size - 1
    PROVE  NextIndex(i, n) = WrapIndex(i + n)
  BY SizeAssumption DEF Index, WrapIndex, NextIndex, BUF_MIN

\* Writing n bytes that fit raises the count of used bytes by n.
LEMMA FullAfterWrite ==
    ASSUME NEW wi \in Index, NEW ri \in Index, NEW n \in Nat, n <= lwrb_get_free(wi, ri)
    PROVE  /\ WrapIndex(wi + n) \in Index
           /\ NextIndex(wi, n) = WrapIndex(wi + n)
           /\ lwrb_get_full(WrapIndex(wi + n), ri) = lwrb_get_full(wi, ri) + n
  <1>1. n \in 0 .. Size - 1
    BY Counts, SizeAssumption
  <1>2. lwrb_get_full(WrapIndex(wi + n), ri) = lwrb_get_full(wi, ri) + n
    BY <1>1, SizeAssumption DEF Index, WrapIndex, lwrb_get_full, lwrb_get_free
  <1> QED BY <1>1, <1>2, Wrapped, SameIndex

\* Reading or skipping n bytes that are there lowers it by n.
LEMMA FullAfterRead ==
    ASSUME NEW wi \in Index, NEW ri \in Index, NEW n \in Nat, n <= lwrb_get_full(wi, ri)
    PROVE  /\ WrapIndex(ri + n) \in Index
           /\ NextIndex(ri, n) = WrapIndex(ri + n)
           /\ lwrb_get_full(wi, WrapIndex(ri + n)) = lwrb_get_full(wi, ri) - n
  <1>1. n \in 0 .. Size - 1
    BY Counts, SizeAssumption
  <1>2. lwrb_get_full(wi, WrapIndex(ri + n)) = lwrb_get_full(wi, ri) - n
    BY <1>1, SizeAssumption DEF Index, WrapIndex, lwrb_get_full
  <1> QED BY <1>1, <1>2, Wrapped, SameIndex

\* A linear block lies inside the array and inside the free or the used part.
LEMMA LinearBlocks ==
    ASSUME NEW wi \in Index, NEW ri \in Index
    PROVE  /\ linear_block_write_length(wi, ri) \in 0 .. Size
           /\ linear_block_write_length(wi, ri) <= lwrb_get_free(wi, ri)
           /\ wi + linear_block_write_length(wi, ri) <= Size
           /\ linear_block_read_length(wi, ri) \in 0 .. Size
           /\ linear_block_read_length(wi, ri) <= lwrb_get_full(wi, ri)
           /\ ri + linear_block_read_length(wi, ri) <= Size
  BY SizeAssumption DEF Index, linear_block_write_length, linear_block_read_length,
     lwrb_get_full, lwrb_get_free

\* A free block and a used block share no cell.
LEMMA Disjoint ==
    ASSUME NEW wi \in Index, NEW ri \in Index, NEW a \in Nat, NEW b \in Nat,
           a <= lwrb_get_free(wi, ri), wi + a <= Size,
           b <= lwrb_get_full(wi, ri), ri + b <= Size
    PROVE  \A i \in Index : ~(wi <= i /\ i < wi + a /\ ri <= i /\ i < ri + b)
  BY SizeAssumption DEF Index, lwrb_get_full, lwrb_get_free

-----------------------------------------------------------------------------
\* memcpy into the array stays a table of bytes and changes only its target.
LEMMA CopyInCells ==
    ASSUME NEW B, NEW m \in [Index -> B], NEW at \in 0 .. Size, NEW d \in Seq(B)
    PROVE  /\ CopyIn(m, at, d) \in [Index -> B]
           /\ \A i \in Index : CopyIn(m, at, d)[i] =
                 IF at <= i /\ i < at + Len(d) THEN d[i - at + 1] ELSE m[i]
  <1>1. \A i \in Index : (at <= i /\ i < at + Len(d)) => d[i - at + 1] \in B
    <2> SUFFICES ASSUME NEW i \in Index, at <= i, i < at + Len(d) PROVE d[i - at + 1] \in B
      OBVIOUS
    <2>1. i - at + 1 \in 1 .. Len(d)
      BY SizeAssumption DEF Index
    <2> QED BY <2>1
  <1> QED BY <1>1 DEF CopyIn

\* The two parts of a write put byte k at the k-th index after i, going round,
\* and change no other cell.
LEMMA PutCells ==
    ASSUME NEW B, NEW m \in [Index -> B], NEW i \in Index, NEW d \in Seq(B), Len(d) < Size
    PROVE  /\ PutBytes(m, i, d) \in [Index -> B]
           /\ \A k \in 1 .. Len(d) : PutBytes(m, i, d)[WrapIndex(i + k - 1)] = d[k]
           /\ \A j \in Index :
                 (\A k \in 1 .. Len(d) : j # WrapIndex(i + k - 1)) => PutBytes(m, i, d)[j] = m[j]
  <1> DEFINE t == BUF_MIN(Size - i, Len(d))
             a == SubSeq(d, 1, t)
             b == SubSeq(d, t + 1, Len(d))
             x == CopyIn(m, i, a)
  <1>1. t \in 0 .. Len(d) /\ t <= Size - i /\ (t = Len(d) \/ t = Size - i)
    BY SizeAssumption DEF Index, BUF_MIN
  <1>2. a \in Seq(B) /\ Len(a) = t /\ \A k \in 1 .. t : a[k] = d[k]
    BY <1>1
  <1>3. b \in Seq(B) /\ Len(b) = Len(d) - t /\ \A k \in 1 .. Len(d) - t : b[k] = d[k + t]
    BY <1>1
  <1>4. PutBytes(m, i, d) = CopyIn(x, 0, b)
    BY DEF PutBytes
  <1> HIDE DEF t, a, b
  <1>5. /\ x \in [Index -> B]
        /\ \A j \in Index : x[j] = IF i <= j /\ j < i + t THEN a[j - i + 1] ELSE m[j]
    <2>1. i \in 0 .. Size
      BY SizeAssumption DEF Index
    <2>2. /\ CopyIn(m, i, a) \in [Index -> B]
          /\ \A j \in Index : CopyIn(m, i, a)[j] =
                IF i <= j /\ j < i + Len(a) THEN a[j - i + 1] ELSE m[j]
      BY <1>2, <2>1, CopyInCells
    <2> QED BY <1>2, <2>2
  <1> HIDE DEF x
  <1>6. /\ CopyIn(x, 0, b) \in [Index -> B]
        /\ \A j \in Index : CopyIn(x, 0, b)[j] = IF j < Len(d) - t THEN b[j + 1] ELSE x[j]
    <2>1. 0 \in 0 .. Size /\ Len(b) \in Nat /\ x \in [Index -> B] /\ b \in Seq(B) /\ 0 + Len(b) <= Size
      BY <1>1, <1>3, <1>5, SizeAssumption
    <2>2. /\ CopyIn(x, 0, b) \in [Index -> B]
          /\ \A j \in Index : CopyIn(x, 0, b)[j] =
                IF 0 <= j /\ j < 0 + Len(b) THEN b[j - 0 + 1] ELSE x[j]
      BY <2>1, CopyInCells
    <2>3. \A j \in Index : 0 <= j /\ j - 0 + 1 = j + 1 /\ 0 + Len(b) = Len(d) - t
      BY <1>1, <1>3, SizeAssumption DEF Index
    <2> QED BY <2>2, <2>3
  <1>7. ASSUME NEW k \in 1 .. Len(d)
        PROVE  CopyIn(x, 0, b)[WrapIndex(i + k - 1)] = d[k]
    <2>1. CASE k <= t
      <3>1. WrapIndex(i + k - 1) = i + k - 1 /\ i + k - 1 \in Index
        BY <1>1, <2>1, SizeAssumption DEF WrapIndex, Index
      <3>2. ~(i + k - 1 < Len(d) - t)
        BY <1>1, <2>1, SizeAssumption DEF Index
      <3>3. x[i + k - 1] = a[k]
        BY <1>1, <1>5, <2>1, <3>1, SizeAssumption DEF Index
      <3> QED BY <1>2, <1>6, <2>1, <3>1, <3>2, <3>3
    <2>2. CASE k > t
      <3>1. WrapIndex(i + k - 1) = k - t - 1 /\ k - t - 1 \in Index /\ k - t \in 1 .. Len(d) - t
        BY <1>1, <2>2, SizeAssumption DEF WrapIndex, Index
      <3>2. CopyIn(x, 0, b)[k - t - 1] = b[k - t]
        BY <1>1, <1>6, <2>2, <3>1, SizeAssumption DEF Index
      <3> QED BY <1>1, <1>3, <3>1, <3>2
    <2> QED BY <1>1, <2>1, <2>2
  <1>8. ASSUME NEW j \in Index, \A k \in 1 .. Len(d) : j # WrapIndex(i + k - 1)
        PROVE  CopyIn(x, 0, b)[j] = m[j]
    <2>1. ~(i <= j /\ j < i + t)
      <3> SUFFICES ASSUME i <= j, j < i + t PROVE FALSE
        OBVIOUS
      <3>1. j - i + 1 \in 1 .. Len(d) /\ WrapIndex(i + (j - i + 1) - 1) = j
        BY <1>1, SizeAssumption DEF Index, WrapIndex
      <3> QED BY <1>8, <3>1
    <2>2. ~(j < Len(d) - t)
      <3> SUFFICES ASSUME j < Len(d) - t PROVE FALSE
        OBVIOUS
      <3>1. j + t + 1 \in 1 .. Len(d) /\ WrapIndex(i + (j + t + 1) - 1) = j
        BY <1>1, SizeAssumption DEF Index, WrapIndex
      <3> QED BY <1>8, <3>1
    <2> QED BY <1>5, <1>6, <2>1, <2>2
  <1> QED BY <1>4, <1>6, <1>7, <1>8

\* The two parts of a read return the n bytes from i on, going round.
LEMMA GetCells ==
    ASSUME NEW B, NEW m \in [Index -> B], NEW i \in Index, NEW n \in 0 .. Size - 1
    PROVE  GetBytes(m, i, n) = [k \in 1 .. n |-> m[WrapIndex(i + k - 1)]]
  <1> DEFINE t == BUF_MIN(Size - i, n)
             a == CopyOut(m, i, t)
             b == CopyOut(m, 0, n - t)
             all == [k \in 1 .. n |-> m[WrapIndex(i + k - 1)]]
  <1>1. t \in 0 .. n /\ t <= Size - i /\ (t = n \/ t = Size - i) /\ n - t \in Nat
    BY SizeAssumption DEF Index, BUF_MIN
  <1> HIDE DEF t
  <1>2. \A k \in 1 .. t : i + k - 1 \in Index /\ WrapIndex(i + k - 1) = i + k - 1
    BY <1>1, SizeAssumption DEF Index, WrapIndex
  <1>3. \A k \in 1 .. n - t : k - 1 \in Index /\ WrapIndex(i + (t + k) - 1) = k - 1
    BY <1>1, SizeAssumption DEF Index, WrapIndex
  <1>4. a \in Seq(B) /\ Len(a) = t /\ \A k \in 1 .. t : a[k] = m[i + k - 1]
    BY <1>1, <1>2 DEF CopyOut
  <1>5. b \in Seq(B) /\ Len(b) = n - t /\ \A k \in 1 .. n - t : b[k] = m[k - 1]
    <2>1. \A k \in 1 .. n - t : 0 + k - 1 = k - 1 /\ m[0 + k - 1] \in B
      BY <1>1, <1>3
    <2> QED BY <1>1, <2>1 DEF CopyOut
  <1>6. GetBytes(m, i, n) = a \o b
    BY DEF GetBytes, t
  <1> HIDE DEF a, b
  <1>7. /\ Len(a \o b) = n /\ a \o b \in Seq(B)
        /\ \A k \in 1 .. n : (a \o b)[k] = IF k <= t THEN a[k] ELSE b[k - t]
    <2>1. t + (n - t) = n
      BY <1>1
    <2>2. /\ a \o b \in Seq(B) /\ Len(a \o b) = Len(a) + Len(b)
          /\ \A k \in 1 .. Len(a) + Len(b) :
                (a \o b)[k] = IF k <= Len(a) THEN a[k] ELSE b[k - Len(a)]
      BY <1>4, <1>5, ConcatProperties
    <2>3. Len(a) = t /\ Len(b) = n - t
      BY <1>4, <1>5
    <2> QED BY <2>1, <2>2, <2>3
  <1>8. \A k \in 1 .. n : (a \o b)[k] = all[k]
    <2> SUFFICES ASSUME NEW k \in 1 .. n PROVE (a \o b)[k] = m[WrapIndex(i + k - 1)]
      OBVIOUS
    <2>0. k \in Int /\ t \in Int
      BY <1>1
    <2>1. CASE k <= t
      <3>1. (a \o b)[k] = a[k] /\ k \in 1 .. t
        BY <1>1, <1>7, <2>1
      <3> QED BY <1>2, <1>4, <3>1
    <2>2. CASE ~(k <= t)
      <3>1. (a \o b)[k] = b[k - t] /\ k - t \in 1 .. n - t
        BY <1>1, <1>7, <2>0, <2>2
      <3>2. t + (k - t) = k
        BY <1>1
      <3>3. WrapIndex(i + k - 1) = (k - t) - 1
        BY <1>3, <3>1, <3>2
      <3> QED BY <1>5, <3>1, <3>3
    <2> QED BY <2>1, <2>2
  <1>9. a \o b = all
    <2>1. a \o b \in [1 .. n -> B]
      BY <1>7, LenProperties
    <2> QED BY <1>8, <2>1
  <1> QED BY <1>6, <1>9

\* The lesser of what is asked for and what there is.
LEMMA Lesser2 ==
    ASSUME NEW a \in Nat, NEW b \in Nat
    PROVE  BUF_MIN(a, b) \in Nat /\ BUF_MIN(a, b) <= a /\ BUF_MIN(a, b) <= b
  BY DEF BUF_MIN

-----------------------------------------------------------------------------

\* The cells a write of bytes leaves.
LEMMA PutBytesCells ==
    ASSUME NEW m \in [Index -> Byte], NEW i \in Index, NEW d \in Seq(Byte), Len(d) < Size
    PROVE  /\ PutBytes(m, i, d) \in [Index -> Byte]
           /\ \A k \in 1 .. Len(d) : PutBytes(m, i, d)[WrapIndex(i + k - 1)] = d[k]
           /\ \A j \in Index :
                 (\A k \in 1 .. Len(d) : j # WrapIndex(i + k - 1)) => PutBytes(m, i, d)[j] = m[j]
  BY PutCells

\* The bytes a read returns.
LEMMA GetBytesCells ==
    ASSUME NEW m \in [Index -> Byte], NEW i \in Index, NEW n \in 0 .. Size - 1
    PROVE  GetBytes(m, i, n) = [k \in 1 .. n |-> m[WrapIndex(i + k - 1)]]
  BY GetCells

\* Taking the first n of a sequence.
LEMMA Prefix ==
    ASSUME NEW d \in Seq(Byte), NEW n \in 0 .. Len(d)
    PROVE  /\ SubSeq(d, 1, n) \in Seq(Byte)
           /\ Len(SubSeq(d, 1, n)) = n
           /\ \A k \in 1 .. n : SubSeq(d, 1, n)[k] = d[k]
  OBVIOUS

\* What lwrb_write may put into the buffer.
LEMMA WriteCount ==
    ASSUME TypeOK, NEW d \in Seq(Byte), NEW n, n = BUF_MIN(lwrb_get_free(w, r), Len(d))
    PROVE  /\ n \in 0 .. Len(d) /\ n <= lwrb_get_free(w, r) /\ n < Size
           /\ SubSeq(d, 1, n) \in Seq(Byte) /\ Len(SubSeq(d, 1, n)) = n
  <1>1. lwrb_get_free(w, r) \in 0 .. Size - 1 /\ Len(d) \in Nat
    BY Counts DEF TypeOK
  <1>2. n \in Nat /\ n <= lwrb_get_free(w, r) /\ n <= Len(d)
    BY <1>1, Lesser2
  <1>3. n \in 0 .. Len(d) /\ n < Size
    BY <1>1, <1>2, SizeAssumption
  <1> QED BY <1>2, <1>3, Prefix

\* What lwrb_read and lwrb_skip may take out of it.
LEMMA ReadCount ==
    ASSUME TypeOK, NEW k \in Nat
    PROVE  /\ BUF_MIN(lwrb_get_full(w, r), k) = BUF_MIN(k, lwrb_get_full(w, r))
           /\ BUF_MIN(k, lwrb_get_full(w, r)) \in 0 .. Size - 1
           /\ BUF_MIN(k, lwrb_get_full(w, r)) <= lwrb_get_full(w, r)
  <1>1. lwrb_get_full(w, r) \in 0 .. Size - 1
    BY Counts DEF TypeOK
  <1> QED BY <1>1, SizeAssumption DEF BUF_MIN

\* The block a DMA fills is still free when it is handed back, and the block a
\* DMA drains is still used.
LEMMA BlockCounts ==
    ASSUME TypeOK, BlocksOwned
    PROVE  /\ \A n \in Nat : n <= wblk => BUF_MIN(n, lwrb_get_free(w, r)) = n
           /\ BUF_MIN(rblk, lwrb_get_full(w, r)) = rblk
           /\ rblk \in 0 .. Size - 1
  <1>1. /\ lwrb_get_full(w, r) \in 0 .. Size - 1 /\ lwrb_get_free(w, r) \in 0 .. Size - 1
        /\ wblk \in Nat /\ rblk \in Nat
    BY Counts, SizeAssumption DEF TypeOK
  <1> QED BY <1>1, SizeAssumption DEF BlocksOwned, BUF_MIN

\* TypeOK holds at first.
LEMMA InitTypeOK == Init => TypeOK /\ BlocksOwned
  <1> SUFFICES ASSUME Init PROVE TypeOK /\ BlocksOwned
    OBVIOUS
  <1>1. 0 \in Index
    BY SizeAssumption DEF Index
  <1>2. TypeOK
    BY <1>1, SizeAssumption DEF Init, TypeOK
  <1>3. lwrb_get_full(0, 0) \in 0 .. Size - 1 /\ lwrb_get_free(0, 0) \in 0 .. Size - 1
    BY <1>1, Counts
  <1>4. BlocksOwned
    BY <1>1, <1>3, SizeAssumption DEF Init, BlocksOwned, Index
  <1> QED BY <1>2, <1>4

\* The indices stay in the array and the array full of bytes.
LEMMA NextTypeOK ==
    ASSUME TypeOK, BlocksOwned, [Next]_vars
    PROVE  TypeOK'
  <1>t. w \in Index /\ r \in Index /\ mem \in [Index -> Byte]
    BY DEF TypeOK
  <1>1. ASSUME NEW d \in Data, lwrb_write(d) PROVE TypeOK'
    <2> DEFINE n == BUF_MIN(lwrb_get_free(w, r), Len(d))
               e == SubSeq(d, 1, n)
    <2>1. /\ n \in Nat /\ n <= lwrb_get_free(w, r)
          /\ e \in Seq(Byte) /\ Len(e) < Size
      BY WriteCount, DataAssumption
    <2>2. mem' = PutBytes(mem, w, e) /\ w' = NextIndex(w, n) /\ UNCHANGED <<r, ready, wblk, rblk>>
      BY <1>1 DEF lwrb_write
    <2> HIDE DEF n, e
    <2>3. mem' \in [Index -> Byte]
      BY <2>1, <2>2, <1>t, PutCells
    <2>4. w' \in Index
      BY <2>1, <2>2, <1>t, FullAfterWrite
    <2> QED BY <2>2, <2>3, <2>4 DEF TypeOK
  <1>2. ASSUME NEW d \in Data, lwrb_advance(d) PROVE TypeOK'
    <2>1. d \in Seq(Byte) /\ Len(d) \in Nat /\ Len(d) <= wblk
      BY <1>2, DataAssumption DEF lwrb_advance
    <2>2. Len(d) <= lwrb_get_free(w, r) /\ BUF_MIN(Len(d), lwrb_get_free(w, r)) = Len(d)
      <3>1. lwrb_get_free(w, r) \in Int /\ wblk \in Int
        BY <1>t, Counts DEF TypeOK
      <3> QED BY <2>1, <3>1, BlockCounts DEF BlocksOwned
    <2>3. /\ mem' = CopyIn(mem, w, d) /\ w' = WrapIndex(w + Len(d))
          /\ wblk' = 0 /\ UNCHANGED <<r, ready, rblk>>
      BY <1>2, <2>2 DEF lwrb_advance
    <2>4. w \in 0 .. Size
      BY <1>t, SizeAssumption DEF Index
    <2>5. mem' \in [Index -> Byte]
      BY <1>t, <2>1, <2>3, <2>4, CopyInCells
    <2>6. w' \in Index
      BY <1>t, <2>1, <2>2, <2>3, FullAfterWrite
    <2> QED BY <2>3, <2>5, <2>6, SizeAssumption DEF TypeOK
  <1>3. ASSUME NEW k \in Req, lwrb_read(k) \/ lwrb_skip(k) PROVE TypeOK'
    <2> DEFINE n == BUF_MIN(k, lwrb_get_full(w, r))
    <2>1. /\ n = BUF_MIN(lwrb_get_full(w, r), k)
          /\ n \in 0 .. Size - 1 /\ n \in Nat /\ n <= lwrb_get_full(w, r)
      BY ReadCount, ReqAssumption
    <2>2. /\ r' = NextIndex(r, n) \/ r' = WrapIndex(r + n)
          /\ UNCHANGED <<mem, w, ready, wblk, rblk>>
      BY <1>3, <2>1 DEF lwrb_read, lwrb_skip
    <2> HIDE DEF n
    <2>3. r' \in Index
      BY <1>t, <2>1, <2>2, FullAfterRead
    <2> QED BY <2>2, <2>3 DEF TypeOK
  <1>4. CASE FinishLinearRead
    <2>1. /\ r' = WrapIndex(r + rblk) /\ rblk' = 0 /\ UNCHANGED <<mem, w, ready, wblk>>
          /\ rblk \in Nat /\ rblk <= lwrb_get_full(w, r)
      BY <1>4, BlockCounts DEF FinishLinearRead, BlocksOwned
    <2>2. r' \in Index
      BY <1>t, <2>1, FullAfterRead
    <2> QED BY <2>1, <2>2, SizeAssumption DEF TypeOK
  <1>5. CASE StartLinearWrite \/ StartLinearRead
    BY <1>5, <1>t, LinearBlocks DEF StartLinearWrite, StartLinearRead, TypeOK
  <1>6. CASE lwrb_reset \/ lwrb_free \/ lwrb_init
    <2>1. 0 \in Index
      BY SizeAssumption DEF Index
    <2>2. w' \in {0, w} /\ r' \in {0, r} /\ UNCHANGED <<mem, wblk, rblk>>
      BY <1>6 DEF lwrb_reset, lwrb_free, lwrb_init
    <2>3. ready' \in BOOLEAN
      BY <1>6 DEF lwrb_reset, lwrb_free, lwrb_init, TypeOK
    <2> QED BY <2>1, <2>2, <2>3 DEF TypeOK
  <1>7. CASE \/ Query \/ Refused \/ UNCHANGED vars
             \/ \E s \in Req, k \in Req : lwrb_peek(s, k)
    BY <1>7 DEF Query, Refused, lwrb_peek, vars, TypeOK
  <1> QED BY <1>1, <1>2, <1>3, <1>4, <1>5, <1>6, <1>7 DEF Next

\* Neither end takes cells from a block the other has handed to a DMA.
LEMMA NextBlocksOwned ==
    ASSUME TypeOK, BlocksOwned, [Next]_vars
    PROVE  BlocksOwned'
  <1>t. /\ w \in Index /\ r \in Index /\ wblk \in Nat /\ rblk \in Nat
        /\ lwrb_get_full(w, r) \in 0 .. Size - 1
        /\ lwrb_get_free(w, r) = Size - 1 - lwrb_get_full(w, r)
    BY Counts, SizeAssumption DEF TypeOK
  <1>u. /\ w' \in Index /\ r' \in Index /\ wblk' \in Nat /\ rblk' \in Nat
        /\ lwrb_get_full(w', r') \in 0 .. Size - 1
        /\ lwrb_get_free(w', r') = Size - 1 - lwrb_get_full(w', r')
    BY NextTypeOK, Counts, SizeAssumption DEF TypeOK
  <1>v. SUFFICES /\ wblk' <= lwrb_get_free(w', r') /\ w' + wblk' <= Size
                 /\ rblk' <= lwrb_get_full(w', r') /\ r' + rblk' <= Size
    <2>1. \A i \in Index : ~(w' <= i /\ i < w' + wblk' /\ r' <= i /\ i < r' + rblk')
      BY <1>u, <1>v, Disjoint
    <2> QED BY <1>v, <2>1 DEF BlocksOwned
  <1>1. ASSUME NEW d \in Data, lwrb_write(d)
        PROVE  /\ wblk' <= lwrb_get_free(w', r') /\ w' + wblk' <= Size
               /\ rblk' <= lwrb_get_full(w', r') /\ r' + rblk' <= Size
    <2> DEFINE n == BUF_MIN(lwrb_get_free(w, r), Len(d))
    <2>1. n \in Nat /\ n <= lwrb_get_free(w, r)
      BY WriteCount, DataAssumption
    <2>2. w' = NextIndex(w, n) /\ wblk = 0 /\ UNCHANGED <<r, wblk, rblk>>
      BY <1>1 DEF lwrb_write
    <2> HIDE DEF n
    <2>3. lwrb_get_full(w', r) = lwrb_get_full(w, r) + n
      BY <1>t, <2>1, <2>2, FullAfterWrite
    <2> QED BY <1>t, <1>u, <2>1, <2>2, <2>3, SizeAssumption DEF BlocksOwned, Index
  <1>2. ASSUME NEW d \in Data, lwrb_advance(d)
        PROVE  /\ wblk' <= lwrb_get_free(w', r') /\ w' + wblk' <= Size
               /\ rblk' <= lwrb_get_full(w', r') /\ r' + rblk' <= Size
    <2>1. Len(d) \in Nat /\ Len(d) <= wblk
      BY <1>2, DataAssumption DEF lwrb_advance
    <2>2. Len(d) <= lwrb_get_free(w, r) /\ BUF_MIN(Len(d), lwrb_get_free(w, r)) = Len(d)
      <3>1. lwrb_get_free(w, r) \in Int
        BY <1>t, SizeAssumption
      <3> QED BY <1>t, <2>1, <3>1, BlockCounts DEF BlocksOwned
    <2>3. w' = WrapIndex(w + Len(d)) /\ wblk' = 0 /\ UNCHANGED <<r, rblk>>
      BY <1>2, <2>2 DEF lwrb_advance
    <2>4. lwrb_get_full(w', r) = lwrb_get_full(w, r) + Len(d)
      BY <1>t, <2>1, <2>2, <2>3, FullAfterWrite
    <2> QED BY <1>t, <1>u, <2>1, <2>3, <2>4, SizeAssumption DEF BlocksOwned, Index
  <1>3. ASSUME NEW k \in Req, lwrb_read(k) \/ lwrb_skip(k)
        PROVE  /\ wblk' <= lwrb_get_free(w', r') /\ w' + wblk' <= Size
               /\ rblk' <= lwrb_get_full(w', r') /\ r' + rblk' <= Size
    <2> DEFINE n == BUF_MIN(k, lwrb_get_full(w, r))
    <2>1. /\ n = BUF_MIN(lwrb_get_full(w, r), k)
          /\ n \in Nat /\ n <= lwrb_get_full(w, r)
      BY ReadCount, ReqAssumption
    <2>2. /\ r' = NextIndex(r, n) \/ r' = WrapIndex(r + n)
          /\ rblk = 0 /\ UNCHANGED <<w, wblk, rblk>>
      BY <1>3, <2>1 DEF lwrb_read, lwrb_skip
    <2> HIDE DEF n
    <2>3. lwrb_get_full(w, r') = lwrb_get_full(w, r) - n
      BY <1>t, <2>1, <2>2, FullAfterRead
    <2>4. w' = w /\ wblk' = wblk /\ rblk' = 0
      BY <2>2
    <2>5. lwrb_get_full(w', r') = lwrb_get_full(w, r) - n
      BY <2>3, <2>4
    <2>6. wblk <= lwrb_get_free(w, r) /\ w + wblk <= Size
      BY DEF BlocksOwned
    <2>7. wblk' <= lwrb_get_free(w', r')
      BY <1>t, <1>u, <2>1, <2>4, <2>5, <2>6, SizeAssumption
    <2>8. w' + wblk' <= Size
      BY <2>4, <2>6
    <2>9. rblk' <= lwrb_get_full(w', r') /\ r' + rblk' <= Size
      <3>1. 0 <= lwrb_get_full(w', r')
        BY <1>u
      <3>2. \A i \in Index : i + 0 <= Size
        BY SizeAssumption DEF Index
      <3>3. r' + 0 <= Size
        BY <1>u, <3>2
      <3> QED BY <2>4, <3>1, <3>3
    <2> QED BY <2>7, <2>8, <2>9
  <1>4. CASE FinishLinearRead
    <2>1. /\ r' = WrapIndex(r + rblk) /\ rblk' = 0 /\ UNCHANGED <<w, wblk>>
          /\ rblk <= lwrb_get_full(w, r)
      BY <1>4, BlockCounts DEF FinishLinearRead, BlocksOwned
    <2>2. lwrb_get_full(w, r') = lwrb_get_full(w, r) - rblk
      BY <1>t, <2>1, FullAfterRead
    <2> QED BY <1>t, <1>u, <2>1, <2>2, SizeAssumption DEF BlocksOwned, Index
  <1>5. CASE StartLinearWrite \/ StartLinearRead
    BY <1>5, <1>t, LinearBlocks DEF StartLinearWrite, StartLinearRead, BlocksOwned
  <1>6. CASE lwrb_reset \/ lwrb_init
    <2>1. w' = 0 /\ r' = 0 /\ wblk' = 0 /\ rblk' = 0
      BY <1>6 DEF lwrb_reset, lwrb_init, Idle
    <2> QED BY <1>u, <2>1, SizeAssumption
  <1>7. CASE \/ lwrb_free \/ Query \/ Refused \/ UNCHANGED vars
             \/ \E s \in Req, k \in Req : lwrb_peek(s, k)
    BY <1>7 DEF lwrb_free, Query, Refused, lwrb_peek, vars, BlocksOwned
  <1> QED BY <1>1, <1>2, <1>3, <1>4, <1>5, <1>6, <1>7 DEF Next

\* For every array size the indices stay inside the array, whatever calls and
\* DMA completions come in whatever order.
THEOREM Typed == Spec => []TypeOK
  BY InitTypeOK, NextTypeOK, NextBlocksOwned, PTL DEF Spec

\* For every array size a linear block stays its owner's until it is given
\* back, so a DMA never sees bytes change under it nor overwrites unread ones.
THEOREM Owned == Spec => []BlocksOwned
  BY InitTypeOK, NextTypeOK, NextBlocksOwned, PTL DEF Spec

-----------------------------------------------------------------------------
\* The bytes from ri round to wi are a sequence as long as lwrb_get_full says.
LEMMA Unrolled ==
    ASSUME NEW m \in [Index -> Byte], NEW wi \in Index, NEW ri \in Index, NEW c,
           c = [i \in 1 .. lwrb_get_full(wi, ri) |-> m[WrapIndex(ri + i - 1)]]
    PROVE  /\ c \in Seq(Byte) /\ Len(c) = lwrb_get_full(wi, ri)
           /\ \A i \in 1 .. lwrb_get_full(wi, ri) :
                 c[i] = m[WrapIndex(ri + i - 1)] /\ WrapIndex(ri + i - 1) \in Index
  <1>1. lwrb_get_full(wi, ri) \in 0 .. Size - 1 /\ lwrb_get_full(wi, ri) \in Nat
    BY Counts, SizeAssumption
  <1>2. \A i \in 1 .. lwrb_get_full(wi, ri) : WrapIndex(ri + i - 1) \in Index
    BY <1>1, SizeAssumption DEF Index, WrapIndex
  <1>3. \A i \in 1 .. lwrb_get_full(wi, ri) : m[WrapIndex(ri + i - 1)] \in Byte
    BY <1>2
  <1> QED BY <1>1, <1>2, <1>3

\* The queue a ready buffer stands for.
LEMMA ContentsIs ==
    ASSUME TypeOK, ready
    PROVE  /\ Contents \in Seq(Byte) /\ Len(Contents) = lwrb_get_full(w, r)
           /\ \A i \in 1 .. lwrb_get_full(w, r) :
                 Contents[i] = mem[WrapIndex(r + i - 1)] /\ WrapIndex(r + i - 1) \in Index
  <1>1. Contents = [i \in 1 .. lwrb_get_full(w, r) |-> mem[WrapIndex(r + i - 1)]]
    BY DEF Contents
  <1> QED BY <1>1, Unrolled DEF TypeOK

\* The same after a step.
LEMMA ContentsWillBe ==
    ASSUME TypeOK', ready'
    PROVE  /\ Contents' \in Seq(Byte) /\ Len(Contents') = lwrb_get_full(w', r')
           /\ \A i \in 1 .. lwrb_get_full(w', r') : Contents'[i] = mem'[WrapIndex(r' + i - 1)]
  <1>1. Contents' = [i \in 1 .. lwrb_get_full(w', r') |-> mem'[WrapIndex(r' + i - 1)]]
    BY DEF Contents
  <1> QED BY <1>1, Unrolled DEF TypeOK

\* Sequences of bytes with the same length and the same bytes are the same.
LEMMA SameSeq ==
    ASSUME NEW s \in Seq(Byte), NEW t \in Seq(Byte), NEW n \in Nat,
           Len(s) = n, Len(t) = n, \A i \in 1 .. n : s[i] = t[i]
    PROVE  s = t
  BY SeqEqual

\* Bytes that go round after w and spare every used cell are appended.
LEMMA Appended ==
    ASSUME TypeOK, TypeOK', ready, ready', NEW e \in Seq(Byte),
           Len(e) <= lwrb_get_free(w, r), r' = r, w' = WrapIndex(w + Len(e)),
           \A k \in 1 .. Len(e) : mem'[WrapIndex(w + k - 1)] = e[k],
           \A j \in Index : (\A k \in 1 .. Len(e) : j # WrapIndex(w + k - 1)) => mem'[j] = mem[j]
    PROVE  Contents' = Contents \o e
  <1> DEFINE f == lwrb_get_full(w, r)
             n == Len(e)
  <1>1. /\ w \in Index /\ r \in Index /\ f \in 0 .. Size - 1 /\ n \in Nat /\ f + n \in Nat
        /\ f + n <= Size - 1
    <2>1. f \in 0 .. Size - 1 /\ lwrb_get_free(w, r) = Size - 1 - f /\ n \in Nat
      BY Counts DEF TypeOK
    <2> QED BY <2>1, SizeAssumption DEF TypeOK
  <1>2. lwrb_get_full(w', r') = f + n
    BY <1>1, FullAfterWrite
  <1>3. /\ Contents \in Seq(Byte) /\ Len(Contents) = f
        /\ \A i \in 1 .. f : Contents[i] = mem[WrapIndex(r + i - 1)] /\ WrapIndex(r + i - 1) \in Index
    BY ContentsIs
  <1>4. /\ Contents' \in Seq(Byte) /\ Len(Contents') = f + n
        /\ \A i \in 1 .. f + n : Contents'[i] = mem'[WrapIndex(r + i - 1)]
    BY <1>2, ContentsWillBe
  <1>5. /\ Contents \o e \in Seq(Byte) /\ Len(Contents \o e) = f + n
        /\ \A i \in 1 .. f + n : (Contents \o e)[i] = IF i <= f THEN Contents[i] ELSE e[i - f]
    <2>1. /\ Contents \o e \in Seq(Byte) /\ Len(Contents \o e) = Len(Contents) + Len(e)
          /\ \A i \in 1 .. Len(Contents) + Len(e) :
                (Contents \o e)[i] = IF i <= Len(Contents) THEN Contents[i] ELSE e[i - Len(Contents)]
      BY <1>3, ConcatProperties
    <2> QED BY <1>3, <2>1
  <1>6. \A i \in 1 .. f, k \in 1 .. n : WrapIndex(r + i - 1) # WrapIndex(w + k - 1)
    BY <1>1, SizeAssumption DEF Index, WrapIndex, lwrb_get_full
  <1>7. \A i \in 1 .. f + n : i > f => i - f \in 1 .. n /\ WrapIndex(r + i - 1) = WrapIndex(w + (i - f) - 1)
    BY <1>1, SizeAssumption DEF Index, WrapIndex, lwrb_get_full
  <1> HIDE DEF f, n
  <1>8. ASSUME NEW i \in 1 .. f + n PROVE Contents'[i] = (Contents \o e)[i]
    <2>1. CASE i <= f
      <3>1. i \in 1 .. f
        BY <1>1, <2>1
      <3>2. mem'[WrapIndex(r + i - 1)] = mem[WrapIndex(r + i - 1)]
        BY <1>3, <1>6, <3>1 DEF n
      <3> QED BY <1>3, <1>4, <1>5, <2>1, <3>1, <3>2
    <2>2. CASE ~(i <= f)
      <3>1. i > f
        BY <1>1, <2>2
      <3>2. mem'[WrapIndex(w + (i - f) - 1)] = e[i - f]
        BY <1>7, <3>1 DEF n
      <3> QED BY <1>4, <1>5, <1>7, <2>2, <3>1, <3>2
    <2> QED BY <2>1, <2>2
  <1> QED BY <1>1, <1>4, <1>5, <1>8, SameSeq

\* Moving r by n forgets the n oldest bytes.
LEMMA Dropped ==
    ASSUME TypeOK, TypeOK', ready, ready', NEW n \in Nat, n <= lwrb_get_full(w, r),
           mem' = mem, w' = w, r' = WrapIndex(r + n)
    PROVE  Contents' = SubSeq(Contents, n + 1, Len(Contents))
  <1> DEFINE f == lwrb_get_full(w, r)
  <1>1. w \in Index /\ r \in Index /\ f \in 0 .. Size - 1 /\ f - n \in Nat /\ f \in Nat
    BY Counts, SizeAssumption DEF TypeOK
  <1>2. lwrb_get_full(w', r') = f - n
    BY <1>1, FullAfterRead
  <1>3. /\ Contents \in Seq(Byte) /\ Len(Contents) = f
        /\ \A i \in 1 .. f : Contents[i] = mem[WrapIndex(r + i - 1)]
    BY ContentsIs
  <1>4. /\ Contents' \in Seq(Byte) /\ Len(Contents') = f - n
        /\ \A i \in 1 .. f - n : Contents'[i] = mem[WrapIndex(r' + i - 1)]
    BY <1>2, ContentsWillBe
  <1>5. \A i \in 1 .. f - n : i + n \in 1 .. f /\ WrapIndex(r' + i - 1) = WrapIndex(r + (i + n) - 1)
    BY <1>1, SizeAssumption DEF Index, WrapIndex
  <1> HIDE DEF f
  <1>6. /\ SubSeq(Contents, n + 1, f) \in Seq(Byte) /\ Len(SubSeq(Contents, n + 1, f)) = f - n
        /\ \A i \in 1 .. f - n : SubSeq(Contents, n + 1, f)[i] = Contents[i + n]
    <2>1. n + 1 \in Int /\ f \in Int /\ \A i \in n + 1 .. f : Contents[i] \in Byte
      BY <1>1, <1>3
    <2>2. /\ SubSeq(Contents, n + 1, f) \in Seq(Byte)
          /\ Len(SubSeq(Contents, n + 1, f)) = IF n + 1 <= f THEN f - (n + 1) + 1 ELSE 0
          /\ \A i \in 1 .. f - (n + 1) + 1 : SubSeq(Contents, n + 1, f)[i] = Contents[(n + 1) + i - 1]
      BY <2>1, SubSeqProperties
    <2>3. f - (n + 1) + 1 = f - n /\ \A i \in 1 .. f - n : (n + 1) + i - 1 = i + n
      BY <1>1
    <2> QED BY <1>1, <2>2, <2>3
  <1>7. \A i \in 1 .. f - n : Contents'[i] = SubSeq(Contents, n + 1, f)[i]
    BY <1>3, <1>4, <1>5, <1>6
  <1>8. Contents' = SubSeq(Contents, n + 1, f)
    BY <1>1, <1>4, <1>6, <1>7, SameSeq
  <1> QED BY <1>3, <1>8

\* What GetBytes returns from s bytes after r on is that part of the queue.
LEMMA Got ==
    ASSUME TypeOK, ready, NEW s \in Nat, NEW n \in Nat, s + n <= lwrb_get_full(w, r)
    PROVE  GetBytes(mem, WrapIndex(r + s), n) = SubSeq(Contents, s + 1, s + n)
  <1> DEFINE f == lwrb_get_full(w, r)
             g == [k \in 1 .. n |-> mem[WrapIndex(WrapIndex(r + s) + k - 1)]]
  <1>1. /\ w \in Index /\ r \in Index /\ f \in 0 .. Size - 1 /\ f \in Nat
        /\ mem \in [Index -> Byte] /\ n \in 0 .. Size - 1 /\ s \in 0 .. Size - 1
    BY Counts, SizeAssumption DEF TypeOK
  <1>2. WrapIndex(r + s) \in Index
    BY <1>1, Wrapped
  <1>3. GetBytes(mem, WrapIndex(r + s), n) = g
    BY <1>1, <1>2, GetBytesCells
  <1>4. /\ Contents \in Seq(Byte) /\ Len(Contents) = f
        /\ \A i \in 1 .. f : Contents[i] = mem[WrapIndex(r + i - 1)] /\ WrapIndex(r + i - 1) \in Index
    BY ContentsIs
  <1>5. \A k \in 1 .. n : /\ s + k \in 1 .. f
                          /\ WrapIndex(WrapIndex(r + s) + k - 1) = WrapIndex(r + (s + k) - 1)
    BY <1>1, SizeAssumption DEF Index, WrapIndex
  <1> HIDE DEF f
  <1>6. \A k \in 1 .. n : g[k] = Contents[s + k] /\ Contents[s + k] \in Byte
    BY <1>1, <1>4, <1>5
  <1>7. g \in Seq(Byte) /\ Len(g) = n
    <2>1. g \in [1 .. n -> Byte]
      BY <1>6
    <2> QED BY <2>1
  <1>8. s + 1 \in Int /\ s + n \in Int /\ n >= 0
    OBVIOUS
  <1>9. /\ SubSeq(Contents, s + 1, s + n) \in Seq(Byte)
        /\ Len(SubSeq(Contents, s + 1, s + n)) = n
        /\ \A k \in 1 .. n : SubSeq(Contents, s + 1, s + n)[k] = Contents[s + k]
    <2>1. \A i \in s + 1 .. s + n : Contents[i] \in Byte
      BY <1>1, <1>4 DEF f
    <2>2. /\ SubSeq(Contents, s + 1, s + n) \in Seq(Byte)
          /\ Len(SubSeq(Contents, s + 1, s + n)) = IF s + 1 <= s + n THEN (s + n) - (s + 1) + 1 ELSE 0
          /\ \A i \in 1 .. (s + n) - (s + 1) + 1 :
                SubSeq(Contents, s + 1, s + n)[i] = Contents[(s + 1) + i - 1]
      BY <1>8, <2>1, SubSeqProperties
    <2>3. (s + n) - (s + 1) + 1 = n /\ \A k \in 1 .. n : (s + 1) + k - 1 = s + k
      OBVIOUS
    <2> QED BY <2>2, <2>3
  <1> HIDE DEF g
  <1>10. g = SubSeq(Contents, s + 1, s + n)
    BY <1>6, <1>7, <1>9, SameSeq
  <1> QED BY <1>3, <1>10

\* The counts of Fifo are the counts of lwrb.c.
LEMMA SameCounts ==
    ASSUME TypeOK, ready, NEW k \in Nat
    PROVE  /\ Queue!Lesser(k, (Size - 1) - Len(Contents)) = BUF_MIN(lwrb_get_free(w, r), k)
           /\ Queue!Lesser(k, Len(Contents)) = BUF_MIN(k, lwrb_get_full(w, r))
           /\ Queue!Lesser(k, Len(Contents)) = BUF_MIN(lwrb_get_full(w, r), k)
  <1>1. /\ Len(Contents) = lwrb_get_full(w, r) /\ lwrb_get_full(w, r) \in 0 .. Size - 1
        /\ lwrb_get_free(w, r) = Size - 1 - lwrb_get_full(w, r)
    BY ContentsIs, Counts DEF TypeOK
  <1> QED BY <1>1, SizeAssumption DEF Queue!Lesser, BUF_MIN

\* lwrb_write appends the bytes that fit.
LEMMA WriteIsFifo ==
    ASSUME TypeOK, BlocksOwned, TypeOK', NEW d \in Data, lwrb_write(d)
    PROVE  Queue!FWrite(d)
  <1> DEFINE n == BUF_MIN(lwrb_get_free(w, r), Len(d))
             e == SubSeq(d, 1, n)
  <1>1. d \in Seq(Byte) /\ Len(d) \in Nat
    BY DataAssumption
  <1>2. /\ n \in Nat /\ n <= lwrb_get_free(w, r) /\ e \in Seq(Byte) /\ Len(e) = n /\ n < Size
    BY <1>1, WriteCount
  <1>3. /\ ready /\ ready' = ready /\ mem' = PutBytes(mem, w, e) /\ w' = NextIndex(w, n) /\ r' = r
        /\ call' = Call("write", 0, Len(d), d, n)
    BY DEF lwrb_write
  <1>4. n = Queue!Lesser(Len(d), (Size - 1) - Len(Contents))
    BY <1>1, <1>3, SameCounts
  <1> HIDE DEF n, e
  <1>5. w' = WrapIndex(w + Len(e))
    BY <1>2, <1>3, FullAfterWrite DEF TypeOK
  <1>6. /\ \A k \in 1 .. Len(e) : mem'[WrapIndex(w + k - 1)] = e[k]
        /\ \A j \in Index : (\A k \in 1 .. Len(e) : j # WrapIndex(w + k - 1)) => mem'[j] = mem[j]
    <2>1. mem \in [Index -> Byte] /\ w \in Index /\ Len(e) < Size
      BY <1>2 DEF TypeOK
    <2>2. /\ \A k \in 1 .. Len(e) : PutBytes(mem, w, e)[WrapIndex(w + k - 1)] = e[k]
          /\ \A j \in Index :
                (\A k \in 1 .. Len(e) : j # WrapIndex(w + k - 1)) => PutBytes(mem, w, e)[j] = mem[j]
      BY <1>2, <2>1, PutBytesCells
    <2> QED BY <1>3, <2>2
  <1>7. Contents' = Contents \o e
    BY <1>2, <1>3, <1>5, <1>6, Appended
  <1> QED BY <1>3, <1>4, <1>7 DEF Queue!FWrite, Queue!Call, Call, e

\* lwrb_advance appends what a DMA has put into its block.
LEMMA AdvanceIsFifo ==
    ASSUME TypeOK, BlocksOwned, TypeOK', NEW d \in Data, lwrb_advance(d)
    PROVE  Queue!FWrite(d)
  <1> DEFINE n == BUF_MIN(Len(d), lwrb_get_free(w, r))
  <1>1. d \in Seq(Byte) /\ Len(d) \in Nat /\ Len(d) <= wblk /\ w \in Index /\ r \in Index
    BY DataAssumption DEF lwrb_advance, TypeOK
  <1>2. /\ ready /\ ready' = ready /\ mem' = CopyIn(mem, w, d) /\ w' = WrapIndex(w + n) /\ r' = r
        /\ call' = Call("write", 0, Len(d), d, n)
    BY DEF lwrb_advance
  <1>3. lwrb_get_free(w, r) \in 0 .. Size - 1
    BY <1>1, Counts
  <1>4. n = Len(d)
    BY <1>1, BlockCounts
  <1>5. n = Queue!Lesser(Len(d), (Size - 1) - Len(Contents))
    <2>1. BUF_MIN(lwrb_get_free(w, r), Len(d)) = n
      BY <1>1, <1>3, SizeAssumption DEF BUF_MIN
    <2> QED BY <1>1, <1>2, <2>1, SameCounts
  <1> HIDE DEF n
  <1>6. wblk \in Nat /\ w + Len(d) <= Size /\ Len(d) <= lwrb_get_free(w, r)
    BY <1>1, <1>3, SizeAssumption DEF TypeOK, BlocksOwned, Index
  <1>7. \A k \in 1 .. Len(d) : WrapIndex(w + k - 1) = w + k - 1 /\ w + k - 1 \in Index
    BY <1>1, <1>6, SizeAssumption DEF WrapIndex, Index
  <1>8. \A i \in Index : mem'[i] = IF w <= i /\ i < w + Len(d) THEN d[i - w + 1] ELSE mem[i]
    <2>1. w \in 0 .. Size
      BY <1>1, SizeAssumption DEF Index
    <2>2. mem \in [Index -> Byte]
      BY DEF TypeOK
    <2>3. \A i \in Index : CopyIn(mem, w, d)[i] = IF w <= i /\ i < w + Len(d) THEN d[i - w + 1] ELSE mem[i]
      BY <1>1, <2>1, <2>2, CopyInCells
    <2> QED BY <1>2, <2>3
  <1>9. ASSUME NEW k \in 1 .. Len(d) PROVE mem'[WrapIndex(w + k - 1)] = d[k]
    <2>1. w <= w + k - 1 /\ w + k - 1 < w + Len(d) /\ (w + k - 1) - w + 1 = k
      BY <1>1, SizeAssumption DEF Index
    <2> QED BY <1>7, <1>8, <2>1
  <1>10. ASSUME NEW j \in Index, \A k \in 1 .. Len(d) : j # WrapIndex(w + k - 1)
         PROVE  mem'[j] = mem[j]
    <2>1. ~(w <= j /\ j < w + Len(d))
      <3> SUFFICES ASSUME w <= j, j < w + Len(d) PROVE FALSE
        OBVIOUS
      <3>1. j - w + 1 \in 1 .. Len(d) /\ w + (j - w + 1) - 1 = j
        BY <1>1, SizeAssumption DEF Index
      <3>2. WrapIndex(w + (j - w + 1) - 1) = j
        BY <1>7, <3>1
      <3> QED BY <1>10, <3>1, <3>2
    <2> QED BY <1>8, <2>1
  <1>11. Contents' = Contents \o d
    BY <1>1, <1>2, <1>4, <1>6, <1>9, <1>10, Appended
  <1>12. SubSeq(d, 1, n) = d
    BY <1>1, <1>4, SubSeqFull
  <1> QED BY <1>2, <1>5, <1>11, <1>12 DEF Queue!FWrite, Queue!Call, Call

\* lwrb_read takes the oldest bytes, lwrb_skip forgets them.
LEMMA ReadIsFifo ==
    ASSUME TypeOK, BlocksOwned, TypeOK', NEW k \in Req
    PROVE  /\ lwrb_read(k) => Queue!FRead(k)
           /\ lwrb_skip(k) => Queue!FSkip(k)
  <1> DEFINE n == BUF_MIN(k, lwrb_get_full(w, r))
  <1>1. /\ k \in Nat /\ n \in Nat /\ n <= lwrb_get_full(w, r)
        /\ n = BUF_MIN(lwrb_get_full(w, r), k) /\ w \in Index /\ r \in Index /\ n \in 0 .. Size - 1
    BY ReadCount, ReqAssumption DEF TypeOK
  <1>2. ready => n = Queue!Lesser(k, Len(Contents))
    BY <1>1, SameCounts
  <1>3. NextIndex(r, n) = WrapIndex(r + n)
    BY <1>1, SameIndex
  <1>4. ready => GetBytes(mem, r, n) = SubSeq(Contents, 1, n)
    <2>1. r + 0 = r /\ WrapIndex(r) = r /\ 0 + n = n /\ 0 + 1 = 1 /\ 0 + n <= lwrb_get_full(w, r)
      BY <1>1, SizeAssumption DEF Index, WrapIndex
    <2>2. ready => GetBytes(mem, WrapIndex(r + 0), n) = SubSeq(Contents, 0 + 1, 0 + n)
      BY <1>1, <2>1, Got
    <2> QED BY <2>1, <2>2
  <1>5. lwrb_read(k) => Queue!FRead(k)
    <2> SUFFICES ASSUME lwrb_read(k) PROVE Queue!FRead(k)
      OBVIOUS
    <2>1. /\ ready /\ ready' = ready /\ r' = WrapIndex(r + n) /\ mem' = mem /\ w' = w
          /\ call' = Call("read", 0, k, GetBytes(mem, r, n), n)
      BY <1>1, <1>3 DEF lwrb_read
    <2> HIDE DEF n
    <2>2. Contents' = SubSeq(Contents, n + 1, Len(Contents))
      BY <1>1, <2>1, Dropped
    <2> QED BY <1>2, <1>4, <2>1, <2>2 DEF Queue!FRead, Queue!Call, Call
  <1>6. lwrb_skip(k) => Queue!FSkip(k)
    <2> SUFFICES ASSUME lwrb_skip(k) PROVE Queue!FSkip(k)
      OBVIOUS
    <2>1. /\ ready /\ ready' = ready /\ r' = WrapIndex(r + n) /\ mem' = mem /\ w' = w
          /\ call' = Call("skip", 0, k, << >>, n)
      BY DEF lwrb_skip
    <2> HIDE DEF n
    <2>2. Contents' = SubSeq(Contents, n + 1, Len(Contents))
      BY <1>1, <2>1, Dropped
    <2> QED BY <1>2, <2>1, <2>2 DEF Queue!FSkip, Queue!Call, Call
  <1> QED BY <1>5, <1>6

\* The bytes a DMA has sent from its block are the oldest ones, and go.
LEMMA DrainIsFifo ==
    ASSUME TypeOK, BlocksOwned, TypeOK', FinishLinearRead
    PROVE  rblk \in Req /\ Queue!FRead(rblk)
  <1>1. /\ rblk \in 0 .. Size - 1 /\ rblk \in Nat /\ rblk \in Req
        /\ BUF_MIN(rblk, lwrb_get_full(w, r)) = rblk /\ rblk <= lwrb_get_full(w, r)
        /\ w \in Index /\ r \in Index /\ mem \in [Index -> Byte] /\ r + rblk <= Size
    BY BlockCounts, ReqAssumption, SizeAssumption DEF BlocksOwned, TypeOK
  <1>2. /\ ready /\ ready' = ready /\ r' = WrapIndex(r + rblk) /\ mem' = mem /\ w' = w
        /\ call' = Call("read", 0, rblk, CopyOut(mem, r, rblk), rblk)
    BY <1>1 DEF FinishLinearRead
  <1>3. rblk = Queue!Lesser(rblk, Len(Contents))
    BY <1>1, <1>2, SameCounts
  <1>4. Contents' = SubSeq(Contents, rblk + 1, Len(Contents))
    BY <1>1, <1>2, Dropped
  <1>5. CopyOut(mem, r, rblk) = GetBytes(mem, r, rblk)
    <2>1. \A i \in 1 .. rblk : WrapIndex(r + i - 1) = r + i - 1
      BY <1>1, SizeAssumption DEF WrapIndex, Index
    <2>2. CopyOut(mem, r, rblk) = [i \in 1 .. rblk |-> mem[WrapIndex(r + i - 1)]]
      BY <2>1 DEF CopyOut
    <2>3. GetBytes(mem, r, rblk) = [i \in 1 .. rblk |-> mem[WrapIndex(r + i - 1)]]
      BY <1>1, GetBytesCells
    <2> QED BY <2>2, <2>3
  <1>6. GetBytes(mem, r, rblk) = SubSeq(Contents, 1, rblk)
    <2>1. r + 0 = r /\ WrapIndex(r) = r /\ 0 + rblk = rblk /\ 0 + 1 = 1
      BY <1>1, SizeAssumption DEF Index, WrapIndex
    <2>2. GetBytes(mem, WrapIndex(r + 0), rblk) = SubSeq(Contents, 0 + 1, 0 + rblk)
      BY <1>1, <1>2, <2>1, Got
    <2> QED BY <2>1, <2>2
  <1> QED BY <1>1, <1>2, <1>3, <1>4, <1>5, <1>6 DEF Queue!FRead, Queue!Call, Call

\* lwrb_peek returns bytes from the middle and takes none.
LEMMA PeekIsFifo ==
    ASSUME TypeOK, NEW s \in Req, NEW k \in Req, lwrb_peek(s, k)
    PROVE  Queue!FPeek(s, k)
  <1> DEFINE f == lwrb_get_full(w, r)
             n == IF s >= f THEN 0 ELSE BUF_MIN(f - s, k)
             got == IF n = 0 THEN << >> ELSE GetBytes(mem, WrapIndex(r + s), n)
  <1>1. /\ ready /\ call' = Call("peek", s, k, got, n) /\ UNCHANGED <<mem, r, w, ready>>
    BY DEF lwrb_peek
  <1>2. s \in Nat /\ k \in Nat /\ f \in 0 .. Size - 1 /\ f \in Nat /\ Len(Contents) = f
    BY <1>1, ReqAssumption, Counts, ContentsIs, SizeAssumption DEF TypeOK
  <1> HIDE DEF f
  <1>3. n \in Nat /\ (n # 0 => s + n <= f)
    BY <1>2 DEF BUF_MIN
  <1>4. n = IF s >= Len(Contents) THEN 0 ELSE Queue!Lesser(k, Len(Contents) - s)
    BY <1>2 DEF Queue!Lesser, BUF_MIN
  <1> HIDE DEF n
  <1>5. got = SubSeq(Contents, s + 1, s + n)
    <2>1. CASE n = 0
      <3>1. s + n < s + 1 /\ s + 1 \in Int /\ s + n \in Int
        BY <1>2, <2>1
      <3> QED BY <2>1, <3>1, SubSeqEmpty
    <2>2. CASE n # 0
      BY <1>1, <1>2, <1>3, <2>2, Got DEF f
    <2> QED BY <2>1, <2>2
  <1>6. Contents' = Contents
    BY <1>1 DEF Contents
  <1> QED BY <1>1, <1>4, <1>5, <1>6 DEF Queue!FPeek, Queue!Call, Call

\* Every step of the ring buffer is a step of the queue, or none.
LEMMA StepIsFifo ==
    ASSUME TypeOK, BlocksOwned, TypeOK', [Next]_vars
    PROVE  [Queue!FNext]_(Queue!fvars)
  <1>1. CASE \E d \in Data : lwrb_write(d) \/ lwrb_advance(d)
    BY <1>1, WriteIsFifo, AdvanceIsFifo DEF Queue!FNext
  <1>2. CASE \E k \in Req : lwrb_read(k) \/ lwrb_skip(k)
    BY <1>2, ReadIsFifo DEF Queue!FNext
  <1>3. CASE \E s \in Req, k \in Req : lwrb_peek(s, k)
    BY <1>3, PeekIsFifo DEF Queue!FNext
  <1>4. CASE FinishLinearRead
    BY <1>4, DrainIsFifo DEF Queue!FNext
  <1>5. CASE Query
    <2>1. Contents' = Contents /\ ready' = ready
      BY <1>5 DEF Query, Contents
    <2>2. /\ ready => Len(Contents) = lwrb_get_full(w, r)
          /\ lwrb_get_free(w, r) = (Size - 1) - lwrb_get_full(w, r)
      BY ContentsIs, Counts DEF TypeOK
    <2> QED BY <1>5, <2>1, <2>2 DEF Query, Queue!FNext, Queue!FQuery, Queue!Call, Call
  <1>6. CASE StartLinearWrite \/ StartLinearRead
    <2>1. Contents' = Contents /\ ready' = ready
      <3>1. mem' = mem /\ r' = r /\ w' = w /\ ready' = ready
        BY <1>6 DEF StartLinearWrite, StartLinearRead
      <3> QED BY <3>1 DEF Contents
    <2> QED BY <1>6, <2>1 DEF StartLinearWrite, StartLinearRead, Queue!FNext, Queue!FLinear,
                              Queue!Call, Call
  <1>7. CASE lwrb_reset \/ lwrb_init \/ lwrb_free
    <2>1. (w' = 0 /\ r' = 0) \/ ~ready'
      BY <1>7 DEF lwrb_reset, lwrb_init, lwrb_free
    <2>2. lwrb_get_full(0, 0) = 0
      BY DEF lwrb_get_full
    <2>3. Contents' = << >>
      <3>1. CASE ~ready'
        BY <3>1 DEF Contents
      <3>2. CASE ready' /\ w' = 0 /\ r' = 0
        BY <2>2, <3>2, ContentsWillBe, EmptySeq
      <3> QED BY <2>1, <3>1, <3>2
    <2> QED BY <1>7, <2>3 DEF lwrb_reset, lwrb_init, lwrb_free, Queue!FNext, Queue!FEmpty,
                              Queue!Call, Call
  <1>8. CASE Refused
    <2>1. Contents' = Contents /\ ready' = ready
      BY <1>8 DEF Refused, Contents
    <2> QED BY <1>8, <2>1 DEF Refused, Queue!FNext, Queue!FRefused, Queue!Call, Call
  <1>9. CASE UNCHANGED vars
    BY <1>9 DEF vars, Queue!fvars, Contents
  <1> QED BY <1>1, <1>2, <1>3, <1>4, <1>5, <1>6, <1>7, <1>8, <1>9 DEF Next

\* For every array size, lwrb.c implements the bounded queue of Fifo: every
\* call takes, gives and counts the bytes that a first-in first-out queue of
\* size - 1 bytes would, around the end of the array and under DMA too.
THEOREM Implements == Spec => IsFifo
  <1>1. Init => Queue!FInit
    <2> SUFFICES ASSUME Init PROVE Queue!FInit
      OBVIOUS
    <2>1. TypeOK /\ ready /\ w = 0 /\ r = 0
      BY InitTypeOK DEF Init
    <2>2. Contents = << >>
      <3>1. lwrb_get_full(0, 0) = 0
        BY DEF lwrb_get_full
      <3> QED BY <2>1, <3>1, ContentsIs, EmptySeq
    <2> QED BY <2>2 DEF Init, Queue!FInit, Queue!Call, Call
  <1>2. TypeOK /\ BlocksOwned /\ [Next]_vars => TypeOK' /\ BlocksOwned'
    BY NextTypeOK, NextBlocksOwned
  <1>3. TypeOK /\ BlocksOwned /\ TypeOK' /\ [Next]_vars => [Queue!FNext]_(Queue!fvars)
    BY StepIsFifo
  <1> QED BY <1>1, <1>2, <1>3, InitTypeOK, PTL DEF Spec, IsFifo, Queue!FSpec

-----------------------------------------------------------------------------
(* The interrupted ring buffer of LwrbPreempt.                             *)

\* A second interrupt inside one of these calls may see an index that rests
\* past the array for longer than the counts allow.
IsrOnce == \A c \in {"skip", "write", "advance"} : MaxIsr[c] <= 1

Stamp == 0 .. M - 1

\* Where the next byte to read and the next byte to write are: the index in
\* the structure and what the call has moved without telling it.
Rd == WrapIndex(r + (IF pc \in {"read", "read_over"} THEN done ELSE 0))

Wr == WrapIndex(w + (IF pc \in {"write", "write_over"} THEN done
                     ELSE IF pc = "advance" THEN left ELSE 0))

\* From rd up to wr the array holds the stamps from nx up to st.
Holds(m, rd, wr, nx, st) ==
    /\ \A i \in 0 .. lwrb_get_full(wr, rd) - 1 : m[WrapIndex(rd + i)] = (nx + i) % M
    /\ st = (nx + lwrb_get_full(wr, rd)) % M

TypeInv ==
    /\ mem \in [Index -> Stamp] /\ sent \in Stamp /\ next \in Stamp
    /\ r \in Nat /\ w \in Nat /\ left \in Nat /\ tocopy \in Nat /\ done \in Nat /\ hits \in Nat
    /\ inOrder \in BOOLEAN /\ writerIsr \in BOOLEAN
    /\ pc \in {"idle"} \cup (IF writerIsr
                             THEN {"read", "read_over", "read_end", "skip", "skip_end"}
                             ELSE {"write", "write_over", "write_end", "advance", "advance_end"})
    /\ task = CASE pc = "idle" -> "none"
                [] pc \in {"read", "read_over", "read_end"} -> "read"
                [] pc \in {"skip", "skip_end"} -> "skip"
                [] pc \in {"write", "write_over", "write_end"} -> "write"
                [] OTHER -> "advance"

\* What the main program has counted is still there when the handler has come.
ReaderInv ==
    /\ writerIsr => w \in Index
    /\ pc = "idle" => r \in Index
    /\ pc = "read" => /\ r \in Index /\ left <= lwrb_get_full(w, r)
                      /\ tocopy = BUF_MIN(Size - r, left) /\ done <= tocopy
    /\ pc = "read_over" => r = Size /\ done <= left /\ left <= lwrb_get_full(w, 0)
    /\ pc = "read_end" => r <= Size
    /\ pc = "skip" => r \in Index /\ left <= lwrb_get_full(w, r)
    /\ pc = "skip_end" => r <= 2 * Size - 2 /\ (r >= Size /\ hits = 0 => w >= r - Size)

WriterInv ==
    /\ ~writerIsr => r \in Index
    /\ pc = "idle" => w \in Index
    /\ pc = "write" => /\ w \in Index /\ left <= lwrb_get_free(w, r)
                       /\ tocopy = BUF_MIN(Size - w, left) /\ done <= tocopy
    /\ pc = "write_over" => w = Size /\ done <= left /\ left <= lwrb_get_free(0, r)
    /\ pc = "advance" => w \in Index /\ left <= lwrb_get_free(w, r) /\ w + left <= Size
    /\ pc \in {"write_end", "advance_end"} => w <= Size
    /\ w = Size /\ hits = 0 => r # 0

IInv == TypeInv /\ ReaderInv /\ WriterInv /\ Holds(mem, Rd, Wr, next, sent) /\ inOrder

-----------------------------------------------------------------------------
\* Stamps are added as the modulus says, for every number of stamps.
LEMMA StampAdd ==
    ASSUME NEW a \in Stamp, NEW i \in 0 .. Size, NEW j \in 0 .. Size, i + j <= Size
    PROVE  /\ (a + i) % M \in Stamp
           /\ (((a + i) % M) + j) % M = (a + (i + j)) % M
           /\ (a + 0) % M = a
  <1>1. \A x \in Nat : (x < M => x % M = x) /\ (M <= x /\ x < 2 * M => x % M = x - M)
    BY StampAssumption, SizeAssumption
  <1>2. /\ a + i \in Nat /\ a + i < 2 * M /\ a + (i + j) \in Nat /\ a + (i + j) < 2 * M
        /\ a < M /\ a \in Nat /\ M \in Nat /\ i \in Nat /\ j \in Nat /\ i < M /\ j < M /\ i + j < M
    BY StampAssumption, SizeAssumption DEF Stamp
  <1>3. (a + i) % M = IF a + i < M THEN a + i ELSE a + i - M
    BY <1>1, <1>2
  <1>4. (a + (i + j)) % M = IF a + (i + j) < M THEN a + (i + j) ELSE a + (i + j) - M
    BY <1>1, <1>2
  <1>5. (a + 0) % M = a
    BY <1>1, <1>2
  <1>6. CASE a + i < M
    BY <1>2, <1>3, <1>4, <1>5, <1>6 DEF Stamp
  <1>7. CASE a + i >= M
    <2>1. (a + i) % M = a + i - M /\ a + i - M \in Nat /\ a + i - M + j \in Nat /\ a + i - M + j < M
      BY <1>2, <1>3, <1>7
    <2>2. (a + i - M + j) % M = a + i - M + j
      BY <1>1, <2>1
    <2>3. (a + (i + j)) % M = a + i - M + j
      BY <1>2, <1>4, <1>7
    <2> QED BY <1>5, <1>2, <2>1, <2>2, <2>3 DEF Stamp
  <1> QED BY <1>2, <1>6, <1>7

\* Taking c bytes that are there leaves the rest in order.
LEMMA HoldsTake ==
    ASSUME NEW m, NEW rd \in Index, NEW wr \in Index, NEW nx \in Stamp, NEW st,
           Holds(m, rd, wr, nx, st), NEW c \in Nat, c <= lwrb_get_full(wr, rd)
    PROVE  /\ (nx + c) % M \in Stamp
           /\ Holds(m, WrapIndex(rd + c), wr, (nx + c) % M, st)
  <1> DEFINE f == lwrb_get_full(wr, rd)
             q == WrapIndex(rd + c)
  <1>1. f \in 0 .. Size - 1 /\ c \in 0 .. Size - 1
    BY Counts, SizeAssumption
  <1>2. q \in Index /\ lwrb_get_full(wr, q) = f - c
    BY FullAfterRead
  <1>3. (nx + c) % M \in Stamp
    BY <1>1, StampAdd, SizeAssumption
  <1>4. ASSUME NEW i \in 0 .. (f - c) - 1
        PROVE  m[WrapIndex(q + i)] = (((nx + c) % M) + i) % M
    <2>1. c + i \in 0 .. f - 1 /\ i \in 0 .. Size /\ c \in 0 .. Size /\ c + i <= Size
      BY <1>1, SizeAssumption
    <2>2. WrapIndex(q + i) = WrapIndex(rd + (c + i))
      BY <1>1, <2>1, SizeAssumption DEF Index, WrapIndex
    <2>3. m[WrapIndex(rd + (c + i))] = (nx + (c + i)) % M
      BY <2>1 DEF Holds
    <2> QED BY <2>1, <2>2, <2>3, StampAdd
  <1>5. st = (((nx + c) % M) + (f - c)) % M
    <2>1. c \in 0 .. Size /\ f - c \in 0 .. Size /\ c + (f - c) = f /\ f <= Size
      BY <1>1, SizeAssumption
    <2> QED BY <2>1, StampAdd DEF Holds
  <1> HIDE DEF f, q
  <1>6. Holds(m, q, wr, (nx + c) % M, st)
    BY <1>2, <1>4, <1>5 DEF Holds
  <1> QED BY <1>3, <1>6 DEF q

\* Putting c more stamps behind the last one keeps them all in order.
LEMMA HoldsPut ==
    ASSUME NEW m, NEW m2, NEW rd \in Index, NEW wr \in Index, NEW nx \in Stamp, NEW st,
           Holds(m, rd, wr, nx, st), NEW c \in Nat, c <= lwrb_get_free(wr, rd),
           \A i \in 0 .. c - 1 : m2[WrapIndex(wr + i)] = (st + i) % M,
           \A j \in Index : (\A i \in 0 .. c - 1 : j # WrapIndex(wr + i)) => m2[j] = m[j]
    PROVE  /\ (st + c) % M \in Stamp
           /\ Holds(m2, rd, WrapIndex(wr + c), nx, (st + c) % M)
  <1> DEFINE f == lwrb_get_full(wr, rd)
             q == WrapIndex(wr + c)
  <1>1. f \in 0 .. Size - 1 /\ c \in 0 .. Size - 1 /\ f + c \in 0 .. Size - 1
    BY Counts, SizeAssumption
  <1>2. q \in Index /\ lwrb_get_full(q, rd) = f + c
    BY FullAfterWrite
  <1>3. st = (nx + f) % M /\ st \in Stamp
    BY <1>1, StampAdd, SizeAssumption DEF Holds
  <1>4. (st + c) % M = (nx + (f + c)) % M /\ (st + c) % M \in Stamp
    <2>1. f \in 0 .. Size /\ c \in 0 .. Size /\ f + c \in 0 .. Size /\ 0 \in 0 .. Size /\ f + c <= Size
          /\ c + 0 <= Size
      BY <1>1, SizeAssumption
    <2>2. (((nx + f) % M) + c) % M = (nx + (f + c)) % M
      BY <2>1, StampAdd
    <2>3. (st + c) % M \in Stamp
      BY <1>3, <2>1, StampAdd
    <2> HIDE DEF f
    <2> QED BY <1>3, <2>2, <2>3
  <1>5. ASSUME NEW i \in 0 .. (f + c) - 1
        PROVE  m2[WrapIndex(rd + i)] = (nx + i) % M
    <2>1. CASE i < f
      <3>1. \A j \in 0 .. c - 1 : WrapIndex(rd + i) # WrapIndex(wr + j)
        BY <1>1, <2>1, SizeAssumption DEF Index, WrapIndex, lwrb_get_full
      <3>2. WrapIndex(rd + i) \in Index /\ i \in 0 .. f - 1
        BY <1>1, <2>1, SizeAssumption DEF Index, WrapIndex
      <3> QED BY <3>1, <3>2 DEF Holds
    <2>2. CASE i >= f
      <3>1. i - f \in 0 .. c - 1 /\ i - f \in 0 .. Size /\ f \in 0 .. Size /\ f + (i - f) = i /\ i <= Size
        BY <1>1, <2>2, SizeAssumption
      <3>2. WrapIndex(rd + i) = WrapIndex(wr + (i - f))
        BY <1>1, <2>2, SizeAssumption DEF Index, WrapIndex, lwrb_get_full
      <3>3. m2[WrapIndex(wr + (i - f))] = (st + (i - f)) % M
        BY <3>1
      <3> QED BY <1>3, <3>1, <3>2, <3>3, StampAdd
    <2> QED BY <1>1, <2>1, <2>2
  <1> HIDE DEF f, q
  <1>6. Holds(m2, rd, q, nx, (st + c) % M)
    BY <1>2, <1>4, <1>5 DEF Holds
  <1> QED BY <1>4, <1>6 DEF q

\* Both positions are inside the array.
LEMMA Positions ==
    ASSUME TypeInv, ReaderInv, WriterInv
    PROVE  /\ Rd \in Index /\ Wr \in Index
           /\ writerIsr => Wr = w /\ w \in Index
           /\ ~writerIsr => Rd = r /\ r \in Index
  <1>1. CASE pc = "idle"
    BY <1>1, SizeAssumption DEF ReaderInv, WriterInv, Rd, Wr, Index, WrapIndex
  <1>2. CASE writerIsr /\ pc # "idle"
    <2>1. w \in Index /\ pc \in {"read", "read_over", "read_end", "skip", "skip_end"} /\ r \in Nat /\ done \in Nat /\ left \in Nat
      BY <1>2 DEF TypeInv, ReaderInv
    <2>2. Wr = w
      BY <2>1, SizeAssumption DEF Wr, WrapIndex, Index
    <2>3. Rd \in Index
      <3>1. CASE pc = "read"
        <4>1. r \in Index /\ tocopy = BUF_MIN(Size - r, left) /\ done <= tocopy
          BY <3>1 DEF ReaderInv
        <4>2. r + done <= Size
          BY <2>1, <4>1, SizeAssumption DEF BUF_MIN, Index
        <4> QED BY <2>1, <3>1, <4>1, <4>2, SizeAssumption DEF Rd, Index, WrapIndex
      <3>2. CASE pc = "read_over"
        <4>1. 0 \in Index /\ lwrb_get_full(w, 0) \in 0 .. Size - 1
          BY <2>1, Counts, SizeAssumption DEF Index
        <4> QED BY <2>1, <3>2, <4>1, SizeAssumption DEF ReaderInv, Rd, Index, WrapIndex
      <3>3. CASE pc \in {"read_end", "skip", "skip_end"}
        BY <2>1, <3>3, SizeAssumption DEF ReaderInv, Rd, Index, WrapIndex
      <3> QED BY <2>1, <3>1, <3>2, <3>3
    <2> QED BY <1>2, <2>1, <2>2, <2>3
  <1>3. CASE ~writerIsr /\ pc # "idle"
    <2>1. r \in Index /\ pc \in {"write", "write_over", "write_end", "advance", "advance_end"} /\ w \in Nat /\ done \in Nat /\ left \in Nat
      BY <1>3 DEF TypeInv, WriterInv
    <2>2. Rd = r
      BY <2>1, SizeAssumption DEF Rd, WrapIndex, Index
    <2>3. Wr \in Index
      <3>1. CASE pc = "write"
        <4>1. w \in Index /\ tocopy = BUF_MIN(Size - w, left) /\ done <= tocopy
          BY <3>1 DEF WriterInv
        <4>2. w + done <= Size
          BY <2>1, <4>1, SizeAssumption DEF BUF_MIN, Index
        <4> QED BY <2>1, <3>1, <4>1, <4>2, SizeAssumption DEF Wr, Index, WrapIndex
      <3>2. CASE pc = "write_over"
        <4>1. 0 \in Index /\ lwrb_get_free(0, r) \in 0 .. Size - 1
          BY <2>1, Counts, SizeAssumption DEF Index
        <4> QED BY <2>1, <3>2, <4>1, SizeAssumption DEF WriterInv, Wr, Index, WrapIndex
      <3>3. CASE pc \in {"write_end", "advance", "advance_end"}
        BY <2>1, <3>3, SizeAssumption DEF WriterInv, Wr, Index, WrapIndex
      <3> QED BY <2>1, <3>1, <3>2, <3>3
    <2> QED BY <1>3, <2>1, <2>2, <2>3
  <1> QED BY <1>1, <1>2, <1>3

\* A step that moves no byte keeps the data.
LEMMA Quiet ==
    ASSUME IInv, mem' = mem, sent' = sent, next' = next, inOrder' = inOrder, Rd' = Rd, Wr' = Wr
    PROVE  Holds(mem, Rd, Wr, next, sent)' /\ inOrder'
  <1>1. Holds(mem, Rd, Wr, next, sent) /\ inOrder
    BY DEF IInv
  <1>2. Holds(mem', Rd', Wr', next', sent')
    BY <1>1
  <1> QED BY <1>1, <1>2 DEF Holds

LEMMA InitIInv == PreemptInit => IInv
  <1> SUFFICES ASSUME PreemptInit PROVE IInv
    OBVIOUS
  <1> USE DEF PreemptInit
  <1>1. TypeInv
    BY SizeAssumption, StampAssumption DEF TypeInv, Stamp, Index
  <1>2. ReaderInv /\ WriterInv
    BY SizeAssumption DEF ReaderInv, WriterInv, Index
  <1>3. Rd = 0 /\ Wr = 0 /\ lwrb_get_full(0, 0) = 0
    BY SizeAssumption DEF Rd, Wr, WrapIndex, lwrb_get_full
  <1>4. (0 + 0) % M = 0
    BY StampAdd, StampAssumption, SizeAssumption DEF Stamp
  <1>5. Holds(mem, Rd, Wr, next, sent)
    BY <1>3, <1>4 DEF Holds
  <1> QED BY <1>1, <1>2, <1>5 DEF IInv

-----------------------------------------------------------------------------
(* lwrb_read in the main program.                                          *)

LEMMA ReadStartStep == ASSUME IInv, NEW c \in 1 .. Size, ReadStart(c) PROVE IInv'
  <1> USE DEF ReadStart
  <1>0. TypeInv /\ ReaderInv /\ WriterInv
    BY DEF IInv
  <1>1. /\ pc = "idle" /\ w \in Index /\ r \in Index /\ c \in Nat
        /\ lwrb_get_full(w, r) \in 0 .. Size - 1 /\ left' = BUF_MIN(lwrb_get_full(w, r), c)
        /\ w' = w /\ r' = r
    BY <1>0, Counts, SizeAssumption DEF ReaderInv, WriterInv
  <1>2. left' \in Nat /\ left' <= lwrb_get_full(w, r) /\ tocopy' \in Nat /\ tocopy' = BUF_MIN(Size - r, left')
    BY <1>1, SizeAssumption DEF BUF_MIN, Index
  <1>3. TypeInv'
    BY <1>0, <1>2 DEF TypeInv
  <1>4. ReaderInv'
    BY <1>0, <1>1, <1>2, SizeAssumption DEF ReaderInv
  <1>5. WriterInv'
    BY <1>0, <1>1, <1>2 DEF WriterInv
  <1>6. Rd' = Rd /\ Wr' = Wr
    BY <1>1, SizeAssumption DEF Rd, Wr, Index
  <1> QED BY <1>3, <1>4, <1>5, <1>6, Quiet DEF IInv

LEMMA ReadByteStep == ASSUME IInv, ReadByte PROVE IInv'
  <1>0. TypeInv /\ ReaderInv /\ WriterInv /\ Holds(mem, Rd, Wr, next, sent) /\ inOrder
    BY DEF IInv
  <1>1. /\ Rd \in Index /\ Wr \in Index /\ writerIsr /\ Wr = w /\ w \in Index
        /\ done \in Nat /\ r \in Nat /\ left \in Nat
    BY <1>0, Positions DEF ReadByte, TypeInv
  <1>2. /\ w' = w /\ r' = r /\ mem' = mem /\ sent' = sent /\ left' = left /\ tocopy' = tocopy /\ pc' = pc
        /\ hits' = hits /\ task' = task /\ writerIsr' = writerIsr
        /\ next' = (next + 1) % M /\ done' = done + 1
    BY DEF ReadByte
  <1>3. /\ Rd' = WrapIndex(Rd + 1) /\ Wr' = Wr /\ 1 <= lwrb_get_full(Wr, Rd)
        /\ inOrder' = (inOrder /\ mem[Rd] = next)
    <2>1. CASE pc = "read"
      <3>1. done < tocopy /\ tocopy = BUF_MIN(Size - r, left) /\ r \in Index /\ left <= lwrb_get_full(w, r)
            /\ inOrder' = (inOrder /\ mem[r + done] = next)
        BY <1>0, <2>1 DEF ReadByte, ReaderInv
      <3>2. done < Size - r /\ done < left
        BY <1>1, <3>1, SizeAssumption DEF BUF_MIN, Index
      <3>3. Rd = r + done /\ Rd' = WrapIndex(Rd + 1) /\ Wr' = Wr
        BY <1>1, <1>2, <2>1, <3>1, <3>2, SizeAssumption DEF Rd, Wr, WrapIndex, Index
      <3>4. done + 1 <= lwrb_get_full(w, r) /\ lwrb_get_full(w, WrapIndex(r + done)) = lwrb_get_full(w, r) - done
        BY <1>1, <3>1, <3>2, FullAfterRead, Counts
      <3>5. WrapIndex(r + done) = r + done
        BY <1>1, <3>1, <3>2, SizeAssumption DEF WrapIndex, Index
      <3>6. lwrb_get_full(w, r) \in Nat
        BY <1>1, <3>1, Counts
      <3> QED BY <1>1, <3>1, <3>3, <3>4, <3>5, <3>6
    <2>2. CASE pc = "read_over"
      <3>1. done < left /\ r = Size /\ left <= lwrb_get_full(w, 0)
            /\ inOrder' = (inOrder /\ mem[done] = next)
        BY <1>0, <2>2 DEF ReadByte, ReaderInv
      <3>2. 0 \in Index /\ lwrb_get_full(w, 0) \in 0 .. Size - 1
        BY <1>1, Counts, SizeAssumption DEF Index
      <3>3. Rd = done /\ Rd' = WrapIndex(Rd + 1) /\ Wr' = Wr
        BY <1>1, <1>2, <2>2, <3>1, <3>2, SizeAssumption DEF Rd, Wr, WrapIndex, Index
      <3>4. done + 1 <= lwrb_get_full(w, 0) /\ lwrb_get_full(w, WrapIndex(0 + done)) = lwrb_get_full(w, 0) - done
        <4>1. done <= lwrb_get_full(w, 0) /\ done + 1 <= lwrb_get_full(w, 0)
          BY <1>1, <3>1, <3>2
        <4> QED BY <1>1, <3>2, <4>1, FullAfterRead
      <3>5. WrapIndex(0 + done) = done
        BY <1>1, <3>1, <3>2, SizeAssumption DEF WrapIndex, Index
      <3> QED BY <1>1, <3>1, <3>2, <3>3, <3>4, <3>5
    <2> QED BY <2>1, <2>2 DEF ReadByte
  <1>4. next \in Stamp /\ (next + 1) % M \in Stamp /\ Holds(mem, WrapIndex(Rd + 1), Wr, (next + 1) % M, sent)
    BY <1>0, <1>1, <1>3, HoldsTake DEF TypeInv
  <1>5. mem[Rd] = next
    <2>1. 0 \in 0 .. lwrb_get_full(Wr, Rd) - 1
      BY <1>1, <1>3, Counts
    <2>2. WrapIndex(Rd + 0) = Rd
      BY <1>1, SizeAssumption DEF WrapIndex, Index
    <2>3. mem[WrapIndex(Rd + 0)] = (next + 0) % M
      BY <1>0, <2>1 DEF Holds
    <2>4. (next + 0) % M = next
      BY <1>4, StampAdd, SizeAssumption
    <2> QED BY <2>2, <2>3, <2>4
  <1>6. inOrder' /\ inOrder' \in BOOLEAN
    BY <1>0, <1>3, <1>5
  <1>7. TypeInv'
    BY <1>0, <1>1, <1>2, <1>4, <1>6 DEF TypeInv
  <1>8. ReaderInv'
    <2>1. pc = "read" \/ pc = "read_over"
      BY DEF ReadByte
    <2>2. (pc = "read" => done + 1 <= tocopy) /\ (pc = "read_over" => done + 1 <= left)
      BY <1>0, <1>1 DEF ReadByte, TypeInv
    <2> QED BY <1>0, <1>2, <2>1, <2>2 DEF ReaderInv
  <1>9. WriterInv'
    BY <1>0, <1>1, <1>2 DEF WriterInv, ReadByte
  <1>10. Holds(mem, Rd, Wr, next, sent)'
    BY <1>2, <1>3, <1>4 DEF Holds
  <1> QED BY <1>6, <1>7, <1>8, <1>9, <1>10 DEF IInv

LEMMA ReadLinearDoneStep == ASSUME IInv, ReadLinearDone PROVE IInv'
  <1> USE DEF ReadLinearDone
  <1>0. TypeInv /\ ReaderInv /\ WriterInv
    BY DEF IInv
  <1>1. /\ pc = "read" /\ done = tocopy /\ r' = r + tocopy /\ left' = left - tocopy /\ done' = 0 /\ w' = w
        /\ r \in Index /\ w \in Index /\ left \in Nat /\ left <= lwrb_get_full(w, r)
        /\ tocopy = BUF_MIN(Size - r, left) /\ writerIsr
    BY <1>0 DEF TypeInv, ReaderInv
  <1>2. /\ tocopy \in Nat /\ tocopy <= left /\ r + tocopy <= Size /\ left' \in Nat /\ r' \in Nat
        /\ left > tocopy => r + tocopy = Size /\ tocopy = Size - r
    BY <1>1, SizeAssumption DEF BUF_MIN, Index
  <1>3. left > tocopy => left - tocopy <= lwrb_get_full(w, 0)
    <2> SUFFICES ASSUME left > tocopy PROVE left - tocopy <= lwrb_get_full(w, 0)
      OBVIOUS
    <2>1. tocopy \in Nat /\ tocopy <= lwrb_get_full(w, r) /\ lwrb_get_full(w, r) \in Nat
      BY <1>1, <1>2, Counts
    <2>2. lwrb_get_full(w, WrapIndex(r + tocopy)) = lwrb_get_full(w, r) - tocopy
      BY <1>1, <2>1, FullAfterRead
    <2>3. WrapIndex(r + tocopy) = 0
      BY <1>2, SizeAssumption DEF WrapIndex
    <2> QED BY <1>1, <2>1, <2>2, <2>3
  <1>4. TypeInv'
    BY <1>0, <1>1, <1>2 DEF TypeInv
  <1>5. ReaderInv'
    <2>1. CASE left > tocopy
      BY <1>0, <1>1, <1>2, <1>3, <2>1 DEF ReaderInv
    <2>2. CASE ~(left > tocopy)
      BY <1>0, <1>1, <1>2, <2>2 DEF ReaderInv
    <2> QED BY <2>1, <2>2
  <1>6. WriterInv'
    BY <1>0, <1>1, SizeAssumption DEF WriterInv, Index
  <1>7. Rd' = Rd /\ Wr' = Wr
    BY <1>1, <1>2, SizeAssumption DEF Rd, Wr, Index
  <1> QED BY <1>4, <1>5, <1>6, <1>7, Quiet DEF IInv

LEMMA ReadOverDoneStep == ASSUME IInv, ReadOverDone PROVE IInv'
  <1> USE DEF ReadOverDone
  <1>0. TypeInv /\ ReaderInv /\ WriterInv
    BY DEF IInv
  <1>1. /\ pc = "read_over" /\ done = left /\ r' = left /\ left \in Nat /\ w \in Index /\ r = Size /\ w' = w
        /\ writerIsr /\ left <= lwrb_get_full(w, 0)
    BY <1>0 DEF TypeInv, ReaderInv
  <1>2. left < Size
    <2>1. 0 \in Index /\ lwrb_get_full(w, 0) \in 0 .. Size - 1
      BY <1>1, Counts, SizeAssumption DEF Index
    <2> QED BY <1>1, <2>1, SizeAssumption
  <1>3. TypeInv'
    BY <1>0, <1>1 DEF TypeInv
  <1>4. ReaderInv'
    BY <1>0, <1>1, <1>2, SizeAssumption DEF ReaderInv
  <1>5. WriterInv'
    BY <1>0, <1>1, SizeAssumption DEF WriterInv, Index
  <1>6. Rd' = Rd /\ Wr' = Wr
    BY <1>1, <1>2, SizeAssumption DEF Rd, Wr, Index, WrapIndex
  <1> QED BY <1>3, <1>4, <1>5, <1>6, Quiet DEF IInv

LEMMA ReadEndStep == ASSUME IInv, ReadEnd PROVE IInv'
  <1> USE DEF ReadEnd
  <1>0. TypeInv /\ ReaderInv /\ WriterInv
    BY DEF IInv
  <1>1. pc = "read_end" /\ w \in Index /\ r \in Nat /\ r <= Size /\ w' = w /\ writerIsr
        /\ r' = (IF r >= Size THEN 0 ELSE r)
    BY <1>0 DEF TypeInv, ReaderInv
  <1>2. r' \in Index /\ r' \in Nat
    BY <1>1, SizeAssumption DEF Index
  <1>3. TypeInv'
    BY <1>0, <1>2 DEF TypeInv
  <1>4. ReaderInv'
    BY <1>0, <1>1, <1>2 DEF ReaderInv
  <1>5. WriterInv'
    BY <1>0, <1>1, SizeAssumption DEF WriterInv, Index
  <1>6. Rd' = Rd /\ Wr' = Wr
    BY <1>1, SizeAssumption DEF Rd, Wr, Index, WrapIndex
  <1> QED BY <1>3, <1>4, <1>5, <1>6, Quiet DEF IInv

(* lwrb_skip in the main program.                                          *)

LEMMA SkipStartStep == ASSUME IInv, NEW c \in 1 .. Size, SkipStart(c) PROVE IInv'
  <1> USE DEF SkipStart
  <1>0. TypeInv /\ ReaderInv /\ WriterInv
    BY DEF IInv
  <1>1. /\ pc = "idle" /\ w \in Index /\ r \in Index /\ c \in Nat /\ writerIsr
        /\ lwrb_get_full(w, r) \in 0 .. Size - 1 /\ left' = BUF_MIN(c, lwrb_get_full(w, r))
        /\ w' = w /\ r' = r
    BY <1>0, Counts, SizeAssumption DEF ReaderInv, WriterInv
  <1>2. left' \in Nat /\ left' <= lwrb_get_full(w, r)
    BY <1>1, SizeAssumption DEF BUF_MIN
  <1>3. TypeInv'
    BY <1>0, <1>2 DEF TypeInv
  <1>4. ReaderInv'
    BY <1>0, <1>1, <1>2 DEF ReaderInv
  <1>5. WriterInv'
    BY <1>0, <1>1, SizeAssumption DEF WriterInv, Index
  <1>6. Rd' = Rd /\ Wr' = Wr
    BY <1>1, SizeAssumption DEF Rd, Wr, Index
  <1> QED BY <1>3, <1>4, <1>5, <1>6, Quiet DEF IInv

\* The handler has only moved w away from r, so the sum of the skip does not
\* pass w.
LEMMA SkipMoveStep == ASSUME IInv, SkipMove PROVE IInv'
  <1> USE DEF SkipMove
  <1>0. TypeInv /\ ReaderInv /\ WriterInv /\ Holds(mem, Rd, Wr, next, sent) /\ inOrder
    BY DEF IInv
  <1>1. /\ pc = "skip" /\ w \in Index /\ r \in Index /\ left \in Nat /\ left <= lwrb_get_full(w, r)
        /\ w' = w /\ r' = r + left /\ writerIsr /\ next' = (next + left) % M /\ mem' = mem /\ sent' = sent
        /\ next \in Stamp /\ inOrder' = inOrder
    BY <1>0 DEF TypeInv, ReaderInv
  <1>2. Rd = r /\ Wr = w /\ Rd' = WrapIndex(r + left) /\ Wr' = w
    BY <1>1, SizeAssumption DEF Rd, Wr, Index, WrapIndex
  <1>3. /\ r + left <= 2 * Size - 2 /\ r + left \in Nat
        /\ r + left >= Size => w >= r + left - Size
    BY <1>1, SizeAssumption DEF Index, lwrb_get_full
  <1>4. next' \in Stamp /\ Holds(mem, WrapIndex(r + left), w, (next + left) % M, sent)
    BY <1>0, <1>1, <1>2, HoldsTake
  <1>5. Holds(mem, Rd, Wr, next, sent)'
    BY <1>1, <1>2, <1>4 DEF Holds
  <1>6. TypeInv'
    BY <1>0, <1>1, <1>3, <1>4 DEF TypeInv
  <1>7. ReaderInv'
    <2>1. pc' = "skip_end" /\ r' <= 2 * Size - 2 /\ (r' >= Size => w' >= r' - Size) /\ w' \in Index
      BY <1>1, <1>3, SizeAssumption DEF Index
    <2> QED BY <2>1 DEF ReaderInv
  <1>8. WriterInv'
    BY <1>0, <1>1, SizeAssumption DEF WriterInv, Index
  <1> QED BY <1>0, <1>1, <1>5, <1>6, <1>7, <1>8 DEF IInv

LEMMA SkipEndStep == ASSUME IInv, SkipEnd PROVE IInv'
  <1> USE DEF SkipEnd
  <1>0. TypeInv /\ ReaderInv /\ WriterInv
    BY DEF IInv
  <1>1. pc = "skip_end" /\ w \in Index /\ r \in Nat /\ r <= 2 * Size - 2 /\ w' = w /\ writerIsr
        /\ r' = WrapIndex(r)
    BY <1>0 DEF TypeInv, ReaderInv
  <1>2. r' \in Index /\ r' \in Nat
    BY <1>1, SizeAssumption DEF Index, WrapIndex
  <1>3. TypeInv'
    BY <1>0, <1>2 DEF TypeInv
  <1>4. ReaderInv'
    BY <1>0, <1>1, <1>2 DEF ReaderInv
  <1>5. WriterInv'
    BY <1>0, <1>1, SizeAssumption DEF WriterInv, Index
  <1>6. Rd' = Rd /\ Wr' = Wr
    BY <1>1, SizeAssumption DEF Rd, Wr, Index, WrapIndex
  <1> QED BY <1>3, <1>4, <1>5, <1>6, Quiet DEF IInv

-----------------------------------------------------------------------------
(* lwrb_write in the main program.                                         *)

LEMMA WriteStartStep == ASSUME IInv, NEW c \in 1 .. Size, WriteStart(c) PROVE IInv'
  <1> USE DEF WriteStart
  <1>0. TypeInv /\ ReaderInv /\ WriterInv
    BY DEF IInv
  <1>1. /\ pc = "idle" /\ w \in Index /\ r \in Index /\ c \in Nat /\ ~writerIsr
        /\ lwrb_get_free(w, r) \in 0 .. Size - 1 /\ left' = BUF_MIN(lwrb_get_free(w, r), c)
        /\ w' = w /\ r' = r
    BY <1>0, Counts, SizeAssumption DEF ReaderInv, WriterInv
  <1>2. left' \in Nat /\ left' <= lwrb_get_free(w, r) /\ tocopy' \in Nat /\ tocopy' = BUF_MIN(Size - w, left')
    BY <1>1, SizeAssumption DEF BUF_MIN, Index
  <1>3. TypeInv'
    BY <1>0, <1>2 DEF TypeInv
  <1>4. ReaderInv'
    BY <1>0, <1>1 DEF ReaderInv
  <1>5. WriterInv'
    BY <1>0, <1>1, <1>2, SizeAssumption DEF WriterInv, Index
  <1>6. Rd' = Rd /\ Wr' = Wr
    BY <1>1, SizeAssumption DEF Rd, Wr, Index
  <1> QED BY <1>3, <1>4, <1>5, <1>6, Quiet DEF IInv

LEMMA WriteByteStep == ASSUME IInv, WriteByte PROVE IInv'
  <1>0. TypeInv /\ ReaderInv /\ WriterInv /\ Holds(mem, Rd, Wr, next, sent) /\ inOrder
    BY DEF IInv
  <1>1. /\ Rd \in Index /\ Wr \in Index /\ ~writerIsr /\ Rd = r /\ r \in Index
        /\ done \in Nat /\ w \in Nat /\ left \in Nat /\ sent \in Stamp /\ next \in Stamp
        /\ mem \in [Index -> Stamp]
    BY <1>0, Positions DEF WriteByte, TypeInv
  <1>2. /\ w' = w /\ r' = r /\ next' = next /\ left' = left /\ tocopy' = tocopy /\ pc' = pc
        /\ hits' = hits /\ task' = task /\ writerIsr' = writerIsr /\ inOrder' = inOrder
        /\ sent' = (sent + 1) % M /\ done' = done + 1
    BY DEF WriteByte
  <1>3. /\ Wr' = WrapIndex(Wr + 1) /\ Rd' = Rd /\ 1 <= lwrb_get_free(Wr, Rd)
        /\ mem' = [mem EXCEPT ![Wr] = sent]
    <2>1. CASE pc = "write"
      <3>1. done < tocopy /\ tocopy = BUF_MIN(Size - w, left) /\ w \in Index /\ left <= lwrb_get_free(w, r)
            /\ mem' = [mem EXCEPT ![w + done] = sent]
        BY <1>0, <2>1 DEF WriteByte, WriterInv
      <3>2. done < Size - w /\ done < left
        BY <1>1, <3>1, SizeAssumption DEF BUF_MIN, Index
      <3>3. Wr = w + done /\ Wr' = WrapIndex(Wr + 1) /\ Rd' = Rd
        BY <1>1, <1>2, <2>1, <3>1, <3>2, SizeAssumption DEF Rd, Wr, WrapIndex, Index
      <3>4. lwrb_get_free(w, r) \in 0 .. Size - 1 /\ done <= lwrb_get_free(w, r) /\ done + 1 <= lwrb_get_free(w, r)
        BY <1>1, <3>1, <3>2, Counts
      <3>5. WrapIndex(w + done) = w + done /\ lwrb_get_full(WrapIndex(w + done), r) = lwrb_get_full(w, r) + done
        BY <1>1, <3>1, <3>2, <3>4, FullAfterWrite, SizeAssumption DEF WrapIndex, Index
      <3>6. /\ lwrb_get_free(Wr, Rd) = Size - 1 - lwrb_get_full(Wr, Rd)
            /\ lwrb_get_free(w, r) = Size - 1 - lwrb_get_full(w, r) /\ lwrb_get_full(w, r) \in 0 .. Size - 1
        BY <1>1, <3>1, Counts
      <3> QED BY <1>1, <3>1, <3>3, <3>4, <3>5, <3>6, SizeAssumption
    <2>2. CASE pc = "write_over"
      <3>1. done < left /\ w = Size /\ left <= lwrb_get_free(0, r)
            /\ mem' = [mem EXCEPT ![done] = sent]
        BY <1>0, <2>2 DEF WriteByte, WriterInv
      <3>2. 0 \in Index /\ lwrb_get_free(0, r) \in 0 .. Size - 1
        <4>1. 0 \in Index
          BY SizeAssumption DEF Index
        <4> QED BY <1>1, <4>1, Counts
      <3>3. Wr = done /\ Wr' = WrapIndex(Wr + 1) /\ Rd' = Rd
        BY <1>1, <1>2, <2>2, <3>1, <3>2, SizeAssumption DEF Rd, Wr, WrapIndex, Index
      <3>4. done <= lwrb_get_free(0, r) /\ done + 1 <= lwrb_get_free(0, r)
        BY <1>1, <3>1, <3>2
      <3>5. WrapIndex(0 + done) = done /\ lwrb_get_full(WrapIndex(0 + done), r) = lwrb_get_full(0, r) + done
        <4>1. lwrb_get_full(WrapIndex(0 + done), r) = lwrb_get_full(0, r) + done
          BY <1>1, <3>2, <3>4, FullAfterWrite
        <4> QED BY <1>1, <3>1, <3>2, <4>1, SizeAssumption DEF WrapIndex, Index
      <3>6. /\ lwrb_get_free(Wr, Rd) = Size - 1 - lwrb_get_full(Wr, Rd)
            /\ lwrb_get_free(0, r) = Size - 1 - lwrb_get_full(0, r) /\ lwrb_get_full(0, r) \in 0 .. Size - 1
        BY <1>1, <3>2, Counts
      <3> QED BY <1>1, <3>1, <3>2, <3>3, <3>4, <3>5, <3>6, SizeAssumption
    <2> QED BY <2>1, <2>2 DEF WriteByte
  <1>4. /\ (sent + 1) % M \in Stamp
        /\ Holds(mem', Rd, WrapIndex(Wr + 1), next, (sent + 1) % M)
    <2> DEFINE one == 1
    <2>1. \A i \in 0 .. one - 1 : i = 0 /\ WrapIndex(Wr + i) = Wr /\ (sent + i) % M = sent
      <3>1. WrapIndex(Wr + 0) = Wr
        BY <1>1, SizeAssumption DEF WrapIndex, Index
      <3>2. (sent + 0) % M = sent
        BY <1>1, StampAdd, SizeAssumption
      <3> QED BY <3>1, <3>2
    <2>2. \A i \in 0 .. one - 1 : mem'[WrapIndex(Wr + i)] = (sent + i) % M
      BY <1>1, <1>3, <2>1
    <2>3. 0 \in 0 .. one - 1
      OBVIOUS
    <2>4. \A j \in Index : (\A i \in 0 .. one - 1 : j # WrapIndex(Wr + i)) => mem'[j] = mem[j]
      BY <1>1, <1>3, <2>1, <2>3
    <2>5. one \in Nat /\ one <= lwrb_get_free(Wr, Rd)
      BY <1>3
    <2> HIDE DEF one
    <2>6. (sent + one) % M \in Stamp /\ Holds(mem', Rd, WrapIndex(Wr + one), next, (sent + one) % M)
      BY <1>0, <1>1, <2>2, <2>4, <2>5, HoldsPut
    <2> QED BY <2>6 DEF one
  <1>5. TypeInv'
    <2>1. mem' \in [Index -> Stamp]
      BY <1>1, <1>3
    <2> QED BY <1>0, <1>1, <1>2, <1>4, <2>1 DEF TypeInv
  <1>6. ReaderInv'
    BY <1>0, <1>1, <1>2 DEF ReaderInv, WriteByte
  <1>7. WriterInv'
    <2>1. pc = "write" \/ pc = "write_over"
      BY DEF WriteByte
    <2>2. (pc = "write" => done + 1 <= tocopy) /\ (pc = "write_over" => done + 1 <= left)
      BY <1>0, <1>1 DEF WriteByte, TypeInv
    <2> QED BY <1>0, <1>2, <2>1, <2>2 DEF WriterInv
  <1>8. Holds(mem, Rd, Wr, next, sent)'
    BY <1>2, <1>3, <1>4 DEF Holds
  <1> QED BY <1>0, <1>2, <1>5, <1>6, <1>7, <1>8 DEF IInv

\* With r at 0 the free cells end before the last one: w reaches the end of
\* the array only with r elsewhere.
LEMMA EndReached ==
    ASSUME NEW i \in Index, NEW j \in Index, NEW c \in Nat, c <= lwrb_get_free(i, j), i + c = Size
    PROVE  j # 0
  BY SizeAssumption DEF Index, lwrb_get_free

LEMMA WriteLinearDoneStep == ASSUME IInv, WriteLinearDone PROVE IInv'
  <1> USE DEF WriteLinearDone
  <1>0. TypeInv /\ ReaderInv /\ WriterInv
    BY DEF IInv
  <1>1. /\ pc = "write" /\ done = tocopy /\ w' = w + tocopy /\ left' = left - tocopy /\ done' = 0 /\ r' = r
        /\ r \in Index /\ w \in Index /\ left \in Nat /\ left <= lwrb_get_free(w, r)
        /\ tocopy = BUF_MIN(Size - w, left) /\ ~writerIsr /\ hits' = hits
    BY <1>0 DEF TypeInv, WriterInv
  <1>2. /\ tocopy \in Nat /\ tocopy <= left /\ w + tocopy <= Size /\ left' \in Nat /\ w' \in Nat
        /\ left > tocopy => w + tocopy = Size /\ tocopy = Size - w
        /\ tocopy <= lwrb_get_free(w, r) /\ lwrb_get_free(w, r) \in 0 .. Size - 1
    <2>1. lwrb_get_free(w, r) \in 0 .. Size - 1
      BY <1>1, Counts
    <2> QED BY <1>1, <2>1, SizeAssumption DEF BUF_MIN, Index
  <1>3. left > tocopy => left - tocopy <= lwrb_get_free(0, r)
    <2> SUFFICES ASSUME left > tocopy PROVE left - tocopy <= lwrb_get_free(0, r)
      OBVIOUS
    <2>1. lwrb_get_full(WrapIndex(w + tocopy), r) = lwrb_get_full(w, r) + tocopy
      BY <1>1, <1>2, FullAfterWrite
    <2>2. WrapIndex(w + tocopy) = 0 /\ 0 \in Index
      BY <1>2, SizeAssumption DEF WrapIndex, Index
    <2>3. /\ lwrb_get_free(w, r) = Size - 1 - lwrb_get_full(w, r) /\ lwrb_get_full(w, r) \in 0 .. Size - 1
          /\ lwrb_get_free(0, r) = Size - 1 - lwrb_get_full(0, r)
      BY <1>1, <2>2, Counts
    <2> QED BY <1>1, <1>2, <2>1, <2>2, <2>3, SizeAssumption
  <1>4. w + tocopy = Size => r # 0
    BY <1>1, <1>2, EndReached
  <1>5. TypeInv'
    BY <1>0, <1>1, <1>2 DEF TypeInv
  <1>6. WriterInv'
    <2>1. CASE left > tocopy
      BY <1>0, <1>1, <1>2, <1>3, <1>4, <2>1 DEF WriterInv
    <2>2. CASE ~(left > tocopy)
      BY <1>0, <1>1, <1>2, <1>4, <2>2 DEF WriterInv
    <2> QED BY <2>1, <2>2
  <1>7. ReaderInv'
    BY <1>0, <1>1, SizeAssumption DEF ReaderInv, Index
  <1>8. Rd' = Rd /\ Wr' = Wr
    BY <1>1, <1>2, SizeAssumption DEF Rd, Wr, Index
  <1> QED BY <1>5, <1>6, <1>7, <1>8, Quiet DEF IInv

LEMMA WriteOverDoneStep == ASSUME IInv, WriteOverDone PROVE IInv'
  <1> USE DEF WriteOverDone
  <1>0. TypeInv /\ ReaderInv /\ WriterInv
    BY DEF IInv
  <1>1. /\ pc = "write_over" /\ done = left /\ w' = left /\ left \in Nat /\ r \in Index /\ w = Size /\ r' = r
        /\ ~writerIsr /\ left <= lwrb_get_free(0, r)
    BY <1>0 DEF TypeInv, WriterInv
  <1>2. left < Size
    <2>1. 0 \in Index /\ lwrb_get_free(0, r) \in 0 .. Size - 1
      BY <1>1, Counts, SizeAssumption DEF Index
    <2> QED BY <1>1, <2>1, SizeAssumption
  <1>3. TypeInv'
    BY <1>0, <1>1 DEF TypeInv
  <1>4. WriterInv'
    BY <1>0, <1>1, <1>2, SizeAssumption DEF WriterInv
  <1>5. ReaderInv'
    BY <1>0, <1>1, SizeAssumption DEF ReaderInv, Index
  <1>6. Rd' = Rd /\ Wr' = Wr
    BY <1>1, <1>2, SizeAssumption DEF Rd, Wr, Index, WrapIndex
  <1> QED BY <1>3, <1>4, <1>5, <1>6, Quiet DEF IInv

LEMMA WriteEndStep == ASSUME IInv, WriteEnd PROVE IInv'
  <1> USE DEF WriteEnd
  <1>0. TypeInv /\ ReaderInv /\ WriterInv
    BY DEF IInv
  <1>1. pc = "write_end" /\ r \in Index /\ w \in Nat /\ w <= Size /\ r' = r /\ ~writerIsr
        /\ w' = (IF w >= Size THEN 0 ELSE w)
    BY <1>0 DEF TypeInv, WriterInv
  <1>2. w' \in Index /\ w' \in Nat /\ w' # Size
    BY <1>1, SizeAssumption DEF Index
  <1>3. TypeInv'
    BY <1>0, <1>2 DEF TypeInv
  <1>4. WriterInv'
    BY <1>0, <1>1, <1>2 DEF WriterInv
  <1>5. ReaderInv'
    BY <1>0, <1>1 DEF ReaderInv
  <1>6. Rd' = Rd /\ Wr' = Wr
    BY <1>1, SizeAssumption DEF Rd, Wr, Index, WrapIndex
  <1> QED BY <1>3, <1>4, <1>5, <1>6, Quiet DEF IInv

-----------------------------------------------------------------------------
(* lwrb_advance in the main program.                                       *)

\* Stamps(from, c) is a sequence of c stamps.
LEMMA StampsAre ==
    ASSUME NEW a \in Stamp, NEW c \in 0 .. Size
    PROVE  /\ Stamps(a, c) \in Seq(Stamp) /\ Len(Stamps(a, c)) = c
           /\ \A i \in 1 .. c : Stamps(a, c)[i] = (a + (i - 1)) % M
  <1>1. \A i \in 1 .. c : a + i - 1 = a + (i - 1) /\ i - 1 \in 0 .. Size /\ 0 \in 0 .. Size /\ (i - 1) + 0 <= Size
    BY SizeAssumption, StampAssumption DEF Stamp
  <1>2. \A i \in 1 .. c : (a + i - 1) % M \in Stamp
    BY <1>1, StampAdd
  <1>3. Stamps(a, c) \in [1 .. c -> Stamp] /\ c \in Nat
    BY <1>2, SizeAssumption DEF Stamps
  <1>4. Stamps(a, c) \in Seq(Stamp) /\ Len(Stamps(a, c)) = c
    BY <1>3
  <1>5. \A i \in 1 .. c : Stamps(a, c)[i] = (a + (i - 1)) % M
    BY <1>1 DEF Stamps
  <1> QED BY <1>4, <1>5

\* The cells that a copy of stamps leaves.
LEMMA CopyInStamps ==
    ASSUME NEW m \in [Index -> Stamp], NEW at \in 0 .. Size, NEW d \in Seq(Stamp)
    PROVE  /\ CopyIn(m, at, d) \in [Index -> Stamp]
           /\ \A i \in Index : CopyIn(m, at, d)[i] =
                 IF at <= i /\ i < at + Len(d) THEN d[i - at + 1] ELSE m[i]
  BY CopyInCells

\* The DMA writes its block before lwrb_advance tells anyone.
LEMMA AdvanceStartStep == ASSUME IInv, NEW c \in 1 .. Size, AdvanceStart(c) PROVE IInv'
  <1>0. TypeInv /\ ReaderInv /\ WriterInv /\ Holds(mem, Rd, Wr, next, sent) /\ inOrder
    BY DEF IInv
  <1>1. /\ pc = "idle" /\ w \in Index /\ r \in Index /\ ~writerIsr /\ c <= linear_block_write_length(w, r)
        /\ mem' = CopyIn(mem, w, Stamps(sent, c)) /\ sent' = (sent + c) % M
        /\ task' = "advance" /\ pc' = "advance" /\ left' = BUF_MIN(c, lwrb_get_free(w, r))
        /\ r' = r /\ w' = w /\ next' = next /\ inOrder' = inOrder /\ writerIsr' = writerIsr
        /\ tocopy' = tocopy /\ done' = done /\ hits' = hits
    BY <1>0 DEF AdvanceStart, ReaderInv, WriterInv
  <1>2. /\ c \in Nat /\ c \in 0 .. Size /\ c <= lwrb_get_free(w, r) /\ w + c <= Size /\ left' = c
        /\ c < Size /\ w \in 0 .. Size
    <2>1. /\ linear_block_write_length(w, r) \in 0 .. Size
          /\ linear_block_write_length(w, r) <= lwrb_get_free(w, r)
          /\ w + linear_block_write_length(w, r) <= Size
          /\ lwrb_get_free(w, r) \in 0 .. Size - 1
      BY <1>1, LinearBlocks, Counts
    <2> QED BY <1>1, <2>1, SizeAssumption DEF BUF_MIN, Index
  <1>3. Rd = r /\ Wr = w /\ Rd' = r /\ Wr' = WrapIndex(w + c)
    BY <1>1, <1>2, SizeAssumption DEF Rd, Wr, Index, WrapIndex
  <1>4. mem \in [Index -> Stamp] /\ sent \in Stamp /\ next \in Stamp
    BY <1>0 DEF TypeInv
  <1>5. /\ Stamps(sent, c) \in Seq(Stamp) /\ Len(Stamps(sent, c)) = c
        /\ \A i \in 1 .. c : Stamps(sent, c)[i] = (sent + (i - 1)) % M
    BY <1>2, <1>4, StampsAre
  <1>6. /\ CopyIn(mem, w, Stamps(sent, c)) \in [Index -> Stamp]
        /\ \A i \in Index : CopyIn(mem, w, Stamps(sent, c))[i] =
              IF w <= i /\ i < w + Len(Stamps(sent, c)) THEN Stamps(sent, c)[i - w + 1] ELSE mem[i]
    BY <1>2, <1>4, <1>5, CopyInStamps
  <1>7. \A i \in 0 .. c - 1 : mem'[WrapIndex(w + i)] = (sent + i) % M
    <2> SUFFICES ASSUME NEW i \in 0 .. c - 1 PROVE mem'[WrapIndex(w + i)] = (sent + i) % M
      OBVIOUS
    <2>1. /\ WrapIndex(w + i) = w + i /\ w + i \in Index /\ w <= w + i /\ w + i < w + c
          /\ (w + i) - w + 1 = i + 1 /\ i + 1 \in 1 .. c /\ (i + 1) - 1 = i
      BY <1>1, <1>2, SizeAssumption DEF Index, WrapIndex
    <2>2. mem'[w + i] = Stamps(sent, c)[i + 1]
      BY <1>1, <1>5, <1>6, <2>1
    <2>3. Stamps(sent, c)[i + 1] = (sent + i) % M
      BY <1>5, <2>1
    <2> QED BY <2>1, <2>2, <2>3
  <1>8. \A j \in Index : (\A i \in 0 .. c - 1 : j # WrapIndex(w + i)) => mem'[j] = mem[j]
    <2> SUFFICES ASSUME NEW j \in Index, \A i \in 0 .. c - 1 : j # WrapIndex(w + i) PROVE mem'[j] = mem[j]
      OBVIOUS
    <2>1. ~(w <= j /\ j < w + c)
      <3> SUFFICES ASSUME w <= j, j < w + c PROVE FALSE
        OBVIOUS
      <3>1. j - w \in 0 .. c - 1 /\ WrapIndex(w + (j - w)) = j
        BY <1>1, <1>2, SizeAssumption DEF Index, WrapIndex
      <3> QED BY <3>1
    <2> QED BY <1>1, <1>5, <1>6, <2>1
  <1>9. /\ (sent + c) % M \in Stamp
        /\ Holds(mem', r, WrapIndex(w + c), next, (sent + c) % M)
    <2>1. Holds(mem, r, w, next, sent)
      BY <1>0, <1>3
    <2>2. w \in Index /\ r \in Index /\ next \in Stamp /\ c \in Nat /\ c <= lwrb_get_free(w, r)
      BY <1>1, <1>2, <1>4
    <2> QED BY <1>7, <1>8, <2>1, <2>2, HoldsPut
  <1>10. Holds(mem, Rd, Wr, next, sent)'
    BY <1>1, <1>3, <1>9 DEF Holds
  <1>11. TypeInv'
    BY <1>0, <1>1, <1>2, <1>6, <1>9 DEF TypeInv
  <1>12. ReaderInv' /\ WriterInv'
    BY <1>0, <1>1, <1>2, SizeAssumption DEF ReaderInv, WriterInv, Index
  <1> QED BY <1>0, <1>1, <1>10, <1>11, <1>12 DEF IInv

LEMMA AdvanceMoveStep == ASSUME IInv, AdvanceMove PROVE IInv'
  <1> USE DEF AdvanceMove
  <1>0. TypeInv /\ ReaderInv /\ WriterInv
    BY DEF IInv
  <1>1. /\ pc = "advance" /\ w \in Index /\ r \in Index /\ left \in Nat /\ left <= lwrb_get_free(w, r)
        /\ w + left <= Size /\ w' = w + left /\ r' = r /\ ~writerIsr
    BY <1>0 DEF TypeInv, WriterInv
  <1>2. w + left = Size => r # 0
    BY <1>1, EndReached
  <1>3. TypeInv'
    BY <1>0, <1>1 DEF TypeInv, Index
  <1>4. WriterInv'
    BY <1>0, <1>1, <1>2 DEF WriterInv
  <1>5. ReaderInv'
    BY <1>0, <1>1 DEF ReaderInv
  <1>6. Rd' = Rd /\ Wr' = Wr
    BY <1>1, SizeAssumption DEF Rd, Wr, Index, WrapIndex
  <1> QED BY <1>3, <1>4, <1>5, <1>6, Quiet DEF IInv

LEMMA AdvanceEndStep == ASSUME IInv, AdvanceEnd PROVE IInv'
  <1> USE DEF AdvanceEnd
  <1>0. TypeInv /\ ReaderInv /\ WriterInv
    BY DEF IInv
  <1>1. pc = "advance_end" /\ r \in Index /\ w \in Nat /\ w <= Size /\ r' = r /\ ~writerIsr
        /\ w' = WrapIndex(w)
    BY <1>0 DEF TypeInv, WriterInv
  <1>2. w' \in Index /\ w' \in Nat /\ w' # Size
    BY <1>1, SizeAssumption DEF Index, WrapIndex
  <1>3. TypeInv'
    BY <1>0, <1>2 DEF TypeInv
  <1>4. WriterInv'
    BY <1>0, <1>1, <1>2 DEF WriterInv
  <1>5. ReaderInv'
    BY <1>0, <1>1 DEF ReaderInv
  <1>6. Rd' = Rd /\ Wr' = Wr
    BY <1>1, SizeAssumption DEF Rd, Wr, Index, WrapIndex
  <1> QED BY <1>3, <1>4, <1>5, <1>6, Quiet DEF IInv

-----------------------------------------------------------------------------
(* The interrupt handler.                                                  *)

\* The handler comes to an idle buffer, to a lwrb_read, or first of all.
LEMMA HandlerFirst ==
    ASSUME IsrOnce, TypeInv, pc = "idle" \/ hits < MaxIsr[task]
    PROVE  pc \in {"idle", "read", "read_over", "read_end"} \/ hits = 0
  <1> SUFFICES ASSUME pc \notin {"idle", "read", "read_over", "read_end"} PROVE hits = 0
    OBVIOUS
  <1>1. task \in {"skip", "write", "advance"}
    BY DEF TypeInv
  <1>2. MaxIsr[task] <= 1 /\ MaxIsr[task] \in Nat
    BY <1>1, IsrAssumption DEF IsrOnce
  <1> QED BY <1>2 DEF TypeInv

\* Whatever the reader was doing, a handler that writes counts the free bytes
\* of the buffer with r wrapped, and no cell that is still to be read.
LEMMA HandlerFree ==
    ASSUME IInv, IsrOnce, writerIsr, pc = "idle" \/ hits < MaxIsr[task]
    PROVE  /\ lwrb_get_free(w, r) \in 0 .. Size - 1
           /\ lwrb_get_free(w, r) <= lwrb_get_free(Wr, Rd)
  <1>0. TypeInv /\ ReaderInv /\ WriterInv
    BY DEF IInv
  <1>1. /\ pc \in {"idle", "read", "read_over", "read_end", "skip", "skip_end"}
        /\ Wr = w /\ w \in Index /\ Rd \in Index /\ done \in Nat /\ r \in Nat /\ left \in Nat
    BY <1>0, Positions DEF TypeInv
  <1>2. lwrb_get_free(w, Rd) \in 0 .. Size - 1
    BY <1>1, Counts
  <1>3. CASE pc \in {"idle", "skip"}
    <2>1. Rd = r
      BY <1>0, <1>3, SizeAssumption DEF ReaderInv, Rd, WrapIndex, Index
    <2> QED BY <1>1, <1>2, <2>1
  <1>4. CASE pc = "read"
    <2>1. r \in Index /\ tocopy = BUF_MIN(Size - r, left) /\ done <= tocopy /\ left <= lwrb_get_full(w, r)
      BY <1>0, <1>4 DEF ReaderInv
    <2>2. done <= left /\ Rd = WrapIndex(r + done)
      BY <1>1, <1>4, <2>1, SizeAssumption DEF BUF_MIN, Index, Rd
    <2>3. lwrb_get_full(w, r) \in 0 .. Size - 1 /\ lwrb_get_free(w, r) \in 0 .. Size - 1
          /\ lwrb_get_free(w, r) = Size - 1 - lwrb_get_full(w, r)
          /\ lwrb_get_free(w, Rd) = Size - 1 - lwrb_get_full(w, Rd)
      BY <1>1, <2>1, Counts
    <2>4. done <= lwrb_get_full(w, r)
      BY <1>1, <2>1, <2>2, <2>3
    <2>5. lwrb_get_full(w, Rd) = lwrb_get_full(w, r) - done
      BY <1>1, <2>1, <2>2, <2>4, FullAfterRead
    <2> QED BY <1>1, <2>3, <2>5, SizeAssumption
  <1>5. CASE pc = "read_over"
    <2>1. r = Size /\ done <= left /\ left <= lwrb_get_full(w, 0)
      BY <1>0, <1>5 DEF ReaderInv
    <2>2. 0 \in Index
      BY SizeAssumption DEF Index
    <2>3. lwrb_get_full(w, 0) \in 0 .. Size - 1 /\ lwrb_get_free(w, 0) = Size - 1 - lwrb_get_full(w, 0)
          /\ lwrb_get_free(w, 0) \in 0 .. Size - 1 /\ lwrb_get_free(w, Rd) = Size - 1 - lwrb_get_full(w, Rd)
      BY <1>1, <2>2, Counts
    <2>4. done <= lwrb_get_full(w, 0)
      BY <1>1, <2>1, <2>3
    <2>5. Rd = WrapIndex(0 + done) /\ lwrb_get_free(w, r) = lwrb_get_free(w, 0)
      BY <1>1, <1>5, <2>1, <2>3, <2>4, SizeAssumption DEF Rd, WrapIndex, Index, lwrb_get_free
    <2>6. lwrb_get_full(w, WrapIndex(0 + done)) = lwrb_get_full(w, 0) - done
      BY <1>1, <2>2, <2>4, FullAfterRead
    <2> QED BY <1>1, <2>3, <2>5, <2>6, SizeAssumption
  <1>6. CASE pc = "read_end"
    <2>1. r <= Size /\ Rd = WrapIndex(r)
      BY <1>0, <1>1, <1>6 DEF ReaderInv, Rd
    <2>2. lwrb_get_free(w, r) = lwrb_get_free(w, WrapIndex(r))
      BY <1>1, <2>1, SizeAssumption DEF lwrb_get_free, WrapIndex, Index
    <2> QED BY <1>1, <1>2, <2>1, <2>2
  <1>7. CASE pc = "skip_end"
    <2>1. r <= 2 * Size - 2 /\ (r >= Size => w >= r - Size) /\ Rd = WrapIndex(r)
      BY <1>0, <1>1, <1>7, HandlerFirst DEF ReaderInv, Rd
    <2>2. lwrb_get_free(w, r) = lwrb_get_free(w, WrapIndex(r))
      BY <1>1, <2>1, SizeAssumption DEF lwrb_get_free, WrapIndex, Index
    <2> QED BY <1>1, <1>2, <2>1, <2>2
  <1> QED BY <1>1, <1>3, <1>4, <1>5, <1>6, <1>7

\* Whatever the writer was doing, a handler that reads counts no byte that is
\* not yet written.
LEMMA HandlerFull ==
    ASSUME IInv, IsrOnce, ~writerIsr, pc = "idle" \/ hits < MaxIsr[task]
    PROVE  /\ lwrb_get_full(w, r) \in 0 .. Size - 1
           /\ lwrb_get_full(w, r) <= lwrb_get_full(Wr, Rd)
  <1>0. TypeInv /\ ReaderInv /\ WriterInv
    BY DEF IInv
  <1>1. /\ pc \in {"idle", "write", "write_over", "write_end", "advance", "advance_end"}
        /\ Rd = r /\ r \in Index /\ Wr \in Index /\ done \in Nat /\ w \in Nat /\ left \in Nat
    BY <1>0, Positions DEF TypeInv
  <1>2. lwrb_get_full(Wr, r) \in 0 .. Size - 1
    BY <1>1, Counts
  <1>3. CASE pc = "idle"
    <2>1. Wr = w
      BY <1>0, <1>3, SizeAssumption DEF WriterInv, Wr, WrapIndex, Index
    <2> QED BY <1>1, <1>2, <2>1
  <1>4. CASE pc \in {"write", "advance"}
    <2> DEFINE d == IF pc = "write" THEN done ELSE left
    <2>1. w \in Index /\ left <= lwrb_get_free(w, r) /\ Wr = WrapIndex(w + d) /\ d \in Nat
      BY <1>0, <1>1, <1>4 DEF WriterInv, Wr
    <2>2. lwrb_get_full(w, r) \in 0 .. Size - 1 /\ lwrb_get_free(w, r) \in 0 .. Size - 1
      BY <1>1, <2>1, Counts
    <2>3. d <= lwrb_get_free(w, r)
      <3>1. CASE pc = "write"
        <4>1. tocopy = BUF_MIN(Size - w, left) /\ done <= tocopy
          BY <1>0, <3>1 DEF WriterInv
        <4>2. done <= left
          BY <1>1, <2>1, <4>1, SizeAssumption DEF BUF_MIN, Index
        <4> QED BY <1>1, <2>1, <2>2, <3>1, <4>2
      <3>2. CASE pc = "advance"
        BY <2>1, <3>2
      <3> QED BY <1>4, <3>1, <3>2
    <2> HIDE DEF d
    <2>4. lwrb_get_full(Wr, r) = lwrb_get_full(w, r) + d
      BY <1>1, <2>1, <2>3, FullAfterWrite
    <2> QED BY <1>1, <2>1, <2>2, <2>4
  <1>5. CASE pc = "write_over"
    <2>1. w = Size /\ done <= left /\ left <= lwrb_get_free(0, r) /\ r # 0
      BY <1>0, <1>5, HandlerFirst DEF WriterInv
    <2>2. 0 \in Index
      BY SizeAssumption DEF Index
    <2>3. lwrb_get_full(0, r) \in 0 .. Size - 1 /\ lwrb_get_free(0, r) \in 0 .. Size - 1
      BY <1>1, <2>2, Counts
    <2>4. done <= lwrb_get_free(0, r)
      BY <1>1, <2>1, <2>3
    <2>5. Wr = WrapIndex(0 + done) /\ lwrb_get_full(w, r) = lwrb_get_full(0, r)
      BY <1>1, <1>5, <2>1, <2>3, <2>4, SizeAssumption DEF Wr, WrapIndex, Index, lwrb_get_full
    <2>6. lwrb_get_full(WrapIndex(0 + done), r) = lwrb_get_full(0, r) + done
      BY <1>1, <2>2, <2>4, FullAfterWrite
    <2> QED BY <1>1, <2>3, <2>5, <2>6
  <1>6. CASE pc \in {"write_end", "advance_end"}
    <2>1. w <= Size /\ Wr = WrapIndex(w) /\ (w = Size => r # 0)
      BY <1>0, <1>1, <1>6, HandlerFirst DEF WriterInv, Wr
    <2>2. lwrb_get_full(w, r) = lwrb_get_full(WrapIndex(w), r)
      BY <1>1, <2>1, SizeAssumption DEF lwrb_get_full, WrapIndex, Index
    <2> QED BY <1>1, <1>2, <2>1, <2>2
  <1> QED BY <1>1, <1>3, <1>4, <1>5, <1>6

\* The cells that a write of stamps leaves.
LEMMA PutStamps ==
    ASSUME NEW m \in [Index -> Stamp], NEW i \in Index, NEW d \in Seq(Stamp), Len(d) < Size
    PROVE  /\ PutBytes(m, i, d) \in [Index -> Stamp]
           /\ \A j \in 1 .. Len(d) : PutBytes(m, i, d)[WrapIndex(i + j - 1)] = d[j]
           /\ \A j \in Index :
                 (\A p \in 1 .. Len(d) : j # WrapIndex(i + p - 1)) => PutBytes(m, i, d)[j] = m[j]
  BY PutCells

LEMMA IsrWriteStep == ASSUME IInv, IsrOnce, NEW c \in 1 .. Size, IsrWrite(c) PROVE IInv'
  <1> DEFINE q == BUF_MIN(lwrb_get_free(w, r), c)
  <1>0. TypeInv /\ ReaderInv /\ WriterInv /\ Holds(mem, Rd, Wr, next, sent) /\ inOrder
    BY DEF IInv
  <1>1. /\ writerIsr /\ q > 0 /\ mem' = PutBytes(mem, w, Stamps(sent, q))
        /\ w' = NextIndex(w, q) /\ sent' = (sent + q) % M
        /\ r' = r /\ next' = next /\ inOrder' = inOrder /\ writerIsr' = writerIsr /\ task' = task
        /\ pc' = pc /\ left' = left /\ tocopy' = tocopy /\ done' = done
        /\ (pc = "idle" \/ hits < MaxIsr[task])
        /\ (pc = "idle" => hits' = hits) /\ (pc # "idle" => hits' = hits + 1)
    BY DEF IsrWrite, Interrupt
  <1>2. /\ lwrb_get_free(w, r) \in 0 .. Size - 1 /\ lwrb_get_free(w, r) <= lwrb_get_free(Wr, Rd)
        /\ Rd \in Index /\ Wr \in Index /\ Wr = w
    BY <1>0, <1>1, HandlerFree, Positions
  <1>3. q \in Nat /\ q <= lwrb_get_free(w, r) /\ q < Size /\ q \in 0 .. Size
    BY <1>2, SizeAssumption DEF BUF_MIN
  <1> HIDE DEF q
  <1>4. q <= lwrb_get_free(w, Rd) /\ lwrb_get_free(w, Rd) \in 0 .. Size - 1
    BY <1>2, <1>3, Counts
  <1>5. /\ w' = WrapIndex(w + q) /\ w' \in Index
        /\ lwrb_get_full(w', Rd) = lwrb_get_full(w, Rd) + q
    BY <1>1, <1>2, <1>3, <1>4, FullAfterWrite
  <1>6. Rd' = Rd /\ Wr' = w'
    <2>1. pc \in {"idle", "read", "read_over", "read_end", "skip", "skip_end"}
      BY <1>0, <1>1 DEF TypeInv
    <2> QED BY <1>1, <1>5, <2>1, SizeAssumption DEF Rd, Wr, WrapIndex, Index
  <1>7. mem \in [Index -> Stamp] /\ sent \in Stamp /\ next \in Stamp /\ hits \in Nat
    BY <1>0 DEF TypeInv
  <1>8. /\ Stamps(sent, q) \in Seq(Stamp) /\ Len(Stamps(sent, q)) = q
        /\ \A i \in 1 .. q : Stamps(sent, q)[i] = (sent + (i - 1)) % M
    BY <1>3, <1>7, StampsAre
  <1>9. /\ mem' \in [Index -> Stamp]
        /\ \A j \in 1 .. q : mem'[WrapIndex(w + j - 1)] = Stamps(sent, q)[j]
        /\ \A j \in Index : (\A p \in 1 .. q : j # WrapIndex(w + p - 1)) => mem'[j] = mem[j]
    <2>1. w \in Index
      BY <1>2
    <2> DEFINE d == Stamps(sent, q)
    <2>2. d \in Seq(Stamp) /\ Len(d) = q /\ Len(d) < Size /\ mem' = PutBytes(mem, w, d)
      BY <1>1, <1>3, <1>8
    <2> HIDE DEF d
    <2>3. /\ PutBytes(mem, w, d) \in [Index -> Stamp]
          /\ \A j \in 1 .. Len(d) : PutBytes(mem, w, d)[WrapIndex(w + j - 1)] = d[j]
          /\ \A j \in Index :
                (\A p \in 1 .. Len(d) : j # WrapIndex(w + p - 1)) => PutBytes(mem, w, d)[j] = mem[j]
      BY <1>7, <2>1, <2>2, PutStamps
    <2>4. /\ mem' \in [Index -> Stamp]
          /\ \A j \in 1 .. q : mem'[WrapIndex(w + j - 1)] = d[j]
          /\ \A j \in Index : (\A p \in 1 .. q : j # WrapIndex(w + p - 1)) => mem'[j] = mem[j]
      BY <2>2, <2>3
    <2> QED BY <2>4 DEF d
  <1>10. \A i \in 0 .. q - 1 : mem'[WrapIndex(w + i)] = (sent + i) % M
    <2> SUFFICES ASSUME NEW i \in 0 .. q - 1 PROVE mem'[WrapIndex(w + i)] = (sent + i) % M
      OBVIOUS
    <2>1. i + 1 \in 1 .. q /\ w + (i + 1) - 1 = w + i /\ (i + 1) - 1 = i
      BY <1>2, <1>3, SizeAssumption DEF Index
    <2>2. mem'[WrapIndex(w + (i + 1) - 1)] = Stamps(sent, q)[i + 1]
      BY <1>9, <2>1
    <2>3. Stamps(sent, q)[i + 1] = (sent + ((i + 1) - 1)) % M
      BY <1>8, <2>1
    <2> QED BY <2>1, <2>2, <2>3
  <1>11. \A j \in Index : (\A i \in 0 .. q - 1 : j # WrapIndex(w + i)) => mem'[j] = mem[j]
    <2> SUFFICES ASSUME NEW j \in Index, \A i \in 0 .. q - 1 : j # WrapIndex(w + i) PROVE mem'[j] = mem[j]
      OBVIOUS
    <2>1. \A p \in 1 .. q : p - 1 \in 0 .. q - 1 /\ w + p - 1 = w + (p - 1)
      BY <1>2, <1>3, SizeAssumption DEF Index
    <2>2. \A p \in 1 .. q : j # WrapIndex(w + p - 1)
      BY <2>1
    <2> QED BY <1>9, <2>2
  <1>12. (sent + q) % M \in Stamp /\ Holds(mem', Rd, WrapIndex(w + q), next, (sent + q) % M)
    <2>1. Holds(mem, Rd, w, next, sent)
      BY <1>0, <1>2
    <2>2. w \in Index /\ Rd \in Index /\ next \in Stamp /\ q \in Nat /\ q <= lwrb_get_free(w, Rd)
      BY <1>2, <1>3, <1>4, <1>7
    <2> QED BY <1>10, <1>11, <2>1, <2>2, HoldsPut
  <1>13. Holds(mem, Rd, Wr, next, sent)'
    BY <1>1, <1>5, <1>6, <1>12 DEF Holds
  <1>14. TypeInv'
    <2>1. w' \in Nat /\ hits' \in Nat
      BY <1>1, <1>5, <1>7, SizeAssumption DEF Index
    <2> QED BY <1>0, <1>1, <1>9, <1>12, <2>1 DEF TypeInv
  <1>15. WriterInv'
    <2>1. w' # Size /\ (pc = "idle" => r \in Index)
      BY <1>0, <1>5, SizeAssumption DEF Index, ReaderInv
    <2>2. pc \in {"idle", "read", "read_over", "read_end", "skip", "skip_end"}
      BY <1>0, <1>1 DEF TypeInv
    <2> QED BY <1>0, <1>1, <1>5, <2>1, <2>2 DEF WriterInv
  <1>16. ReaderInv'
    <2>1. CASE pc \in {"read", "skip"}
      <3>1. r \in Index /\ left <= lwrb_get_full(w, r) /\ left \in Nat
        BY <1>0, <2>1 DEF ReaderInv, TypeInv
      <3>2. lwrb_get_full(w', r) = lwrb_get_full(w, r) + q /\ lwrb_get_full(w, r) \in Nat
        BY <1>2, <1>3, <1>5, <3>1, FullAfterWrite, Counts
      <3>3. left <= lwrb_get_full(w', r)
        BY <1>3, <3>1, <3>2
      <3> QED BY <1>0, <1>1, <1>5, <2>1, <3>1, <3>3 DEF ReaderInv
    <2>2. CASE pc = "read_over"
      <3>1. r = Size /\ done <= left /\ left <= lwrb_get_full(w, 0) /\ left \in Nat /\ 0 \in Index
        BY <1>0, <2>2, SizeAssumption DEF ReaderInv, TypeInv, Index
      <3>2. lwrb_get_free(w, 0) = lwrb_get_free(w, r)
        BY <1>2, <3>1, SizeAssumption DEF lwrb_get_free, Index
      <3>3. lwrb_get_full(w', 0) = lwrb_get_full(w, 0) + q /\ lwrb_get_full(w, 0) \in Nat
        BY <1>2, <1>3, <1>5, <3>1, <3>2, FullAfterWrite, Counts
      <3>4. left <= lwrb_get_full(w', 0)
        BY <1>3, <3>1, <3>3
      <3> QED BY <1>0, <1>1, <1>5, <2>2, <3>1, <3>4 DEF ReaderInv
    <2>3. CASE pc \in {"idle", "read_end"}
      BY <1>0, <1>1, <1>5, <2>3 DEF ReaderInv
    <2>4. CASE pc = "skip_end"
      <3>1. hits' # 0
        BY <1>1, <1>7, <2>4
      <3> QED BY <1>0, <1>1, <1>5, <2>4, <3>1 DEF ReaderInv
    <2>5. pc \in {"idle", "read", "read_over", "read_end", "skip", "skip_end"}
      BY <1>0, <1>1 DEF TypeInv
    <2> QED BY <2>1, <2>2, <2>3, <2>4, <2>5
  <1> QED BY <1>0, <1>1, <1>13, <1>14, <1>15, <1>16 DEF IInv

\* The bytes a read returns are those of the cells after i, going round.
LEMMA GetStamps ==
    ASSUME NEW m \in [Index -> Stamp], NEW i \in Index, NEW c \in 0 .. Size - 1
    PROVE  GetBytes(m, i, c) = [j \in 1 .. c |-> m[WrapIndex(i + j - 1)]]
  BY GetCells

LEMMA IsrReadStep == ASSUME IInv, IsrOnce, NEW c \in 1 .. Size, IsrRead(c) PROVE IInv'
  <1> DEFINE q == BUF_MIN(lwrb_get_full(w, r), c)
  <1>0. TypeInv /\ ReaderInv /\ WriterInv /\ Holds(mem, Rd, Wr, next, sent) /\ inOrder
    BY DEF IInv
  <1>1. /\ ~writerIsr /\ q > 0 /\ mem' = mem
        /\ inOrder' = (inOrder /\ GetBytes(mem, r, q) = Stamps(next, q))
        /\ r' = NextIndex(r, q) /\ next' = (next + q) % M
        /\ w' = w /\ sent' = sent /\ writerIsr' = writerIsr /\ task' = task
        /\ pc' = pc /\ left' = left /\ tocopy' = tocopy /\ done' = done
        /\ (pc = "idle" \/ hits < MaxIsr[task])
        /\ (pc = "idle" => hits' = hits) /\ (pc # "idle" => hits' = hits + 1)
    BY DEF IsrRead, Interrupt
  <1>2. /\ lwrb_get_full(w, r) \in 0 .. Size - 1 /\ lwrb_get_full(w, r) <= lwrb_get_full(Wr, Rd)
        /\ Rd \in Index /\ Wr \in Index /\ Rd = r
    BY <1>0, <1>1, HandlerFull, Positions
  <1>3. q \in Nat /\ q <= lwrb_get_full(w, r) /\ q < Size /\ q \in 0 .. Size /\ q \in 0 .. Size - 1
    BY <1>2, SizeAssumption DEF BUF_MIN
  <1> HIDE DEF q
  <1>4. q <= lwrb_get_full(Wr, r) /\ lwrb_get_full(Wr, r) \in 0 .. Size - 1
    BY <1>2, <1>3, Counts
  <1>5. r' = WrapIndex(r + q) /\ r' \in Index
    BY <1>1, <1>2, <1>3, <1>4, FullAfterRead
  <1>6. Wr' = Wr /\ Rd' = r'
    <2>1. pc \in {"idle", "write", "write_over", "write_end", "advance", "advance_end"}
      BY <1>0, <1>1 DEF TypeInv
    <2> QED BY <1>1, <1>5, <2>1, SizeAssumption DEF Rd, Wr, WrapIndex, Index
  <1>7. mem \in [Index -> Stamp] /\ sent \in Stamp /\ next \in Stamp /\ hits \in Nat
    BY <1>0 DEF TypeInv
  <1>8. (next + q) % M \in Stamp /\ Holds(mem, WrapIndex(r + q), Wr, (next + q) % M, sent)
    <2>1. Holds(mem, r, Wr, next, sent)
      BY <1>0, <1>2
    <2> QED BY <1>2, <1>3, <1>4, <1>7, <2>1, HoldsTake
  <1>9. GetBytes(mem, r, q) = Stamps(next, q)
    <2>1. r \in Index
      BY <1>2
    <2>2. GetBytes(mem, r, q) = [j \in 1 .. q |-> mem[WrapIndex(r + j - 1)]]
      BY <1>3, <1>7, <2>1, GetStamps
    <2>3. ASSUME NEW j \in 1 .. q PROVE mem[WrapIndex(r + j - 1)] = (next + j - 1) % M
      <3>1. /\ j - 1 \in 0 .. lwrb_get_full(Wr, r) - 1
            /\ r + j - 1 = r + (j - 1) /\ next + j - 1 = next + (j - 1)
        BY <1>3, <1>4, <1>7, <2>1, SizeAssumption, StampAssumption DEF Index, Stamp
      <3>2. mem[WrapIndex(r + (j - 1))] = (next + (j - 1)) % M
        BY <1>0, <1>2, <3>1 DEF Holds
      <3> QED BY <3>1, <3>2
    <2> QED BY <2>2, <2>3 DEF Stamps
  <1>10. inOrder' /\ inOrder' \in BOOLEAN
    BY <1>0, <1>1, <1>9
  <1>11. Holds(mem, Rd, Wr, next, sent)'
    BY <1>1, <1>5, <1>6, <1>8 DEF Holds
  <1>12. TypeInv'
    <2>1. r' \in Nat /\ hits' \in Nat
      BY <1>1, <1>5, <1>7, SizeAssumption DEF Index
    <2> QED BY <1>0, <1>1, <1>8, <1>10, <2>1 DEF TypeInv
  <1>13. ReaderInv'
    <2>1. pc \in {"idle", "write", "write_over", "write_end", "advance", "advance_end"}
      BY <1>0, <1>1 DEF TypeInv
    <2> QED BY <1>0, <1>1, <1>5, <2>1 DEF ReaderInv
  <1>14. WriterInv'
    <2>1. CASE pc \in {"write", "advance"}
      <3>1. w \in Index /\ left <= lwrb_get_free(w, r) /\ left \in Nat
        BY <1>0, <2>1 DEF WriterInv, TypeInv
      <3>2. lwrb_get_full(w, r') = lwrb_get_full(w, r) - q
        BY <1>2, <1>3, <1>5, <3>1, FullAfterRead
      <3>3. /\ lwrb_get_free(w, r) = Size - 1 - lwrb_get_full(w, r)
            /\ lwrb_get_free(w, r') = Size - 1 - lwrb_get_full(w, r')
        BY <1>2, <1>5, <3>1, Counts
      <3>4. left <= lwrb_get_free(w, r') /\ w # Size
        BY <1>2, <1>3, <3>1, <3>2, <3>3, SizeAssumption DEF Index
      <3> QED BY <1>0, <1>1, <1>5, <2>1, <3>1, <3>4 DEF WriterInv
    <2>2. CASE pc = "write_over"
      <3>1. w = Size /\ done <= left /\ left <= lwrb_get_free(0, r) /\ left \in Nat /\ 0 \in Index
        BY <1>0, <2>2, SizeAssumption DEF WriterInv, TypeInv, Index
      <3>2. r # 0
        BY <1>0, <1>1, <2>2, <3>1, HandlerFirst DEF WriterInv
      <3>3. lwrb_get_full(0, r) = lwrb_get_full(w, r)
        BY <1>2, <3>1, <3>2, SizeAssumption DEF lwrb_get_full, Index
      <3>4. lwrb_get_full(0, r') = lwrb_get_full(0, r) - q
        BY <1>2, <1>3, <1>5, <3>1, <3>3, FullAfterRead
      <3>5. /\ lwrb_get_free(0, r) = Size - 1 - lwrb_get_full(0, r)
            /\ lwrb_get_free(0, r') = Size - 1 - lwrb_get_full(0, r')
        BY <1>2, <1>5, <3>1, Counts
      <3>6. left <= lwrb_get_free(0, r')
        BY <1>2, <1>3, <3>1, <3>3, <3>4, <3>5, SizeAssumption
      <3>7. hits' # 0
        BY <1>1, <1>7, <2>2
      <3> QED BY <1>0, <1>1, <1>5, <2>2, <3>1, <3>6, <3>7 DEF WriterInv
    <2>3. CASE pc \in {"write_end", "advance_end"}
      <3>1. hits' # 0
        BY <1>1, <1>7, <2>3
      <3> QED BY <1>0, <1>1, <1>5, <2>3, <3>1 DEF WriterInv
    <2>4. CASE pc = "idle"
      <3>1. w # Size
        BY <1>0, <2>4, SizeAssumption DEF WriterInv, Index
      <3> QED BY <1>0, <1>1, <1>5, <2>4, <3>1 DEF WriterInv
    <2>5. pc \in {"idle", "write", "write_over", "write_end", "advance", "advance_end"}
      BY <1>0, <1>1 DEF TypeInv
    <2> QED BY <2>1, <2>2, <2>3, <2>4, <2>5
  <1> QED BY <1>10, <1>11, <1>12, <1>13, <1>14 DEF IInv

-----------------------------------------------------------------------------
LEMMA StutterStep == ASSUME IInv, UNCHANGED preemptVars PROVE IInv'
  <1> USE DEF preemptVars
  <1>1. TypeInv' /\ ReaderInv' /\ WriterInv'
    BY DEF IInv, TypeInv, ReaderInv, WriterInv
  <1>2. Rd' = Rd /\ Wr' = Wr
    BY DEF Rd, Wr
  <1> QED BY <1>1, <1>2, Quiet DEF IInv

LEMMA NextIInv == ASSUME IInv, IsrOnce, [PreemptNext]_preemptVars PROVE IInv'
  <1>1. ASSUME NEW c \in 1 .. Size, ReadStart(c) \/ SkipStart(c) \/ WriteStart(c) \/ AdvanceStart(c)
        PROVE  IInv'
    BY <1>1, ReadStartStep, SkipStartStep, WriteStartStep, AdvanceStartStep
  <1>2. CASE ReadByte \/ ReadLinearDone \/ ReadOverDone \/ ReadEnd \/ SkipMove \/ SkipEnd
    BY <1>2, ReadByteStep, ReadLinearDoneStep, ReadOverDoneStep, ReadEndStep, SkipMoveStep, SkipEndStep
  <1>3. CASE WriteByte \/ WriteLinearDone \/ WriteOverDone \/ WriteEnd \/ AdvanceMove \/ AdvanceEnd
    BY <1>3, WriteByteStep, WriteLinearDoneStep, WriteOverDoneStep, WriteEndStep, AdvanceMoveStep,
       AdvanceEndStep
  <1>4. ASSUME NEW c \in 1 .. Size, IsrWrite(c) \/ IsrRead(c)
        PROVE  IInv'
    BY <1>4, IsrWriteStep, IsrReadStep
  <1>5. CASE UNCHANGED preemptVars
    BY <1>5, StutterStep
  <1> QED BY <1>1, <1>2, <1>3, <1>4, <1>5 DEF PreemptNext, Main, Isr

\* The indices, the count a call works on and the contents of the array fit
\* together at every point where the handler may come.
THEOREM Invariant == ASSUME IsrOnce PROVE PreemptSpec => []IInv
  <1>1. IInv /\ [PreemptNext]_preemptVars => IInv'
    BY NextIInv
  <1> QED BY <1>1, InitIInv, PTL DEF PreemptSpec

\* The bytes read are the bytes written, each once and in order, wherever the
\* handler interrupts lwrb_read, lwrb_skip, lwrb_write and lwrb_advance.
THEOREM ReadInOrder == ASSUME IsrOnce PROVE PreemptSpec => []InOrder
  <1>1. IInv => InOrder
    BY DEF IInv, InOrder
  <1> QED BY <1>1, Invariant, PTL

\* The count the handler computes from the interrupted call's indices is that
\* of a buffer of size - 1.
THEOREM CapacitySeen == ASSUME IsrOnce PROVE PreemptSpec => []CapacityKept
  <1>1. ASSUME IInv PROVE CapacityKept
    <2> SUFFICES ASSUME pc = "idle" \/ hits < MaxIsr[task]
                 PROVE  (IF writerIsr THEN lwrb_get_free(w, r) ELSE lwrb_get_full(w, r)) \in 0 .. Size - 1
      BY DEF CapacityKept
    <2>1. CASE writerIsr
      BY <1>1, <2>1, HandlerFree
    <2>2. CASE ~writerIsr
      BY <1>1, <2>2, HandlerFull
    <2> QED BY <2>1, <2>2
  <1> QED BY <1>1, Invariant, PTL
=============================================================================
