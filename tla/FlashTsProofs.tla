---------------------------- MODULE FlashTsProofs ---------------------------
(***************************************************************************)
(* Proofs about FlashTs: where the logs lie, that no write leaves the      *)
(* partition, that fdb_tsdb_init does not stop in its assertion, that it   *)
(* reads back from the flash what the database holds between two calls,    *)
(* that fdb_tsl_iter returns every log that was appended, and that         *)
(* fdb_tsl_iter_by_time returns those of a range of times.                 *)
(***************************************************************************)
EXTENDS FlashTs, FiniteSetTheorems, SequenceTheorems, TLAPS

Appending == {"seal", "sealed", "full", "next", "erase", "magic", "using", "start", "entry", "commit"}
Formatting == {"format", "formatted"}

Statuses == {"UNUSED", "EMPTY", "USING", "FULL"}
EndStatuses == {"UNUSED", "PRE_WRITE", "WRITE"}
Entries == [st : {"PRE_WRITE", "WRITE", "USER_STATUS1", "DELETED"}, time : Nat, len : 1 .. MaxLen, at : Int]

\* The times of an end node and of cur_sec may be what was on the stack: they have no type.
EndNode(n) == n = [st |-> n.st, time |-> n.time, idx |-> n.idx] /\ n.st \in EndStatuses /\ n.idx \in Int
SectorOK(h) ==
    /\ h = [magic |-> h.magic, st |-> h.st, start |-> h.start, ends |-> h.ends, tsls |-> h.tsls]
    /\ h.magic \in BOOLEAN /\ h.st \in Statuses
    /\ h.ends = <<h.ends[1], h.ends[2]>> /\ EndNode(h.ends[1]) /\ EndNode(h.ends[2])
    /\ h.tsls \in Seq(Entries)
CurOK(c) ==
    /\ c = [addr |-> c.addr, st |-> c.st, start |-> c.start, end |-> c.end, end_idx |-> c.end_idx,
            ends |-> c.ends, idx |-> c.idx, data |-> c.data, remain |-> c.remain]
    /\ c.addr \in Sectors \cup {NoSector} /\ c.st \in Statuses
    /\ c.ends = <<c.ends[1], c.ends[2]>> /\ c.ends[1] \in EndStatuses /\ c.ends[2] \in EndStatuses
    /\ c.end_idx \in Int /\ c.idx \in Int /\ c.data \in Int /\ c.remain \in Int

FlashOK(f) == f = [s \in Sectors |-> f[s]] /\ \A s \in Sectors : SectorOK(f[s])

TypeInv ==
    /\ FlashOK(sec)
    /\ CurOK(cur) /\ oldest \in Sectors \cup {NoSector} /\ rollover \in BOOLEAN
    /\ pc \in {"boot", "control", "idle", "hung"} \cup Formatting \cup Appending
    /\ op \in [time : Int, len : Nat] /\ (pc \in Appending => op.time \in Times /\ op.len \in Lens)
    /\ (pc = "boot" => op = NoOp /\ fmt = 0) /\ (pc \in Formatting => op \in {NoOp, CleanOp})
    /\ fmt \in Sectors /\ crashes \in 0 .. MaxCrashes
    /\ pc \in Appending \ {"entry"} => cur.addr \in Sectors

-----------------------------------------------------------------------------
(* Where the logs are: the part of the invariant for Disjoint.             *)

Used(es) == Len(es) * Idx + DataLen(es)
Left(es) == IF Cap > Used(es) THEN Cap - Used(es) ELSE 0

\* The logs of a sector lie one below the other, above what is still free.
Placed(es) ==
    \A i \in 1 .. Len(es) :
        /\ es[i].at >= Len(es) * Idx /\ es[i].at >= Cap - DataLen(es) /\ es[i].at + es[i].len <= Cap
        /\ \A j \in 1 .. i - 1 : es[i].at + es[i].len <= es[j].at

\* A sector that is empty is as it was formatted.
Unwritten(h) ==
    h.st = "EMPTY" => /\ h.tsls = << >> /\ h.ends[1].st = "UNUSED" /\ h.ends[2].st = "UNUSED"
                      /\ h.magic => h = Clean

\* What cur_sec says of a sector with these logs, and of its end nodes.
On(c, es) == c.idx = Len(es) /\ c.data = Cap - DataLen(es) /\ c.remain = Left(es)
SameEnds(c, h) == c.ends[1] = h.ends[1].st /\ c.ends[2] = h.ends[2].st
Current(c, h) == c.st = h.st /\ On(c, h.tsls) /\ SameEnds(c, h)

\* The index that write_tsl has begun, behind the logs that cur_sec knows of.
Begun(c, o, es) ==
    LET front == SubSeq(es, 1, Len(es) - 1) IN
    /\ es # << >>
    /\ es[Len(es)] = [st |-> "PRE_WRITE", time |-> o.time, len |-> o.len, at |-> c.data - o.len]
    /\ On(c, front) /\ Left(front) >= Need(o.len)

LogInv ==
    /\ \A s \in Sectors : Placed(sec[s].tsls) /\ Unwritten(sec[s])
    /\ pc \in Formatting => \A s \in 0 .. fmt - 1 : sec[s] = Clean
    /\ pc \in {"idle", "control", "entry"} /\ cur.addr = NoSector => cur.st = "UNUSED"
    /\ pc \in {"idle", "control"} /\ cur.addr # NoSector =>
          cur.st = "FULL" \/ (cur.st \in {"USING", "EMPTY"} /\ Current(cur, sec[cur.addr]))
    /\ pc \in {"seal", "start", "entry"} /\ cur.addr # NoSector => cur.st = "USING" /\ Current(cur, sec[cur.addr])
    /\ pc = "using" => cur.st = "EMPTY" /\ Current(cur, sec[cur.addr])
    /\ pc \in {"sealed", "full"} => cur.st = "USING" /\ sec[cur.addr].st = "USING"
    /\ pc = "sealed" => FreeEnds # {}
    /\ pc = "next" => cur.st = "FULL"
    /\ pc = "start" => sec[cur.addr].tsls = << >>
    /\ pc = "entry" /\ cur.addr # NoSector => cur.remain >= Need(op.len)
    /\ pc = "commit" => cur.st = "USING" /\ sec[cur.addr].st = "USING" /\ Begun(cur, op, sec[cur.addr].tsls)
                        /\ SameEnds(cur, sec[cur.addr])

-----------------------------------------------------------------------------
(* The end nodes: the part of the invariant for NeverHangs.                *)

Half(s, k) == sec[s].ends[k].st = "PRE_WRITE"
EndInv ==
    /\ pc = "sealed" => /\ Half(cur.addr, Min(FreeEnds))
                        /\ \A k \in 1 .. 2 : k # Min(FreeEnds) => sec[cur.addr].ends[k].st = cur.ends[k]
    /\ "reseal" \notin met =>
          \A s \in Sectors : Half(s, 1) /\ Half(s, 2) => pc = "sealed" /\ s = cur.addr
    /\ "reseal" \notin met /\ "seal" \notin met =>
          \A s \in Sectors, k \in 1 .. 2 :
              Half(s, k) => pc = "sealed" /\ s = cur.addr /\ k = Min(FreeEnds)
    /\ pc = "hung" => "reseal" \in met

-----------------------------------------------------------------------------
(* There is a sector to write to: the part for Inside.                     *)

HasRoom == \E s \in Sectors : ~sec[s].magic \/ sec[s].st \in {"USING", "EMPTY"}
RoomInv ==
    Rollover => 
    /\ pc # "boot" => rollover
    /\ met \cap {"roll", "full"} = {} =>
        /\ pc \notin {"next", "erase", "magic"} => HasRoom
        /\ pc \in {"idle", "control", "entry"} => cur.addr # NoSector /\ cur.st \in {"USING", "EMPTY"}
        /\ ~outside

-----------------------------------------------------------------------------
(* A sector is not full before it holds a log: the part for Found.         *)

FullInv ==
    /\ \A s \in Sectors : sec[s].st = "FULL" => sec[s].tsls # << >>
    /\ pc \in {"seal", "sealed", "full"} => sec[cur.addr].tsls # << >>

-----------------------------------------------------------------------------
(* The sectors in their order: the part for RestartNeutral.                *)

Before(s) == (s - 1) % S

\* The first valid end node of a sector holds the time and the address of the index of the last log.
HasEnd(h) == h.ends[1].st = "WRITE" \/ h.ends[2].st = "WRITE"
EndTime(h) == IF h.ends[1].st = "WRITE" THEN h.ends[1].time ELSE h.ends[2].time
EndIdx(h) == IF h.ends[1].st = "WRITE" THEN h.ends[1].idx ELSE h.ends[2].idx
Counts(s, h) == HasEnd(h) /\ EndIdx(h) = At(s, Len(h.tsls))
Ended(s, h) == h.magic /\ h.st = "FULL" /\ Counts(s, h)

\* The first time round the sectors after the current one are empty; later all others are full.
FirstRound(c) == /\ \A s \in 0 .. c - 1 : Ended(s, sec[s])
                 /\ \A s \in c + 1 .. S - 1 : sec[s] = Clean
LaterRound(c) == \A s \in Sectors \ {c} : Ended(s, sec[s])
Arranged(c, o) == (o = 0 /\ FirstRound(c)) \/ (o = Following(c) /\ LaterRound(c))

\* A sector that can be the current one when the database starts.
OpenEnds(h) == h.ends[1].st # "WRITE" /\ h.ends[2].st = "UNUSED"
Open(h) == h.magic /\ (h = Clean \/ (h.st = "USING" /\ OpenEnds(h)))

\* It holds a log, unless power was lost before the first one was begun.
Filled(h) == h.st = "USING" /\ "start" \notin met => h.tsls # << >>

LastIs(c, o) == IF c = o THEN last_time = 0 ELSE last_time = EndTime(sec[Before(c)])

\* cur_sec and last_time are what the sector in use says.
Known(h) == /\ cur.start = h.start /\ last_time = cur.end
            /\ h.tsls # << >> => cur.end = TimeOf(h.tsls[Len(h.tsls)]) /\ cur.end_idx = At(cur.addr, Len(h.tsls))

Fresh == \A s \in Sectors : sec[s] \in {Clean, Erased}
AtBoot == \/ Fresh
          \/ \E b \in Sectors, o \in Sectors : Arranged(b, o) /\ Open(sec[b]) /\ Filled(sec[b])

AtIdle == /\ cur.addr \in Sectors /\ Arranged(cur.addr, oldest) /\ Open(sec[cur.addr]) /\ Filled(sec[cur.addr])
          /\ cur.st = "EMPTY" => LastIs(cur.addr, oldest)
          /\ cur.st = "USING" => Known(sec[cur.addr])
InPlace == cur.addr \in Sectors /\ Arranged(cur.addr, oldest) /\ sec[cur.addr].magic
AtSeal == InPlace /\ OpenEnds(sec[cur.addr]) /\ Filled(sec[cur.addr])
AtEntry == InPlace /\ OpenEnds(sec[cur.addr]) /\ cur.start = sec[cur.addr].start
AtUsing == InPlace /\ sec[cur.addr] = Clean
AtStart == InPlace /\ OpenEnds(sec[cur.addr]) /\ cur.start = op.time
AtSealed == /\ InPlace /\ Filled(sec[cur.addr]) /\ cur.ends[1] # "WRITE" /\ cur.ends[2] = "UNUSED"
            /\ sec[cur.addr].ends[Min(FreeEnds)].time = last_time
            /\ sec[cur.addr].ends[Min(FreeEnds)].idx = At(cur.addr, Len(sec[cur.addr].tsls))
AtFull == InPlace /\ EndTime(sec[cur.addr]) = last_time /\ Counts(cur.addr, sec[cur.addr])
AtNext == InPlace /\ EndTime(sec[cur.addr]) = last_time /\ Ended(cur.addr, sec[cur.addr])
AtErase == LaterRound(cur.addr) /\ oldest = Following(cur.addr) /\ sec[cur.addr].st = "FULL"
AtMagic == LaterRound(cur.addr) /\ oldest = Following(cur.addr) /\ sec[cur.addr] = Erased

\* No loss of power after which the logs are no longer accounted for.
Quiet == Rollover /\ met \subseteq {"seal", "start", "entry"}
NeutralInv ==
    Quiet =>
    /\ (pc = "boot" => AtBoot) /\ (pc \in Formatting /\ op = NoOp => Fresh)
    /\ (pc \in {"idle", "control"} => AtIdle)
    /\ (pc = "seal" => AtSeal) /\ (pc = "sealed" => AtSealed) /\ (pc = "full" => AtFull)
    /\ (pc = "next" => AtNext) /\ (pc = "erase" => AtErase) /\ (pc = "magic" => AtMagic)
    /\ (pc = "using" => AtUsing) /\ (pc = "start" => AtStart) /\ (pc \in {"entry", "commit"} => AtEntry)

-----------------------------------------------------------------------------
(* The logs that are kept: the part for Found.                             *)

\* What was appended, of the logs of a sector, and of all sectors from one on.
Logs(es) == Log(Written(es))
Row(f, o) == [i \in 1 .. S |-> Logs(f[(o + i - 1) % S].tsls)]
Stored(f, o) == FlattenSeq(Row(f, o))

KeptInv ==
    Quiet =>
    /\ pc = "boot" => kept = IF Fresh THEN << >> ELSE Stored(sec, BootOldest)
    /\ pc \in Formatting => kept = << >>
    /\ pc = "erase" => kept = Stored(sec, cur.addr)
    /\ pc \in {"idle", "control"} \cup (Appending \ {"erase"}) => kept = Stored(sec, oldest)

-----------------------------------------------------------------------------
(* The times: the part for QueryRight.                                     *)

\* The start of a sector is the time of its first log, its end node has the time of its last.
Timed(h) ==
    /\ h.tsls # << >> => h.start = h.tsls[1].time
    /\ h.st = "FULL" => h.tsls # << >> /\ EndTime(h) = h.tsls[Len(h.tsls)].time
Done(h) == \A i \in 1 .. Len(h.tsls) : ~Unfinished(h.tsls[i])
DoneBefore(h) == \A i \in 1 .. Len(h.tsls) : i # Len(h.tsls) => ~Unfinished(h.tsls[i])

\* Power was lost in end nodes only.
Calm == Rollover /\ met \subseteq {"seal"}
TimeInv ==
    Calm =>
    /\ \A s \in Sectors : Timed(sec[s])
    /\ \A s \in Sectors : (pc = "commit" => s # cur.addr) => Done(sec[s])
    /\ pc = "commit" => DoneBefore(sec[cur.addr])
    /\ pc \in {"seal", "sealed", "full"} =>
          sec[cur.addr].tsls # << >> /\ last_time = sec[cur.addr].tsls[Len(sec[cur.addr].tsls)].time
    /\ pc = "entry" /\ sec[cur.addr].tsls = << >> => sec[cur.addr].start = op.time

\* The logs are kept in the order of their times.
SortInv ==
    Calm =>
    /\ \A i \in 1 .. Len(kept), j \in 1 .. Len(kept) : i < j => kept[i].time <= kept[j].time
    /\ pc \in Appending => \A i \in 1 .. Len(kept) : kept[i].time <= op.time

\* Where power can be lost.
MetInv == met \subseteq {"seal", "start", "entry"} \cup Fatal

\* What the application has set stays set until the next initialisation.
SetInv ==
    pc \in {"idle"} \cup Appending \/ (pc \in Formatting /\ op = CleanOp) => (rollover => Rollover)

Inv == TypeInv /\ LogInv /\ EndInv /\ RoomInv /\ NeutralInv /\ KeptInv /\ MetInv /\ SetInv
       /\ TimeInv /\ SortInv /\ FullInv
-----------------------------------------------------------------------------
(* The units that logs take, and the room that is left.                    *)

LEMMA Consts ==
    /\ S \in Nat /\ S >= 2 /\ Idx \in Nat /\ Idx >= 1 /\ MaxLen \in Nat /\ Cap \in Nat
    /\ Idx + MaxLen <= Cap /\ Rollover \in BOOLEAN /\ Wrap \in Nat /\ MaxCrashes \in Nat
    /\ \A t \in Times : t \in Nat /\ t # 0
    /\ \A t \in Asked : t \in Nat
    /\ \A n \in Lens : n \in 1 .. MaxLen
  BY TsAssumption

\* Of an index with its data, the length that read_tsl returns.
LEMMA LenType ==
    ASSUME NEW e \in Entries
    PROVE  LenOf(e) \in 0 .. MaxLen /\ LenOf(e) >= e.len /\ e.len \in 1 .. MaxLen /\ e.at \in Int
  BY Consts DEF Entries, LenOf

Units(es) == {iu \in (1 .. Len(es)) \X (1 .. MaxLen) : iu[2] <= LenOf(es[iu[1]])}

LEMMA UnitsFinite ==
    ASSUME NEW es \in Seq(Entries)
    PROVE  IsFiniteSet(Units(es)) /\ DataLen(es) = Cardinality(Units(es)) /\ DataLen(es) \in Nat
  <1>1. IsFiniteSet(1 .. Len(es)) /\ IsFiniteSet(1 .. MaxLen)
    BY FS_Interval, Consts
  <1>2. IsFiniteSet((1 .. Len(es)) \X (1 .. MaxLen))
    BY <1>1, FS_Product
  <1>3. IsFiniteSet(Units(es))
    BY <1>2, FS_Subset DEF Units
  <1> QED BY <1>3, FS_CardinalityType DEF DataLen, Units

\* A sector without logs holds no data.
LEMMA NoData == DataLen(<< >>) = 0
  <1>1. Units(<< >>) = {}
    BY DEF Units
  <1> QED BY <1>1, FS_EmptySet DEF DataLen, Units

\* Logs of the same lengths take the same room.
LEMMA SameData ==
    ASSUME NEW es \in Seq(Entries), NEW fs \in Seq(Entries), Len(fs) = Len(es),
           \A i \in 1 .. Len(es) : LenOf(fs[i]) = LenOf(es[i])
    PROVE  DataLen(fs) = DataLen(es)
  <1>1. Units(fs) = Units(es)
    BY DEF Units
  <1> QED BY <1>1 DEF DataLen, Units

\* A log adds its length.
LEMMA MoreData ==
    ASSUME NEW es \in Seq(Entries), NEW e \in Entries
    PROVE  DataLen(Append(es, e)) = DataLen(es) + LenOf(e)
  <1> DEFINE n == Len(es) + 1
             fs == Append(es, e)
             more == {n} \X (1 .. LenOf(e))
  <1>1. fs \in Seq(Entries) /\ Len(fs) = n /\ fs[n] = e /\ \A i \in 1 .. Len(es) : fs[i] = es[i]
    OBVIOUS
  <1>2. Len(es) \in Nat /\ LenOf(e) \in 0 .. MaxLen
    BY LenType
  <1>3. Units(fs) = Units(es) \cup more
    <2>1. ASSUME NEW iu \in Units(fs) PROVE iu \in Units(es) \cup more
      <3>1. iu \in (1 .. n) \X (1 .. MaxLen) /\ iu[2] <= LenOf(fs[iu[1]])
        BY <1>1 DEF Units
      <3>2. CASE iu[1] = n
        BY <1>1, <1>2, <3>1, <3>2, Consts
      <3>3. CASE iu[1] # n
        <4>1. iu[1] \in 1 .. Len(es)
          BY <1>2, <3>1, <3>3
        <4> QED BY <1>1, <3>1, <4>1 DEF Units
      <3> QED BY <3>2, <3>3
    <2>2. ASSUME NEW iu \in Units(es) PROVE iu \in Units(fs)
      <3>1. iu \in (1 .. Len(es)) \X (1 .. MaxLen) /\ iu[2] <= LenOf(es[iu[1]])
        BY DEF Units
      <3>2. iu[1] \in 1 .. n /\ fs[iu[1]] = es[iu[1]]
        BY <1>1, <1>2, <3>1
      <3> QED BY <1>1, <3>1, <3>2 DEF Units
    <2>3. ASSUME NEW iu \in more PROVE iu \in Units(fs)
      <3>1. iu[1] = n /\ iu[2] \in 1 .. LenOf(e) /\ iu = <<iu[1], iu[2]>>
        OBVIOUS
      <3>2. iu[1] \in 1 .. n /\ iu[2] \in 1 .. MaxLen
        BY <1>2, <3>1, Consts
      <3> QED BY <1>1, <1>2, <3>1, <3>2 DEF Units
    <2> QED BY <2>1, <2>2, <2>3
  <1>4. Units(es) \cap more = {}
    <2>1. ASSUME NEW iu \in Units(es), iu \in more PROVE FALSE
      <3>1. iu[1] \in 1 .. Len(es) /\ iu[1] = n
        BY <2>1 DEF Units
      <3> QED BY <1>2, <3>1
    <2> QED BY <2>1
  <1>5. IsFiniteSet(more) /\ Cardinality(more) = LenOf(e)
    <2>1. IsFiniteSet({n}) /\ Cardinality({n}) = 1
      BY FS_Singleton
    <2> DEFINE N == {n}
               U == 1 .. LenOf(e)
    <2>2. IsFiniteSet(U) /\ Cardinality(U) = LenOf(e)
      BY <1>2, FS_Interval
    <2>3. more = N \X U
      OBVIOUS
    <2> HIDE DEF N, U
    <2>4. IsFiniteSet(N \X U) /\ Cardinality(N \X U) = Cardinality(N) * Cardinality(U)
      BY <2>1, <2>2, FS_Product, Zenon DEF N
    <2>5. Cardinality(N) = 1 /\ LenOf(e) \in Nat
      BY <1>2, <2>1 DEF N
    <2>6. 1 * LenOf(e) = LenOf(e)
      BY <2>5
    <2>7. IsFiniteSet(more) /\ Cardinality(more) = 1 * LenOf(e)
      BY <2>2, <2>3, <2>4, <2>5, Zenon
    <2> QED BY <2>6, <2>7, Zenon
  <1> HIDE DEF more, fs
  <1>6. Cardinality(Units(fs)) = Cardinality(Units(es)) + LenOf(e) - 0
    BY <1>3, <1>4, <1>5, UnitsFinite, FS_Union, FS_EmptySet
  <1>7. DataLen(fs) = Cardinality(Units(fs)) /\ DataLen(es) = Cardinality(Units(es)) /\ DataLen(es) \in Nat
    BY <1>1, UnitsFinite
  <1> QED BY <1>2, <1>6, <1>7 DEF fs

\* An empty sector has all of its room left.
LEMMA EmptyPlaced ==
    /\ << >> \in Seq(Entries) /\ Placed(<< >>) /\ Used(<< >>) = 0 /\ Left(<< >>) = Cap
    /\ \A c : c.idx = 0 /\ c.data = Cap /\ c.remain = Cap => On(c, << >>)
  <1>1. << >> \in Seq(Entries) /\ Len(<< >>) = 0
    OBVIOUS
  <1>2. Placed(<< >>)
    BY <1>1 DEF Placed
  <1>3. Used(<< >>) = 0
    BY <1>1, NoData, Consts DEF Used
  <1>4. Left(<< >>) = Cap
    BY <1>3, Consts DEF Left
  <1>5. Cap - DataLen(<< >>) = Cap
    BY NoData, Consts
  <1> QED BY <1>1, <1>2, <1>3, <1>4, <1>5 DEF On

LEMMA RoomType ==
    ASSUME NEW es \in Seq(Entries)
    PROVE  /\ DataLen(es) \in Nat /\ Len(es) \in Nat /\ Len(es) * Idx \in Nat /\ Used(es) \in Nat
           /\ Left(es) \in 0 .. Cap /\ (Left(es) > 0 => Left(es) = Cap - Used(es))
           /\ (Len(es) + 1) * Idx = Len(es) * Idx + Idx
  <1>1. DataLen(es) \in Nat /\ Len(es) \in Nat /\ Len(es) * Idx \in Nat
    BY UnitsFinite, Consts
  <1>2. (Len(es) + 1) * Idx = Len(es) * Idx + Idx
    BY <1>1, Consts
  <1> QED BY <1>1, <1>2, Consts DEF Used, Left

\* The index and the data that write_tsl adds find their place.
LEMMA MorePlaced ==
    ASSUME NEW es \in Seq(Entries), Placed(es), NEW t \in Times, NEW n \in Lens, Left(es) >= Need(n),
           NEW e, e = [st |-> "PRE_WRITE", time |-> t, len |-> n, at |-> Cap - DataLen(es) - n]
    PROVE  e \in Entries /\ Placed(Append(es, e))
  <1>1. /\ DataLen(es) \in Nat /\ Len(es) \in Nat /\ Len(es) * Idx \in Nat
        /\ (Len(es) + 1) * Idx = Len(es) * Idx + Idx
    BY RoomType
  <1>2. n \in 1 .. MaxLen /\ t \in Nat /\ Need(n) = Idx + n
    BY Consts DEF Need
  <1>3. e \in Entries /\ LenOf(e) = MaxLen
    BY <1>1, <1>2, Consts DEF Entries, LenOf, Unfinished
  <1> DEFINE fs == Append(es, e)
             d == DataLen(es)
             k == Len(es)
  <1>4. fs \in Seq(Entries) /\ Len(fs) = k + 1 /\ fs[k + 1] = e /\ \A i \in 1 .. k : fs[i] = es[i]
    BY <1>3
  <1>5. DataLen(fs) = d + MaxLen
    BY <1>3, MoreData
  <1>6. k * Idx + Idx + n <= Cap - d
    <2>1. Left(es) = Cap - Used(es) /\ Used(es) = Len(es) * Idx + DataLen(es)
      BY <1>2, RoomType, Consts DEF Used
    <2> QED BY <1>1, <1>2, <2>1, Consts
  <1>7. \A i \in 1 .. k : es[i].at \in Int /\ es[i].len \in Nat /\ es[i].at >= Cap - d /\ es[i].at + es[i].len <= Cap
        /\ \A j \in 1 .. i - 1 : es[i].at + es[i].len <= es[j].at
    BY LenType DEF Placed
  <1>8. e.at = Cap - d - n /\ e.len = n
    OBVIOUS
  <1> DEFINE p == k * Idx
  <1> HIDE DEF fs, d, k, p
  <1>9. ASSUME NEW i \in 1 .. k + 1
        PROVE  /\ fs[i].at >= Len(fs) * Idx /\ fs[i].at >= Cap - DataLen(fs) /\ fs[i].at + fs[i].len <= Cap
               /\ \A j \in 1 .. i - 1 : fs[i].at + fs[i].len <= fs[j].at
    <2>1. Len(fs) * Idx = p + Idx /\ d \in Nat /\ k \in Nat /\ p \in Nat /\ p + Idx + n <= Cap - d
      BY <1>1, <1>4, <1>6 DEF d, k, p
    <2>2. CASE i = k + 1
      <3>1. fs[i].at = Cap - d - n /\ fs[i].len = n
        BY <1>4, <1>8, <2>2
      <3>2. \A j \in 1 .. i - 1 : j \in 1 .. k /\ fs[j] = es[j] /\ es[j].at \in Int /\ es[j].at >= Cap - d
        <4>1. \A j \in 1 .. i - 1 : j \in 1 .. k
          BY <2>1, <2>2
        <4> QED BY <1>4, <1>7, <4>1
      <3>3. Cap - d - n + n = Cap - d /\ Cap - d <= Cap
        BY <1>2, <2>1, Consts
      <3>4. Cap - d - n >= p + Idx /\ Cap - d - n >= Cap - (d + MaxLen)
        BY <1>2, <2>1, Consts
      <3> QED BY <1>5, <2>1, <3>1, <3>2, <3>3, <3>4
    <2>3. CASE i # k + 1
      <3>1. i \in 1 .. k /\ fs[i] = es[i] /\ es[i].at \in Int /\ es[i].at >= Cap - d
        BY <1>4, <1>7, <2>1, <2>3
      <3>2. \A j \in 1 .. i - 1 : j \in 1 .. k /\ fs[j] = es[j]
        BY <1>4, <2>1, <3>1
      <3>3. es[i].at >= p + Idx /\ es[i].at >= Cap - (d + MaxLen)
        BY <1>2, <2>1, <3>1, Consts
      <3> QED BY <1>5, <1>7, <2>1, <3>1, <3>2, <3>3
    <2> QED BY <2>2, <2>3
  <1>10. Placed(fs)
    BY <1>4, <1>9 DEF Placed
  <1> QED BY <1>3, <1>10 DEF fs

LEMMA LeftIs ==
    ASSUME NEW es \in Seq(Entries), NEW n \in Lens, Left(es) >= Need(n)
    PROVE  Left(es) = Cap - Used(es) /\ Left(es) \in Nat /\ Used(es) \in Nat
  <1>1. Left(es) \in 0 .. Cap /\ (Left(es) > 0 => Left(es) = Cap - Used(es)) /\ Used(es) \in Nat
    BY RoomType
  <1>2. Need(n) \in Nat /\ Need(n) > 0
    BY Consts DEF Need
  <1> QED BY <1>1, <1>2, Consts

LEMMA Shrink ==
    ASSUME NEW a \in Nat, NEW p \in Nat, NEW d \in Nat, NEW i \in Nat, NEW n \in Nat, a - (p + d) >= i + n
    PROVE  /\ a - (p + i + (d + n)) = (a - (p + d)) - (i + n) /\ a - (p + i + (d + n)) >= 0
           /\ p + i + (d + n) \in Nat
  OBVIOUS

LEMMA Lower ==
    ASSUME NEW x \in Int, NEW y \in Int, NEW n \in Nat, x + n <= y
    PROVE  y >= x
  OBVIOUS

LEMMA FrontIs ==
    ASSUME NEW es \in Seq(Entries), es # << >>, NEW front, front = SubSeq(es, 1, Len(es) - 1)
    PROVE  /\ front \in Seq(Entries) /\ Len(front) = Len(es) - 1
           /\ \A i \in 1 .. Len(es) - 1 : front[i] = es[i]
  <1>1. Len(es) \in Nat /\ Len(es) >= 1
    BY EmptySeq
  <1>2. \A i \in 1 .. Len(es) - 1 : es[i] \in Entries
    BY <1>1
  <1>3. /\ front \in Seq(Entries) /\ Len(front) = (IF 1 <= Len(es) - 1 THEN Len(es) - 1 - 1 + 1 ELSE 0)
        /\ \A i \in 1 .. Len(es) - 1 - 1 + 1 : front[i] = es[1 + i - 1]
    BY <1>1, <1>2, SubSeqProperties
  <1>4. Len(es) - 1 - 1 + 1 = Len(es) - 1 /\ \A i \in 1 .. Len(es) - 1 : 1 + i - 1 = i
    BY <1>1
  <1> QED BY <1>1, <1>3, <1>4

LEMMA LastPut ==
    ASSUME NEW es \in Seq(Entries), es # << >>, NEW e \in Entries,
           NEW front, front = SubSeq(es, 1, Len(es) - 1)
    PROVE  [es EXCEPT ![Len(es)] = e] = Append(front, e)
  <1> DEFINE m == Len(es)
             fs == [es EXCEPT ![m] = e]
             gs == Append(front, e)
  <1>1. m \in Nat /\ m >= 1 /\ m \in 1 .. Len(es)
    BY EmptySeq
  <1>2. front \in Seq(Entries) /\ Len(front) = m - 1 /\ \A i \in 1 .. m - 1 : front[i] = es[i]
    BY FrontIs
  <1>3. fs \in Seq(Entries) /\ Len(fs) = m /\ \A j \in 1 .. m : fs[j] = IF j = m THEN e ELSE es[j]
    BY <1>1, ExceptSeq
  <1>4. /\ gs \in Seq(Entries) /\ Len(gs) = Len(front) + 1
        /\ \A i \in 1 .. Len(front) : gs[i] = front[i]
        /\ gs[Len(front) + 1] = e
    BY <1>2, AppendProperties
  <1> HIDE DEF fs, gs, m
  <1>5. Len(gs) = m /\ gs[m] = e /\ \A i \in 1 .. m - 1 : gs[i] = es[i]
    BY <1>1, <1>2, <1>4
  <1>6. \A i \in 1 .. m : fs[i] = gs[i]
    <2> TAKE i \in 1 .. m
    <2>1. CASE i = m
      BY <1>1, <1>3, <1>5, <2>1
    <2>2. CASE i # m
      <3>1. i \in 1 .. m - 1
        BY <1>1, <2>2
      <3> QED BY <1>3, <1>5, <2>2, <3>1
    <2> QED BY <2>1, <2>2
  <1>7. fs = gs
    BY <1>3, <1>4, <1>5, <1>6, SeqEqual
  <1> QED BY <1>7 DEF fs, gs, m

\* A log that becomes valid takes its own length, no longer that of the longest log.
LEMMA CommitPlaced ==
    ASSUME NEW front \in Seq(Entries), NEW n \in Lens, Left(front) >= Need(n),
           NEW x \in Entries, x.len = n, x.at = Cap - DataLen(front) - n, Placed(Append(front, x)),
           NEW e \in Entries, e.len = n, e.at = x.at, LenOf(e) = n
    PROVE  /\ Placed(Append(front, e))
           /\ Cap - DataLen(Append(front, e)) = Cap - DataLen(front) - n
           /\ Left(Append(front, e)) = Left(front) - Need(n)
  <1> DEFINE k == Len(front)
             es == Append(front, x)
             fs == Append(front, e)
             d == DataLen(front)
             p == k * Idx
  <1>1. /\ d \in Nat /\ k \in Nat /\ p \in Nat /\ (k + 1) * Idx = p + Idx
    BY RoomType
  <1>2. es \in Seq(Entries) /\ Len(es) = k + 1 /\ es[k + 1] = x /\ \A i \in 1 .. k : es[i] = front[i]
    OBVIOUS
  <1>3. fs \in Seq(Entries) /\ Len(fs) = k + 1 /\ fs[k + 1] = e /\ \A i \in 1 .. k : fs[i] = front[i]
    OBVIOUS
  <1>4. DataLen(fs) = d + n
    BY MoreData
  <1>5. n \in Nat /\ Need(n) = Idx + n /\ Idx \in Nat /\ Cap \in Nat
    BY Consts DEF Need
  <1>6. Left(front) = Cap - (p + d)
    BY LeftIs DEF Used
  <1>7. Len(fs) * Idx = p + Idx /\ Len(es) * Idx = p + Idx
    BY <1>1, <1>2, <1>3
  <1>8. Used(fs) = p + Idx + (d + n)
    BY <1>4, <1>7 DEF Used
  <1>9. \A i \in 1 .. k + 1 : /\ es[i].at \in Int /\ es[i].len \in Nat /\ es[i].at >= p + Idx /\ es[i].at + es[i].len <= Cap
                              /\ \A j \in 1 .. i - 1 : es[i].at + es[i].len <= es[j].at
    <2> TAKE i \in 1 .. k + 1
    <2>1. es[i] \in Entries
      BY <1>1, <1>2
    <2> QED BY <1>2, <1>7, <2>1, LenType DEF Placed
  <1> HIDE DEF k, es, fs, d, p
  <1>10. \A i \in 1 .. k + 1 : fs[i].at = es[i].at /\ fs[i].len = es[i].len
    <2> TAKE i \in 1 .. k + 1
    <2>1. CASE i = k + 1
      BY <1>2, <1>3, <2>1
    <2>2. CASE i # k + 1
      <3>1. i \in 1 .. k
        BY <1>1, <2>2
      <3> QED BY <1>2, <1>3, <3>1
    <2> QED BY <2>1, <2>2
  <1>11. /\ Cap - (p + Idx + (d + n)) = (Cap - (p + d)) - (Idx + n) /\ Cap - (p + Idx + (d + n)) >= 0
         /\ p + Idx + (d + n) \in Nat
    BY <1>1, <1>5, <1>6, Shrink
  <1>12. Left(fs) = Left(front) - Need(n)
    <2>1. Left(fs) = Cap - Used(fs)
      BY <1>5, <1>8, <1>11 DEF Left
    <2> QED BY <1>5, <1>6, <1>8, <1>11, <2>1
  <1>13. Cap - DataLen(fs) = Cap - d - n /\ Cap - d - n \in Int /\ x.at = Cap - d - n
    BY <1>1, <1>4, <1>5 DEF d
  <1>14. \A i \in 1 .. k + 1 : es[i].at >= x.at
    <2> TAKE i \in 1 .. k + 1
    <2>1. CASE i = k + 1
      BY <1>2, <1>13, <2>1
    <2>2. CASE i # k + 1
      <3>1. i \in 1 .. (k + 1) - 1 /\ k + 1 \in 1 .. k + 1
        BY <1>1, <2>2
      <3>2. x.at + n <= es[i].at
        BY <1>2, <1>9, <3>1
      <3> QED BY <1>5, <1>9, <1>13, <3>2, Lower
    <2> QED BY <2>1, <2>2
  <1>15. Placed(fs)
    <2>1. \A i \in 1 .. k + 1 : \A j \in 1 .. i - 1 : j \in 1 .. k + 1
      BY <1>1
    <2>2. Len(fs) = k + 1
      BY <1>3
    <2> QED BY <1>7, <1>9, <1>10, <1>13, <1>14, <2>1, <2>2 DEF Placed
  <1> QED BY <1>12, <1>13, <1>15 DEF fs, d

\* The status of a valid log moves on; nothing else changes.
LEMMA StatusPlaced ==
    ASSUME NEW es \in Seq(Entries), Placed(es), NEW i \in 1 .. Len(es), ~Unfinished(es[i]),
           NEW st \in {"USER_STATUS1", "DELETED"}, NEW fs, fs = [es EXCEPT ![i].st = st]
    PROVE  /\ fs \in Seq(Entries) /\ Len(fs) = Len(es) /\ DataLen(fs) = DataLen(es) /\ Placed(fs)
           /\ \A j \in 1 .. Len(es) : TimeOf(fs[j]) = TimeOf(es[j])
  <1>1. es[i] \in Entries
    OBVIOUS
  <1>2. [es[i] EXCEPT !.st = st] \in Entries
    BY <1>1 DEF Entries
  <1>3. fs \in Seq(Entries) /\ Len(fs) = Len(es)
    BY <1>2
  <1>4. \A j \in 1 .. Len(es) : /\ LenOf(fs[j]) = LenOf(es[j]) /\ TimeOf(fs[j]) = TimeOf(es[j])
                                /\ fs[j].at = es[j].at /\ fs[j].len = es[j].len
    <2> SUFFICES ASSUME NEW j \in 1 .. Len(es)
                 PROVE  /\ LenOf(fs[j]) = LenOf(es[j]) /\ TimeOf(fs[j]) = TimeOf(es[j])
                        /\ fs[j].at = es[j].at /\ fs[j].len = es[j].len
      OBVIOUS
    <2>1. CASE j = i
      <3>1. fs[j] = [es[i] EXCEPT !.st = st]
        BY <2>1
      <3> QED BY <1>1, <2>1, <3>1 DEF Entries, LenOf, TimeOf, Unfinished
    <2>2. CASE j # i
      BY <2>2
    <2> QED BY <2>1, <2>2
  <1>5. DataLen(fs) = DataLen(es)
    BY <1>3, <1>4, SameData
  <1>6. Placed(fs)
    <2>1. \A j \in 1 .. Len(es) : \A k \in 1 .. j - 1 : k \in 1 .. Len(es)
      OBVIOUS
    <2> QED BY <1>3, <1>4, <1>5, <2>1 DEF Placed
  <1> QED BY <1>3, <1>4, <1>5, <1>6

-----------------------------------------------------------------------------
(* The natural numbers.                                                    *)

LEMMA HasLeast ==
    ASSUME NEW T, T \subseteq Nat, T # {}
    PROVE  \E x \in T : \A y \in T : x <= y
  <1> DEFINE R == OpToRel(<, Nat)
  <1>1. IsWellFoundedOn(R, Nat)
    BY NatLessThanWellFounded
  <1>2. \A x \in Nat, y \in Nat : y < x => <<y, x>> \in R
    BY DEF OpToRel
  <1> HIDE DEF R
  <1>3. PICK x \in T : \A y \in T : ~(<<y, x>> \in R)
    BY <1>1, WFMin
  <1>4. \A y \in T : x <= y
    <2> TAKE y \in T
    <2>1. x \in Nat /\ y \in Nat /\ ~(y < x)
      BY <1>2, <1>3
    <2> QED BY <2>1
  <1> QED BY <1>4

\* Induction: a set of naturals that holds 0 and with each number the next holds all.
LEMMA Induction ==
    ASSUME NEW T, 0 \in T, \A n \in Nat : n \in T => n + 1 \in T
    PROVE  Nat \subseteq T
  <1> SUFFICES ASSUME Nat \ T # {} PROVE FALSE
    OBVIOUS
  <1>1. PICK m \in Nat \ T : \A y \in Nat \ T : m <= y
    BY HasLeast
  <1>2. m # 0 /\ m - 1 \in Nat
    BY <1>1
  <1>3. m - 1 \in T
    BY <1>1, <1>2
  <1>4. (m - 1) + 1 \in T
    BY <1>2, <1>3
  <1> QED BY <1>1, <1>4

-----------------------------------------------------------------------------
(* Records and sectors with one field changed.                             *)

LEMMA SectorFacts ==
    /\ 0 \in Sectors /\ S - 1 \in Sectors /\ NoSector \notin Sectors /\ \A s \in Sectors : s \in Int
    /\ \A s \in Sectors : Following(s) \in Sectors /\ Following(s) # s
    /\ \A s \in Sectors : Following(s) = IF s = S - 1 THEN 0 ELSE s + 1
    /\ \A s \in Sectors : (s - 1) % S = IF s = 0 THEN S - 1 ELSE s - 1
    /\ \A s \in Sectors : (s - 1) % S \in Sectors
  <1>1. \A s \in Sectors : Following(s) = IF s = S - 1 THEN 0 ELSE s + 1
    BY Consts DEF Sectors, Following
  <1>2. \A s \in Sectors : (s - 1) % S = IF s = 0 THEN S - 1 ELSE s - 1
    BY Consts DEF Sectors
  <1> QED BY <1>1, <1>2, Consts DEF Sectors, NoSector

LEMMA Records ==
    /\ EndNode(NoEnd) /\ SectorOK(Erased) /\ SectorOK(Clean) /\ CurOK(Zero)
    /\ Clean.magic /\ Clean.st = "EMPTY" /\ Clean.tsls = << >> /\ Clean.start = NoTime
    /\ Clean.ends[1].st = "UNUSED" /\ Clean.ends[2].st = "UNUSED"
    /\ ~Erased.magic /\ Erased.st = "UNUSED" /\ Erased.tsls = << >>
    /\ Erased.ends[1].st = "UNUSED" /\ Erased.ends[2].st = "UNUSED"
  <1>1. EndNode(NoEnd)
    BY DEF EndNode, NoEnd, EndStatuses
  <1>2. << >> \in Seq(Entries)
    OBVIOUS
  <1>3. 0 \in Sectors
    BY SectorFacts
  <1>4. /\ Erased.magic = FALSE /\ Erased.st = "UNUSED" /\ Erased.tsls = << >> /\ Erased.ends = <<NoEnd, NoEnd>>
        /\ Erased.start = NoTime
    BY DEF Erased
  <1>5. /\ Clean.magic = TRUE /\ Clean.st = "EMPTY" /\ Clean.tsls = << >> /\ Clean.ends = <<NoEnd, NoEnd>>
        /\ Clean.start = NoTime
    BY DEF Clean, Erased
  <1>6. SectorOK(Erased)
    <2>1. Erased = [magic |-> FALSE, st |-> "UNUSED", start |-> NoTime, ends |-> <<NoEnd, NoEnd>>, tsls |-> << >>]
      BY DEF Erased
    <2> QED BY <1>1, <1>2, <1>4, <2>1 DEF SectorOK, Statuses
  <1>7. SectorOK(Clean)
    <2> DEFINE a == [Erased EXCEPT !.magic = TRUE]
    <2>0. a = [magic |-> TRUE, st |-> "UNUSED", start |-> NoTime, ends |-> <<NoEnd, NoEnd>>, tsls |-> << >>]
      <3>0. \A v : [Erased EXCEPT !.magic = v] =
                [magic |-> v, st |-> Erased.st, start |-> Erased.start, ends |-> Erased.ends, tsls |-> Erased.tsls]
        BY <1>6 DEF SectorOK
      <3>1. a = [magic |-> TRUE, st |-> Erased.st, start |-> Erased.start, ends |-> Erased.ends, tsls |-> Erased.tsls]
        BY <3>0, Zenon
      <3> QED BY <1>4, <3>1
    <2>2. Clean = [a EXCEPT !.st = "EMPTY"]
      BY DEF Clean
    <2> HIDE DEF a
    <2>1. Clean = [magic |-> TRUE, st |-> "EMPTY", start |-> NoTime, ends |-> <<NoEnd, NoEnd>>, tsls |-> << >>]
      BY <2>0, <2>2
    <2> QED BY <1>1, <1>2, <1>5, <2>1 DEF SectorOK, Statuses
  <1>8. CurOK(Zero)
    BY <1>3 DEF CurOK, Zero, Statuses, EndStatuses
  <1>9. NoEnd.st = "UNUSED"
    BY DEF NoEnd
  <1> QED BY <1>1, <1>4, <1>5, <1>6, <1>7, <1>8, <1>9

LEMMA PutStatus ==
    ASSUME NEW h, SectorOK(h), NEW v \in Statuses, NEW g, g = [h EXCEPT !.st = v]
    PROVE  /\ SectorOK(g) /\ g.st = v
           /\ g.magic = h.magic /\ g.start = h.start /\ g.ends = h.ends /\ g.tsls = h.tsls
  BY DEF SectorOK

LEMMA PutStart ==
    ASSUME NEW h, SectorOK(h), NEW v, NEW g, g = [h EXCEPT !.start = v]
    PROVE  /\ SectorOK(g) /\ g.start = v
           /\ g.magic = h.magic /\ g.st = h.st /\ g.ends = h.ends /\ g.tsls = h.tsls
  BY DEF SectorOK

LEMMA PutLogs ==
    ASSUME NEW h, SectorOK(h), NEW v \in Seq(Entries), NEW g, g = [h EXCEPT !.tsls = v]
    PROVE  /\ SectorOK(g) /\ g.tsls = v
           /\ g.magic = h.magic /\ g.st = h.st /\ g.start = h.start /\ g.ends = h.ends
  BY DEF SectorOK

LEMMA PutMagic ==
    ASSUME NEW h, SectorOK(h), NEW g, g = [h EXCEPT !.magic = FALSE]
    PROVE  /\ SectorOK(g) /\ g.magic = FALSE
           /\ g.tsls = h.tsls /\ g.st = h.st /\ g.start = h.start /\ g.ends = h.ends
  BY DEF SectorOK

LEMMA PutEnd ==
    ASSUME NEW f, f = <<f[1], f[2]>>, EndNode(f[1]), EndNode(f[2]),
           NEW k \in {1, 2}, NEW n, EndNode(n), NEW e, e = [f EXCEPT ![k] = n]
    PROVE  /\ e = <<e[1], e[2]>> /\ EndNode(e[1]) /\ EndNode(e[2])
           /\ e[k] = n /\ \A j \in {1, 2} : j # k => e[j] = f[j]
  <1>1. e = <<e[1], e[2]>> /\ e[k] = n /\ \A j \in {1, 2} : j # k => e[j] = f[j]
    OBVIOUS
  <1> QED BY <1>1

LEMMA PutEnds ==
    ASSUME NEW h, SectorOK(h), NEW e, e = <<e[1], e[2]>>, EndNode(e[1]), EndNode(e[2]),
           NEW g, g = [h EXCEPT !.ends = e]
    PROVE  /\ SectorOK(g) /\ g.ends = e
           /\ g.magic = h.magic /\ g.st = h.st /\ g.start = h.start /\ g.tsls = h.tsls
  BY DEF SectorOK

\* The flash after a write to one sector.
LEMMA PutSector ==
    ASSUME FlashOK(sec), NEW x \in Sectors, NEW h, SectorOK(h), sec' = [sec EXCEPT ![x] = h]
    PROVE  FlashOK(sec') /\ sec'[x] = h /\ \A s \in Sectors : s # x => sec'[s] = sec[s]
  BY DEF FlashOK

-----------------------------------------------------------------------------
(* read_sector_info                                                        *)

LEMMA AtType ==
    ASSUME NEW s \in Sectors \cup {NoSector}, NEW n \in Int
    PROVE  At(s, n) \in Int
  BY Consts DEF At, Sectors, NoSector

LEMMA TraverseIs ==
    ASSUME NEW i, CurOK(i), NEW es \in Seq(Entries), i.idx = 0, i.data = Cap, i.remain = Cap,
           NEW r, r = Traverse(i, es)
    PROVE  /\ CurOK(r) /\ On(r, es)
           /\ r.addr = i.addr /\ r.st = i.st /\ r.start = i.start /\ r.ends = i.ends
           /\ es # << >> => r.end = TimeOf(es[Len(es)]) /\ r.end_idx = At(i.addr, Len(es))
  <1>1. CASE es = << >>
    <2>1. r = i
      BY <1>1 DEF Traverse
    <2>2. On(i, << >>)
      BY EmptyPlaced
    <2> QED BY <1>1, <2>1, <2>2
  <1>2. CASE es # << >>
    <2>1. r = [i EXCEPT !.end = TimeOf(Last(es)), !.end_idx = At(i.addr, Len(es)), !.idx = Len(es),
                        !.data = Cap - DataLen(es), !.remain = Left(es)]
      BY <1>2 DEF Traverse, Left, Used
    <2>2. Last(es) = es[Len(es)]
      BY DEF Last
    <2>3. Len(es) \in Int /\ Cap - DataLen(es) \in Int /\ Left(es) \in Int
      BY RoomType, Consts
    <2>4. At(i.addr, Len(es)) \in Int
      BY <2>3, AtType DEF CurOK
    <2> QED BY <1>2, <2>1, <2>2, <2>3, <2>4 DEF CurOK, On
  <1> QED BY <1>1, <1>2

\* What the header of a sector says.
Header(s, old) ==
    LET h == sec[s]
        written == {k \in 1 .. 2 : h.ends[k].st = "WRITE"}
    IN  [addr |-> s, st |-> h.st, start |-> h.start,
         end |-> IF written = {} THEN old.end ELSE h.ends[Min(written)].time,
         end_idx |-> IF written = {} THEN old.end_idx ELSE h.ends[Min(written)].idx,
         ends |-> <<h.ends[1].st, h.ends[2].st>>, idx |-> 0, data |-> Cap, remain |-> Cap]

LEMMA HeaderIs ==
    ASSUME FlashOK(sec), NEW s \in Sectors, NEW old, old.end_idx \in Int, NEW i, i = Header(s, old)
    PROVE  /\ CurOK(i) /\ i.addr = s /\ i.st = sec[s].st /\ i.start = sec[s].start /\ SameEnds(i, sec[s])
           /\ i.idx = 0 /\ i.data = Cap /\ i.remain = Cap
           /\ HasEnd(sec[s]) => i.end = EndTime(sec[s]) /\ i.end_idx = EndIdx(sec[s])
  <1> DEFINE h == sec[s]
             written == {k \in 1 .. 2 : h.ends[k].st = "WRITE"}
  <1>1. SectorOK(h)
    BY DEF FlashOK
  <1>2. SameEnds(i, h) /\ i.idx = 0 /\ i.data = Cap /\ i.remain = Cap /\ i.addr = s /\ i.st = h.st /\ i.start = h.start
    BY DEF SameEnds, Header
  <1>3. /\ written # {} => i.end = h.ends[Min(written)].time /\ i.end_idx = h.ends[Min(written)].idx
        /\ written = {} => i.end_idx = old.end_idx
    BY DEF Header
  <1>4. ASSUME h.ends[1].st = "WRITE" PROVE i.end = EndTime(h) /\ i.end_idx = EndIdx(h)
    <2>1. 1 \in written /\ \A y \in written : y \in {1, 2}
      BY <1>4
    <2>2. Min(written) = 1
      BY <2>1 DEF Min
    <2> QED BY <1>3, <1>4, <2>1, <2>2 DEF EndTime, EndIdx
  <1>5. ASSUME h.ends[1].st # "WRITE", h.ends[2].st = "WRITE" PROVE i.end = EndTime(h) /\ i.end_idx = EndIdx(h)
    <2>1. written = {2}
      BY <1>5
    <2>2. Min(written) = 2
      BY <2>1 DEF Min
    <2> QED BY <1>3, <1>5, <2>1, <2>2 DEF EndTime, EndIdx
  <1>6. HasEnd(h) => i.end = EndTime(h) /\ i.end_idx = EndIdx(h)
    BY <1>4, <1>5 DEF HasEnd
  <1>7. i.end_idx \in Int
    <2>1. EndIdx(h) \in Int
      BY <1>1 DEF SectorOK, EndNode, EndIdx
    <2>2. ~HasEnd(h) => written = {}
      BY DEF HasEnd
    <2> QED BY <1>3, <1>6, <2>1, <2>2
  <1>8. CurOK(i)
    BY <1>1, <1>7, Consts DEF CurOK, SectorOK, EndNode, Header
  <1> QED BY <1>2, <1>6, <1>8

\* The two ways in which a sector is read.
HeaderRead(s, old) == read_sector_info(s, old, FALSE)
LogsRead(s, old) == read_sector_info(s, old, TRUE)

LEMMA ReadHeader ==
    ASSUME FlashOK(sec), NEW s \in Sectors, sec[s].magic, NEW old, old.end_idx \in Int, NEW r, r = HeaderRead(s, old)
    PROVE  /\ CurOK(r) /\ r.addr = s /\ r.st = sec[s].st /\ r.start = sec[s].start /\ SameEnds(r, sec[s])
           /\ r.idx = 0 /\ r.data = Cap /\ r.remain = Cap
           /\ HasEnd(sec[s]) => r.end = EndTime(sec[s]) /\ r.end_idx = EndIdx(sec[s])
  <1>1. r = Header(s, old)
    BY DEF HeaderRead, read_sector_info, Header
  <1> QED BY <1>1, HeaderIs

LEMMA ReadLogs ==
    ASSUME FlashOK(sec), NEW s \in Sectors, sec[s].magic, NEW old, old.end_idx \in Int, NEW r, r = LogsRead(s, old)
    PROVE  /\ CurOK(r) /\ r.addr = s /\ r.st = sec[s].st /\ r.start = sec[s].start /\ SameEnds(r, sec[s])
           /\ r.st = "USING" =>
                 /\ On(r, sec[s].tsls)
                 /\ sec[s].tsls # << >> => /\ r.end = TimeOf(sec[s].tsls[Len(sec[s].tsls)])
                                           /\ r.end_idx = At(s, Len(sec[s].tsls))
           /\ r.st # "USING" => r.idx = 0 /\ r.data = Cap /\ r.remain = Cap
  <1> DEFINE h == sec[s]
             i == Header(s, old)
  <1>1. /\ CurOK(i) /\ i.addr = s /\ i.st = sec[s].st /\ i.start = sec[s].start /\ SameEnds(i, sec[s])
        /\ i.idx = 0 /\ i.data = Cap /\ i.remain = Cap
    BY HeaderIs
  <1>2. r = IF h.st = "USING" THEN Traverse(i, h.tsls) ELSE i
    BY DEF LogsRead, read_sector_info, Header
  <1> HIDE DEF i
  <1>3. h.tsls \in Seq(Entries)
    BY DEF SectorOK, FlashOK
  <1>4. CASE h.st = "USING"
    <2>1. /\ CurOK(r) /\ On(r, h.tsls)
          /\ r.addr = i.addr /\ r.st = i.st /\ r.start = i.start /\ r.ends = i.ends
          /\ h.tsls # << >> => r.end = TimeOf(h.tsls[Len(h.tsls)]) /\ r.end_idx = At(s, Len(h.tsls))
      BY <1>1, <1>2, <1>3, <1>4, TraverseIs
    <2> QED BY <1>1, <1>4, <2>1 DEF SameEnds
  <1>5. CASE h.st # "USING"
    BY <1>1, <1>2, <1>5
  <1> QED BY <1>4, <1>5

\* The infos of the scan, one after the other: f[n] is read from the first n sectors.
Scanned(f, m, g) == f = [n \in 0 .. m |-> IF n = 0 THEN Local(g) ELSE LogsRead(n - 1, f[n - 1])]

LEMMA ScanExists ==
    ASSUME NEW g
    PROVE  \A m \in Nat : \E f : Scanned(f, m, g)
  <1> DEFINE T == {m \in Nat : \E f : Scanned(f, m, g)}
             z == Local(g)
             Info(f, n) == IF n = 0 THEN z ELSE LogsRead(n - 1, f[n - 1])
  <1> HIDE DEF z
  <1>1. 0 \in T
    <2>1. Scanned([n \in 0 .. 0 |-> z], 0, g)
      BY DEF Scanned, z
    <2> QED BY <2>1
  <1>2. ASSUME NEW m \in Nat, m \in T PROVE m + 1 \in T
    <2>1. PICK f : Scanned(f, m, g)
      BY <1>2
    <2> DEFINE h == [n \in 0 .. m + 1 |-> Info(f, n)]
    <2>2. \A n \in 0 .. m : n \in 0 .. m + 1 /\ f[n] = Info(f, n)
      BY <2>1 DEF Scanned, z
    <2>3. \A n \in 0 .. m : h[n] = f[n]
      <3> HIDE DEF Info
      <3> QED BY <2>2
    <2>4. \A n \in 0 .. m + 1 : n # 0 => n - 1 \in 0 .. m
      OBVIOUS
    <2>5. \A n \in 0 .. m + 1 : Info(f, n) = Info(h, n)
      <3> HIDE DEF h
      <3> QED BY <2>3, <2>4
    <2>6. h = [n \in 0 .. m + 1 |-> Info(h, n)]
      <3> DEFINE k == [n \in 0 .. m + 1 |-> Info(h, n)]
      <3>1. \A n \in 0 .. m + 1 : h[n] = k[n]
        BY <2>5
      <3> QED BY <3>1
    <2> HIDE DEF h
    <2>7. Scanned(h, m + 1, g)
      BY <2>6 DEF Scanned, z
    <2> QED BY <2>7
  <1> HIDE DEF T
  <1>3. Nat \subseteq T
    BY <1>1, <1>2, Induction
  <1> QED BY <1>3 DEF T

\* What is left over from the sectors before is at least a number.
LEMMA ScanIs ==
    ASSUME FlashOK(sec), \A s \in Sectors : sec[s].magic, NEW g, Local(g).end_idx \in Int
    PROVE  \A n \in 0 .. S : ScanInfo(g)[n].end_idx \in Int
  <1> DEFINE f == ScanInfo(g)
             T == {n \in Nat : n <= S => f[n].end_idx \in Int}
  <1>1. Scanned(f, S, g)
    <2>1. \E h : Scanned(h, S, g)
      BY ScanExists, Consts
    <2>2. \E h : h = [n \in 0 .. S |-> IF n = 0 THEN Local(g)
                                         ELSE read_sector_info(n - 1, h[n - 1], TRUE)]
      BY <2>1, Zenon DEF Scanned, LogsRead
    <2> QED BY <2>2, Zenon DEF ScanInfo, Scanned, LogsRead
  <1> HIDE DEF f
  <1>2. 0 \in T
    <2>1. f[0] = Local(g)
      BY <1>1, Consts DEF Scanned
    <2> QED BY <2>1
  <1>3. ASSUME NEW n \in Nat, n \in T PROVE n + 1 \in T
    <2> SUFFICES ASSUME n + 1 <= S PROVE f[n + 1].end_idx \in Int
      OBVIOUS
    <2>1. n \in Sectors /\ n <= S /\ n + 1 \in 0 .. S /\ (n + 1) - 1 = n
      BY Consts DEF Sectors
    <2>2. f[n + 1] = LogsRead(n, f[n])
      BY <1>1, <2>1 DEF Scanned
    <2>3. CurOK(f[n + 1])
      BY <1>3, <2>1, <2>2, ReadLogs
    <2> QED BY <2>3 DEF CurOK
  <1> HIDE DEF T
  <1>4. Nat \subseteq T
    BY <1>2, <1>3, Induction
  <1> QED BY <1>4, Consts DEF T, f

LEMMA ReadNoMagic ==
    ASSUME NEW s \in Sectors, ~sec[s].magic, NEW old, CurOK(old),
           NEW r, r = HeaderRead(s, old)
    PROVE  CurOK(r) /\ r.addr = s /\ r.st = old.st
  <1>1. r = [old EXCEPT !.addr = s]
    BY DEF HeaderRead, read_sector_info
  <1> QED BY <1>1 DEF CurOK

-----------------------------------------------------------------------------
(* What each action does to the flash.                                     *)

Others(x) == \A s \in Sectors : s # x => sec'[s] = sec[s]
SameBut(x, part) ==
    /\ part # "magic" => sec'[x].magic = sec[x].magic
    /\ part # "st" => sec'[x].st = sec[x].st
    /\ part # "start" => sec'[x].start = sec[x].start
    /\ part # "ends" => sec'[x].ends = sec[x].ends
    /\ part # "tsls" => sec'[x].tsls = sec[x].tsls

LEMMA FirstFree ==
    ASSUME CurOK(cur), FreeEnds # {}
    PROVE  /\ Min(FreeEnds) \in {1, 2} /\ cur.ends[Min(FreeEnds)] = "UNUSED"
           /\ Min(FreeEnds) = 2 => cur.ends[1] # "UNUSED"
           /\ cur.ends[1] = "UNUSED" => Min(FreeEnds) = 1
  <1>1. CASE cur.ends[1] = "UNUSED"
    <2>1. 1 \in FreeEnds /\ \A y \in FreeEnds : y \in {1, 2}
      BY <1>1 DEF FreeEnds
    <2>2. Min(FreeEnds) = 1
      BY <2>1 DEF Min
    <2> QED BY <1>1, <2>2
  <1>2. CASE cur.ends[1] # "UNUSED"
    <2>1. FreeEnds = {2} /\ cur.ends[2] = "UNUSED"
      BY <1>2 DEF FreeEnds
    <2>2. Min(FreeEnds) = 2
      BY <2>1 DEF Min
    <2> QED BY <1>2, <2>1, <2>2
  <1> QED BY <1>1, <1>2

LEMMA FormatEraseDoes ==
    ASSUME TypeInv, FormatErase
    PROVE  \/ NoValidEnd(fmt) /\ pc' = "hung" /\ sec' = sec
           \/ FlashOK(sec') /\ pc' = "formatted" /\ sec'[fmt] = Erased /\ Others(fmt)
  <1>1. FlashOK(sec) /\ fmt \in Sectors
    BY DEF TypeInv
  <1> QED BY <1>1, PutSector, Records DEF FormatErase, Others

LEMMA FormatMagicDoes ==
    ASSUME TypeInv, FormatMagic
    PROVE  FlashOK(sec') /\ sec'[fmt] = Clean /\ Others(fmt)
  <1>1. FlashOK(sec) /\ fmt \in Sectors
    BY DEF TypeInv
  <1> QED BY <1>1, PutSector, Records DEF FormatMagic, Others

LEMMA SealDoes ==
    ASSUME TypeInv, Seal
    PROVE  \/ FreeEnds = {} /\ pc' = "full" /\ sec' = sec
           \/ /\ FreeEnds # {} /\ pc' = "sealed" /\ FlashOK(sec') /\ Others(cur.addr) /\ SameBut(cur.addr, "ends")
              /\ sec'[cur.addr].ends[Min(FreeEnds)] =
                    [st |-> "PRE_WRITE", time |-> last_time, idx |-> At(cur.addr, cur.idx)]
              /\ \A k \in {1, 2} : k # Min(FreeEnds) => sec'[cur.addr].ends[k] = sec[cur.addr].ends[k]
  <1> DEFINE c == cur.addr
             k == Min(FreeEnds)
             n == [st |-> "PRE_WRITE", time |-> last_time, idx |-> At(c, cur.idx)]
             f == sec[c].ends
             e == [f EXCEPT ![k] = n]
             g == [sec[c] EXCEPT !.ends = e]
  <1>1. FlashOK(sec) /\ c \in Sectors /\ SectorOK(sec[c]) /\ CurOK(cur)
    BY DEF TypeInv, Seal, FlashOK, Appending
  <1>2. CASE FreeEnds = {}
    BY <1>2 DEF Seal
  <1>3. CASE FreeEnds # {}
    <2>1. k \in {1, 2} /\ EndNode(n)
      <3>1. At(c, cur.idx) \in Int
        BY <1>1, AtType DEF CurOK
      <3> QED BY <1>1, <1>3, <3>1, FirstFree DEF EndNode, EndStatuses, CurOK
    <2>2. sec' = [sec EXCEPT ![c] = g] /\ pc' = "sealed"
      BY <1>3 DEF Seal
    <2>5. f = <<f[1], f[2]>> /\ EndNode(f[1]) /\ EndNode(f[2]) /\ g = [sec[c] EXCEPT !.ends = e]
          /\ e = [f EXCEPT ![k] = n]
      BY <1>1 DEF SectorOK
    <2> HIDE DEF n, k, g, f, e
    <2>6. /\ e = <<e[1], e[2]>> /\ EndNode(e[1]) /\ EndNode(e[2])
          /\ e[k] = n /\ \A j \in {1, 2} : j # k => e[j] = f[j]
      BY <2>1, <2>5, PutEnd
    <2>3. /\ SectorOK(g) /\ g.ends = e
          /\ g.magic = sec[c].magic /\ g.st = sec[c].st /\ g.start = sec[c].start /\ g.tsls = sec[c].tsls
      BY <1>1, <2>5, <2>6, PutEnds
    <2>4. FlashOK(sec') /\ sec'[c] = g /\ \A s \in Sectors : s # c => sec'[s] = sec[s]
      BY <1>1, <2>2, <2>3, PutSector
    <2> QED BY <1>3, <2>2, <2>3, <2>4, <2>6 DEF Others, SameBut, n, k, f
  <1> QED BY <1>2, <1>3

LEMMA SealedDoes ==
    ASSUME TypeInv, FreeEnds # {}, Sealed
    PROVE  /\ FlashOK(sec') /\ Others(cur.addr) /\ SameBut(cur.addr, "ends")
           /\ sec'[cur.addr].ends[Min(FreeEnds)].st = "WRITE"
           /\ sec'[cur.addr].ends[Min(FreeEnds)].time = sec[cur.addr].ends[Min(FreeEnds)].time
           /\ sec'[cur.addr].ends[Min(FreeEnds)].idx = sec[cur.addr].ends[Min(FreeEnds)].idx
           /\ \A k \in {1, 2} : k # Min(FreeEnds) => sec'[cur.addr].ends[k] = sec[cur.addr].ends[k]
  <1> DEFINE c == cur.addr
             k == Min(FreeEnds)
             n == [sec[c].ends[k] EXCEPT !.st = "WRITE"]
             f == sec[c].ends
             e == [f EXCEPT ![k] = n]
             g == [sec[c] EXCEPT !.ends = e]
  <1>1. FlashOK(sec) /\ c \in Sectors /\ SectorOK(sec[c]) /\ CurOK(cur)
    BY DEF TypeInv, Sealed, FlashOK, Appending
  <1>2. k \in {1, 2}
    BY <1>1, FirstFree
  <1>3. sec' = [sec EXCEPT ![c] = g] /\ pc' = "full"
    BY DEF Sealed
  <1> HIDE DEF k
  <1>4. EndNode(sec[c].ends[k])
    BY <1>1, <1>2 DEF SectorOK
  <1>5. EndNode(n) /\ n.st = "WRITE" /\ n.time = sec[c].ends[k].time /\ n.idx = sec[c].ends[k].idx
    BY <1>4 DEF EndNode, EndStatuses
  <1>8. f = <<f[1], f[2]>> /\ EndNode(f[1]) /\ EndNode(f[2]) /\ g = [sec[c] EXCEPT !.ends = e]
        /\ e = [f EXCEPT ![k] = n]
    BY <1>1 DEF SectorOK
  <1> HIDE DEF n, g, f, e
  <1>9. /\ e = <<e[1], e[2]>> /\ EndNode(e[1]) /\ EndNode(e[2])
        /\ e[k] = n /\ \A j \in {1, 2} : j # k => e[j] = f[j]
    BY <1>2, <1>5, <1>8, PutEnd
  <1>6. /\ SectorOK(g) /\ g.ends = e
        /\ g.magic = sec[c].magic /\ g.st = sec[c].st /\ g.start = sec[c].start /\ g.tsls = sec[c].tsls
    BY <1>1, <1>8, <1>9, PutEnds
  <1>7. FlashOK(sec') /\ sec'[c] = g /\ \A s \in Sectors : s # c => sec'[s] = sec[s]
    BY <1>1, <1>3, <1>6, PutSector
  <1> QED BY <1>5, <1>6, <1>7, <1>9 DEF Others, SameBut, k, f

LEMMA StatusDoes ==
    ASSUME TypeInv, cur.addr \in Sectors, NEW v \in Statuses, sec' = [sec EXCEPT ![cur.addr].st = v]
    PROVE  FlashOK(sec') /\ Others(cur.addr) /\ SameBut(cur.addr, "st") /\ sec'[cur.addr].st = v
  <1> DEFINE c == cur.addr
             g == [sec[c] EXCEPT !.st = v]
  <1>1. FlashOK(sec) /\ c \in Sectors /\ SectorOK(sec[c])
    BY DEF TypeInv, FlashOK
  <1>2. /\ SectorOK(g) /\ g.st = v
        /\ g.magic = sec[c].magic /\ g.start = sec[c].start /\ g.ends = sec[c].ends /\ g.tsls = sec[c].tsls
    BY <1>1, PutStatus
  <1>3. sec' = [sec EXCEPT ![c] = g]
    OBVIOUS
  <1> HIDE DEF g
  <1>4. FlashOK(sec') /\ sec'[c] = g /\ \A s \in Sectors : s # c => sec'[s] = sec[s]
    BY <1>1, <1>2, <1>3, PutSector
  <1> QED BY <1>2, <1>4 DEF Others, SameBut

LEMMA StartDoes ==
    ASSUME TypeInv, cur.addr \in Sectors, NEW v, sec' = [sec EXCEPT ![cur.addr].start = v]
    PROVE  FlashOK(sec') /\ Others(cur.addr) /\ SameBut(cur.addr, "start") /\ sec'[cur.addr].start = v
  <1> DEFINE c == cur.addr
             g == [sec[c] EXCEPT !.start = v]
  <1>1. FlashOK(sec) /\ c \in Sectors /\ SectorOK(sec[c])
    BY DEF TypeInv, FlashOK
  <1>2. /\ SectorOK(g) /\ g.start = v
        /\ g.magic = sec[c].magic /\ g.st = sec[c].st /\ g.ends = sec[c].ends /\ g.tsls = sec[c].tsls
    BY <1>1, PutStart
  <1>3. sec' = [sec EXCEPT ![c] = g]
    OBVIOUS
  <1> HIDE DEF g
  <1>4. FlashOK(sec') /\ sec'[c] = g /\ \A s \in Sectors : s # c => sec'[s] = sec[s]
    BY <1>1, <1>2, <1>3, PutSector
  <1> QED BY <1>2, <1>4 DEF Others, SameBut

LEMMA LogsDo ==
    ASSUME TypeInv, NEW x \in Sectors, NEW es \in Seq(Entries), NEW g, g = [sec[x] EXCEPT !.tsls = es],
           sec' = [sec EXCEPT ![x] = g]
    PROVE  FlashOK(sec') /\ Others(x) /\ SameBut(x, "tsls") /\ sec'[x].tsls = es
  <1>1. FlashOK(sec) /\ SectorOK(sec[x])
    BY DEF TypeInv, FlashOK
  <1>2. /\ SectorOK(g) /\ g.tsls = es
        /\ g.magic = sec[x].magic /\ g.start = sec[x].start /\ g.ends = sec[x].ends /\ g.st = sec[x].st
    BY <1>1, PutLogs
  <1>4. FlashOK(sec') /\ sec'[x] = g /\ \A s \in Sectors : s # x => sec'[s] = sec[s]
    BY <1>1, <1>2, PutSector
  <1> QED BY <1>2, <1>4 DEF Others, SameBut

LEMMA EraseDoes ==
    ASSUME TypeInv, cur.addr \in Sectors, NEW h, h \in {Clean, Erased}, sec' = [sec EXCEPT ![cur.addr] = h]
    PROVE  FlashOK(sec') /\ Others(cur.addr) /\ sec'[cur.addr] = h
  <1>1. FlashOK(sec) /\ SectorOK(h)
    BY Records DEF TypeInv
  <1> QED BY <1>1, PutSector DEF Others

LEMMA NowhereDoes ==
    ASSUME TypeInv, EntryNowhere
    PROVE  FlashOK(sec') /\ Others(0) /\ SameBut(0, "magic") /\ ~sec'[0].magic
  <1> DEFINE g == [sec[0] EXCEPT !.magic = FALSE]
  <1>1. FlashOK(sec) /\ 0 \in Sectors /\ SectorOK(sec[0])
    BY SectorFacts DEF TypeInv, FlashOK
  <1>2. /\ SectorOK(g) /\ g.magic = FALSE
        /\ g.st = sec[0].st /\ g.start = sec[0].start /\ g.ends = sec[0].ends /\ g.tsls = sec[0].tsls
    BY <1>1, PutMagic
  <1>3. sec' = [sec EXCEPT ![0] = g]
    BY DEF EntryNowhere
  <1> HIDE DEF g
  <1>4. FlashOK(sec') /\ sec'[0] = g /\ \A s \in Sectors : s # 0 => sec'[s] = sec[s]
    BY <1>1, <1>2, <1>3, PutSector
  <1> QED BY <1>2, <1>4 DEF Others, SameBut

LEMMA EntryDoes ==
    ASSUME TypeInv, LogInv, Entry
    PROVE  /\ cur.addr \in Sectors /\ FlashOK(sec') /\ Others(cur.addr) /\ SameBut(cur.addr, "tsls")
           /\ Placed(sec'[cur.addr].tsls) /\ Begun(cur, op, sec'[cur.addr].tsls)
  <1> DEFINE c == cur.addr
             es == sec[c].tsls
             e == [st |-> "PRE_WRITE", time |-> op.time, len |-> op.len, at |-> cur.data - op.len]
             fs == Append(es, e)
  <1>1. c \in Sectors /\ SectorOK(sec[c]) /\ op.time \in Times /\ op.len \in Lens
    BY DEF TypeInv, CurOK, Entry, FlashOK, Appending
  <1>2. es \in Seq(Entries)
    BY <1>1 DEF SectorOK
  <1>3. On(cur, es) /\ cur.remain >= Need(op.len) /\ Placed(es)
    BY <1>1 DEF LogInv, Entry, Current
  <1>4. Left(es) >= Need(op.len) /\ e = [st |-> "PRE_WRITE", time |-> op.time, len |-> op.len, at |-> Cap - DataLen(es) - op.len]
    BY <1>3 DEF On
  <1>5. e \in Entries /\ Placed(fs)
    BY <1>1, <1>2, <1>3, <1>4, MorePlaced
  <1>6. /\ fs \in Seq(Entries) /\ Len(fs) = Len(es) + 1 /\ fs[Len(es) + 1] = e /\ fs # << >>
        /\ \A i \in 1 .. Len(es) : fs[i] = es[i]
    BY <1>2, <1>5, AppendProperties
  <1>7. sec' = [sec EXCEPT ![c] = [sec[c] EXCEPT !.tsls = fs]]
    BY DEF Entry
  <1> HIDE DEF fs, e
  <1>8. FlashOK(sec') /\ Others(c) /\ SameBut(c, "tsls") /\ sec'[c].tsls = fs
    BY <1>1, <1>6, <1>7, LogsDo
  <1>9. SubSeq(fs, 1, Len(fs) - 1) = es
    <2> DEFINE a == SubSeq(fs, 1, Len(fs) - 1)
    <2>1. Len(es) \in Nat /\ Len(fs) - 1 = Len(es)
      BY <1>2, <1>6
    <2>2. a \in Seq(Entries) /\ Len(a) = Len(es) /\ \A i \in 1 .. Len(es) : a[i] = fs[i]
      BY <1>6, <2>1, FrontIs
    <2> HIDE DEF a
    <2> QED BY <1>2, <1>6, <2>2, SeqEqual DEF a
  <1>10. Begun(cur, op, fs)
    BY <1>3, <1>4, <1>6, <1>9 DEF Begun, e
  <1> QED BY <1>1, <1>5, <1>8, <1>10

LEMMA CommitDoes ==
    ASSUME TypeInv, LogInv, Commit
    PROVE  /\ FlashOK(sec') /\ Others(cur.addr) /\ SameBut(cur.addr, "tsls")
           /\ Placed(sec'[cur.addr].tsls) /\ sec'[cur.addr].tsls # << >>
           /\ CurOK(cur') /\ cur'.addr = cur.addr /\ Current(cur', sec'[cur.addr]) /\ cur'.st = "USING"
           /\ cur'.start = cur.start /\ cur'.end = op.time /\ cur'.end_idx = At(cur.addr, Len(sec'[cur.addr].tsls))
           /\ TimeOf(sec'[cur.addr].tsls[Len(sec'[cur.addr].tsls)]) = op.time
  <1> DEFINE c == cur.addr
             es == sec[c].tsls
             m == Len(es)
             front == SubSeq(es, 1, m - 1)
             e == [es[m] EXCEPT !.st = "WRITE"]
             fs == [es EXCEPT ![m] = e]
  <1>1. c \in Sectors /\ SectorOK(sec[c]) /\ op.time \in Times /\ op.len \in Lens /\ CurOK(cur)
    BY DEF TypeInv, Commit, FlashOK, Appending
  <1>2. es \in Seq(Entries) /\ Placed(es)
    BY <1>1 DEF SectorOK, LogInv
  <1>3. /\ es # << >> /\ On(cur, front) /\ Left(front) >= Need(op.len)
        /\ es[m] = [st |-> "PRE_WRITE", time |-> op.time, len |-> op.len, at |-> cur.data - op.len]
    BY <1>1 DEF LogInv, Commit, Begun
  <1>4. /\ fs \in Seq(Entries) /\ Len(fs) = m /\ Placed(fs)
        /\ m = cur.idx + 1 /\ Len(fs) = cur.idx + 1
        /\ Cap - DataLen(fs) = cur.data - op.len /\ Left(fs) = cur.remain - Need(op.len)
    <2>1. m \in Nat /\ m >= 1 /\ m \in 1 .. Len(es) /\ es[m] \in Entries
      BY <1>2, <1>3, EmptySeq, ElementOfSeq
    <2>2. front \in Seq(Entries) /\ Len(front) = m - 1
      BY <1>2, <1>3, FrontIs
    <2>3. cur.idx = m - 1 /\ cur.data = Cap - DataLen(front) /\ cur.remain = Left(front)
      BY <1>3, <2>2 DEF On
    <2>4. e \in Entries /\ LenOf(e) = op.len /\ e.len = op.len /\ e.at = es[m].at
      BY <1>3, <2>1 DEF Entries, LenOf, Unfinished
    <2>5. es[m].len = op.len /\ es[m].at = Cap - DataLen(front) - op.len
      BY <1>3, <2>3
    <2>6. fs \in Seq(Entries) /\ Len(fs) = m
      BY <1>2, <2>1, <2>4, ExceptSeq
    <2> HIDE DEF e, front
    <2>7. fs = Append(front, e)
      BY <1>2, <1>3, <2>4, LastPut DEF front
    <2>8. es = Append(front, es[m])
      <3>1. [es EXCEPT ![m] = es[m]] = es
        BY <1>2, <2>1
      <3> QED BY <1>2, <1>3, <2>1, <3>1, LastPut DEF front
    <2> DEFINE x == es[m]
    <2>9. Placed(Append(front, x)) /\ x.len = op.len /\ x.at = Cap - DataLen(front) - op.len /\ x \in Entries
          /\ e.at = x.at
      BY <1>2, <2>1, <2>4, <2>5, <2>8
    <2> HIDE DEF x
    <2>10. /\ Placed(Append(front, e))
           /\ Cap - DataLen(Append(front, e)) = Cap - DataLen(front) - op.len
           /\ Left(Append(front, e)) = Left(front) - Need(op.len)
      BY <1>1, <1>3, <2>2, <2>4, <2>9, CommitPlaced
    <2>11. m = cur.idx + 1
      BY <2>1, <2>3
    <2> QED BY <2>3, <2>6, <2>7, <2>10, <2>11
  <1>5. m \in 1 .. Len(es) /\ e.st = "WRITE" /\ e.time = op.time
    BY <1>2, <1>3, EmptySeq
  <1>6. fs[m] = e /\ fs # << >>
    BY <1>2, <1>4, <1>5
  <1>7. sec' = [sec EXCEPT ![c] = [sec[c] EXCEPT !.tsls = fs]]
    <2>1. sec' = [sec EXCEPT ![c].tsls[cur.idx + 1].st = "WRITE"]
      BY DEF Commit
    <2> QED BY <1>4, <2>1
  <1> HIDE DEF fs
  <1>8. FlashOK(sec') /\ Others(c) /\ SameBut(c, "tsls") /\ sec'[c].tsls = fs
    BY <1>1, <1>4, <1>7, LogsDo
  <1>9. TimeOf(fs[Len(fs)]) = op.time
    BY <1>4, <1>5, <1>6 DEF TimeOf, Unfinished
  <1>10. /\ cur' = [cur EXCEPT !.end = op.time, !.end_idx = At(c, cur.idx + 1), !.idx = cur.idx + 1,
                               !.data = cur.data - op.len, !.remain = cur.remain - Need(op.len)]
    BY DEF Commit, Counted
  <1>11. op.len \in Int /\ Need(op.len) \in Int
    BY <1>1, Consts DEF Need
  <1>12. /\ CurOK(cur') /\ cur'.addr = c /\ cur'.st = cur.st /\ cur'.start = cur.start /\ cur'.ends = cur.ends
         /\ cur'.end = op.time /\ cur'.end_idx = At(c, cur.idx + 1) /\ cur'.idx = cur.idx + 1
         /\ cur'.data = cur.data - op.len /\ cur'.remain = cur.remain - Need(op.len)
    <2> DEFINE k == cur.idx + 1
               a == At(c, k)
               d == cur.data - op.len
               r == cur.remain - Need(op.len)
    <2>1. k \in Int /\ d \in Int /\ r \in Int /\ a \in Int
      BY <1>1, <1>11, AtType DEF CurOK
    <2>2. cur' = [cur EXCEPT !.end = op.time, !.end_idx = a, !.idx = k, !.data = d, !.remain = r]
      BY <1>10
    <2> HIDE DEF k, a, d, r
    <2>3. /\ CurOK(cur') /\ cur'.addr = c /\ cur'.st = cur.st /\ cur'.start = cur.start /\ cur'.ends = cur.ends
          /\ cur'.end = op.time /\ cur'.end_idx = a /\ cur'.idx = k /\ cur'.data = d /\ cur'.remain = r
      BY <1>1, <2>1, <2>2 DEF CurOK
    <2> QED BY <2>3 DEF k, a, d, r
  <1>13. On(cur', fs)
    BY <1>4, <1>12 DEF On
  <1>14. cur.st = "USING" /\ sec[c].st = "USING" /\ SameEnds(cur, sec[c])
    BY DEF LogInv, Commit
  <1>15. Current(cur', sec'[c])
    BY <1>8, <1>12, <1>13, <1>14 DEF Current, SameEnds, SameBut
  <1> QED BY <1>4, <1>6, <1>8, <1>9, <1>12, <1>14, <1>15

LEMMA SetStatusDoes ==
    ASSUME TypeInv, LogInv, NEW s \in Sectors, NEW i \in 1 .. Cap, NEW st \in {"USER_STATUS1", "DELETED"},
           fdb_tsl_set_status(s, i, st)
    PROVE  /\ FlashOK(sec') /\ Others(s) /\ SameBut(s, "tsls") /\ Placed(sec'[s].tsls)
           /\ sec[s].tsls # << >> /\ sec'[s].tsls # << >>
           /\ Len(sec'[s].tsls) = Len(sec[s].tsls) /\ DataLen(sec'[s].tsls) = DataLen(sec[s].tsls)
           /\ TimeOf(sec'[s].tsls[Len(sec[s].tsls)]) = TimeOf(sec[s].tsls[Len(sec[s].tsls)])
  <1> DEFINE es == sec[s].tsls
             fs == [es EXCEPT ![i].st = st]
  <1>1. SectorOK(sec[s]) /\ i \in 1 .. Len(es) /\ ~Unfinished(es[i]) /\ Placed(es)
    BY DEF TypeInv, FlashOK, fdb_tsl_set_status, LogInv, SectorOK
  <1>2. es \in Seq(Entries)
    BY <1>1 DEF SectorOK
  <1>3. /\ fs \in Seq(Entries) /\ Len(fs) = Len(es) /\ DataLen(fs) = DataLen(es) /\ Placed(fs)
        /\ \A j \in 1 .. Len(es) : TimeOf(fs[j]) = TimeOf(es[j])
    BY <1>1, <1>2, StatusPlaced
  <1>4. sec' = [sec EXCEPT ![s] = [sec[s] EXCEPT !.tsls = fs]]
    BY DEF fdb_tsl_set_status
  <1> HIDE DEF fs
  <1>5. FlashOK(sec') /\ Others(s) /\ SameBut(s, "tsls") /\ sec'[s].tsls = fs
    BY <1>3, <1>4, LogsDo
  <1>6. Len(es) \in Nat /\ Len(es) >= 1 /\ Len(es) \in 1 .. Len(es)
    BY <1>1, <1>2
  <1>7. es # << >> /\ fs # << >>
    BY <1>3, <1>6
  <1> QED BY <1>3, <1>5, <1>6, <1>7

-----------------------------------------------------------------------------
(* The least and the greatest of a set of sectors.                         *)

LEMMA MinIs ==
    ASSUME NEW T, T \subseteq Sectors, T # {}
    PROVE  Min(T) \in T /\ \A y \in T : Min(T) <= y
  <1>1. T \subseteq Nat
    BY Consts DEF Sectors
  <1>2. \E x \in T : \A y \in T : x <= y
    BY <1>1, HasLeast
  <1> QED BY <1>2 DEF Min

LEMMA MaxIs ==
    ASSUME NEW T, T \subseteq Sectors, T # {}
    PROVE  Max(T) \in T /\ \A y \in T : Max(T) >= y
  <1> DEFINE U == {S - 1 - t : t \in T}
  <1>0. \A t \in T : S - 1 - t \in Nat
    BY Consts DEF Sectors
  <1>1. U \subseteq Nat /\ U # {}
    BY <1>0
  <1>2. PICK u \in U : \A v \in U : u <= v
    BY <1>1, HasLeast
  <1>3. PICK x \in T : u = S - 1 - x
    BY <1>2
  <1>4. \A y \in T : S - 1 - y \in U
    OBVIOUS
  <1> HIDE DEF U
  <1>5. \A y \in T : x >= y
    <2> TAKE y \in T
    <2>1. S - 1 - x <= S - 1 - y
      BY <1>2, <1>3, <1>4
    <2> QED BY <2>1, Consts DEF Sectors
  <1>6. \E z \in T : \A y \in T : z >= y
    BY <1>5
  <1> QED BY <1>6 DEF Max

-----------------------------------------------------------------------------
(* What fdb_tsdb_init finds when every sector passes the check.            *)

LEMMA BootIs ==
    ASSUME TypeInv, Failing = {}, NEW g
    PROVE  /\ \A s \in Sectors : sec[s].magic
           /\ BootSector \in Sectors \cup {NoSector} /\ BootOldest \in Sectors \cup {NoSector}
           /\ BootSector = NoSector => InUse = {} /\ Empties = {} /\ BootInfo(g) = [Zero EXCEPT !.addr = NoSector]
           /\ BootSector # NoSector =>
                 /\ sec[BootSector].st \in {"USING", "EMPTY"}
                 /\ BootInfo(g) = LogsRead(BootSector, ScanInfo(g)[BootSector + 1])
  <1>1. \A s \in Sectors : sec[s].magic
    BY DEF Failing
  <1>2. InUse \subseteq Sectors /\ Empties \subseteq Sectors
    BY DEF InUse, Empties
  <1>3. /\ InUse # {} => Min(InUse) \in InUse
        /\ Empties # {} => Min(Empties) \in Empties /\ Max(Empties) \in Empties
    BY <1>2, MinIs, MaxIs
  <1>4. BootSector \in Sectors \cup {NoSector}
    BY <1>2, <1>3 DEF BootSector
  <1>5. Latest \in Sectors \cup {NoSector}
    BY <1>2, <1>3 DEF Latest
  <1>6. BootOldest \in Sectors \cup {NoSector}
    BY <1>5, SectorFacts DEF BootOldest
  <1>7. BootSector = NoSector => InUse = {} /\ Empties = {} /\ BootInfo(g) = [Zero EXCEPT !.addr = NoSector]
    BY <1>2, <1>3, SectorFacts DEF BootSector, BootInfo
  <1>8. BootSector # NoSector =>
           /\ sec[BootSector].st \in {"USING", "EMPTY"}
           /\ BootInfo(g) = LogsRead(BootSector, ScanInfo(g)[BootSector + 1])
    <2>1. BootSector # NoSector => BootSector \in InUse \cup Empties
      BY <1>3 DEF BootSector
    <2> QED BY <2>1 DEF InUse, Empties, BootInfo, LogsRead
  <1> QED BY <1>1, <1>4, <1>6, <1>7, <1>8

LEMMA LocalIs == ASSUME NEW g \in Stack PROVE Local(g).end_idx \in Int
  BY Consts DEF Stack, Local, Zero

LEMMA BootReads ==
    ASSUME TypeInv, LogInv, Failing = {}, NEW g \in Stack, NEW r, r = BootInfo(g)
    PROVE  /\ CurOK(r) /\ r.addr = BootSector
           /\ BootSector = NoSector => r.st = "UNUSED"
           /\ BootSector # NoSector =>
                 /\ r.st = sec[BootSector].st /\ r.st \in {"USING", "EMPTY"} /\ Current(r, sec[BootSector])
                 /\ r.start = sec[BootSector].start
                 /\ r.st = "EMPTY" => r.remain = Cap
                 /\ r.st = "USING" /\ sec[BootSector].tsls # << >> =>
                       /\ r.end = TimeOf(sec[BootSector].tsls[Len(sec[BootSector].tsls)])
                       /\ r.end_idx = At(BootSector, Len(sec[BootSector].tsls))
  <1> DEFINE b == BootSector
             old == ScanInfo(g)[b + 1]
  <1>1. CASE b = NoSector
    <2>1. r = [Zero EXCEPT !.addr = NoSector]
      BY <1>1, BootIs
    <2> QED BY <1>1, <2>1 DEF Zero, CurOK, Statuses, EndStatuses
  <1>2. CASE b # NoSector
    <2>1. b \in Sectors /\ sec[b].magic /\ sec[b].st \in {"USING", "EMPTY"} /\ r = LogsRead(b, old)
      BY <1>2, BootIs
    <2>2. FlashOK(sec) /\ Unwritten(sec[b])
      BY <2>1 DEF TypeInv, LogInv
    <2>6. old.end_idx \in Int
      <3>1. \A s \in Sectors : sec[s].magic
        BY BootIs
      <3>2. b + 1 \in 0 .. S
        BY <2>1, Consts DEF Sectors
      <3> QED BY <2>2, <3>1, <3>2, ScanIs, LocalIs
    <2> HIDE DEF b, old
    <2>3. /\ CurOK(r) /\ r.addr = b /\ r.st = sec[b].st /\ r.start = sec[b].start /\ SameEnds(r, sec[b])
          /\ r.st = "USING" =>
                /\ On(r, sec[b].tsls)
                /\ sec[b].tsls # << >> =>
                      r.end = TimeOf(sec[b].tsls[Len(sec[b].tsls)]) /\ r.end_idx = At(b, Len(sec[b].tsls))
          /\ r.st # "USING" => r.idx = 0 /\ r.data = Cap /\ r.remain = Cap
      BY <2>1, <2>2, <2>6, ReadLogs
    <2>4. r.st = "EMPTY" => On(r, sec[b].tsls)
      BY <2>2, <2>3, EmptyPlaced DEF Unwritten
    <2>5. Current(r, sec[b])
      BY <2>1, <2>3, <2>4 DEF Current
    <2> QED BY <1>2, <2>1, <2>3, <2>5 DEF b
  <1> QED BY <1>1, <1>2

-----------------------------------------------------------------------------
(* The types.                                                              *)

LEMMA TypeInit == Init => TypeInv
  <1> SUFFICES ASSUME Init PROVE TypeInv
    OBVIOUS
  <1>1. sec = [s \in Sectors |-> Erased]
    BY DEF Init
  <1>2. FlashOK(sec)
    BY <1>1, Records DEF FlashOK
  <1>3. CurOK(cur)
    BY Records DEF Init
  <1>4. op \in [time : Int, len : Nat]
    BY DEF Init, NoOp, NoTime
  <1>5. crashes \in 0 .. MaxCrashes /\ fmt \in Sectors
    BY SectorFacts, Consts DEF Init
  <1>6. pc = "boot" /\ op = NoOp /\ fmt = 0 /\ oldest = NoSector /\ rollover \in BOOLEAN
    BY DEF Init
  <1> QED BY <1>2, <1>3, <1>4, <1>5, <1>6 DEF TypeInv, Formatting, Appending

\* What becomes of cur_sec in tsl_format_all, and in format_sector.
Formatted(c, a, b) ==
    [c EXCEPT !.st = "EMPTY", !.start = NoTime, !.data = Cap, !.remain = Cap, !.end = a, !.end_idx = b]
Emptied(c) ==
    [c EXCEPT !.st = "EMPTY", !.start = NoTime, !.ends = <<"UNUSED", "UNUSED">>, !.idx = 0, !.data = Cap, !.remain = Cap]

LEMMA FormattedCur ==
    ASSUME NEW c, CurOK(c), NEW a, NEW b \in Int, NEW r, r = Formatted(c, a, b)
    PROVE  /\ CurOK(r) /\ r.addr = c.addr /\ r.st = "EMPTY" /\ r.start = NoTime /\ r.ends = c.ends
           /\ r.idx = c.idx /\ r.data = Cap /\ r.remain = Cap
  <1> USE DEF Formatted
  <1>1. r.addr = c.addr /\ r.st = "EMPTY" /\ r.start = NoTime /\ r.ends = c.ends
        /\ r.idx = c.idx /\ r.data = Cap /\ r.remain = Cap /\ r.end = a /\ r.end_idx = b
    BY DEF CurOK
  <1>2. r = [addr |-> c.addr, st |-> "EMPTY", start |-> NoTime, end |-> a, end_idx |-> b,
            ends |-> c.ends, idx |-> c.idx, data |-> Cap, remain |-> Cap]
    BY DEF CurOK
  <1>3. /\ c.addr \in Sectors \cup {NoSector} /\ c.ends = <<c.ends[1], c.ends[2]>> /\ c.ends[1] \in EndStatuses
        /\ c.ends[2] \in EndStatuses /\ c.idx \in Int /\ Cap \in Int /\ "EMPTY" \in Statuses
    BY Consts DEF CurOK, Statuses
  <1>6. r = [addr |-> r.addr, st |-> r.st, start |-> r.start, end |-> r.end, end_idx |-> r.end_idx,
            ends |-> r.ends, idx |-> r.idx, data |-> r.data, remain |-> r.remain]
    BY <1>1, <1>2
  <1>7. /\ r.addr \in Sectors \cup {NoSector} /\ r.st \in Statuses
         /\ r.ends = <<r.ends[1], r.ends[2]>> /\ r.ends[1] \in EndStatuses /\ r.ends[2] \in EndStatuses
         /\ r.end_idx \in Int /\ r.idx \in Int /\ r.data \in Int /\ r.remain \in Int
    BY <1>1, <1>3
  <1>8. CurOK(r)
    BY <1>6, <1>7, Zenon DEF CurOK
  <1> QED BY <1>1, <1>8

LEMMA ErasedCur ==
    ASSUME NEW c, CurOK(c), NEW r, r = Emptied(c)
    PROVE  /\ CurOK(r) /\ r.addr = c.addr /\ r.st = "EMPTY" /\ r.start = NoTime
           /\ r.ends[1] = "UNUSED" /\ r.ends[2] = "UNUSED" /\ r.idx = 0 /\ r.data = Cap /\ r.remain = Cap
  <1> USE DEF Emptied
  <1> DEFINE v == <<"UNUSED", "UNUSED">>
  <1>1. r.addr = c.addr /\ r.st = "EMPTY" /\ r.start = NoTime /\ r.ends = v
        /\ r.idx = 0 /\ r.data = Cap /\ r.remain = Cap /\ r.end = c.end /\ r.end_idx = c.end_idx
    BY DEF CurOK
  <1>2. r = [addr |-> c.addr, st |-> "EMPTY", start |-> NoTime, end |-> c.end, end_idx |-> c.end_idx,
            ends |-> v, idx |-> 0, data |-> Cap, remain |-> Cap]
    BY DEF CurOK
  <1>3. v = <<v[1], v[2]>> /\ v[1] = "UNUSED" /\ v[2] = "UNUSED"
    OBVIOUS
  <1>4. /\ c.addr \in Sectors \cup {NoSector} /\ v[1] \in EndStatuses /\ v[2] \in EndStatuses
        /\ 0 \in Int /\ Cap \in Int /\ c.end_idx \in Int /\ "EMPTY" \in Statuses
    BY <1>3, Consts DEF CurOK, Statuses, EndStatuses
  <1>6. r = [addr |-> r.addr, st |-> r.st, start |-> r.start, end |-> r.end, end_idx |-> r.end_idx,
            ends |-> r.ends, idx |-> r.idx, data |-> r.data, remain |-> r.remain]
    BY <1>1, <1>2
  <1>7. /\ r.addr \in Sectors \cup {NoSector} /\ r.st \in Statuses
         /\ r.ends = <<r.ends[1], r.ends[2]>> /\ r.ends[1] \in EndStatuses /\ r.ends[2] \in EndStatuses
         /\ r.end_idx \in Int /\ r.idx \in Int /\ r.data \in Int /\ r.remain \in Int
    BY <1>1, <1>3, <1>4
  <1>8. CurOK(r)
    BY <1>6, <1>7, Zenon DEF CurOK
  <1> QED BY <1>1, <1>3, <1>8

LEMMA OpTypes ==
    /\ NoOp \in [time : Int, len : Nat] /\ CleanOp \in [time : Int, len : Nat]
    /\ \A t \in Times, n \in Lens : [time |-> t, len |-> n] \in [time : Int, len : Nat]
  BY Consts DEF NoOp, CleanOp, NoTime

LEMMA TypeBoot ==
    ASSUME TypeInv, LogInv, NEW g \in Stack, Boot(g)
    PROVE  TypeInv'
  <1>1. pc = "boot" /\ UNCHANGED <<sec, op, fmt, crashes>> /\ rollover' = TRUE
    BY DEF Boot, hist
  <1>2. CASE Hangs \/ Failing # {}
    <2>1. UNCHANGED <<cur, oldest>> /\ pc' \in {"hung", "format"}
      BY <1>2 DEF Boot
    <2>2. op = NoOp
      BY <1>1 DEF TypeInv
    <2> QED BY <1>1, <2>1, <2>2 DEF TypeInv, Formatting, Appending
  <1>3. CASE ~(Hangs \/ Failing # {})
    <2>1. pc' = "control" /\ cur' = BootInfo(g) /\ oldest' = BootOldest
      BY <1>3 DEF Boot
    <2>2. CurOK(cur') /\ oldest' \in Sectors \cup {NoSector}
      BY <1>3, <2>1, BootReads, BootIs
    <2> QED BY <1>1, <2>1, <2>2 DEF TypeInv, Formatting, Appending
  <1> QED BY <1>2, <1>3

LEMMA TypeFormat ==
    ASSUME TypeInv, LogInv, FormatErase \/ FormatMagic
    PROVE  TypeInv'
  <1>1. CASE FormatErase
    <2>1. UNCHANGED <<cur, oldest, rollover, op, fmt, crashes>> /\ pc = "format"
      BY <1>1 DEF FormatErase, ram, hist
    <2>2. FlashOK(sec') /\ pc' \in {"hung", "formatted"}
      BY <1>1, FormatEraseDoes DEF TypeInv
    <2> QED BY <2>1, <2>2 DEF TypeInv, Formatting, Appending
  <1>2. CASE FormatMagic
    <2>1. UNCHANGED <<rollover, crashes>> /\ pc = "formatted" /\ fmt \in Sectors /\ CurOK(cur)
      BY <1>2 DEF FormatMagic, hist, TypeInv
    <2>2. FlashOK(sec')
      BY <1>2, FormatMagicDoes
    <2>3. CASE fmt < S - 1
      <3>1. fmt' = fmt + 1 /\ pc' = "format" /\ UNCHANGED <<cur, oldest, op>>
        BY <1>2, <2>3 DEF FormatMagic
      <3>2. fmt' \in Sectors
        BY <2>1, <2>3, <3>1, Consts DEF Sectors
      <3> QED BY <2>1, <2>2, <3>1, <3>2 DEF TypeInv, Formatting, Appending
    <2>4. CASE ~(fmt < S - 1)
      <3>1. /\ pc' \in {"idle", "control"} /\ oldest' = 0 /\ fmt' = 0 /\ op' = NoOp
            /\ cur' = Formatted(Zero, cur.end, cur.end_idx)
        BY <1>2, <2>4 DEF FormatMagic, Formatted
      <3>2. CurOK(cur')
        <4>1. cur.end_idx \in Int /\ CurOK(Zero)
          BY <2>1, Records DEF CurOK
        <4> QED BY <3>1, <4>1, FormattedCur
      <3> QED BY <2>1, <2>2, <3>1, <3>2, SectorFacts, OpTypes DEF TypeInv, Formatting, Appending
    <2> QED BY <2>3, <2>4
  <1> QED BY <1>1, <1>2

LEMMA TypeStart ==
    ASSUME TypeInv, LogInv, NEW t \in Times, NEW n \in Lens, fdb_tsl_append(t, n)
    PROVE  TypeInv'
  <1>1. UNCHANGED <<sec, cur, oldest, rollover, fmt, crashes>> /\ pc = "idle"
    BY DEF fdb_tsl_append, ram, hist
  <1>2. pc' \in {"idle", "seal", "using", "entry"}
    BY DEF fdb_tsl_append, Begin
  <1>3. pc' \in {"seal", "using"} => cur.addr \in Sectors
    <2>1. pc' \in {"seal", "using"} => cur.st # "UNUSED"
      BY DEF fdb_tsl_append, Begin
    <2> QED BY <1>1, <2>1 DEF LogInv, TypeInv, CurOK
  <1>4. op' = IF pc' = "idle" THEN NoOp ELSE [time |-> t, len |-> n]
    BY DEF fdb_tsl_append, Enter
  <1>5. op' \in [time : Int, len : Nat] /\ (pc' # "idle" => op'.time = t /\ op'.len = n)
    BY <1>4, OpTypes
  <1> QED BY <1>1, <1>2, <1>3, <1>5 DEF TypeInv, Formatting, Appending

LEMMA TypeAppend ==
    ASSUME TypeInv, LogInv,
           Seal \/ Sealed \/ MarkFull \/ NextSector \/ Erase \/ Magic \/ MarkUsing \/ StartTime \/ Entry
    PROVE  TypeInv'
  <1>1. CASE Seal
    <2>1. UNCHANGED <<cur, oldest, rollover, op, fmt, crashes>> /\ pc = "seal"
      BY <1>1 DEF Seal, ram, hist
    <2>2. FlashOK(sec') /\ pc' \in {"sealed", "full"}
      BY <1>1, SealDoes DEF TypeInv
    <2> QED BY <2>1, <2>2 DEF TypeInv, Formatting, Appending
  <1>2. CASE Sealed
    <2>1. UNCHANGED <<cur, oldest, rollover, op, fmt, crashes>> /\ pc = "sealed" /\ pc' = "full"
      BY <1>2 DEF Sealed, ram, hist
    <2>2. FlashOK(sec')
      BY <1>2, <2>1, SealedDoes DEF LogInv
    <2> QED BY <2>1, <2>2 DEF TypeInv, Formatting, Appending
  <1>3. CASE MarkFull
    <2>1. /\ UNCHANGED <<oldest, rollover, fmt, crashes>> /\ pc = "full" /\ cur' = [cur EXCEPT !.st = "FULL"]
          /\ (pc' = "idle" /\ op' = NoOp) \/ (pc' = "next" /\ op' = op)
      BY <1>3 DEF MarkFull, hist
    <2>2. cur.addr \in Sectors /\ CurOK(cur)
      BY <2>1 DEF TypeInv, Appending
    <2>3. FlashOK(sec')
      BY <1>3, <2>2, StatusDoes DEF MarkFull, Statuses
    <2>4. CurOK(cur') /\ cur'.addr = cur.addr
      BY <2>1, <2>2 DEF CurOK, Statuses
    <2> QED BY <2>1, <2>2, <2>3, <2>4, OpTypes DEF TypeInv, Formatting, Appending
  <1>4. CASE NextSector
    <2> DEFINE s == Following(cur.addr)
    <2>1. /\ UNCHANGED <<sec, rollover, op, fmt, crashes>> /\ pc = "next" /\ cur' = HeaderRead(s, cur)
          /\ (pc' = "using" /\ oldest' = oldest) \/ (pc' = "erase" /\ oldest' = Following(s))
      BY <1>4 DEF NextSector, hist, HeaderRead
    <2>2. s \in Sectors /\ CurOK(cur) /\ FlashOK(sec) /\ Following(s) \in Sectors
      BY <2>1, SectorFacts DEF TypeInv, Appending
    <2>3. CurOK(cur') /\ cur'.addr = s
      <3>1. cur.end_idx \in Int
        BY <2>2 DEF CurOK
      <3> QED BY <2>1, <2>2, <3>1, ReadHeader, ReadNoMagic
    <2> QED BY <2>1, <2>2, <2>3 DEF TypeInv, Formatting, Appending
  <1>5. CASE Erase
    <2>1. /\ UNCHANGED <<cur, oldest, rollover, op, fmt, crashes>> /\ pc = "erase" /\ pc' = "magic"
          /\ sec' = [sec EXCEPT ![cur.addr] = Erased]
      BY <1>5 DEF Erase, ram
    <2>2. FlashOK(sec')
      BY <2>1, EraseDoes DEF TypeInv, Appending
    <2> QED BY <2>1, <2>2 DEF TypeInv, Formatting, Appending
  <1>6. CASE Magic
    <2>1. /\ UNCHANGED <<oldest, rollover, op, fmt, crashes>> /\ pc = "magic" /\ pc' = "using"
          /\ sec' = [sec EXCEPT ![cur.addr] = Clean]
          /\ cur' = Emptied(cur)
      BY <1>6 DEF Magic, hist, Emptied
    <2>2. FlashOK(sec') /\ CurOK(cur)
      BY <2>1, EraseDoes DEF TypeInv, Appending
    <2>3. CurOK(cur') /\ cur'.addr = cur.addr
      BY <2>1, <2>2, ErasedCur
    <2> QED BY <2>1, <2>2, <2>3 DEF TypeInv, Formatting, Appending
  <1>7. CASE MarkUsing
    <2>1. /\ UNCHANGED <<oldest, rollover, op, fmt, crashes>> /\ pc = "using" /\ pc' = "start"
          /\ cur' = [cur EXCEPT !.st = "USING", !.start = op.time]
      BY <1>7 DEF MarkUsing, hist
    <2>2. cur.addr \in Sectors /\ CurOK(cur)
      BY <2>1 DEF TypeInv, Appending
    <2>3. FlashOK(sec')
      BY <1>7, <2>2, StatusDoes DEF MarkUsing, Statuses
    <2>4. CurOK(cur') /\ cur'.addr = cur.addr
      BY <2>1, <2>2 DEF CurOK, Statuses
    <2> QED BY <2>1, <2>2, <2>3, <2>4 DEF TypeInv, Formatting, Appending
  <1>8. CASE StartTime
    <2>1. UNCHANGED <<cur, oldest, rollover, op, fmt, crashes>> /\ pc = "start" /\ pc' = "entry"
      BY <1>8 DEF StartTime, ram, hist
    <2>2. cur.addr \in Sectors
      BY <2>1 DEF TypeInv, Appending
    <2>3. FlashOK(sec')
      BY <1>8, <2>2, StartDoes DEF StartTime
    <2> QED BY <2>1, <2>2, <2>3 DEF TypeInv, Formatting, Appending
  <1>9. CASE Entry
    <2>1. UNCHANGED <<cur, oldest, rollover, op, fmt, crashes>> /\ pc = "entry" /\ pc' = "commit"
      BY <1>9 DEF Entry, ram, hist
    <2>2. FlashOK(sec') /\ cur.addr \in Sectors
      BY <1>9, EntryDoes
    <2> QED BY <2>1, <2>2 DEF TypeInv, Formatting, Appending
  <1> QED BY <1>1, <1>2, <1>3, <1>4, <1>5, <1>6, <1>7, <1>8, <1>9

LEMMA TypeRest ==
    ASSUME TypeInv, LogInv, Control \/ fdb_tsl_clean \/ Commit \/ EntryNowhere \/ Restart \/ PowerLoss
    PROVE  TypeInv'
  <1>1. CASE Control
    BY <1>1, Consts DEF Control, TypeInv, hist, Formatting, Appending
  <1>2. CASE fdb_tsl_clean
    BY <1>2, OpTypes, SectorFacts DEF fdb_tsl_clean, TypeInv, ram, Formatting, Appending
  <1>3. CASE Commit
    <2>1. UNCHANGED <<oldest, rollover, fmt, crashes>> /\ pc' = "idle" /\ op' = NoOp
      BY <1>3 DEF Commit
    <2> QED BY <1>3, <2>1, CommitDoes, OpTypes DEF TypeInv, Formatting, Appending
  <1>4. CASE EntryNowhere
    <2>1. UNCHANGED <<cur, oldest, rollover, fmt, crashes>> /\ pc' = "idle" /\ op' = NoOp
      BY <1>4 DEF EntryNowhere, hist
    <2> QED BY <1>4, <2>1, NowhereDoes, OpTypes DEF TypeInv, Formatting, Appending
  <1>5. CASE Restart
    <2>1. /\ UNCHANGED <<sec, crashes>> /\ cur' = Zero /\ oldest' = NoSector /\ rollover' = FALSE
          /\ pc' = "boot" /\ op' = NoOp /\ fmt' = 0
      BY <1>5 DEF Restart, PowerUp, hist
    <2> QED BY <2>1, Records, OpTypes, SectorFacts DEF TypeInv, Formatting, Appending
  <1>6. CASE PowerLoss
    <2>1. /\ UNCHANGED sec /\ cur' = Zero /\ oldest' = NoSector /\ rollover' = FALSE
          /\ pc' = "boot" /\ op' = NoOp /\ fmt' = 0 /\ crashes < MaxCrashes /\ crashes' = crashes + 1
      BY <1>6 DEF PowerLoss, PowerUp
    <2>2. crashes' \in 0 .. MaxCrashes
      BY <2>1, Consts DEF TypeInv
    <2> QED BY <2>1, <2>2, Records, OpTypes, SectorFacts DEF TypeInv, Formatting, Appending
  <1> QED BY <1>1, <1>2, <1>3, <1>4, <1>5, <1>6

LEMMA TypeNext ==
    ASSUME TypeInv, LogInv, [Next]_vars
    PROVE  TypeInv'
  <1>1. CASE Work
    BY <1>1, TypeBoot, TypeFormat, TypeAppend, TypeRest DEF Work
  <1>2. ASSUME NEW t \in Times, NEW n \in Lens, fdb_tsl_append(t, n) PROVE TypeInv'
    BY <1>2, TypeStart
  <1>3. ASSUME NEW s \in Sectors, NEW i \in 1 .. Cap, NEW st \in {"USER_STATUS1", "DELETED"},
               fdb_tsl_set_status(s, i, st)
        PROVE  TypeInv'
    <2>1. UNCHANGED <<cur, oldest, rollover, pc, op, fmt, crashes>>
      BY <1>3 DEF fdb_tsl_set_status, ram
    <2>2. FlashOK(sec')
      BY <1>3, SetStatusDoes
    <2> QED BY <2>1, <2>2 DEF TypeInv
  <1>4. CASE fdb_tsl_clean \/ Restart \/ PowerLoss
    BY <1>4, TypeRest
  <1>5. CASE UNCHANGED vars
    BY <1>5 DEF vars, TypeInv, ram, hist
  <1> QED BY <1>1, <1>2, <1>3, <1>4, <1>5 DEF Next

-----------------------------------------------------------------------------
(* Where the logs lie is kept.                                             *)

Sound(h) == Placed(h.tsls) /\ Unwritten(h)

LEMMA FreshSound ==
    /\ Sound(Clean) /\ Sound(Erased)
    /\ \A c : CurOK(c) /\ c.st = "EMPTY" /\ c.idx = 0 /\ c.data = Cap /\ c.remain = Cap
              /\ c.ends[1] = "UNUSED" /\ c.ends[2] = "UNUSED" => Current(c, Clean)
  <1>1. Placed(<< >>)
    BY EmptyPlaced
  <1>2. Sound(Clean) /\ Sound(Erased)
    BY <1>1, Records DEF Sound, Unwritten
  <1> QED BY <1>2, EmptyPlaced, Records DEF Current, SameEnds

\* One sector is written to and stays sound.
LEMMA KeepSound ==
    ASSUME \A s \in Sectors : Sound(sec[s]), NEW x \in Sectors, Others(x), Sound(sec'[x])
    PROVE  \A s \in Sectors : Sound(sec'[s])
  BY DEF Others

LEMMA LogIs ==
    ASSUME LogInv PROVE \A s \in Sectors : Sound(sec[s])
  BY DEF LogInv, Sound

LEMMA LogInit == Init => LogInv
  <1> SUFFICES ASSUME Init PROVE LogInv
    OBVIOUS
  <1>1. \A s \in Sectors : Sound(sec[s])
    BY FreshSound DEF Init
  <1>2. pc = "boot"
    BY DEF Init
  <1> QED BY <1>1, <1>2 DEF LogInv, Sound, Formatting

LEMMA LogBoot ==
    ASSUME TypeInv, LogInv, NEW g \in Stack, Boot(g)
    PROVE  LogInv'
  <1>1. pc = "boot" /\ sec' = sec /\ fmt' = fmt /\ fmt = 0
    BY DEF Boot, TypeInv
  <1>2. \A s \in Sectors : Sound(sec'[s])
    BY <1>1, LogIs
  <1>3. CASE Hangs \/ Failing # {}
    <2>1. pc' \in {"hung", "format"}
      BY <1>3 DEF Boot
    <2>2. \A s \in 0 .. fmt' - 1 : FALSE
      BY <1>1
    <2> QED BY <1>2, <2>1, <2>2 DEF LogInv, Sound, Formatting
  <1>4. CASE ~(Hangs \/ Failing # {})
    <2>1. pc' = "control" /\ cur' = BootInfo(g)
      BY <1>4 DEF Boot
    <2>2. /\ cur'.addr = BootSector
          /\ BootSector = NoSector => cur'.st = "UNUSED"
          /\ BootSector # NoSector => cur'.st \in {"USING", "EMPTY"} /\ Current(cur', sec[BootSector])
      BY <1>4, <2>1, BootReads
    <2> QED BY <1>1, <1>2, <2>1, <2>2 DEF LogInv, Sound, Formatting
  <1> QED BY <1>3, <1>4

LEMMA LogFormat ==
    ASSUME TypeInv, LogInv, FormatErase \/ FormatMagic
    PROVE  LogInv'
  <1>1. fmt \in Sectors /\ fmt \in Int
    BY SectorFacts DEF TypeInv
  <1>2. CASE FormatErase
    <2>1. fmt' = fmt /\ pc = "format"
      BY <1>2 DEF FormatErase
    <2>2. CASE pc' = "hung" /\ sec' = sec
      BY <2>2 DEF LogInv, Formatting
    <2>3. CASE pc' = "formatted" /\ sec'[fmt] = Erased /\ Others(fmt)
      <3>1. \A s \in Sectors : Sound(sec'[s])
        BY <1>1, <2>3, LogIs, FreshSound, KeepSound
      <3>2. \A s \in 0 .. fmt - 1 : s \in Sectors /\ s # fmt /\ sec[s] = Clean
        BY <1>1, <2>1, Consts DEF LogInv, Formatting, Sectors
      <3>3. \A s \in 0 .. fmt' - 1 : sec'[s] = Clean
        BY <2>1, <2>3, <3>2 DEF Others
      <3> QED BY <2>3, <3>1, <3>3 DEF LogInv, Sound, Formatting
    <2> QED BY <1>2, <2>2, <2>3, FormatEraseDoes
  <1>3. CASE FormatMagic
    <2>1. sec'[fmt] = Clean /\ Others(fmt) /\ pc = "formatted"
      BY <1>3, FormatMagicDoes DEF FormatMagic
    <2>2. \A s \in Sectors : Sound(sec'[s])
      BY <1>1, <2>1, LogIs, FreshSound, KeepSound
    <2>3. \A s \in 0 .. fmt : s \in Sectors /\ sec'[s] = Clean
      <3> TAKE s \in 0 .. fmt
      <3>1. s \in Sectors
        BY <1>1, Consts DEF Sectors
      <3>2. CASE s = fmt
        BY <2>1, <3>1, <3>2
      <3>3. CASE s # fmt
        <4>1. s \in 0 .. fmt - 1
          BY <1>1, <3>3
        <4> QED BY <2>1, <3>1, <3>3, <4>1 DEF LogInv, Formatting, Others
      <3> QED BY <3>2, <3>3
    <2>4. CASE fmt < S - 1
      <3>1. fmt' = fmt + 1 /\ pc' = "format"
        BY <1>3, <2>4 DEF FormatMagic
      <3>2. \A s \in 0 .. fmt' - 1 : sec'[s] = Clean
        BY <1>1, <2>3, <3>1
      <3> QED BY <2>2, <3>1, <3>2 DEF LogInv, Sound, Formatting
    <2>5. CASE ~(fmt < S - 1)
      <3>1. /\ pc' \in {"idle", "control"}
            /\ cur' = [Zero EXCEPT !.st = "EMPTY", !.start = NoTime, !.data = Cap, !.remain = Cap,
                                   !.end = cur.end, !.end_idx = cur.end_idx]
        BY <1>3, <2>5 DEF FormatMagic
      <3>2. /\ CurOK(cur') /\ cur'.addr = Zero.addr /\ cur'.st = "EMPTY" /\ cur'.ends = Zero.ends
            /\ cur'.idx = Zero.idx /\ cur'.data = Cap /\ cur'.remain = Cap
        <4> DEFINE z == Zero
                   a == cur.end
                   b == cur.end_idx
                   r == cur'
        <4>1. /\ CurOK(z)
              /\ r = [z EXCEPT !.st = "EMPTY", !.start = NoTime, !.data = Cap, !.remain = Cap, !.end = a, !.end_idx = b]
          BY <3>1, Records
        <4> HIDE DEF z, a, b, r
        <4>2. /\ r.addr = z.addr /\ r.st = "EMPTY" /\ r.ends = z.ends
              /\ r.idx = z.idx /\ r.data = Cap /\ r.remain = Cap
          BY <4>1 DEF CurOK
        <4>3. CurOK(cur')
          BY TypeFormat DEF TypeInv
        <4> QED BY <4>2, <4>3 DEF z, r
      <3>3. Zero.addr = 0 /\ Zero.idx = 0 /\ Zero.ends[1] = "UNUSED" /\ Zero.ends[2] = "UNUSED"
        BY DEF Zero
      <3>4. sec'[cur'.addr] = Clean
        BY <1>1, <2>3, <3>2, <3>3, SectorFacts DEF Sectors
      <3>5. Current(cur', sec'[cur'.addr])
        BY <3>2, <3>3, <3>4, FreshSound
      <3>6. cur'.addr # NoSector
        BY <3>2, <3>3, SectorFacts
      <3> QED BY <2>2, <3>1, <3>2, <3>5, <3>6 DEF LogInv, Sound, Formatting
    <2> QED BY <2>4, <2>5
  <1> QED BY <1>2, <1>3

LEMMA LogStart ==
    ASSUME TypeInv, LogInv, NEW t \in Times, NEW n \in Lens, fdb_tsl_append(t, n)
    PROVE  LogInv'
  <1>1. UNCHANGED <<sec, cur, fmt>> /\ pc = "idle"
    BY DEF fdb_tsl_append, ram
  <1>2. cur.remain \in Int /\ Need(n) \in Int
    BY Consts DEF TypeInv, CurOK, Need
  <1>3. pc' \in {"idle", "seal", "using", "entry"} /\ (pc' # "idle" => op'.len = n)
    <2>1. op' = IF pc' = "idle" THEN NoOp ELSE [time |-> t, len |-> n]
      BY DEF fdb_tsl_append, Enter
    <2> QED BY <2>1 DEF fdb_tsl_append, Begin
  <1>4. pc' = "seal" => cur.st = "USING"
    BY DEF fdb_tsl_append, Begin
  <1>5. pc' = "using" => cur.st = "EMPTY"
    BY DEF fdb_tsl_append, Begin
  <1>6. pc' = "entry" => cur.st \notin {"EMPTY", "FULL"} /\ (cur.st = "USING" => cur.remain >= Need(n))
    BY <1>2 DEF fdb_tsl_append, Begin
  <1>7. /\ cur.addr = NoSector => cur.st = "UNUSED"
        /\ cur.addr # NoSector => cur.st = "FULL" \/ (cur.st \in {"USING", "EMPTY"} /\ Current(cur, sec[cur.addr]))
        /\ \A s \in Sectors : Placed(sec[s].tsls) /\ Unwritten(sec[s])
    BY <1>1 DEF LogInv
  <1> QED BY <1>1, <1>3, <1>4, <1>5, <1>6, <1>7 DEF LogInv, Formatting

LEMMA LogAppend ==
    ASSUME TypeInv, LogInv,
           Seal \/ Sealed \/ MarkFull \/ NextSector \/ Erase \/ Magic \/ MarkUsing \/ StartTime \/ Entry
    PROVE  LogInv'
  <1> DEFINE c == cur.addr
  <1>0. \A s \in Sectors : Sound(sec[s])
    BY LogIs
  <1>00. pc \in Appending \ {"entry"} => c \in Sectors
    BY DEF TypeInv
  <1>1. CASE Seal
    <2>1. cur' = cur /\ pc = "seal" /\ c \in Sectors /\ cur.st = "USING" /\ sec[c].st = "USING"
      BY <1>1, <1>00, SectorFacts DEF Seal, ram, LogInv, Current, Appending
    <2>2. CASE FreeEnds = {} /\ pc' = "full" /\ sec' = sec
      BY <2>1, <2>2 DEF LogInv, Formatting
    <2>3. CASE FreeEnds # {} /\ pc' = "sealed" /\ Others(c) /\ SameBut(c, "ends")
      <3>1. Sound(sec'[c]) /\ sec'[c].st = "USING"
        BY <1>0, <2>1, <2>3 DEF Sound, Unwritten, SameBut
      <3>2. \A s \in Sectors : Sound(sec'[s])
        BY <1>0, <2>1, <2>3, <3>1, KeepSound
      <3>3. FreeEnds' # {}
        BY <2>1, <2>3 DEF FreeEnds
      <3> QED BY <2>1, <2>3, <3>1, <3>2, <3>3 DEF LogInv, Sound, Formatting
    <2> QED BY <1>1, <2>2, <2>3, SealDoes
  <1>2. CASE Sealed
    <2>1. /\ cur' = cur /\ pc = "sealed" /\ pc' = "full" /\ c \in Sectors /\ cur.st = "USING" /\ sec[c].st = "USING"
          /\ FreeEnds # {}
      BY <1>2, <1>00 DEF Sealed, ram, LogInv, Appending
    <2>2. Others(c) /\ SameBut(c, "ends")
      BY <1>2, <2>1, SealedDoes
    <2>3. Sound(sec'[c]) /\ sec'[c].st = "USING"
      BY <1>0, <2>1, <2>2 DEF Sound, Unwritten, SameBut
    <2>4. \A s \in Sectors : Sound(sec'[s])
      BY <1>0, <2>1, <2>2, <2>3, KeepSound
    <2> QED BY <2>1, <2>3, <2>4 DEF LogInv, Sound, Formatting
  <1>3. CASE MarkFull
    <2>1. /\ pc = "full" /\ cur' = [cur EXCEPT !.st = "FULL"] /\ pc' \in {"idle", "next"} /\ c \in Sectors
          /\ CurOK(cur)
      BY <1>3, <1>00 DEF MarkFull, TypeInv, Appending
    <2>2. Others(c) /\ SameBut(c, "st") /\ sec'[c].st = "FULL"
      BY <1>3, <2>1, StatusDoes DEF MarkFull, Statuses
    <2>3. Sound(sec'[c])
      BY <1>0, <2>1, <2>2 DEF Sound, Unwritten, SameBut
    <2>4. \A s \in Sectors : Sound(sec'[s])
      BY <1>0, <2>1, <2>2, <2>3, KeepSound
    <2>5. cur'.st = "FULL" /\ cur'.addr = c /\ c # NoSector
      BY <2>1, SectorFacts DEF CurOK
    <2> QED BY <2>1, <2>4, <2>5 DEF LogInv, Sound, Formatting
  <1>4. CASE NextSector
    <2> DEFINE s == Following(c)
    <2>1. /\ sec' = sec /\ pc = "next" /\ cur' = HeaderRead(s, cur) /\ pc' = IF cur'.st = "EMPTY" THEN "using" ELSE "erase"
      BY <1>4 DEF NextSector, HeaderRead
    <2>2. s \in Sectors /\ CurOK(cur) /\ FlashOK(sec) /\ cur.st = "FULL"
      BY <2>1, <1>00, SectorFacts DEF TypeInv, Appending, LogInv
    <2> HIDE DEF s
    <2>3. CASE pc' = "erase"
      BY <1>0, <2>1, <2>3 DEF LogInv, Sound, Formatting
    <2>4. CASE pc' = "using"
      <3>1. cur'.st = "EMPTY"
        BY <2>1, <2>4
      <3>2. sec[s].magic
        BY <2>1, <2>2, <3>1, ReadNoMagic
      <3>3. /\ cur'.addr = s /\ cur'.st = sec[s].st /\ SameEnds(cur', sec[s])
            /\ cur'.idx = 0 /\ cur'.data = Cap /\ cur'.remain = Cap
        <4>1. cur.end_idx \in Int
          BY <2>2 DEF CurOK
        <4> QED BY <2>1, <2>2, <3>2, <4>1, ReadHeader
      <3>4. sec[s].tsls = << >>
        BY <1>0, <2>2, <3>1, <3>3 DEF Sound, Unwritten
      <3>5. On(cur', << >>)
        BY <3>3, EmptyPlaced
      <3>6. Current(cur', sec'[cur'.addr])
        BY <2>1, <3>3, <3>4, <3>5 DEF Current
      <3> QED BY <1>0, <2>1, <2>4, <3>1, <3>6 DEF LogInv, Sound, Formatting
    <2> QED BY <2>1, <2>3, <2>4
  <1>5. CASE Erase
    <2>1. pc = "erase" /\ pc' = "magic" /\ sec' = [sec EXCEPT ![c] = Erased] /\ c \in Sectors
      BY <1>5, <1>00 DEF Erase, Appending
    <2>2. Others(c) /\ sec'[c] = Erased
      BY <2>1, EraseDoes
    <2>3. \A s \in Sectors : Sound(sec'[s])
      BY <1>0, <2>1, <2>2, KeepSound, FreshSound
    <2> QED BY <2>1, <2>3 DEF LogInv, Sound, Formatting
  <1>6. CASE Magic
    <2>1. /\ pc = "magic" /\ pc' = "using" /\ c \in Sectors /\ CurOK(cur)
          /\ sec' = [sec EXCEPT ![c] = Clean]
          /\ cur' = Emptied(cur)
      BY <1>6, <1>00 DEF Magic, Appending, TypeInv, Emptied
    <2>2. Others(c) /\ sec'[c] = Clean
      BY <2>1, EraseDoes
    <2>3. \A s \in Sectors : Sound(sec'[s])
      BY <1>0, <2>1, <2>2, KeepSound, FreshSound
    <2>4. /\ CurOK(cur') /\ cur'.addr = c /\ cur'.st = "EMPTY"
          /\ cur'.ends[1] = "UNUSED" /\ cur'.ends[2] = "UNUSED" /\ cur'.idx = 0 /\ cur'.data = Cap /\ cur'.remain = Cap
      BY <2>1, ErasedCur
    <2>5. Current(cur', sec'[cur'.addr])
      BY <2>2, <2>4, FreshSound
    <2> QED BY <2>1, <2>3, <2>4, <2>5 DEF LogInv, Sound, Formatting
  <1>7. CASE MarkUsing
    <2>1. /\ pc = "using" /\ pc' = "start" /\ cur' = [cur EXCEPT !.st = "USING", !.start = op.time]
          /\ c \in Sectors /\ CurOK(cur) /\ cur.st = "EMPTY" /\ Current(cur, sec[c])
      BY <1>7, <1>00 DEF MarkUsing, TypeInv, Appending, LogInv
    <2>2. Others(c) /\ SameBut(c, "st") /\ sec'[c].st = "USING"
      BY <1>7, <2>1, StatusDoes DEF MarkUsing, Statuses
    <2>3. Sound(sec'[c]) /\ sec'[c].tsls = << >> /\ sec'[c].ends = sec[c].ends /\ sec[c].tsls = << >>
      BY <1>0, <2>1, <2>2 DEF Sound, Unwritten, SameBut, Current
    <2>4. \A s \in Sectors : Sound(sec'[s])
      BY <1>0, <2>1, <2>2, <2>3, KeepSound
    <2>5. /\ cur'.st = "USING" /\ cur'.addr = c /\ cur'.ends = cur.ends
          /\ cur'.idx = cur.idx /\ cur'.data = cur.data /\ cur'.remain = cur.remain
      BY <2>1 DEF CurOK
    <2>6. Current(cur', sec'[c])
      BY <2>1, <2>2, <2>3, <2>5 DEF Current, On, SameEnds
    <2> QED BY <2>1, <2>3, <2>4, <2>5, <2>6 DEF LogInv, Sound, Formatting
  <1>8. CASE StartTime
    <2>1. /\ cur' = cur /\ pc = "start" /\ pc' = "entry" /\ op' = op /\ c \in Sectors
          /\ cur.st = "USING" /\ Current(cur, sec[c]) /\ sec[c].tsls = << >> /\ op.len \in Lens
      BY <1>8, <1>00, SectorFacts DEF StartTime, ram, LogInv, Appending, TypeInv
    <2>2. Others(c) /\ SameBut(c, "start")
      BY <1>8, <2>1, StartDoes DEF StartTime
    <2>3. Sound(sec'[c])
      BY <1>0, <2>1, <2>2 DEF Sound, Unwritten, SameBut, Current
    <2>4. \A s \in Sectors : Sound(sec'[s])
      BY <1>0, <2>1, <2>2, <2>3, KeepSound
    <2>5. Current(cur', sec'[cur'.addr])
      BY <2>1, <2>2 DEF Current, SameEnds, SameBut
    <2>6. cur'.remain = Cap
      BY <2>1, EmptyPlaced DEF Current, On
    <2>7. cur'.remain >= Need(op'.len)
      BY <2>1, <2>6, Consts DEF Need
    <2>8. cur'.st = "USING" /\ cur'.addr # NoSector
      BY <2>1, SectorFacts
    <2> QED BY <2>1, <2>4, <2>5, <2>7, <2>8 DEF LogInv, Sound, Formatting
  <1>9. CASE Entry
    <2>1. /\ c \in Sectors /\ Others(c) /\ SameBut(c, "tsls")
          /\ Placed(sec'[c].tsls) /\ Begun(cur, op, sec'[c].tsls)
      BY <1>9, EntryDoes
    <2>2. /\ cur' = cur /\ op' = op /\ pc = "entry" /\ pc' = "commit" /\ cur.st = "USING" /\ Current(cur, sec[c])
      BY <1>9, <2>1, SectorFacts DEF Entry, ram, LogInv
    <2>3. sec'[c].st = "USING" /\ SameEnds(cur, sec'[c])
      BY <2>1, <2>2 DEF SameBut, Current, SameEnds
    <2>4. Sound(sec'[c])
      BY <2>1, <2>3 DEF Sound, Unwritten
    <2>5. \A s \in Sectors : Sound(sec'[s])
      BY <1>0, <2>1, <2>4, KeepSound
    <2>6. cur'.st = "USING" /\ sec'[cur'.addr].st = "USING" /\ Begun(cur', op', sec'[cur'.addr].tsls)
          /\ SameEnds(cur', sec'[cur'.addr])
      BY <2>1, <2>2, <2>3
    <2> QED BY <2>2, <2>5, <2>6 DEF LogInv, Sound, Formatting
  <1> QED BY <1>1, <1>2, <1>3, <1>4, <1>5, <1>6, <1>7, <1>8, <1>9

LEMMA LogRest ==
    ASSUME TypeInv, LogInv, Control \/ fdb_tsl_clean \/ Commit \/ EntryNowhere \/ Restart \/ PowerLoss
    PROVE  LogInv'
  <1>0. \A s \in Sectors : Sound(sec[s])
    BY LogIs
  <1>1. CASE Control
    BY <1>1 DEF Control, LogInv, Formatting
  <1>2. CASE fdb_tsl_clean
    <2>1. pc' = "format" /\ fmt' = 0 /\ sec' = sec
      BY <1>2 DEF fdb_tsl_clean
    <2>2. \A s \in 0 .. fmt' - 1 : FALSE
      BY <2>1
    <2> QED BY <1>0, <2>1, <2>2 DEF LogInv, Sound, Formatting
  <1>3. CASE Commit
    <2> DEFINE c == cur.addr
    <2>1. /\ Others(c) /\ SameBut(c, "tsls") /\ Placed(sec'[c].tsls)
          /\ cur'.addr = c /\ Current(cur', sec'[c]) /\ cur'.st = "USING"
      BY <1>3, CommitDoes
    <2>2. pc' = "idle" /\ c \in Sectors
      BY <1>3 DEF Commit, TypeInv, Appending
    <2>3. Sound(sec'[c])
      BY <2>1 DEF Sound, Unwritten, Current
    <2>4. \A s \in Sectors : Sound(sec'[s])
      BY <1>0, <2>1, <2>2, <2>3, KeepSound
    <2>5. c # NoSector
      BY <2>2, SectorFacts
    <2> QED BY <2>1, <2>2, <2>4, <2>5 DEF LogInv, Sound, Formatting
  <1>4. CASE EntryNowhere
    <2>1. Others(0) /\ SameBut(0, "magic") /\ ~sec'[0].magic /\ 0 \in Sectors
      BY <1>4, NowhereDoes, SectorFacts
    <2>2. Sound(sec'[0])
      BY <1>0, <2>1 DEF Sound, Unwritten, SameBut
    <2>3. \A s \in Sectors : Sound(sec'[s])
      BY <1>0, <2>1, <2>2, KeepSound
    <2>4. pc' = "idle" /\ cur' = cur /\ cur.addr = NoSector /\ cur.st = "UNUSED"
      BY <1>4 DEF EntryNowhere, LogInv
    <2> QED BY <2>3, <2>4 DEF LogInv, Sound, Formatting
  <1>5. CASE Restart \/ PowerLoss
    <2>1. pc' = "boot" /\ sec' = sec
      BY <1>5 DEF Restart, PowerLoss, PowerUp
    <2> QED BY <1>0, <2>1 DEF LogInv, Sound, Formatting
  <1> QED BY <1>1, <1>2, <1>3, <1>4, <1>5

LEMMA LogNext ==
    ASSUME TypeInv, LogInv, [Next]_vars
    PROVE  LogInv'
  <1>1. CASE Work
    BY <1>1, LogBoot, LogFormat, LogAppend, LogRest DEF Work
  <1>2. ASSUME NEW t \in Times, NEW n \in Lens, fdb_tsl_append(t, n) PROVE LogInv'
    BY <1>2, LogStart
  <1>3. ASSUME NEW s \in Sectors, NEW i \in 1 .. Cap, NEW st \in {"USER_STATUS1", "DELETED"},
               fdb_tsl_set_status(s, i, st)
        PROVE  LogInv'
    <2>1. cur' = cur /\ pc' = pc /\ pc = "idle"
      BY <1>3 DEF fdb_tsl_set_status, ram
    <2>2. /\ Others(s) /\ SameBut(s, "tsls") /\ Placed(sec'[s].tsls) /\ sec[s].tsls # << >>
          /\ Len(sec'[s].tsls) = Len(sec[s].tsls) /\ DataLen(sec'[s].tsls) = DataLen(sec[s].tsls)
      BY <1>3, SetStatusDoes
    <2>3. Sound(sec'[s])
      BY <2>2, LogIs DEF Sound, Unwritten, SameBut
    <2>4. \A x \in Sectors : Sound(sec'[x])
      BY <2>2, <2>3, LogIs, KeepSound
    <2>5. Left(sec'[s].tsls) = Left(sec[s].tsls)
      BY <2>2 DEF Left, Used
    <2>6. Current(cur, sec[s]) => Current(cur, sec'[s])
      BY <2>2, <2>5 DEF Current, On, SameEnds, SameBut
    <2>7. cur.addr # NoSector => cur.addr \in Sectors
      BY DEF TypeInv, CurOK
    <2>8. cur.addr # NoSector /\ Current(cur, sec[cur.addr]) => Current(cur, sec'[cur.addr])
      BY <2>2, <2>6, <2>7 DEF Others
    <2> QED BY <2>1, <2>4, <2>8 DEF LogInv, Sound, Formatting
  <1>4. CASE fdb_tsl_clean \/ Restart \/ PowerLoss
    BY <1>4, LogRest
  <1>5. CASE UNCHANGED vars
    BY <1>5 DEF vars, LogInv, ram, hist, FreeEnds
  <1> QED BY <1>1, <1>2, <1>3, <1>4, <1>5 DEF Next

-----------------------------------------------------------------------------
(* The end nodes are kept.                                                 *)

Fewer == \A s \in Sectors, k \in 1 .. 2 : Half(s, k)' => Half(s, k)

LEMMA EndInit == Init => EndInv
  <1> SUFFICES ASSUME Init PROVE EndInv
    OBVIOUS
  <1>1. \A s \in Sectors : sec[s] = Erased
    BY DEF Init
  <1>2. \A s \in Sectors, k \in 1 .. 2 : ~Half(s, k)
    BY <1>1, Records DEF Half
  <1> QED BY <1>2 DEF EndInv, Init

\* Nothing but a seal begins an end node.
LEMMA EndKept ==
    ASSUME EndInv, pc # "sealed", pc' \notin {"sealed", "hung"}, met' = met, Fewer
    PROVE  EndInv'
  <1>1. "reseal" \notin met => \A s \in Sectors : ~(Half(s, 1)' /\ Half(s, 2)')
    BY DEF EndInv, Fewer
  <1>2. "reseal" \notin met /\ "seal" \notin met => \A s \in Sectors, k \in 1 .. 2 : ~Half(s, k)'
    BY DEF EndInv, Fewer
  <1> QED BY <1>1, <1>2 DEF EndInv

LEMMA FewerSame == ASSUME \A s \in Sectors : sec'[s].ends = sec[s].ends PROVE Fewer
  BY DEF Fewer, Half

LEMMA FewerFresh ==
    ASSUME NEW x \in Sectors, Others(x), sec'[x] \in {Clean, Erased} \/ sec'[x].ends = sec[x].ends
    PROVE  Fewer
  <1>1. ASSUME NEW s \in Sectors, NEW k \in 1 .. 2, Half(s, k)' PROVE Half(s, k)
    <2>1. CASE s # x
      BY <1>1, <2>1 DEF Others, Half
    <2>2. CASE s = x
      BY <1>1, <2>2, Records DEF Half
    <2> QED BY <2>1, <2>2
  <1> QED BY <1>1 DEF Fewer

LEMMA EndBoot ==
    ASSUME TypeInv, EndInv, NEW g \in Stack, Boot(g)
    PROVE  EndInv'
  <1>1. pc = "boot" /\ sec' = sec /\ met' = met /\ pc' \in {"hung", "format", "control"} /\ (pc' = "hung" => Hangs)
    BY DEF Boot, hist
  <1>2. Fewer
    BY <1>1, FewerSame
  <1>3. CASE pc' # "hung"
    BY <1>1, <1>2, <1>3, EndKept
  <1>4. CASE pc' = "hung"
    <2>1. PICK s \in Sectors : NoValidEnd(s)
      BY <1>1, <1>4 DEF Hangs
    <2>2. Half(s, 1) /\ Half(s, 2)
      BY <2>1 DEF NoValidEnd, Half
    <2>3. "reseal" \in met
      BY <1>1, <2>2 DEF EndInv
    <2> QED BY <1>1, <1>4, <2>3 DEF EndInv
  <1> QED BY <1>3, <1>4

LEMMA EndFormat ==
    ASSUME TypeInv, LogInv, EndInv, FormatErase \/ FormatMagic
    PROVE  EndInv'
  <1>1. fmt \in Sectors
    BY DEF TypeInv
  <1>2. CASE FormatErase
    <2>1. pc = "format" /\ met' = met
      BY <1>2 DEF FormatErase, hist
    <2>2. CASE NoValidEnd(fmt) /\ pc' = "hung" /\ sec' = sec
      <3>1. Half(fmt, 1) /\ Half(fmt, 2)
        BY <2>2 DEF NoValidEnd, Half
      <3>2. "reseal" \in met
        BY <1>1, <2>1, <3>1 DEF EndInv
      <3> QED BY <2>1, <2>2, <3>2 DEF EndInv
    <2>3. CASE pc' = "formatted" /\ sec'[fmt] = Erased /\ Others(fmt)
      BY <1>1, <2>1, <2>3, FewerFresh, EndKept
    <2> QED BY <1>2, <2>2, <2>3, FormatEraseDoes
  <1>3. CASE FormatMagic
    <2>1. sec'[fmt] = Clean /\ Others(fmt)
      BY <1>3, FormatMagicDoes
    <2>2. pc = "formatted" /\ pc' \in {"format", "idle", "control"} /\ met' = met
      BY <1>3 DEF FormatMagic, hist
    <2> QED BY <1>1, <2>1, <2>2, FewerFresh, EndKept
  <1> QED BY <1>2, <1>3

LEMMA EndSeal ==
    ASSUME TypeInv, LogInv, EndInv, Seal
    PROVE  EndInv'
  <1> DEFINE c == cur.addr
             k0 == Min(FreeEnds)
  <1>1. /\ cur' = cur /\ met' = met /\ pc = "seal" /\ c \in Sectors /\ CurOK(cur)
        /\ SameEnds(cur, sec[c])
    BY SectorFacts DEF Seal, ram, hist, TypeInv, Appending, LogInv, Current
  <1>2. CASE FreeEnds = {} /\ pc' = "full" /\ sec' = sec
    BY <1>1, <1>2, FewerSame, EndKept
  <1>3. CASE /\ FreeEnds # {} /\ pc' = "sealed" /\ Others(c)
             /\ sec'[c].ends[k0] = [st |-> "PRE_WRITE", time |-> last_time, idx |-> At(c, cur.idx)]
             /\ \A k \in {1, 2} : k # k0 => sec'[c].ends[k] = sec[c].ends[k]
    <2>1. k0 \in {1, 2} /\ Min(FreeEnds)' = k0
      BY <1>1, <1>3, FirstFree DEF FreeEnds
    <2> HIDE DEF k0
    <2>2. sec'[c].ends[k0].st = "PRE_WRITE"
      BY <1>3
    <2>3. \A k \in 1 .. 2 : k # k0 => sec'[c].ends[k].st = cur.ends[k]
      BY <1>1, <1>3 DEF SameEnds
    <2>4. \A s \in Sectors, k \in 1 .. 2 : s # c => sec'[s].ends[k].st = sec[s].ends[k].st
      BY <1>3 DEF Others
    <2>5. \A k \in 1 .. 2 : k # k0 => sec'[c].ends[k].st = sec[c].ends[k].st
      BY <1>3
    <2>6. "reseal" \notin met => \A s \in Sectors : ~(Half(s, 1) /\ Half(s, 2))
      BY <1>1 DEF EndInv
    <2>7. "reseal" \notin met /\ "seal" \notin met => \A s \in Sectors, k \in 1 .. 2 : ~Half(s, k)
      BY <1>1 DEF EndInv
    <2>8. "reseal" \notin met' => \A s \in Sectors : Half(s, 1)' /\ Half(s, 2)' => s = cur'.addr
      BY <1>1, <2>4, <2>6 DEF Half
    <2>9. "reseal" \notin met' /\ "seal" \notin met' =>
              \A s \in Sectors, k \in 1 .. 2 : Half(s, k)' => s = cur'.addr /\ k = Min(FreeEnds)'
      BY <1>1, <2>1, <2>4, <2>5, <2>7 DEF Half
    <2>10. sec'[cur'.addr].ends[Min(FreeEnds)'].st = "PRE_WRITE" /\ pc' = "sealed"
      BY <1>1, <1>3, <2>1, <2>2
    <2>11. \A k \in 1 .. 2 : k # Min(FreeEnds)' => sec'[cur'.addr].ends[k].st = cur'.ends[k]
      BY <1>1, <2>1, <2>3
    <2>12. Half(cur.addr, Min(FreeEnds))'
      BY <2>10 DEF Half
    <2> QED BY <2>8, <2>9, <2>10, <2>11, <2>12 DEF EndInv
  <1> QED BY <1>2, <1>3, SealDoes

LEMMA EndSealed ==
    ASSUME TypeInv, LogInv, EndInv, Sealed
    PROVE  EndInv'
  <1> DEFINE c == cur.addr
             k0 == Min(FreeEnds)
  <1>1. /\ cur' = cur /\ met' = met /\ pc = "sealed" /\ pc' = "full" /\ c \in Sectors /\ FreeEnds # {}
    BY DEF Sealed, ram, hist, TypeInv, Appending, LogInv
  <1>2. k0 \in {1, 2}
    BY <1>1, FirstFree DEF TypeInv
  <1>3. /\ Others(c) /\ sec'[c].ends[k0].st = "WRITE"
        /\ \A k \in {1, 2} : k # k0 => sec'[c].ends[k] = sec[c].ends[k]
    BY <1>1, SealedDoes
  <1>4. "reseal" \notin met => \A s \in Sectors : Half(s, 1) /\ Half(s, 2) => s = c
    BY <1>1 DEF EndInv
  <1>5. "reseal" \notin met /\ "seal" \notin met => \A s \in Sectors, k \in 1 .. 2 : Half(s, k) => s = c /\ k = k0
    BY <1>1 DEF EndInv
  <1> HIDE DEF k0
  <1>6. \A s \in Sectors, k \in 1 .. 2 : Half(s, k)' => Half(s, k) /\ (s = c => k # k0)
    BY <1>1, <1>2, <1>3 DEF Half, Others
  <1>7. "reseal" \notin met => \A s \in Sectors : ~(Half(s, 1)' /\ Half(s, 2)')
    BY <1>2, <1>4, <1>6
  <1>8. "reseal" \notin met /\ "seal" \notin met => \A s \in Sectors, k \in 1 .. 2 : ~Half(s, k)'
    BY <1>5, <1>6
  <1> QED BY <1>1, <1>7, <1>8 DEF EndInv

LEMMA EndLoss ==
    ASSUME TypeInv, LogInv, EndInv, PowerLoss
    PROVE  EndInv'
  <1>1. sec' = sec /\ pc' = "boot" /\ met' = met \cup Window
    BY DEF PowerLoss, PowerUp
  <1>2. CASE pc # "sealed"
    <2>1. "reseal" \notin met => \A s \in Sectors : ~(Half(s, 1) /\ Half(s, 2))
      BY <1>2 DEF EndInv
    <2>2. "reseal" \notin met /\ "seal" \notin met => \A s \in Sectors, k \in 1 .. 2 : ~Half(s, k)
      BY <1>2 DEF EndInv
    <2> QED BY <1>1, <2>1, <2>2 DEF EndInv, Half
  <1>3. CASE pc = "sealed"
    <2>1. Window = IF "seal" \in met THEN {"reseal"} ELSE {"seal"}
      BY <1>3 DEF Window
    <2>2. CASE "seal" \in met
      BY <1>1, <2>1, <2>2 DEF EndInv
    <2>3. CASE "seal" \notin met
      <3>1. "seal" \in met'
        BY <1>1, <2>1, <2>3
      <3>2. "reseal" \notin met => \A s \in Sectors, k \in 1 .. 2 : Half(s, k) => k = Min(FreeEnds)
        BY <2>3 DEF EndInv
      <3>3. "reseal" \notin met => \A s \in Sectors : ~(Half(s, 1) /\ Half(s, 2))
        BY <3>2
      <3> QED BY <1>1, <3>1, <3>3 DEF EndInv, Half
    <2> QED BY <2>2, <2>3
  <1> QED BY <1>2, <1>3

LEMMA EndNext ==
    ASSUME TypeInv, LogInv, EndInv, [Next]_vars
    PROVE  EndInv'
  <1> DEFINE c == cur.addr
  <1>1. ASSUME NEW g \in Stack, Boot(g) PROVE EndInv'
    BY <1>1, EndBoot
  <1>2. CASE FormatErase \/ FormatMagic
    BY <1>2, EndFormat
  <1>3. CASE Seal \/ Sealed
    BY <1>3, EndSeal, EndSealed
  <1>4. CASE MarkFull
    <2>1. pc = "full" /\ pc' \in {"idle", "next"} /\ met' = met /\ c \in Sectors
      BY <1>4 DEF MarkFull, hist, TypeInv, Appending
    <2>2. Others(c) /\ sec'[c].ends = sec[c].ends
      BY <1>4, <2>1, StatusDoes DEF MarkFull, Statuses, SameBut
    <2> QED BY <2>1, <2>2, FewerFresh, EndKept
  <1>5. CASE Erase
    <2>1. pc = "erase" /\ pc' = "magic" /\ met' = met /\ c \in Sectors /\ sec' = [sec EXCEPT ![c] = Erased]
      BY <1>5 DEF Erase, TypeInv, Appending
    <2>2. Others(c) /\ sec'[c] = Erased
      BY <2>1, EraseDoes
    <2> QED BY <2>1, <2>2, FewerFresh, EndKept
  <1>6. CASE Magic
    <2>1. pc = "magic" /\ pc' = "using" /\ met' = met /\ c \in Sectors /\ sec' = [sec EXCEPT ![c] = Clean]
      BY <1>6 DEF Magic, TypeInv, Appending, hist
    <2>2. Others(c) /\ sec'[c] = Clean
      BY <2>1, EraseDoes
    <2> QED BY <2>1, <2>2, FewerFresh, EndKept
  <1>7. CASE MarkUsing
    <2>1. pc = "using" /\ pc' = "start" /\ met' = met /\ c \in Sectors
      BY <1>7 DEF MarkUsing, hist, TypeInv, Appending
    <2>2. Others(c) /\ sec'[c].ends = sec[c].ends
      BY <1>7, <2>1, StatusDoes DEF MarkUsing, Statuses, SameBut
    <2> QED BY <2>1, <2>2, FewerFresh, EndKept
  <1>8. CASE StartTime
    <2>1. pc = "start" /\ pc' = "entry" /\ met' = met /\ c \in Sectors
      BY <1>8 DEF StartTime, hist, TypeInv, Appending
    <2>2. Others(c) /\ sec'[c].ends = sec[c].ends
      BY <1>8, <2>1, StartDoes DEF StartTime, SameBut
    <2> QED BY <2>1, <2>2, FewerFresh, EndKept
  <1>9. CASE Entry
    <2>1. pc = "entry" /\ pc' = "commit" /\ met' = met
      BY <1>9 DEF Entry, hist
    <2>2. c \in Sectors /\ Others(c) /\ sec'[c].ends = sec[c].ends
      BY <1>9, EntryDoes DEF SameBut
    <2> QED BY <2>1, <2>2, FewerFresh, EndKept
  <1>10. CASE Commit
    <2>1. pc = "commit" /\ pc' = "idle" /\ met' = met /\ c \in Sectors
      BY <1>10 DEF Commit, TypeInv, Appending
    <2>2. Others(c) /\ sec'[c].ends = sec[c].ends
      BY <1>10, CommitDoes DEF SameBut
    <2> QED BY <2>1, <2>2, FewerFresh, EndKept
  <1>11. CASE EntryNowhere
    <2>1. pc = "entry" /\ pc' = "idle" /\ met' = met /\ 0 \in Sectors
      BY <1>11, SectorFacts DEF EntryNowhere, hist
    <2>2. Others(0) /\ sec'[0].ends = sec[0].ends
      BY <1>11, NowhereDoes DEF SameBut
    <2> QED BY <2>1, <2>2, FewerFresh, EndKept
  <1>12. ASSUME NEW s \in Sectors, NEW i \in 1 .. Cap, NEW st \in {"USER_STATUS1", "DELETED"},
                fdb_tsl_set_status(s, i, st)
         PROVE  EndInv'
    <2>1. pc = "idle" /\ pc' = "idle" /\ met' = met
      BY <1>12 DEF fdb_tsl_set_status
    <2>2. Others(s) /\ sec'[s].ends = sec[s].ends
      BY <1>12, SetStatusDoes DEF SameBut
    <2> QED BY <2>1, <2>2, FewerFresh, EndKept
  <1>13. ASSUME NEW t \in Times, NEW n \in Lens, fdb_tsl_append(t, n) PROVE EndInv'
    <2>1. pc = "idle" /\ pc' \in {"idle", "seal", "using", "entry"} /\ sec' = sec /\ met' = met
      BY <1>13 DEF fdb_tsl_append, Begin, hist
    <2> QED BY <2>1, FewerSame, EndKept
  <1>14. CASE Control \/ NextSector \/ fdb_tsl_clean \/ Restart
    <2>1. pc # "sealed" /\ pc' \notin {"sealed", "hung"} /\ sec' = sec /\ met' = met
      BY <1>14 DEF Control, NextSector, fdb_tsl_clean, Restart, PowerUp, hist
    <2> QED BY <2>1, FewerSame, EndKept
  <1>15. CASE PowerLoss
    BY <1>15, EndLoss
  <1>16. CASE UNCHANGED vars
    BY <1>16 DEF vars, EndInv, ram, hist, FreeEnds, Half
  <1> QED BY <1>1, <1>2, <1>3, <1>4, <1>5, <1>6, <1>7, <1>8, <1>9, <1>10, <1>11, <1>12, <1>13, <1>14, <1>15, <1>16
          DEF Next, Work

-----------------------------------------------------------------------------
(* There is always a sector to write to.                                   *)

NoRoll == met \cap {"roll", "full"} = {}

\* The current sector is one that a log can be written to.
LEMMA CurrentRoom ==
    ASSUME TypeInv, LogInv, pc \notin {"boot", "hung", "next", "erase", "magic"} \cup Formatting,
           pc \in {"idle", "control", "entry"} => cur.addr # NoSector /\ cur.st \in {"USING", "EMPTY"}
    PROVE  HasRoom
  <1>1. pc \in {"idle", "control", "entry"} => cur.addr \in Sectors /\ cur.st \in {"USING", "EMPTY"}
    BY DEF TypeInv, CurOK
  <1>2. cur.addr \in Sectors
    BY <1>1 DEF TypeInv
  <1>3. sec[cur.addr].st \in {"USING", "EMPTY"}
    BY <1>1, <1>2, SectorFacts DEF TypeInv, LogInv, Current, Appending, Formatting
  <1> QED BY <1>2, <1>3 DEF HasRoom

LEMMA RoomInit == Init => RoomInv
  <1> SUFFICES ASSUME Init PROVE RoomInv
    OBVIOUS
  <1>1. sec[0] = Erased /\ 0 \in Sectors
    BY SectorFacts DEF Init
  <1>2. HasRoom
    BY <1>1, Records DEF HasRoom
  <1>3. pc = "boot" /\ outside = FALSE
    BY DEF Init
  <1> QED BY <1>2, <1>3 DEF RoomInv

\* What a step has to show.
LEMMA RoomStep ==
    ASSUME TypeInv', LogInv', RoomInv, Rollover,
           pc' # "boot" => rollover',
           NoRoll' => /\ NoRoll /\ (pc' \in {"idle", "control", "entry"} => cur'.addr # NoSector /\ cur'.st \in {"USING", "EMPTY"})
                      /\ (pc' \in {"boot", "hung"} \cup Formatting => HasRoom')
                      /\ outside' = outside
    PROVE  RoomInv'
  <1>1. CASE NoRoll'
    <2>1. ~outside
      BY <1>1 DEF RoomInv, NoRoll
    <2>2. ~outside'
      BY <1>1, <2>1
    <2>3. pc' \notin {"boot", "hung", "next", "erase", "magic"} \cup Formatting => HasRoom'
      <3>1. (TypeInv /\ LogInv /\ pc \notin {"boot", "hung", "next", "erase", "magic"} \cup Formatting
             /\ (pc \in {"idle", "control", "entry"} => cur.addr # NoSector /\ cur.st \in {"USING", "EMPTY"}) => HasRoom)'
        BY CurrentRoom, PTL
      <3> QED BY <1>1, <3>1
    <2> QED BY <1>1, <2>2, <2>3 DEF RoomInv
  <1>2. CASE ~NoRoll'
    BY <1>2 DEF RoomInv, NoRoll
  <1> QED BY <1>1, <1>2

LEMMA RoomBoot ==
    ASSUME TypeInv, LogInv, TypeInv', LogInv', RoomInv, Rollover, NEW g \in Stack, Boot(g)
    PROVE  RoomInv'
  <1>1. pc = "boot" /\ sec' = sec /\ met' = met /\ outside' = outside /\ rollover'
    BY DEF Boot, hist
  <1>2. NoRoll => HasRoom
    BY <1>1 DEF RoomInv, NoRoll
  <1>3. HasRoom' = HasRoom
    BY <1>1 DEF HasRoom
  <1>4. CASE Hangs \/ Failing # {}
    <2>1. pc' \in {"hung", "format"}
      BY <1>4 DEF Boot
    <2> QED BY <1>1, <1>2, <1>3, <2>1, RoomStep DEF NoRoll
  <1>5. CASE ~(Hangs \/ Failing # {})
    <2>1. pc' = "control" /\ cur' = BootInfo(g)
      BY <1>5 DEF Boot
    <2>2. /\ \A s \in Sectors : sec[s].magic
          /\ BootSector = NoSector => InUse = {} /\ Empties = {}
      BY <1>5, BootIs
    <2>3. HasRoom => BootSector # NoSector
      BY <2>2 DEF HasRoom, InUse, Empties
    <2>4. cur'.addr = BootSector /\ (BootSector # NoSector => cur'.st \in {"USING", "EMPTY"})
      BY <1>5, <2>1, BootReads
    <2>5. NoRoll' => NoRoll /\ cur'.addr # NoSector /\ cur'.st \in {"USING", "EMPTY"}
      BY <1>1, <1>2, <2>3, <2>4 DEF NoRoll
    <2> QED BY <1>1, <2>1, <2>5, RoomStep DEF Formatting
  <1> QED BY <1>4, <1>5

LEMMA RoomFormat ==
    ASSUME TypeInv, LogInv, TypeInv', LogInv', RoomInv, Rollover, FormatErase \/ FormatMagic
    PROVE  RoomInv'
  <1>1. fmt \in Sectors
    BY DEF TypeInv
  <1>2. CASE FormatErase
    <2>1. pc = "format" /\ met' = met /\ outside' = outside /\ rollover' = rollover /\ rollover
      BY <1>2 DEF FormatErase, hist, ram, RoomInv
    <2>2. CASE pc' = "hung" /\ sec' = sec
      <3>1. NoRoll => HasRoom
        BY <2>1 DEF RoomInv, NoRoll
      <3>2. HasRoom' = HasRoom
        BY <2>2 DEF HasRoom
      <3> QED BY <2>1, <2>2, <3>1, <3>2, RoomStep DEF NoRoll
    <2>3. CASE pc' = "formatted" /\ sec'[fmt] = Erased
      <3>1. HasRoom'
        BY <1>1, <2>3, Records DEF HasRoom
      <3> QED BY <2>1, <2>3, <3>1, RoomStep DEF NoRoll
    <2> QED BY <1>2, <2>2, <2>3, FormatEraseDoes
  <1>3. CASE FormatMagic
    <2>1. sec'[fmt] = Clean
      BY <1>3, FormatMagicDoes
    <2>2. /\ pc = "formatted" /\ pc' \in {"format", "idle", "control"} /\ met' = met /\ outside' = outside
          /\ rollover' = rollover /\ rollover
      BY <1>3 DEF FormatMagic, hist, RoomInv
    <2>3. HasRoom'
      BY <1>1, <2>1, Records DEF HasRoom
    <2>4. pc' \in {"idle", "control"} => cur'.addr # NoSector /\ cur'.st \in {"USING", "EMPTY"}
      <3>1. pc' \in {"idle", "control"} =>
              cur' = [Zero EXCEPT !.st = "EMPTY", !.start = NoTime, !.data = Cap, !.remain = Cap,
                                   !.end = cur.end, !.end_idx = cur.end_idx]
        BY <1>3 DEF FormatMagic
      <3>2. pc' \in {"idle", "control"} => cur'.addr = 0 /\ cur'.st = "EMPTY"
        BY <3>1 DEF Zero
      <3> QED BY <3>2, SectorFacts
    <2> QED BY <2>2, <2>3, <2>4, RoomStep DEF NoRoll
  <1> QED BY <1>2, <1>3

LEMMA RoomLoss ==
    ASSUME TypeInv, LogInv, TypeInv', LogInv', RoomInv, Rollover, PowerLoss
    PROVE  RoomInv'
  <1>1. sec' = sec /\ pc' = "boot" /\ met' = met \cup Window /\ outside' = outside
    BY DEF PowerLoss, PowerUp
  <1>2. HasRoom' = HasRoom
    BY <1>1 DEF HasRoom
  <1>3. NoRoll' => NoRoll /\ "roll" \notin Window
    BY <1>1 DEF NoRoll
  <1>4. CASE pc \notin {"next", "erase", "magic"}
    <2>1. NoRoll => HasRoom
      BY <1>4 DEF RoomInv, NoRoll
    <2> QED BY <1>1, <1>2, <1>3, <2>1, RoomStep
  <1>5. CASE pc \in {"next", "erase", "magic"}
    <2> DEFINE x == IF pc = "next" THEN Following(cur.addr) ELSE cur.addr
    <2>1. x \in Sectors
      BY <1>5, SectorFacts DEF TypeInv, Appending
    <2>2. sec[x].st # "EMPTY" => Window = {"roll"}
      BY <1>5 DEF Window
    <2>3. NoRoll' => HasRoom
      BY <1>3, <2>1, <2>2 DEF HasRoom
    <2> QED BY <1>1, <1>2, <1>3, <2>3, RoomStep
  <1> QED BY <1>4, <1>5

LEMMA RoomRest ==
    ASSUME TypeInv, LogInv, TypeInv', LogInv', RoomInv, Rollover,
           \/ Control \/ fdb_tsl_clean \/ Restart \/ Commit \/ EntryNowhere
           \/ Seal \/ Sealed \/ MarkFull \/ NextSector \/ Erase \/ Magic \/ MarkUsing \/ StartTime \/ Entry
    PROVE  RoomInv'
  <1>1. CASE Control
    <2>1. pc = "control" /\ pc' = "idle" /\ UNCHANGED <<cur, met, outside>> /\ rollover'
      BY <1>1 DEF Control, hist
    <2>2. NoRoll => cur.addr # NoSector /\ cur.st \in {"USING", "EMPTY"}
      BY <2>1 DEF RoomInv, NoRoll
    <2> QED BY <2>1, <2>2, RoomStep DEF NoRoll, Formatting
  <1>2. CASE fdb_tsl_clean \/ Restart
    <2>1. pc = "idle" /\ pc' \in {"format", "boot"} /\ UNCHANGED <<sec, met, outside>> /\ (pc' # "boot" => rollover' = rollover)
      BY <1>2 DEF fdb_tsl_clean, Restart, PowerUp, hist, ram
    <2>2. (NoRoll => HasRoom) /\ rollover
      BY <2>1 DEF RoomInv, NoRoll
    <2>3. HasRoom' = HasRoom
      BY <2>1 DEF HasRoom
    <2> QED BY <2>1, <2>2, <2>3, RoomStep DEF NoRoll
  <1>3. CASE Commit
    <2>1. pc = "commit" /\ pc' = "idle" /\ UNCHANGED <<met, outside, rollover>> /\ rollover
      BY <1>3 DEF Commit, RoomInv
    <2>2. cur'.addr = cur.addr /\ cur'.st = "USING" /\ cur.addr \in Sectors
      BY <1>3, <2>1, CommitDoes DEF TypeInv, Appending
    <2> QED BY <2>1, <2>2, SectorFacts, RoomStep DEF NoRoll, Formatting
  <1>4. CASE EntryNowhere
    <2>1. pc = "entry" /\ cur.addr = NoSector /\ met' = met /\ rollover' = rollover /\ rollover
      BY <1>4 DEF EntryNowhere, hist, RoomInv
    <2>2. ~NoRoll
      BY <2>1 DEF RoomInv, NoRoll
    <2> QED BY <2>1, <2>2, RoomStep DEF NoRoll
  <1>5. CASE Seal \/ Sealed \/ MarkFull \/ NextSector \/ Erase \/ Magic \/ MarkUsing \/ Entry
    <2>1. pc \in Appending /\ UNCHANGED <<met, outside, rollover>>
      BY <1>5 DEF Seal, Sealed, MarkFull, NextSector, Erase, Magic, MarkUsing, Entry, ram, hist, Appending
    <2>2. rollover
      BY <2>1 DEF RoomInv, Appending
    <2>3. pc' \in Appending \ {"entry"}
      BY <1>5, <2>2 DEF Seal, Sealed, MarkFull, NextSector, Erase, Magic, MarkUsing, Entry, Appending
    <2> QED BY <2>1, <2>2, <2>3, RoomStep DEF NoRoll, Formatting, Appending
  <1>6. CASE StartTime
    <2>1. pc = "start" /\ pc' = "entry" /\ UNCHANGED <<met, outside, rollover, cur>> /\ rollover
      BY <1>6 DEF StartTime, ram, hist, RoomInv
    <2>2. cur.addr \in Sectors /\ cur.addr # NoSector /\ cur.st = "USING"
      BY <2>1, SectorFacts DEF TypeInv, LogInv, Appending
    <2> QED BY <2>1, <2>2, RoomStep DEF NoRoll, Formatting
  <1> QED BY <1>1, <1>2, <1>3, <1>4, <1>5, <1>6

LEMMA RoomNext ==
    ASSUME TypeInv, LogInv, RoomInv, [Next]_vars
    PROVE  RoomInv'
  <1> SUFFICES ASSUME Rollover PROVE RoomInv'
    BY DEF RoomInv
  <1>0. TypeInv' /\ LogInv'
    BY TypeNext, LogNext
  <1>1. CASE Work
    BY <1>0, <1>1, RoomBoot, RoomFormat, RoomRest DEF Work
  <1>2. ASSUME NEW t \in Times, NEW n \in Lens, fdb_tsl_append(t, n) PROVE RoomInv'
    <2>1. pc = "idle" /\ pc' \in {"idle", "seal", "using", "entry"} /\ UNCHANGED <<cur, met, outside, rollover>>
      BY <1>2 DEF fdb_tsl_append, Begin, hist, ram
    <2>2. (NoRoll => cur.addr # NoSector /\ cur.st \in {"USING", "EMPTY"}) /\ rollover
      BY <2>1 DEF RoomInv, NoRoll
    <2> QED BY <1>0, <2>1, <2>2, RoomStep DEF NoRoll, Formatting
  <1>3. ASSUME NEW s \in Sectors, NEW i \in 1 .. Cap, NEW st \in {"USER_STATUS1", "DELETED"},
               fdb_tsl_set_status(s, i, st)
        PROVE  RoomInv'
    <2>1. pc = "idle" /\ pc' = "idle" /\ UNCHANGED <<cur, met, outside, rollover>>
      BY <1>3 DEF fdb_tsl_set_status, ram
    <2>2. (NoRoll => cur.addr # NoSector /\ cur.st \in {"USING", "EMPTY"}) /\ rollover
      BY <2>1 DEF RoomInv, NoRoll
    <2> QED BY <1>0, <2>1, <2>2, RoomStep DEF NoRoll, Formatting
  <1>4. CASE fdb_tsl_clean \/ Restart \/ PowerLoss
    BY <1>0, <1>4, RoomRest, RoomLoss
  <1>5. CASE UNCHANGED vars
    BY <1>5 DEF vars, RoomInv, ram, hist, HasRoom
  <1> QED BY <1>1, <1>2, <1>3, <1>4, <1>5 DEF Next

-----------------------------------------------------------------------------
(* The sectors in their order.                                             *)

LEMMA ArrangedOthers ==
    ASSUME NEW c \in Sectors, NEW o, Arranged(c, o)
    PROVE  /\ o \in Sectors
           /\ \A s \in Sectors : s # c => Ended(s, sec[s]) \/ sec[s] = Clean
           /\ c # o => Before(c) \in Sectors /\ Ended(Before(c), sec[Before(c)])
  <1>1. c \in 0 .. S - 1 /\ S \in Nat /\ S >= 2
    BY Consts DEF Sectors
  <1>2. CASE o = 0 /\ FirstRound(c)
    <2>1. \A s \in Sectors : s # c => s \in 0 .. c - 1 \/ s \in c + 1 .. S - 1
      BY <1>1 DEF Sectors
    <2>2. c # 0 => Before(c) \in 0 .. c - 1 /\ Before(c) \in Sectors
      BY <1>1, SectorFacts DEF Before, Sectors
    <2> QED BY <1>2, <2>1, <2>2, SectorFacts DEF FirstRound
  <1>3. CASE o = Following(c) /\ LaterRound(c)
    <2>0. Before(c) = IF c = 0 THEN S - 1 ELSE c - 1
      BY SectorFacts DEF Before
    <2>1. Before(c) \in Sectors /\ Before(c) # c
      BY <1>1, <2>0 DEF Sectors
    <2> QED BY <1>3, <2>1, SectorFacts DEF LaterRound
  <1> QED BY <1>2, <1>3 DEF Arranged

\* Only the other sectors matter, and of a sector that is full not its logs.
LEMMA ArrangedKept ==
    ASSUME NEW c \in Sectors, NEW o, Arranged(c, o),
           \A s \in Sectors : s # c => sec'[s] = sec[s] \/ (Ended(s, sec[s]) /\ Ended(s, sec'[s]))
    PROVE  Arranged(c, o)'
  <1>1. c \in 0 .. S - 1 /\ S \in Nat
    BY Consts DEF Sectors
  <1>2. \A s \in Sectors : s # c => (Ended(s, sec[s]) => Ended(s, sec'[s])) /\ (sec[s] = Clean => sec'[s] = Clean)
    <2>1. \A s \in Sectors : ~Ended(s, Clean)
      BY Records DEF Ended
    <2> QED BY <2>1
  <1>3. \A s : s \in 0 .. c - 1 \/ s \in c + 1 .. S - 1 => s \in Sectors /\ s # c
    BY <1>1 DEF Sectors
  <1>4. FirstRound(c) => FirstRound(c)'
    BY <1>2, <1>3 DEF FirstRound
  <1>5. LaterRound(c) => LaterRound(c)'
    BY <1>2 DEF LaterRound
  <1> QED BY <1>4, <1>5 DEF Arranged

LEMMA ArrangedSame ==
    ASSUME NEW c \in Sectors, NEW o, Arranged(c, o), Others(c)
    PROVE  Arranged(c, o)'
  BY ArrangedKept DEF Others

\* From a full sector on to the next one.
LEMMA ArrangedNext ==
    ASSUME NEW c \in Sectors, NEW o, Arranged(c, o), Ended(c, sec[c]), NEW s, s = Following(c)
    PROVE  \/ sec[s] = Clean /\ o = 0 /\ FirstRound(s)
           \/ Ended(s, sec[s]) /\ LaterRound(s)
  <1>1. c \in 0 .. S - 1 /\ S \in Nat /\ S >= 2
    BY Consts DEF Sectors
  <1>2. s \in Sectors /\ s # c /\ s = IF c = S - 1 THEN 0 ELSE c + 1
    BY SectorFacts
  <1>3. CASE o = 0 /\ FirstRound(c) /\ c # S - 1
    <2>1. s = c + 1 /\ s \in c + 1 .. S - 1
      BY <1>1, <1>2, <1>3
    <2>2. \A t \in 0 .. s - 1 : t = c \/ t \in 0 .. c - 1
      BY <1>1, <2>1
    <2>3. \A t \in s + 1 .. S - 1 : t \in c + 1 .. S - 1
      BY <1>1, <2>1
    <2> QED BY <1>3, <2>1, <2>2, <2>3 DEF FirstRound
  <1>4. CASE o = 0 /\ FirstRound(c) /\ c = S - 1
    <2>1. s = 0 /\ \A t \in Sectors : t = c \/ t \in 0 .. c - 1
      BY <1>1, <1>2, <1>4 DEF Sectors
    <2> QED BY <1>2, <1>4, <2>1 DEF FirstRound, LaterRound
  <1>5. CASE LaterRound(c)
    BY <1>2, <1>5 DEF LaterRound
  <1> QED BY <1>3, <1>4, <1>5 DEF Arranged

\* A freshly formatted database.
LEMMA ArrangedFresh ==
    ASSUME \A s \in Sectors : sec[s] = Clean
    PROVE  Arranged(0, 0)
  <1>1. \A s \in 0 .. 0 - 1 : FALSE
    OBVIOUS
  <1>2. \A s \in 0 + 1 .. S - 1 : s \in Sectors
    BY Consts DEF Sectors
  <1>3. FirstRound(0)
    BY <1>1, <1>2 DEF FirstRound
  <1> QED BY <1>3 DEF Arranged

\* What fdb_tsdb_init finds in sectors in their order.
LEMMA ArrangedBoot ==
    ASSUME NEW c \in Sectors, NEW o, Arranged(c, o), Open(sec[c])
    PROVE  Failing = {} /\ BootSector = c /\ BootOldest = o
  <1>1. c \in 0 .. S - 1 /\ S \in Nat /\ S >= 2
    BY Consts DEF Sectors
  <1>2. sec[c].magic /\ (sec[c] = Clean \/ sec[c].st = "USING")
    BY DEF Open
  <1>3. \A s \in Sectors : s # c => Ended(s, sec[s]) \/ sec[s] = Clean
    BY ArrangedOthers
  <1>4. \A s \in Sectors : sec[s].magic /\ (s # c => sec[s].st \in {"FULL", "EMPTY"})
    BY <1>2, <1>3, Records DEF Ended
  <1>5. InUse \subseteq {c} /\ InUse \subseteq Sectors /\ Empties \subseteq Sectors
    BY <1>4 DEF InUse, Empties
  <1>6. c \in InUse \/ (c \in Empties /\ InUse = {})
    BY <1>2, <1>5, Records DEF InUse, Empties
  <1>7. CASE o = 0 /\ FirstRound(c)
    <2>1. \A s \in 0 .. c - 1 : s \notin Empties /\ s \notin InUse
      BY <1>7 DEF FirstRound, Ended, Empties, InUse
    <2>2. \A s \in c + 1 .. S - 1 : s \in Empties
      BY <1>1, <1>7, Records DEF FirstRound, Empties, Sectors
    <2>3. \A s \in Empties \cup InUse : c <= s
      <3> TAKE s \in Empties \cup InUse
      <3>1. s \in 0 .. S - 1 /\ s \notin 0 .. c - 1
        BY <1>5, <2>1 DEF Sectors
      <3> QED BY <1>1, <3>1
    <2>4. Failing = {}
      <3>1. ASSUME NEW s \in Sectors, s \in InUse, NEW t \in InUse \cup Empties, t < s PROVE FALSE
        <4>1. s = c /\ c <= t /\ t \in Int
          BY <1>5, <2>3, <3>1, SectorFacts
        <4> QED BY <1>1, <3>1, <4>1
      <3> QED BY <1>4, <3>1 DEF Failing
    <2>5. CASE c \in InUse
      <3>1. InUse = {c} /\ Min(InUse) = c
        BY <1>5, <2>5, MinIs
      <3>2. BootSector = c
        BY <3>1 DEF BootSector
      <3>3. CASE Empties = {}
        <4>1. ~(S - 1 \in c + 1 .. S - 1)
          BY <2>2, <3>3
        <4>2. c = S - 1
          BY <1>1, <4>1
        <4>3. Latest = S - 1
          BY <3>1, <3>3, <4>2 DEF Latest
        <4> QED BY <1>1, <1>7, <2>4, <3>2, <4>3, SectorFacts DEF BootOldest
      <3>4. CASE Empties # {}
        <4>1. Max(Empties) \in Empties /\ \A y \in Empties : Max(Empties) >= y
          BY <1>5, <3>4, MaxIs
        <4>2. Max(Empties) # c
          BY <2>5, <4>1 DEF InUse, Empties
        <4>3. Max(Empties) \in 0 .. S - 1 /\ Max(Empties) >= c
          BY <1>5, <2>3, <4>1 DEF Sectors
        <4>4. S - 1 \in c + 1 .. S - 1
          BY <1>1, <4>2, <4>3
        <4>5. Max(Empties) = S - 1
          BY <1>1, <2>2, <4>1, <4>3, <4>4
        <4>6. Latest = S - 1
          BY <3>4, <4>5 DEF Latest
        <4> QED BY <1>1, <1>7, <2>4, <3>2, <4>6, SectorFacts DEF BootOldest
      <3> QED BY <3>3, <3>4
    <2>6. CASE c \in Empties /\ InUse = {}
      <3>1. Empties # {}
        BY <2>6
      <3>2. Min(Empties) \in Empties /\ \A y \in Empties : Min(Empties) <= y
        BY <1>5, <3>1, MinIs
      <3>3. Max(Empties) \in Empties /\ \A y \in Empties : Max(Empties) >= y
        BY <1>5, <3>1, MaxIs
      <3>4. Min(Empties) \in 0 .. S - 1 /\ Max(Empties) \in 0 .. S - 1
        BY <1>5, <3>2, <3>3 DEF Sectors
      <3>5. Min(Empties) <= c /\ c <= Min(Empties)
        BY <2>3, <2>6, <3>2
      <3>6. Min(Empties) = c
        BY <1>1, <3>4, <3>5
      <3>7. S - 1 \in Empties
        BY <1>1, <2>2, <2>6
      <3>8. Max(Empties) = S - 1
        BY <1>1, <3>3, <3>4, <3>7
      <3>9. BootSector = c /\ Latest = S - 1
        BY <2>6, <3>1, <3>6, <3>8 DEF BootSector, Latest
      <3> QED BY <1>1, <1>7, <2>4, <3>9, SectorFacts DEF BootOldest
    <2> QED BY <1>6, <2>5, <2>6
  <1>8. CASE o = Following(c) /\ LaterRound(c)
    <2>1. Empties \subseteq {c}
      BY <1>8 DEF LaterRound, Ended, Empties
    <2>2. Failing = {}
      <3>1. ASSUME NEW s \in Sectors, s \in InUse, NEW t \in InUse \cup Empties, t < s PROVE FALSE
        <4>1. s = c /\ t = c
          BY <1>5, <2>1, <3>1
        <4> QED BY <1>1, <3>1, <4>1
      <3> QED BY <1>4, <3>1 DEF Failing
    <2>3. CASE c \in InUse
      <3>1. InUse = {c} /\ Min(InUse) = c
        BY <1>5, <2>3, MinIs
      <3>2. Empties = {}
        BY <2>1, <2>3 DEF InUse, Empties
      <3>3. BootSector = c /\ Latest = c
        BY <3>1, <3>2 DEF BootSector, Latest
      <3> QED BY <1>8, <2>2, <3>3, SectorFacts DEF BootOldest
    <2>4. CASE c \in Empties /\ InUse = {}
      <3>1. Empties = {c} /\ Min(Empties) = c /\ Max(Empties) = c
        BY <1>5, <2>1, <2>4, MinIs, MaxIs
      <3>3. BootSector = c /\ Latest = c
        BY <2>4, <3>1 DEF BootSector, Latest
      <3> QED BY <1>8, <2>2, <3>3, SectorFacts DEF BootOldest
    <2> QED BY <1>6, <2>3, <2>4
  <1> QED BY <1>7, <1>8 DEF Arranged

\* The time of the last log, when fdb_tsdb_init reads it from sectors in their order.
LEMMA ArrangedTime ==
    ASSUME TypeInv, LogInv, NEW c \in Sectors, NEW o, Arranged(c, o), Open(sec[c]), NEW g \in Stack
    PROVE  /\ BootInfo(g).addr = c /\ BootInfo(g).st = sec[c].st /\ BootInfo(g).start = sec[c].start
           /\ sec[c].st = "EMPTY" => /\ BootTime(g) = IF c = o THEN 0 ELSE EndTime(sec[Before(c)])
                                     /\ BootInfo(g).remain = Cap
           /\ sec[c].st = "USING" => BootTime(g) = BootInfo(g).end /\ On(BootInfo(g), sec[c].tsls)
           /\ sec[c].st = "USING" /\ sec[c].tsls # << >> =>
                 /\ BootInfo(g).end = TimeOf(sec[c].tsls[Len(sec[c].tsls)])
                 /\ BootInfo(g).end_idx = At(c, Len(sec[c].tsls))
           /\ CurOK(BootInfo(g))
  <1> DEFINE r == BootInfo(g)
  <1>1. Failing = {} /\ BootSector = c /\ BootOldest = o /\ c # NoSector
    BY ArrangedBoot, SectorFacts
  <1>3. /\ CurOK(r) /\ r.addr = c /\ r.st = sec[c].st /\ Current(r, sec[c]) /\ r.start = sec[c].start
        /\ r.st = "EMPTY" => r.remain = Cap
        /\ r.st = "USING" /\ sec[c].tsls # << >> =>
              r.end = TimeOf(sec[c].tsls[Len(sec[c].tsls)]) /\ r.end_idx = At(c, Len(sec[c].tsls))
    BY <1>1, BootReads
  <1>4. sec[c].st = "USING" => BootTime(g) = r.end /\ On(r, sec[c].tsls)
    BY <1>3 DEF BootTime, Current
  <1>5. ASSUME sec[c].st = "EMPTY" PROVE BootTime(g) = IF c = o THEN 0 ELSE EndTime(sec[Before(c)])
    <2>1. CASE c = o
      BY <1>1, <1>3, <1>5, <2>1 DEF BootTime
    <2>2. CASE c # o
      <3> DEFINE b == Before(c)
                 old == Local(g)
      <3>1. b \in Sectors /\ Ended(b, sec[b])
        BY <2>2, ArrangedOthers
      <3>2. BootTime(g) = HeaderRead(b, old).end
        BY <1>1, <1>3, <1>5, <2>2 DEF BootTime, HeaderRead, Before
      <3>5. old.end_idx \in Int
        BY LocalIs
      <3> HIDE DEF b, old
      <3>3. sec[b].magic /\ HasEnd(sec[b])
        BY <3>1 DEF Ended, Counts
      <3>4. HeaderRead(b, old).end = EndTime(sec[b])
        BY <3>1, <3>3, <3>5, ReadHeader DEF TypeInv
      <3> QED BY <2>2, <3>2, <3>4 DEF b
    <2> QED BY <2>1, <2>2
  <1> QED BY <1>3, <1>4, <1>5

LEMMA SetNext ==
    ASSUME TypeInv, SetInv, [Next]_vars
    PROVE  SetInv'
  <1>0. CleanOp # NoOp
    BY DEF CleanOp, NoOp, NoTime
  <1>1. ASSUME NEW g \in Stack, Boot(g) PROVE SetInv'
    BY <1>0, <1>1 DEF Boot, SetInv, TypeInv, Appending, Formatting
  <1>2. CASE Control
    BY <1>2 DEF Control, SetInv
  <1>3. CASE FormatErase
    BY <1>3 DEF FormatErase, SetInv, ram, Appending, Formatting
  <1>4. CASE FormatMagic
    BY <1>0, <1>4 DEF FormatMagic, SetInv, Appending, Formatting
  <1>5. CASE Seal \/ Sealed \/ MarkFull \/ NextSector \/ Erase \/ Magic \/ MarkUsing \/ StartTime
             \/ Entry \/ Commit \/ EntryNowhere
    BY <1>5 DEF Seal, Sealed, MarkFull, NextSector, Erase, Magic, MarkUsing, StartTime, Entry, Commit,
                EntryNowhere, SetInv, ram, Appending, Formatting
  <1>6. ASSUME NEW t \in Times, NEW n \in Lens, fdb_tsl_append(t, n) PROVE SetInv'
    BY <1>6 DEF fdb_tsl_append, SetInv, ram
  <1>7. CASE fdb_tsl_clean
    BY <1>7 DEF fdb_tsl_clean, SetInv, ram
  <1>8. ASSUME NEW s \in Sectors, NEW i \in 1 .. Cap, NEW st \in {"USER_STATUS1", "DELETED"},
               fdb_tsl_set_status(s, i, st)
        PROVE  SetInv'
    BY <1>8 DEF fdb_tsl_set_status, SetInv, ram
  <1>9. CASE Restart \/ PowerLoss
    BY <1>9 DEF Restart, PowerLoss, PowerUp, SetInv, Appending, Formatting
  <1>10. CASE UNCHANGED vars
    BY <1>10 DEF vars, SetInv, ram
  <1> QED BY <1>1, <1>2, <1>3, <1>4, <1>5, <1>6, <1>7, <1>8, <1>9, <1>10 DEF Next, Work

LEMMA NeutralInit == Init => NeutralInv /\ SetInv
  <1> SUFFICES ASSUME Init PROVE NeutralInv /\ SetInv
    OBVIOUS
  <1>1. AtBoot /\ pc = "boot"
    BY DEF Init, AtBoot, Fresh
  <1> QED BY <1>1 DEF NeutralInv, SetInv, Formatting, Appending

\* Without a loss of power in one of the bad places there is a current sector, and it is known.
LEMMA QuietIs ==
    ASSUME TypeInv, LogInv, EndInv, RoomInv, Quiet
    PROVE  /\ NoRoll /\ "reseal" \notin met /\ (pc # "boot" => rollover)
           /\ pc \in {"idle", "control"} => cur.addr \in Sectors /\ cur.st \in {"USING", "EMPTY"} /\ Current(cur, sec[cur.addr])
           /\ pc # "sealed" => \A s \in Sectors : ~(Half(s, 1) /\ Half(s, 2))
  <1>1. NoRoll /\ "reseal" \notin met /\ Rollover
    BY DEF Quiet, NoRoll
  <1>2. pc \in {"idle", "control"} => cur.addr # NoSector /\ cur.st \in {"USING", "EMPTY"}
    BY <1>1 DEF RoomInv, NoRoll
  <1>3. pc \in {"idle", "control"} => cur.addr \in Sectors /\ Current(cur, sec[cur.addr])
    BY <1>2 DEF TypeInv, CurOK, LogInv
  <1> QED BY <1>1, <1>2, <1>3 DEF RoomInv, EndInv

LEMMA NoHang ==
    ASSUME \A s \in Sectors : ~(Half(s, 1) /\ Half(s, 2))
    PROVE  ~Hangs
  BY DEF Hangs, NoValidEnd, Half

LEMMA NeutralBoot ==
    ASSUME TypeInv, LogInv, EndInv, RoomInv, NeutralInv, Quiet, NEW g \in Stack, Boot(g)
    PROVE  NeutralInv'
  <1>1. pc = "boot" /\ sec' = sec /\ met' = met /\ AtBoot
    BY DEF Boot, NeutralInv, hist
  <1>2. ~Hangs
    BY <1>1, QuietIs, NoHang
  <1>3. ASSUME NEW c \in Sectors, NEW o \in Sectors, Arranged(c, o), Open(sec[c]), Filled(sec[c]) PROVE NeutralInv'
    <2>1. Failing = {} /\ BootOldest = o
      BY <1>3, ArrangedBoot
    <2>2. pc' = "control" /\ cur' = BootInfo(g) /\ oldest' = o /\ last_time' = BootTime(g)
      BY <1>2, <2>1 DEF Boot
    <2>3. /\ cur'.addr = c /\ cur'.st = sec[c].st /\ cur'.start = sec[c].start
          /\ sec[c].st = "EMPTY" => last_time' = IF c = o THEN 0 ELSE EndTime(sec[Before(c)])
          /\ sec[c].st = "USING" => last_time' = cur'.end
          /\ sec[c].st = "USING" /\ sec[c].tsls # << >> =>
                /\ cur'.end = TimeOf(sec[c].tsls[Len(sec[c].tsls)])
                /\ cur'.end_idx = At(c, Len(sec[c].tsls))
      BY <1>3, <2>2, ArrangedTime
    <2>4. Arranged(c, o)'
      BY <1>1, <1>3, ArrangedSame DEF Others
    <2>5. cur'.st = "EMPTY" => LastIs(cur.addr, oldest)'
      BY <1>1, <2>2, <2>3 DEF LastIs
    <2>6. cur'.st = "USING" => Known(sec[cur.addr])'
      BY <1>1, <2>2, <2>3 DEF Known
    <2>7. Arranged(cur.addr, oldest)'
      BY <2>2, <2>3, <2>4
    <2>8. cur'.addr \in Sectors /\ Open(sec'[cur'.addr]) /\ Filled(sec[cur.addr])'
      BY <1>1, <1>3, <2>3 DEF Filled
    <2>9. AtIdle'
      BY <2>5, <2>6, <2>7, <2>8 DEF AtIdle
    <2> QED BY <2>2, <2>9 DEF NeutralInv, Formatting
  <1>4. CASE \A s \in Sectors : sec[s] \in {Clean, Erased}
    <2>1. CASE \A s \in Sectors : sec[s] = Clean
      <3>1. Arranged(0, 0) /\ 0 \in Sectors /\ Open(sec[0]) /\ Filled(sec[0])
        BY <2>1, ArrangedFresh, SectorFacts, Records DEF Open, Filled
      <3> QED BY <1>3, <3>1
    <2>2. CASE \E s \in Sectors : sec[s] = Erased
      <3>1. Failing # {}
        BY <2>2, Records DEF Failing
      <3>2. pc' = "format"
        BY <1>2, <3>1 DEF Boot
      <3>3. Fresh'
        BY <1>1, <1>4 DEF Fresh
      <3> QED BY <3>2, <3>3 DEF NeutralInv, Formatting
    <2> QED BY <1>4, <2>1, <2>2
  <1> QED BY <1>1, <1>3, <1>4 DEF AtBoot, Fresh

LEMMA NeutralFormat ==
    ASSUME TypeInv, LogInv, EndInv, RoomInv, NeutralInv, Quiet, FormatErase \/ FormatMagic
    PROVE  NeutralInv'
  <1>1. fmt \in Sectors /\ fmt \in 0 .. S - 1 /\ S \in Nat
    BY Consts DEF TypeInv, Sectors
  <1>2. CASE FormatErase
    <2>1. pc = "format" /\ op' = op
      BY <1>2 DEF FormatErase
    <2>2. CASE NoValidEnd(fmt)
      <3>1. Half(fmt, 1) /\ Half(fmt, 2)
        BY <2>2 DEF NoValidEnd, Half
      <3> QED BY <1>1, <2>1, <3>1, QuietIs
    <2>3. CASE pc' = "formatted" /\ sec'[fmt] = Erased /\ Others(fmt)
      <3>1. Fresh => Fresh'
        BY <1>1, <2>3 DEF Fresh, Others
      <3> QED BY <2>1, <2>3, <3>1 DEF NeutralInv, Formatting
    <2> QED BY <1>2, <2>2, <2>3, FormatEraseDoes
  <1>3. CASE FormatMagic
    <2>1. sec'[fmt] = Clean /\ Others(fmt) /\ pc = "formatted"
      BY <1>3, FormatMagicDoes DEF FormatMagic
    <2>2. CASE fmt < S - 1
      <3>1. pc' = "format" /\ op' = op
        BY <1>3, <2>2 DEF FormatMagic
      <3>2. Fresh => Fresh'
        BY <1>1, <2>1 DEF Fresh, Others
      <3> QED BY <2>1, <3>1, <3>2 DEF NeutralInv, Formatting
    <2>3. CASE ~(fmt < S - 1)
      <3>1. /\ pc' \in {"idle", "control"} /\ oldest' = 0 /\ last_time' = 0
            /\ cur' = [Zero EXCEPT !.st = "EMPTY", !.start = NoTime, !.data = Cap, !.remain = Cap,
                                   !.end = cur.end, !.end_idx = cur.end_idx]
        BY <1>3, <2>3 DEF FormatMagic
      <3>2. cur'.addr = 0 /\ cur'.st = "EMPTY" /\ 0 \in Sectors
        BY <3>1, SectorFacts DEF Zero
      <3>3. \A s \in Sectors : s = fmt \/ s \in 0 .. fmt - 1
        BY <1>1, <2>3 DEF Sectors
      <3>4. \A s \in Sectors : sec'[s] = Clean
        BY <2>1, <3>3 DEF Others, LogInv, Formatting
      <3>5. (\A s \in Sectors : sec[s] = Clean)' => Arranged(0, 0)'
        BY ArrangedFresh, PTL
      <3>6. Arranged(cur.addr, oldest)'
        BY <3>1, <3>2, <3>4, <3>5
      <3>7. cur'.addr \in Sectors /\ Open(sec'[cur'.addr]) /\ Filled(sec[cur.addr])'
        BY <3>2, <3>4, Records DEF Open, Filled
      <3>8. LastIs(cur.addr, oldest)'
        BY <3>1, <3>2 DEF LastIs
      <3>9. AtIdle'
        BY <3>2, <3>6, <3>7, <3>8 DEF AtIdle
      <3> QED BY <3>1, <3>9 DEF NeutralInv, Formatting
    <2> QED BY <2>2, <2>3
  <1> QED BY <1>2, <1>3

LEMMA NeutralStart ==
    ASSUME TypeInv, LogInv, EndInv, RoomInv, NeutralInv, Quiet,
           NEW t \in Times, NEW n \in Lens, fdb_tsl_append(t, n)
    PROVE  NeutralInv'
  <1> DEFINE c == cur.addr
  <1>1. UNCHANGED <<sec, cur, oldest, last_time, met>> /\ pc = "idle" /\ pc' \in {"idle", "seal", "using", "entry"}
    BY DEF fdb_tsl_append, ram, Begin, hist
  <1>2. AtIdle /\ cur.st \in {"USING", "EMPTY"} /\ cur.st = sec[c].st /\ c \in Sectors
    BY <1>1, QuietIs DEF NeutralInv, Current
  <1>3. pc' \in {"seal", "entry"} => cur.st = "USING"
    BY <1>2 DEF fdb_tsl_append, Begin
  <1>4. pc' = "using" => cur.st = "EMPTY"
    BY <1>2 DEF fdb_tsl_append, Begin
  <1>5. sec[c].magic /\ Arranged(c, oldest) /\ Open(sec[c])
    BY <1>2 DEF AtIdle, Open
  <1>6. Arranged(c, oldest)'
    BY <1>1, <1>2, <1>5, ArrangedSame DEF Others
  <1>7. InPlace'
    BY <1>1, <1>2, <1>5, <1>6 DEF InPlace
  <1>8. Filled(sec[cur.addr])' /\ (cur.st = "USING" => OpenEnds(sec[c]) /\ cur.start = sec[c].start)
    BY <1>1, <1>2, Records DEF AtIdle, Open, Filled, Known
  <1>9. cur.st = "EMPTY" => sec[c] = Clean
    BY <1>2 DEF AtIdle, Open
  <1>10. CASE pc' = "idle"
    <2>1. AtIdle'
      BY <1>1, <1>2, <1>6, <1>8 DEF AtIdle, LastIs, Known
    <2> QED BY <1>10, <2>1 DEF NeutralInv, Formatting
  <1>11. CASE pc' = "seal"
    <2>1. AtSeal'
      BY <1>1, <1>3, <1>7, <1>8, <1>11 DEF AtSeal
    <2> QED BY <1>11, <2>1 DEF NeutralInv, Formatting
  <1>12. CASE pc' = "entry"
    <2>1. AtEntry'
      BY <1>1, <1>3, <1>7, <1>8, <1>12 DEF AtEntry
    <2> QED BY <1>12, <2>1 DEF NeutralInv, Formatting
  <1>13. CASE pc' = "using"
    <2>1. AtUsing'
      BY <1>1, <1>4, <1>7, <1>9, <1>13 DEF AtUsing
    <2> QED BY <1>13, <2>1 DEF NeutralInv, Formatting
  <1> QED BY <1>1, <1>10, <1>11, <1>12, <1>13

\* The current sector stays in its place when only it is written to.
LEMMA StayInPlace ==
    ASSUME InPlace, Others(cur.addr), UNCHANGED oldest, cur'.addr = cur.addr,
           sec'[cur.addr].magic = sec[cur.addr].magic
    PROVE  InPlace'
  <1>1. Arranged(cur.addr, oldest)'
    BY ArrangedSame DEF InPlace
  <1> QED BY <1>1 DEF InPlace

LEMMA NeutralFull ==
    ASSUME TypeInv, LogInv, EndInv, RoomInv, NeutralInv, Quiet, Seal \/ Sealed \/ MarkFull
    PROVE  NeutralInv'
  <1> DEFINE c == cur.addr
             k0 == Min(FreeEnds)
  <1>0. CurOK(cur)
    BY DEF TypeInv
  <1>1. CASE Seal
    <2>1. UNCHANGED <<cur, oldest, last_time, met>> /\ pc = "seal" /\ AtSeal
      BY <1>1 DEF Seal, ram, hist, NeutralInv
    <2>2. /\ c \in Sectors /\ SameEnds(cur, sec[c]) /\ OpenEnds(sec[c]) /\ InPlace /\ Filled(sec[c])
          /\ cur.idx = Len(sec[c].tsls)
      BY <2>1, SectorFacts DEF AtSeal, InPlace, LogInv, Current, On
    <2>3. cur.ends[1] # "WRITE" /\ cur.ends[2] = "UNUSED"
      BY <2>2 DEF OpenEnds, SameEnds
    <2>4. FreeEnds # {} /\ Min(FreeEnds)' = k0
      BY <2>1, <2>3 DEF FreeEnds
    <2>5. /\ pc' = "sealed" /\ Others(c) /\ SameBut(c, "ends")
          /\ sec'[c].ends[k0] = [st |-> "PRE_WRITE", time |-> last_time, idx |-> At(c, cur.idx)]
      BY <1>1, <2>4, SealDoes
    <2>6. InPlace'
      BY <2>1, <2>2, <2>5, StayInPlace DEF SameBut
    <2>7. /\ sec'[c].ends[k0].time = last_time /\ sec'[c].ends[k0].idx = At(c, Len(sec'[c].tsls))
          /\ Filled(sec[cur.addr])'
      BY <2>1, <2>2, <2>5 DEF SameBut, Filled
    <2> HIDE DEF k0
    <2>8. AtSealed'
      BY <2>1, <2>3, <2>4, <2>6, <2>7 DEF AtSealed
    <2> QED BY <2>5, <2>8 DEF NeutralInv, Formatting
  <1>2. CASE Sealed
    <2>1. UNCHANGED <<cur, oldest, last_time>> /\ pc = "sealed" /\ pc' = "full" /\ AtSealed /\ FreeEnds # {}
      BY <1>2 DEF Sealed, ram, NeutralInv, LogInv
    <2>2. /\ Others(c) /\ SameBut(c, "ends") /\ sec'[c].ends[k0].st = "WRITE"
          /\ sec'[c].ends[k0].time = sec[c].ends[k0].time /\ sec'[c].ends[k0].idx = sec[c].ends[k0].idx
          /\ \A k \in {1, 2} : k # k0 => sec'[c].ends[k] = sec[c].ends[k]
      BY <1>2, <2>1, SealedDoes
    <2>3. InPlace'
      BY <2>1, <2>2, StayInPlace DEF SameBut, AtSealed
    <2>4. k0 \in {1, 2}
      BY <1>0, <2>1, FirstFree
    <2>5. k0 = 2 => sec[c].ends[1].st # "WRITE"
      BY <2>1 DEF EndInv, AtSealed
    <2>6. sec[c].ends[k0].time = last_time /\ sec[c].ends[k0].idx = At(c, Len(sec[c].tsls))
      BY <2>1 DEF AtSealed
    <2> HIDE DEF k0
    <2>7. EndTime(sec'[c]) = last_time
      BY <2>2, <2>4, <2>5, <2>6 DEF EndTime
    <2>8. Counts(c, sec'[c])
      BY <2>2, <2>4, <2>5, <2>6 DEF Counts, HasEnd, EndIdx, SameBut
    <2>9. AtFull'
      BY <2>1, <2>3, <2>7, <2>8 DEF AtFull
    <2> QED BY <2>1, <2>9 DEF NeutralInv, Formatting
  <1>3. CASE MarkFull
    <2>1. /\ UNCHANGED <<oldest, last_time>> /\ pc = "full" /\ AtFull /\ cur' = [cur EXCEPT !.st = "FULL"]
      BY <1>3 DEF MarkFull, NeutralInv
    <2>2. rollover
      BY <2>1, QuietIs
    <2>3. pc' = "next" /\ c \in Sectors
      BY <1>3, <2>1, <2>2 DEF MarkFull, AtFull, InPlace
    <2>4. Others(c) /\ SameBut(c, "st") /\ sec'[c].st = "FULL"
      BY <1>3, <2>3, StatusDoes DEF MarkFull, Statuses
    <2>5. cur'.addr = c
      BY <1>0, <2>1 DEF CurOK
    <2>6. InPlace'
      BY <2>1, <2>4, <2>5, StayInPlace DEF SameBut, AtFull
    <2>7. EndTime(sec'[c]) = last_time /\ Ended(c, sec'[c])
      BY <2>1, <2>4 DEF SameBut, AtFull, EndTime, EndIdx, Counts, HasEnd, Ended, InPlace
    <2>8. AtNext'
      BY <2>1, <2>5, <2>6, <2>7 DEF AtNext
    <2> QED BY <2>3, <2>8 DEF NeutralInv, Formatting
  <1> QED BY <1>1, <1>2, <1>3

LEMMA NeutralRoll ==
    ASSUME TypeInv, LogInv, EndInv, RoomInv, NeutralInv, Quiet, NextSector \/ Erase \/ Magic
    PROVE  NeutralInv'
  <1> DEFINE c == cur.addr
  <1>0. CurOK(cur) /\ FlashOK(sec) /\ (pc \in {"next", "erase", "magic"} => c \in Sectors)
    BY DEF TypeInv, Appending
  <1>1. CASE NextSector
    <2> DEFINE s == Following(c)
    <2>1. /\ sec' = sec /\ pc = "next" /\ cur' = HeaderRead(s, cur)
          /\ (cur'.st = "EMPTY" => pc' = "using" /\ oldest' = oldest)
          /\ (cur'.st # "EMPTY" => pc' = "erase" /\ oldest' = Following(s))
      BY <1>1 DEF NextSector, HeaderRead
    <2>2. AtNext /\ c \in Sectors /\ s \in Sectors
      BY <1>0, <2>1, SectorFacts DEF NeutralInv
    <2>3. Arranged(c, oldest) /\ Ended(c, sec[c])
      BY <2>2 DEF AtNext, InPlace
    <2>4. \/ sec[s] = Clean /\ oldest = 0 /\ FirstRound(s)
          \/ Ended(s, sec[s]) /\ LaterRound(s)
      BY <2>2, <2>3, ArrangedNext
    <2>5. sec[s].magic
      BY <2>4, Records DEF Ended
    <2> HIDE DEF s
    <2>6. cur'.addr = s /\ cur'.st = sec[s].st
      <3>1. cur.end_idx \in Int
        BY <1>0 DEF CurOK
      <3> QED BY <1>0, <2>1, <2>2, <2>5, <3>1, ReadHeader
    <2>7. CASE sec[s] = Clean /\ oldest = 0 /\ FirstRound(s)
      <3>1. pc' = "using" /\ oldest' = oldest
        BY <2>1, <2>6, <2>7, Records
      <3>2. Arranged(s, oldest)
        BY <2>7 DEF Arranged
      <3>3. Arranged(cur.addr, oldest)'
        BY <2>1, <2>2, <2>6, <3>1, <3>2, ArrangedSame DEF Others
      <3>4. AtUsing'
        BY <2>1, <2>2, <2>5, <2>6, <2>7, <3>3 DEF AtUsing, InPlace
      <3> QED BY <3>1, <3>4 DEF NeutralInv, Formatting
    <2>8. CASE Ended(s, sec[s]) /\ LaterRound(s)
      <3>1. pc' = "erase" /\ oldest' = Following(s) /\ sec[s].st = "FULL"
        BY <2>1, <2>6, <2>8 DEF Ended
      <3>2. AtErase'
        BY <2>1, <2>6, <2>8, <3>1 DEF AtErase, LaterRound
      <3> QED BY <3>1, <3>2 DEF NeutralInv, Formatting
    <2> QED BY <2>4, <2>7, <2>8
  <1>2. CASE Erase
    <2>1. UNCHANGED <<cur, oldest>> /\ pc = "erase" /\ pc' = "magic" /\ sec' = [sec EXCEPT ![c] = Erased] /\ AtErase
      BY <1>2 DEF Erase, ram, NeutralInv
    <2>2. Others(c) /\ sec'[c] = Erased
      BY <1>0, <2>1, EraseDoes
    <2>3. AtMagic'
      BY <2>1, <2>2 DEF AtErase, AtMagic, LaterRound, Others
    <2> QED BY <2>1, <2>3 DEF NeutralInv, Formatting
  <1>3. CASE Magic
    <2>1. /\ UNCHANGED oldest /\ pc = "magic" /\ pc' = "using" /\ AtMagic /\ sec' = [sec EXCEPT ![c] = Clean]
          /\ cur' = Emptied(cur)
      BY <1>3 DEF Magic, NeutralInv, Emptied
    <2>2. Others(c) /\ sec'[c] = Clean
      BY <1>0, <2>1, EraseDoes
    <2>3. cur'.addr = c
      BY <1>0, <2>1, ErasedCur
    <2>4. Arranged(c, oldest)
      BY <2>1 DEF AtMagic, Arranged
    <2>5. Arranged(cur.addr, oldest)'
      BY <1>0, <2>1, <2>2, <2>3, <2>4, ArrangedSame
    <2>6. AtUsing'
      BY <1>0, <2>1, <2>2, <2>3, <2>5, Records DEF AtUsing, InPlace
    <2> QED BY <2>1, <2>6 DEF NeutralInv, Formatting
  <1> QED BY <1>1, <1>2, <1>3

LEMMA NeutralWrite ==
    ASSUME TypeInv, LogInv, EndInv, RoomInv, NeutralInv, Quiet,
           MarkUsing \/ StartTime \/ Entry \/ Commit \/ EntryNowhere
    PROVE  NeutralInv'
  <1> DEFINE c == cur.addr
  <1>0. CurOK(cur)
    BY DEF TypeInv
  <1>1. CASE MarkUsing
    <2>1. /\ UNCHANGED <<oldest, op>> /\ pc = "using" /\ pc' = "start" /\ AtUsing
          /\ cur' = [cur EXCEPT !.st = "USING", !.start = op.time]
      BY <1>1 DEF MarkUsing, NeutralInv
    <2>2. InPlace /\ c \in Sectors /\ sec[c] = Clean
      BY <2>1 DEF AtUsing, InPlace
    <2>3. Others(c) /\ SameBut(c, "st")
      BY <1>1, <2>2, StatusDoes DEF MarkUsing, Statuses
    <2>4. cur'.addr = c /\ cur'.start = op.time
      BY <1>0, <2>1 DEF CurOK
    <2>5. InPlace'
      BY <2>1, <2>2, <2>3, <2>4, StayInPlace DEF SameBut
    <2>6. OpenEnds(sec'[c])
      BY <2>2, <2>3, Records DEF SameBut, OpenEnds
    <2>7. AtStart'
      BY <2>1, <2>4, <2>5, <2>6 DEF AtStart
    <2> QED BY <2>1, <2>7 DEF NeutralInv, Formatting
  <1>2. CASE StartTime
    <2>1. UNCHANGED <<cur, oldest, op>> /\ pc = "start" /\ pc' = "entry" /\ AtStart
      BY <1>2 DEF StartTime, ram, NeutralInv
    <2>2. InPlace /\ c \in Sectors /\ OpenEnds(sec[c]) /\ cur.start = op.time
      BY <2>1 DEF AtStart, InPlace
    <2>3. Others(c) /\ SameBut(c, "start") /\ sec'[c].start = op.time
      BY <1>2, <2>2, StartDoes DEF StartTime
    <2>4. InPlace'
      BY <2>1, <2>2, <2>3, StayInPlace DEF SameBut
    <2>5. OpenEnds(sec'[c])
      BY <2>2, <2>3 DEF SameBut, OpenEnds
    <2>6. AtEntry'
      BY <2>1, <2>2, <2>3, <2>4, <2>5 DEF AtEntry
    <2> QED BY <2>1, <2>6 DEF NeutralInv, Formatting
  <1>3. CASE Entry
    <2>1. UNCHANGED <<cur, oldest>> /\ pc = "entry" /\ pc' = "commit" /\ AtEntry
      BY <1>3 DEF Entry, ram, NeutralInv
    <2>2. InPlace /\ c \in Sectors /\ OpenEnds(sec[c]) /\ cur.start = sec[c].start
      BY <2>1 DEF AtEntry, InPlace
    <2>3. Others(c) /\ SameBut(c, "tsls")
      BY <1>3, EntryDoes
    <2>4. InPlace'
      BY <2>1, <2>2, <2>3, StayInPlace DEF SameBut
    <2>5. OpenEnds(sec'[c]) /\ cur.start = sec'[c].start
      BY <2>2, <2>3 DEF SameBut, OpenEnds
    <2>6. AtEntry'
      BY <2>1, <2>4, <2>5 DEF AtEntry
    <2> QED BY <2>1, <2>6 DEF NeutralInv, Formatting
  <1>4. CASE Commit
    <2>1. UNCHANGED <<oldest, met>> /\ last_time' = op.time /\ pc = "commit" /\ pc' = "idle" /\ AtEntry
      BY <1>4 DEF Commit, NeutralInv
    <2>2. InPlace /\ c \in Sectors /\ OpenEnds(sec[c]) /\ cur.start = sec[c].start
      BY <2>1 DEF AtEntry, InPlace
    <2>3. /\ Others(c) /\ SameBut(c, "tsls") /\ sec'[c].tsls # << >>
          /\ cur'.addr = c /\ Current(cur', sec'[c]) /\ cur'.st = "USING"
          /\ cur'.start = cur.start /\ cur'.end = op.time /\ cur'.end_idx = At(c, Len(sec'[c].tsls))
          /\ TimeOf(sec'[c].tsls[Len(sec'[c].tsls)]) = op.time
      BY <1>4, CommitDoes
    <2>4. InPlace'
      BY <2>1, <2>2, <2>3, StayInPlace DEF SameBut
    <2>5. OpenEnds(sec'[c]) /\ cur'.start = sec'[c].start /\ sec'[c].st = "USING" /\ sec'[c].magic
      BY <2>2, <2>3 DEF SameBut, OpenEnds, Current, InPlace
    <2>6. Open(sec'[c]) /\ Filled(sec[cur.addr])'
      BY <2>3, <2>5 DEF Open, Filled
    <2>7. Known(sec[cur.addr])'
      BY <2>1, <2>3, <2>5 DEF Known
    <2>8. AtIdle'
      BY <2>3, <2>4, <2>6, <2>7 DEF AtIdle, InPlace
    <2> QED BY <2>1, <2>8 DEF NeutralInv, Formatting
  <1>5. CASE EntryNowhere
    <2>1. pc = "entry" /\ c = NoSector
      BY <1>5 DEF EntryNowhere
    <2> QED BY <2>1, SectorFacts DEF NeutralInv, AtEntry, InPlace
  <1> QED BY <1>1, <1>2, <1>3, <1>4, <1>5

LEMMA NeutralStatus ==
    ASSUME TypeInv, LogInv, EndInv, RoomInv, NeutralInv, Quiet,
           NEW s \in Sectors, NEW i \in 1 .. Cap, NEW st \in {"USER_STATUS1", "DELETED"},
           fdb_tsl_set_status(s, i, st)
    PROVE  NeutralInv'
  <1> DEFINE c == cur.addr
  <1>1. UNCHANGED <<cur, oldest, last_time, met>> /\ pc = "idle" /\ pc' = "idle" /\ AtIdle
    BY DEF fdb_tsl_set_status, ram, NeutralInv
  <1>2. /\ Others(s) /\ SameBut(s, "tsls") /\ sec[s].tsls # << >> /\ sec'[s].tsls # << >>
        /\ Len(sec'[s].tsls) = Len(sec[s].tsls)
        /\ TimeOf(sec'[s].tsls[Len(sec[s].tsls)]) = TimeOf(sec[s].tsls[Len(sec[s].tsls)])
    BY SetStatusDoes
  <1>3. c \in Sectors /\ Arranged(c, oldest) /\ Open(sec[c])
    BY <1>1 DEF AtIdle
  <1>4. \A x \in Sectors : x # c => sec'[x] = sec[x] \/ (Ended(x, sec[x]) /\ Ended(x, sec'[x]))
    <2>1. s # c => Ended(s, sec[s])
      BY <1>2, <1>3, ArrangedOthers, Records
    <2>2. s # c => Ended(s, sec'[s])
      BY <1>2, <2>1 DEF Ended, Counts, HasEnd, EndIdx, SameBut
    <2> QED BY <1>2, <2>1, <2>2 DEF Others
  <1>5. Arranged(c, oldest)'
    BY <1>1, <1>3, <1>4, ArrangedKept
  <1>6. Open(sec'[c])
    <2>1. CASE s = c
      BY <1>2, <1>3, <2>1, Records DEF Open, OpenEnds, SameBut
    <2>2. CASE s # c
      BY <1>2, <1>3, <2>2 DEF Others
    <2> QED BY <2>1, <2>2
  <1>7. cur.st = "EMPTY" => LastIs(cur.addr, oldest)'
    <2>1. \A x \in Sectors : EndTime(sec'[x]) = EndTime(sec[x])
      BY <1>2 DEF EndTime, Others, SameBut
    <2>2. c # oldest => Before(c) \in Sectors
      BY <1>3, ArrangedOthers
    <2> QED BY <1>1, <2>1, <2>2 DEF AtIdle, LastIs
  <1>8. cur.st = "USING" => Known(sec[cur.addr])'
    <2>1. /\ sec'[c].start = sec[c].start /\ Len(sec'[c].tsls) = Len(sec[c].tsls)
          /\ TimeOf(sec'[c].tsls[Len(sec'[c].tsls)]) = TimeOf(sec[c].tsls[Len(sec[c].tsls)])
      BY <1>2, <1>3 DEF Others, SameBut
    <2>2. sec'[c].tsls # << >> => sec[c].tsls # << >>
      BY <1>2, <1>3 DEF Others
    <2> QED BY <1>1, <2>1, <2>2 DEF AtIdle, Known
  <1>10. Filled(sec[cur.addr])'
    BY <1>1, <1>2, <1>3 DEF AtIdle, Filled, Others, SameBut
  <1>9. AtIdle'
    BY <1>1, <1>3, <1>5, <1>6, <1>7, <1>8, <1>10 DEF AtIdle
  <1> QED BY <1>1, <1>9 DEF NeutralInv, Formatting

FilledThen(h) == h.st = "USING" /\ "start" \notin met' => h.tsls # << >>

\* Power is lost: the flash is one that fdb_tsdb_init can start from, with the oldest sector where it was.
LEMMA LossLeaves ==
    ASSUME TypeInv, LogInv, EndInv, RoomInv, NeutralInv, Quiet, Quiet', PowerLoss
    PROVE  \/ Fresh /\ pc \in Formatting
           \/ /\ pc \in Appending \ {"erase"} /\ oldest \in Sectors
              /\ \E b \in Sectors : Arranged(b, oldest) /\ Open(sec[b]) /\ FilledThen(sec[b])
  <1> DEFINE c == cur.addr
             h == sec[c]
  <1>1. /\ sec' = sec /\ pc' = "boot" /\ met' = met \cup Window
        /\ pc \notin {"idle", "boot", "hung", "control"}
    BY DEF PowerLoss, PowerUp
  <1>2. Window \subseteq {"seal", "start", "entry"}
    BY <1>1 DEF Quiet
  <1>3. pc \in Formatting \cup Appending
    BY <1>1 DEF TypeInv
  <1> DEFINE Goal == oldest \in Sectors /\ \E b \in Sectors : Arranged(b, oldest) /\ Open(sec[b]) /\ FilledThen(sec[b])
  <1>5. ASSUME InPlace, Open(h), FilledThen(h) PROVE Goal
    <2>1. c \in Sectors /\ Arranged(c, oldest) /\ oldest \in Sectors
      BY <1>5, ArrangedOthers DEF InPlace
    <2> QED BY <1>5, <2>1
  <1>16. ASSUME Filled(h) PROVE FilledThen(h)
    BY <1>1, <1>16 DEF Filled, FilledThen
  <1> HIDE DEF Goal
  <1>6. CASE pc \in Formatting
    <2>1. op # CleanOp
      <3>1. op = CleanOp => Window = {"clean"}
        BY <1>6 DEF Window, Formatting
      <3> QED BY <1>2, <3>1
    <2>2. op = NoOp
      BY <1>6, <2>1 DEF TypeInv
    <2> QED BY <1>6, <2>2 DEF NeutralInv
  <1>7. ASSUME pc = "seal" PROVE Goal
    <2>1. AtSeal /\ h.st = "USING"
      BY <1>7, SectorFacts DEF NeutralInv, AtSeal, InPlace, LogInv, Current
    <2> QED BY <1>5, <1>16, <2>1 DEF AtSeal, Open, InPlace
  <1>8. ASSUME pc = "sealed" PROVE Goal
    <2>1. AtSealed /\ h.st = "USING" /\ FreeEnds # {} /\ CurOK(cur) /\ c \in Sectors
      BY <1>8 DEF NeutralInv, AtSealed, InPlace, LogInv, TypeInv
    <2>2. "seal" \notin met /\ "reseal" \notin met
      <3>1. Window = IF "seal" \in met THEN {"reseal"} ELSE {"seal"}
        BY <1>8 DEF Window
      <3> QED BY <1>2, <3>1, QuietIs
    <2>3. \A k \in 1 .. 2 : Half(c, k) => k = Min(FreeEnds)
      BY <2>1, <2>2 DEF EndInv
    <2>4. Min(FreeEnds) = 1
      <3>1. CASE cur.ends[1] = "UNUSED"
        BY <2>1, <3>1, FirstFree
      <3>2. CASE cur.ends[1] # "UNUSED"
        <4>1. cur.ends[1] = "PRE_WRITE"
          BY <2>1, <3>2 DEF AtSealed, CurOK, EndStatuses
        <4>2. Min(FreeEnds) # 1 => Half(c, 1)
          BY <1>8, <4>1 DEF EndInv, Half
        <4> QED BY <2>3, <4>2
      <3> QED BY <3>1, <3>2
    <2>5. h.ends[1].st = "PRE_WRITE" /\ h.ends[2].st = "UNUSED"
      BY <1>8, <2>1, <2>4 DEF EndInv, Half, AtSealed
    <2> QED BY <1>5, <1>16, <2>1, <2>5 DEF AtSealed, Open, OpenEnds, InPlace
  <1>9. ASSUME pc = "full" PROVE Goal
    <2>1. Window = {"full"}
      BY <1>9 DEF Window
    <2> QED BY <1>2, <2>1
  <1>10. ASSUME pc = "next" PROVE Goal
    <2> DEFINE s == Following(c)
    <2>1. AtNext /\ c \in Sectors /\ s \in Sectors
      BY <1>10, SectorFacts DEF NeutralInv, AtNext, InPlace
    <2>2. Arranged(c, oldest) /\ Ended(c, h)
      BY <2>1 DEF AtNext, InPlace
    <2>3. sec[s].st # "EMPTY" => Window = {"roll"}
      BY <1>10 DEF Window
    <2>4. sec[s].st = "EMPTY"
      BY <1>2, <2>3
    <2>5. sec[s] = Clean /\ oldest = 0 /\ FirstRound(s)
      BY <2>1, <2>2, <2>4, ArrangedNext DEF Ended
    <2>6. Arranged(s, oldest) /\ oldest \in Sectors /\ Open(sec[s]) /\ FilledThen(sec[s])
      BY <2>5, SectorFacts, Records DEF Arranged, Open, FilledThen
    <2> HIDE DEF s
    <2> QED BY <2>1, <2>6 DEF Goal
  <1>11. ASSUME pc \in {"erase", "magic"} PROVE Goal
    <2>1. h.st # "EMPTY"
      BY <1>11, Records DEF NeutralInv, AtErase, AtMagic
    <2>2. Window = {"roll"}
      BY <1>11, <2>1 DEF Window
    <2> QED BY <1>2, <2>2
  <1>12. ASSUME pc = "using" PROVE Goal
    <2>1. AtUsing
      BY <1>12 DEF NeutralInv
    <2>2. Filled(h)
      BY <2>1, Records DEF AtUsing, Filled
    <2> QED BY <1>5, <1>16, <2>1, <2>2, Records DEF AtUsing, Open
  <1>13. ASSUME pc = "start" PROVE Goal
    <2>1. Window = {"start"} /\ AtStart
      BY <1>13 DEF Window, LogInv, NeutralInv
    <2>2. h.st = "USING"
      <3>1. c # NoSector
        BY <2>1, SectorFacts DEF AtStart, InPlace
      <3> QED BY <1>13, <3>1 DEF LogInv, Current
    <2>3. FilledThen(h)
      BY <1>1, <2>1 DEF FilledThen
    <2> QED BY <1>5, <2>1, <2>2, <2>3 DEF AtStart, Open, InPlace
  <1>14. ASSUME pc = "entry" PROVE Goal
    <2>1. AtEntry
      BY <1>14 DEF NeutralInv
    <2>2. FilledThen(h)
      <3>1. h.tsls = << >> => Window = {"start"}
        BY <1>14 DEF Window
      <3> QED BY <1>1, <3>1 DEF FilledThen
    <2>3. h.st = "USING"
      BY <1>14, <2>1, SectorFacts DEF LogInv, Current, AtEntry, InPlace
    <2> QED BY <1>5, <2>1, <2>2, <2>3 DEF AtEntry, Open, InPlace
  <1>15. ASSUME pc = "commit" PROVE Goal
    <2>1. AtEntry /\ h.st = "USING" /\ h.tsls # << >>
      BY <1>15 DEF NeutralInv, LogInv, Begun
    <2>2. FilledThen(h)
      BY <1>1, <2>1 DEF FilledThen
    <2> QED BY <1>5, <2>1, <2>2 DEF AtEntry, Open, InPlace
  <1>17. pc \in Appending => Goal
    BY <1>7, <1>8, <1>9, <1>10, <1>11, <1>12, <1>13, <1>14, <1>15 DEF Appending
  <1>18. pc # "erase"
    <2>1. pc = "erase" => Window = {"roll"}
      BY DEF Window, NeutralInv, AtErase
    <2> QED BY <1>2, <2>1
  <1> QED BY <1>3, <1>6, <1>17, <1>18 DEF Goal

LEMMA NeutralLoss ==
    ASSUME TypeInv, LogInv, EndInv, RoomInv, NeutralInv, Quiet, Quiet', PowerLoss
    PROVE  NeutralInv'
  <1>1. sec' = sec /\ pc' = "boot"
    BY DEF PowerLoss, PowerUp
  <1>2. CASE Fresh
    <2>1. AtBoot'
      BY <1>1, <1>2 DEF AtBoot, Fresh
    <2> QED BY <1>1, <2>1 DEF NeutralInv, Formatting
  <1>3. CASE oldest \in Sectors /\ \E b \in Sectors : Arranged(b, oldest) /\ Open(sec[b]) /\ FilledThen(sec[b])
    <2>1. PICK b \in Sectors : Arranged(b, oldest) /\ Open(sec[b]) /\ FilledThen(sec[b])
      BY <1>3
    <2>2. PICK o \in Sectors : Arranged(b, o)
      BY <1>3, <2>1
    <2>3. Arranged(b, o)'
      BY <1>1, <2>2, ArrangedSame DEF Others
    <2>5. Open(sec'[b]) /\ Filled(sec[b])'
      BY <1>1, <2>1 DEF Filled, FilledThen
    <2>4. AtBoot'
      BY <2>2, <2>3, <2>5 DEF AtBoot
    <2> QED BY <1>1, <2>4 DEF NeutralInv, Formatting
  <1> QED BY <1>2, <1>3, LossLeaves

LEMMA NeutralRest ==
    ASSUME TypeInv, LogInv, EndInv, RoomInv, NeutralInv, Quiet, Control \/ fdb_tsl_clean \/ Restart \/ UNCHANGED vars
    PROVE  NeutralInv'
  <1>1. sec' = sec
    BY DEF Control, fdb_tsl_clean, Restart, vars
  <1>2. \A c \in Sectors : \A o : Arranged(c, o) => Arranged(c, o)'
    BY <1>1, ArrangedSame DEF Others
  <1>3. CASE Control
    <2>1. UNCHANGED <<cur, oldest, last_time, met>> /\ pc = "control" /\ pc' = "idle" /\ AtIdle
      BY <1>3 DEF Control, NeutralInv, hist
    <2>2. AtIdle'
      BY <1>1, <1>2, <2>1 DEF AtIdle, Filled, LastIs, Known
    <2> QED BY <2>1, <2>2 DEF NeutralInv, Formatting
  <1>4. CASE fdb_tsl_clean
    <2>1. pc' = "format" /\ op' = CleanOp /\ CleanOp # NoOp
      BY <1>4 DEF fdb_tsl_clean, CleanOp, NoOp, NoTime
    <2> QED BY <2>1 DEF NeutralInv, Formatting
  <1>5. CASE Restart
    <2>1. pc = "idle" /\ pc' = "boot" /\ met' = met /\ AtIdle
      BY <1>5 DEF Restart, PowerUp, NeutralInv, hist
    <2>2. /\ cur.addr \in Sectors /\ oldest \in Sectors /\ Arranged(cur.addr, oldest) /\ Open(sec[cur.addr])
          /\ Filled(sec[cur.addr])
      BY <2>1, ArrangedOthers DEF AtIdle
    <2>3. \E b \in Sectors, o \in Sectors : Arranged(b, o)' /\ Open(sec'[b]) /\ Filled(sec[b])'
      BY <1>1, <1>2, <2>1, <2>2 DEF Filled
    <2>4. AtBoot'
      BY <2>3 DEF AtBoot
    <2> QED BY <2>1, <2>4 DEF NeutralInv, Formatting
  <1>6. CASE UNCHANGED vars
    BY <1>6 DEF vars, ram, hist, NeutralInv, Quiet, AtBoot, Fresh, Filled, AtIdle, AtSeal, AtSealed, AtFull, AtNext,
                AtErase, AtMagic, AtUsing, AtStart, AtEntry, InPlace, Arranged, FirstRound, LaterRound, LastIs, Known,
                FreeEnds
  <1> QED BY <1>3, <1>4, <1>5, <1>6

LEMMA MetGrows == ASSUME [Next]_vars PROVE PowerLoss \/ met' = met
  BY Zenon DEF Next, Work, Boot, Control, FormatErase, FormatMagic, Seal, Sealed, MarkFull, NextSector, Erase, Magic,
         MarkUsing, StartTime, Entry, Commit, EntryNowhere, fdb_tsl_append, fdb_tsl_clean, fdb_tsl_set_status,
         Restart, vars, hist

LEMMA NeutralNext ==
    ASSUME TypeInv, LogInv, EndInv, RoomInv, NeutralInv, [Next]_vars
    PROVE  NeutralInv'
  <1> SUFFICES ASSUME Quiet' PROVE NeutralInv'
    BY DEF NeutralInv
  <1>1. CASE PowerLoss
    <2>1. Quiet
      BY <1>1 DEF PowerLoss, Quiet
    <2> QED BY <1>1, <2>1, NeutralLoss
  <1>2. CASE met' = met
    <2>0. Quiet
      BY <1>2 DEF Quiet
    <2>1. CASE Work
      BY <2>0, <2>1, NeutralBoot, NeutralFormat, NeutralFull, NeutralRoll, NeutralWrite, NeutralRest DEF Work
    <2>2. ASSUME NEW t \in Times, NEW n \in Lens, fdb_tsl_append(t, n) PROVE NeutralInv'
      BY <2>0, <2>2, NeutralStart
    <2>3. ASSUME NEW s \in Sectors, NEW i \in 1 .. Cap, NEW st \in {"USER_STATUS1", "DELETED"},
                 fdb_tsl_set_status(s, i, st)
          PROVE  NeutralInv'
      BY <2>0, <2>3, NeutralStatus
    <2>4. CASE fdb_tsl_clean \/ Restart \/ UNCHANGED vars
      BY <2>0, <2>4, NeutralRest, Zenon
    <2> QED BY <1>1, <2>1, <2>2, <2>3, <2>4 DEF Next
  <1>3. PowerLoss \/ met' = met
    BY MetGrows
  <1> QED BY <1>1, <1>2, <1>3

-----------------------------------------------------------------------------
(* Sequences of sequences, one behind the other.                           *)

\* f[i] is the first i of them.
Flats(f, s, n) == f = [i \in 1 .. n |-> IF i = 1 THEN s[i] ELSE f[i - 1] \o s[i]]

LEMMA FlatsExist ==
    ASSUME NEW s
    PROVE  \A n \in Nat : \E f : Flats(f, s, n)
  <1> DEFINE T == {n \in Nat : \E f : Flats(f, s, n)}
  <1>1. 0 \in T
    <2>1. Flats([i \in 1 .. 0 |-> 0], s, 0)
      BY DEF Flats
    <2> QED BY <2>1
  <1>2. ASSUME NEW n \in Nat, n \in T PROVE n + 1 \in T
    <2>1. PICK f : Flats(f, s, n)
      BY <1>2
    <2> DEFINE h == [i \in 1 .. n + 1 |-> IF i = 1 THEN s[i] ELSE f[i - 1] \o s[i]]
    <2>2. \A i \in 1 .. n : h[i] = f[i]
      <3> TAKE i \in 1 .. n
      <3>1. i \in 1 .. n + 1
        OBVIOUS
      <3>2. h[i] = IF i = 1 THEN s[i] ELSE f[i - 1] \o s[i]
        BY <3>1
      <3>3. f[i] = IF i = 1 THEN s[i] ELSE f[i - 1] \o s[i]
        BY <2>1 DEF Flats
      <3> QED BY <3>2, <3>3
    <2>3. \A i \in 1 .. n + 1 : i # 1 => i - 1 \in 1 .. n
      OBVIOUS
    <2>4. \A i \in 1 .. n + 1 : (IF i = 1 THEN s[i] ELSE f[i - 1] \o s[i]) = (IF i = 1 THEN s[i] ELSE h[i - 1] \o s[i])
      <3> HIDE DEF h
      <3> QED BY <2>2, <2>3
    <2>5. h = [i \in 1 .. n + 1 |-> IF i = 1 THEN s[i] ELSE h[i - 1] \o s[i]]
      <3> DEFINE g == [i \in 1 .. n + 1 |-> IF i = 1 THEN s[i] ELSE h[i - 1] \o s[i]]
      <3>1. \A i \in 1 .. n + 1 : h[i] = g[i]
        BY <2>4
      <3> QED BY <3>1
    <2> HIDE DEF h
    <2>6. Flats(h, s, n + 1)
      BY <2>5 DEF Flats
    <2> QED BY <2>6
  <1> HIDE DEF T
  <1>3. Nat \subseteq T
    BY <1>1, <1>2, Induction
  <1> QED BY <1>3 DEF T

\* Two of them agree as far as the sequences do.
Begins(s, t, n, m, f, g) ==
    n \in Nat /\ m \in Nat /\ n <= m /\ Flats(f, s, n) /\ Flats(g, t, m) /\ \A i \in 1 .. n : s[i] = t[i]

LEMMA FlatsSame ==
    ASSUME NEW s, NEW t, NEW n, NEW m, NEW f, NEW g, Begins(s, t, n, m, f, g)
    PROVE  \A i \in 1 .. n : f[i] = g[i]
  <1> USE DEF Begins
  <1> DEFINE T == {j \in Nat : j \in 1 .. n => f[j] = g[j]}
  <1>1. 0 \in T
    OBVIOUS
  <1>2. ASSUME NEW j \in Nat, j \in T PROVE j + 1 \in T
    <2> SUFFICES ASSUME j + 1 \in 1 .. n PROVE f[j + 1] = g[j + 1]
      OBVIOUS
    <2>1. j + 1 \in 1 .. m /\ (j + 1) - 1 = j /\ (j + 1 # 1 => j \in 1 .. n)
      OBVIOUS
    <2>2. f[j + 1] = (IF j + 1 = 1 THEN s[j + 1] ELSE f[j] \o s[j + 1])
      BY <2>1 DEF Flats
    <2>3. g[j + 1] = (IF j + 1 = 1 THEN t[j + 1] ELSE g[j] \o t[j + 1])
      BY <2>1 DEF Flats
    <2> QED BY <1>2, <2>1, <2>2, <2>3
  <1> HIDE DEF T
  <1>3. Nat \subseteq T
    BY <1>1, <1>2, Induction
  <1> QED BY <1>3 DEF T

LEMMA FlatIs ==
    ASSUME NEW s, NEW n \in Nat, Len(s) = n, n # 0
    PROVE  \E f : Flats(f, s, n) /\ FlattenSeq(s) = f[n]
  <1> DEFINE f == CHOOSE f : f = [i \in 1 .. Len(s) |-> IF i = 1 THEN s[i] ELSE f[i - 1] \o s[i]]
  <1>1. FlattenSeq(s) = f[n]
    BY DEF FlattenSeq
  <1>2. \E h : h = [i \in 1 .. Len(s) |-> IF i = 1 THEN s[i] ELSE h[i - 1] \o s[i]]
    BY FlatsExist, Zenon DEF Flats
  <1>3. Flats(f, s, n)
    BY <1>2, Zenon DEF Flats
  <1> QED BY <1>1, <1>3

LEMMA FlatEmpty == FlattenSeq(<< >>) = << >>
  BY DEF FlattenSeq

LEMMA FlatAppend ==
    ASSUME NEW X, NEW s \in Seq(Seq(X)), NEW x \in Seq(X)
    PROVE  FlattenSeq(Append(s, x)) = FlattenSeq(s) \o x
  <1> DEFINE t == Append(s, x)
             n == Len(s)
  <1>1. n \in Nat /\ Len(t) = n + 1 /\ t[n + 1] = x /\ \A i \in 1 .. n : s[i] = t[i]
    OBVIOUS
  <1>2. n + 1 \in Nat /\ n <= n + 1 /\ n + 1 # 0
    BY <1>1
  <1> HIDE DEF t
  <1>3. PICK g : Flats(g, t, n + 1) /\ FlattenSeq(t) = g[n + 1]
    BY <1>1, <1>2, FlatIs
  <1>4. CASE n = 0
    <2>1. g[n + 1] = x /\ s = << >>
      BY <1>1, <1>3, <1>4 DEF Flats
    <2> QED BY <1>3, <2>1, FlatEmpty DEF t
  <1>5. CASE n # 0
    <2>1. PICK f : Flats(f, s, n) /\ FlattenSeq(s) = f[n]
      BY <1>1, <1>5, FlatIs
    <2>2. f[n] = g[n]
      <3> DEFINE m == n + 1
      <3>1. n \in Nat /\ m \in Nat /\ n <= m /\ \A i \in 1 .. n : s[i] = t[i]
        BY <1>1, <1>2
      <3>2. Flats(f, s, n) /\ Flats(g, t, m)
        BY <1>3, <2>1
      <3>3. Begins(s, t, n, m, f, g)
        BY <3>1, <3>2 DEF Begins
      <3> HIDE DEF n, m
      <3>4. \A i \in 1 .. n : f[i] = g[i]
        BY <3>3, FlatsSame
      <3> QED BY <1>5, <3>1, <3>4
    <2>3. n + 1 \in 1 .. n + 1 /\ n + 1 # 1 /\ (n + 1) - 1 = n
      BY <1>1, <1>5
    <2>4. g[n + 1] = g[n] \o t[n + 1]
      BY <1>3, <2>3 DEF Flats
    <2> QED BY <1>1, <1>3, <2>1, <2>2, <2>4 DEF t
  <1> QED BY <1>4, <1>5

\* Induction over sequences, of which T is a set.
LEMMA SeqInduction ==
    ASSUME NEW X, NEW T, << >> \in T, \A s \in Seq(X), x \in X : s \in T => Append(s, x) \in T
    PROVE  Seq(X) \subseteq T
  <1> DEFINE U == {n \in Nat : \A s \in Seq(X) : Len(s) = n => s \in T}
  <1>1. 0 \in U
    <2>1. \A s \in Seq(X) : Len(s) = 0 => s = << >>
      BY EmptySeq
    <2> QED BY <2>1
  <1>2. ASSUME NEW n \in Nat, n \in U PROVE n + 1 \in U
    <2> SUFFICES ASSUME NEW s \in Seq(X), Len(s) = n + 1 PROVE s \in T
      OBVIOUS
    <2> DEFINE f == SubSeq(s, 1, n)
    <2>1. f \in Seq(X) /\ Len(f) = n /\ s[n + 1] \in X
      OBVIOUS
    <2>2. s = Append(f, s[n + 1])
      OBVIOUS
    <2> HIDE DEF f
    <2>3. f \in T
      BY <1>2, <2>1
    <2> QED BY <2>1, <2>2, <2>3
  <1> HIDE DEF U
  <1>3. Nat \subseteq U
    BY <1>1, <1>2, Induction
  <1> QED BY <1>3 DEF U

LEMMA FlatType ==
    ASSUME NEW X, NEW s \in Seq(Seq(X))
    PROVE  FlattenSeq(s) \in Seq(X)
  <1> DEFINE T == {t \in Seq(Seq(X)) : FlattenSeq(t) \in Seq(X)}
  <1>1. << >> \in T
    <2>1. << >> \in Seq(Seq(X)) /\ << >> \in Seq(X)
      OBVIOUS
    <2> QED BY <2>1, FlatEmpty
  <1>2. ASSUME NEW t \in Seq(Seq(X)), NEW x \in Seq(X), t \in T PROVE Append(t, x) \in T
    <2>1. FlattenSeq(Append(t, x)) = FlattenSeq(t) \o x
      BY FlatAppend
    <2>2. FlattenSeq(t) \in Seq(X)
      BY <1>2
    <2>3. Append(t, x) \in Seq(Seq(X)) /\ FlattenSeq(t) \o x \in Seq(X)
      BY <2>2
    <2> QED BY <2>1, <2>3
  <1> HIDE DEF T
  <1>3. Seq(Seq(X)) \subseteq T
    BY <1>1, <1>2, SeqInduction
  <1> QED BY <1>3 DEF T

LEMMA FlatConcat ==
    ASSUME NEW X, NEW s \in Seq(Seq(X)), NEW t \in Seq(Seq(X))
    PROVE  FlattenSeq(s \o t) = FlattenSeq(s) \o FlattenSeq(t)
  <1> DEFINE T == {u \in Seq(Seq(X)) : FlattenSeq(s \o u) = FlattenSeq(s) \o FlattenSeq(u)}
  <1>0. FlattenSeq(s) \in Seq(X)
    BY FlatType
  <1>1. << >> \in T
    BY <1>0, FlatEmpty
  <1>2. ASSUME NEW u \in Seq(Seq(X)), NEW x \in Seq(X), u \in T PROVE Append(u, x) \in T
    <2>1. s \o Append(u, x) = Append(s \o u, x) /\ s \o u \in Seq(Seq(X)) /\ Append(u, x) \in Seq(Seq(X))
      OBVIOUS
    <2>2. FlattenSeq(s \o Append(u, x)) = FlattenSeq(s \o u) \o x
      BY <2>1, FlatAppend
    <2>3. FlattenSeq(Append(u, x)) = FlattenSeq(u) \o x /\ FlattenSeq(u) \in Seq(X)
      BY FlatAppend, FlatType
    <2>4. FlattenSeq(s \o u) = FlattenSeq(s) \o FlattenSeq(u)
      BY <1>2
    <2>5. (FlattenSeq(s) \o FlattenSeq(u)) \o x = FlattenSeq(s) \o (FlattenSeq(u) \o x)
      BY <1>0, <2>3, ConcatAssociative, SMTT(20)
    <2> QED BY <2>1, <2>2, <2>3, <2>4, <2>5
  <1> HIDE DEF T
  <1>3. Seq(Seq(X)) \subseteq T
    BY <1>1, <1>2, SeqInduction
  <1> QED BY <1>3 DEF T

LEMMA FlatOne ==
    ASSUME NEW X, NEW x \in Seq(X)
    PROVE  FlattenSeq(<<x>>) = x
  <1>1. << >> \in Seq(Seq(X)) /\ Append(<< >>, x) = <<x>> /\ << >> \o x = x
    OBVIOUS
  <1> QED BY <1>1, FlatAppend, FlatEmpty

\* More at the end of the last one that is not empty is more at the end of all.
\* \o and SubSeq, of which the provers need not always know more than a few facts.
Joined(f, g) == f \o g
Upto(u, j) == SubSeq(u, 1, j)

Three(f, g, h, X) == f \in Seq(X) /\ g \in Seq(X) /\ h \in Seq(X)
LEMMA Associative ==
    ASSUME NEW X, NEW f, NEW g, NEW h, Three(f, g, h, X)
    PROVE  Joined(f, Joined(g, h)) = Joined(Joined(f, g), h)
  BY ConcatAssociative, SMTT(20) DEF Three, Joined

LEMMA NothingMore == ASSUME NEW X, NEW f \in Seq(X) PROVE Joined(f, << >>) = f
  BY DEF Joined

\* The first of a sequence, one more at a time.
Within(u, j, Y) == u \in Seq(Y) /\ j \in Nat /\ j + 1 \in 1 .. Len(u)

LEMMA UptoIs ==
    ASSUME NEW Y, NEW u \in Seq(Y), NEW j \in Nat, j <= Len(u)
    PROVE  Upto(u, j) \in Seq(Y) /\ Len(Upto(u, j)) = j /\ \A i \in 1 .. j : Upto(u, j)[i] = u[i]
  BY DEF Upto

LEMMA UptoStep ==
    ASSUME NEW Y, NEW u, NEW j, Within(u, j, Y)
    PROVE  Upto(u, j) \in Seq(Y) /\ Upto(u, j + 1) = Append(Upto(u, j), u[j + 1]) /\ u[j + 1] \in Y
  <1>1. u \in Seq(Y) /\ j \in Nat /\ j + 1 \in Nat /\ j <= Len(u) /\ j + 1 <= Len(u) /\ j + 1 \in 1 .. Len(u)
    BY DEF Within
  <1>2. Upto(u, j) \in Seq(Y) /\ Len(Upto(u, j)) = j /\ \A i \in 1 .. j : Upto(u, j)[i] = u[i]
    BY <1>1, UptoIs
  <1>3. /\ Upto(u, j + 1) \in Seq(Y) /\ Len(Upto(u, j + 1)) = j + 1
        /\ \A i \in 1 .. j + 1 : Upto(u, j + 1)[i] = u[i]
    BY <1>1, UptoIs
  <1>4. u[j + 1] \in Y
    BY <1>1
  <1> DEFINE a == Append(Upto(u, j), u[j + 1])
  <1>5. a \in Seq(Y) /\ Len(a) = j + 1 /\ \A i \in 1 .. j + 1 : a[i] = u[i]
    BY <1>1, <1>2, <1>4
  <1> HIDE DEF a
  <1>6. Upto(u, j + 1) = a
    BY <1>3, <1>5, SeqEqual
  <1> QED BY <1>2, <1>4, <1>6 DEF a

LEMMA UptoAll == ASSUME NEW Y, NEW u \in Seq(Y) PROVE Upto(u, Len(u)) = u
  BY DEF Upto

LEMMA FlatUpto ==
    ASSUME NEW X, NEW u, NEW j, Within(u, j, Seq(X))
    PROVE  /\ FlattenSeq(Upto(u, j + 1)) = Joined(FlattenSeq(Upto(u, j)), u[j + 1])
           /\ FlattenSeq(Upto(u, j)) \in Seq(X) /\ u[j + 1] \in Seq(X)
  <1> DEFINE f == Upto(u, j)
             y == u[j + 1]
  <1>1. Upto(u, j + 1) = Append(f, y) /\ f \in Seq(Seq(X)) /\ y \in Seq(X)
    BY UptoStep
  <1> HIDE DEF f, y
  <1>2. FlattenSeq(Append(f, y)) = FlattenSeq(f) \o y /\ FlattenSeq(f) \in Seq(X)
    BY <1>1, FlatAppend, FlatType
  <1> QED BY <1>1, <1>2 DEF f, y, Joined

\* More at the end of the last one that is not empty is more at the end of all.
Longer(s, t, n, k, x, X) ==
    /\ s \in Seq(Seq(X)) /\ t \in Seq(Seq(X)) /\ Len(s) = n /\ Len(t) = n /\ n \in Nat /\ k \in 1 .. n
    /\ x \in Seq(X) /\ t[k] = Joined(s[k], x)
    /\ \A i \in 1 .. n : i # k => t[i] = s[i]
    /\ \A i \in k + 1 .. n : s[i] = << >>

LEMMA FlatExtend ==
    ASSUME NEW X, NEW s, NEW t, NEW n, NEW k, NEW x, Longer(s, t, n, k, x, X)
    PROVE  FlattenSeq(t) = Joined(FlattenSeq(s), x)
  <1> DEFINE T == {j \in Nat : j \in k .. n => FlattenSeq(Upto(t, j)) = Joined(FlattenSeq(Upto(s, j)), x)}
  <1>0. n \in Nat /\ k \in Nat /\ k # 0 /\ n \in k .. n
    BY DEF Longer
  <1>1. 0 \in T
    BY <1>0
  <1>2. ASSUME NEW j \in Nat, j \in T PROVE j + 1 \in T
    <2> SUFFICES ASSUME j + 1 \in k .. n
                 PROVE  FlattenSeq(Upto(t, j + 1)) = Joined(FlattenSeq(Upto(s, j + 1)), x)
      OBVIOUS
    <2> DEFINE f == FlattenSeq(Upto(s, j))
               g == FlattenSeq(Upto(t, j))
               y == s[j + 1]
               z == t[j + 1]
    <2>1. j + 1 \in 1 .. n
      BY <1>0
    <2>2. Within(s, j, Seq(X)) /\ Within(t, j, Seq(X))
      BY <2>1 DEF Within, Longer
    <2>3. /\ FlattenSeq(Upto(t, j + 1)) = Joined(g, z) /\ FlattenSeq(Upto(s, j + 1)) = Joined(f, y)
          /\ f \in Seq(X) /\ g \in Seq(X) /\ y \in Seq(X)
      BY <2>2, FlatUpto
    <2>4. CASE j + 1 = k
      <3>1. Upto(s, j) = Upto(t, j)
        <4>1. \A i \in 1 .. j : s[i] = t[i]
          BY <2>1, <2>4 DEF Longer
        <4>2. s \in Seq(Seq(X)) /\ t \in Seq(Seq(X)) /\ j <= Len(s) /\ j <= Len(t)
          BY <2>1 DEF Longer
        <4>3. /\ Upto(s, j) \in Seq(Seq(X)) /\ Len(Upto(s, j)) = j /\ \A i \in 1 .. j : Upto(s, j)[i] = s[i]
              /\ Upto(t, j) \in Seq(Seq(X)) /\ Len(Upto(t, j)) = j /\ \A i \in 1 .. j : Upto(t, j)[i] = t[i]
          <5> DEFINE Y == Seq(X)
          <5>1. s \in Seq(Y) /\ t \in Seq(Y)
            BY <4>2
          <5> HIDE DEF Y
          <5>2. /\ Upto(s, j) \in Seq(Y) /\ Len(Upto(s, j)) = j /\ \A i \in 1 .. j : Upto(s, j)[i] = s[i]
                /\ Upto(t, j) \in Seq(Y) /\ Len(Upto(t, j)) = j /\ \A i \in 1 .. j : Upto(t, j)[i] = t[i]
            BY <4>2, <5>1, UptoIs
          <5> QED BY <5>2 DEF Y
        <4> QED BY <4>1, <4>3, SeqEqual
      <3>2. f = g
        BY <3>1
      <3>3. z = Joined(y, x) /\ x \in Seq(X)
        BY <2>4 DEF Longer
      <3> HIDE DEF f, g, y, z
      <3>4. Three(f, y, x, X)
        BY <2>3, <3>3 DEF Three
      <3>5. Joined(f, Joined(y, x)) = Joined(Joined(f, y), x)
        BY <3>4, Associative
      <3> QED BY <2>3, <3>2, <3>3, <3>5
    <2>5. CASE j + 1 # k
      <3>1. j \in k .. n /\ j + 1 \in k + 1 .. n
        BY <1>0, <2>5
      <3>2. y = << >> /\ z = y
        BY <2>1, <2>5, <3>1 DEF Longer
      <3>3. g = Joined(f, x)
        BY <1>2, <3>1
      <3> HIDE DEF f, g, y, z
      <3>4. Joined(g, << >>) = g /\ Joined(f, << >>) = f
        BY <2>3, NothingMore
      <3> QED BY <2>3, <3>2, <3>3, <3>4
    <2> QED BY <2>4, <2>5
  <1> HIDE DEF T
  <1>3. Nat \subseteq T
    BY <1>1, <1>2, Induction
  <1>4. FlattenSeq(Upto(t, n)) = Joined(FlattenSeq(Upto(s, n)), x)
    BY <1>0, <1>3 DEF T
  <1>5. Upto(t, n) = t /\ Upto(s, n) = s
    BY UptoAll DEF Longer
  <1> QED BY <1>4, <1>5
\* Sequences that are all empty.
LEMMA FlatNothing ==
    ASSUME NEW X, NEW s \in Seq(Seq(X)), \A i \in 1 .. Len(s) : s[i] = << >>
    PROVE  FlattenSeq(s) = << >>
  <1> DEFINE T == {j \in Nat : j <= Len(s) => FlattenSeq(Upto(s, j)) = << >>}
  <1>1. 0 \in T
    <2>1. Upto(s, 0) = << >>
      BY DEF Upto
    <2> QED BY <2>1, FlatEmpty
  <1>2. ASSUME NEW j \in Nat, j \in T PROVE j + 1 \in T
    <2> SUFFICES ASSUME j + 1 <= Len(s) PROVE FlattenSeq(Upto(s, j + 1)) = << >>
      OBVIOUS
    <2>1. Len(s) \in Nat
      OBVIOUS
    <2>2. j <= Len(s) /\ j + 1 \in 1 .. Len(s)
      BY <2>1
    <2>3. Within(s, j, Seq(X))
      BY <2>2 DEF Within
    <2>4. FlattenSeq(Upto(s, j + 1)) = Joined(FlattenSeq(Upto(s, j)), s[j + 1])
      BY <2>3, FlatUpto
    <2>5. FlattenSeq(Upto(s, j)) = << >> /\ s[j + 1] = << >>
      BY <1>2, <2>2
    <2>6. Joined(<< >>, << >>) = << >>
      BY DEF Joined
    <2> QED BY <2>4, <2>5, <2>6
  <1> HIDE DEF T
  <1>3. Nat \subseteq T
    BY <1>1, <1>2, Induction
  <1>4. FlattenSeq(Upto(s, Len(s))) = << >>
    <2>1. Len(s) \in Nat /\ Len(s) <= Len(s)
      OBVIOUS
    <2> QED BY <1>3, <2>1 DEF T
  <1>5. Upto(s, Len(s)) = s
    <2> DEFINE Y == Seq(X)
    <2>1. s \in Seq(Y)
      OBVIOUS
    <2> HIDE DEF Y
    <2> QED BY <2>1, UptoAll
  <1> QED BY <1>4, <1>5

-----------------------------------------------------------------------------
(* The logs of a sequence of indices.                                      *)

Kept == [time : Nat, len : 1 .. MaxLen]
LogOf(e) == IF Unfinished(e) THEN << >> ELSE <<[time |-> e.time, len |-> e.len]>>
Pieces(es) == [i \in DOMAIN es |-> LogOf(es[i])]

LEMMA LogOfType == ASSUME NEW e \in Entries PROVE LogOf(e) \in Seq(Kept)
  <1> DEFINE x == [time |-> e.time, len |-> e.len]
  <1>1. x \in Kept
    BY DEF Kept, Entries
  <1> HIDE DEF x
  <1>2. << >> \in Seq(Kept) /\ <<x>> \in Seq(Kept)
    BY <1>1
  <1> QED BY <1>2 DEF LogOf, x

LEMMA PiecesType ==
    ASSUME NEW es \in Seq(Entries)
    PROVE  Pieces(es) \in Seq(Seq(Kept)) /\ Len(Pieces(es)) = Len(es) /\ \A i \in 1 .. Len(es) : Pieces(es)[i] = LogOf(es[i])
  <1>1. \A i \in 1 .. Len(es) : LogOf(es[i]) \in Seq(Kept)
    <2> TAKE i \in 1 .. Len(es)
    <2>1. es[i] \in Entries
      OBVIOUS
    <2> QED BY <2>1, LogOfType
  <1>2. DOMAIN es = 1 .. Len(es) /\ Len(es) \in Nat
    OBVIOUS
  <1> QED BY <1>1, <1>2 DEF Pieces

LEMMA PiecesAppend ==
    ASSUME NEW es \in Seq(Entries), NEW e \in Entries
    PROVE  Pieces(Append(es, e)) = Append(Pieces(es), LogOf(e))
  <1> DEFINE n == Len(es)
             fs == Append(es, e)
  <1>1. n \in Nat /\ fs \in Seq(Entries) /\ Len(fs) = n + 1 /\ fs[n + 1] = e /\ \A i \in 1 .. n : fs[i] = es[i]
    OBVIOUS
  <1> DEFINE p == Pieces(es)
             q == Pieces(fs)
             x == LogOf(e)
  <1>2. p \in Seq(Seq(Kept)) /\ Len(p) = n /\ \A i \in 1 .. n : p[i] = LogOf(es[i])
    BY PiecesType
  <1> HIDE DEF fs
  <1>3. q \in Seq(Seq(Kept)) /\ Len(q) = n + 1 /\ \A i \in 1 .. n + 1 : q[i] = LogOf(fs[i])
    BY <1>1, PiecesType
  <1>4. x \in Seq(Kept)
    BY LogOfType
  <1>5. q[n + 1] = x /\ \A i \in 1 .. n : q[i] = p[i]
    BY <1>1, <1>2, <1>3
  <1> HIDE DEF n, p, q, x
  <1> DEFINE Y == Seq(Kept)
  <1>6. p \in Seq(Y) /\ q \in Seq(Y) /\ x \in Y
    BY <1>2, <1>3, <1>4
  <1> HIDE DEF Y
  <1>7. q = Append(p, x)
    <2> DEFINE a == Append(p, x)
    <2>1. a \in Seq(Y) /\ Len(a) = n + 1 /\ \A i \in 1 .. n + 1 : a[i] = q[i]
      BY <1>1, <1>2, <1>5, <1>6
    <2> HIDE DEF a
    <2>2. q = a
      BY <1>3, <1>6, <2>1, SeqEqual
    <2> QED BY <2>2 DEF a
  <1> QED BY <1>7 DEF p, q, x, fs

\* Written(es) is made of these.
Finished(es) == [i \in DOMAIN es |-> IF Unfinished(es[i]) THEN << >> ELSE <<es[i]>>]

LEMMA WrittenAppend ==
    ASSUME NEW es \in Seq(Entries), NEW e \in Entries
    PROVE  Written(es) \in Seq(Entries) /\ Written(Append(es, e)) = Written(es) \o (IF Unfinished(e) THEN << >> ELSE <<e>>)
  <1> DEFINE n == Len(es)
             fs == Append(es, e)
             p == Finished(es)
             q == Finished(fs)
             x == IF Unfinished(e) THEN << >> ELSE <<e>>
  <1>1. /\ n \in Nat /\ Len(fs) = n + 1 /\ fs[n + 1] = e /\ \A i \in 1 .. n : fs[i] = es[i] /\ es[i] \in Entries
        /\ DOMAIN es = 1 .. n /\ DOMAIN fs = 1 .. n + 1
    OBVIOUS
  <1>2. x \in Seq(Entries)
    OBVIOUS
  <1>3. p \in Seq(Seq(Entries)) /\ Len(p) = n /\ \A i \in 1 .. n : p[i] = IF Unfinished(es[i]) THEN << >> ELSE <<es[i]>>
    BY <1>1 DEF Finished
  <1> HIDE DEF fs
  <1>4. q = [i \in 1 .. n + 1 |-> IF Unfinished(fs[i]) THEN << >> ELSE <<fs[i]>>]
    BY <1>1 DEF Finished
  <1>5. \A i \in 1 .. n + 1 : q[i] = IF i = n + 1 THEN x ELSE p[i]
    BY <1>1, <1>3, <1>4
  <1> DEFINE Y == Seq(Entries)
  <1>6. p \in Seq(Y) /\ x \in Y
    BY <1>2, <1>3
  <1>7. DOMAIN q = 1 .. n + 1 /\ q = [i \in 1 .. n + 1 |-> q[i]]
    BY <1>4
  <1> HIDE DEF Y, x, p, q, n
  <1>8. q = Append(p, x)
    <2> DEFINE a == Append(p, x)
    <2>1. a \in Seq(Y) /\ Len(a) = n + 1 /\ \A i \in 1 .. n + 1 : a[i] = IF i = n + 1 THEN x ELSE p[i]
      BY <1>1, <1>3, <1>6
    <2>2. q \in Seq(Y) /\ Len(q) = n + 1
      <3>1. \A i \in 1 .. n + 1 : q[i] \in Y
        <4>1. \A i \in 1 .. n : p[i] \in Y
          BY <1>3, <1>6
        <4> QED BY <1>1, <1>5, <1>6, <4>1
      <3>2. n + 1 \in Nat
        BY <1>1
      <3> QED BY <1>7, <3>1, <3>2
    <2> HIDE DEF a
    <2>3. \A i \in 1 .. n + 1 : a[i] = q[i]
      BY <1>5, <2>1
    <2>4. a = q
      BY <2>1, <2>2, <2>3, SeqEqual
    <2> QED BY <2>4 DEF a
  <1>9. FlattenSeq(Append(p, x)) = FlattenSeq(p) \o x /\ FlattenSeq(p) \in Seq(Entries)
    BY <1>6, FlatAppend, FlatType DEF Y
  <1>10. Written(es) = FlattenSeq(p) /\ Written(Append(es, e)) = FlattenSeq(q)
    BY DEF Written, Finished, p, q, fs
  <1> QED BY <1>8, <1>9, <1>10 DEF x

LEMMA LogConcat ==
    ASSUME NEW u \in Seq(Entries), NEW v \in Seq(Entries)
    PROVE  Log(u \o v) = Log(u) \o Log(v)
  <1> DEFINE L(e) == [time |-> e.time, len |-> e.len]
             w == u \o v
  <1>1. /\ DOMAIN u = 1 .. Len(u) /\ DOMAIN v = 1 .. Len(v) /\ DOMAIN w = 1 .. Len(u) + Len(v)
        /\ Len(u) \in Nat /\ Len(v) \in Nat
        /\ \A i \in 1 .. Len(u) + Len(v) : w[i] = IF i <= Len(u) THEN u[i] ELSE v[i - Len(u)]
    OBVIOUS
  <1> HIDE DEF L, w
  <1>2. /\ Log(u) = [i \in 1 .. Len(u) |-> L(u[i])] /\ Log(v) = [i \in 1 .. Len(v) |-> L(v[i])]
        /\ Log(w) = [i \in 1 .. Len(u) + Len(v) |-> L(w[i])]
    BY <1>1 DEF Log, L
  <1>3. \A e \in Entries : L(e) \in Kept
    BY DEF L, Kept, Entries
  <1>4. (\A i \in 1 .. Len(u) : u[i] \in Entries) /\ (\A i \in 1 .. Len(v) : v[i] \in Entries)
    OBVIOUS
  <1>5. Log(u) \in Seq(Kept) /\ Log(v) \in Seq(Kept) /\ Len(Log(u)) = Len(u) /\ Len(Log(v)) = Len(v)
    BY <1>1, <1>2, <1>3, <1>4
  <1>6. \A i \in 1 .. Len(u) + Len(v) : i <= Len(u) => i \in 1 .. Len(u)
    OBVIOUS
  <1>7. \A i \in 1 .. Len(u) + Len(v) : ~(i <= Len(u)) => i - Len(u) \in 1 .. Len(v)
    BY <1>1
  <1>8. \A i \in 1 .. Len(u) + Len(v) : Log(w)[i] = IF i <= Len(u) THEN Log(u)[i] ELSE Log(v)[i - Len(u)]
    BY <1>1, <1>2, <1>6, <1>7
  <1>9. \A i \in 1 .. Len(u) + Len(v) : w[i] \in Entries
    BY <1>1, <1>4, <1>6, <1>7
  <1>10. Log(w) \in Seq(Kept) /\ Len(Log(w)) = Len(u) + Len(v)
    BY <1>1, <1>2, <1>3, <1>9
  <1> DEFINE a == Log(u)
             b == Log(v)
             c == Log(w)
             m == Len(u)
             n == Len(v)
  <1>11. /\ a \in Seq(Kept) /\ b \in Seq(Kept) /\ c \in Seq(Kept) /\ Len(a) = m /\ Len(b) = n /\ Len(c) = m + n
         /\ m \in Nat /\ n \in Nat /\ \A i \in 1 .. m + n : c[i] = IF i <= m THEN a[i] ELSE b[i - m]
    BY <1>1, <1>5, <1>8, <1>10
  <1> HIDE DEF a, b, c, m, n
  <1>12. c = a \o b
    <2> DEFINE d == a \o b
    <2>0. d \in Seq(Kept)
      BY <1>11
    <2>1. d \in Seq(Kept) /\ Len(d) = m + n /\ \A i \in 1 .. m + n : d[i] = IF i <= m THEN a[i] ELSE b[i - m]
      <3>1. a \in Seq(Kept) /\ b \in Seq(Kept) /\ Len(a) = m /\ Len(b) = n
        BY <1>11
      <3>2. Len(d) = m + n
        BY <3>1
      <3>3. \A i \in 1 .. Len(a) + Len(b) : d[i] = IF i <= Len(a) THEN a[i] ELSE b[i - Len(a)]
        BY <3>1
      <3> QED BY <2>0, <3>1, <3>2, <3>3
    <2> HIDE DEF d
    <2>2. c = d
      BY <1>11, <2>1, SeqEqual
    <2> QED BY <2>2 DEF d
  <1>13. Log(w) = Log(u) \o Log(v)
    BY <1>12 DEF a, b, c
  <1> QED BY <1>13 DEF w

LEMMA LogsIs ==
    ASSUME NEW es \in Seq(Entries)
    PROVE  Logs(es) = FlattenSeq(Pieces(es))
  <1> DEFINE T == {s \in Seq(Entries) : Logs(s) = FlattenSeq(Pieces(s))}
  <1>1. << >> \in T
    <2>1. << >> \in Seq(Entries)
      OBVIOUS
    <2>2. Pieces(<< >>) = << >>
      BY DEF Pieces
    <2>3. Finished(<< >>) = << >>
      BY DEF Finished
    <2>4. Written(<< >>) = << >>
      BY <2>3, FlatEmpty DEF Written, Finished
    <2>5. Log(<< >>) = << >>
      BY DEF Log
    <2> QED BY <2>1, <2>2, <2>4, <2>5, FlatEmpty DEF Logs
  <1>2. ASSUME NEW s \in Seq(Entries), NEW e \in Entries, s \in T PROVE Append(s, e) \in T
    <2> DEFINE x == IF Unfinished(e) THEN << >> ELSE <<e>>
    <2>1. Written(s) \in Seq(Entries) /\ Written(Append(s, e)) = Written(s) \o x
      BY WrittenAppend
    <2>2. x \in Seq(Entries) /\ Log(x) = LogOf(e)
      BY DEF Log, LogOf
    <2> HIDE DEF x
    <2>3. Logs(Append(s, e)) = Logs(s) \o LogOf(e)
      BY <2>1, <2>2, LogConcat DEF Logs
    <2>4. Pieces(Append(s, e)) = Append(Pieces(s), LogOf(e))
      BY PiecesAppend
    <2>5. Pieces(s) \in Seq(Seq(Kept)) /\ LogOf(e) \in Seq(Kept)
      BY PiecesType, LogOfType
    <2>6. FlattenSeq(Append(Pieces(s), LogOf(e))) = FlattenSeq(Pieces(s)) \o LogOf(e)
      BY <2>5, FlatAppend
    <2>7. Append(s, e) \in Seq(Entries)
      OBVIOUS
    <2>8. Logs(s) = FlattenSeq(Pieces(s))
      BY <1>2
    <2> QED BY <2>3, <2>4, <2>6, <2>7, <2>8
  <1> HIDE DEF T
  <1>3. Seq(Entries) \subseteq T
    BY <1>1, <1>2, SeqInduction
  <1> QED BY <1>3 DEF T

LEMMA LogsType == ASSUME NEW es \in Seq(Entries) PROVE Logs(es) \in Seq(Kept)
  BY LogsIs, PiecesType, FlatType

LEMMA LogsEmpty == Logs(<< >>) = << >>
  <1>1. << >> \in Seq(Entries)
    OBVIOUS
  <1>2. Pieces(<< >>) = << >>
    BY DEF Pieces
  <1> QED BY <1>1, <1>2, LogsIs, FlatEmpty

\* What the logs of a sequence depend on.
LEMMA LogsSame ==
    ASSUME NEW es \in Seq(Entries), NEW fs \in Seq(Entries), Len(es) = Len(fs),
           \A i \in 1 .. Len(es) : LogOf(es[i]) = LogOf(fs[i])
    PROVE  Logs(es) = Logs(fs)
  <1>1. DOMAIN es = 1 .. Len(es) /\ DOMAIN fs = 1 .. Len(es)
    OBVIOUS
  <1>2. Pieces(es) = Pieces(fs)
    BY <1>1 DEF Pieces
  <1> QED BY <1>2, LogsIs

\* One log more at the end: none if it was not finished.
LEMMA LogsAppend ==
    ASSUME NEW es \in Seq(Entries), NEW e \in Entries
    PROVE  Logs(Append(es, e)) = Joined(Logs(es), LogOf(e))
  <1>1. Append(es, e) \in Seq(Entries)
    OBVIOUS
  <1>2. Logs(Append(es, e)) = FlattenSeq(Append(Pieces(es), LogOf(e)))
    BY <1>1, LogsIs, PiecesAppend
  <1>3. Pieces(es) \in Seq(Seq(Kept)) /\ LogOf(e) \in Seq(Kept)
    BY PiecesType, LogOfType
  <1>4. FlattenSeq(Append(Pieces(es), LogOf(e))) = FlattenSeq(Pieces(es)) \o LogOf(e)
    BY <1>3, FlatAppend
  <1> QED BY <1>2, <1>4, LogsIs DEF Joined

\* The last one is finished.
LEMMA LogsCommit ==
    ASSUME NEW es \in Seq(Entries), NEW fs \in Seq(Entries), NEW n \in Nat, Len(es) = n, Len(fs) = n, n # 0,
           \A i \in 1 .. n : i # n => LogOf(fs[i]) = LogOf(es[i]), LogOf(es[n]) = << >>
    PROVE  Logs(fs) = Joined(Logs(es), LogOf(fs[n]))
  <1> DEFINE p == Pieces(es)
             q == Pieces(fs)
             x == LogOf(fs[n])
  <1>1. /\ p \in Seq(Seq(Kept)) /\ Len(p) = n /\ \A i \in 1 .. n : p[i] = LogOf(es[i])
        /\ q \in Seq(Seq(Kept)) /\ Len(q) = n /\ \A i \in 1 .. n : q[i] = LogOf(fs[i])
    BY PiecesType
  <1>2. n \in 1 .. n /\ fs[n] \in Entries
    OBVIOUS
  <1>3. x \in Seq(Kept)
    BY <1>2, LogOfType
  <1>4. q[n] = x /\ p[n] = << >> /\ \A i \in 1 .. n : i # n => q[i] = p[i]
    BY <1>1, <1>2
  <1>5. Joined(<< >>, x) = x
    BY <1>3 DEF Joined
  <1>6. \A i \in n + 1 .. n : FALSE
    OBVIOUS
  <1> HIDE DEF p, q, x
  <1>7. Longer(p, q, n, n, x, Kept)
    BY <1>1, <1>2, <1>3, <1>4, <1>5, <1>6 DEF Longer
  <1>8. FlattenSeq(q) = Joined(FlattenSeq(p), x)
    BY <1>7, FlatExtend
  <1> QED BY <1>8, LogsIs DEF p, q, x

\* The logs of several sequences.
LEMMA LogsConcat ==
    ASSUME NEW u \in Seq(Entries), NEW v \in Seq(Entries)
    PROVE  Logs(u \o v) = Joined(Logs(u), Logs(v))
  <1>1. u \o v \in Seq(Entries)
    OBVIOUS
  <1>2. Pieces(u \o v) = Pieces(u) \o Pieces(v)
    <2>1. /\ DOMAIN u = 1 .. Len(u) /\ DOMAIN v = 1 .. Len(v) /\ DOMAIN (u \o v) = 1 .. Len(u) + Len(v)
          /\ Len(u) \in Nat /\ Len(v) \in Nat
          /\ \A i \in 1 .. Len(u) + Len(v) : (u \o v)[i] = IF i <= Len(u) THEN u[i] ELSE v[i - Len(u)]
      OBVIOUS
    <2> QED BY <2>1 DEF Pieces
  <1>3. Pieces(u) \in Seq(Seq(Kept)) /\ Pieces(v) \in Seq(Seq(Kept))
    BY PiecesType
  <1>4. FlattenSeq(Pieces(u) \o Pieces(v)) = FlattenSeq(Pieces(u)) \o FlattenSeq(Pieces(v))
    BY <1>3, FlatConcat
  <1> QED BY <1>1, <1>2, <1>4, LogsIs DEF Joined

LEMMA LogsFlat ==
    ASSUME NEW ss \in Seq(Seq(Entries))
    PROVE  Logs(FlattenSeq(ss)) = FlattenSeq([i \in DOMAIN ss |-> Logs(ss[i])])
  <1> DEFINE L(s) == [i \in DOMAIN s |-> Logs(s[i])]
             T == {s \in Seq(Seq(Entries)) : Logs(FlattenSeq(s)) = FlattenSeq(L(s))}
  <1>1. << >> \in T
    <2>1. << >> \in Seq(Seq(Entries)) /\ L(<< >>) = << >>
      OBVIOUS
    <2> QED BY <2>1, FlatEmpty, LogsEmpty
  <1>2. ASSUME NEW s \in Seq(Seq(Entries)), NEW x \in Seq(Entries), s \in T PROVE Append(s, x) \in T
    <2>1. FlattenSeq(Append(s, x)) = FlattenSeq(s) \o x /\ FlattenSeq(s) \in Seq(Entries)
      BY FlatAppend, FlatType
    <2>2. Logs(FlattenSeq(s) \o x) = Joined(Logs(FlattenSeq(s)), Logs(x))
      BY <2>1, LogsConcat
    <2>3. L(s) \in Seq(Seq(Kept)) /\ Logs(x) \in Seq(Kept)
      <3>1. \A i \in 1 .. Len(s) : s[i] \in Seq(Entries)
        OBVIOUS
      <3>2. \A i \in 1 .. Len(s) : Logs(s[i]) \in Seq(Kept)
        BY <3>1, LogsType
      <3>3. DOMAIN s = 1 .. Len(s) /\ Len(s) \in Nat
        OBVIOUS
      <3> QED BY <3>2, <3>3, LogsType
    <2>4. L(Append(s, x)) = Append(L(s), Logs(x))
      <3>1. /\ DOMAIN s = 1 .. Len(s) /\ Len(s) \in Nat /\ DOMAIN Append(s, x) = 1 .. Len(s) + 1
            /\ \A i \in 1 .. Len(s) + 1 : Append(s, x)[i] = IF i = Len(s) + 1 THEN x ELSE s[i]
        OBVIOUS
      <3>2. Append(L(s), Logs(x)) = [i \in 1 .. Len(s) + 1 |-> IF i = Len(s) + 1 THEN Logs(x) ELSE Logs(s[i])]
        BY <3>1, <2>3
      <3> QED BY <3>1, <3>2
    <2> HIDE DEF L
    <2>5. FlattenSeq(Append(L(s), Logs(x))) = FlattenSeq(L(s)) \o Logs(x)
      BY <2>3, FlatAppend
    <2>6. Append(s, x) \in Seq(Seq(Entries))
      OBVIOUS
    <2>7. Logs(FlattenSeq(s)) = FlattenSeq(L(s))
      BY <1>2
    <2> QED BY <2>1, <2>2, <2>4, <2>5, <2>6, <2>7 DEF Joined
  <1> HIDE DEF T
  <1>3. Seq(Seq(Entries)) \subseteq T
    BY <1>1, <1>2, SeqInduction
  <1> QED BY <1>3 DEF T

-----------------------------------------------------------------------------
(* The logs of all sectors from one on.                                    *)

LEMMA Wraps ==
    ASSUME NEW x \in 0 .. 2 * S - 1
    PROVE  x % S = IF x < S THEN x ELSE x - S
  BY Consts

LEMMA Places ==
    ASSUME NEW o \in Sectors
    PROVE  \A i \in 1 .. S : /\ (o + i - 1) % S = (IF o + i - 1 < S THEN o + i - 1 ELSE o + i - 1 - S)
                             /\ (o + i - 1) % S \in Sectors
  <1>1. S \in Nat /\ S >= 2 /\ o \in 0 .. S - 1
    BY Consts DEF Sectors
  <1> TAKE i \in 1 .. S
  <1>2. o + i - 1 \in 0 .. 2 * S - 1
    BY <1>1

  <1>4. (o + i - 1) % S = IF o + i - 1 < S THEN o + i - 1 ELSE o + i - 1 - S
    <2>1. PICK y \in 0 .. 2 * S - 1 : y = o + i - 1
      BY <1>2
    <2>2. y % S = IF y < S THEN y ELSE y - S
      BY Wraps
    <2>3. (o + i - 1) % S = y % S
      BY <2>1
    <2> QED BY <1>1, <2>1, <2>2, <2>3
  <1> QED BY <1>1, <1>2, <1>4 DEF Sectors

LEMMA InRow == ASSUME NEW o \in Int PROVE \A i \in 1 .. S : (o + i - 1) % S \in Sectors
  BY Consts DEF Sectors

LEMMA RowType ==
    ASSUME NEW f, FlashOK(f), NEW o \in Int
    PROVE  /\ Row(f, o) \in Seq(Seq(Kept)) /\ Len(Row(f, o)) = S
           /\ \A i \in 1 .. S : Row(f, o)[i] = Logs(f[(o + i - 1) % S].tsls)
  <1>1. \A s \in Sectors : Logs(f[s].tsls) \in Seq(Kept)
    BY LogsType DEF FlashOK, SectorOK
  <1>2. \A i \in 1 .. S : Logs(f[(o + i - 1) % S].tsls) \in Seq(Kept)
    BY <1>1, InRow
  <1>3. S \in Nat
    BY Consts
  <1> QED BY <1>2, <1>3 DEF Row

LEMMA StoredType ==
    ASSUME NEW f, FlashOK(f), NEW o \in Int
    PROVE  Stored(f, o) \in Seq(Kept)
  BY RowType, FlatType DEF Stored

LEMMA StoredSame ==
    ASSUME NEW f, NEW g, NEW o \in Int, \A s \in Sectors : Logs(g[s].tsls) = Logs(f[s].tsls)
    PROVE  Stored(g, o) = Stored(f, o)
  <1>1. \A i \in 1 .. S : Logs(g[(o + i - 1) % S].tsls) = Logs(f[(o + i - 1) % S].tsls)
    BY InRow
  <1>2. Row(g, o) = Row(f, o)
    BY <1>1 DEF Row
  <1> QED BY <1>2 DEF Stored

LEMMA StoredNothing ==
    ASSUME NEW f, FlashOK(f), NEW o \in Int, \A s \in Sectors : f[s].tsls = << >>
    PROVE  Stored(f, o) = << >>
  <1> DEFINE r == Row(f, o)
  <1>1. r \in Seq(Seq(Kept)) /\ Len(r) = S /\ \A i \in 1 .. S : r[i] = Logs(f[(o + i - 1) % S].tsls)
    BY RowType
  <1>2. \A i \in 1 .. S : r[i] = << >>
    BY <1>1, InRow, LogsEmpty
  <1> HIDE DEF r
  <1>3. FlattenSeq(r) = << >>
    BY <1>1, <1>2, FlatNothing
  <1> QED BY <1>3 DEF Stored, r

\* One log more in the sector behind which there are none.
MoreLogs(f, g, o, k, x, c) ==
    /\ FlashOK(f) /\ FlashOK(g) /\ o \in Sectors /\ k \in 1 .. S /\ x \in Seq(Kept)
    /\ c = (o + k - 1) % S /\ Logs(g[c].tsls) = Joined(Logs(f[c].tsls), x)
    /\ \A s \in Sectors : s # c => Logs(g[s].tsls) = Logs(f[s].tsls)
    /\ \A i \in k + 1 .. S : f[(o + i - 1) % S].tsls = << >>

LEMMA StoredMore ==
    ASSUME NEW f, NEW g, NEW o, NEW k, NEW x, NEW c, MoreLogs(f, g, o, k, x, c)
    PROVE  Stored(g, o) = Joined(Stored(f, o), x)
  <1> USE DEF MoreLogs
  <1> DEFINE p == Row(f, o)
             q == Row(g, o)
  <1>1. /\ p \in Seq(Seq(Kept)) /\ Len(p) = S /\ \A i \in 1 .. S : p[i] = Logs(f[(o + i - 1) % S].tsls)
        /\ q \in Seq(Seq(Kept)) /\ Len(q) = S /\ \A i \in 1 .. S : q[i] = Logs(g[(o + i - 1) % S].tsls)
    <2>1. o \in Int /\ FlashOK(f) /\ FlashOK(g)
      BY SectorFacts
    <2> QED BY <2>1, RowType, Zenon
  <1>2. S \in Nat /\ o \in 0 .. S - 1 /\ S >= 2
    BY Consts DEF Sectors
  <1>3. \A i \in 1 .. S : i # k => (o + i - 1) % S # c /\ (o + i - 1) % S \in Sectors
    <2>1. c = IF o + k - 1 < S THEN o + k - 1 ELSE o + k - 1 - S
      BY Places
    <2> TAKE i \in 1 .. S
    <2> HAVE i # k
    <2> DEFINE t == (o + i - 1) % S
    <2>2. t = (IF o + i - 1 < S THEN o + i - 1 ELSE o + i - 1 - S) /\ t \in Sectors
      BY Places
    <2> HIDE DEF t
    <2>3. t # c
      BY <1>2, <2>1, <2>2
    <2> QED BY <2>2, <2>3 DEF t
  <1>4. q[k] = Joined(p[k], x)
    BY <1>1
  <1>5. \A i \in 1 .. S : i # k => q[i] = p[i]
    BY <1>1, <1>3
  <1>6. \A i \in k + 1 .. S : p[i] = << >>
    <2> TAKE i \in k + 1 .. S
    <2>1. i \in 1 .. S
      BY <1>2
    <2> QED BY <1>1, <2>1, LogsEmpty
  <1> HIDE DEF p, q
  <1>7. Longer(p, q, S, k, x, Kept)
    BY <1>1, <1>2, <1>4, <1>5, <1>6 DEF Longer
  <1>8. FlattenSeq(q) = Joined(FlattenSeq(p), x)
    BY <1>7, FlatExtend
  <1> QED BY <1>8 DEF Stored, p, q

\* The first of two sequences are the same.
LEMMA UptoSame ==
    ASSUME NEW Y, NEW u \in Seq(Y), NEW v \in Seq(Y), NEW j \in Nat, j <= Len(u), j <= Len(v),
           \A i \in 1 .. j : u[i] = v[i]
    PROVE  Upto(u, j) = Upto(v, j)
  <1>1. /\ Upto(u, j) \in Seq(Y) /\ Len(Upto(u, j)) = j /\ \A i \in 1 .. j : Upto(u, j)[i] = u[i]
        /\ Upto(v, j) \in Seq(Y) /\ Len(Upto(v, j)) = j /\ \A i \in 1 .. j : Upto(v, j)[i] = v[i]
    BY UptoIs
  <1> QED BY <1>1, SeqEqual

\* The logs of all sectors but one, from the one behind it on.
Rest(f, c) == FlattenSeq(Upto(Row(f, Following(c)), S - 1))

LEMMA RestSame ==
    ASSUME NEW f, NEW g, FlashOK(f), FlashOK(g), NEW c \in Sectors,
           \A s \in Sectors : s # c => Logs(g[s].tsls) = Logs(f[s].tsls)
    PROVE  Rest(g, c) = Rest(f, c)
  <1> DEFINE o == Following(c)
             p == Row(f, o)
             q == Row(g, o)
             m == S - 1
             Y == Seq(Kept)
  <1>0. S \in Nat /\ S >= 2 /\ c \in 0 .. S - 1 /\ o \in Sectors /\ o = (IF c = S - 1 THEN 0 ELSE c + 1) /\ o \in Int
    BY Consts, SectorFacts DEF Sectors
  <1>1. /\ p \in Seq(Seq(Kept)) /\ Len(p) = S /\ \A i \in 1 .. S : p[i] = Logs(f[(o + i - 1) % S].tsls)
        /\ q \in Seq(Seq(Kept)) /\ Len(q) = S /\ \A i \in 1 .. S : q[i] = Logs(g[(o + i - 1) % S].tsls)
    BY <1>0, RowType
  <1> HIDE DEF o, p, q
  <1>2. \A i \in 1 .. m : p[i] = q[i]
    <2> TAKE i \in 1 .. m
    <2> DEFINE t == (o + i - 1) % S
    <2>1. i \in 1 .. S
      BY <1>0
    <2>2. t = (IF o + i - 1 < S THEN o + i - 1 ELSE o + i - 1 - S) /\ t \in Sectors
      BY <1>0, <2>1, Places
    <2>3. p[i] = Logs(f[t].tsls) /\ q[i] = Logs(g[t].tsls)
      BY <1>1, <2>1
    <2> HIDE DEF t
    <2>4. t # c
      BY <1>0, <2>2
    <2> QED BY <2>2, <2>3, <2>4
  <1>3. m \in Nat /\ m <= S
    BY <1>0
  <1> HIDE DEF m
  <1>4. p \in Seq(Y) /\ q \in Seq(Y) /\ m <= Len(p) /\ m <= Len(q)
    BY <1>1, <1>3
  <1> HIDE DEF Y
  <1>5. Upto(p, m) = Upto(q, m)
    BY <1>2, <1>3, <1>4, UptoSame
  <1> QED BY <1>5 DEF Rest, o, p, q, m

\* The first sector of the row is the last of the next row.
LEMMA StoredTurns ==
    ASSUME NEW f, FlashOK(f), NEW c \in Sectors
    PROVE  /\ Stored(f, c) = Joined(Logs(f[c].tsls), Rest(f, c))
           /\ Stored(f, Following(c)) = Joined(Rest(f, c), Logs(f[c].tsls)) /\ Rest(f, c) \in Seq(Kept)
  <1> DEFINE o == Following(c)
             p == Row(f, c)
             q == Row(f, o)
             x == Logs(f[c].tsls)
             m == S - 1
             t == Upto(q, m)
             one == <<x>>
  <1>0. /\ S \in Nat /\ S >= 2 /\ c \in 0 .. S - 1 /\ o \in Sectors /\ o = IF c = S - 1 THEN 0 ELSE c + 1
        /\ c \in Int /\ o \in Int
    BY Consts, SectorFacts DEF Sectors
  <1>1. /\ p \in Seq(Seq(Kept)) /\ Len(p) = S /\ \A i \in 1 .. S : p[i] = Logs(f[(c + i - 1) % S].tsls)
        /\ q \in Seq(Seq(Kept)) /\ Len(q) = S /\ \A i \in 1 .. S : q[i] = Logs(f[(o + i - 1) % S].tsls)
    <2>1. p \in Seq(Seq(Kept)) /\ Len(p) = S /\ \A i \in 1 .. S : p[i] = Logs(f[(c + i - 1) % S].tsls)
      BY <1>0, RowType
    <2> HIDE DEF o
    <2>2. q \in Seq(Seq(Kept)) /\ Len(q) = S /\ \A i \in 1 .. S : q[i] = Logs(f[(o + i - 1) % S].tsls)
      BY <1>0, RowType
    <2> QED BY <2>1, <2>2
  <1>2. p[1] = x /\ q[S] = x
    <2>1. (c + 1 - 1) % S = c /\ (o + S - 1) % S = c
      <3>1. /\ 1 \in 1 .. S /\ S \in 1 .. S
        BY <1>0
      <3>2. (c + 1 - 1) % S = IF c + 1 - 1 < S THEN c + 1 - 1 ELSE c + 1 - 1 - S
        BY <3>1, Places
      <3>3. (o + S - 1) % S = IF o + S - 1 < S THEN o + S - 1 ELSE o + S - 1 - S
        BY <1>0, <3>1, Places
      <3> QED BY <1>0, <3>2, <3>3
    <2>2. 1 \in 1 .. S /\ S \in 1 .. S
      BY <1>0
    <2> HIDE DEF p, q, o, x
    <2>3. p[1] = Logs(f[(c + 1 - 1) % S].tsls) /\ q[S] = Logs(f[(o + S - 1) % S].tsls)
      BY <1>1, <2>2
    <2> QED BY <2>1, <2>3 DEF x
  <1>3. \A i \in 1 .. m : p[i + 1] = q[i]
    <2> TAKE i \in 1 .. m
    <2>1. i \in 1 .. S /\ i + 1 \in 1 .. S
      BY <1>0
    <2>2. (c + (i + 1) - 1) % S = IF c + (i + 1) - 1 < S THEN c + (i + 1) - 1 ELSE c + (i + 1) - 1 - S
      BY <2>1, Places
    <2>3. (o + i - 1) % S = IF o + i - 1 < S THEN o + i - 1 ELSE o + i - 1 - S
      BY <1>0, <2>1, Places
    <2>4. (c + (i + 1) - 1) % S = (o + i - 1) % S
      BY <1>0, <2>1, <2>2, <2>3
    <2> QED BY <1>1, <2>1, <2>4
  <1>4. x \in Seq(Kept) /\ m \in Nat /\ m <= S /\ m + 1 = S
    BY <1>0, LogsType DEF FlashOK, SectorOK
  <1> HIDE DEF o, p, q, x, m
  <1> DEFINE Y == Seq(Kept)
  <1>5. p \in Seq(Y) /\ q \in Seq(Y) /\ x \in Y
    BY <1>1, <1>4
  <1> HIDE DEF Y
  <1>6. t \in Seq(Y) /\ Len(t) = m /\ \A i \in 1 .. m : t[i] = q[i]
    BY <1>1, <1>4, <1>5, UptoIs
  <1> HIDE DEF t
  <1>7. q = Append(t, x)
    <2> DEFINE a == Append(t, x)
    <2>1. a \in Seq(Y) /\ Len(a) = m + 1 /\ \A i \in 1 .. m + 1 : a[i] = IF i = m + 1 THEN x ELSE t[i]
      BY <1>4, <1>5, <1>6
    <2> HIDE DEF a
    <2>2. \A i \in 1 .. m + 1 : a[i] = q[i]
      BY <1>2, <1>4, <1>6, <2>1
    <2>3. a = q
      BY <1>1, <1>4, <1>5, <2>1, <2>2, SeqEqual
    <2> QED BY <2>3 DEF a
  <1>8. p = one \o t
    <2> DEFINE a == one \o t
    <2>1. one \in Seq(Y) /\ Len(one) = 1 /\ one[1] = x
      BY <1>5
    <2> HIDE DEF one
    <2>2. a \in Seq(Y)
      BY <1>6, <2>1
    <2>7. t \in Seq(Y) /\ Len(t) = m /\ one \in Seq(Y)
      BY <1>6, <2>1
    <2>8. Len(a) = Len(one) + Len(t)
      BY <2>7
    <2>9. \A i \in 1 .. Len(one) + Len(t) : a[i] = IF i <= Len(one) THEN one[i] ELSE t[i - Len(one)]
      BY <2>7
    <2>3. Len(a) = 1 + m
      BY <2>1, <2>7, <2>8
    <2>4. \A i \in 1 .. 1 + m : a[i] = IF i <= 1 THEN one[i] ELSE t[i - 1]
      BY <2>1, <2>7, <2>9
    <2> HIDE DEF a
    <2>5. \A i \in 1 .. 1 + m : a[i] = p[i]
      <3> TAKE i \in 1 .. 1 + m
      <3>1. CASE i = 1
        BY <1>2, <2>1, <2>4, <3>1
      <3>2. CASE i # 1
        <4> DEFINE j == i - 1
        <4>1. j \in 1 .. m /\ j + 1 = i /\ ~(i <= 1)
          BY <1>4, <3>2
        <4>2. a[i] = t[j]
          BY <2>4, <4>1
        <4> HIDE DEF j
        <4> QED BY <1>3, <1>6, <4>1, <4>2
      <3> QED BY <3>1, <3>2
    <2>10. 1 + m = S
      BY <1>0, <1>4
    <2>11. p \in Seq(Y) /\ Len(a) = Len(p) /\ \A i \in 1 .. Len(a) : a[i] = p[i]
      BY <1>1, <1>5, <2>3, <2>5, <2>10
    <2>6. a = p
      BY <2>2, <2>11, SeqEqual
    <2> QED BY <2>6 DEF a
  <1>9. t \in Seq(Seq(Kept)) /\ one \in Seq(Seq(Kept))
    <2>1. one \in Seq(Y)
      BY <1>5
    <2> QED BY <1>6, <2>1 DEF Y
  <1>10. FlattenSeq(q) = Joined(FlattenSeq(t), x)
    BY <1>4, <1>7, <1>9, FlatAppend DEF Joined
  <1>11. FlattenSeq(p) = Joined(x, FlattenSeq(t))
    <2>1. FlattenSeq(one) = x
      BY <1>4, FlatOne
    <2> HIDE DEF one
    <2>2. FlattenSeq(one \o t) = FlattenSeq(one) \o FlattenSeq(t)
      BY <1>9, FlatConcat
    <2> QED BY <1>8, <2>1, <2>2 DEF Joined
  <1>12. FlattenSeq(t) \in Seq(Kept)
    BY <1>9, FlatType
  <1>13. Stored(f, c) = Joined(x, FlattenSeq(t)) /\ Stored(f, o) = Joined(FlattenSeq(t), x)
    BY <1>10, <1>11 DEF Stored, p, q
  <1>14. Rest(f, c) = FlattenSeq(t)
    BY DEF Rest, t, q, o, m
  <1> QED BY <1>12, <1>13, <1>14 DEF o, x

\* As many of the first logs are given up as a sector held.
LEMMA GiveUp ==
    ASSUME NEW X, NEW x \in Seq(X), NEW r \in Seq(X), NEW k, k = Joined(x, r)
    PROVE  SubSeq(k, Len(x) + 1, Len(k)) = r
  <1> DEFINE n == Len(x)
             m == Len(r)
             a == SubSeq(k, n + 1, Len(k))
  <1>1. k \in Seq(X) /\ n \in Nat /\ m \in Nat /\ Len(k) = n + m /\ \A i \in 1 .. n + m : k[i] = IF i <= n THEN x[i] ELSE r[i - n]
    BY ConcatProperties DEF Joined
  <1> HIDE DEF n, m
  <1>2. a \in Seq(X) /\ Len(a) = m /\ \A i \in 1 .. m : a[i] = k[n + i]
    <2>1. /\ k \in Seq(X) /\ n + 1 \in 1 .. Len(k) + 1 /\ Len(k) \in Nat /\ Len(k) \in n .. Len(k)
          /\ n + 1 \in Int /\ Len(k) - (n + 1) + 1 = m
      BY <1>1
    <2>2. a \in Seq(X) /\ Len(a) = Len(k) - (n + 1) + 1 /\ \A i \in 1 .. Len(k) - (n + 1) + 1 : a[i] = k[(n + 1) + i - 1]
      BY <2>1, SubSeqProperties
    <2>3. \A i \in 1 .. m : (n + 1) + i - 1 = n + i
      BY <1>1
    <2> HIDE DEF a
    <2> QED BY <2>1, <2>2, <2>3
  <1> HIDE DEF a
  <1>3. \A i \in 1 .. m : a[i] = r[i]
    <2> TAKE i \in 1 .. m
    <2>1. n + i \in 1 .. n + m /\ ~(n + i <= n) /\ (n + i) - n = i
      BY <1>1
    <2> QED BY <1>1, <1>2, <2>1
  <1>4. Len(r) = m
    BY DEF m
  <1> QED BY <1>2, <1>3, <1>4, SeqEqual DEF a, n

LEMMA LogLength == ASSUME NEW es \in Seq(Entries) PROVE Len(Logs(es)) = Len(Written(es))
  <1> DEFINE T == {s \in Seq(Entries) : Written(s) \in Seq(Entries)}
  <1>1. << >> \in Seq(Entries) /\ Written(<< >>) = << >>
    <2>1. [i \in DOMAIN << >> |-> IF Unfinished(<< >>[i]) THEN << >> ELSE << << >>[i] >>] = << >>
      OBVIOUS
    <2> QED BY <2>1, FlatEmpty DEF Written
  <1>2. ASSUME NEW s \in Seq(Entries), NEW e \in Entries, s \in T PROVE Append(s, e) \in T
    <2> DEFINE x == IF Unfinished(e) THEN << >> ELSE <<e>>
    <2>1. Written(s) \in Seq(Entries) /\ Written(Append(s, e)) = Written(s) \o x /\ x \in Seq(Entries)
      BY WrittenAppend
    <2> HIDE DEF x
    <2>2. Written(s) \o x \in Seq(Entries) /\ Append(s, e) \in Seq(Entries)
      BY <2>1
    <2> QED BY <2>1, <2>2
  <1>3. << >> \in T
    BY <1>1
  <1> HIDE DEF T
  <1>4. Seq(Entries) \subseteq T
    BY <1>2, <1>3, SeqInduction
  <1>5. Written(es) \in Seq(Entries)
    BY <1>4 DEF T
  <1> DEFINE w == Written(es)
  <1>6. w \in Seq(Entries)
    BY <1>5
  <1> HIDE DEF w
  <1>7. Len(Log(w)) = Len(w)
    <2>1. DOMAIN w = 1 .. Len(w) /\ Len(w) \in Nat
      BY <1>6
    <2>2. Log(w) = [i \in 1 .. Len(w) |-> [time |-> w[i].time, len |-> w[i].len]]
      BY <2>1 DEF Log
    <2> HIDE DEF w
    <2>3. DOMAIN Log(w) = 1 .. Len(w)
      BY <2>2
    <2>4. Log(w) \in Seq({[time |-> w[i].time, len |-> w[i].len] : i \in 1 .. Len(w)})
      BY <2>1, <2>2
    <2> QED BY <2>1, <2>3, <2>4
  <1> QED BY <1>7 DEF Logs, w

-----------------------------------------------------------------------------
(* What is kept, step by step.                                             *)

Held == {"idle", "control"} \cup (Appending \ {"erase"})

\* A step that promises nothing and takes nothing from any sector.
SameLogs == \A s \in Sectors : Logs(sec'[s].tsls) = Logs(sec[s].tsls)

LEMMA HeldStays ==
    ASSUME TypeInv, KeptInv, Quiet, pc \in Held, pc' \in Held, kept' = kept, oldest' = oldest, SameLogs
    PROVE  KeptInv'
  <1>1. oldest \in Int
    BY SectorFacts DEF TypeInv, NoSector
  <1>2. kept = Stored(sec, oldest)
    BY DEF KeptInv, Held
  <1>3. Stored(sec', oldest) = Stored(sec, oldest)
    BY <1>1, StoredSame DEF SameLogs
  <1>4. kept' = Stored(sec, oldest)'
    BY <1>2, <1>3
  <1> QED BY <1>4 DEF KeptInv, Held, Formatting, Appending

LEMMA PartSame ==
    ASSUME NEW x, NEW part, part # "tsls", Others(x), SameBut(x, part)
    PROVE  SameLogs
  BY DEF Others, SameBut, SameLogs

LEMMA FreshNothing ==
    ASSUME TypeInv, Fresh, NEW o \in Int
    PROVE  Stored(sec, o) = << >>
  <1>1. \A s \in Sectors : sec[s].tsls = << >>
    BY Records DEF Fresh
  <1> QED BY <1>1, StoredNothing DEF TypeInv

LEMMA KeptInit == Init => KeptInv
  <1>1. Init => pc = "boot" /\ kept = << >> /\ Fresh
    BY DEF Init, Fresh
  <1> QED BY <1>1 DEF KeptInv, Formatting, Appending

LEMMA KeptBoot ==
    ASSUME TypeInv, TypeInv', LogInv, EndInv, RoomInv, NeutralInv, KeptInv, Quiet, NEW g \in Stack, Boot(g)
    PROVE  KeptInv'
  <1>1. pc = "boot" /\ sec' = sec /\ kept' = kept /\ AtBoot
    BY DEF Boot, NeutralInv, hist
  <1>2. ~Hangs
    BY <1>1, QuietIs, NoHang
  <1>3. CASE Failing # {}
    <2>1. pc' = "format"
      BY <1>2, <1>3 DEF Boot
    <2>2. Fresh
      BY <1>1, <1>3, ArrangedBoot DEF AtBoot
    <2> QED BY <1>1, <2>1, <2>2 DEF KeptInv, Formatting, Appending
  <1>4. CASE Failing = {}
    <2>1. pc' = "control" /\ oldest' = BootOldest
      BY <1>2, <1>4 DEF Boot
    <2>2. oldest' \in Int
      BY SectorFacts DEF TypeInv, NoSector
    <2>3. kept = Stored(sec, oldest')
      BY <1>1, <2>1, <2>2, FreshNothing DEF KeptInv
    <2>4. kept' = Stored(sec, oldest)'
      BY <1>1, <2>3
    <2> QED BY <2>1, <2>4 DEF KeptInv, Formatting, Appending
  <1> QED BY <1>3, <1>4

LEMMA KeptFormat ==
    ASSUME TypeInv, TypeInv', LogInv, KeptInv, Quiet, FormatErase \/ FormatMagic
    PROVE  KeptInv'
  <1>1. kept' = kept /\ pc \in Formatting /\ kept = << >>
    BY DEF FormatErase, FormatMagic, hist, KeptInv, Formatting
  <1>2. CASE FormatErase
    <2>1. pc' \in {"hung", "formatted"}
      BY <1>2 DEF FormatErase
    <2> QED BY <1>1, <2>1 DEF KeptInv, Formatting, Appending
  <1>3. CASE FormatMagic
    <2>1. CASE fmt < S - 1
      <3>1. pc' = "format"
        BY <1>3, <2>1 DEF FormatMagic
      <3> QED BY <1>1, <3>1 DEF KeptInv, Formatting, Appending
    <2>2. CASE ~(fmt < S - 1)
      <3>1. pc' \in {"idle", "control"}
        BY <1>3, <2>2 DEF FormatMagic
      <3>2. sec'[fmt] = Clean /\ Others(fmt) /\ fmt \in 0 .. S - 1
        BY <1>3, FormatMagicDoes DEF TypeInv, Sectors
      <3>3. \A s \in Sectors : s = fmt \/ s \in 0 .. fmt - 1
        BY <2>2, <3>2, Consts DEF Sectors
      <3>4. \A s \in Sectors : sec'[s] = Clean
        BY <1>1, <3>2, <3>3 DEF Others, LogInv, Formatting
      <3>5. (\A s \in Sectors : sec'[s].tsls = << >>) /\ FlashOK(sec') /\ oldest' \in Int
        <4>1. \A s \in Sectors : sec'[s].tsls = << >>
          BY <3>4, Records
        <4>2. FlashOK(sec') /\ oldest' \in Int
          BY SectorFacts DEF TypeInv, NoSector
        <4> QED BY <4>1, <4>2
      <3>6. kept' = Stored(sec, oldest)'
        BY <1>1, <3>5, StoredNothing
      <3> QED BY <3>1, <3>6 DEF KeptInv, Formatting, Appending
    <2> QED BY <2>1, <2>2
  <1> QED BY <1>2, <1>3

LEMMA KeptSteps ==
    ASSUME TypeInv, LogInv, EndInv, RoomInv, NeutralInv, KeptInv, Quiet, Seal \/ Sealed \/ MarkFull \/ Magic \/ MarkUsing \/ StartTime
    PROVE  KeptInv'
  <1> DEFINE c == cur.addr
  <1>1. kept' = kept /\ oldest' = oldest /\ pc \in Held /\ pc' \in Held
    BY DEF Seal, Sealed, MarkFull, Magic, MarkUsing, StartTime, hist, ram, Held, Appending
  <1>2. c \in Sectors
    BY DEF Seal, Sealed, MarkFull, Magic, MarkUsing, StartTime, TypeInv, Appending
  <1>3. CASE Seal
    BY <1>1, <1>3, SealDoes, PartSame, HeldStays DEF SameLogs
  <1>4. CASE Sealed
    <2>1. FreeEnds # {}
      BY <1>4 DEF Sealed, LogInv
    <2> QED BY <1>1, <1>4, <2>1, SealedDoes, PartSame, HeldStays
  <1>5. CASE MarkFull \/ MarkUsing
    <2>1. Others(c) /\ SameBut(c, "st")
      BY <1>2, <1>5, StatusDoes DEF MarkFull, MarkUsing, Statuses
    <2> QED BY <1>1, <2>1, PartSame, HeldStays
  <1>6. CASE StartTime
    <2>1. Others(c) /\ SameBut(c, "start")
      BY <1>2, <1>6, StartDoes DEF StartTime
    <2> QED BY <1>1, <2>1, PartSame, HeldStays
  <1>7. CASE Magic
    <2>1. sec[c] = Erased /\ sec' = [sec EXCEPT ![c] = Clean]
      BY <1>7 DEF Magic, NeutralInv, AtMagic
    <2>2. Others(c) /\ sec'[c] = Clean
      BY <1>2, <2>1, EraseDoes
    <2>3. SameLogs
      BY <2>1, <2>2, Records DEF Others, SameLogs
    <2> QED BY <1>1, <2>3, HeldStays
  <1> QED BY <1>3, <1>4, <1>5, <1>6, <1>7

\* The sector that is given up is the oldest one.
LEMMA KeptRoll ==
    ASSUME TypeInv, LogInv, EndInv, RoomInv, NeutralInv, KeptInv, Quiet, NextSector \/ Erase
    PROVE  KeptInv'
  <1> DEFINE c == cur.addr
  <1>0. CurOK(cur) /\ FlashOK(sec) /\ (pc \in {"next", "erase"} => c \in Sectors)
    BY DEF TypeInv, Appending
  <1>1. CASE NextSector
    <2> DEFINE s == Following(c)
    <2>1. /\ sec' = sec /\ kept' = kept /\ pc = "next" /\ cur' = HeaderRead(s, cur)
          /\ (cur'.st = "EMPTY" => pc' = "using" /\ oldest' = oldest)
          /\ (cur'.st # "EMPTY" => pc' = "erase" /\ oldest' = Following(s))
      BY <1>1 DEF NextSector, HeaderRead, hist
    <2>2. AtNext /\ c \in Sectors /\ s \in Sectors
      BY <1>0, <2>1, SectorFacts DEF NeutralInv
    <2>3. Arranged(c, oldest) /\ Ended(c, sec[c])
      BY <2>2 DEF AtNext, InPlace
    <2>4. \/ sec[s] = Clean /\ oldest = 0 /\ FirstRound(s)
          \/ Ended(s, sec[s]) /\ LaterRound(s)
      BY <2>2, <2>3, ArrangedNext
    <2>5. sec[s].magic
      BY <2>4, Records DEF Ended
    <2>6. Ended(s, sec[s]) => oldest = s
      <3>1. CASE oldest = 0 /\ FirstRound(c)
        <4>1. c \in 0 .. S - 1 /\ s = IF c = S - 1 THEN 0 ELSE c + 1
          BY <2>2, SectorFacts DEF Sectors
        <4>2. s \in c + 1 .. S - 1 => ~Ended(s, sec[s])
          BY <3>1, Records DEF FirstRound, Ended
        <4>3. c # S - 1 => s \in c + 1 .. S - 1
          BY <4>1, Consts
        <4> QED BY <3>1, <4>1, <4>2, <4>3
      <3> QED BY <2>3, <3>1 DEF Arranged
    <2> HIDE DEF s
    <2>7. cur'.addr = s /\ cur'.st = sec[s].st
      <3>1. cur.end_idx \in Int
        BY <1>0 DEF CurOK
      <3> QED BY <1>0, <2>1, <2>2, <2>5, <3>1, ReadHeader
    <2>8. CASE sec[s] = Clean
      <3>1. pc' = "using" /\ oldest' = oldest
        BY <2>1, <2>7, <2>8, Records
      <3>2. SameLogs
        BY <2>1 DEF SameLogs
      <3> QED BY <2>1, <3>1, <3>2, HeldStays DEF Held, Appending
    <2>9. CASE Ended(s, sec[s])
      <3>1. pc' = "erase"
        BY <2>1, <2>7, <2>9 DEF Ended
      <3>2. kept = Stored(sec, s)
        BY <2>1, <2>6, <2>9 DEF KeptInv, Appending
      <3>3. kept' = Stored(sec, cur.addr)'
        BY <2>1, <2>7, <3>2
      <3> QED BY <3>1, <3>3 DEF KeptInv, Formatting, Appending
    <2> QED BY <2>4, <2>8, <2>9
  <1>2. CASE Erase
    <2> DEFINE o == Following(c)
               x == Logs(sec[c].tsls)
    <2>1. /\ pc = "erase" /\ pc' = "magic" /\ sec' = [sec EXCEPT ![c] = Erased] /\ AtErase /\ oldest' = oldest
          /\ kept' = SubSeq(kept, Len(Written(sec[c].tsls)) + 1, Len(kept))
      BY <1>2 DEF Erase, ram, NeutralInv
    <2>2. Others(c) /\ sec'[c] = Erased /\ FlashOK(sec') /\ c \in Sectors
      BY <1>0, <2>1, EraseDoes
    <2>3. kept = Stored(sec, c) /\ oldest = o
      BY <2>1 DEF KeptInv, AtErase
    <2>4. sec[c].tsls \in Seq(Entries)
      BY <1>0, <2>2 DEF FlashOK, SectorOK
    <2>5. x \in Seq(Kept) /\ Len(x) = Len(Written(sec[c].tsls))
      BY <2>4, LogsType, LogLength
    <2> HIDE DEF o, x
    <2> DEFINE r == Rest(sec, c)
    <2>6. Stored(sec, c) = Joined(x, r) /\ r \in Seq(Kept)
      BY <1>0, <2>2, StoredTurns DEF x
    <2> HIDE DEF r
    <2>7. kept' = r
      BY <2>1, <2>3, <2>5, <2>6, GiveUp
    <2>8. Stored(sec', o) = r
      <3>1. Stored(sec', o) = Joined(Rest(sec', c), Logs(sec'[c].tsls)) /\ Rest(sec', c) \in Seq(Kept)
        BY <2>2, StoredTurns DEF o
      <3>2. Rest(sec', c) = r
        BY <1>0, <2>2, RestSame DEF Others, r
      <3>3. Logs(sec'[c].tsls) = << >>
        BY <2>2, Records, LogsEmpty
      <3> QED BY <3>1, <3>2, <3>3, NothingMore
    <2>9. kept' = Stored(sec, oldest)'
      BY <2>1, <2>3, <2>7, <2>8
    <2> QED BY <2>1, <2>9 DEF KeptInv, Formatting, Appending
  <1> QED BY <1>1, <1>2

\* Where the current sector stands among those from the oldest on: there are no logs behind it.
LEMMA LastPlace ==
    ASSUME NEW c \in Sectors, NEW o, Arranged(c, o)
    PROVE  \E k \in 1 .. S : c = (o + k - 1) % S /\ \A i \in k + 1 .. S : sec[(o + i - 1) % S].tsls = << >>
  <1>0. S \in Nat /\ S >= 2 /\ c \in 0 .. S - 1 /\ o \in Sectors
    BY Consts, ArrangedOthers DEF Sectors
  <1>1. CASE o = 0 /\ FirstRound(c)
    <2> DEFINE k == c + 1
    <2>1. k \in 1 .. S /\ (o + k - 1) % S = c
      <3>1. k \in 1 .. S
        BY <1>0
      <3>2. (o + k - 1) % S = IF o + k - 1 < S THEN o + k - 1 ELSE o + k - 1 - S
        BY <1>0, <3>1, Places
      <3> QED BY <1>0, <1>1, <3>1, <3>2
    <2>2. ASSUME NEW i \in k + 1 .. S PROVE sec[(o + i - 1) % S].tsls = << >>
      <3> DEFINE t == (o + i - 1) % S
      <3>1. i \in 1 .. S
        BY <1>0
      <3>2. t = IF o + i - 1 < S THEN o + i - 1 ELSE o + i - 1 - S
        BY <1>0, <3>1, Places
      <3>3. t \in c + 1 .. S - 1
        BY <1>0, <1>1, <3>1, <3>2
      <3> HIDE DEF t
      <3>4. sec[t] = Clean
        BY <1>1, <3>3 DEF FirstRound
      <3> QED BY <3>4, Records DEF t
    <2> QED BY <2>1, <2>2
  <1>2. CASE o = Following(c)
    <2>1. S \in 1 .. S /\ \A i \in S + 1 .. S : FALSE
      BY <1>0
    <2>2. (o + S - 1) % S = IF o + S - 1 < S THEN o + S - 1 ELSE o + S - 1 - S
      BY <1>0, <2>1, Places
    <2>3. o = IF c = S - 1 THEN 0 ELSE c + 1
      BY <1>2, SectorFacts
    <2>4. c = (o + S - 1) % S
      BY <1>0, <2>2, <2>3
    <2> QED BY <2>1, <2>4
  <1> QED BY <1>1, <1>2 DEF Arranged

LEMMA KeptWrite ==
    ASSUME TypeInv, LogInv, EndInv, RoomInv, NeutralInv, KeptInv, Quiet, Entry \/ Commit \/ EntryNowhere
    PROVE  KeptInv'
  <1> DEFINE c == cur.addr
             es == sec[c].tsls
             n == Len(es)
  <1>0. pc \in {"entry", "commit"} /\ AtEntry
    BY DEF Entry, Commit, EntryNowhere, NeutralInv
  <1>1. c \in Sectors /\ Arranged(c, oldest) /\ oldest \in Sectors /\ SectorOK(sec[c]) /\ FlashOK(sec)
    BY <1>0, ArrangedOthers DEF AtEntry, InPlace, TypeInv, FlashOK
  <1>2. es \in Seq(Entries) /\ n \in Nat
    <2>1. es \in Seq(Entries)
      BY <1>1 DEF SectorOK
    <2> QED BY <2>1
  <1>3. op.time \in Times /\ op.len \in Lens /\ op = [time |-> op.time, len |-> op.len]
    BY <1>0 DEF TypeInv, Appending
  <1>4. CASE Entry
    <2> DEFINE e == [st |-> "PRE_WRITE", time |-> op.time, len |-> op.len, at |-> cur.data - op.len]
    <2>1. UNCHANGED <<kept, oldest>> /\ pc' = "commit" /\ sec' = [sec EXCEPT ![c] = [sec[c] EXCEPT !.tsls = Append(es, e)]]
      BY <1>4 DEF Entry, ram, hist
    <2>2. e \in Entries /\ LogOf(e) = << >>
      <3>1. op.time \in Nat /\ op.len \in 1 .. MaxLen /\ cur.data - op.len \in Int
        BY <1>3, Consts DEF TypeInv, CurOK
      <3> QED BY <3>1 DEF Entries, LogOf, Unfinished
    <2>3. Others(c) /\ sec'[c].tsls = Append(es, e)
      <3>1. Append(es, e) \in Seq(Entries)
        BY <1>2, <2>2
      <3> QED BY <1>1, <2>1, <3>1, LogsDo
    <2> HIDE DEF e
    <2>4. Logs(sec'[c].tsls) = Logs(es)
      <3>1. Logs(Append(es, e)) = Joined(Logs(es), LogOf(e)) /\ Logs(es) \in Seq(Kept)
        BY <1>2, <2>2, LogsAppend, LogsType
      <3> QED BY <2>2, <2>3, <3>1, NothingMore
    <2>5. SameLogs
      BY <2>3, <2>4 DEF Others, SameLogs
    <2> QED BY <1>0, <2>1, <2>5, HeldStays DEF Held, Appending
  <1>5. CASE Commit
    <2> DEFINE e == [es[n] EXCEPT !.st = "WRITE"]
               fs == [es EXCEPT ![n] = e]
    <2>1. /\ kept' = Append(kept, op) /\ oldest' = oldest /\ pc = "commit" /\ pc' = "idle"
          /\ sec' = [sec EXCEPT ![c].tsls[cur.idx + 1].st = "WRITE"]
      BY <1>5 DEF Commit
    <2>2. /\ es # << >> /\ cur.idx = Len(SubSeq(es, 1, n - 1))
          /\ es[n] = [st |-> "PRE_WRITE", time |-> op.time, len |-> op.len, at |-> cur.data - op.len]
      BY <2>1 DEF LogInv, Begun, On
    <2>3. n >= 1 /\ cur.idx + 1 = n
      <3>1. n # 0
        BY <1>2, <2>2, EmptySeq
      <3>2. Len(SubSeq(es, 1, n - 1)) = n - 1
        BY <1>2, <2>2, FrontIs
      <3> QED BY <1>2, <2>2, <3>1, <3>2
    <2>4. es[n] \in Entries /\ LogOf(es[n]) = << >>
      BY <1>2, <2>2, <2>3 DEF LogOf, Unfinished
    <2>5. e \in Entries /\ LogOf(e) = <<op>>
      BY <1>3, <2>2, <2>4 DEF LogOf, Unfinished, Entries
    <2>6. sec' = [sec EXCEPT ![c] = [sec[c] EXCEPT !.tsls = fs]]
      BY <2>1, <2>3
    <2> HIDE DEF e
    <2>7. fs \in Seq(Entries) /\ Len(fs) = n /\ fs[n] = e /\ \A i \in 1 .. n : i # n => fs[i] = es[i]
      BY <1>2, <2>3, <2>5
    <2> HIDE DEF fs
    <2>8. Others(c) /\ sec'[c].tsls = fs /\ FlashOK(sec')
      BY <1>1, <2>6, <2>7, LogsDo
    <2>9. Logs(fs) = Joined(Logs(es), <<op>>)
      <3> HIDE DEF es, n
      <3>1. n # 0 /\ n = Len(es)
        BY <1>2, <2>3 DEF n
      <3>2. \A i \in 1 .. n : i # n => LogOf(fs[i]) = LogOf(es[i])
        BY <2>7
      <3>3. Logs(fs) = Joined(Logs(es), LogOf(fs[n]))
        BY <1>2, <2>4, <2>7, <3>1, <3>2, LogsCommit
      <3> QED BY <2>5, <2>7, <3>3
    <2>10. PICK k \in 1 .. S : c = (oldest + k - 1) % S /\ \A i \in k + 1 .. S : sec[(oldest + i - 1) % S].tsls = << >>
      BY <1>1, LastPlace
    <2>11. <<op>> \in Seq(Kept)
      <3>1. op \in Kept
        BY <1>3, Consts DEF Kept
      <3> QED BY <3>1
    <2>12. Logs(sec'[c].tsls) = Joined(Logs(sec[c].tsls), <<op>>)
      BY <2>8, <2>9
    <2>13. \A s \in Sectors : s # c => Logs(sec'[s].tsls) = Logs(sec[s].tsls)
      BY <2>8 DEF Others
    <2>14. Stored(sec', oldest) = Joined(Stored(sec, oldest), <<op>>)
      <3>1. MoreLogs(sec, sec', oldest, k, <<op>>, c)
        BY <1>1, <2>8, <2>10, <2>11, <2>12, <2>13 DEF MoreLogs
      <3> QED BY <3>1, StoredMore
    <2>15. kept = Stored(sec, oldest) /\ kept \in Seq(Kept)
      BY <1>1, <2>1, StoredType, SectorFacts DEF KeptInv, Appending
    <2>16. Append(kept, op) = Joined(kept, <<op>>)
      BY <2>11, <2>15 DEF Joined
    <2>17. kept' = Stored(sec, oldest)'
      BY <2>1, <2>14, <2>15, <2>16
    <2> QED BY <2>1, <2>17 DEF KeptInv, Formatting, Appending
  <1>6. CASE EntryNowhere
    BY <1>1, <1>6, SectorFacts DEF EntryNowhere
  <1> QED BY <1>4, <1>5, <1>6

LEMMA KeptStatus ==
    ASSUME TypeInv, LogInv, KeptInv, Quiet,
           NEW s \in Sectors, NEW i \in 1 .. Cap, NEW st \in {"USER_STATUS1", "DELETED"},
           fdb_tsl_set_status(s, i, st)
    PROVE  KeptInv'
  <1> DEFINE es == sec[s].tsls
             e == [es[i] EXCEPT !.st = st]
             fs == [es EXCEPT ![i] = e]
  <1>1. SectorOK(sec[s]) /\ i \in 1 .. Len(es) /\ ~Unfinished(es[i])
    BY DEF TypeInv, FlashOK, fdb_tsl_set_status, SectorOK
  <1>2. es \in Seq(Entries)
    BY <1>1 DEF SectorOK
  <1>3. es[i] \in Entries
    BY <1>1, <1>2
  <1>4. e \in Entries /\ LogOf(e) = LogOf(es[i])
    BY <1>1, <1>3 DEF Entries, LogOf, Unfinished
  <1>5. /\ UNCHANGED <<kept, oldest>> /\ pc = "idle" /\ pc' = "idle"
        /\ sec' = [sec EXCEPT ![s] = [sec[s] EXCEPT !.tsls = fs]]
    BY DEF fdb_tsl_set_status, ram
  <1> HIDE DEF e
  <1>6. fs \in Seq(Entries) /\ Len(fs) = Len(es) /\ \A j \in 1 .. Len(es) : fs[j] = IF j = i THEN e ELSE es[j]
    BY <1>1, <1>2, <1>4
  <1> HIDE DEF fs
  <1>7. Others(s) /\ sec'[s].tsls = fs
    BY <1>5, <1>6, LogsDo
  <1>8. \A j \in 1 .. Len(es) : LogOf(es[j]) = LogOf(fs[j])
    BY <1>4, <1>6
  <1> HIDE DEF es
  <1>9. Logs(es) = Logs(fs)
    BY <1>2, <1>6, <1>8, LogsSame
  <1>10. SameLogs
    BY <1>7, <1>9 DEF Others, SameLogs, es
  <1> QED BY <1>5, <1>10, HeldStays DEF Held

LEMMA KeptRest ==
    ASSUME TypeInv, LogInv, EndInv, RoomInv, NeutralInv, KeptInv, Quiet,
           \/ Control \/ fdb_tsl_clean \/ Restart \/ UNCHANGED vars
           \/ \E t \in Times, n \in Lens : fdb_tsl_append(t, n)
    PROVE  KeptInv'
  <1>1. sec' = sec
    BY DEF Control, fdb_tsl_clean, Restart, vars, fdb_tsl_append
  <1>2. SameLogs
    BY <1>1 DEF SameLogs
  <1>3. CASE Control \/ \E t \in Times, n \in Lens : fdb_tsl_append(t, n)
    <2>1. UNCHANGED <<kept, oldest>> /\ pc \in Held /\ pc' \in Held
      BY <1>3 DEF Control, fdb_tsl_append, Begin, ram, hist, Held, Appending
    <2> QED BY <1>2, <2>1, HeldStays
  <1>4. CASE fdb_tsl_clean
    BY <1>4 DEF fdb_tsl_clean, KeptInv, Formatting, Appending
  <1>5. CASE Restart
    <2>1. pc = "idle" /\ pc' = "boot" /\ kept' = kept /\ AtIdle
      BY <1>5 DEF Restart, PowerUp, NeutralInv, hist
    <2>2. BootOldest = oldest /\ kept = Stored(sec, oldest)
      BY <2>1, ArrangedBoot DEF AtIdle, KeptInv
    <2>3. oldest \in Int
      BY SectorFacts DEF TypeInv, NoSector
    <2>4. kept = IF Fresh THEN << >> ELSE Stored(sec, BootOldest)
      BY <2>2, <2>3, FreshNothing
    <2>5. (kept = IF Fresh THEN << >> ELSE Stored(sec, BootOldest))'
      <3>1. sec' = sec
        BY <1>5 DEF Restart
      <3>2. Fresh' = Fresh /\ BootOldest' = BootOldest
        BY <3>1 DEF Fresh, BootOldest, Latest, Empties, InUse
      <3> QED BY <2>1, <2>4, <3>1, <3>2, Zenon
    <2> QED BY <2>1, <2>5 DEF KeptInv, Formatting, Appending
  <1>6. CASE UNCHANGED vars
    BY <1>6 DEF vars, ram, hist, KeptInv, Fresh, Stored, Row, BootOldest, Latest, Empties, InUse
  <1> QED BY <1>3, <1>4, <1>5, <1>6

LEMMA KeptLoss ==
    ASSUME TypeInv, LogInv, EndInv, RoomInv, NeutralInv, KeptInv, Quiet, Quiet', PowerLoss
    PROVE  KeptInv'
  <1>1. /\ sec' = sec /\ pc' = "boot" /\ met' = met \cup Window
        /\ kept' = IF Window \cap Fatal = {} THEN kept ELSE << >>
    BY DEF PowerLoss, PowerUp
  <1>2. Window \cap Fatal = {}
    BY <1>1 DEF Quiet, Fatal
  <1>3. kept = IF Fresh THEN << >> ELSE Stored(sec, BootOldest)
    <2>1. CASE Fresh /\ pc \in Formatting
      BY <2>1 DEF KeptInv
    <2>2. CASE pc \in Appending \ {"erase"} /\ oldest \in Sectors
               /\ \E b \in Sectors : Arranged(b, oldest) /\ Open(sec[b]) /\ FilledThen(sec[b])
      <3>1. kept = Stored(sec, oldest) /\ oldest \in Int
        BY <2>2, SectorFacts DEF KeptInv
      <3>2. BootOldest = oldest
        BY <2>2, ArrangedBoot
      <3> QED BY <3>1, <3>2, FreshNothing
    <2> QED BY <2>1, <2>2, LossLeaves
  <1>4. (kept = IF Fresh THEN << >> ELSE Stored(sec, BootOldest))'
    BY <1>1, <1>2, <1>3 DEF Fresh, BootOldest, Latest, Empties, InUse
  <1> QED BY <1>1, <1>4 DEF KeptInv, Formatting, Appending

LEMMA KeptNext ==
    ASSUME TypeInv, TypeInv', LogInv, EndInv, RoomInv, NeutralInv, KeptInv, [Next]_vars
    PROVE  KeptInv'
  <1> SUFFICES ASSUME Quiet' PROVE KeptInv'
    BY DEF KeptInv
  <1>1. CASE PowerLoss
    <2>1. Quiet
      BY <1>1 DEF PowerLoss, Quiet
    <2> QED BY <1>1, <2>1, KeptLoss
  <1>2. CASE met' = met
    <2>0. Quiet
      BY <1>2 DEF Quiet
    <2>1. CASE Work
      BY <2>0, <2>1, KeptBoot, KeptFormat, KeptSteps, KeptRoll, KeptWrite, KeptRest DEF Work
    <2>2. CASE \/ fdb_tsl_clean \/ Restart \/ UNCHANGED vars
               \/ \E t \in Times, n \in Lens : fdb_tsl_append(t, n)
      BY <2>0, <2>2, KeptRest
    <2>3. ASSUME NEW s \in Sectors, NEW i \in 1 .. Cap, NEW st \in {"USER_STATUS1", "DELETED"},
                 fdb_tsl_set_status(s, i, st)
          PROVE  KeptInv'
      BY <2>0, <2>3, KeptStatus, Zenon
    <2> QED BY <1>1, <2>1, <2>2, <2>3 DEF Next
  <1>3. PowerLoss \/ met' = met
    BY MetGrows
  <1> QED BY <1>1, <1>2, <1>3

LEMMA MetNext == ASSUME MetInv, [Next]_vars PROVE MetInv'
  <1>1. CASE PowerLoss
    <2>1. Window \subseteq {"seal", "start", "entry"} \cup Fatal
      BY DEF Window, Fatal
    <2> QED BY <1>1, <2>1 DEF PowerLoss, MetInv
  <1>2. CASE met' = met
    BY <1>2 DEF MetInv
  <1>3. PowerLoss \/ met' = met
    BY MetGrows
  <1> QED BY <1>1, <1>2, <1>3

-----------------------------------------------------------------------------
(* A sector is not full before it holds a log.                             *)

HasLog(h) == h.st = "FULL" => h.tsls # << >>

LEMMA FullInit == Init => FullInv
  BY DEF Init, FullInv, Erased

LEMMA FullKept ==
    ASSUME FullInv, NEW x, Others(x), HasLog(sec'[x]), pc' \in {"seal", "sealed", "full"} => sec'[cur'.addr].tsls # << >>
    PROVE  FullInv'
  BY DEF FullInv, Others, HasLog

\* A sector without a log has room for the longest one.
LEMMA FullStart ==
    ASSUME TypeInv, LogInv, FullInv, NEW t \in Times, NEW n \in Lens, fdb_tsl_append(t, n)
    PROVE  FullInv'
  <1> DEFINE c == cur.addr
  <1>1. pc = "idle" /\ sec' = sec /\ cur' = cur /\ pc' \in {"idle", "seal", "using", "entry"}
    BY DEF fdb_tsl_append, Begin, ram
  <1>2. ASSUME pc' = "seal" PROVE sec[c].tsls # << >>
    <2>1. cur.st = "USING" /\ cur.remain < Need(n)
      BY <1>2 DEF fdb_tsl_append, Begin
    <2>2. On(cur, sec[c].tsls)
      BY <1>1, <2>1 DEF LogInv, Current
    <2>3. sec[c].tsls = << >> => cur.remain = Cap
      BY <2>2, EmptyPlaced DEF On
    <2>4. Need(n) \in Int /\ Need(n) <= Cap /\ Cap \in Int
      BY Consts DEF Need
    <2> QED BY <2>1, <2>3, <2>4
  <1> QED BY <1>1, <1>2 DEF FullInv

LEMMA FullNext ==
    ASSUME TypeInv, LogInv, FullInv, [Next]_vars
    PROVE  FullInv'
  <1> DEFINE c == cur.addr
  <1>1. CASE (\E g \in Stack : Boot(g)) \/ Control \/ NextSector \/ fdb_tsl_clean \/ Restart \/ PowerLoss
    <2>1. sec' = sec /\ pc' \notin {"seal", "sealed", "full"}
      BY <1>1 DEF Boot, Control, NextSector, fdb_tsl_clean, Restart, PowerLoss, PowerUp
    <2> QED BY <2>1 DEF FullInv
  <1>2. CASE FormatErase
    <2>1. pc' \in {"hung", "formatted"} /\ (sec' = sec \/ (sec'[fmt] = Erased /\ Others(fmt)))
      BY <1>2, FormatEraseDoes
    <2>2. HasLog(Erased)
      BY DEF HasLog, Erased
    <2> QED BY <2>1, <2>2, FullKept DEF FullInv
  <1>3. CASE FormatMagic
    <2>1. pc' \in {"format", "idle", "control"} /\ sec'[fmt] = Clean /\ Others(fmt)
      BY <1>3, FormatMagicDoes DEF FormatMagic
    <2>2. HasLog(Clean)
      BY Records DEF HasLog
    <2> QED BY <2>1, <2>2, FullKept
  <1>4. CASE Seal \/ Sealed
    <2>1. c \in Sectors /\ cur' = cur /\ sec[c].tsls # << >> /\ (sec' = sec \/ (Others(c) /\ SameBut(c, "ends")))
      <3>1. pc \in {"seal", "sealed"} /\ cur' = cur
        BY <1>4 DEF Seal, Sealed, ram
      <3>2. c \in Sectors /\ sec[c].tsls # << >> /\ (Sealed => FreeEnds # {})
        BY <3>1 DEF TypeInv, Appending, FullInv, LogInv, Sealed
      <3> QED BY <1>4, <3>1, <3>2, SealDoes, SealedDoes
    <2>2. CASE sec' = sec
      BY <2>1, <2>2 DEF FullInv
    <2>3. CASE Others(c) /\ SameBut(c, "ends")
      BY <2>1, <2>3, FullKept DEF SameBut, HasLog
    <2> QED BY <2>1, <2>2, <2>3
  <1>5. CASE MarkFull
    <2>1. pc = "full" /\ pc' \in {"idle", "next"} /\ c \in Sectors /\ sec[c].tsls # << >>
      BY <1>5 DEF MarkFull, TypeInv, Appending, FullInv
    <2>2. Others(c) /\ sec'[c].tsls = sec[c].tsls
      BY <1>5, <2>1, StatusDoes DEF MarkFull, Statuses, SameBut
    <2> QED BY <2>1, <2>2, FullKept DEF HasLog
  <1>6. CASE Erase \/ Magic
    <2>1. pc' \in {"magic", "using"} /\ c \in Sectors /\ \E h \in {Clean, Erased} : sec' = [sec EXCEPT ![c] = h]
      BY <1>6 DEF Erase, Magic, TypeInv, Appending
    <2>2. Others(c) /\ sec'[c] \in {Clean, Erased}
      BY <2>1, EraseDoes
    <2>3. HasLog(Clean) /\ HasLog(Erased)
      BY Records DEF HasLog
    <2> QED BY <2>1, <2>2, <2>3, FullKept
  <1>7. CASE MarkUsing
    <2>1. pc' = "start" /\ c \in Sectors
      BY <1>7 DEF MarkUsing, TypeInv, Appending
    <2>2. Others(c) /\ sec'[c].st = "USING"
      BY <1>7, <2>1, StatusDoes DEF MarkUsing, Statuses
    <2> QED BY <2>1, <2>2, FullKept DEF HasLog
  <1>8. CASE StartTime
    <2>1. pc' = "entry" /\ c \in Sectors
      BY <1>8 DEF StartTime, TypeInv, Appending
    <2>2. Others(c) /\ sec'[c].st = sec[c].st /\ sec'[c].tsls = sec[c].tsls
      BY <1>8, <2>1, StartDoes DEF StartTime, SameBut
    <2> QED BY <2>1, <2>2, FullKept DEF HasLog, FullInv
  <1>9. CASE Entry \/ Commit
    <2>1. pc' \in {"commit", "idle"}
      BY <1>9 DEF Entry, Commit
    <2>2. Others(c) /\ sec'[c].tsls # << >>
      BY <1>9, EntryDoes, CommitDoes DEF Begun
    <2> QED BY <2>1, <2>2, FullKept DEF HasLog
  <1>10. CASE EntryNowhere
    <2>1. pc' = "idle" /\ 0 \in Sectors
      BY <1>10, SectorFacts DEF EntryNowhere
    <2>2. Others(0) /\ sec'[0].st = sec[0].st /\ sec'[0].tsls = sec[0].tsls
      BY <1>10, NowhereDoes DEF SameBut
    <2> QED BY <2>1, <2>2, FullKept DEF HasLog, FullInv
  <1>11. ASSUME NEW s \in Sectors, NEW i \in 1 .. Cap, NEW st \in {"USER_STATUS1", "DELETED"},
                fdb_tsl_set_status(s, i, st)
         PROVE  FullInv'
    <2>1. pc' = "idle"
      BY <1>11 DEF fdb_tsl_set_status
    <2>2. Others(s) /\ sec'[s].tsls # << >>
      BY <1>11, SetStatusDoes
    <2> QED BY <2>1, <2>2, FullKept DEF HasLog
  <1>12. ASSUME NEW t \in Times, NEW n \in Lens, fdb_tsl_append(t, n) PROVE FullInv'
    BY <1>12, FullStart
  <1>13. CASE UNCHANGED vars
    BY <1>13 DEF vars, ram, FullInv
  <1> QED BY <1>1, <1>2, <1>3, <1>4, <1>5, <1>6, <1>7, <1>8, <1>9, <1>10, <1>11, <1>12, <1>13 DEF Next, Work

-----------------------------------------------------------------------------
(* What fdb_tsl_iter passes to its callback.                               *)

\* With n logs end_idx is the address of the n-th index, and as many are read.
LEMMA ReachIs ==
    ASSUME NEW s \in Sectors, NEW n \in Nat, NEW v, v.addr = s, v.end_idx = At(s, n)
    PROVE  Reach(v) = n
  <1>1. s \in Int /\ Cap \in Int
    BY Consts DEF Sectors
  <1>2. s * Cap \in Int
    BY <1>1
  <1> DEFINE p == s * Cap
  <1>3. At(s, n) = p + n /\ At(s, 0) = p + 0
    BY DEF At
  <1> HIDE DEF p
  <1>4. At(s, n) - At(s, 0) = n
    BY <1>2, <1>3 DEF p
  <1>5. Reach(v) = Max({0, n})
    BY <1>4 DEF Reach
  <1>6. Max({0, n}) = n
    <2>1. n \in {0, n} /\ \A y \in {0, n} : n >= y
      OBVIOUS
    <2> QED BY <2>1 DEF Max
  <1> QED BY <1>5, <1>6

LEMMA SeenAll ==
    ASSUME NEW s \in Sectors, NEW es \in Seq(Entries), es = sec[s].tsls
    PROVE  Seen(s, Len(es)) = es
  <1> DEFINE n == Len(es)
  <1>1. n \in Nat /\ DOMAIN es = 1 .. n /\ es = [i \in 1 .. n |-> es[i]]
    OBVIOUS
  <1>2. \A i \in 1 .. n : Index(s, i) = es[i]
    BY <1>1 DEF Index
  <1>3. Seen(s, n) = [i \in 1 .. n |-> es[i]]
    BY <1>2 DEF Seen
  <1> QED BY <1>1, <1>3

\* Of a sector that holds logs all indices are known and no more.
Visible(s) == View(s).addr = s /\ Reach(View(s)) = Len(sec[s].tsls)

LEMMA VisibleIs ==
    ASSUME TypeInv, LogInv, EndInv, RoomInv, NeutralInv, Quiet, pc = "idle", NEW s \in Sectors,
           HasTsl(s), sec[s].tsls # << >>
    PROVE  Visible(s)
  <1> DEFINE c == cur.addr
             h == sec[s]
  <1>1. /\ c \in Sectors /\ Arranged(c, oldest) /\ Open(sec[c]) /\ cur.st = sec[c].st
        /\ cur.st = "USING" => Known(sec[c])
    BY QuietIs DEF NeutralInv, AtIdle, Current
  <1>2. FlashOK(sec) /\ SectorOK(h) /\ h.tsls \in Seq(Entries) /\ Len(h.tsls) \in Nat
    BY DEF TypeInv, FlashOK, SectorOK
  <1>3. h # Clean
    BY Records DEF HasTsl
  <1>4. CASE Ended(s, h)
    <2>1. View(s) = HeaderRead(s, Zero)
      BY <1>4 DEF View, HeaderRead, Ended
    <2>2. Zero.end_idx \in Int
      BY DEF Zero
    <2>3. View(s).addr = s /\ View(s).end_idx = EndIdx(h)
      BY <1>2, <1>4, <2>1, <2>2, ReadHeader DEF Ended, Counts
    <2>4. EndIdx(h) = At(s, Len(h.tsls))
      BY <1>4 DEF Ended, Counts
    <2> QED BY <1>2, <2>3, <2>4, ReachIs DEF Visible
  <1>5. CASE s = c
    <2>1. h.st = "USING" /\ h.magic
      BY <1>1, <1>3, <1>5 DEF Open
    <2>2. View(s) = cur /\ cur.addr = s /\ cur.end_idx = At(s, Len(h.tsls))
      BY <1>1, <1>5, <2>1 DEF View, Known
    <2> QED BY <1>2, <2>2, ReachIs DEF Visible
  <1> QED BY <1>1, <1>3, <1>4, <1>5, ArrangedOthers

LEMMA PassedIs ==
    ASSUME TypeInv, LogInv, EndInv, RoomInv, NeutralInv, FullInv, Quiet, pc = "idle", ~Bare, NEW s \in Sectors
    PROVE  Passed(s) = sec[s].tsls
  <1> DEFINE es == sec[s].tsls
  <1>1. es \in Seq(Entries) /\ Len(es) \in Nat
    BY DEF TypeInv, FlashOK, SectorOK
  <1>2. CASE ~HasTsl(s)
    <2>1. sec[s] = Clean
      <3>1. /\ cur.addr \in Sectors /\ Arranged(cur.addr, oldest) /\ Open(sec[cur.addr])
        BY DEF NeutralInv, AtIdle
      <3>2. CASE s = cur.addr
        BY <1>2, <3>1, <3>2 DEF Open, HasTsl
      <3>3. CASE s # cur.addr
        BY <1>2, <3>1, <3>3, ArrangedOthers DEF Ended, HasTsl
      <3> QED BY <3>2, <3>3
    <2> QED BY <1>2, <2>1, Records DEF Passed
  <1>3. CASE HasTsl(s)
    <2>1. es # << >>
      <3>1. /\ cur.addr \in Sectors /\ Arranged(cur.addr, oldest) /\ cur.st = sec[cur.addr].st
            /\ On(cur, sec[cur.addr].tsls)
        BY QuietIs DEF NeutralInv, AtIdle, Current
      <3>2. CASE s = cur.addr /\ sec[s].st = "USING"
        <4>1. Len(es) # 0
          BY <3>1, <3>2 DEF Bare, On
        <4> QED BY <1>1, <4>1
      <3>3. CASE sec[s].st = "FULL"
        BY <3>3 DEF FullInv
      <3>4. CASE s # cur.addr
        <4>1. sec[s].st = "FULL"
          BY <1>3, <3>1, <3>4, ArrangedOthers, Records DEF Ended, HasTsl
        <4> QED BY <3>3, <4>1
      <3> QED BY <1>3, <3>2, <3>3, <3>4 DEF HasTsl
    <2>2. View(s).addr = s /\ Reach(View(s)) = Len(es)
      BY <1>3, <2>1, VisibleIs DEF Visible
    <2>3. Len(es) >= 1
      BY <1>1, <2>1
    <2>4. Max({1, Len(es)}) = Len(es)
      <3>1. Len(es) \in {1, Len(es)} /\ \A y \in {1, Len(es)} : Len(es) >= y
        BY <1>1, <2>3
      <3>2. \A x \in {1, Len(es)} : (\A y \in {1, Len(es)} : x >= y) => x = Len(es)
        BY <1>1, <2>3
      <3> QED BY <3>1, <3>2 DEF Max
    <2>5. Seen(s, Len(es)) = es
      BY <1>1, SeenAll
    <2> QED BY <1>3, <2>2, <2>4, <2>5 DEF Passed
  <1> QED BY <1>2, <1>3

-----------------------------------------------------------------------------
(* The times are in order and the end nodes have them: TimeInv and SortInv. *)

LEMMA CalmIs == Calm => Quiet /\ met \cap {"start", "entry"} = {}
  BY DEF Calm, Quiet

LEMMA FreshTimed == Timed(Clean) /\ Timed(Erased) /\ Done(Clean) /\ Done(Erased)
  <1>1. Len(Clean.tsls) = 0 /\ Len(Erased.tsls) = 0
    BY Records
  <1> QED BY <1>1, Records DEF Timed, Done

\* A step that leaves the logs or gives up those of a sector.
LEMMA TimeStays ==
    ASSUME TypeInv, TimeInv, Calm, pc # "commit", pc' \notin {"commit", "seal", "sealed", "full", "entry"},
           \A s \in Sectors : sec'[s] = sec[s] \/ sec'[s] \in {Clean, Erased}
    PROVE  TimeInv'
  <1>1. \A s \in Sectors : Timed(sec'[s]) /\ Done(sec'[s])
    BY FreshTimed DEF TimeInv
  <1> QED BY <1>1 DEF TimeInv

LEMMA TimeInit == Init => TimeInv /\ SortInv
  <1> SUFFICES ASSUME Init PROVE TimeInv /\ SortInv
    OBVIOUS
  <1>1. \A s \in Sectors : sec[s] = Erased
    BY DEF Init
  <1>2. TimeInv
    BY <1>1, FreshTimed DEF Init, TimeInv
  <1>3. Len(kept) = 0
    BY DEF Init
  <1> QED BY <1>2, <1>3 DEF Init, SortInv, Appending

LEMMA TimeQuiet ==
    ASSUME TypeInv, TimeInv, Calm, Control \/ fdb_tsl_clean \/ Restart \/ FormatErase \/ FormatMagic
                             \/ (\E g \in Stack : Boot(g)) \/ NextSector \/ Erase \/ Magic
    PROVE  TimeInv'
  <1>1. CASE Control \/ fdb_tsl_clean \/ Restart \/ (\E g \in Stack : Boot(g)) \/ NextSector
    <2>1. sec' = sec /\ pc # "commit" /\ pc' \notin {"commit", "seal", "sealed", "full", "entry"}
      BY <1>1 DEF Boot, Control, fdb_tsl_clean, Restart, NextSector, PowerUp
    <2> QED BY <2>1, TimeStays
  <1>2. CASE FormatErase \/ FormatMagic
    <2>1. pc # "commit" /\ pc' \notin {"commit", "seal", "sealed", "full", "entry"}
      BY <1>2 DEF FormatErase, FormatMagic
    <2>2. \A s \in Sectors : sec'[s] = sec[s] \/ sec'[s] \in {Clean, Erased}
      BY <1>2, FormatEraseDoes, FormatMagicDoes DEF Others
    <2> QED BY <2>1, <2>2, TimeStays
  <1>3. CASE Erase \/ Magic
    <2>1. pc \in {"erase", "magic"} /\ pc' \notin {"commit", "seal", "sealed", "full", "entry"} /\ cur.addr \in Sectors
      BY <1>3 DEF Erase, Magic, TypeInv, Appending
    <2>2. \A s \in Sectors : sec'[s] = sec[s] \/ sec'[s] \in {Clean, Erased}
      BY <1>3, <2>1, EraseDoes DEF Others, Erase, Magic
    <2> QED BY <2>1, <2>2, TimeStays
  <1> QED BY <1>1, <1>2, <1>3

LEMMA TimeLoss ==
    ASSUME TypeInv, TimeInv, Calm', PowerLoss
    PROVE  TimeInv'
  <1>1. sec' = sec /\ pc' = "boot" /\ Calm /\ Window \subseteq {"seal"}
    BY DEF PowerLoss, PowerUp, Calm
  <1>2. pc # "commit"
    BY <1>1 DEF Window
  <1> QED BY <1>1, <1>2, TimeStays

\* The last log of the current sector, when the database is between two calls.
LEMMA LastLog ==
    ASSUME TypeInv, LogInv, EndInv, RoomInv, NeutralInv, TimeInv, Calm, pc = "idle", cur.st = "USING"
    PROVE  /\ cur.addr \in Sectors /\ sec[cur.addr].tsls # << >>
           /\ last_time = sec[cur.addr].tsls[Len(sec[cur.addr].tsls)].time
  <1> DEFINE h == sec[cur.addr]
             n == Len(h.tsls)
  <1>1. cur.addr \in Sectors /\ cur.st = h.st /\ AtIdle /\ "start" \notin met
    BY CalmIs, QuietIs DEF NeutralInv, Current
  <1>2. h.tsls # << >> /\ last_time = TimeOf(h.tsls[n])
    BY <1>1 DEF AtIdle, Filled, Known
  <1>3. h.tsls \in Seq(Entries)
    BY <1>1 DEF TypeInv, FlashOK, SectorOK
  <1>4. n \in 1 .. n
    BY <1>2, <1>3
  <1>5. ~Unfinished(h.tsls[n])
    BY <1>1, <1>4 DEF TimeInv, Done
  <1> QED BY <1>1, <1>2, <1>5 DEF TimeOf

LEMMA TimeStart ==
    ASSUME TypeInv, LogInv, EndInv, RoomInv, NeutralInv, TimeInv, Calm,
           NEW t \in Times, NEW n \in Lens, fdb_tsl_append(t, n)
    PROVE  TimeInv'
  <1>1. UNCHANGED <<sec, cur, last_time>> /\ pc = "idle" /\ pc' \in {"idle", "seal", "using", "entry"}
    BY DEF fdb_tsl_append, ram, Begin
  <1>2. cur.st \in {"USING", "EMPTY"}
    BY <1>1, CalmIs, QuietIs
  <1>3. pc' \in {"seal", "entry"} => cur.st = "USING"
    BY <1>2 DEF fdb_tsl_append, Begin
  <1>4. CASE pc' \in {"idle", "using"}
    BY <1>1, <1>4, TimeStays
  <1>5. CASE pc' \in {"seal", "entry"}
    <2>1. /\ cur.addr \in Sectors /\ sec[cur.addr].tsls # << >>
          /\ last_time = sec[cur.addr].tsls[Len(sec[cur.addr].tsls)].time
      BY <1>1, <1>3, <1>5, LastLog
    <2>2. \A s \in Sectors : Timed(sec[s]) /\ Done(sec[s])
      BY <1>1 DEF TimeInv
    <2> QED BY <1>1, <1>5, <2>1, <2>2 DEF TimeInv
  <1> QED BY <1>1, <1>4, <1>5

LEMMA TimeFull ==
    ASSUME TypeInv, LogInv, EndInv, RoomInv, NeutralInv, TimeInv, Calm, Seal \/ Sealed \/ MarkFull
    PROVE  TimeInv'
  <1> DEFINE c == cur.addr
             h == sec[c]
  <1>1. pc \in {"seal", "sealed", "full"} /\ c \in Sectors /\ last_time' = last_time
    BY DEF Seal, Sealed, MarkFull, TypeInv, Appending, ram
  <1>2. /\ \A s \in Sectors : Timed(sec[s]) /\ Done(sec[s])
        /\ h.tsls # << >> /\ last_time = h.tsls[Len(h.tsls)].time
    BY <1>1 DEF TimeInv
  <1>3. ASSUME cur'.addr = c, FlashOK(sec'), Others(c), sec'[c].tsls = h.tsls, sec'[c].start = h.start,
               sec'[c].st = "FULL" => EndTime(sec'[c]) = last_time, pc' \in {"sealed", "full", "next", "idle"}
        PROVE  TimeInv'
    <2>1. Timed(sec'[c]) /\ Done(sec'[c])
      BY <1>1, <1>2, <1>3 DEF Timed, Done
    <2>2. \A s \in Sectors : Timed(sec'[s]) /\ Done(sec'[s])
      BY <1>2, <1>3, <2>1 DEF Others
    <2> QED BY <1>1, <1>2, <1>3, <2>2 DEF TimeInv
  <1>4. CASE Seal
    <2>1. h.st = "USING" /\ cur' = cur /\ pc' \in {"sealed", "full"}
      BY <1>1, <1>4, SectorFacts DEF LogInv, Seal, Current, ram
    <2>2. CASE sec' = sec
      BY <1>1, <1>2, <2>1, <2>2 DEF TimeInv
    <2>3. CASE FlashOK(sec') /\ Others(c) /\ SameBut(c, "ends")
      BY <1>3, <2>1, <2>3 DEF SameBut
    <2> QED BY <1>4, <2>2, <2>3, SealDoes
  <1>5. CASE Sealed
    <2>1. h.st = "USING" /\ cur' = cur /\ pc' = "full" /\ FreeEnds # {}
      BY <1>5 DEF LogInv, Sealed, ram
    <2>2. FlashOK(sec') /\ Others(c) /\ SameBut(c, "ends")
      BY <1>5, <2>1, SealedDoes
    <2> QED BY <1>3, <2>1, <2>2 DEF SameBut
  <1>6. CASE MarkFull
    <2>1. cur'.addr = c /\ pc' \in {"next", "idle"} /\ sec' = [sec EXCEPT ![c].st = "FULL"] /\ pc = "full"
      BY <1>6 DEF MarkFull, TypeInv, CurOK
    <2>2. FlashOK(sec') /\ Others(c) /\ SameBut(c, "st")
      BY <1>1, <2>1, StatusDoes DEF Statuses
    <2>3. EndTime(h) = last_time
      BY <2>1, CalmIs DEF NeutralInv, AtFull
    <2>4. EndTime(sec'[c]) = last_time
      BY <2>2, <2>3 DEF SameBut, EndTime
    <2> QED BY <1>3, <2>1, <2>2, <2>4 DEF SameBut
  <1> QED BY <1>4, <1>5, <1>6

LEMMA TimeUsing ==
    ASSUME TypeInv, LogInv, EndInv, RoomInv, NeutralInv, TimeInv, Calm, MarkUsing \/ StartTime
    PROVE  TimeInv'
  <1> DEFINE c == cur.addr
             h == sec[c]
  <1>1. pc \in {"using", "start"} /\ c \in Sectors /\ cur'.addr = c /\ op' = op
    BY DEF MarkUsing, StartTime, TypeInv, Appending, ram, CurOK
  <1>2. \A s \in Sectors : Timed(sec[s]) /\ Done(sec[s])
    BY <1>1 DEF TimeInv
  <1>3. CASE MarkUsing
    <2>1. pc' = "start" /\ Others(c) /\ SameBut(c, "st") /\ sec'[c].st = "USING"
      BY <1>1, <1>3, StatusDoes DEF MarkUsing, Statuses
    <2>2. Timed(sec'[c]) /\ Done(sec'[c])
      BY <1>1, <1>2, <2>1 DEF Timed, Done, SameBut
    <2>3. \A s \in Sectors : Timed(sec'[s]) /\ Done(sec'[s])
      BY <1>2, <2>1, <2>2 DEF Others
    <2> QED BY <2>1, <2>3 DEF TimeInv
  <1>4. CASE StartTime
    <2>1. pc' = "entry" /\ Others(c) /\ SameBut(c, "start") /\ sec'[c].start = op.time /\ pc = "start"
      BY <1>1, <1>4, StartDoes DEF StartTime
    <2>2. h.tsls = << >> /\ h.st # "FULL"
      <3>1. cur.st = "USING" /\ cur.st = h.st
        BY <1>1, <2>1, SectorFacts DEF LogInv, Current
      <3> QED BY <2>1, <3>1 DEF LogInv
    <2>3. Timed(sec'[c]) /\ Done(sec'[c])
      BY <1>1, <1>2, <2>1, <2>2 DEF Timed, Done, SameBut
    <2>4. \A s \in Sectors : Timed(sec'[s]) /\ Done(sec'[s])
      BY <1>2, <2>1, <2>3 DEF Others
    <2> QED BY <1>1, <2>1, <2>4 DEF TimeInv
  <1> QED BY <1>3, <1>4

LEMMA TimeWrite ==
    ASSUME TypeInv, LogInv, EndInv, RoomInv, NeutralInv, TimeInv, Calm, Entry \/ Commit \/ EntryNowhere
    PROVE  TimeInv'
  <1> DEFINE c == cur.addr
             es == sec[c].tsls
             n == Len(es)
  <1>0. pc \in {"entry", "commit"} /\ AtEntry
    BY CalmIs DEF Entry, Commit, EntryNowhere, NeutralInv
  <1>1. c \in Sectors /\ SectorOK(sec[c]) /\ FlashOK(sec)
    BY <1>0 DEF AtEntry, InPlace, TypeInv, FlashOK
  <1>2. es \in Seq(Entries) /\ n \in Nat
    <2>1. es \in Seq(Entries)
      BY <1>1 DEF SectorOK
    <2> QED BY <2>1
  <1>3. op.time \in Times /\ op.len \in Lens /\ op = [time |-> op.time, len |-> op.len]
    BY <1>0 DEF TypeInv, Appending
  <1>4. CASE Entry
    <2> DEFINE e == [st |-> "PRE_WRITE", time |-> op.time, len |-> op.len, at |-> cur.data - op.len]
               fs == Append(es, e)
    <2>1. cur' = cur /\ pc = "entry" /\ pc' = "commit" /\ sec' = [sec EXCEPT ![c] = [sec[c] EXCEPT !.tsls = fs]]
      BY <1>4 DEF Entry, ram
    <2>2. e \in Entries /\ e.time = op.time
      <3>1. op.time \in Nat /\ op.len \in 1 .. MaxLen /\ cur.data - op.len \in Int
        BY <1>3, Consts DEF TypeInv, CurOK
      <3> QED BY <3>1 DEF Entries
    <2> HIDE DEF e
    <2>3. fs \in Seq(Entries) /\ Len(fs) = n + 1 /\ fs[n + 1] = e /\ \A i \in 1 .. n : fs[i] = es[i]
      BY <1>2, <2>2
    <2> HIDE DEF fs
    <2>4. Others(c) /\ SameBut(c, "tsls") /\ sec'[c].tsls = fs
      BY <1>1, <2>1, <2>3, LogsDo
    <2>5. sec[c].st # "FULL"
      <3>1. cur.st = "USING" /\ cur.st = sec[c].st
        BY <1>1, <2>1, SectorFacts DEF LogInv, Current
      <3> QED BY <3>1
    <2>6. sec[c].start = fs[1].time
      <3>1. CASE es = << >>
        <4>1. n = 0
          BY <3>1
        <4>2. fs[1] = e
          BY <2>3, <4>1
        <4>3. sec[c].start = op.time
          BY <2>1, <3>1 DEF TimeInv
        <4> QED BY <2>2, <4>2, <4>3
      <3>2. CASE es # << >>
        <4>1. 1 \in 1 .. n
          BY <1>2, <3>2
        <4>2. fs[1] = es[1]
          BY <2>3, <4>1
        <4> QED BY <1>1, <3>2, <4>2 DEF TimeInv, Timed
      <3> QED BY <3>1, <3>2
    <2>7. Timed(sec'[c])
      BY <2>4, <2>5, <2>6 DEF Timed, SameBut
    <2>8. DoneBefore(sec'[c])
      <3>1. \A i \in 1 .. n : ~Unfinished(es[i])
        BY <1>1, <2>1 DEF TimeInv, Done
      <3>2. \A i \in 1 .. n + 1 : i # n + 1 => i \in 1 .. n
        BY <1>2
      <3>3. \A i \in 1 .. n + 1 : i # n + 1 => ~Unfinished(fs[i])
        BY <2>3, <3>1, <3>2
      <3> QED BY <2>3, <2>4, <3>3 DEF DoneBefore
    <2>9. \A s \in Sectors : s # c => Timed(sec'[s]) /\ Done(sec'[s])
      BY <2>1, <2>4 DEF TimeInv, Others
    <2> QED BY <2>1, <2>7, <2>8, <2>9 DEF TimeInv
  <1>5. CASE Commit
    <2> DEFINE e == [es[n] EXCEPT !.st = "WRITE"]
               fs == [es EXCEPT ![n] = e]
    <2>1. pc = "commit" /\ pc' = "idle" /\ sec' = [sec EXCEPT ![c].tsls[cur.idx + 1].st = "WRITE"]
      BY <1>5 DEF Commit
    <2>2. /\ es # << >> /\ cur.idx = Len(SubSeq(es, 1, n - 1))
          /\ es[n] = [st |-> "PRE_WRITE", time |-> op.time, len |-> op.len, at |-> cur.data - op.len]
      BY <2>1 DEF LogInv, Begun, On
    <2>3. n >= 1 /\ cur.idx + 1 = n
      <3>1. n # 0
        BY <1>2, <2>2, EmptySeq
      <3>2. Len(SubSeq(es, 1, n - 1)) = n - 1
        BY <1>2, <2>2, FrontIs
      <3> QED BY <1>2, <2>2, <3>1, <3>2
    <2>4. es[n] \in Entries
      BY <1>2, <2>3
    <2>5. e \in Entries /\ ~Unfinished(e) /\ e.time = es[n].time
      BY <2>4 DEF Unfinished, Entries
    <2>6. sec' = [sec EXCEPT ![c] = [sec[c] EXCEPT !.tsls = fs]]
      BY <2>1, <2>3
    <2> HIDE DEF e
    <2>7. fs \in Seq(Entries) /\ Len(fs) = n /\ fs[n] = e /\ \A i \in 1 .. n : i # n => fs[i] = es[i]
      BY <1>2, <2>3, <2>5
    <2> HIDE DEF fs
    <2>8. Others(c) /\ SameBut(c, "tsls") /\ sec'[c].tsls = fs
      BY <1>1, <2>6, <2>7, LogsDo
    <2>9. \A i \in 1 .. n : fs[i].time = es[i].time
      BY <2>5, <2>7
    <2>10. Timed(sec'[c])
      <3>1. Timed(sec[c])
        BY <1>1 DEF TimeInv
      <3>2. 1 \in 1 .. n /\ n \in 1 .. n
        BY <1>2, <2>3
      <3>3. sec'[c].start = sec[c].start /\ sec'[c].st = sec[c].st /\ sec'[c].ends = sec[c].ends
        BY <2>8 DEF SameBut
      <3>4. sec'[c].start = fs[1].time
        BY <2>2, <2>9, <3>1, <3>2, <3>3 DEF Timed
      <3>5. sec[c].st = "FULL" => EndTime(sec[c]) = fs[n].time /\ fs # << >>
        <4>1. fs # << >>
          BY <2>3, <2>7
        <4> QED BY <2>9, <3>1, <3>2, <4>1 DEF Timed
      <3> QED BY <2>7, <2>8, <3>3, <3>4, <3>5 DEF Timed, EndTime
    <2>11. Done(sec'[c])
      <3>1. \A i \in 1 .. n : i # n => ~Unfinished(es[i])
        BY <2>1 DEF TimeInv, DoneBefore
      <3>2. \A i \in 1 .. n : ~Unfinished(fs[i])
        BY <2>5, <2>7, <3>1
      <3> QED BY <2>7, <2>8, <3>2 DEF Done
    <2>12. \A s \in Sectors : Timed(sec'[s]) /\ Done(sec'[s])
      BY <2>1, <2>8, <2>10, <2>11 DEF TimeInv, Others
    <2> QED BY <2>1, <2>12 DEF TimeInv
  <1>6. CASE EntryNowhere
    BY <1>1, <1>6, SectorFacts DEF EntryNowhere
  <1> QED BY <1>4, <1>5, <1>6

LEMMA TimeStatus ==
    ASSUME TypeInv, LogInv, TimeInv, Calm,
           NEW s \in Sectors, NEW i \in 1 .. Cap, NEW st \in {"USER_STATUS1", "DELETED"},
           fdb_tsl_set_status(s, i, st)
    PROVE  TimeInv'
  <1> DEFINE es == sec[s].tsls
             e == [es[i] EXCEPT !.st = st]
             fs == [es EXCEPT ![i] = e]
             n == Len(es)
  <1>1. SectorOK(sec[s]) /\ i \in 1 .. Len(es) /\ ~Unfinished(es[i])
    BY DEF TypeInv, FlashOK, fdb_tsl_set_status, SectorOK
  <1>2. es \in Seq(Entries) /\ n \in Nat
    <2>1. es \in Seq(Entries)
      BY <1>1 DEF SectorOK
    <2> QED BY <2>1
  <1>3. es[i] \in Entries
    BY <1>1, <1>2
  <1>4. e \in Entries /\ ~Unfinished(e) /\ e.time = es[i].time
    BY <1>1, <1>3 DEF Entries, Unfinished
  <1>5. pc = "idle" /\ pc' = "idle" /\ sec' = [sec EXCEPT ![s] = [sec[s] EXCEPT !.tsls = fs]]
    BY DEF fdb_tsl_set_status
  <1> HIDE DEF e
  <1>6. fs \in Seq(Entries) /\ Len(fs) = n /\ \A j \in 1 .. n : fs[j] = IF j = i THEN e ELSE es[j]
    BY <1>1, <1>2, <1>4
  <1> HIDE DEF fs
  <1>7. Others(s) /\ SameBut(s, "tsls") /\ sec'[s].tsls = fs
    BY <1>5, <1>6, LogsDo
  <1>8. Timed(sec[s]) /\ Done(sec[s])
    BY <1>5 DEF TimeInv
  <1>9. \A j \in 1 .. n : fs[j].time = es[j].time /\ ~Unfinished(fs[j])
    BY <1>4, <1>6, <1>8 DEF Done
  <1>10. es # << >> /\ fs # << >> /\ 1 \in 1 .. n /\ n \in 1 .. n
    BY <1>1, <1>2, <1>6
  <1>11. Timed(sec'[s])
    <2>1. sec'[s].start = sec[s].start /\ sec'[s].st = sec[s].st /\ sec'[s].ends = sec[s].ends
      BY <1>7 DEF SameBut
    <2>2. sec'[s].start = fs[1].time
      BY <1>8, <1>9, <1>10, <2>1 DEF Timed
    <2>3. sec[s].st = "FULL" => EndTime(sec[s]) = fs[n].time
      BY <1>8, <1>9, <1>10 DEF Timed
    <2> QED BY <1>6, <1>7, <1>10, <2>1, <2>2, <2>3 DEF Timed, EndTime
  <1>12. Done(sec'[s])
    BY <1>6, <1>7, <1>9 DEF Done
  <1>13. \A t \in Sectors : Timed(sec'[t]) /\ Done(sec'[t])
    <2> TAKE t \in Sectors
    <2>1. t = s => Timed(sec'[t]) /\ Done(sec'[t])
      BY <1>11, <1>12
    <2>2. t # s => Timed(sec'[t]) /\ Done(sec'[t])
      BY <1>5, <1>7 DEF TimeInv, Others
    <2> QED BY <2>1, <2>2
  <1> QED BY <1>5, <1>13 DEF TimeInv

LEMMA TimeNext ==
    ASSUME TypeInv, LogInv, EndInv, RoomInv, NeutralInv, TimeInv, [Next]_vars
    PROVE  TimeInv'
  <1> SUFFICES ASSUME Calm' PROVE TimeInv'
    BY DEF TimeInv
  <1>1. CASE PowerLoss
    BY <1>1, TimeLoss
  <1>2. CASE met' = met /\ ~PowerLoss
    <2>0. Calm
      BY <1>2 DEF Calm
    <2>1. CASE Work
      BY <2>0, <2>1, TimeQuiet, TimeFull, TimeUsing, TimeWrite DEF Work
    <2>2. CASE \E t \in Times, n \in Lens : fdb_tsl_append(t, n)
      BY <2>0, <2>2, TimeStart
    <2>3. CASE \E s \in Sectors, i \in 1 .. Cap, st \in {"USER_STATUS1", "DELETED"} : fdb_tsl_set_status(s, i, st)
      BY <2>0, <2>3, TimeStatus
    <2>4. CASE fdb_tsl_clean \/ Restart
      BY <2>0, <2>4, TimeQuiet
    <2>5. CASE UNCHANGED vars
      BY <2>5 DEF vars, ram, hist, TimeInv, Calm
    <2> QED BY <1>2, <2>1, <2>2, <2>3, <2>4, <2>5 DEF Next
  <1> QED BY <1>1, <1>2, MetGrows

-----------------------------------------------------------------------------
\* The last of all is the last of the last one that is not empty.
FlatEndsIn(s, k, X) ==
    /\ s \in Seq(Seq(X)) /\ k \in 1 .. Len(s) /\ s[k] # << >>
    /\ \A i \in k + 1 .. Len(s) : s[i] = << >>

LEMMA FlatLast ==
    ASSUME NEW X, NEW s, NEW k, FlatEndsIn(s, k, X), NEW f, f = FlattenSeq(s)
    PROVE  f # << >> /\ f \in Seq(X) /\ f[Len(f)] = s[k][Len(s[k])]
  <1> DEFINE n == Len(s)
             x == s[k]
             r == [s EXCEPT ![k] = << >>]
             g == FlattenSeq(r)
  <1>1. s \in Seq(Seq(X)) /\ n \in Nat /\ k \in 1 .. n /\ x \in Seq(X) /\ x # << >>
    BY DEF FlatEndsIn
  <1>2. << >> \in Seq(X)
    OBVIOUS
  <1>3. /\ r \in Seq(Seq(X)) /\ Len(r) = n /\ r[k] = << >>
        /\ \A i \in 1 .. n : i # k => r[i] = s[i]
    <2> DEFINE Y == Seq(X)
    <2>1. s \in Seq(Y) /\ << >> \in Y
      BY <1>1, <1>2
    <2> HIDE DEF Y
    <2>2. r \in Seq(Y) /\ Len(r) = n /\ r[k] = << >> /\ \A i \in 1 .. n : i # k => r[i] = s[i]
      BY <1>1, <2>1
    <2> QED BY <2>2 DEF Y
  <1>4. x = Joined(<< >>, x)
    BY <1>1 DEF Joined
  <1>5. \A i \in k + 1 .. n : s[i] = << >> /\ i \in 1 .. n /\ i # k
    BY <1>1 DEF FlatEndsIn
  <1> HIDE DEF r, n, x
  <1>6. Longer(r, s, n, k, x, X)
    <2>1. Len(s) = n /\ s[k] = x
      BY DEF n, x
    <2> QED BY <1>1, <1>3, <1>4, <1>5, <2>1 DEF Longer
  <1>7. f = Joined(g, x) /\ g \in Seq(X)
    BY <1>3, <1>6, FlatExtend, FlatType
  <1> HIDE DEF g
  <1>8. Len(x) \in 1 .. Len(x) /\ Len(x) \in Nat /\ Len(g) \in Nat
    BY <1>1, <1>7, EmptySeq
  <1>9. f \in Seq(X) /\ Len(f) = Len(g) + Len(x)
    BY <1>1, <1>7 DEF Joined
  <1>10. f[Len(g) + Len(x)] = x[Len(x)]
    <2>1. Len(g) + Len(x) \in 1 .. Len(g) + Len(x) /\ ~(Len(g) + Len(x) <= Len(g)) /\ (Len(g) + Len(x)) - Len(g) = Len(x)
      BY <1>8
    <2>2. \A i \in 1 .. Len(g) + Len(x) : Joined(g, x)[i] = IF i <= Len(g) THEN g[i] ELSE x[i - Len(g)]
      BY <1>1, <1>7 DEF Joined
    <2> QED BY <1>7, <2>1, <2>2
  <1>11. f # << >>
    <2>1. Len(f) # 0
      BY <1>8, <1>9
    <2> QED BY <2>1
  <1> QED BY <1>9, <1>10, <1>11 DEF x

\* The logs of a sector without unfinished ones are those of all its indices.
Whole(es) == \A i \in 1 .. Len(es) : ~Unfinished(es[i])
LEMMA LogsWhole ==
    ASSUME NEW es \in Seq(Entries), Whole(es)
    PROVE  /\ Logs(es) \in Seq(Kept) /\ Len(Logs(es)) = Len(es)
           /\ \A i \in 1 .. Len(es) : Logs(es)[i] = [time |-> es[i].time, len |-> es[i].len]
  <1> DEFINE L(e) == [time |-> e.time, len |-> e.len]
             Good(s) == Len(Logs(s)) = Len(s) /\ \A i \in 1 .. Len(s) : Logs(s)[i] = L(s[i])
             T == {s \in Seq(Entries) : Whole(s) => Good(s)}
  <1>1. << >> \in T
    <2>1. << >> \in Seq(Entries) /\ Len(<< >>) = 0
      OBVIOUS
    <2> QED BY <2>1, LogsEmpty
  <1>2. ASSUME NEW s \in Seq(Entries), NEW e \in Entries, s \in T PROVE Append(s, e) \in T
    <2> DEFINE a == Append(s, e)
               n == Len(s)
    <2>1. a \in Seq(Entries) /\ Len(a) = n + 1 /\ a[n + 1] = e /\ n \in Nat /\ \A i \in 1 .. n : a[i] = s[i]
      OBVIOUS
    <2> HIDE DEF a
    <2> SUFFICES ASSUME Whole(a) PROVE Good(a)
      BY <2>1 DEF a
    <2>2. n + 1 \in 1 .. n + 1 /\ \A i \in 1 .. n : i \in 1 .. n + 1
      BY <2>1
    <2>3. ~Unfinished(e) /\ Whole(s)
      BY <2>1, <2>2 DEF Whole
    <2>4. Good(s)
      BY <1>2, <2>3
    <2>5. Logs(a) = Joined(Logs(s), LogOf(e)) /\ Logs(s) \in Seq(Kept) /\ LogOf(e) = <<L(e)>> /\ LogOf(e) \in Seq(Kept)
      BY <2>3, LogsAppend, LogsType, LogOfType DEF a, LogOf
    <2>6. L(e) \in Kept
      BY DEF Kept, Entries
    <2> DEFINE g == Logs(s)
               y == L(e)
    <2>7. g \in Seq(Kept) /\ y \in Kept /\ Logs(a) = Append(g, y) /\ Len(g) = n
      BY <2>4, <2>5, <2>6 DEF Joined
    <2> HIDE DEF g, y
    <2>8. Len(Append(g, y)) = n + 1 /\ Append(g, y)[n + 1] = y /\ \A i \in 1 .. n : Append(g, y)[i] = g[i]
      BY <2>1, <2>7
    <2>9. \A i \in 1 .. n + 1 : Logs(a)[i] = L(a[i])
      <3> TAKE i \in 1 .. n + 1
      <3>1. CASE i = n + 1
        BY <2>1, <2>7, <2>8, <3>1 DEF y
      <3>2. CASE i # n + 1
        <4>1. i \in 1 .. n
          BY <2>1, <3>2
        <4> QED BY <2>1, <2>4, <2>7, <2>8, <4>1 DEF g
      <3> QED BY <3>1, <3>2
    <2> QED BY <2>1, <2>7, <2>8, <2>9
  <1> HIDE DEF T
  <1>3. Seq(Entries) \subseteq T
    BY <1>1, <1>2, SeqInduction
  <1>4. Good(es)
    BY <1>3 DEF T
  <1> QED BY <1>4, LogsType

\* Where the last log is.
LEMMA LastKept ==
    ASSUME TypeInv, LogInv, EndInv, RoomInv, NeutralInv, KeptInv, TimeInv, Calm, pc = "idle"
    PROVE  kept = << >> \/ (kept \in Seq(Kept) /\ kept[Len(kept)].time = last_time)
  <1> DEFINE c == cur.addr
             o == oldest
             R == Row(sec, o)
  <1>1. /\ c \in Sectors /\ Arranged(c, o) /\ Open(sec[c]) /\ AtIdle /\ kept = Stored(sec, o)
        /\ cur.st \in {"USING", "EMPTY"} /\ cur.st = sec[c].st
    BY CalmIs, QuietIs DEF NeutralInv, AtIdle, KeptInv, Current
  <1>2. FlashOK(sec) /\ o \in Int /\ o \in Sectors /\ S \in Nat /\ S >= 2
    BY <1>1, ArrangedOthers, SectorFacts, Consts DEF TypeInv
  <1>3. R \in Seq(Seq(Kept)) /\ Len(R) = S /\ \A i \in 1 .. S : R[i] = Logs(sec[(o + i - 1) % S].tsls)
    BY <1>2, RowType
  <1>4. PICK k \in 1 .. S : c = (o + k - 1) % S /\ \A i \in k + 1 .. S : sec[(o + i - 1) % S].tsls = << >>
    BY <1>1, LastPlace
  <1>5. ASSUME NEW m \in 1 .. S, NEW s \in Sectors, s = (o + m - 1) % S, sec[s].tsls # << >>,
               sec[s].tsls[Len(sec[s].tsls)].time = last_time,
               \A i \in m + 1 .. S : sec[(o + i - 1) % S].tsls = << >>
        PROVE  kept \in Seq(Kept) /\ kept[Len(kept)].time = last_time
    <2> DEFINE es == sec[s].tsls
               n == Len(es)
               x == Logs(es)
    <2>1. es \in Seq(Entries) /\ Whole(es)
      BY <1>1, <1>2 DEF FlashOK, SectorOK, TimeInv, Done, Whole
    <2>2. x \in Seq(Kept) /\ Len(x) = n /\ \A i \in 1 .. n : x[i] = [time |-> es[i].time, len |-> es[i].len]
      BY <2>1, LogsWhole
    <2>3. n \in 1 .. n
      BY <1>5, <2>1
    <2>4. R[m] = x
      BY <1>3, <1>5
    <2>5. \A i \in m + 1 .. S : R[i] = << >>
      <3> TAKE i \in m + 1 .. S
      <3>1. i \in 1 .. S
        OBVIOUS
      <3> QED BY <1>3, <1>5, <3>1, LogsEmpty
    <2>6. x # << >>
      BY <2>2, <2>3
    <2> HIDE DEF R, x
    <2>7. FlatEndsIn(R, m, Kept)
      BY <1>3, <2>4, <2>5, <2>6 DEF FlatEndsIn
    <2>8. kept = FlattenSeq(R)
      BY <1>1 DEF Stored, R
    <2>9. kept \in Seq(Kept) /\ kept[Len(kept)] = x[n]
      BY <2>2, <2>4, <2>7, <2>8, FlatLast
    <2>10. es[n].time = last_time
      BY <1>5
    <2> HIDE DEF es, n
    <2>11. x[n] = [time |-> es[n].time, len |-> es[n].len]
      BY <2>2, <2>3
    <2> QED BY <2>9, <2>10, <2>11
  <1>6. CASE cur.st = "USING"
    <2>1. sec[c].tsls # << >> /\ last_time = sec[c].tsls[Len(sec[c].tsls)].time
      BY <1>6, LastLog
    <2> QED BY <1>1, <1>4, <1>5, <2>1
  <1>7. CASE cur.st = "EMPTY"
    <2>1. sec[c] = Clean
      BY <1>1, <1>7 DEF Open
    <2>2. CASE c = o
      <3>1. FirstRound(0) /\ c = 0
        BY <1>1, <1>2, <2>2, SectorFacts DEF Arranged
      <3>2. \A s \in Sectors : s = 0 \/ s \in 1 .. S - 1
        BY <1>2 DEF Sectors
      <3>3. \A s \in Sectors : sec[s].tsls = << >>
        BY <2>1, <3>1, <3>2, Records DEF FirstRound
      <3> QED BY <1>1, <1>2, <3>3, StoredNothing
    <2>3. CASE c # o
      <3> DEFINE b == Before(c)
      <3>1. b \in Sectors /\ Ended(b, sec[b])
        BY <1>1, <2>3, ArrangedOthers
      <3>2. last_time = EndTime(sec[b])
        BY <1>1, <1>7, <2>3 DEF AtIdle, LastIs
      <3>3. sec[b].tsls # << >> /\ sec[b].tsls[Len(sec[b].tsls)].time = last_time
        BY <3>1, <3>2 DEF TimeInv, Timed, Ended
      <3>4. k # 1
        <4>1. SUFFICES ASSUME k = 1 PROVE FALSE
          OBVIOUS
        <4>2. 1 \in 1 .. S
          BY <1>2
        <4>3. (o + 1 - 1) % S = IF o + 1 - 1 < S THEN o + 1 - 1 ELSE o + 1 - 1 - S
          BY <1>2, <4>2, Places
        <4>4. o < S /\ o + 1 - 1 = o
          BY <1>2 DEF Sectors
        <4> QED BY <1>4, <2>3, <4>1, <4>3, <4>4
      <3>5. k - 1 \in 1 .. S
        BY <1>2, <3>4
      <3>6. b = (o + (k - 1) - 1) % S
        <4>1. /\ c = (IF o + k - 1 < S THEN o + k - 1 ELSE o + k - 1 - S)
              /\ (o + (k - 1) - 1) % S = (IF o + (k - 1) - 1 < S THEN o + (k - 1) - 1 ELSE o + (k - 1) - 1 - S)
          BY <1>2, <1>4, <3>5, Places
        <4>2. b = IF c = 0 THEN S - 1 ELSE c - 1
          BY <1>1, SectorFacts DEF Before
        <4> QED BY <1>2, <3>4, <4>1, <4>2 DEF Sectors
      <3>7. \A i \in (k - 1) + 1 .. S : sec[(o + i - 1) % S].tsls = << >>
        <4> TAKE i \in (k - 1) + 1 .. S
        <4>1. i = k \/ i \in k + 1 .. S
          BY <1>2
        <4> QED BY <1>4, <2>1, <4>1, Records
      <3> QED BY <1>5, <3>1, <3>3, <3>5, <3>6, <3>7
    <2> QED BY <2>2, <2>3
  <1> QED BY <1>1, <1>6, <1>7

\* What is kept are logs.
LEMMA KeptType ==
    ASSUME TypeInv, NeutralInv, KeptInv, Quiet, pc \notin {"hung"}
    PROVE  kept \in Seq(Kept)
  <1>1. << >> \in Seq(Kept)
    OBVIOUS
  <1>2. FlashOK(sec) /\ cur.addr \in Int /\ oldest \in Int
    BY SectorFacts DEF TypeInv, NoSector, CurOK
  <1>3. CASE pc = "boot"
    <2>1. CASE Fresh
      BY <1>1, <1>3, <2>1 DEF KeptInv
    <2>2. CASE ~Fresh
      <3>1. PICK b \in Sectors, o \in Sectors : Arranged(b, o) /\ Open(sec[b])
        BY <1>3, <2>2 DEF NeutralInv, AtBoot
      <3>2. BootOldest = o /\ o \in Int
        BY <3>1, ArrangedBoot, SectorFacts
      <3> QED BY <1>2, <1>3, <2>2, <3>2, StoredType DEF KeptInv
    <2> QED BY <2>1, <2>2
  <1>4. CASE pc # "boot"
    <2>1. pc \in Formatting \cup {"idle", "control"} \cup Appending
      BY <1>4 DEF TypeInv
    <2> QED BY <1>1, <1>2, <2>1, StoredType DEF KeptInv
  <1> QED BY <1>3, <1>4

LEMMA SortNext ==
    ASSUME TypeInv, LogInv, EndInv, RoomInv, NeutralInv, KeptInv, TimeInv, SortInv, [Next]_vars
    PROVE  SortInv'
  <1> SUFFICES ASSUME Calm' PROVE SortInv'
    BY DEF SortInv
  <1>1. Calm /\ Quiet
    <2>1. met \subseteq met'
      BY MetGrows DEF PowerLoss
    <2> QED BY <2>1, CalmIs DEF Calm
  <1>2. SortInv /\ Calm
    BY <1>1
  <1>3. CASE kept' = << >>
    <2>1. Len(kept') = 0
      BY <1>3
    <2> QED BY <2>1 DEF SortInv
  <1>4. CASE kept' = kept /\ op' = op /\ (pc' \in Appending => pc \in Appending)
    BY <1>2, <1>4 DEF SortInv
  <1>5. CASE kept' = kept /\ pc' \notin Appending
    BY <1>2, <1>5 DEF SortInv
  <1>6. ASSUME NEW t \in Times, NEW n \in Lens, fdb_tsl_append(t, n)
        PROVE  SortInv'
    <2>1. kept' = kept /\ pc = "idle"
      BY <1>6 DEF fdb_tsl_append, hist
    <2>2. CASE pc' = "idle"
      BY <1>5, <2>1, <2>2 DEF Appending
    <2>3. CASE pc' # "idle"
      <3>1. ~(t < last_time) /\ op'.time = t /\ t \in Nat
        BY <1>6, <2>3, Consts DEF fdb_tsl_append, Enter
      <3>2. CASE kept = << >>
        <4>1. Len(kept') = 0
          BY <2>1, <3>2
        <4> QED BY <4>1 DEF SortInv
      <3>3. CASE kept \in Seq(Kept) /\ kept # << >> /\ kept[Len(kept)].time = last_time
        <4> DEFINE n0 == Len(kept)
        <4>1. n0 \in Nat /\ n0 \in 1 .. n0
          BY <3>3
        <4>2. \A i \in 1 .. n0 : kept[i].time \in Nat
          <5>1. \A i \in 1 .. n0 : kept[i] \in Kept
            BY <3>3
          <5>2. \A x \in Kept : x.time \in Nat
            BY DEF Kept
          <5> QED BY <5>1, <5>2
        <4>3. last_time \in Nat
          BY <3>3, <4>1, <4>2
        <4>4. \A i \in 1 .. n0 : i < n0 \/ i = n0
          BY <4>1
        <4>5. \A i \in 1 .. n0 : kept[i].time <= last_time
          BY <1>2, <3>3, <4>1, <4>2, <4>4 DEF SortInv
        <4>6. last_time <= t
          BY <3>1, <4>3
        <4>7. \A i \in 1 .. n0 : kept[i].time <= t
          BY <3>1, <4>2, <4>3, <4>5, <4>6
        <4> QED BY <1>2, <2>1, <3>1, <4>7 DEF SortInv
      <3> QED BY <1>1, <2>1, <3>2, <3>3, LastKept
    <2> QED BY <2>2, <2>3
  <1>7. CASE Erase
    <2>1. pc = "erase" /\ op' = op /\ kept \in Seq(Kept)
      BY <1>1, <1>7, KeptType DEF Erase
    <2>2. PICK n \in Nat : kept' = SubSeq(kept, n + 1, Len(kept))
      <3>1. sec[cur.addr].tsls \in Seq(Entries)
        BY <2>1 DEF TypeInv, Appending, FlashOK, SectorOK
      <3>2. Len(Written(sec[cur.addr].tsls)) \in Nat
        BY <3>1, LogLength, LogsType
      <3> QED BY <1>7, <3>2 DEF Erase
    <2>3. /\ Len(kept') = (IF n + 1 <= Len(kept) THEN Len(kept) - n ELSE 0)
          /\ \A i \in 1 .. Len(kept') : i + n \in 1 .. Len(kept) /\ kept'[i] = kept[i + n]
      BY <2>1, <2>2
    <2>4. \A i \in 1 .. Len(kept'), j \in 1 .. Len(kept') : i < j => i + n < j + n
      <3>1. Len(kept') \in Nat
        BY <2>1, <2>3
      <3> QED BY <3>1
    <2>5. \A i \in 1 .. Len(kept'), j \in 1 .. Len(kept') : i < j => kept'[i].time <= kept'[j].time
      BY <1>2, <2>3, <2>4 DEF SortInv
    <2>6. \A i \in 1 .. Len(kept') : kept'[i].time <= op.time
      BY <1>2, <2>1, <2>3 DEF SortInv, Appending
    <2> QED BY <2>1, <2>5, <2>6 DEF SortInv
  <1>8. CASE Commit
    <2>1. pc = "commit" /\ pc' = "idle" /\ kept' = Append(kept, op) /\ kept \in Seq(Kept)
      BY <1>1, <1>8, KeptType DEF Commit
    <2>2. op \in Kept
      BY <2>1, Consts DEF TypeInv, Appending, Kept
    <2> DEFINE n == Len(kept)
    <2>3. /\ n \in Nat /\ Len(kept') = n + 1 /\ kept'[n + 1] = op /\ \A i \in 1 .. n : kept'[i] = kept[i]
      BY <2>1, <2>2
    <2>4. ASSUME NEW i \in 1 .. n + 1, NEW j \in 1 .. n + 1, i < j
          PROVE  kept'[i].time <= kept'[j].time
      <3>1. i \in 1 .. n
        BY <2>3, <2>4
      <3>2. CASE j = n + 1
        <4>1. kept[i].time <= op.time
          BY <1>2, <2>1, <3>1 DEF SortInv, Appending
        <4> QED BY <2>3, <3>1, <3>2, <4>1
      <3>3. CASE j # n + 1
        <4>1. j \in 1 .. n
          BY <2>3, <3>3
        <4>2. kept[i].time <= kept[j].time
          BY <1>2, <2>4, <3>1, <4>1 DEF SortInv
        <4> QED BY <2>3, <3>1, <4>1, <4>2
      <3> QED BY <3>2, <3>3
    <2> QED BY <2>1, <2>3, <2>4 DEF SortInv, Appending
  <1>9. CASE PowerLoss
    <2>1. pc' = "boot" /\ (kept' = kept \/ kept' = << >>)
      BY <1>9 DEF PowerLoss, PowerUp
    <2> QED BY <1>3, <1>5, <2>1 DEF Appending
  <1>10. CASE \/ Control \/ FormatErase \/ FormatMagic \/ Restart \/ EntryNowhere
              \/ \E g \in Stack : Boot(g)
              \/ \E s \in Sectors, i \in 1 .. Cap, st \in {"USER_STATUS1", "DELETED"} : fdb_tsl_set_status(s, i, st)
    <2>1. kept' = kept /\ pc' \notin Appending
      BY <1>10 DEF Control, FormatErase, FormatMagic, Restart, EntryNowhere, PowerUp, Boot, fdb_tsl_set_status, hist, Appending
    <2> QED BY <1>5, <2>1
  <1>11. CASE \/ Seal \/ Sealed \/ NextSector \/ Magic \/ MarkUsing \/ StartTime \/ Entry \/ UNCHANGED vars
    <2>1. kept' = kept /\ op' = op /\ (pc' \in Appending => pc \in Appending)
      BY <1>11 DEF Seal, Sealed, NextSector, Magic, MarkUsing, StartTime, Entry, vars, hist, Appending
    <2> QED BY <1>4, <2>1
  <1>12. CASE MarkFull
    <2>1. kept' = kept /\ pc = "full" /\ (pc' = "idle" \/ op' = op)
      BY <1>12 DEF MarkFull, hist
    <2> QED BY <1>4, <1>5, <2>1 DEF Appending
  <1>13. CASE fdb_tsl_clean
    BY <1>3, <1>13 DEF fdb_tsl_clean
  <1> QED BY <1>6, <1>7, <1>8, <1>9, <1>10, <1>11, <1>12, <1>13 DEF Next, Work

-----------------------------------------------------------------------------
(* The binary search.                                                      *)

Ranges(n) == (1 .. n + 1) \X (0 .. n)
Mid(lo, hi) == lo + (hi - lo) \div 2
Halved(es, from, f, lo, hi) ==
    IF lo > hi THEN lo
    ELSE IF TimeOf(es[Mid(lo, hi)]) < from THEN f[<<Mid(lo, hi) + 1, hi>>]
    ELSE f[<<lo, Mid(lo, hi) - 1>>]
Halves(f, es, from, n) == f = [r \in Ranges(n) |-> Halved(es, from, f, r[1], r[2])]

LEMMA SearchDef ==
    ASSUME NEW es, NEW from, \E f : Halves(f, es, from, Len(es))
    PROVE  \E f : Halves(f, es, from, Len(es)) /\ Search(es, from) = f[<<1, Len(es)>>]
  BY Zenon DEF Search, Halves, Halved, Mid, Ranges

LEMMA HalvesAt ==
    ASSUME NEW es, NEW from, NEW n \in Nat, NEW f, Halves(f, es, from, n), NEW lo \in 1 .. n + 1, NEW hi \in 0 .. n
    PROVE  f[<<lo, hi>>] = Halved(es, from, f, lo, hi)
  <1> DEFINE r == <<lo, hi>>
  <1>1. r \in Ranges(n) /\ r[1] = lo /\ r[2] = hi
    BY DEF Ranges
  <1> HIDE DEF r
  <1>2. f[r] = Halved(es, from, f, r[1], r[2])
    BY <1>1, Zenon DEF Halves
  <1> QED BY <1>1, <1>2 DEF r

LEMMA MidIs ==
    ASSUME NEW lo \in Nat, NEW hi \in Nat, lo <= hi
    PROVE  Mid(lo, hi) \in lo .. hi
  <1>1. (hi - lo) \div 2 \in 0 .. hi - lo
    OBVIOUS
  <1> QED BY <1>1 DEF Mid

\* From k on the times are not before from.
Splits(es, from, n, k) ==
    /\ n \in Nat /\ k \in 1 .. n + 1
    /\ \A i \in 1 .. n : TimeOf(es[i]) < from <=> i < k

\* Where the search of a range ends.
Ends(k, lo, hi) == IF lo > hi THEN lo ELSE IF k < lo THEN lo ELSE IF k > hi THEN hi + 1 ELSE k

LEMMA EndsStep ==
    ASSUME NEW n \in Nat, NEW k \in 1 .. n + 1, NEW lo \in 1 .. n + 1, NEW hi \in 0 .. n, lo <= hi,
           NEW m \in lo .. hi
    PROVE  /\ m < k => Ends(k, lo, hi) = Ends(k, m + 1, hi)
           /\ ~(m < k) => Ends(k, lo, hi) = Ends(k, lo, m - 1)
  BY DEF Ends

LEMMA HalvesExist ==
    ASSUME NEW es, NEW from, NEW n, NEW k, Splits(es, from, n, k)
    PROVE  \E f : Halves(f, es, from, n)
  <1> DEFINE f == [r \in Ranges(n) |-> Ends(k, r[1], r[2])]
  <1>0. n \in Nat /\ k \in 1 .. n + 1
    BY DEF Splits
  <1>1. ASSUME NEW lo \in 1 .. n + 1, NEW hi \in 0 .. n PROVE f[<<lo, hi>>] = Ends(k, lo, hi)
    <2>1. <<lo, hi>> \in Ranges(n)
      BY DEF Ranges
    <2> QED BY <2>1
  <1> HIDE DEF f
  <1>2. ASSUME NEW lo \in 1 .. n + 1, NEW hi \in 0 .. n PROVE Ends(k, lo, hi) = Halved(es, from, f, lo, hi)
    <2>1. CASE lo > hi
      BY <2>1 DEF Ends, Halved
    <2>2. CASE lo <= hi
      <3> DEFINE m == Mid(lo, hi)
      <3>1. m \in lo .. hi
        BY <1>0, <2>2, MidIs
      <3>2. m \in 1 .. n /\ m + 1 \in 1 .. n + 1 /\ m - 1 \in 0 .. n /\ ~(lo > hi)
        BY <1>0, <2>2, <3>1
      <3>3. TimeOf(es[m]) < from <=> m < k
        BY <3>2 DEF Splits
      <3>4. f[<<m + 1, hi>>] = Ends(k, m + 1, hi) /\ f[<<lo, m - 1>>] = Ends(k, lo, m - 1)
        BY <1>1, <3>2
      <3>5. /\ m < k => Ends(k, lo, hi) = Ends(k, m + 1, hi)
            /\ ~(m < k) => Ends(k, lo, hi) = Ends(k, lo, m - 1)
        BY <1>0, <2>2, <3>1, EndsStep
      <3>6. Halved(es, from, f, lo, hi) = IF TimeOf(es[m]) < from THEN f[<<m + 1, hi>>] ELSE f[<<lo, m - 1>>]
        BY <3>2 DEF Halved
      <3> QED BY <3>3, <3>4, <3>5, <3>6
    <2> QED BY <1>0, <2>1, <2>2
  <1>3. \A r \in Ranges(n) : r[1] \in 1 .. n + 1 /\ r[2] \in 0 .. n
    BY DEF Ranges
  <1>4. \A r \in Ranges(n) : Ends(k, r[1], r[2]) = Halved(es, from, f, r[1], r[2])
    BY <1>2, <1>3
  <1>5. f = [r \in Ranges(n) |-> Halved(es, from, f, r[1], r[2])]
    <2>1. f = [r \in Ranges(n) |-> Ends(k, r[1], r[2])]
      BY DEF f
    <2> QED BY <1>4, <2>1
  <1> QED BY <1>5 DEF Halves

\* Every range ends where it must, the narrower ones first.
LEMMA HalvesEnd ==
    ASSUME NEW es, NEW from, NEW n, NEW k, Splits(es, from, n, k), NEW f, Halves(f, es, from, n)
    PROVE  f[<<1, n>>] = k
  <1> DEFINE T == {w \in Nat : \A lo \in 1 .. n + 1, hi \in 0 .. n : hi - lo < w => f[<<lo, hi>>] = Ends(k, lo, hi)}
  <1>0. n \in Nat /\ k \in 1 .. n + 1
    BY DEF Splits
  <1>1. 0 \in T
    <2>1. ASSUME NEW lo \in 1 .. n + 1, NEW hi \in 0 .. n, hi - lo < 0 PROVE f[<<lo, hi>>] = Ends(k, lo, hi)
      <3>1. lo > hi
        BY <1>0, <2>1
      <3>2. f[<<lo, hi>>] = Halved(es, from, f, lo, hi)
        BY <1>0, HalvesAt
      <3> QED BY <3>1, <3>2 DEF Halved, Ends
    <2> QED BY <2>1
  <1>2. ASSUME NEW w \in Nat, w \in T PROVE w + 1 \in T
    <2>1. ASSUME NEW lo \in 1 .. n + 1, NEW hi \in 0 .. n, hi - lo < w + 1 PROVE f[<<lo, hi>>] = Ends(k, lo, hi)
      <3>0. f[<<lo, hi>>] = Halved(es, from, f, lo, hi)
        BY <1>0, HalvesAt
      <3>1. CASE lo > hi
        BY <3>0, <3>1 DEF Halved, Ends
      <3>2. CASE lo <= hi
        <4> DEFINE m == Mid(lo, hi)
        <4>1. m \in lo .. hi
          BY <1>0, <3>2, MidIs
        <4>2. /\ m \in 1 .. n /\ m + 1 \in 1 .. n + 1 /\ m - 1 \in 0 .. n /\ ~(lo > hi)
              /\ hi - (m + 1) < w /\ (m - 1) - lo < w
          BY <1>0, <2>1, <3>2, <4>1
        <4>3. TimeOf(es[m]) < from <=> m < k
          BY <4>2 DEF Splits
        <4>4. f[<<m + 1, hi>>] = Ends(k, m + 1, hi) /\ f[<<lo, m - 1>>] = Ends(k, lo, m - 1)
          BY <1>2, <4>2
        <4>5. /\ m < k => Ends(k, lo, hi) = Ends(k, m + 1, hi)
              /\ ~(m < k) => Ends(k, lo, hi) = Ends(k, lo, m - 1)
          BY <1>0, <3>2, <4>1, EndsStep
        <4>6. f[<<lo, hi>>] = IF TimeOf(es[m]) < from THEN f[<<m + 1, hi>>] ELSE f[<<lo, m - 1>>]
          BY <3>0, <4>2 DEF Halved
        <4> QED BY <4>3, <4>4, <4>5, <4>6
      <3> QED BY <1>0, <3>1, <3>2
    <2> QED BY <2>1
  <1> HIDE DEF T
  <1>3. Nat \subseteq T
    BY <1>1, <1>2, Induction
  <1>4. n \in T /\ 1 \in 1 .. n + 1 /\ n \in 0 .. n /\ n - 1 < n
    BY <1>0, <1>3
  <1>5. f[<<1, n>>] = Ends(k, 1, n)
    BY <1>4 DEF T
  <1>6. Ends(k, 1, n) = k
    BY <1>0 DEF Ends
  <1> QED BY <1>5, <1>6

LEMMA SearchIs ==
    ASSUME NEW es, NEW from, NEW k, Splits(es, from, Len(es), k)
    PROVE  Search(es, from) = k
  <1>1. \E f : Halves(f, es, from, Len(es))
    BY HalvesExist
  <1>2. PICK f : Halves(f, es, from, Len(es)) /\ Search(es, from) = f[<<1, Len(es)>>]
    BY <1>1, SearchDef
  <1>3. f[<<1, Len(es)>>] = k
    BY <1>2, HalvesEnd
  <1> QED BY <1>2, <1>3

-----------------------------------------------------------------------------
(* The part of a sequence that is in a set.                                *)

PieceOf(x, A) == IF x \in A THEN <<x>> ELSE << >>
PiecesOf(s, A) == [i \in DOMAIN s |-> PieceOf(s[i], A)]
Sift(s, A) == FlattenSeq(PiecesOf(s, A))

LEMMA SiftNothing == ASSUME NEW A PROVE Sift(<< >>, A) = << >>
  <1>1. PiecesOf(<< >>, A) = << >>
    BY DEF PiecesOf
  <1> QED BY <1>1, FlatEmpty DEF Sift

LEMMA SiftAppend ==
    ASSUME NEW X, NEW A, NEW s \in Seq(X), NEW x \in X
    PROVE  /\ PieceOf(x, A) \in Seq(X) /\ Sift(s, A) \in Seq(X)
           /\ Sift(Append(s, x), A) = Joined(Sift(s, A), PieceOf(x, A))
  <1> DEFINE n == Len(s)
             t == Append(s, x)
             p == PiecesOf(s, A)
             q == PiecesOf(t, A)
             y == PieceOf(x, A)
             Y == Seq(X)
  <1>1. /\ n \in Nat /\ Len(t) = n + 1 /\ t[n + 1] = x /\ \A i \in 1 .. n : t[i] = s[i] /\ s[i] \in X
        /\ DOMAIN s = 1 .. n /\ DOMAIN t = 1 .. n + 1
    OBVIOUS
  <1>2. \A z \in X : PieceOf(z, A) \in Y
    BY DEF PieceOf
  <1> HIDE DEF t, Y
  <1>3. p \in Seq(Y) /\ Len(p) = n /\ \A i \in 1 .. n : p[i] = PieceOf(s[i], A)
    BY <1>1, <1>2 DEF PiecesOf
  <1>4. q = [i \in 1 .. n + 1 |-> PieceOf(t[i], A)]
    BY <1>1 DEF PiecesOf
  <1>5. \A i \in 1 .. n + 1 : q[i] = IF i = n + 1 THEN y ELSE p[i]
    BY <1>1, <1>3, <1>4
  <1>6. y \in Y
    BY <1>2
  <1> HIDE DEF p, y, n
  <1>7. q = Append(p, y)
    <2> DEFINE a == Append(p, y)
    <2>1. a \in Seq(Y) /\ Len(a) = n + 1 /\ \A i \in 1 .. n + 1 : a[i] = IF i = n + 1 THEN y ELSE p[i]
      BY <1>1, <1>3, <1>6
    <2>2. q \in Seq(Y) /\ Len(q) = n + 1
      <3> HIDE DEF q
      <3>1. \A i \in 1 .. n + 1 : q[i] \in Y
        <4>1. \A i \in 1 .. n : p[i] \in Y
          BY <1>3
        <4> QED BY <1>1, <1>5, <1>6, <4>1
      <3>2. n + 1 \in Nat /\ DOMAIN q = 1 .. n + 1 /\ q = [i \in 1 .. n + 1 |-> q[i]]
        BY <1>1, <1>4
      <3> QED BY <3>1, <3>2
    <2> HIDE DEF a, q
    <2>3. \A i \in 1 .. n + 1 : a[i] = q[i]
      BY <1>5, <2>1
    <2>4. a = q
      BY <2>1, <2>2, <2>3, SeqEqual
    <2> QED BY <2>4 DEF a
  <1>8. FlattenSeq(Append(p, y)) = FlattenSeq(p) \o y /\ FlattenSeq(p) \in Seq(X)
    BY <1>3, <1>6, FlatAppend, FlatType DEF Y
  <1> HIDE DEF q
  <1>9. Sift(s, A) = FlattenSeq(p) /\ Sift(Append(s, x), A) = FlattenSeq(q)
    BY DEF Sift, p, q, t
  <1> QED BY <1>6, <1>7, <1>8, <1>9 DEF Joined, Y, y

LEMMA SiftType ==
    ASSUME NEW X, NEW A, NEW s \in Seq(X)
    PROVE  Sift(s, A) \in Seq(X)
  <1> DEFINE T == {u \in Seq(X) : Sift(u, A) \in Seq(X)}
  <1>1. << >> \in T
    <2>1. << >> \in Seq(X)
      OBVIOUS
    <2>2. Sift(<< >>, A) = << >>
      BY SiftNothing
    <2> QED BY <2>1, <2>2
  <1>2. ASSUME NEW u \in Seq(X), NEW x \in X, u \in T PROVE Append(u, x) \in T
    <2> DEFINE y == PieceOf(x, A)
               g == Sift(u, A)
               h == Sift(Append(u, x), A)
    <2>1. y \in Seq(X) /\ g \in Seq(X) /\ h = Joined(g, y)
      BY SiftAppend
    <2>2. Append(u, x) \in Seq(X)
      OBVIOUS
    <2> HIDE DEF y, g, h
    <2>3. h \in Seq(X)
      BY <2>1 DEF Joined
    <2> QED BY <2>2, <2>3 DEF h
  <1> HIDE DEF T
  <1>3. Seq(X) \subseteq T
    BY <1>1, <1>2, SeqInduction
  <1> QED BY <1>3 DEF T

LEMMA SiftConcat ==
    ASSUME NEW X, NEW A, NEW s \in Seq(X), NEW t \in Seq(X)
    PROVE  Sift(s \o t, A) = Joined(Sift(s, A), Sift(t, A))
  <1> DEFINE T == {u \in Seq(X) : Sift(s \o u, A) = Joined(Sift(s, A), Sift(u, A))}
  <1>0. Sift(s, A) \in Seq(X)
    BY SiftType
  <1>1. << >> \in T
    <2>1. s \o << >> = s /\ << >> \in Seq(X)
      OBVIOUS
    <2> QED BY <1>0, <2>1, SiftNothing, NothingMore
  <1>2. ASSUME NEW u \in Seq(X), NEW x \in X, u \in T PROVE Append(u, x) \in T
    <2>1. s \o Append(u, x) = Append(s \o u, x) /\ s \o u \in Seq(X) /\ Append(u, x) \in Seq(X)
      OBVIOUS
    <2> DEFINE f == Sift(s, A)
               g == Sift(u, A)
               y == PieceOf(x, A)
    <2>2. Sift(Append(s \o u, x), A) = Joined(Sift(s \o u, A), y)
      BY <2>1, SiftAppend
    <2>3. Sift(Append(u, x), A) = Joined(g, y) /\ g \in Seq(X) /\ y \in Seq(X)
      BY SiftAppend
    <2>4. Sift(s \o u, A) = Joined(f, g)
      BY <1>2
    <2>5. f \in Seq(X)
      BY <1>0
    <2> HIDE DEF f, g, y
    <2>6. Joined(f, Joined(g, y)) = Joined(Joined(f, g), y)
      BY <2>3, <2>5, Associative DEF Three
    <2>7. Sift(s \o Append(u, x), A) = Joined(f, Sift(Append(u, x), A))
      BY <2>1, <2>2, <2>3, <2>4, <2>6
    <2> QED BY <2>1, <2>7 DEF f
  <1> HIDE DEF T
  <1>3. Seq(X) \subseteq T
    BY <1>1, <1>2, SeqInduction
  <1> QED BY <1>3 DEF T

LEMMA SiftFlat ==
    ASSUME NEW X, NEW A, NEW ss \in Seq(Seq(X))
    PROVE  /\ [i \in DOMAIN ss |-> Sift(ss[i], A)] \in Seq(Seq(X))
           /\ Sift(FlattenSeq(ss), A) = FlattenSeq([i \in DOMAIN ss |-> Sift(ss[i], A)])
  <1> DEFINE L(s) == [i \in DOMAIN s |-> Sift(s[i], A)]
             T == {s \in Seq(Seq(X)) : L(s) \in Seq(Seq(X)) /\ Sift(FlattenSeq(s), A) = FlattenSeq(L(s))}
  <1>1. << >> \in T
    <2>1. << >> \in Seq(Seq(X)) /\ L(<< >>) = << >>
      OBVIOUS
    <2> QED BY <2>1, FlatEmpty, SiftNothing
  <1>2. ASSUME NEW s \in Seq(Seq(X)), NEW x \in Seq(X), s \in T PROVE Append(s, x) \in T
    <2>1. FlattenSeq(Append(s, x)) = FlattenSeq(s) \o x /\ FlattenSeq(s) \in Seq(X)
      BY FlatAppend, FlatType
    <2>2. Sift(FlattenSeq(s) \o x, A) = Joined(Sift(FlattenSeq(s), A), Sift(x, A))
      BY <2>1, SiftConcat
    <2>3. L(s) \in Seq(Seq(X)) /\ Sift(x, A) \in Seq(X)
      BY <1>2, SiftType
    <2>4. L(Append(s, x)) = Append(L(s), Sift(x, A))
      <3>1. /\ DOMAIN s = 1 .. Len(s) /\ Len(s) \in Nat /\ DOMAIN Append(s, x) = 1 .. Len(s) + 1
            /\ \A i \in 1 .. Len(s) + 1 : Append(s, x)[i] = IF i = Len(s) + 1 THEN x ELSE s[i]
        OBVIOUS
      <3>2. Append(L(s), Sift(x, A)) = [i \in 1 .. Len(s) + 1 |-> IF i = Len(s) + 1 THEN Sift(x, A) ELSE Sift(s[i], A)]
        BY <3>1, <2>3
      <3> QED BY <3>1, <3>2
    <2>5. Sift(FlattenSeq(s), A) = FlattenSeq(L(s))
      BY <1>2
    <2> HIDE DEF L
    <2>6. FlattenSeq(Append(L(s), Sift(x, A))) = FlattenSeq(L(s)) \o Sift(x, A)
      BY <2>3, FlatAppend
    <2>7. Append(s, x) \in Seq(Seq(X)) /\ Append(L(s), Sift(x, A)) \in Seq(Seq(X))
      BY <2>3
    <2> QED BY <2>1, <2>2, <2>4, <2>5, <2>6, <2>7 DEF Joined
  <1> HIDE DEF T
  <1>3. Seq(Seq(X)) \subseteq T
    BY <1>1, <1>2, SeqInduction
  <1> QED BY <1>3 DEF T

\* The members of A are those from a to b.
Span(s, A, a, b) ==
    /\ a \in Nat /\ b \in Nat /\ 1 <= a /\ a <= b + 1 /\ b <= Len(s)
    /\ \A i \in 1 .. Len(s) : s[i] \in A <=> a <= i /\ i <= b
Part(s, a, b) == SubSeq(s, a, b)

PartOf(s, a, b, X) == s \in Seq(X) /\ a \in Nat /\ b \in Nat /\ 1 <= a /\ a <= b + 1 /\ b <= Len(s)
LEMMA PartIs ==
    ASSUME NEW X, NEW s, NEW a, NEW b, PartOf(s, a, b, X)
    PROVE  /\ Part(s, a, b) \in Seq(X) /\ Len(Part(s, a, b)) = b - a + 1
           /\ \A i \in 1 .. b - a + 1 : Part(s, a, b)[i] = s[i + a - 1]
  BY DEF Part, PartOf

LEMMA PartAppend ==
    ASSUME NEW X, NEW s \in Seq(X), NEW x \in X, NEW a \in Nat, NEW b \in Nat, 1 <= a, a <= b + 1
    PROVE  /\ b <= Len(s) => Part(Append(s, x), a, b) = Part(s, a, b)
           /\ b = Len(s) => Part(Append(s, x), a, b + 1) = Append(Part(s, a, b), x)
  <1> DEFINE t == Append(s, x)
             n == Len(s)
  <1>1. t \in Seq(X) /\ Len(t) = n + 1 /\ n \in Nat /\ t[n + 1] = x /\ \A i \in 1 .. n : t[i] = s[i]
    OBVIOUS
  <1> HIDE DEF t
  <1>2. ASSUME b <= n PROVE Part(t, a, b) = Part(s, a, b)
    <2> DEFINE u == Part(t, a, b)
               v == Part(s, a, b)
    <2>0. PartOf(s, a, b, X) /\ PartOf(t, a, b, X)
      BY <1>1, <1>2 DEF PartOf
    <2>1. v \in Seq(X) /\ Len(v) = b - a + 1 /\ \A i \in 1 .. b - a + 1 : v[i] = s[i + a - 1]
      BY <2>0 DEF PartOf, Part
    <2>2. u \in Seq(X) /\ Len(u) = b - a + 1 /\ \A i \in 1 .. b - a + 1 : u[i] = t[i + a - 1]
      BY <2>0 DEF PartOf, Part
    <2>3. \A i \in 1 .. b - a + 1 : i + a - 1 \in 1 .. n
      BY <1>1, <1>2
    <2>4. \A i \in 1 .. b - a + 1 : u[i] = v[i]
      BY <1>1, <2>1, <2>2, <2>3
    <2> HIDE DEF u, v
    <2> QED BY <2>1, <2>2, <2>4, SeqEqual DEF u, v
  <1>3. ASSUME b = n PROVE Part(t, a, b + 1) = Append(Part(s, a, b), x)
    <2> DEFINE u == Part(t, a, b + 1)
               v == Part(s, a, b)
               w == Append(v, x)
    <2>0. PartOf(s, a, b, X) /\ PartOf(t, a, b + 1, X)
      BY <1>1, <1>3 DEF PartOf
    <2>1. v \in Seq(X) /\ Len(v) = b - a + 1 /\ \A i \in 1 .. b - a + 1 : v[i] = s[i + a - 1]
      BY <2>0 DEF PartOf, Part
    <2>2. u \in Seq(X) /\ Len(u) = b - a + 2 /\ \A i \in 1 .. b - a + 2 : u[i] = t[i + a - 1]
      <3> DEFINE d == b + 1
      <3>1. d \in Nat /\ d - a + 1 = b - a + 2
        OBVIOUS
      <3> HIDE DEF d
      <3>2. PartOf(t, a, d, X) => /\ Part(t, a, d) \in Seq(X) /\ Len(Part(t, a, d)) = d - a + 1
                                  /\ \A i \in 1 .. d - a + 1 : Part(t, a, d)[i] = t[i + a - 1]
        BY <3>1 DEF PartOf, Part
      <3> QED BY <2>0, <3>1, <3>2 DEF d
    <2> HIDE DEF u, v
    <2>3. w \in Seq(X) /\ Len(w) = b - a + 2 /\ \A i \in 1 .. b - a + 2 : w[i] = IF i = b - a + 2 THEN x ELSE v[i]
      <3>1. b - a + 1 \in Nat /\ (b - a + 1) + 1 = b - a + 2
        OBVIOUS
      <3>2. w \in Seq(X) /\ Len(w) = Len(v) + 1 /\ \A i \in 1 .. Len(v) + 1 : w[i] = IF i = Len(v) + 1 THEN x ELSE v[i]
        <4>1. v \in Seq(X)
          BY <2>1
        <4> QED BY <4>1
      <3> QED BY <2>1, <3>1, <3>2
    <2> HIDE DEF w
    <2>4. \A i \in 1 .. b - a + 2 : u[i] = w[i]
      <3> TAKE i \in 1 .. b - a + 2
      <3>1. CASE i = b - a + 2
        <4>1. i + a - 1 = n + 1
          BY <1>1, <1>3, <3>1
        <4> QED BY <1>1, <2>2, <2>3, <3>1, <4>1
      <3>2. CASE i # b - a + 2
        <4>1. i \in 1 .. b - a + 1 /\ i + a - 1 \in 1 .. n
          BY <1>1, <1>3, <3>2
        <4> QED BY <1>1, <2>1, <2>2, <2>3, <3>2, <4>1
      <3> QED BY <3>1, <3>2
    <2>5. u = w
      BY <2>2, <2>3, <2>4, SeqEqual
    <2> QED BY <2>5 DEF u, v, w
  <1> QED BY <1>2, <1>3 DEF t

LEMMA SiftSpan ==
    ASSUME NEW X, NEW A, NEW s \in Seq(X), NEW a, NEW b, Span(s, A, a, b)
    PROVE  Sift(s, A) = Part(s, a, b)
  <1> DEFINE T == {u \in Seq(X) : \A c \in Nat, d \in Nat : Span(u, A, c, d) => Sift(u, A) = Part(u, c, d)}
  <1>1. << >> \in T
    <2>1. << >> \in Seq(X) /\ Len(<< >>) = 0
      OBVIOUS
    <2>2. ASSUME NEW c \in Nat, NEW d \in Nat, Span(<< >>, A, c, d) PROVE Part(<< >>, c, d) = << >>
      <3>1. c = 1 /\ d = 0
        BY <2>1, <2>2 DEF Span
      <3> QED BY <3>1 DEF Part
    <2> QED BY <2>1, <2>2, SiftNothing
  <1>2. ASSUME NEW u \in Seq(X), NEW x \in X, u \in T PROVE Append(u, x) \in T
    <2> DEFINE t == Append(u, x)
               n == Len(u)
    <2>1. t \in Seq(X) /\ Len(t) = n + 1 /\ n \in Nat /\ t[n + 1] = x /\ \A i \in 1 .. n : t[i] = u[i]
      OBVIOUS
    <2>2. PieceOf(x, A) \in Seq(X) /\ Sift(u, A) \in Seq(X) /\ Sift(t, A) = Joined(Sift(u, A), PieceOf(x, A))
      BY SiftAppend
    <2> HIDE DEF t
    <2>3. ASSUME NEW c \in Nat, NEW d \in Nat, Span(t, A, c, d) PROVE Sift(t, A) = Part(t, c, d)
      <3>0. 1 <= c /\ c <= d + 1 /\ d <= n + 1 /\ \A i \in 1 .. n + 1 : t[i] \in A <=> c <= i /\ i <= d
        BY <2>1, <2>3 DEF Span
      <3>1. \A i \in 1 .. n : i \in 1 .. n + 1 /\ (u[i] \in A <=> c <= i /\ i <= d)
        BY <2>1, <3>0
      <3>2. n + 1 \in 1 .. n + 1
        BY <2>1
      <3>3. CASE d <= n
        <4>1. x \notin A
          BY <2>1, <3>0, <3>2, <3>3
        <4>2. Span(u, A, c, d)
          BY <3>0, <3>1, <3>3 DEF Span
        <4>3. Sift(u, A) = Part(u, c, d)
          BY <1>2, <4>2
        <4>4. Part(t, c, d) = Part(u, c, d)
          BY <3>0, <3>3, PartAppend DEF t
        <4>5. Sift(t, A) = Sift(u, A)
          BY <2>2, <4>1, NothingMore DEF PieceOf
        <4> QED BY <4>3, <4>4, <4>5
      <3>4. CASE d = n + 1 /\ c <= n + 1
        <4>1. x \in A
          BY <2>1, <3>0, <3>2, <3>4
        <4>2. Span(u, A, c, n)
          <5>1. \A i \in 1 .. n : u[i] \in A <=> c <= i /\ i <= n
            BY <2>1, <3>1, <3>4
          <5> QED BY <2>1, <3>0, <3>4, <5>1 DEF Span
        <4>3. Sift(u, A) = Part(u, c, n)
          BY <1>2, <2>1, <4>2
        <4>4. Part(t, c, n + 1) = Append(Part(u, c, n), x)
          BY <2>1, <3>0, <3>4, PartAppend DEF t
        <4> DEFINE g == Sift(u, A)
        <4>5. g \in Seq(X) /\ Sift(t, A) = Joined(g, <<x>>)
          BY <2>2, <4>1 DEF PieceOf
        <4> HIDE DEF g
        <4>6. Joined(g, <<x>>) = Append(g, x)
          BY <4>5 DEF Joined
        <4> QED BY <3>4, <4>3, <4>4, <4>5, <4>6 DEF g
      <3>5. CASE d = n + 1 /\ c = n + 2
        <4>1. x \notin A
          BY <2>1, <3>0, <3>2, <3>5
        <4>2. Span(u, A, n + 1, n)
          <5>1. \A i \in 1 .. n : u[i] \in A <=> n + 1 <= i /\ i <= n
            BY <2>1, <3>1, <3>5
          <5> QED BY <2>1, <5>1 DEF Span
        <4>3. Sift(u, A) = Part(u, n + 1, n)
          BY <1>2, <2>1, <4>2
        <4>4. Part(t, n + 2, n + 1) = << >> /\ Part(u, n + 1, n) = << >>
          BY <2>1 DEF Part
        <4>5. Sift(t, A) = Sift(u, A)
          BY <2>2, <4>1, NothingMore DEF PieceOf
        <4> QED BY <3>5, <4>3, <4>4, <4>5
      <3> QED BY <2>1, <3>0, <3>3, <3>4, <3>5
    <2> QED BY <2>1, <2>3 DEF t
  <1> HIDE DEF T
  <1>3. Seq(X) \subseteq T
    BY <1>1, <1>2, SeqInduction
  <1>4. a \in Nat /\ b \in Nat
    BY DEF Span
  <1> QED BY <1>3, <1>4 DEF T

\* Nothing at the end adds nothing.
LEMMA FlatTail ==
    ASSUME NEW X, NEW s \in Seq(Seq(X)), NEW m \in Nat, m <= Len(s), \A i \in m + 1 .. Len(s) : s[i] = << >>
    PROVE  FlattenSeq(s) = FlattenSeq(Upto(s, m))
  <1> DEFINE n == Len(s)
             T == {j \in Nat : m + j <= n => FlattenSeq(Upto(s, m + j)) = FlattenSeq(Upto(s, m))}
  <1>0. n \in Nat /\ n - m \in Nat /\ m + (n - m) = n
    OBVIOUS
  <1>1. 0 \in T
    <2>1. m + 0 = m /\ 0 \in Nat
      OBVIOUS
    <2> DEFINE G(i) == FlattenSeq(Upto(s, i))
    <2>2. G(m + 0) = G(m)
      BY <2>1, Zenon
    <2>3. m + 0 <= n => FlattenSeq(Upto(s, m + 0)) = FlattenSeq(Upto(s, m))
      BY <2>2, Zenon
    <2> QED BY <2>1, <2>3, Zenon
  <1>2. ASSUME NEW j \in Nat, j \in T PROVE j + 1 \in T
    <2> SUFFICES ASSUME m + (j + 1) <= n PROVE FlattenSeq(Upto(s, m + (j + 1))) = FlattenSeq(Upto(s, m))
      OBVIOUS
    <2> DEFINE k == m + j
    <2>1. k \in Nat /\ k <= n /\ k + 1 \in 1 .. n /\ k + 1 \in m + 1 .. n /\ m + (j + 1) = k + 1
      BY <1>0
    <2>2. Within(s, k, Seq(X))
      BY <2>1 DEF Within
    <2>3. /\ FlattenSeq(Upto(s, k + 1)) = Joined(FlattenSeq(Upto(s, k)), s[k + 1])
          /\ FlattenSeq(Upto(s, k)) \in Seq(X)
      BY <2>2, FlatUpto
    <2>4. s[k + 1] = << >>
      BY <2>1
    <2>5. FlattenSeq(Upto(s, k)) = FlattenSeq(Upto(s, m))
      BY <1>2, <2>1
    <2> QED BY <2>1, <2>3, <2>4, <2>5, NothingMore
  <1> HIDE DEF T
  <1>3. Nat \subseteq T
    BY <1>1, <1>2, Induction
  <1>4. FlattenSeq(Upto(s, n)) = FlattenSeq(Upto(s, m))
    BY <1>0, <1>3 DEF T
  <1>5. Upto(s, n) = s
    BY UptoAll
  <1> QED BY <1>4, <1>5

\* Where the p-th begins.
Offset(s, p) == Len(FlattenSeq(Upto(s, p - 1)))

LEMMA Offsets ==
    ASSUME NEW X, NEW s \in Seq(Seq(X)), NEW p \in 1 .. Len(s)
    PROVE  \A j \in Nat : p <= j /\ j <= Len(s) =>
              /\ Offset(s, p) \in Nat /\ Offset(s, p) + Len(s[p]) <= Len(FlattenSeq(Upto(s, j)))
              /\ \A i \in 1 .. Len(s[p]) : FlattenSeq(Upto(s, j))[Offset(s, p) + i] = s[p][i]
  <1> DEFINE n == Len(s)
             d == Offset(s, p)
             F(j) == FlattenSeq(Upto(s, j))
             Good(j) == d \in Nat /\ d + Len(s[p]) <= Len(F(j)) /\ \A i \in 1 .. Len(s[p]) : F(j)[d + i] = s[p][i]
             T == {j \in Nat : p <= j /\ j <= n => Good(j)}
  <1>0. n \in Nat /\ p \in Nat /\ p >= 1 /\ p <= n /\ s[p] \in Seq(X) /\ d = Len(F(p - 1))
    BY DEF Offset
  <1>1. 0 \in T
    <2>1. 0 \in Nat /\ ~(p <= 0)
      BY <1>0
    <2> QED BY <2>1, Zenon
  <1>2. ASSUME NEW j \in Nat, j \in T PROVE j + 1 \in T
    <2> SUFFICES ASSUME p <= j + 1, j + 1 <= n PROVE Good(j + 1)
      OBVIOUS
    <2>1. Within(s, j, Seq(X))
      BY <1>0 DEF Within
    <2> DEFINE f == F(j)
               x == s[j + 1]
               g == F(j + 1)
               y == s[p]
    <2>2. g = Joined(f, x) /\ f \in Seq(X) /\ x \in Seq(X) /\ y \in Seq(X)
      BY <1>0, <2>1, FlatUpto
    <2>3. p = j + 1 => d = Len(f) /\ x = y
      <3>1. p = j + 1 => p - 1 = j
        BY <1>0
      <3> QED BY <1>0, <3>1
    <2>4. p # j + 1 => Good(j)
      <3>1. p # j + 1 => p <= j /\ j <= n
        BY <1>0
      <3> QED BY <1>2, <3>1
    <2> HIDE DEF f, x, g, y, d
    <2>5. /\ Len(f) \in Nat /\ Len(x) \in Nat /\ Len(y) \in Nat /\ Len(g) = Len(f) + Len(x)
          /\ \A i \in 1 .. Len(f) + Len(x) : g[i] = IF i <= Len(f) THEN f[i] ELSE x[i - Len(f)]
      BY <2>2 DEF Joined
    <2>6. CASE p = j + 1
      <3>1. \A i \in 1 .. Len(x) : Len(f) + i \in 1 .. Len(f) + Len(x) /\ ~(Len(f) + i <= Len(f)) /\ (Len(f) + i) - Len(f) = i
        BY <2>5
      <3>2. \A i \in 1 .. Len(x) : g[Len(f) + i] = x[i]
        BY <2>5, <3>1
      <3>3. d = Len(f) /\ y = x
        BY <2>3, <2>6 DEF y
      <3>4. d + Len(y) <= Len(g) /\ d \in Nat
        BY <2>5, <3>3
      <3>5. \A i \in 1 .. Len(y) : g[d + i] = y[i]
        BY <3>2, <3>3
      <3> QED BY <3>4, <3>5 DEF g, y
    <2>7. CASE p # j + 1
      <3>1. d \in Nat /\ d + Len(y) <= Len(f) /\ \A i \in 1 .. Len(y) : f[d + i] = y[i]
        BY <2>4, <2>7 DEF f, y
      <3>2. \A i \in 1 .. Len(y) : d + i \in 1 .. Len(f) + Len(x) /\ d + i <= Len(f)
        BY <2>5, <3>1
      <3>3. \A i \in 1 .. Len(y) : g[d + i] = y[i]
        BY <2>5, <3>1, <3>2
      <3>4. d + Len(y) <= Len(g)
        BY <2>5, <3>1
      <3> QED BY <3>1, <3>3, <3>4 DEF g, y
    <2> QED BY <2>6, <2>7
  <1> HIDE DEF T
  <1>3. Nat \subseteq T
    BY <1>1, <1>2, Induction
  <1> QED BY <1>3 DEF T

\* Those that come before stand before.
LEMMA FlatPlaces ==
    ASSUME NEW X, NEW s \in Seq(Seq(X)), NEW p \in 1 .. Len(s)
    PROVE  /\ Offset(s, p) \in Nat /\ Offset(s, p) + Len(s[p]) <= Len(FlattenSeq(s))
           /\ \A i \in 1 .. Len(s[p]) : FlattenSeq(s)[Offset(s, p) + i] = s[p][i]
           /\ \A q \in p + 1 .. Len(s) : Offset(s, p) + Len(s[p]) <= Offset(s, q)
  <1>0. Len(s) \in Nat /\ p \in Nat /\ p <= Len(s) /\ Len(s) <= Len(s) /\ Upto(s, Len(s)) = s
    BY UptoAll
  <1>1. /\ Offset(s, p) \in Nat /\ Offset(s, p) + Len(s[p]) <= Len(FlattenSeq(Upto(s, Len(s))))
        /\ \A i \in 1 .. Len(s[p]) : FlattenSeq(Upto(s, Len(s)))[Offset(s, p) + i] = s[p][i]
    BY <1>0, Offsets
  <1>2. ASSUME NEW q \in p + 1 .. Len(s) PROVE Offset(s, p) + Len(s[p]) <= Offset(s, q)
    <2>1. q - 1 \in Nat /\ p <= q - 1 /\ q - 1 <= Len(s)
      BY <1>0
    <2> QED BY <2>1, Offsets DEF Offset
  <1> QED BY <1>0, <1>1, <1>2

-----------------------------------------------------------------------------
(* Logs in the order of their times.                                       *)

Rising(s) == \A i \in 1 .. Len(s), j \in 1 .. Len(s) : i < j => s[i].time <= s[j].time
Sorted(es) == es \in Seq(Entries) /\ Whole(es) /\ Rising(es)
Late(from) == {e \in Entries : ~(TimeOf(e) < from)}

LEMMA SortedTimes ==
    ASSUME NEW es, Sorted(es)
    PROVE  /\ Len(es) \in Nat
           /\ \A i \in 1 .. Len(es) : es[i] \in Entries /\ TimeOf(es[i]) = es[i].time /\ es[i].time \in Nat
  <1>1. es \in Seq(Entries) /\ \A i \in 1 .. Len(es) : ~Unfinished(es[i])
    BY DEF Sorted, Whole
  <1>2. \A i \in 1 .. Len(es) : es[i] \in Entries
    BY <1>1
  <1>3. \A e \in Entries : e.time \in Nat
    BY DEF Entries
  <1> QED BY <1>1, <1>2, <1>3 DEF TimeOf

\* They are split by a time, and what the binary search cuts off are the later ones.
LEMMA SplitsAt ==
    ASSUME NEW es, Sorted(es), NEW from \in Int
    PROVE  \E k \in 1 .. Len(es) + 1 : Splits(es, from, Len(es), k)
  <1> DEFINE n == Len(es)
             T == {i \in 1 .. n : ~(es[i].time < from)}
  <1>0. n \in Nat /\ \A i \in 1 .. n : TimeOf(es[i]) = es[i].time /\ es[i].time \in Nat
    BY SortedTimes
  <1>1. CASE T = {}
    <2>1. n + 1 \in 1 .. n + 1 /\ \A i \in 1 .. n : i < n + 1
      BY <1>0
    <2>2. \A i \in 1 .. n : TimeOf(es[i]) < from
      BY <1>0, <1>1
    <2> QED BY <1>0, <2>1, <2>2 DEF Splits
  <1>2. CASE T # {}
    <2>1. T \subseteq Nat
      BY <1>0
    <2> HIDE DEF T
    <2>2. PICK k \in T : \A y \in T : k <= y
      BY <1>2, <2>1, HasLeast
    <2> USE DEF T
    <2>3. k \in 1 .. n /\ ~(es[k].time < from)
      BY <2>2
    <2>4. ASSUME NEW i \in 1 .. n PROVE TimeOf(es[i]) < from <=> i < k
      <3>1. CASE i < k
        <4>1. i \notin T
          BY <1>0, <2>2, <2>3, <3>1
        <4> QED BY <1>0, <3>1, <4>1
      <3>2. CASE i = k
        BY <1>0, <2>3, <3>2
      <3>3. CASE i > k
        <4>1. es[k].time <= es[i].time
          BY <2>3, <3>3 DEF Sorted, Rising
        <4> QED BY <1>0, <2>3, <3>3, <4>1
      <3> QED BY <1>0, <2>3, <3>1, <3>2, <3>3
    <2>5. k \in 1 .. n + 1
      BY <1>0, <2>3
    <2> HIDE DEF T
    <2> QED BY <1>0, <2>4, <2>5 DEF Splits
  <1> QED BY <1>1, <1>2

LEMMA LateSpan ==
    ASSUME NEW es, Sorted(es), NEW from \in Int, NEW k, Splits(es, from, Len(es), k)
    PROVE  Span(es, Late(from), k, Len(es)) /\ Sift(es, Late(from)) = Part(es, k, Len(es))
  <1> DEFINE n == Len(es)
  <1>1. n \in Nat /\ k \in 1 .. n + 1 /\ \A i \in 1 .. n : TimeOf(es[i]) < from <=> i < k
    BY DEF Splits
  <1>2. \A i \in 1 .. n : es[i] \in Late(from) <=> ~(TimeOf(es[i]) < from)
    BY SortedTimes DEF Late
  <1>3. \A i \in 1 .. n : es[i] \in Late(from) <=> k <= i /\ i <= n
    <2>1. \A i \in 1 .. n : ~(i < k) <=> k <= i /\ i <= n
      BY <1>1
    <2> QED BY <1>1, <1>2, <2>1
  <1>4. k \in Nat /\ 1 <= k /\ k <= n + 1 /\ n <= n
    BY <1>1
  <1>5. Span(es, Late(from), k, n)
    BY <1>1, <1>3, <1>4 DEF Span
  <1>6. es \in Seq(Entries)
    BY DEF Sorted
  <1> QED BY <1>5, <1>6, SiftSpan

LEMMA CutIs ==
    ASSUME NEW es, Sorted(es), NEW from \in Int
    PROVE  SubSeq(es, Search(es, from), Len(es)) = Sift(es, Late(from))
  <1>1. PICK k \in 1 .. Len(es) + 1 : Splits(es, from, Len(es), k)
    BY SplitsAt
  <1>2. Search(es, from) = k
    BY <1>1, SearchIs
  <1>3. Sift(es, Late(from)) = Part(es, k, Len(es))
    BY <1>1, LateSpan
  <1> QED BY <1>2, <1>3 DEF Part

LEMMA NoneLate ==
    ASSUME NEW es, Sorted(es), NEW from \in Int, es = << >> \/ es[Len(es)].time < from
    PROVE  Sift(es, Late(from)) = << >>
  <1> DEFINE n == Len(es)
  <1>1. CASE es = << >>
    BY <1>1, SiftNothing
  <1>2. CASE es # << >>
    <2>1. n \in Nat /\ n \in 1 .. n /\ n + 1 \in 1 .. n + 1
      BY <1>2, SortedTimes, EmptySeq DEF Sorted
    <2>2. \A i \in 1 .. n : TimeOf(es[i]) = es[i].time /\ es[i].time \in Nat /\ es[i].time <= es[n].time
      <3>1. \A i \in 1 .. n : i = n \/ i < n
        BY <2>1
      <3>2. \A i \in 1 .. n : es[i].time \in Nat
        BY SortedTimes
      <3>3. es[n].time <= es[n].time
        BY <2>1, <3>2
      <3> QED BY <2>1, <3>1, <3>2, <3>3, SortedTimes DEF Sorted, Rising
    <2>3. \A i \in 1 .. n : TimeOf(es[i]) < from
      BY <1>2, <2>1, <2>2
    <2>4. \A i \in 1 .. n : i < n + 1
      BY <2>1
    <2>5. Splits(es, from, n, n + 1)
      BY <2>1, <2>3, <2>4 DEF Splits
    <2>6. Sift(es, Late(from)) = Part(es, n + 1, n)
      BY <2>5, LateSpan
    <2>7. Part(es, n + 1, n) = << >>
      BY <2>1, SubSeqEmpty DEF Part
    <2> QED BY <2>6, <2>7
  <1> QED BY <1>1, <1>2

\* The first n of the later ones, up to one that is out of range, are those in the range.
Timely(from, to) == {o \in Kept : o.time \in from .. to}
OutOf(scan, from, to) == {i \in DOMAIN scan : ~(TimeOf(scan[i]) \in from .. to)}
UpTo(scan, from, to) ==
    SubSeq(scan, 1, IF OutOf(scan, from, to) = {} THEN Len(scan) ELSE Min(OutOf(scan, from, to)) - 1)

LEMMA LeastIs ==
    ASSUME NEW T, T \subseteq Nat, T # {}
    PROVE  Min(T) \in T /\ \A y \in T : Min(T) <= y
  <1>1. \E x \in T : \A y \in T : x <= y
    BY HasLeast
  <1> QED BY <1>1 DEF Min

\* How many there are: b of them, the next one is after the range.
Runs(scan, from, to, b) ==
    /\ b \in Nat /\ b <= Len(scan) /\ UpTo(scan, from, to) = SubSeq(scan, 1, b)
    /\ \A i \in 1 .. b : TimeOf(scan[i]) \in from .. to
    /\ b < Len(scan) => ~(TimeOf(scan[b + 1]) \in from .. to)

LEMMA RunsTo ==
    ASSUME NEW scan \in Seq(Entries), NEW from, NEW to
    PROVE  \E b : Runs(scan, from, to, b)
  <1> DEFINE n == Len(scan)
             out == OutOf(scan, from, to)
  <1>0. n \in Nat /\ DOMAIN scan = 1 .. n
    OBVIOUS
  <1>1. \A i \in 1 .. n : i \in out <=> ~(TimeOf(scan[i]) \in from .. to)
    BY <1>0 DEF OutOf
  <1>2. out \subseteq 1 .. n /\ out \subseteq Nat
    BY <1>0 DEF OutOf
  <1>3. UpTo(scan, from, to) = SubSeq(scan, 1, IF out = {} THEN n ELSE Min(out) - 1)
    BY DEF UpTo
  <1> HIDE DEF out
  <1>4. CASE out = {}
    BY <1>0, <1>1, <1>3, <1>4 DEF Runs
  <1>5. CASE out # {}
    <2> DEFINE m == Min(out)
    <2>1. m \in out /\ \A y \in out : m <= y
      BY <1>2, <1>5, LeastIs
    <2>2. UpTo(scan, from, to) = SubSeq(scan, 1, m - 1)
      BY <1>3, <1>5
    <2> HIDE DEF m
    <2>3. m \in 1 .. n /\ m - 1 \in Nat /\ m - 1 <= n /\ (m - 1) + 1 = m
      BY <1>0, <1>2, <2>1
    <2>4. ASSUME NEW i \in 1 .. m - 1 PROVE TimeOf(scan[i]) \in from .. to
      <3>1. i \in 1 .. n /\ ~(m <= i)
        BY <1>0, <2>3
      <3> QED BY <1>1, <2>1, <3>1
    <2>5. ~(TimeOf(scan[(m - 1) + 1]) \in from .. to)
      BY <1>1, <2>1, <2>3
    <2>6. Runs(scan, from, to, m - 1)
      BY <2>2, <2>3, <2>4, <2>5 DEF Runs
    <2> QED BY <2>6
  <1> QED BY <1>4, <1>5

LEMMA BetweenIs ==
    ASSUME NEW os \in Seq(Kept), NEW from, NEW to
    PROVE  Between(os, from, to) = Sift(os, Timely(from, to))
  <1>1. \A i \in DOMAIN os : os[i] \in Kept
    OBVIOUS
  <1>2. \A i \in DOMAIN os : (IF os[i].time \in from .. to THEN <<os[i]>> ELSE << >>) = PieceOf(os[i], Timely(from, to))
    BY <1>1 DEF PieceOf, Timely
  <1>3. [i \in DOMAIN os |-> IF os[i].time \in from .. to THEN <<os[i]>> ELSE << >>] = PiecesOf(os, Timely(from, to))
    BY <1>2 DEF PiecesOf
  <1> QED BY <1>3 DEF Between, Sift

\* Of all logs those in the range are kept.
LEMMA RangeIs ==
    ASSUME NEW es, Sorted(es), NEW from \in Int, NEW to \in Int
    PROVE  Log(UpTo(Sift(es, Late(from)), from, to)) = Between(Logs(es), from, to)
  <1> DEFINE n == Len(es)
             os == Logs(es)
             scan == Sift(es, Late(from))
  <1>0. /\ n \in Nat /\ es \in Seq(Entries) /\ os \in Seq(Kept) /\ Len(os) = n
        /\ \A i \in 1 .. n : es[i] \in Entries /\ TimeOf(es[i]) = es[i].time /\ es[i].time \in Nat
        /\ \A i \in 1 .. n : os[i] = [time |-> es[i].time, len |-> es[i].len]
    BY SortedTimes, LogsWhole DEF Sorted
  <1>1. PICK a \in 1 .. n + 1 : Splits(es, from, n, a)
    BY SplitsAt
  <1>2. a \in Nat /\ a >= 1 /\ a <= n + 1 /\ n - a + 1 \in Nat /\ \A i \in 1 .. n : es[i].time < from <=> i < a
    BY <1>0, <1>1 DEF Splits
  <1>3. scan = Part(es, a, n)
    BY <1>1, LateSpan
  <1>4. PartOf(es, a, n, Entries)
    BY <1>0, <1>2 DEF PartOf
  <1>5. scan \in Seq(Entries) /\ Len(scan) = n - a + 1 /\ \A i \in 1 .. n - a + 1 : scan[i] = es[i + a - 1]
    BY <1>3, <1>4 DEF PartOf, Part
  <1> HIDE DEF scan, os
  <1>6. PICK b : Runs(scan, from, to, b)
    BY <1>5, RunsTo
  <1> DEFINE r == SubSeq(scan, 1, b)
             z == a + b - 1
  <1>7. b \in Nat /\ b <= n - a + 1 /\ UpTo(scan, from, to) = r
    BY <1>5, <1>6 DEF Runs
  <1>8. z \in Nat /\ a <= z + 1 /\ z <= n /\ z - a + 1 = b
    BY <1>2, <1>7
  <1>9. \A i \in a .. z : es[i].time \in from .. to
    <2> TAKE i \in a .. z
    <2>0. i \in Nat /\ a <= i /\ i <= z /\ z = a + b - 1 /\ b <= n - a + 1
      BY <1>2, <1>7, <1>8
    <2> HIDE DEF z
    <2>1. i - a + 1 \in 1 .. b /\ i - a + 1 \in 1 .. n - a + 1 /\ (i - a + 1) + a - 1 = i /\ i \in 1 .. n
      <3>1. i - a + 1 \in 1 .. b
        BY <1>2, <1>7, <2>0
      <3>2. i - a + 1 \in 1 .. n - a + 1 /\ i \in 1 .. n
        BY <1>0, <1>2, <1>7, <1>8, <2>0
      <3>3. (i - a + 1) + a - 1 = i
        BY <1>2, <2>0
      <3> QED BY <3>1, <3>2, <3>3
    <2>2. TimeOf(scan[i - a + 1]) \in from .. to
      BY <1>6, <2>1 DEF Runs
    <2>3. scan[i - a + 1] = es[i]
      BY <1>5, <2>1
    <2> QED BY <1>0, <2>1, <2>2, <2>3
  <1>10. z < n => ~(es[z + 1].time \in from .. to) /\ ~(es[z + 1].time < from)
    <2> SUFFICES ASSUME z < n PROVE ~(es[z + 1].time \in from .. to) /\ ~(es[z + 1].time < from)
      OBVIOUS
    <2>1. b < n - a + 1 /\ b + 1 \in 1 .. n - a + 1 /\ (b + 1) + a - 1 = z + 1 /\ z + 1 \in 1 .. n /\ ~(z + 1 < a)
      BY <1>0, <1>2, <1>7, <1>8
    <2>2. ~(TimeOf(scan[b + 1]) \in from .. to)
      BY <1>5, <1>6, <2>1 DEF Runs
    <2>3. scan[b + 1] = es[z + 1]
      BY <1>5, <2>1
    <2> QED BY <1>0, <1>2, <2>1, <2>2, <2>3
  <1> HIDE DEF z
  <1>11. ASSUME NEW i \in 1 .. n PROVE es[i].time \in from .. to <=> a <= i /\ i <= z
    <2>1. CASE i < a
      BY <1>0, <1>2, <2>1
    <2>2. CASE a <= i /\ i <= z
      <3>1. i \in a .. z
        BY <1>2, <1>8, <2>2
      <3> QED BY <1>9, <2>2, <3>1
    <2>3. CASE a <= i /\ z < i
      <3>1. z < n /\ z + 1 \in 1 .. n /\ (z + 1 = i \/ z + 1 < i)
        BY <1>0, <1>2, <1>8, <2>3
      <3>2. ~(es[z + 1].time \in from .. to) /\ ~(es[z + 1].time < from) /\ es[z + 1].time \in Nat
        BY <1>0, <1>10, <3>1
      <3>3. to < es[z + 1].time
        BY <3>2
      <3>4. es[z + 1].time <= es[i].time
        <4>1. z + 1 < i => es[z + 1].time <= es[i].time
          BY <3>1 DEF Sorted, Rising
        <4>2. z + 1 = i => es[z + 1].time <= es[i].time
          BY <3>2
        <4> QED BY <3>1, <4>1, <4>2
      <3>5. es[i].time \in Nat
        BY <1>0
      <3> QED BY <1>8, <2>3, <3>2, <3>3, <3>4, <3>5
    <2> QED BY <1>2, <1>8, <2>1, <2>2, <2>3
  <1>12. \A i \in 1 .. n : os[i] \in Kept /\ os[i].time = es[i].time
    <2>1. \A i \in 1 .. n : os[i] \in Kept
      BY <1>0
    <2>2. \A i \in 1 .. n : os[i].time = es[i].time
      <3> TAKE i \in 1 .. n
      <3>1. os[i] = [time |-> es[i].time, len |-> es[i].len]
        BY <1>0
      <3> QED BY <3>1
    <2> QED BY <2>1, <2>2
  <1>13. Span(os, Timely(from, to), a, z)
    <2>1. \A i \in 1 .. n : os[i] \in Timely(from, to) <=> a <= i /\ i <= z
      BY <1>11, <1>12 DEF Timely
    <2> QED BY <1>0, <1>2, <1>8, <2>1 DEF Span
  <1>14. Between(os, from, to) = Part(os, a, z)
    BY <1>0, <1>13, BetweenIs, SiftSpan
  <1> DEFINE p == Part(os, a, z)
             q == Log(r)
  <1>15. PartOf(os, a, z, Kept)
    BY <1>0, <1>2, <1>8 DEF PartOf
  <1>16. p \in Seq(Kept) /\ Len(p) = b /\ \A i \in 1 .. b : p[i] = os[i + a - 1]
    <2>1. p \in Seq(Kept) /\ Len(p) = z - a + 1 /\ \A i \in 1 .. z - a + 1 : p[i] = os[i + a - 1]
      BY <1>15 DEF PartOf, Part
    <2> QED BY <1>8, <2>1
  <1>17. r \in Seq(Entries) /\ Len(r) = b /\ \A i \in 1 .. b : r[i] = scan[i]
    BY <1>5, <1>7
  <1> HIDE DEF r, p
  <1>18. DOMAIN r = 1 .. b
    BY <1>17
  <1>19. q = [i \in 1 .. b |-> [time |-> r[i].time, len |-> r[i].len]]
    BY <1>18 DEF Log
  <1>20. ASSUME NEW i \in 1 .. b PROVE [time |-> r[i].time, len |-> r[i].len] = p[i]
    <2>1. i \in 1 .. n - a + 1 /\ i + a - 1 \in 1 .. n
      BY <1>2, <1>7
    <2>2. r[i] = es[i + a - 1] /\ p[i] = os[i + a - 1]
      BY <1>5, <1>16, <1>17, <2>1
    <2> QED BY <1>0, <2>1, <2>2
  <1>21. p = [i \in 1 .. b |-> p[i]]
    BY <1>16
  <1>22. q = p
    BY <1>19, <1>20, <1>21
  <1> QED BY <1>7, <1>14, <1>22 DEF scan, os, p

-----------------------------------------------------------------------------
(* The sectors as the iterators see them, between two calls.               *)

Still == /\ TypeInv /\ LogInv /\ EndInv /\ RoomInv /\ NeutralInv /\ KeptInv /\ TimeInv /\ SortInv
         /\ Calm /\ pc = "idle"
InRows(i) == sec[Order[i]].tsls

LEMMA StillIs ==
    ASSUME Still
    PROVE  /\ TypeInv /\ LogInv /\ EndInv /\ RoomInv /\ NeutralInv /\ Quiet /\ pc = "idle" /\ FlashOK(sec)
           /\ cur.addr \in Sectors /\ Arranged(cur.addr, oldest) /\ Open(sec[cur.addr]) /\ Filled(sec[cur.addr])
           /\ cur.st = sec[cur.addr].st /\ (cur.st = "USING" => Known(sec[cur.addr])) /\ "start" \notin met
           /\ oldest \in Sectors /\ oldest # NoSector /\ S \in Nat /\ S >= 2
           /\ \A i \in 1 .. S : Order[i] \in Sectors /\ Order[i] = (oldest + i - 1) % S
           /\ \A s \in Sectors : Timed(sec[s]) /\ Done(sec[s])
  <1>1. Quiet /\ "start" \notin met /\ TypeInv /\ LogInv /\ EndInv /\ RoomInv /\ NeutralInv /\ pc = "idle" /\ FlashOK(sec)
    BY CalmIs DEF Still, TypeInv
  <1>2. /\ cur.addr \in Sectors /\ Arranged(cur.addr, oldest) /\ Open(sec[cur.addr]) /\ Filled(sec[cur.addr])
        /\ cur.st = sec[cur.addr].st /\ (cur.st = "USING" => Known(sec[cur.addr]))
    BY <1>1, QuietIs DEF NeutralInv, AtIdle, Current
  <1>3. oldest \in Sectors /\ oldest \in Int /\ oldest # NoSector /\ S \in Nat /\ S >= 2
    BY <1>2, ArrangedOthers, SectorFacts, Consts
  <1>4. \A i \in 1 .. S : Order[i] \in Sectors /\ Order[i] = (oldest + i - 1) % S
    BY <1>3, InRow DEF Order
  <1>5. \A s \in Sectors : Timed(sec[s]) /\ Done(sec[s])
    BY <1>1 DEF Still, TimeInv
  <1> QED BY <1>1, <1>2, <1>3, <1>4, <1>5

\* A sector that holds logs: it is known when they begin and end, and all are visited.
Filed(s) ==
    LET es == sec[s].tsls IN
    /\ es \in Seq(Entries) /\ Whole(es) /\ es # << >> /\ HasTsl(s) /\ sec[s].st # "EMPTY" /\ Visible(s)
    /\ View(s).start = es[1].time /\ View(s).end = es[Len(es)].time

LEMMA FiledIs ==
    ASSUME Still, NEW s \in Sectors, sec[s] # Clean
    PROVE  Filed(s)
  <1> DEFINE h == sec[s]
             es == h.tsls
  <1>1. h.magic /\ es \in Seq(Entries) /\ Whole(es) /\ Timed(h)
    <2>1. Whole(es)
      BY StillIs DEF Done, Whole
    <2>2. h.magic
      BY StillIs, ArrangedOthers DEF Open, Ended
    <2> QED BY <2>1, <2>2, StillIs DEF FlashOK, SectorOK
  <1>2. HasTsl(s) /\ es # << >> => Visible(s)
    BY StillIs, VisibleIs
  <1>3. CASE Ended(s, h)
    <2>1. View(s) = HeaderRead(s, Zero)
      BY <1>3 DEF View, HeaderRead, Ended
    <2>2. Zero.end_idx \in Int
      BY DEF Zero
    <2>3. View(s).start = h.start /\ View(s).end = EndTime(h)
      BY <1>1, <1>3, <2>1, <2>2, StillIs, ReadHeader DEF Ended, Counts
    <2>4. h.st = "FULL"
      BY <1>3 DEF Ended
    <2> QED BY <1>1, <1>2, <2>3, <2>4 DEF Filed, Timed, HasTsl
  <1>4. CASE s = cur.addr
    <2>1. h.st = "USING" /\ es # << >> /\ Known(h)
      BY <1>4, StillIs DEF Open, Filled
    <2>2. View(s) = cur
      BY <2>1 DEF View
    <2>3. Len(es) \in 1 .. Len(es)
      BY <1>1, <2>1
    <2>4. ~Unfinished(es[Len(es)])
      BY <1>1, <2>3 DEF Whole
    <2>5. View(s).end = es[Len(es)].time /\ View(s).start = es[1].time
      BY <1>1, <2>1, <2>2, <2>4 DEF Known, TimeOf, Timed
    <2> QED BY <1>1, <1>2, <2>1, <2>5 DEF Filed, HasTsl
  <1> QED BY <1>3, <1>4, StillIs, ArrangedOthers

\* The sectors that hold logs come first, then those that are empty.
LEMMA FiledPlaces ==
    ASSUME Still
    PROVE  \E n \in 0 .. S : /\ \A i \in 1 .. n : sec[Order[i]] # Clean
                             /\ \A i \in n + 1 .. S : sec[Order[i]] = Clean
  <1> DEFINE c == cur.addr
             o == oldest
  <1>0. S \in Nat /\ S >= 2 /\ c \in 0 .. S - 1 /\ o \in Sectors /\ Arranged(c, o)
    BY StillIs DEF Sectors
  <1>1. \A i \in 1 .. S : Order[i] = IF o + i - 1 < S THEN o + i - 1 ELSE o + i - 1 - S
    BY StillIs, Places
  <1>2. \A t \in Sectors : Ended(t, sec[t]) => sec[t] # Clean
    BY Records DEF Ended
  <1>3. ASSUME NEW k \in 1 .. S, Order[k] = c, \A i \in 1 .. k - 1 : sec[Order[i]] # Clean,
               \A i \in k + 1 .. S : sec[Order[i]] = Clean
        PROVE  \E n \in 0 .. S : /\ \A i \in 1 .. n : sec[Order[i]] # Clean
                                 /\ \A i \in n + 1 .. S : sec[Order[i]] = Clean
    <2>1. k \in 0 .. S /\ k - 1 \in 0 .. S /\ (k - 1) + 1 = k
      BY <1>0
    <2>2. \A i \in 1 .. k : i = k \/ i \in 1 .. k - 1
      BY <2>1
    <2>3. \A i \in k .. S : i = k \/ i \in k + 1 .. S
      BY <1>0, <2>1
    <2>4. CASE sec[c] # Clean
      <3>1. \A i \in 1 .. k : sec[Order[i]] # Clean
        BY <1>3, <2>2, <2>4
      <3> QED BY <1>3, <2>1, <3>1
    <2>5. CASE sec[c] = Clean
      <3>1. \A i \in (k - 1) + 1 .. S : sec[Order[i]] = Clean
        BY <1>3, <2>1, <2>3, <2>5
      <3> QED BY <1>3, <2>1, <3>1
    <2> QED BY <2>4, <2>5
  <1>4. CASE o = 0 /\ FirstRound(c)
    <2>1. \A i \in 1 .. S : Order[i] = i - 1
      BY <1>0, <1>1, <1>4
    <2>2. c + 1 \in 1 .. S /\ Order[c + 1] = c
      <3>1. c + 1 \in 1 .. S /\ (c + 1) - 1 = c
        BY <1>0
      <3> QED BY <2>1, <3>1
    <2>3. ASSUME NEW i \in 1 .. (c + 1) - 1 PROVE sec[Order[i]] # Clean
      <3>1. i \in 1 .. S /\ i - 1 \in 0 .. c - 1 /\ i - 1 \in Sectors
        BY <1>0 DEF Sectors
      <3> QED BY <1>2, <1>4, <2>1, <3>1 DEF FirstRound
    <2>4. ASSUME NEW i \in (c + 1) + 1 .. S PROVE sec[Order[i]] = Clean
      <3>1. i \in 1 .. S /\ i - 1 \in c + 1 .. S - 1
        BY <1>0
      <3> QED BY <1>4, <2>1, <3>1 DEF FirstRound
    <2> HIDE DEF c
    <2> QED BY <1>3, <2>2, <2>3, <2>4
  <1>5. CASE o = Following(c) /\ LaterRound(c)
    <2>1. o = IF c = S - 1 THEN 0 ELSE c + 1
      BY <1>0, <1>5, StillIs, SectorFacts
    <2>2. S \in 1 .. S /\ Order[S] = c
      BY <1>0, <1>1, <2>1
    <2>3. ASSUME NEW i \in 1 .. S - 1 PROVE sec[Order[i]] # Clean
      <3>1. i \in 1 .. S
        BY <1>0
      <3>2. Order[i] # c /\ Order[i] \in Sectors
        BY <1>0, <1>1, <2>1, <3>1, StillIs
      <3> QED BY <1>2, <1>5, <3>2 DEF LaterRound
    <2>4. \A i \in S + 1 .. S : FALSE
      BY <1>0
    <2> QED BY <1>3, <2>2, <2>3, <2>4
  <1> QED BY <1>0, <1>4, <1>5 DEF Arranged

\* All logs, sector by sector, are those that are kept, in the order of their times.
InAll == [i \in 1 .. S |-> InRows(i)]

LEMMA AllKept ==
    ASSUME Still
    PROVE  /\ InAll \in Seq(Seq(Entries)) /\ Len(InAll) = S /\ \A i \in 1 .. S : InAll[i] = InRows(i)
           /\ Sorted(FlattenSeq(InAll)) /\ Logs(FlattenSeq(InAll)) = kept
           /\ \A i \in 1 .. S : Sorted(InAll[i])
  <1> DEFINE Y == {e \in Entries : ~Unfinished(e)}
             all == FlattenSeq(InAll)
  <1>0. S \in Nat /\ oldest \in Int
    BY StillIs, SectorFacts
  <1>1. \A i \in 1 .. S : InRows(i) \in Seq(Entries) /\ Whole(InRows(i))
    <2> TAKE i \in 1 .. S
    <2>1. Order[i] \in Sectors
      BY StillIs
    <2>2. InRows(i) \in Seq(Entries)
      BY <2>1, StillIs DEF FlashOK, SectorOK, InRows
    <2>3. Whole(InRows(i))
      BY <2>1, StillIs DEF Done, Whole, InRows
    <2> QED BY <2>2, <2>3
  <1>2. InAll \in Seq(Seq(Entries)) /\ Len(InAll) = S /\ DOMAIN InAll = 1 .. S /\ \A i \in 1 .. S : InAll[i] = InRows(i)
    BY <1>0, <1>1 DEF InAll
  <1>3. InAll \in Seq(Seq(Y))
    <2>1. ASSUME NEW i \in 1 .. S PROVE InAll[i] \in Seq(Y)
      <3> DEFINE es == InRows(i)
      <3>1. es \in Seq(Entries) /\ \A j \in 1 .. Len(es) : ~Unfinished(es[j])
        BY <1>1 DEF Whole
      <3> HIDE DEF es
      <3>2. \A j \in 1 .. Len(es) : es[j] \in Y
        BY <3>1
      <3>3. es = [j \in 1 .. Len(es) |-> es[j]] /\ Len(es) \in Nat
        BY <3>1
      <3> HIDE DEF Y
      <3>4. es \in Seq(Y)
        BY <3>2, <3>3
      <3> QED BY <1>2, <3>4 DEF es
    <2>2. InAll = [i \in 1 .. S |-> InAll[i]]
      BY <1>2
    <2> HIDE DEF Y
    <2> QED BY <1>0, <2>1, <2>2
  <1>4. all \in Seq(Y) /\ all \in Seq(Entries)
    <2> HIDE DEF Y
    <2> QED BY <1>2, <1>3, FlatType
  <1>5. Whole(all)
    <2>1. \A j \in 1 .. Len(all) : all[j] \in Y
      <3> HIDE DEF Y, all
      <3> QED BY <1>4
    <2> QED BY <2>1 DEF Whole
  <1>6. Logs(all) = kept
    <2>1. [i \in DOMAIN InAll |-> Logs(InAll[i])] = Row(sec, oldest)
      <3>1. \A i \in 1 .. S : Logs(InAll[i]) = Logs(sec[(oldest + i - 1) % S].tsls)
        BY <1>2, StillIs DEF InRows
      <3> QED BY <1>2, <3>1 DEF Row
    <2>2. Logs(all) = FlattenSeq(Row(sec, oldest))
      BY <1>2, <2>1, LogsFlat
    <2>3. kept = Stored(sec, oldest)
      BY CalmIs DEF Still, KeptInv
    <2> QED BY <2>2, <2>3 DEF Stored
  <1> HIDE DEF all
  <1>7. Len(kept) = Len(all) /\ Len(all) \in Nat /\ \A i \in 1 .. Len(all) : kept[i].time = all[i].time
    <2>1. Len(kept) = Len(all) /\ \A i \in 1 .. Len(all) : kept[i] = [time |-> all[i].time, len |-> all[i].len]
      BY <1>4, <1>5, <1>6, LogsWhole
    <2>2. ASSUME NEW i \in 1 .. Len(all) PROVE kept[i].time = all[i].time
      <3>1. kept[i] = [time |-> all[i].time, len |-> all[i].len]
        BY <2>1
      <3> QED BY <3>1
    <2> QED BY <1>4, <2>1, <2>2
  <1>8. Rising(all)
    <2>1. \A i \in 1 .. Len(kept), j \in 1 .. Len(kept) : i < j => kept[i].time <= kept[j].time
      BY DEF Still, SortInv
    <2> QED BY <1>7, <2>1 DEF Rising
  <1>9. ASSUME NEW p \in 1 .. S PROVE Rising(InAll[p])
    <2> DEFINE d == Offset(InAll, p)
               es == InAll[p]
    <2>1. d \in Nat /\ d + Len(es) <= Len(all) /\ \A i \in 1 .. Len(es) : all[d + i] = es[i]
      BY <1>2, FlatPlaces DEF all
    <2>2. Len(es) \in Nat
      BY <1>1, <1>2
    <2> HIDE DEF d, es
    <2>3. ASSUME NEW i \in 1 .. Len(es), NEW j \in 1 .. Len(es), i < j PROVE es[i].time <= es[j].time
      <3>1. d + i \in 1 .. Len(all) /\ d + j \in 1 .. Len(all) /\ d + i < d + j
        BY <1>7, <2>1, <2>2, <2>3
      <3>2. all[d + i].time <= all[d + j].time
        BY <1>8, <3>1, Zenon DEF Rising
      <3> QED BY <2>1, <3>2
    <2> QED BY <2>3 DEF Rising, es
  <1> QED BY <1>1, <1>2, <1>4, <1>5, <1>6, <1>8, <1>9 DEF Sorted, all

-----------------------------------------------------------------------------
(* What fdb_tsl_iter_by_time passes to its callback.                       *)

Hollow == {i \in 1 .. S : sec[Order[i]].magic /\ sec[Order[i]].st = "EMPTY"}
LastOf == IF Hollow = {} THEN S ELSE Min(Hollow) - 1
FirstOf(from) == {i \in 1 .. LastOf : HasTsl(Order[i]) /\ Holds(Order[i], from)}
Cut(es, from) == SubSeq(es, Search(es, from), Len(es))
ScanOf(from) ==
    FlattenSeq([i \in 1 .. LastOf |-> IF FirstOf(from) # {} /\ i >= Min(FirstOf(from)) /\ HasTsl(Order[i])
                                        THEN From(Order[i], from) ELSE << >>])

LEMMA ByTimeIs ==
    ASSUME oldest # NoSector, NEW from, NEW to
    PROVE  fdb_tsl_iter_by_time(from, to) = UpTo(ScanOf(from), from, to)
  BY Zenon DEF fdb_tsl_iter_by_time, UpTo, OutOf, ScanOf, FirstOf, LastOf, Hollow

\* One after the other, each a sequence of its own, they are the sequence.
LEMMA Singles ==
    ASSUME NEW u \in Seq(Entries)
    PROVE  FlattenSeq([i \in 1 .. Len(u) |-> <<u[i]>>]) = u
  <1> DEFINE n == Len(u)
  <1>1. n \in Nat /\ DOMAIN u = 1 .. n /\ \A i \in 1 .. n : u[i] \in Entries
    OBVIOUS
  <1>2. Span(u, Entries, 1, n)
    BY <1>1 DEF Span
  <1>3. Sift(u, Entries) = Part(u, 1, n)
    BY <1>2, SiftSpan
  <1>4. Part(u, 1, n) = u
    BY DEF Part
  <1>5. PiecesOf(u, Entries) = [i \in 1 .. n |-> <<u[i]>>]
    BY <1>1 DEF PiecesOf, PieceOf
  <1> QED BY <1>3, <1>4, <1>5 DEF Sift

\* What is read of a sector that holds logs, from a time on: the unused index behind the last
\* log, which the search may end at, is left out.
LEMMA FromIs ==
    ASSUME NEW s \in Sectors, NEW es, es = sec[s].tsls, Sorted(es), Visible(s), NEW from \in Int
    PROVE  From(s, from) = Cut(es, from)
  <1> DEFINE n == Len(es)
             v == View(s)
             I(i) == Index(s, i)
             U(e) == IF e.st = "UNUSED" THEN << >> ELSE <<e>>
  <1>1. es \in Seq(Entries) /\ n \in Nat /\ DOMAIN es = 1 .. n /\ v.addr = s /\ Reach(v) = n
    BY DEF Sorted, Visible
  <1>2. Seen(s, n) = es
    BY <1>1, SeenAll
  <1>3. PICK k \in 1 .. n + 1 : Search(es, from) = k
    <2>1. PICK k \in 1 .. n + 1 : Splits(es, from, n, k)
      BY SplitsAt
    <2> QED BY <2>1, SearchIs
  <1>4. From(s, from) = FlattenSeq([j \in 1 .. Max({n, k}) - k + 1 |-> U(I(k + j - 1))])
    BY <1>1, <1>2, <1>3 DEF From
  <1>5. Cut(es, from) = SubSeq(es, k, n)
    BY <1>3 DEF Cut
  <1> HIDE DEF v
  <1>6. CASE k <= n
    <2>1. Max({n, k}) = n
      <3>1. n \in {n, k} /\ \A y \in {n, k} : n >= y
        BY <1>1, <1>6
      <3>2. \A x \in {n, k} : (\A y \in {n, k} : x >= y) => x = n
        BY <1>1, <1>6
      <3> QED BY <3>1, <3>2 DEF Max
    <2> DEFINE u == Part(es, k, n)
               m == n - k + 1
    <2>2. PartOf(es, k, n, Entries)
      BY <1>1, <1>6 DEF PartOf
    <2>3. u \in Seq(Entries) /\ Len(u) = m /\ \A i \in 1 .. m : u[i] = es[i + k - 1]
      BY <2>2 DEF PartOf, Part
    <2> HIDE DEF u
    <2>4. \A j \in 1 .. m : U(I(k + j - 1)) = <<u[j]>>
      <3> TAKE j \in 1 .. m
      <3>1. k + j - 1 \in 1 .. n /\ j + k - 1 = k + j - 1
        BY <1>1
      <3>2. I(k + j - 1) = es[k + j - 1] /\ es[k + j - 1] \in Entries
        BY <1>1, <3>1 DEF Index
      <3>3. es[k + j - 1].st # "UNUSED"
        BY <3>2 DEF Entries
      <3> QED BY <2>3, <3>1, <3>2, <3>3
    <2>5. [j \in 1 .. m |-> U(I(k + j - 1))] = [j \in 1 .. Len(u) |-> <<u[j]>>]
      <3> HIDE DEF U, I, m
      <3> QED BY <2>3, <2>4
    <2>6. From(s, from) = FlattenSeq([j \in 1 .. Len(u) |-> <<u[j]>>])
      <3> HIDE DEF U, I
      <3> QED BY <1>4, <2>1, <2>5
    <2> QED BY <1>5, <2>3, <2>6, Singles DEF u, Part
  <1>7. CASE k = n + 1
    <2>1. Max({n, k}) = k
      <3>1. k \in {n, k} /\ \A y \in {n, k} : k >= y
        BY <1>1, <1>7
      <3>2. \A x \in {n, k} : (\A y \in {n, k} : x >= y) => x = k
        BY <1>1, <1>7
      <3> QED BY <3>1, <3>2 DEF Max
    <2> DEFINE w == [j \in 1 .. k - k + 1 |-> U(I(k + j - 1))]
    <2>2. I(k) = Blank
      BY <1>1, <1>7 DEF Index
    <2>3. k - k + 1 = 1 /\ \A j \in 1 .. 1 : k + j - 1 = k
      BY <1>3
    <2>4. U(Blank) = << >>
      BY DEF Blank
    <2>5. w \in Seq(Seq(Entries)) /\ Len(w) = 1 /\ \A i \in 1 .. 1 : w[i] = << >>
      <3>1. w = [j \in 1 .. 1 |-> << >>]
        <4> HIDE DEF U, I
        <4> QED BY <2>2, <2>3, <2>4
      <3> HIDE DEF w
      <3> QED BY <3>1
    <2>6. From(s, from) = FlattenSeq(w)
      BY <1>4, <2>1
    <2> HIDE DEF w
    <2>7. FlattenSeq(w) = << >>
      BY <2>5, FlatNothing
    <2>8. SubSeq(es, k, n) = << >>
      BY <1>1, <1>7
    <2> QED BY <1>5, <2>6, <2>7, <2>8
  <1> QED BY <1>1, <1>3, <1>6, <1>7

LEMMA LastOfIs ==
    ASSUME Still, NEW n \in 0 .. S, \A i \in 1 .. n : sec[Order[i]] # Clean, \A i \in n + 1 .. S : sec[Order[i]] = Clean
    PROVE  LastOf = n
  <1>0. S \in Nat /\ n \in Nat /\ n <= S
    BY StillIs
  <1>1. \A i \in 1 .. n : sec[Order[i]].st # "EMPTY"
    <2> TAKE i \in 1 .. n
    <2>1. i \in 1 .. S
      BY <1>0
    <2>2. Order[i] \in Sectors
      BY <2>1, StillIs
    <2> QED BY <2>2, FiledIs DEF Filed
  <1>2. \A i \in n + 1 .. S : sec[Order[i]].magic /\ sec[Order[i]].st = "EMPTY"
    BY Records
  <1>3. \A i \in 1 .. S : i \in 1 .. n \/ i \in n + 1 .. S
    BY <1>0
  <1>4. \A i \in n + 1 .. S : i \in 1 .. S
    BY <1>0
  <1>5. Hollow = n + 1 .. S
    BY <1>1, <1>2, <1>3, <1>4 DEF Hollow
  <1>6. CASE n = S
    BY <1>0, <1>5, <1>6 DEF LastOf
  <1>7. CASE n # S
    <2>1. Hollow # {} /\ Hollow \subseteq Nat /\ n + 1 \in Hollow
      BY <1>0, <1>5, <1>7
    <2>2. Min(Hollow) \in Hollow /\ Min(Hollow) <= n + 1
      BY <2>1, LeastIs
    <2>3. Min(Hollow) = n + 1
      BY <1>0, <1>5, <2>2
    <2>4. LastOf = Min(Hollow) - 1
      BY <2>1 DEF LastOf
    <2> QED BY <1>0, <2>3, <2>4
  <1> QED BY <1>6, <1>7

\* The first sector whose logs end at the time or later holds it, but for the gaps.
LEMMA HeldSomewhere ==
    ASSUME Still, NEW n \in 0 .. S, \A i \in 1 .. n : sec[Order[i]] # Clean,
           NEW from \in Int, ~InGap(from), NEW p \in 1 .. n, ~(InRows(p)[Len(InRows(p))].time < from)
    PROVE  \E j \in 1 .. p : HasTsl(Order[j]) /\ Holds(Order[j], from)
  <1> DEFINE E(i) == InRows(i)[Len(InRows(i))].time
             B(i) == InRows(i)[1].time
             T == {i \in 1 .. n : ~(E(i) < from)}
  <1>0. S \in Nat /\ n \in Nat /\ n <= S /\ p \in Nat /\ p <= n
    BY StillIs
  <1>1. \A i \in 1 .. n : /\ HasTsl(Order[i]) /\ View(Order[i]).start = B(i) /\ View(Order[i]).end = E(i)
                          /\ E(i) \in Nat /\ B(i) \in Nat
    <2> TAKE i \in 1 .. n
    <2>1. i \in 1 .. S
      BY <1>0
    <2>2. Order[i] \in Sectors
      BY <2>1, StillIs
    <2>3. Filed(Order[i])
      BY <2>2, FiledIs
    <2>4. 1 \in 1 .. Len(InRows(i)) /\ Len(InRows(i)) \in 1 .. Len(InRows(i)) /\ InRows(i) \in Seq(Entries)
      BY <2>3, EmptySeq DEF Filed, InRows
    <2>5. InRows(i)[1] \in Entries /\ InRows(i)[Len(InRows(i))] \in Entries
      BY <2>4
    <2>6. B(i) \in Nat /\ E(i) \in Nat
      BY <2>5 DEF Entries
    <2> QED BY <2>3, <2>6 DEF Filed, InRows
  <1>2. p \in T /\ T \subseteq Nat
    BY <1>0
  <1> HIDE DEF T
  <1>3. PICK m \in T : \A y \in T : m <= y
    BY <1>2, HasLeast
  <1> USE DEF T
  <1>4. m \in 1 .. n /\ m \in 1 .. p /\ ~(E(m) < from)
    BY <1>0, <1>2, <1>3
  <1> HIDE DEF E, B
  <1>5. from <= E(m)
    BY <1>1, <1>4
  <1>6. CASE B(m) <= from
    <2>1. Holds(Order[m], from)
      BY <1>1, <1>4, <1>5, <1>6 DEF Holds
    <2> QED BY <1>1, <1>4, <2>1
  <1>7. CASE ~(B(m) <= from) /\ m = 1
    <2>1. Order[1] = oldest
      <3>1. 1 \in 1 .. S /\ oldest \in 0 .. S - 1
        BY StillIs DEF Sectors
      <3>2. Order[1] = IF oldest + 1 - 1 < S THEN oldest + 1 - 1 ELSE oldest + 1 - 1 - S
        BY <3>1, StillIs, Places
      <3> QED BY <1>0, <3>1, <3>2
    <2>2. from <= B(m)
      BY <1>1, <1>4, <1>7
    <2>3. Holds(Order[m], from)
      BY <1>1, <1>4, <1>7, <2>1, <2>2 DEF Holds
    <2> QED BY <1>1, <1>4, <2>3
  <1>8. CASE ~(B(m) <= from) /\ m # 1
    <2>1. m - 1 \in 1 .. n /\ m - 1 \in 1 .. S - 1 /\ (m - 1) + 1 = m /\ ~(m <= m - 1)
      BY <1>0, <1>4, <1>8
    <2>2. m - 1 \notin T
      BY <1>3, <2>1
    <2>3. E(m - 1) < from
      BY <2>1, <2>2
    <2>4. from < B(m)
      BY <1>1, <1>4, <1>8
    <2>5. InGap(from)
      BY <1>1, <1>4, <2>1, <2>3, <2>4 DEF InGap
    <2> QED BY <2>5
  <1> QED BY <1>6, <1>7, <1>8

\* In the scan are, of all logs, those from the time on.
LEMMA ScanOfIs ==
    ASSUME Still, NEW from \in Int, ~InGap(from)
    PROVE  ScanOf(from) = Sift(FlattenSeq(InAll), Late(from))
  <1> DEFINE L == Late(from)
             U(n) == Upto(InAll, n)
             F == FirstOf(from)
             G(i) == IF F # {} /\ i >= Min(F) /\ HasTsl(Order[i]) THEN From(Order[i], from) ELSE << >>
  <1>0. /\ S \in Nat /\ InAll \in Seq(Seq(Entries)) /\ Len(InAll) = S
        /\ \A i \in 1 .. S : InAll[i] = InRows(i) /\ Sorted(InRows(i)) /\ Order[i] \in Sectors
    BY StillIs, AllKept
  <1>1. PICK n \in 0 .. S : /\ \A i \in 1 .. n : sec[Order[i]] # Clean
                            /\ \A i \in n + 1 .. S : sec[Order[i]] = Clean
    BY FiledPlaces
  <1>2. LastOf = n /\ n \in Nat /\ n <= S
    BY <1>0, <1>1, LastOfIs
  <1>3. FlattenSeq(InAll) = FlattenSeq(U(n))
    <2>1. \A i \in n + 1 .. S : InAll[i] = << >>
      <3>1. \A i \in n + 1 .. S : i \in 1 .. S
        BY <1>2
      <3> QED BY <1>0, <1>1, <3>1, Records DEF InRows
    <2> QED BY <1>0, <1>2, <2>1, FlatTail
  <1>4. U(n) \in Seq(Seq(Entries)) /\ DOMAIN U(n) = 1 .. n /\ \A i \in 1 .. n : U(n)[i] = InRows(i)
    <2>1. U(n) \in Seq(Seq(Entries)) /\ Len(U(n)) = n /\ \A i \in 1 .. n : U(n)[i] = InAll[i]
      BY <1>0, <1>2 DEF Upto
    <2>2. \A i \in 1 .. n : i \in 1 .. S
      BY <1>0, <1>2
    <2> HIDE DEF U
    <2> QED BY <1>0, <2>1, <2>2
  <1>5. Sift(FlattenSeq(U(n)), L) = FlattenSeq([i \in DOMAIN U(n) |-> Sift(U(n)[i], L)])
    <2> HIDE DEF L, U
    <2> QED BY <1>4, SiftFlat
  <1>6. F \subseteq Nat
    BY <1>2 DEF FirstOf
  <1>7. ASSUME NEW i \in 1 .. n PROVE G(i) = Sift(U(n)[i], L)
    <2> DEFINE es == InRows(i)
    <2>1. i \in 1 .. S /\ i \in Nat /\ sec[Order[i]] # Clean
      BY <1>0, <1>1, <1>2
    <2>2. Filed(Order[i]) /\ Sorted(es) /\ U(n)[i] = es
      BY <1>0, <1>4, <2>1, FiledIs
    <2>3. HasTsl(Order[i]) /\ From(Order[i], from) = Cut(es, from)
      <3>1. HasTsl(Order[i]) /\ Visible(Order[i]) /\ Order[i] \in Sectors /\ es = sec[Order[i]].tsls
        BY <1>0, <2>1, <2>2 DEF Filed, InRows
      <3> QED BY <2>2, <3>1, FromIs
    <2>4. CASE F # {} /\ i >= Min(F)
      <3>1. G(i) = Cut(es, from)
        BY <2>3, <2>4
      <3>2. Cut(es, from) = Sift(es, L)
        BY <2>2, CutIs DEF Cut
      <3> QED BY <2>2, <3>1, <3>2
    <2>5. CASE ~(F # {} /\ i >= Min(F))
      <3>1. G(i) = << >>
        BY <2>5
      <3>2. ASSUME ~(es[Len(es)].time < from) PROVE FALSE
        <4>1. PICK j \in 1 .. i : HasTsl(Order[j]) /\ Holds(Order[j], from)
          BY <1>1, <3>2, HeldSomewhere
        <4>2. j \in 1 .. n /\ j \in Nat /\ j <= i
          BY <1>2
        <4>3. j \in F
          BY <1>2, <4>1, <4>2 DEF FirstOf
        <4> HIDE DEF F
        <4>4. Min(F) \in F /\ Min(F) <= j
          BY <1>6, <4>3, LeastIs
        <4>5. Min(F) \in Nat /\ i \in Nat /\ F # {}
          BY <1>6, <2>1, <4>4
        <4>6. i >= Min(F)
          BY <4>2, <4>4, <4>5
        <4> QED BY <2>5, <4>5, <4>6
      <3>3. Sift(es, L) = << >>
        BY <2>2, <3>2, NoneLate
      <3> QED BY <2>2, <3>1, <3>3
    <2> QED BY <2>4, <2>5
  <1>8. ScanOf(from) = FlattenSeq([i \in 1 .. n |-> G(i)])
    BY <1>2 DEF ScanOf
  <1>9. [i \in 1 .. n |-> G(i)] = [i \in DOMAIN U(n) |-> Sift(U(n)[i], L)]
    <2> HIDE DEF G, U, L
    <2> QED BY <1>4, <1>7
  <1> HIDE DEF G, U, L
  <1>10. ScanOf(from) = Sift(FlattenSeq(InAll), L)
    BY <1>3, <1>5, <1>8, <1>9
  <1> QED BY <1>10 DEF L

LEMMA QueryIs ==
    ASSUME Still
    PROVE  QueryRight
  <1> SUFFICES ASSUME NEW from \in Asked, NEW to \in Asked, ~InGap(from)
               PROVE  Log(fdb_tsl_iter_by_time(from, to)) = Between(kept, from, to)
    BY DEF QueryRight
  <1>1. from \in Int /\ to \in Int /\ oldest # NoSector
    BY StillIs, Consts
  <1>2. Sorted(FlattenSeq(InAll)) /\ Logs(FlattenSeq(InAll)) = kept
    BY AllKept
  <1>3. fdb_tsl_iter_by_time(from, to) = UpTo(Sift(FlattenSeq(InAll), Late(from)), from, to)
    BY <1>1, ByTimeIs, ScanOfIs
  <1> QED BY <1>1, <1>2, <1>3, RangeIs

-----------------------------------------------------------------------------
(* The theorems                                                            *)

\* Every step of the code keeps the whole invariant: where the logs lie, the end nodes, that
\* there is a sector to write to, the order of the sectors, the logs that are kept and their times.
THEOREM InvHolds == Spec => []Inv
  <1>1. Init => Inv
    <2>1. Init => MetInv
      BY DEF Init, MetInv
    <2> QED BY <2>1, TypeInit, LogInit, EndInit, RoomInit, NeutralInit, KeptInit, TimeInit, FullInit DEF Inv
  <1>2. Inv /\ [Next]_vars => Inv'
    BY TypeNext, LogNext, EndNext, RoomNext, NeutralNext, KeptNext, MetNext, SetNext, TimeNext, SortNext, FullNext
       DEF Inv
  <1> QED BY <1>1, <1>2, PTL DEF Spec

\* write_tsl and the recovery of read_sector_info never let the data of two logs overlap, nor
\* data reach into the indices, however many power losses interrupt the appends.
THEOREM LogsDisjoint == Spec => []Disjoint
  <1>1. Inv => Disjoint
    <2> SUFFICES ASSUME Inv, NEW s \in Sectors, NEW i \in DOMAIN sec[s].tsls
                 PROVE  /\ sec[s].tsls[i].at >= Len(sec[s].tsls) * Idx
                        /\ \A j \in 1 .. i - 1 : sec[s].tsls[i].at + sec[s].tsls[i].len <= sec[s].tsls[j].at
      BY DEF Disjoint
    <2>1. Placed(sec[s].tsls) /\ sec[s].tsls \in Seq(Entries)
      BY DEF Inv, LogInv, TypeInv, FlashOK, SectorOK
    <2>2. i \in 1 .. Len(sec[s].tsls)
      BY <2>1
    <2> QED BY <2>1, <2>2 DEF Placed
  <1> QED BY <1>1, InvHolds, PTL

\* fdb_tsdb_init and tsl_format_all stop in the assertion of read_sector_info only after a
\* second power loss between the two writes of an end node.
THEOREM NeverHangsHolds == Spec => []NeverHangs
  <1>1. Inv => NeverHangs
    BY DEF Inv, EndInv, NeverHangs
  <1> QED BY <1>1, InvHolds, PTL

\* With rollover write_tsl is never called without a current sector, so that no write leaves
\* the partition, unless power was lost between FULL and the formatting of the next sector.
THEOREM InsideHolds == ASSUME Rollover PROVE Spec => []Inside
  <1>1. Inv => Inside
    BY DEF Inv, RoomInv, Inside
  <1> QED BY <1>1, InvHolds, PTL

\* Between two calls fdb_tsdb_init would read from the flash what the database holds in RAM,
\* also after power losses while an index or an end node was written.
THEOREM RestartIsNeutral == Spec => []RestartNeutral
  <1>1. Inv => RestartNeutral
    <2> SUFFICES ASSUME Inv, Ready, rollover, met \subseteq {"seal", "entry"}, NEW g \in Stack
                 PROVE  /\ Failing = {} /\ ~Hangs
                        /\ BootOldest = oldest /\ BootTime(g) = last_time
                        /\ cur.st = "EMPTY" => BootInfo(g).addr = cur.addr /\ BootInfo(g).remain = cur.remain
                        /\ cur.st = "USING" => [BootInfo(g) EXCEPT !.ends = cur.ends] = cur
      BY DEF RestartNeutral
    <2> DEFINE c == cur.addr
               r == BootInfo(g)
               h == sec[c]
    <2>1. pc = "idle" /\ Quiet /\ TypeInv /\ LogInv /\ CurOK(cur)
      BY DEF Inv, Ready, Quiet, SetInv, TypeInv
    <2>2. /\ c \in Sectors /\ Arranged(c, oldest) /\ Open(h)
          /\ cur.st = "EMPTY" => LastIs(c, oldest)
          /\ cur.st = "USING" => Known(h)
          /\ h.st = "USING" => h.tsls # << >>
      BY <2>1 DEF Inv, NeutralInv, AtIdle, Filled
    <2>3. /\ cur.st \in {"USING", "EMPTY"} /\ Current(cur, h) /\ ~Hangs
      BY <2>1, QuietIs, NoHang DEF Inv
    <2>4. Failing = {} /\ BootOldest = oldest
      BY <2>2, ArrangedBoot
    <2>5. /\ r.addr = c /\ r.st = h.st /\ r.start = h.start /\ CurOK(r)
          /\ h.st = "EMPTY" => BootTime(g) = (IF c = oldest THEN 0 ELSE EndTime(sec[Before(c)])) /\ r.remain = Cap
          /\ h.st = "USING" => /\ BootTime(g) = r.end /\ r.end = TimeOf(h.tsls[Len(h.tsls)])
                               /\ r.end_idx = At(c, Len(h.tsls)) /\ On(r, h.tsls)
      BY <2>1, <2>2, ArrangedTime
    <2>6. cur.st = h.st /\ On(cur, h.tsls)
      BY <2>3 DEF Current
    <2> HIDE DEF r
    <2>7. cur.st = "EMPTY" => BootTime(g) = last_time /\ r.addr = c /\ r.remain = cur.remain
      <3>1. cur.st = "EMPTY" => h.tsls = << >>
        BY <2>2, <2>6 DEF Inv, LogInv, Unwritten
      <3>2. cur.st = "EMPTY" => cur.remain = Cap
        BY <2>6, <3>1, EmptyPlaced DEF On
      <3> QED BY <2>2, <2>5, <2>6, <3>2 DEF LastIs
    <2>8. cur.st = "USING" => BootTime(g) = last_time /\ [r EXCEPT !.ends = cur.ends] = cur
      <3>1. cur.st = "USING" =>
              /\ r.addr = cur.addr /\ r.st = cur.st /\ r.start = cur.start /\ r.end = cur.end /\ r.end_idx = cur.end_idx
              /\ r.idx = cur.idx /\ r.data = cur.data /\ r.remain = cur.remain /\ BootTime(g) = last_time
        BY <2>2, <2>5, <2>6 DEF Known, On
      <3>2. [r EXCEPT !.ends = cur.ends] =
              [addr |-> r.addr, st |-> r.st, start |-> r.start, end |-> r.end, end_idx |-> r.end_idx,
               ends |-> cur.ends, idx |-> r.idx, data |-> r.data, remain |-> r.remain]
        BY <2>5 DEF CurOK
      <3> QED BY <2>1, <3>1, <3>2 DEF CurOK
    <2> QED BY <2>3, <2>4, <2>7, <2>8 DEF r
  <1> QED BY <1>1, InvHolds, PTL

\* With rollover fdb_tsl_iter passes on every log whose append returned, in their order, and
\* besides them only the indices of appends that a power loss interrupted; only what the oldest
\* sector held is ever given up, whatever power losses come between, except in the places of
\* Fatal.  It passes on no index that was never written while the sector in use holds a log.
THEOREM FoundHolds == ASSUME Rollover PROVE Spec => []Found
  <1>1. Inv => Found
    <2> SUFFICES ASSUME Inv, pc = "idle", met \cap Fatal = {}, ~Bare
                 PROVE  Log(Written(fdb_tsl_iter)) = kept
      BY DEF Found, Ready
    <2>0. TypeInv /\ LogInv /\ EndInv /\ RoomInv /\ NeutralInv /\ KeptInv /\ MetInv /\ FullInv
      BY DEF Inv
    <2> DEFINE ss == [i \in 1 .. S |-> sec[Order[i]].tsls]
    <2>1. Quiet
      BY <2>0 DEF Quiet, MetInv
    <2>2. oldest # NoSector /\ oldest \in Int /\ FlashOK(sec)
      <3>1. cur.addr \in Sectors /\ Arranged(cur.addr, oldest)
        BY <2>0, <2>1 DEF NeutralInv, AtIdle
      <3> QED BY <2>0, <3>1, ArrangedOthers, SectorFacts DEF TypeInv
    <2>3. \A i \in 1 .. S : Order[i] = (oldest + i - 1) % S /\ Order[i] \in Sectors
      BY <2>2, InRow DEF Order
    <2>4. fdb_tsl_iter = FlattenSeq(ss)
      <3>1. fdb_tsl_iter = FlattenSeq([i \in 1 .. S |-> Passed(Order[i])])
        BY <2>2 DEF fdb_tsl_iter
      <3>2. \A i \in 1 .. S : Passed(Order[i]) = sec[Order[i]].tsls
        BY <2>0, <2>1, <2>3, PassedIs
      <3>3. [i \in 1 .. S |-> Passed(Order[i])] = ss
        BY <3>2
      <3> QED BY <3>1, <3>3
    <2>5. ss \in Seq(Seq(Entries)) /\ DOMAIN ss = 1 .. S
      <3>1. \A i \in 1 .. S : sec[Order[i]].tsls \in Seq(Entries)
        BY <2>2, <2>3 DEF FlashOK, SectorOK
      <3> QED BY <3>1, Consts
    <2>6. [i \in DOMAIN ss |-> Logs(ss[i])] = Row(sec, oldest)
      BY <2>3, <2>5 DEF Row
    <2> HIDE DEF ss
    <2>7. Logs(fdb_tsl_iter) = FlattenSeq(Row(sec, oldest))
      BY <2>4, <2>5, <2>6, LogsFlat
    <2> QED BY <2>0, <2>1, <2>7 DEF KeptInv, Stored, Logs
  <1> QED BY <1>1, InvHolds, PTL

\* With rollover fdb_tsl_iter_by_time passes to its callback the logs of the range of times, all
\* of them, in their order and no other, whatever sectors they are in and wherever power was lost
\* in writing an end node, unless the range begins between the logs of two sectors.
THEOREM QueryRightHolds == ASSUME Rollover PROVE Spec => []QueryRight
  <1>1. Inv => QueryRight
    <2>1. CASE ~(Ready /\ met \subseteq {"seal"})
      BY <2>1 DEF QueryRight
    <2>2. ASSUME Inv, Ready, met \subseteq {"seal"} PROVE QueryRight
      BY <2>2, QueryIs DEF Inv, Still, Calm, Ready
    <2> QED BY <2>1, <2>2
  <1> QED BY <1>1, InvHolds, PTL

\* A sector holds no more logs than it has units.
LEMMA FewLogs ==
    ASSUME NEW es \in Seq(Entries), Placed(es)
    PROVE  Len(es) \in 0 .. Cap
  <1>1. Len(es) \in Nat /\ Len(es) * Idx \in Nat /\ Cap \in Nat
    BY RoomType, Consts
  <1>2. CASE Len(es) = 0
    BY <1>1, <1>2
  <1>3. CASE Len(es) # 0
    <2>1. 1 \in 1 .. Len(es) /\ es[1] \in Entries
      BY <1>1, <1>3
    <2>2. es[1].at >= Len(es) * Idx /\ es[1].at + es[1].len <= Cap /\ es[1].at \in Int /\ es[1].len \in Nat
      BY <2>1, LenType DEF Placed
    <2>3. Len(es) * Idx <= Cap
      BY <1>1, <2>2
    <2>4. Len(es) <= Len(es) * Idx
      <3>1. \A a \in Nat, b \in Nat : b >= 1 => a <= a * b
        OBVIOUS
      <3> QED BY <1>1, <3>1, Consts
    <2> QED BY <1>1, <2>3, <2>4
  <1> QED BY <1>2, <1>3

\* The types: cur_sec and oldest_addr are sectors or none, and what cur_sec says of the room
\* that is left and of the number of logs is within the sector.
THEOREM TypesHold == Spec => []TypeOK
  <1>1. Inv => TypeOK
    <2> SUFFICES ASSUME Inv PROVE TypeOK
      OBVIOUS
    <2>1. \A s \in Sectors : sec[s].st \in {"UNUSED", "EMPTY", "USING", "FULL"}
      BY DEF Inv, TypeInv, FlashOK, SectorOK, Statuses
    <2>2. /\ cur.addr \in Sectors \cup {NoSector} /\ oldest \in Sectors \cup {NoSector}
          /\ fmt \in Sectors /\ crashes \in 0 .. MaxCrashes
      BY DEF Inv, TypeInv, CurOK
    <2>3. Ready /\ cur.st = "USING" => cur.remain \in 0 .. Cap /\ cur.idx \in 0 .. Cap
      <3> SUFFICES ASSUME Ready, cur.st = "USING" PROVE cur.remain \in 0 .. Cap /\ cur.idx \in 0 .. Cap
        OBVIOUS
      <3>1. cur.addr \in Sectors /\ Current(cur, sec[cur.addr])
        BY <2>2 DEF Inv, LogInv, Ready
      <3>2. sec[cur.addr].tsls \in Seq(Entries) /\ Placed(sec[cur.addr].tsls)
        BY <3>1 DEF Inv, TypeInv, LogInv, FlashOK, SectorOK
      <3>3. cur.idx = Len(sec[cur.addr].tsls) /\ cur.remain = Left(sec[cur.addr].tsls)
        BY <3>1 DEF Current, On
      <3> QED BY <3>2, <3>3, FewLogs, RoomType
    <2> QED BY <2>1, <2>2, <2>3 DEF TypeOK
  <1> QED BY <1>1, InvHolds, PTL
=============================================================================
