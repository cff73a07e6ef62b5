---------------------------- MODULE FlashKvProofs ---------------------------
(***************************************************************************)
(* Proofs about FlashKv without power loss: what is read is what was set,  *)
(* one entry of a key is valid, between any two writes of the flash there  *)
(* is a complete copy of every key, and a set is refused by a full flash   *)
(* only.                                                                   *)
(***************************************************************************)
EXTENDS FlashKv, FiniteSetTheorems, SequenceTheorems, WellFoundedInduction, TLAPS

\* The defaults go into one sector, which they do not fill: Place(p) says where.
Placing(p) ==
    /\ p[1] = 0
    /\ \A i \in 1 .. Len(Defaults) :
         /\ p[i + 1] = p[i] + Size[Defaults[i].val] /\ p[i + 1] < Cap
         /\ i >= 2 => p[i + 1] + Threshold <= Cap
DefaultsFit ==
    /\ \A i, j \in 1 .. Len(Defaults) : Defaults[i].key = Defaults[j].key => i = j
    /\ \E p \in [1 .. Len(Defaults) + 1 -> 0 .. Cap] : Placing(p)
Place == CHOOSE p \in [1 .. Len(Defaults) + 1 -> 0 .. Cap] : Placing(p)

\* No power is lost.
Plain == MaxCrashes = 0 /\ DefaultsFit

-----------------------------------------------------------------------------
(* A flash f and its entries.                                              *)

Statuses == {"NONE", "PRE_WRITE", "WRITE", "PRE_DELETE", "DELETED"}
KvEntries == [key : Keys, val : Values, st : Statuses, at : Nat]

SectorOK(h) ==
    /\ h = [store |-> h.store, dirty |-> h.dirty, kvs |-> h.kvs]
    /\ h.store \in {"bad", "empty", "using", "full"} /\ h.dirty \in {"false", "true", "gc"}
    /\ h.kvs \in Seq(KvEntries)
FlashOK(f) == f = [s \in Sectors |-> f[s]] /\ \A s \in Sectors : SectorOK(f[s])

Addrs(f) == UNION {{<<s, i>> : i \in 1 .. Len(f[s].kvs)} : s \in Sectors}
Kv(f, a) == f[a[1]].kvs[a[2]]

\* The entries of a sector lie one behind the other; a third one leaves the threshold.
EndOf(e) == e.at + Size[e.val]
Top(es) == IF es = << >> THEN 0 ELSE EndOf(es[Len(es)])
LayoutOK(es) ==
    /\ es # << >> => es[1].at = 0
    /\ \A j \in 1 .. Len(es) :
         /\ EndOf(es[j]) < Cap
         /\ j >= 3 => es[j].at + Threshold <= Cap
         /\ \A i \in 1 .. j - 1 : EndOf(es[i]) <= es[j].at
Unwritten(h) == h.store \in {"bad", "empty"} => h.kvs = << >> /\ h.dirty = "false"

-----------------------------------------------------------------------------
(* Where the database is.                                                  *)

Putting == pc \in {"predelete", "predirty", "move", "status", "slot", "data", "write", "delete", "dirty", "done"}
Collecting == pc \in {"gcsector", "gckv", "erase", "format"} \/ (Putting /\ put.ret = "gc")
InGc == pc = "gc" \/ Collecting
Wiping == pc \in {"wipe", "wiped"}
Defaulting == pc = "default" \/ (pc = "new" /\ op.ret = "def") \/ (Putting /\ put.ret = "def")
Booting == pc \in {"gcs", "kvs", "retry"}

\* The sector of the new entry is known, and the entry is there.
Chosen == pc = "status" \/ (pc \in {"predelete", "predirty"} /\ put.ret = "set")
HasNew == pc \in {"data", "write", "delete", "dirty", "done"} /\ put.ret # "del"

OldStatus ==
    IF pc = "predelete" \/ (pc = "delete" /\ put.ret = "del") THEN "WRITE"
    ELSE IF pc \in {"dirty", "done"} THEN "DELETED" ELSE "PRE_DELETE"
NewStatus == IF pc = "data" THEN "NONE" ELSE IF pc = "write" THEN "PRE_WRITE" ELSE "WRITE"

ControlInv ==
    /\ pc \in {"off", "headers", "gcs", "kvs", "retry", "idle", "new", "gc", "gcsector", "gckv", "erase",
               "format", "wipe", "wiped", "default"} \/ Putting
    /\ gc_request \in BOOLEAN /\ in_recovery_check \in BOOLEAN /\ already_gc \in BOOLEAN
    /\ crashes = 0
    /\ want = [k \in Keys |-> want[k]]
    /\ gc_request = (InGc \/ (gc_request /\ pc \in {"delete", "dirty", "done"} /\ put.ret = "set"))
    /\ last_is_complete_del = (/\ pc \in {"predirty", "move", "status", "slot", "data", "write", "delete"}
                               /\ put.old # NoAddr /\ put.ret # "del")
    /\ in_recovery_check => pc = "headers" \/ Wiping \/ Defaulting \/ Booting
    /\ Booting => in_recovery_check
    /\ ret = "idle" \/ (ret = "new" /\ InGc)
    /\ ret = "new" => op.ret = "set"
    /\ pc = "new" \/ ret = "new" => op.key \in Keys /\ op.val \in Values /\ op.ret \in {"set", "def"}
    /\ already_gc = (ret = "new" \/ (already_gc /\ pc = "new" /\ op.ret = "set"))

PutInv ==
    Putting =>
    /\ put = [key |-> put.key, val |-> put.val, old |-> put.old, dst |-> put.dst, full |-> put.full, ret |-> put.ret]
    /\ put.key \in Keys /\ put.ret \in {"set", "del", "gc", "def"} /\ put.full \in BOOLEAN
    /\ IF put.ret = "del" THEN put.val = None ELSE put.val \in Values
    /\ put.ret = "del" => pc \in {"delete", "dirty", "done"}
    /\ pc = "move" => put.ret = "gc"
    /\ put.ret \in {"del", "gc"} \/ pc \in {"predelete", "predirty", "move", "delete", "dirty"} => put.old # NoAddr
    /\ put.ret = "def" => put.old = NoAddr /\ ~put.full
    /\ put.old # NoAddr => /\ put.old \in Addrs(sec) /\ Kv(sec, put.old).key = put.key
                           /\ Kv(sec, put.old).st = OldStatus
                           /\ put.ret = "gc" => Kv(sec, put.old).val = put.val
    /\ Chosen \/ pc = "slot" \/ HasNew => put.dst \in Sectors
    /\ HasNew => /\ sec[put.dst].kvs # << >> /\ Kv(sec, New).key = put.key /\ Kv(sec, New).val = put.val
                 /\ Kv(sec, New).st = NewStatus /\ New # put.old
    /\ put.val \in want[put.key]

\* All other entries are valid or deleted.
StatusInv ==
    \A a \in Addrs(sec) :
        \/ Kv(sec, a).st \in {"WRITE", "DELETED"}
        \/ Putting /\ a = put.old
        \/ HasNew /\ a = New

\* The sector of a deleted entry is marked.
DirtyInv ==
    \A a \in Addrs(sec) : Kv(sec, a).st = "DELETED" =>
        sec[a[1]].dirty # "false" \/ (pc = "dirty" /\ a = put.old)

\* One entry of a key is valid.
LiveInv ==
    /\ \A a, b \in Addrs(sec) :
          Kv(sec, a).st = "WRITE" /\ Kv(sec, b).st = "WRITE" /\ Kv(sec, a).key = Kv(sec, b).key => a = b
    /\ Putting => \A a \in Addrs(sec) :
          Kv(sec, a).st = "WRITE" /\ Kv(sec, a).key = put.key => a = put.old \/ (HasNew /\ a = New)

-----------------------------------------------------------------------------
(* The address cache: an entry at the address of its key is valid.         *)

Leaving(a) ==
    /\ Putting /\ a = put.old
    /\ pc \in {"predirty", "move", "status", "slot", "data"} \/ (pc = "write" /\ put.ret = "gc")
CacheInv ==
    /\ cache = [k \in Keys |-> cache[k]]
    /\ \A k \in Keys : cache[k] = NoAddr \/ (cache[k] = <<cache[k][1], cache[k][2]>> /\ cache[k][1] \in Sectors)
    /\ \A a \in Addrs(sec) :
          cache[Kv(sec, a).key] = <<a[1], Kv(sec, a).at>> =>
             \/ Kv(sec, a).st \in {"NONE", "WRITE"} \/ Leaving(a)
             \/ pc = "write" /\ a = New
    /\ (pc = "write" /\ put.ret \in {"set", "def"}) \/ (pc = "delete" /\ put.ret \in {"set", "gc"}) =>
          cache[put.key] = <<put.dst, Kv(sec, New).at>>

-----------------------------------------------------------------------------
(* The room in the sectors.                                                *)

RoomInv ==
    /\ \A s \in Sectors : LayoutOK(sec[s].kvs) /\ Unwritten(sec[s])
    /\ \A s \in Sectors : sec[s].store = "using" =>
          /\ sec[s].kvs # << >> \/ (pc = "slot" /\ s = put.dst)
          /\ Len(sec[s].kvs) >= 2 => Top(sec[s].kvs) + Threshold <= Cap
    /\ Chosen => sec[put.dst].store \in {"using", "empty"} /\ Top(sec[put.dst].kvs) + Size[put.val] < Cap
    /\ pc = "slot" =>
          LET h == sec[put.dst] IN
          /\ h.store \in {"using", "full"} /\ Top(h.kvs) + Size[put.val] < Cap
          /\ Len(h.kvs) >= 2 => Top(h.kvs) + Threshold <= Cap
          /\ h.store = "using" /\ h.kvs # << >> => Top(h.kvs) + Size[put.val] + Threshold <= Cap

-----------------------------------------------------------------------------
(* What a key may read as.                                                 *)

Held(st) == st \in {"WRITE", "PRE_DELETE"}
WantInv ==
    /\ \A a \in Addrs(sec) : Held(Kv(sec, a).st) => Kv(sec, a).val \in want[Kv(sec, a).key]
    /\ \A k \in Keys : None \in want[k] \/ \E a \in Addrs(sec) : Kv(sec, a).key = k /\ Held(Kv(sec, a).st)

-----------------------------------------------------------------------------
(* gc_collect, and the sector it needs.                                    *)

\* A sector that takes what is left of the one being collected, from place n on.
Takes(e, n) ==
    /\ e # gcs[1] /\ sec[e].store = "using" /\ sec[e].dirty = "false"
    /\ Top(sec[e].kvs) + (IF pc = "slot" /\ e = put.dst THEN Size[put.val] ELSE 0) <= n
Emptied == IF gcs[2] = 0 THEN 0 ELSE EndOf(Kv(sec, gcs))

SpareInv ==
    /\ pc \in {"idle", "gc", "gcsector", "new", "default"} \/ Booting => Empties # {}
    /\ Putting /\ put.ret # "gc" =>
          IF Chosen THEN \E e \in Empties : e # put.dst ELSE Empties # {}
    /\ Collecting /\ pc \in {"predelete", "predirty", "move", "status"} =>
          Empties # {} \/ \E e \in Sectors : Takes(e, Kv(sec, gcs).at)
    /\ Collecting /\ pc \in {"slot", "data", "write", "delete", "dirty", "done", "gckv"} =>
          Empties # {} \/ (\E e \in Sectors : Takes(e, Emptied)) \/ gcs[2] = Len(sec[gcs[1]].kvs)

GcInv ==
    /\ ~Collecting => gcs = <<0, 0>>
    /\ Collecting =>
         /\ gcs = <<gcs[1], gcs[2]>> /\ gcs[2] \in Nat
         /\ gcs[1] \in (IF pc = "gcsector" THEN 0 .. S ELSE Sectors)
         /\ \A s \in Sectors : s < gcs[1] \/ (pc = "gcsector" /\ s = gcs[1]) => sec[s].dirty = "false"
    /\ Collecting /\ pc \notin {"gcsector", "format"} =>
         /\ sec[gcs[1]].dirty = "gc" /\ gcs[2] <= Len(sec[gcs[1]].kvs)
         /\ \A a \in Addrs(sec) : a[1] = gcs[1] /\ (a[2] <= gcs[2] \/ pc = "erase") =>
               Kv(sec, a).st = "DELETED" \/ (Putting /\ a = put.old)
    /\ Collecting /\ Putting => put.old = gcs /\ (pc \notin {"predelete", "predirty", "move"} => put.dst # gcs[1])
    /\ Collecting /\ pc = "status" => sec[put.dst].dirty = "false"
    /\ pc = "format" => sec[gcs[1]] = Bad
    /\ pc = "gc" /\ ret = "new" => Cardinality(Empties) <= 1
    /\ pc = "new" /\ already_gc => \A s \in Sectors : sec[s].dirty = "false"

-----------------------------------------------------------------------------
(* Formatting, the defaults and the start.                                 *)

Undecided == \A k \in Keys : None \in want[k] /\ Default(k) \in want[k]
WipeInv ==
    Wiping =>
    /\ cur = <<cur[1], cur[2]>> /\ cur[1] \in Sectors /\ Undecided
    /\ \A s \in Sectors : s < cur[1] => sec[s] = Clean
    /\ pc = "wiped" => sec[cur[1]] = Bad

\* The defaults that are in the first sector.
Written == IF pc = "default" \/ HasNew THEN cur[1] - 1 ELSE cur[1] - 2
DefaultInv ==
    Defaulting =>
    /\ cur = <<cur[1], cur[2]>> /\ cur[1] \in 1 .. Len(Defaults) + 1 /\ Undecided
    /\ pc = "default" \/ cur[1] >= 2
    /\ pc = "new" => op.key = Defaults[cur[1] - 1].key /\ op.val = Defaults[cur[1] - 1].val
    /\ Putting => /\ put.key = Defaults[cur[1] - 1].key /\ put.val = Defaults[cur[1] - 1].val
                  /\ Chosen \/ pc = "slot" \/ HasNew => put.dst = 1
    /\ \A s \in Sectors \ {1} : sec[s] = Clean
    /\ sec[1].dirty = "false"
    /\ sec[1].store = IF Written = 0 /\ pc # "slot" THEN "empty" ELSE "using"
    /\ Len(sec[1].kvs) = Written
    /\ \A i \in 1 .. Written :
         LET e == sec[1].kvs[i] IN e.key = Defaults[i].key /\ e.val = Defaults[i].val /\ e.at = Place[i]

BootInv ==
    /\ pc = "off" => /\ \A s \in Sectors : sec[s] = IF Start = "blank" THEN Bad ELSE Clean
                     /\ Start = "blank" => Undecided
    /\ pc = "headers" => /\ \A s \in Sectors : sec[s] = Clean \/ (op.ret = "blank" /\ sec[s] = Bad)
                         /\ op.ret = "blank" => Undecided
                         /\ cur = <<1, 0>> /\ in_recovery_check
    /\ Booting => /\ \A s \in Sectors : sec[s].dirty = "false"
                  /\ cur = <<cur[1], cur[2]>> /\ cur[1] \in Nat \ {0} /\ cur[2] \in Nat

Inv ==
    /\ FlashOK(sec) /\ ControlInv /\ PutInv /\ StatusInv /\ DirtyInv /\ LiveInv /\ CacheInv
    /\ RoomInv /\ WantInv /\ SpareInv /\ GcInv /\ WipeInv /\ DefaultInv /\ BootInv
-----------------------------------------------------------------------------
(* Least elements.                                                         *)

LEMMA LeastNatural ==
    ASSUME NEW T \in SUBSET Nat, T # {}
    PROVE  \E m \in T : \A k \in T : m <= k
  <1> DEFINE R == OpToRel(<, Nat)
  <1>1. IsWellFoundedOn(R, Nat)
    BY NatLessThanWellFounded
  <1>2. PICK m \in T : \A k \in T : ~(<<k, m>> \in R)
    <2> HIDE DEF R
    <2> QED BY <1>1, WFMin
  <1>3. \A k \in T : ~(k < m)
    BY <1>2 DEF OpToRel
  <1> QED BY <1>3

LEMMA MinIs ==
    ASSUME NEW T \in SUBSET Nat, T # {}
    PROVE  Min(T) \in T /\ \A k \in T : Min(T) <= k
  <1>1. \E m \in T : \A k \in T : m <= k
    BY LeastNatural
  <1> QED BY <1>1 DEF Min

\* Of a set of addresses there is a first one.
LEMMA FirstIs ==
    ASSUME NEW A \in SUBSET (Nat \X Nat), A # {}
    PROVE  First(A) \in A /\ \A b \in A \ {First(A)} : Before(First(A), b)
  <1> DEFINE X == {a[1] : a \in A}
  <1>1. X \in SUBSET Nat /\ X # {}
    OBVIOUS
  <1>2. PICK x \in X : \A k \in X : x <= k
    BY <1>1, LeastNatural
  <1> DEFINE Y == {n \in Nat : <<x, n>> \in A}
  <1>3. Y \in SUBSET Nat /\ Y # {}
    <2>1. PICK a \in A : a[1] = x
      OBVIOUS
    <2>2. a = <<a[1], a[2]>> /\ a[2] \in Nat
      OBVIOUS
    <2>3. a[2] \in Y
      BY <2>1, <2>2
    <2> QED BY <2>3
  <1>4. PICK y \in Y : \A k \in Y : y <= k
    BY <1>3, LeastNatural
  <1>5. ASSUME NEW b \in A \ {<<x, y>>} PROVE Before(<<x, y>>, b)
    <2>1. b = <<b[1], b[2]>> /\ b[1] \in X /\ b[1] \in Nat /\ b[2] \in Nat /\ x \in Nat /\ y \in Nat
      BY <1>1
    <2>2. x <= b[1]
      BY <1>2, <2>1
    <2>3. CASE b[1] = x
      <3>1. b[2] \in Y
        BY <2>1, <2>3
      <3>2. y <= b[2] /\ b[2] # y
        BY <1>4, <3>1, <2>1, <2>3, <1>5
      <3> QED BY <3>2, <2>1, <2>3 DEF Before
    <2> QED BY <2>1, <2>2, <2>3 DEF Before
  <1>6. <<x, y>> \in A
    OBVIOUS
  <1> QED BY <1>5, <1>6 DEF First

-----------------------------------------------------------------------------
(* What the writes do to a flash.                                          *)

LEMMA Consts ==
    /\ S \in Nat /\ S >= 2 /\ Hdr \in Nat /\ Hdr > 0 /\ Cap \in Nat /\ Cap > 0 /\ Threshold \in Nat
    /\ \A v \in Values : Size[v] \in Nat /\ Size[v] > Hdr /\ Size[v] < Cap
    /\ None \notin Values /\ None \notin Keys /\ Writes \subseteq Keys \X Values
    /\ MaxCrashes \in Nat /\ Len(Defaults) \in Nat
    /\ \A i \in 1 .. Len(Defaults) : Defaults[i].key \in Keys /\ Defaults[i].val \in Values
  <1>1. S \in Nat /\ S >= 2 /\ Hdr \in Nat /\ Hdr > 0 /\ MaxCrashes \in Nat
    BY SectorAssumption, StartAssumption
  <1>2. /\ Cap \in Nat /\ Cap > 0 /\ Threshold \in Nat
        /\ \A v \in Values : Size[v] \in Nat /\ Size[v] > Hdr /\ Size[v] < Cap
    BY SizeAssumption
  <1>3. None \notin Values /\ None \notin Keys /\ Writes \subseteq Keys \X Values
    BY ValueAssumption
  <1>4. Len(Defaults) \in Nat /\ \A i \in 1 .. Len(Defaults) : Defaults[i] \in [key : Keys, val : Values]
    BY DefaultAssumption, LenProperties, ElementOfSeq
  <1>5. \A i \in 1 .. Len(Defaults) : Defaults[i].key \in Keys /\ Defaults[i].val \in Values
    BY <1>4
  <1> QED BY <1>1, <1>2, <1>3, <1>4, <1>5

LEMMA AddrsIs ==
    ASSUME NEW f
    PROVE  /\ \A a \in Addrs(f) : a = <<a[1], a[2]>> /\ a[1] \in Sectors /\ a[2] \in 1 .. Len(f[a[1]].kvs)
           /\ \A s \in Sectors : \A i : i \in 1 .. Len(f[s].kvs) => <<s, i>> \in Addrs(f)
  BY DEF Addrs

LEMMA InAddrs ==
    ASSUME NEW f, NEW b, b = <<b[1], b[2]>>, b[1] \in Sectors, b[2] \in 1 .. Len(f[b[1]].kvs)
    PROVE  b \in Addrs(f)
  BY DEF Addrs

LEMMA SectorKvs ==
    ASSUME NEW f, FlashOK(f), NEW s \in Sectors
    PROVE  /\ f[s].kvs \in Seq(KvEntries) /\ Len(f[s].kvs) \in Nat /\ s \in Nat
           /\ \A i \in 1 .. Len(f[s].kvs) : f[s].kvs[i] \in KvEntries
           /\ f[s].kvs = << >> <=> Len(f[s].kvs) = 0
  BY Consts DEF FlashOK, SectorOK, Sectors

LEMMA KvType ==
    ASSUME NEW f, FlashOK(f), NEW a \in Addrs(f)
    PROVE  /\ Kv(f, a) \in KvEntries /\ Kv(f, a).key \in Keys /\ Kv(f, a).val \in Values
           /\ Kv(f, a).st \in Statuses /\ Kv(f, a).at \in Nat /\ EndOf(Kv(f, a)) \in Nat
           /\ EndOf(Kv(f, a)) > Kv(f, a).at
           /\ Kv(f, a) = [key |-> Kv(f, a).key, val |-> Kv(f, a).val, st |-> Kv(f, a).st, at |-> Kv(f, a).at]
           /\ a = <<a[1], a[2]>> /\ a[1] \in Sectors /\ a[1] \in Nat /\ a[2] \in Nat
           /\ a[2] \in 1 .. Len(f[a[1]].kvs) /\ Len(f[a[1]].kvs) \in Nat
  <1>1. a = <<a[1], a[2]>> /\ a[1] \in Sectors /\ a[2] \in 1 .. Len(f[a[1]].kvs)
    BY AddrsIs
  <1>2. Len(f[a[1]].kvs) \in Nat /\ a[1] \in Nat /\ Kv(f, a) \in KvEntries
    BY <1>1, SectorKvs DEF Kv
  <1> QED BY <1>1, <1>2, Consts DEF KvEntries, EndOf

\* A sector and its entries.
LEMMA InSector ==
    ASSUME NEW f, FlashOK(f), NEW s \in Sectors, NEW i \in 1 .. Len(f[s].kvs)
    PROVE  <<s, i>> \in Addrs(f) /\ Kv(f, <<s, i>>) = f[s].kvs[i]
  BY AddrsIs DEF Kv

\* One status, one new entry, the header or the whole of a sector is written.
StatusWrite(f, g, a, st) == g = [f EXCEPT ![a[1]].kvs[a[2]].st = st]
EntryWrite(f, g, s, e) == g = [f EXCEPT ![s].kvs = Append(@, e)]
StoreWrite(f, g, s, x) == g = [f EXCEPT ![s].store = x]
DirtyWrite(f, g, s, d) == g = [f EXCEPT ![s].dirty = d]
SectorWrite(f, g, s, h) == g = [f EXCEPT ![s] = h]

\* A write of one status.
LEMMA StatusFrame ==
    ASSUME NEW f, FlashOK(f), NEW a \in Addrs(f), NEW st \in Statuses,
           NEW g, StatusWrite(f, g, a, st)
    PROVE  /\ FlashOK(g) /\ Addrs(g) = Addrs(f)
           /\ \A s \in Sectors : g[s].store = f[s].store /\ g[s].dirty = f[s].dirty /\ Len(g[s].kvs) = Len(f[s].kvs)
           /\ \A b \in Addrs(f) : /\ Kv(g, b).key = Kv(f, b).key /\ Kv(g, b).val = Kv(f, b).val
                                  /\ Kv(g, b).at = Kv(f, b).at /\ EndOf(Kv(g, b)) = EndOf(Kv(f, b))
                                  /\ Kv(g, b).st = IF b = a THEN st ELSE Kv(f, b).st
           /\ \A s \in Sectors : s # a[1] => g[s] = f[s]
  <1>0. g = [f EXCEPT ![a[1]].kvs[a[2]].st = st]
    BY DEF StatusWrite
  <1> DEFINE x == a[1]
             n == a[2]
             e == [f[x].kvs[n] EXCEPT !.st = st]
             h == [f[x] EXCEPT !.kvs = [f[x].kvs EXCEPT ![n] = e]]
  <1>1. x \in Sectors /\ n \in 1 .. Len(f[x].kvs) /\ a = <<x, n>> /\ f[x].kvs[n] \in KvEntries
    BY KvType DEF Kv
  <1>2. /\ e \in KvEntries /\ e.st = st /\ e.key = f[x].kvs[n].key /\ e.val = f[x].kvs[n].val
        /\ e.at = f[x].kvs[n].at
    BY <1>1 DEF KvEntries
  <1>3. f[x].kvs \in Seq(KvEntries) /\ SectorOK(f[x]) /\ f = [s \in Sectors |-> f[s]]
    BY <1>1, SectorKvs DEF FlashOK
  <1>4. /\ [f[x].kvs EXCEPT ![n] = e] \in Seq(KvEntries) /\ Len([f[x].kvs EXCEPT ![n] = e]) = Len(f[x].kvs)
        /\ \A i \in 1 .. Len(f[x].kvs) : [f[x].kvs EXCEPT ![n] = e][i] = IF i = n THEN e ELSE f[x].kvs[i]
    <2> HIDE DEF e
    <2> QED BY <1>1, <1>2, <1>3
  <1>5. g = [f EXCEPT ![x] = h]
    BY <1>0
  <1>6. /\ h.store = f[x].store /\ h.dirty = f[x].dirty /\ h.kvs = [f[x].kvs EXCEPT ![n] = e] /\ SectorOK(h)
    <2>1. f[x] = [store |-> f[x].store, dirty |-> f[x].dirty, kvs |-> f[x].kvs]
      BY <1>3 DEF SectorOK
    <2>2. h = [store |-> f[x].store, dirty |-> f[x].dirty, kvs |-> [f[x].kvs EXCEPT ![n] = e]]
      BY <2>1
    <2> HIDE DEF h, e
    <2> QED BY <2>2, <1>3, <1>4 DEF SectorOK
  <1> HIDE DEF h, e
  <1>7. g[x] = h /\ (\A s \in Sectors : s # x => g[s] = f[s]) /\ g = [s \in Sectors |-> g[s]]
    BY <1>1, <1>3, <1>5
  <1>8. FlashOK(g)
    BY <1>6, <1>7 DEF FlashOK
  <1>9. \A s \in Sectors : g[s].store = f[s].store /\ g[s].dirty = f[s].dirty /\ Len(g[s].kvs) = Len(f[s].kvs)
    BY <1>4, <1>6, <1>7
  <1>10. Addrs(g) = Addrs(f)
    BY <1>9 DEF Addrs
  <1>11. ASSUME NEW b \in Addrs(f)
         PROVE  /\ Kv(g, b).key = Kv(f, b).key /\ Kv(g, b).val = Kv(f, b).val
                /\ Kv(g, b).at = Kv(f, b).at /\ Kv(g, b).st = IF b = a THEN st ELSE Kv(f, b).st
    <2>1. b = <<b[1], b[2]>> /\ b[1] \in Sectors /\ b[2] \in 1 .. Len(f[b[1]].kvs)
      BY KvType
    <2>2. CASE b[1] # x
      BY <2>1, <2>2, <1>7, <1>1 DEF Kv
    <2>3. CASE b[1] = x /\ b[2] # n
      BY <2>1, <2>3, <1>1, <1>4, <1>6, <1>7 DEF Kv
    <2>4. CASE b[1] = x /\ b[2] = n
      <3>1. b = a
        BY <2>1, <2>4, <1>1
      <3>2. Kv(g, b) = e /\ Kv(f, b) = f[x].kvs[n]
        BY <2>4, <1>1, <1>4, <1>6, <1>7 DEF Kv
      <3> QED BY <3>1, <3>2, <1>2
    <2> QED BY <2>2, <2>3, <2>4
  <1> QED BY <1>1, <1>7, <1>8, <1>9, <1>10, <1>11 DEF EndOf

\* A new entry at the end of a sector.
LEMMA AppendFrame ==
    ASSUME NEW f, FlashOK(f), NEW s \in Sectors, NEW e \in KvEntries,
           NEW g, EntryWrite(f, g, s, e)
    PROVE  LET n == <<s, Len(f[s].kvs) + 1>> IN
           /\ FlashOK(g) /\ Addrs(g) = Addrs(f) \cup {n} /\ n \notin Addrs(f) /\ Kv(g, n) = e
           /\ \A t \in Sectors : g[t].store = f[t].store /\ g[t].dirty = f[t].dirty
           /\ \A t \in Sectors : t # s => g[t] = f[t]
           /\ g[s].kvs = Append(f[s].kvs, e) /\ Len(g[s].kvs) = Len(f[s].kvs) + 1
           /\ \A b \in Addrs(f) : Kv(g, b) = Kv(f, b)
  <1>0. g = [f EXCEPT ![s].kvs = Append(@, e)]
    BY DEF EntryWrite
  <1> DEFINE es == f[s].kvs
             fs == Append(es, e)
             h == [f[s] EXCEPT !.kvs = fs]
             n == <<s, Len(es) + 1>>
  <1>1. es \in Seq(KvEntries) /\ Len(es) \in Nat /\ SectorOK(f[s]) /\ f = [t \in Sectors |-> f[t]]
    BY SectorKvs DEF FlashOK
  <1>2. /\ fs \in Seq(KvEntries) /\ Len(fs) = Len(es) + 1 /\ fs[Len(es) + 1] = e
        /\ \A i \in 1 .. Len(es) : fs[i] = es[i]
    BY <1>1
  <1> HIDE DEF fs
  <1>3. h = [store |-> f[s].store, dirty |-> f[s].dirty, kvs |-> fs]
    BY <1>1 DEF SectorOK
  <1>4. g = [f EXCEPT ![s] = h]
    BY <1>0 DEF fs
  <1>5. SectorOK(h) /\ h.kvs = fs /\ h.store = f[s].store /\ h.dirty = f[s].dirty
    <2> HIDE DEF h
    <2> QED BY <1>1, <1>2, <1>3 DEF SectorOK
  <1> HIDE DEF h
  <1>6. g[s] = h /\ (\A t \in Sectors : t # s => g[t] = f[t]) /\ g = [t \in Sectors |-> g[t]]
    BY <1>1, <1>4
  <1>7. FlashOK(g)
    BY <1>5, <1>6 DEF FlashOK
  <1>8. n \notin Addrs(f) /\ n \in Addrs(g) /\ Kv(g, n) = e
    <2>1. n[2] \notin 1 .. Len(f[n[1]].kvs) /\ n[2] \in 1 .. Len(g[n[1]].kvs)
      BY <1>1, <1>2, <1>5, <1>6
    <2> QED BY <2>1, AddrsIs, <1>2, <1>5, <1>6 DEF Kv
  <1>9. ASSUME NEW b \in Addrs(f) PROVE b \in Addrs(g) /\ Kv(g, b) = Kv(f, b)
    <2>1. b = <<b[1], b[2]>> /\ b[1] \in Sectors /\ b[2] \in 1 .. Len(f[b[1]].kvs)
      BY AddrsIs
    <2>2. b[2] \in 1 .. Len(g[b[1]].kvs)
      BY <2>1, <1>1, <1>2, <1>5, <1>6
    <2>3. b \in Addrs(g)
      BY <2>1, <2>2, InAddrs
    <2> QED BY <2>1, <2>3, <1>2, <1>5, <1>6 DEF Kv
  <1>10. ASSUME NEW b \in Addrs(g), b # n PROVE b \in Addrs(f)
    <2>1. b = <<b[1], b[2]>> /\ b[1] \in Sectors /\ b[2] \in 1 .. Len(g[b[1]].kvs)
      BY AddrsIs
    <2>2. b[2] \in 1 .. Len(f[b[1]].kvs)
      BY <2>1, <1>1, <1>2, <1>5, <1>6, <1>10
    <2> QED BY <2>1, <2>2, AddrsIs
  <1>11. Addrs(g) = Addrs(f) \cup {n}
    BY <1>8, <1>9, <1>10
  <1> QED BY <1>2, <1>5, <1>6, <1>7, <1>8, <1>9, <1>11 DEF fs

\* A write of a sector's header.
LEMMA HeaderFrame ==
    ASSUME NEW f, NEW g, \A t \in Sectors : g[t].kvs = f[t].kvs
    PROVE  Addrs(g) = Addrs(f) /\ \A b \in Addrs(f) : Kv(g, b) = Kv(f, b)
  <1>1. Addrs(g) = Addrs(f)
    <2>1. \A t \in Sectors : {<<t, i>> : i \in 1 .. Len(g[t].kvs)} = {<<t, i>> : i \in 1 .. Len(f[t].kvs)}
      OBVIOUS
    <2> QED BY <2>1 DEF Addrs
  <1>2. \A b \in Addrs(f) : Kv(g, b) = Kv(f, b)
    BY AddrsIs DEF Kv
  <1> QED BY <1>1, <1>2

LEMMA StoreFrame ==
    ASSUME NEW f, FlashOK(f), NEW s \in Sectors, NEW g, NEW x, x \in {"bad", "empty", "using", "full"},
           StoreWrite(f, g, s, x)
    PROVE  /\ FlashOK(g) /\ Addrs(g) = Addrs(f)
           /\ \A t \in Sectors : g[t].kvs = f[t].kvs /\ g[t].dirty = f[t].dirty
           /\ \A t \in Sectors : t # s => g[t] = f[t]
           /\ g[s].store = x
           /\ \A b \in Addrs(f) : Kv(g, b) = Kv(f, b)
  <1>0. g = [f EXCEPT ![s].store = x]
    BY DEF StoreWrite
  <1> DEFINE h == [f[s] EXCEPT !.store = x]
  <1>1. SectorOK(f[s])
    BY DEF FlashOK
  <1>2. f[s] = [store |-> f[s].store, dirty |-> f[s].dirty, kvs |-> f[s].kvs]
    BY <1>1 DEF SectorOK
  <1>3. SectorOK(h) /\ h.kvs = f[s].kvs /\ h.store = x /\ h.dirty = f[s].dirty
    BY <1>1, <1>2 DEF SectorOK
  <1>4. g = [f EXCEPT ![s] = h]
    BY <1>0
  <1>5. g[s] = h /\ (\A t \in Sectors : t # s => g[t] = f[t]) /\ g = [t \in Sectors |-> g[t]]
    BY <1>4 DEF FlashOK
  <1> HIDE DEF h
  <1>6. FlashOK(g) /\ \A t \in Sectors : g[t].kvs = f[t].kvs
    BY <1>3, <1>5 DEF FlashOK
  <1>7. Addrs(g) = Addrs(f) /\ \A b \in Addrs(f) : Kv(g, b) = Kv(f, b)
    BY <1>6, HeaderFrame, Zenon
  <1> QED BY <1>3, <1>5, <1>6, <1>7

LEMMA DirtyFrame ==
    ASSUME NEW f, FlashOK(f), NEW s \in Sectors, NEW g, NEW d, d \in {"false", "true", "gc"},
           DirtyWrite(f, g, s, d)
    PROVE  /\ FlashOK(g) /\ Addrs(g) = Addrs(f)
           /\ \A t \in Sectors : g[t].kvs = f[t].kvs /\ g[t].store = f[t].store
           /\ \A t \in Sectors : t # s => g[t] = f[t]
           /\ g[s].dirty = d
           /\ \A b \in Addrs(f) : Kv(g, b) = Kv(f, b)
  <1>0. g = [f EXCEPT ![s].dirty = d]
    BY DEF DirtyWrite
  <1> DEFINE h == [f[s] EXCEPT !.dirty = d]
  <1>1. SectorOK(f[s])
    BY DEF FlashOK
  <1>2. f[s] = [store |-> f[s].store, dirty |-> f[s].dirty, kvs |-> f[s].kvs]
    BY <1>1 DEF SectorOK
  <1>3. SectorOK(h) /\ h.kvs = f[s].kvs /\ h.dirty = d /\ h.store = f[s].store
    BY <1>1, <1>2 DEF SectorOK
  <1>4. g = [f EXCEPT ![s] = h]
    BY <1>0
  <1>5. g[s] = h /\ (\A t \in Sectors : t # s => g[t] = f[t]) /\ g = [t \in Sectors |-> g[t]]
    BY <1>4 DEF FlashOK
  <1> HIDE DEF h
  <1>6. FlashOK(g) /\ \A t \in Sectors : g[t].kvs = f[t].kvs
    BY <1>3, <1>5 DEF FlashOK
  <1>7. Addrs(g) = Addrs(f) /\ \A b \in Addrs(f) : Kv(g, b) = Kv(f, b)
    BY <1>6, HeaderFrame, Zenon
  <1> QED BY <1>3, <1>5, <1>6, <1>7

\* A sector erased or formatted.
LEMMA ReplaceFrame ==
    ASSUME NEW f, FlashOK(f), NEW s \in Sectors, NEW h, SectorOK(h), h.kvs = << >>,
           NEW g, SectorWrite(f, g, s, h)
    PROVE  /\ FlashOK(g) /\ Addrs(g) \subseteq Addrs(f)
           /\ \A t \in Sectors : t # s => g[t] = f[t]
           /\ g[s] = h
           /\ \A b \in Addrs(g) : Kv(g, b) = Kv(f, b) /\ b[1] # s
           /\ \A b \in Addrs(f) : b[1] # s => b \in Addrs(g)
  <1>0. g = [f EXCEPT ![s] = h]
    BY DEF SectorWrite
  <1>1. f = [t \in Sectors |-> f[t]]
    BY DEF FlashOK
  <1>2. g[s] = h /\ (\A t \in Sectors : t # s => g[t] = f[t]) /\ g = [t \in Sectors |-> g[t]]
    BY <1>0, <1>1
  <1>3. FlashOK(g)
    BY <1>2 DEF FlashOK
  <1>4. ASSUME NEW b \in Addrs(g) PROVE b \in Addrs(f) /\ Kv(g, b) = Kv(f, b) /\ b[1] # s
    <2>1. b = <<b[1], b[2]>> /\ b[1] \in Sectors /\ b[2] \in 1 .. Len(g[b[1]].kvs)
      BY AddrsIs
    <2>2. b[1] # s
      BY <2>1, <1>2
    <2> QED BY <2>1, <2>2, <1>2, AddrsIs DEF Kv
  <1>5. ASSUME NEW b \in Addrs(f), b[1] # s PROVE b \in Addrs(g)
    <2>1. b = <<b[1], b[2]>> /\ b[1] \in Sectors /\ b[2] \in 1 .. Len(f[b[1]].kvs)
      BY AddrsIs
    <2> QED BY <2>1, <1>5, <1>2, InAddrs
  <1> QED BY <1>2, <1>3, <1>4, <1>5

-----------------------------------------------------------------------------
(* The layout of a sector.                                                 *)

LEMMA EndType ==
    ASSUME NEW e \in KvEntries
    PROVE  e.at \in Nat /\ Size[e.val] \in Nat /\ Size[e.val] > 0 /\ EndOf(e) \in Nat /\ EndOf(e) > e.at
  BY Consts DEF KvEntries, EndOf

LEMMA TopType ==
    ASSUME NEW es \in Seq(KvEntries), LayoutOK(es)
    PROVE  /\ Top(es) \in Nat /\ Top(es) < Cap /\ (Top(es) = 0 <=> es = << >>)
           /\ \A i \in 1 .. Len(es) : EndOf(es[i]) <= Top(es)
  <1>1. CASE es = << >>
    BY <1>1, Consts DEF Top
  <1>2. CASE es # << >>
    <2>1. Len(es) \in 1 .. Len(es) /\ Len(es) \in Nat /\ es[Len(es)] \in KvEntries
      BY <1>2
    <2>2. Top(es) = EndOf(es[Len(es)]) /\ Top(es) < Cap
      BY <1>2, <2>1 DEF Top, LayoutOK
    <2>3. ASSUME NEW i \in 1 .. Len(es) PROVE EndOf(es[i]) <= Top(es)
      <3>1. CASE i = Len(es)
        BY <3>1, <2>1, <2>2, EndType
      <3>2. CASE i # Len(es)
        <4>1. i \in 1 .. Len(es) - 1 /\ es[i] \in KvEntries
          BY <2>1, <3>2
        <4>2. EndOf(es[i]) <= es[Len(es)].at
          BY <2>1, <4>1 DEF LayoutOK
        <4> QED BY <4>1, <4>2, <2>1, <2>2, EndType
      <3> QED BY <3>1, <3>2
    <2> QED BY <1>2, <2>1, <2>2, <2>3, EndType
  <1> QED BY <1>1, <1>2

\* Entries of the same sizes at the same places.
LEMMA SameLayout ==
    ASSUME NEW es \in Seq(KvEntries), NEW fs \in Seq(KvEntries), Len(fs) = Len(es),
           \A i \in 1 .. Len(es) : fs[i].at = es[i].at /\ fs[i].val = es[i].val
    PROVE  Top(fs) = Top(es) /\ (LayoutOK(es) => LayoutOK(fs))
  <1>1. Len(es) \in Nat /\ (es = << >> <=> Len(es) = 0) /\ (fs = << >> <=> Len(es) = 0)
    OBVIOUS
  <1>2. \A i \in 1 .. Len(es) : EndOf(fs[i]) = EndOf(es[i])
    BY DEF EndOf
  <1>3. Top(fs) = Top(es)
    BY <1>1, <1>2 DEF Top
  <1>4. ASSUME LayoutOK(es) PROVE LayoutOK(fs)
    <2>1. fs # << >> => fs[1].at = 0
      BY <1>1, <1>4 DEF LayoutOK
    <2>2. ASSUME NEW j \in 1 .. Len(fs)
          PROVE  /\ EndOf(fs[j]) < Cap /\ (j >= 3 => fs[j].at + Threshold <= Cap)
                 /\ \A i \in 1 .. j - 1 : EndOf(fs[i]) <= fs[j].at
      <3>1. \A i \in 1 .. j - 1 : i \in 1 .. Len(es)
        BY <1>1
      <3> QED BY <1>1, <1>2, <1>4, <3>1 DEF LayoutOK
    <2> QED BY <2>1, <2>2 DEF LayoutOK
  <1> QED BY <1>3, <1>4

\* An entry behind the last one.
LEMMA AppendLayout ==
    ASSUME NEW es \in Seq(KvEntries), LayoutOK(es), NEW e \in KvEntries, e.at = Top(es),
           Top(es) + Size[e.val] < Cap, Len(es) >= 2 => Top(es) + Threshold <= Cap
    PROVE  LayoutOK(Append(es, e)) /\ Top(Append(es, e)) = Top(es) + Size[e.val]
  <1> DEFINE fs == Append(es, e)
             n == Len(es)
  <1>1. fs \in Seq(KvEntries) /\ n \in Nat /\ Len(fs) = n + 1 /\ fs[n + 1] = e /\ \A i \in 1 .. n : fs[i] = es[i]
    OBVIOUS
  <1>2. fs # << >> /\ (es = << >> <=> n = 0)
    BY <1>1
  <1> HIDE DEF fs
  <1>3. Top(fs) = Top(es) + Size[e.val] /\ EndOf(e) = Top(es) + Size[e.val]
    BY <1>1, <1>2 DEF Top, EndOf
  <1>4. fs[1].at = 0
    <2>1. CASE n = 0
      BY <2>1, <1>1, <1>2 DEF Top
    <2>2. CASE n # 0
      BY <2>2, <1>1, <1>2 DEF LayoutOK
    <2> QED BY <2>1, <2>2
  <1>5. ASSUME NEW j \in 1 .. n + 1
        PROVE  /\ EndOf(fs[j]) < Cap /\ (j >= 3 => fs[j].at + Threshold <= Cap)
               /\ \A i \in 1 .. j - 1 : EndOf(fs[i]) <= fs[j].at
    <2>1. CASE j = n + 1
      <3>1. EndOf(fs[j]) < Cap /\ (j >= 3 => fs[j].at + Threshold <= Cap)
        BY <2>1, <1>1, <1>3, Consts
      <3>2. \A i \in 1 .. n : EndOf(fs[i]) <= Top(es)
        BY <1>1, TopType
      <3> QED BY <2>1, <1>1, <3>1, <3>2
    <2>2. CASE j # n + 1
      <3>1. j \in 1 .. n /\ \A i \in 1 .. j - 1 : i \in 1 .. n
        BY <2>2, <1>1
      <3> QED BY <3>1, <1>1 DEF LayoutOK
    <2> QED BY <2>1, <2>2
  <1>6. LayoutOK(fs)
    BY <1>1, <1>4, <1>5 DEF LayoutOK
  <1> QED BY <1>3, <1>6 DEF fs

\* Two entries of a sector have two addresses.
LEMMA OtherPlace ==
    ASSUME NEW f, FlashOK(f), NEW a \in Addrs(f), NEW b \in Addrs(f), a[1] = b[1], LayoutOK(f[a[1]].kvs),
           Kv(f, a).at = Kv(f, b).at
    PROVE  a = b
  <1> DEFINE es == f[a[1]].kvs
  <1>1. /\ a = <<a[1], a[2]>> /\ b = <<a[1], b[2]>> /\ a[2] \in 1 .. Len(es) /\ b[2] \in 1 .. Len(es)
        /\ Len(es) \in Nat /\ Kv(f, a) = es[a[2]] /\ Kv(f, b) = es[b[2]]
        /\ EndOf(Kv(f, a)) > Kv(f, a).at /\ EndOf(Kv(f, b)) > Kv(f, b).at
        /\ EndOf(Kv(f, a)) \in Nat /\ EndOf(Kv(f, b)) \in Nat /\ Kv(f, a).at \in Nat /\ Kv(f, b).at \in Nat
    BY KvType DEF Kv
  <1>2. CASE a[2] < b[2]
    <2>1. a[2] \in 1 .. b[2] - 1
      BY <1>1, <1>2
    <2>2. EndOf(es[a[2]]) <= es[b[2]].at
      BY <1>1, <2>1 DEF LayoutOK
    <2> QED BY <1>1, <2>2
  <1>3. CASE b[2] < a[2]
    <2>1. b[2] \in 1 .. a[2] - 1
      BY <1>1, <1>3
    <2>2. EndOf(es[b[2]]) <= es[a[2]].at
      BY <1>1, <2>1 DEF LayoutOK
    <2> QED BY <1>1, <2>2
  <1>4. CASE a[2] = b[2]
    BY <1>1, <1>4
  <1> QED BY <1>1, <1>2, <1>3, <1>4

\* Where read_sector_info finds the end of the entries, none of them without its header.
LEMMA OffsetIs ==
    ASSUME FlashOK(sec), NEW s \in Sectors, LayoutOK(sec[s].kvs),
           \A i \in 1 .. Len(sec[s].kvs) : sec[s].kvs[i].st # "NONE"
    PROVE  Offset(s) = Top(sec[s].kvs) /\ Remain(s) = Cap - Top(sec[s].kvs) /\ Remain(s) \in Int
  <1> DEFINE es == sec[s].kvs
  <1>1. es \in Seq(KvEntries) /\ Len(es) \in Nat /\ (es = << >> <=> Len(es) = 0)
    BY SectorKvs
  <1>2. CASE es = << >>
    BY <1>2, Consts DEF Offset, Remain, Top
  <1>3. CASE es # << >>
    <2>1. Len(es) \in 1 .. Len(es)
      BY <1>1, <1>3
    <2>2. Last(es) = es[Len(es)] /\ es[Len(es)].st # "NONE"
      BY <2>1 DEF Last
    <2>3. Offset(s) = Top(es)
      BY <1>3, <2>2 DEF Offset, Used, Top, EndOf
    <2> QED BY <2>3, <1>1, TopType, Consts DEF Remain
  <1> QED BY <1>2, <1>3

LEMMA AllIs ==
    ASSUME FlashOK(sec)
    PROVE  /\ All = Addrs(sec)
           /\ \A a : Entry(a) = Kv(sec, a)
           /\ \A s \in Sectors : Entries(s) = {<<s, i>> : i \in 1 .. Len(sec[s].kvs)}
  <1>1. \A s \in Sectors : DOMAIN sec[s].kvs = 1 .. Len(sec[s].kvs)
    BY SectorKvs
  <1>2. \A s \in Sectors : Entries(s) = {<<s, i>> : i \in 1 .. Len(sec[s].kvs)}
    BY <1>1 DEF Entries
  <1>3. All = Addrs(sec)
    BY <1>2 DEF All, Addrs
  <1> QED BY <1>2, <1>3 DEF Entry, Kv

-----------------------------------------------------------------------------
(* alloc_kv.                                                               *)

LEMMA EmptiesFinite ==
    /\ IsFiniteSet(Empties) /\ Cardinality(Empties) \in Nat /\ Empties \subseteq Sectors
    /\ (Empties # {} <=> Cardinality(Empties) >= 1)
  <1>1. IsFiniteSet(Sectors)
    BY FS_Interval, Consts DEF Sectors
  <1>2. Empties \subseteq Sectors
    BY DEF Empties
  <1>3. IsFiniteSet(Empties) /\ Cardinality(Empties) \in Nat
    BY <1>1, <1>2, FS_Subset, FS_CardinalityType
  <1> QED BY <1>2, <1>3, FS_EmptySet

\* Of more than one empty sector, one is another one.
LEMMA OtherEmpty ==
    ASSUME Cardinality(Empties) > 1, NEW s
    PROVE  \E e \in Empties : e # s
  <1> SUFFICES ASSUME \A e \in Empties : e = s PROVE FALSE
    OBVIOUS
  <1>1. Empties \subseteq {s}
    OBVIOUS
  <1>2. IsFiniteSet({s}) /\ Cardinality({s}) = 1
    BY FS_Singleton
  <1>3. Cardinality(Empties) <= 1
    BY <1>1, <1>2, FS_Subset
  <1> QED BY <1>3, EmptiesFinite

\* The flash when alloc_kv looks at it: every entry has its header.
Settled ==
    /\ FlashOK(sec)
    /\ \A s \in Sectors : LayoutOK(sec[s].kvs) /\ Unwritten(sec[s])
    /\ \A a \in Addrs(sec) : Kv(sec, a).st # "NONE"

LEMMA SettledRemain ==
    ASSUME Settled, NEW s \in Sectors
    PROVE  /\ Offset(s) = Top(sec[s].kvs) /\ Remain(s) = Cap - Top(sec[s].kvs)
           /\ Top(sec[s].kvs) \in Nat /\ Top(sec[s].kvs) < Cap
           /\ sec[s].store = "empty" => Top(sec[s].kvs) = 0 /\ sec[s].dirty = "false"
  <1>1. \A i \in 1 .. Len(sec[s].kvs) : sec[s].kvs[i].st # "NONE"
    <2>1. ASSUME NEW i \in 1 .. Len(sec[s].kvs) PROVE sec[s].kvs[i].st # "NONE"
      BY InSector DEF Settled
    <2> QED BY <2>1
  <1>2. FlashOK(sec) /\ LayoutOK(sec[s].kvs) /\ Unwritten(sec[s]) /\ sec[s].kvs \in Seq(KvEntries)
    BY SectorKvs DEF Settled
  <1> QED BY <1>1, <1>2, OffsetIs, TopType DEF Unwritten

LEMMA RoomIs ==
    ASSUME Settled, NEW store, NEW n \in Nat
    PROVE  /\ Room(store, n) \in SUBSET Nat
           /\ \A s \in Room(store, n) :
                 /\ s \in Sectors /\ sec[s].store = store /\ Top(sec[s].kvs) + n < Cap
                 /\ gc_request => sec[s].dirty = "false"
           /\ \A s \in Sectors : sec[s].store = store /\ Top(sec[s].kvs) + n < Cap /\ sec[s].dirty = "false" => s \in Room(store, n)
  <1>1. Sectors \subseteq Nat
    BY Consts DEF Sectors
  <1>2. ASSUME NEW s \in Room(store, n)
        PROVE  /\ s \in Sectors /\ sec[s].store = store /\ Top(sec[s].kvs) + n < Cap
               /\ gc_request => sec[s].dirty = "false"
    <2>1. /\ s \in Sectors /\ sec[s].store = store /\ Remain(s) > n
          /\ sec[s].dirty = "false" \/ (sec[s].dirty = "true" /\ ~gc_request)
      BY DEF Room
    <2> QED BY <2>1, SettledRemain, Consts
  <1>3. ASSUME NEW s \in Sectors, sec[s].store = store, Top(sec[s].kvs) + n < Cap, sec[s].dirty = "false"
        PROVE  s \in Room(store, n)
    <2>1. Remain(s) > n
      BY <1>3, SettledRemain, Consts
    <2> QED BY <1>3, <2>1 DEF Room
  <1>4. Room(store, n) \subseteq Sectors
    BY <1>2
  <1> QED BY <1>1, <1>2, <1>3, <1>4

\* An empty sector has room for every value.
LEMMA EmptyRoom ==
    ASSUME Settled, NEW v \in Values, Empties # {}
    PROVE  /\ Room("empty", Size[v]) # {} /\ Room("empty", Size[v]) \subseteq Empties
           /\ Min(Room("empty", Size[v])) \in Room("empty", Size[v])
  <1>1. PICK e \in Empties : TRUE
    OBVIOUS
  <1>2. e \in Sectors /\ sec[e].store = "empty" /\ Size[v] \in Nat /\ Size[v] < Cap
    BY Consts DEF Empties
  <1>3. Top(sec[e].kvs) = 0 /\ sec[e].dirty = "false"
    BY <1>2, SettledRemain
  <1>4. e \in Room("empty", Size[v])
    BY <1>2, <1>3, RoomIs
  <1>5. Room("empty", Size[v]) \in SUBSET Nat
    BY <1>2, RoomIs
  <1>6. Min(Room("empty", Size[v])) \in Room("empty", Size[v])
    BY <1>4, <1>5, MinIs
  <1>7. Room("empty", Size[v]) \subseteq Empties
    BY DEF Room, Empties
  <1> QED BY <1>4, <1>6, <1>7

LEMMA AllocFound ==
    ASSUME Settled, NEW v \in Values, NEW s, s = alloc_kv(Size[v]), s # NoSector
    PROVE  /\ s \in Sectors /\ sec[s].store \in {"using", "empty"} /\ Top(sec[s].kvs) + Size[v] < Cap
           /\ gc_request => sec[s].dirty = "false"
           /\ s \in Room("using", Size[v]) \/ Cardinality(Empties) > 1 \/ gc_request
  <1>0. Size[v] \in Nat
    BY Consts
  <1>1. CASE Room("using", Size[v]) # {}
    <2>1. Room("using", Size[v]) \in SUBSET Nat
      BY <1>0, RoomIs
    <2>2. s = Min(Room("using", Size[v]))
      BY <1>1 DEF alloc_kv
    <2>3. s \in Room("using", Size[v])
      BY <1>1, <2>1, <2>2, MinIs
    <2> QED BY <1>0, <2>3, RoomIs
  <1>2. CASE Room("using", Size[v]) = {}
    <2>1. s = Min(Room("empty", Size[v])) /\ (Cardinality(Empties) > 1 \/ (gc_request /\ Empties # {}))
      BY <1>2 DEF alloc_kv
    <2>2. Empties # {}
      BY <2>1, EmptiesFinite
    <2>3. s \in Room("empty", Size[v])
      BY <2>1, <2>2, EmptyRoom
    <2> QED BY <1>0, <2>1, <2>3, RoomIs
  <1> QED BY <1>1, <1>2

LEMMA AllocNot ==
    ASSUME Settled, NEW v \in Values, alloc_kv(Size[v]) = NoSector
    PROVE  /\ Room("using", Size[v]) = {} /\ ~(Cardinality(Empties) > 1) /\ ~(gc_request /\ Empties # {})
           /\ Empties # {} => AllocRequest(Size[v])
  <1>0. Size[v] \in Nat /\ NoSector \notin Sectors
    BY Consts DEF NoSector, Sectors
  <1>1. Room("using", Size[v]) = {}
    <2>1. SUFFICES ASSUME Room("using", Size[v]) # {} PROVE FALSE
      OBVIOUS
    <2>2. Min(Room("using", Size[v])) \in Room("using", Size[v])
      BY <1>0, <2>1, RoomIs, MinIs
    <2> QED BY <1>0, <2>1, <2>2, RoomIs DEF alloc_kv
  <1>2. ~(Cardinality(Empties) > 1 \/ (gc_request /\ Empties # {}))
    <2>1. SUFFICES ASSUME Cardinality(Empties) > 1 \/ (gc_request /\ Empties # {}) PROVE FALSE
      OBVIOUS
    <2>2. Empties # {} /\ alloc_kv(Size[v]) = Min(Room("empty", Size[v]))
      BY <1>1, <2>1, EmptiesFinite DEF alloc_kv
    <2> QED BY <1>0, <2>2, EmptyRoom, RoomIs
  <1>3. Empties # {} => Cardinality(Empties) = 1
    BY <1>2, EmptiesFinite
  <1> QED BY <1>1, <1>2, <1>3 DEF AllocRequest

-----------------------------------------------------------------------------
(* What the invariant says of the flash as the calls look at it.           *)

LEMMA InvSettled ==
    ASSUME Inv, pc # "data"
    PROVE  Settled
  <1>1. FlashOK(sec) /\ \A s \in Sectors : LayoutOK(sec[s].kvs) /\ Unwritten(sec[s])
    BY DEF Inv, RoomInv
  <1>2. ASSUME NEW a \in Addrs(sec) PROVE Kv(sec, a).st # "NONE"
    <2>1. CASE Kv(sec, a).st \in {"WRITE", "DELETED"}
      BY <2>1
    <2>2. CASE Putting /\ a = put.old
      <3>1. put.old # NoAddr
        BY <2>2, AddrsIs, Consts DEF NoAddr, Sectors
      <3>2. Kv(sec, a).st = OldStatus
        BY <2>2, <3>1 DEF Inv, PutInv
      <3> QED BY <3>2 DEF OldStatus
    <2>3. CASE HasNew /\ a = New
      <3>1. Kv(sec, a).st = NewStatus
        BY <2>3 DEF Inv, PutInv, HasNew, Putting
      <3> QED BY <3>1, <2>3 DEF NewStatus, HasNew
    <2> QED BY <2>1, <2>2, <2>3 DEF Inv, StatusInv
  <1> QED BY <1>1, <1>2 DEF Settled

LEMMA NoAddrOut ==
    ASSUME NEW f PROVE NoAddr \notin Addrs(f)
  BY AddrsIs, Consts DEF NoAddr, Sectors

\* find_kv between two changes: the valid entry of the key, if there is one.
LEMMA FindIs ==
    ASSUME Inv, ~Putting, NEW k \in Keys
    PROVE  \/ find_kv(k) = NoAddr /\ \A a \in Addrs(sec) : Kv(sec, a).key = k => Kv(sec, a).st # "WRITE"
           \/ /\ find_kv(k) \in Addrs(sec) /\ find_kv(k) # NoAddr
              /\ Kv(sec, find_kv(k)).key = k /\ Kv(sec, find_kv(k)).st = "WRITE"
  <1>0. /\ FlashOK(sec) /\ All = Addrs(sec) /\ \A a : Entry(a) = Kv(sec, a)
        /\ \A s \in Sectors : Entries(s) = {<<s, i>> : i \in 1 .. Len(sec[s].kvs)}
    BY AllIs DEF Inv
  <1>1. Addrs(sec) \in SUBSET (Nat \X Nat)
    BY <1>0, KvType
  <1>2. ASSUME NEW a \in Hits(k) PROVE a \in Addrs(sec) /\ Kv(sec, a).key = k /\ Kv(sec, a).st = "WRITE"
    <2>1. /\ cache[k] # NoAddr /\ a \in Entries(cache[k][1]) /\ Kv(sec, a).at = cache[k][2]
          /\ Kv(sec, a).key = k /\ Kv(sec, a).st # "NONE"
      BY <1>0 DEF Hits
    <2>2. cache[k] = <<cache[k][1], cache[k][2]>> /\ cache[k][1] \in Sectors
      BY <2>1 DEF Inv, CacheInv
    <2>3. a \in Addrs(sec) /\ a[1] = cache[k][1]
      BY <1>0, <2>1, <2>2, AddrsIs
    <2>4. cache[Kv(sec, a).key] = <<a[1], Kv(sec, a).at>>
      BY <2>1, <2>2, <2>3
    <2> QED BY <2>1, <2>3, <2>4 DEF Inv, CacheInv, Leaving, Putting
  <1>3. CASE Hits(k) # {}
    <2>1. Hits(k) \in SUBSET (Nat \X Nat)
      BY <1>1, <1>2
    <2>2. find_kv(k) = First(Hits(k)) /\ First(Hits(k)) \in Hits(k)
      BY <1>3, <2>1, FirstIs DEF find_kv
    <2> QED BY <1>2, <2>2, NoAddrOut
  <1>4. CASE Hits(k) = {} /\ Live(k) # {}
    <2>1. Live(k) \in SUBSET (Nat \X Nat)
      BY <1>0, <1>1 DEF Live
    <2>2. find_kv(k) = First(Live(k)) /\ First(Live(k)) \in Live(k)
      BY <1>4, <2>1, FirstIs DEF find_kv
    <2>3. find_kv(k) \in Addrs(sec) /\ Kv(sec, find_kv(k)).key = k /\ Kv(sec, find_kv(k)).st = "WRITE"
      BY <1>0, <2>2 DEF Live
    <2> QED BY <2>3, NoAddrOut
  <1>5. CASE Hits(k) = {} /\ Live(k) = {}
    BY <1>0, <1>5 DEF find_kv, Live
  <1> QED BY <1>3, <1>4, <1>5

-----------------------------------------------------------------------------
(* Each step keeps the invariant.  First what the writes of the flash keep. *)

\* Only the status of one entry changes.
Restatus(f, g, a, st) ==
    /\ FlashOK(f) /\ FlashOK(g) /\ Addrs(g) = Addrs(f) /\ a \in Addrs(f)
    /\ \A s \in Sectors : /\ g[s].store = f[s].store /\ g[s].dirty = f[s].dirty
                          /\ Len(g[s].kvs) = Len(f[s].kvs) /\ (g[s].kvs = << >> <=> f[s].kvs = << >>)
                          /\ Top(g[s].kvs) = Top(f[s].kvs) /\ (LayoutOK(f[s].kvs) => LayoutOK(g[s].kvs))
                          /\ (s # a[1] => g[s] = f[s])
    /\ \A b \in Addrs(f) : /\ Kv(g, b).key = Kv(f, b).key /\ Kv(g, b).val = Kv(f, b).val
                           /\ Kv(g, b).at = Kv(f, b).at /\ EndOf(Kv(g, b)) = EndOf(Kv(f, b))
                           /\ Kv(g, b).st = IF b = a THEN st ELSE Kv(f, b).st

LEMMA SetStatusIs ==
    ASSUME FlashOK(sec), NEW a \in Addrs(sec), NEW st \in Statuses, SetStatus(a, st)
    PROVE  Restatus(sec, sec', a, st)
  <1>1. StatusWrite(sec, sec', a, st)
    BY DEF SetStatus, StatusWrite
  <1>2. /\ FlashOK(sec') /\ Addrs(sec') = Addrs(sec)
        /\ \A s \in Sectors : sec'[s].store = sec[s].store /\ sec'[s].dirty = sec[s].dirty /\ Len(sec'[s].kvs) = Len(sec[s].kvs)
        /\ \A b \in Addrs(sec) : /\ Kv(sec', b).key = Kv(sec, b).key /\ Kv(sec', b).val = Kv(sec, b).val
                                 /\ Kv(sec', b).at = Kv(sec, b).at /\ EndOf(Kv(sec', b)) = EndOf(Kv(sec, b))
                                 /\ Kv(sec', b).st = IF b = a THEN st ELSE Kv(sec, b).st
        /\ \A s \in Sectors : s # a[1] => sec'[s] = sec[s]
    BY <1>1, StatusFrame
  <1>3. ASSUME NEW s \in Sectors
        PROVE  /\ (sec'[s].kvs = << >> <=> sec[s].kvs = << >>)
               /\ Top(sec'[s].kvs) = Top(sec[s].kvs) /\ (LayoutOK(sec[s].kvs) => LayoutOK(sec'[s].kvs))
    <2>1. /\ sec[s].kvs \in Seq(KvEntries) /\ sec'[s].kvs \in Seq(KvEntries) /\ Len(sec'[s].kvs) = Len(sec[s].kvs)
          /\ (sec'[s].kvs = << >> <=> Len(sec'[s].kvs) = 0) /\ (sec[s].kvs = << >> <=> Len(sec[s].kvs) = 0)
      BY <1>2, SectorKvs
    <2>2. ASSUME NEW i \in 1 .. Len(sec[s].kvs)
          PROVE  sec'[s].kvs[i].at = sec[s].kvs[i].at /\ sec'[s].kvs[i].val = sec[s].kvs[i].val
      <3>1. <<s, i>> \in Addrs(sec) /\ Kv(sec, <<s, i>>) = sec[s].kvs[i] /\ Kv(sec', <<s, i>>) = sec'[s].kvs[i]
        BY InSector DEF Kv
      <3> QED BY <3>1, <1>2
    <2> QED BY <2>1, <2>2, SameLayout
  <1> QED BY <1>2, <1>3 DEF Restatus

\* Only the headers of sectors change.
Reheader(f, g) ==
    /\ FlashOK(f) /\ FlashOK(g) /\ Addrs(g) = Addrs(f)
    /\ \A s \in Sectors : g[s].kvs = f[s].kvs
    /\ \A b \in Addrs(f) : Kv(g, b) = Kv(f, b)

\* del_kv ends with a mark on the sector.
LEMMA MarkDirtyIs ==
    ASSUME FlashOK(sec), NEW s \in Sectors, MarkDirty(s)
    PROVE  /\ Reheader(sec, sec')
           /\ \A t \in Sectors : sec'[t].store = sec[t].store /\ (t # s => sec'[t] = sec[t])
           /\ sec'[s].dirty # "false" /\ (sec[s].dirty = "gc" => sec'[s].dirty = "gc")
           /\ \A t \in Sectors : sec'[t].dirty = "false" => sec[t].dirty = "false"
  <1>1. CASE sec[s].dirty = "false"
    <2>1. DirtyWrite(sec, sec', s, "true")
      BY <1>1 DEF MarkDirty, DirtyWrite
    <2>2. /\ FlashOK(sec') /\ Addrs(sec') = Addrs(sec)
          /\ \A t \in Sectors : sec'[t].kvs = sec[t].kvs /\ sec'[t].store = sec[t].store
          /\ \A t \in Sectors : t # s => sec'[t] = sec[t]
          /\ sec'[s].dirty = "true"
          /\ \A b \in Addrs(sec) : Kv(sec', b) = Kv(sec, b)
      BY <2>1, DirtyFrame
    <2> QED BY <1>1, <2>2 DEF Reheader
  <1>2. CASE sec[s].dirty # "false"
    <2>1. sec' = sec
      BY <1>2 DEF MarkDirty
    <2> QED BY <1>2, <2>1 DEF Reheader
  <1> QED BY <1>1, <1>2

\* An entry that is put away has another address than the new one.
LEMMA PutFacts ==
    ASSUME Inv, Putting
    PROVE  /\ put.old # NoAddr => put.old \in Addrs(sec)
           /\ HasNew => New \in Addrs(sec)
  <1>1. put.old # NoAddr => put.old \in Addrs(sec)
    BY DEF Inv, PutInv
  <1>2. ASSUME HasNew PROVE New \in Addrs(sec)
    <2>1. put.dst \in Sectors /\ sec[put.dst].kvs # << >>
      BY <1>2 DEF Inv, PutInv
    <2>2. Len(sec[put.dst].kvs) \in 1 .. Len(sec[put.dst].kvs)
      BY <2>1, SectorKvs DEF Inv
    <2> QED BY <2>1, <2>2, AddrsIs DEF New
  <1> QED BY <1>1, <1>2

LEMMA PreDeleteInv ==
    ASSUME Inv, PreDelete
    PROVE  Inv'
  <1>1. /\ pc = "predelete" /\ pc' = "predirty" /\ Putting /\ put.ret \in {"set", "gc"} /\ put.old # NoAddr
        /\ put.old \in Addrs(sec) /\ ~HasNew /\ ~Leaving(put.old)
        /\ UNCHANGED <<gc_request, in_recovery_check, cache, op, already_gc, put, gcs, ret, cur, want, crashes>>
        /\ last_is_complete_del' = TRUE
    BY DEF PreDelete, Inv, PutInv, Putting, HasNew, Leaving
  <1>2. Restatus(sec, sec', put.old, "PRE_DELETE")
    BY <1>1, SetStatusIs DEF PreDelete, Inv, Statuses
  <1>3. Empties' = Empties
    BY <1>2 DEF Restatus, Empties
  <1>4. FlashOK(sec')
    BY <1>2 DEF Restatus
  <1>5. ControlInv'
    BY <1>1 DEF Inv, ControlInv, Putting, InGc, Collecting, Wiping, Defaulting, Booting
  <1>6. PutInv'
    BY <1>1, <1>2 DEF Inv, PutInv, Putting, HasNew, Chosen, OldStatus, NewStatus, New, Restatus
  <1>7. StatusInv'
    BY <1>1, <1>2 DEF Inv, StatusInv, Putting, HasNew, Restatus
  <1>8. DirtyInv'
    BY <1>1, <1>2, AddrsIs DEF Inv, DirtyInv, Restatus
  <1>9. LiveInv'
    BY <1>1, <1>2 DEF Inv, LiveInv, Putting, HasNew, Restatus
  <1>10. CacheInv'
    BY <1>1, <1>2 DEF Inv, CacheInv, Putting, HasNew, Leaving, Restatus
  <1>11. RoomInv'
    BY <1>1, <1>2 DEF Inv, RoomInv, PutInv, Chosen, Unwritten, Restatus
  <1>12. WantInv'
    BY <1>1, <1>2 DEF Inv, WantInv, Held, PutInv, OldStatus, Restatus
  <1>13. SpareInv'
    BY <1>1, <1>2, <1>3 DEF Inv, SpareInv, GcInv, Chosen, Collecting, Putting, Booting, Takes, Restatus
  <1>14. GcInv'
    BY <1>1, <1>2, <1>3 DEF Inv, GcInv, Collecting, Putting, Restatus
  <1>15. WipeInv' /\ DefaultInv' /\ BootInv'
    BY <1>1 DEF WipeInv, DefaultInv, BootInv, Wiping, Defaulting, Booting, Putting
  <1> QED BY <1>4, <1>5, <1>6, <1>7, <1>8, <1>9, <1>10, <1>11, <1>12, <1>13, <1>14, <1>15 DEF Inv

LEMMA PreDirtyInv ==
    ASSUME Inv, PreDirty
    PROVE  Inv'
  <1>1. /\ pc = "predirty" /\ pc' = (IF put.ret = "set" THEN "status" ELSE "move") /\ Putting /\ put.ret \in {"set", "gc"}
        /\ put.old # NoAddr /\ put.old \in Addrs(sec) /\ put.old[1] \in Sectors
        /\ UNCHANGED <<gc_request, in_recovery_check, last_is_complete_del, cache, op, already_gc, put, gcs,
                       ret, cur, want, crashes>>
    BY AddrsIs DEF PreDirty, Inv, PutInv, Putting, ram
  <1>2. /\ Reheader(sec, sec')
        /\ \A t \in Sectors : sec'[t].store = sec[t].store /\ (t # put.old[1] => sec'[t] = sec[t])
        /\ sec'[put.old[1]].dirty # "false" /\ (sec[put.old[1]].dirty = "gc" => sec'[put.old[1]].dirty = "gc")
        /\ \A t \in Sectors : sec'[t].dirty = "false" => sec[t].dirty = "false"
    BY <1>1, MarkDirtyIs DEF PreDirty, Inv
  <1>3. Empties' = Empties
    BY <1>2 DEF Empties
  <1>4. FlashOK(sec') /\ sec[put.old[1]].kvs # << >>
    BY <1>1, <1>2, KvType, SectorKvs DEF Reheader, Inv
  <1>16. HasNew => New' = New /\ New \in Addrs(sec)
    BY <1>1, <1>2, PutFacts DEF Inv, PutInv, New, Reheader
  <1>5. ControlInv'
    BY <1>1 DEF Inv, ControlInv, PutInv, Putting, InGc, Collecting, Wiping, Defaulting, Booting
  <1>6. PutInv'
    BY <1>1, <1>2, <1>16 DEF Inv, PutInv, Putting, HasNew, Chosen, OldStatus, NewStatus, Reheader
  <1>7. StatusInv'
    BY <1>1, <1>2 DEF Inv, StatusInv, PutInv, Putting, HasNew, New, Reheader
  <1>8. DirtyInv'
    BY <1>1, <1>2, AddrsIs DEF Inv, DirtyInv, Reheader
  <1>9. LiveInv'
    BY <1>1, <1>2 DEF Inv, LiveInv, PutInv, Putting, HasNew, New, Reheader
  <1>10. CacheInv'
    <2>1. \A a \in Addrs(sec) : Leaving(a) => Leaving(a)'
      BY <1>1 DEF Leaving, Putting
    <2>2. Addrs(sec') = Addrs(sec) /\ \A a \in Addrs(sec) : Kv(sec', a) = Kv(sec, a)
      BY <1>2 DEF Reheader
    <2>3. CacheInv
      BY DEF Inv
    <2> QED BY <1>1, <2>1, <2>2, <2>3 DEF CacheInv
  <1>11. RoomInv'
    <2>1. \A s \in Sectors : Unwritten(sec'[s])
      BY <1>2, <1>4 DEF Inv, RoomInv, Unwritten, Reheader
    <2> QED BY <1>1, <1>2, <2>1 DEF Inv, RoomInv, PutInv, Chosen, Reheader
  <1>12. WantInv'
    BY <1>1, <1>2 DEF Inv, WantInv, Held, Reheader
  <1>13. SpareInv'
    BY <1>1, <1>2, <1>3 DEF Inv, SpareInv, GcInv, Chosen, Collecting, Putting, Booting, Takes, Emptied, Reheader
  <1>14. GcInv'
    BY <1>1, <1>2, <1>3 DEF Inv, GcInv, Collecting, Putting, Reheader
  <1>15. WipeInv' /\ DefaultInv' /\ BootInv'
    BY <1>1 DEF WipeInv, DefaultInv, BootInv, Wiping, Defaulting, Booting, Putting
  <1> QED BY <1>4, <1>5, <1>6, <1>7, <1>8, <1>9, <1>10, <1>11, <1>12, <1>13, <1>14, <1>15 DEF Inv

LEMMA DirtyStepInv ==
    ASSUME Inv, Dirty
    PROVE  Inv'
  <1>1. /\ pc = "dirty" /\ pc' = ("done") /\ Putting /\ put.ret \in {"set", "del", "gc"}
        /\ put.old # NoAddr /\ put.old \in Addrs(sec) /\ put.old[1] \in Sectors
        /\ UNCHANGED <<gc_request, in_recovery_check, last_is_complete_del, cache, op, already_gc, put, gcs,
                       ret, cur, want, crashes>>
    BY AddrsIs DEF Dirty, Inv, PutInv, Putting, ram
  <1>2. /\ Reheader(sec, sec')
        /\ \A t \in Sectors : sec'[t].store = sec[t].store /\ (t # put.old[1] => sec'[t] = sec[t])
        /\ sec'[put.old[1]].dirty # "false" /\ (sec[put.old[1]].dirty = "gc" => sec'[put.old[1]].dirty = "gc")
        /\ \A t \in Sectors : sec'[t].dirty = "false" => sec[t].dirty = "false"
    BY <1>1, MarkDirtyIs DEF Dirty, Inv
  <1>3. Empties' = Empties
    BY <1>2 DEF Empties
  <1>4. FlashOK(sec') /\ sec[put.old[1]].kvs # << >>
    BY <1>1, <1>2, KvType, SectorKvs DEF Reheader, Inv
  <1>16. HasNew => New' = New /\ New \in Addrs(sec)
    BY <1>1, <1>2, PutFacts DEF Inv, PutInv, New, Reheader
  <1>5. ControlInv'
    BY <1>1 DEF Inv, ControlInv, PutInv, Putting, InGc, Collecting, Wiping, Defaulting, Booting
  <1>6. PutInv'
    BY <1>1, <1>2, <1>16 DEF Inv, PutInv, Putting, HasNew, Chosen, OldStatus, NewStatus, Reheader
  <1>7. StatusInv'
    BY <1>1, <1>2 DEF Inv, StatusInv, PutInv, Putting, HasNew, New, Reheader
  <1>8. DirtyInv'
    BY <1>1, <1>2, AddrsIs DEF Inv, DirtyInv, Reheader
  <1>9. LiveInv'
    BY <1>1, <1>2 DEF Inv, LiveInv, PutInv, Putting, HasNew, New, Reheader
  <1>10. CacheInv'
    <2>1. \A a \in Addrs(sec) : Leaving(a) => Leaving(a)'
      BY <1>1 DEF Leaving, Putting
    <2>2. Addrs(sec') = Addrs(sec) /\ \A a \in Addrs(sec) : Kv(sec', a) = Kv(sec, a)
      BY <1>2 DEF Reheader
    <2>3. CacheInv
      BY DEF Inv
    <2> QED BY <1>1, <2>1, <2>2, <2>3 DEF CacheInv
  <1>11. RoomInv'
    <2>1. \A s \in Sectors : Unwritten(sec'[s])
      BY <1>2, <1>4 DEF Inv, RoomInv, Unwritten, Reheader
    <2> QED BY <1>1, <1>2, <2>1 DEF Inv, RoomInv, PutInv, Chosen, Reheader
  <1>12. WantInv'
    BY <1>1, <1>2 DEF Inv, WantInv, Held, Reheader
  <1>13. SpareInv'
    BY <1>1, <1>2, <1>3 DEF Inv, SpareInv, GcInv, Chosen, Collecting, Putting, Booting, Takes, Emptied, Reheader
  <1>14. GcInv'
    BY <1>1, <1>2, <1>3 DEF Inv, GcInv, Collecting, Putting, Reheader
  <1>15. WipeInv' /\ DefaultInv' /\ BootInv'
    BY <1>1 DEF WipeInv, DefaultInv, BootInv, Wiping, Defaulting, Booting, Putting
  <1> QED BY <1>4, <1>5, <1>6, <1>7, <1>8, <1>9, <1>10, <1>11, <1>12, <1>13, <1>14, <1>15 DEF Inv

\* The address of the new entry is that of no other.
LEMMA NewPlace ==
    ASSUME Inv, HasNew
    PROVE  /\ New \in Addrs(sec) /\ New[1] = put.dst /\ put.dst \in Sectors
           /\ \A a \in Addrs(sec) : a[1] = put.dst /\ Kv(sec, a).at = Kv(sec, New).at => a = New
           /\ Address(New) = <<put.dst, Kv(sec, New).at>>
           /\ put.old # NoAddr => /\ put.old \in Addrs(sec)
                                  /\ <<put.old[1], Kv(sec, put.old).at>> # <<put.dst, Kv(sec, New).at>>
  <1>1. Putting /\ New \in Addrs(sec) /\ put.dst \in Sectors /\ New[1] = put.dst
    BY PutFacts DEF Inv, PutInv, HasNew, Putting, New
  <1>2. \A a \in Addrs(sec) : a[1] = put.dst /\ Kv(sec, a).at = Kv(sec, New).at => a = New
    BY <1>1, OtherPlace DEF Inv, RoomInv
  <1>3. Address(New) = <<put.dst, Kv(sec, New).at>>
    BY <1>1 DEF Address, Entry, Kv
  <1>4. New # put.old
    BY <1>1 DEF Inv, PutInv
  <1> QED BY <1>1, <1>2, <1>3, <1>4, PutFacts

\* Statuses do not matter to the room of GC, nor to where the defaults are.
LEMMA SpareKept ==
    ASSUME Inv, NEW a, NEW st, Restatus(sec, sec', a, st), UNCHANGED <<put, gcs>>, pc # "slot", pc' # "slot"
    PROVE  /\ Empties' = Empties
           /\ \A e \in Sectors : \A n : Takes(e, n) => Takes(e, n)'
           /\ Putting /\ put.ret = "gc" => /\ Emptied' = Emptied /\ Kv(sec', gcs).at = Kv(sec, gcs).at
                                           /\ Len(sec'[gcs[1]].kvs) = Len(sec[gcs[1]].kvs)
  <1>1. Empties' = Empties
    BY DEF Restatus, Empties
  <1>2. \A e \in Sectors : \A n : Takes(e, n) => Takes(e, n)'
    BY DEF Restatus, Takes
  <1>3. ASSUME Putting, put.ret = "gc" PROVE gcs \in Addrs(sec) /\ gcs[1] \in Sectors
    <2>1. put.old = gcs /\ put.old # NoAddr
      BY <1>3 DEF Inv, GcInv, PutInv, Collecting
    <2> QED BY <2>1, <1>3, PutFacts, AddrsIs
  <1>4. ASSUME Putting, put.ret = "gc" PROVE Emptied' = Emptied /\ Kv(sec', gcs).at = Kv(sec, gcs).at
    <2>1. EndOf(Kv(sec', gcs)) = EndOf(Kv(sec, gcs)) /\ Kv(sec', gcs).at = Kv(sec, gcs).at
      BY <1>3, <1>4 DEF Restatus
    <2> QED BY <2>1 DEF Emptied
  <1> QED BY <1>1, <1>2, <1>3, <1>4 DEF Restatus

LEMMA DefaultKept ==
    ASSUME Inv, NEW a, NEW st, Restatus(sec, sec', a, st), UNCHANGED <<put, cur, want>>,
           HasNew, pc' \in {"data", "write", "delete", "dirty", "done"}, a[1] = put.dst
    PROVE  DefaultInv'
  <1>1. CASE put.ret # "def"
    BY <1>1 DEF DefaultInv, Defaulting, HasNew
  <1>2. CASE put.ret = "def"
    <2>1. /\ Putting /\ Defaulting /\ HasNew' /\ Putting' /\ DefaultInv /\ pc # "default" /\ pc' # "default"
          /\ pc # "slot" /\ pc' # "slot" /\ pc' # "new"
      BY <1>2 DEF Putting, Defaulting, HasNew, Inv
    <2>2. put.dst = 1 /\ 1 \in Sectors /\ Written' = Written /\ (Undecided => Undecided')
      BY <2>1, Consts DEF DefaultInv, Written, Undecided, Sectors
    <2>3. FlashOK(sec) /\ Addrs(sec') = Addrs(sec)
      BY DEF Restatus
    <2>4. ASSUME NEW i \in 1 .. Len(sec[1].kvs)
          PROVE  /\ sec'[1].kvs[i].key = sec[1].kvs[i].key /\ sec'[1].kvs[i].val = sec[1].kvs[i].val
                 /\ sec'[1].kvs[i].at = sec[1].kvs[i].at
      <3>1. <<1, i>> \in Addrs(sec) /\ Kv(sec, <<1, i>>) = sec[1].kvs[i] /\ Kv(sec', <<1, i>>) = sec'[1].kvs[i]
        BY <2>2, <2>3, InSector DEF Kv
      <3> QED BY <3>1 DEF Restatus
    <2>5. \A s \in Sectors \ {1} : sec'[s] = sec[s]
      BY <2>2 DEF Restatus
    <2>6. sec'[1].dirty = sec[1].dirty /\ sec'[1].store = sec[1].store /\ Len(sec'[1].kvs) = Len(sec[1].kvs)
      BY <2>2 DEF Restatus
    <2> QED BY <2>1, <2>2, <2>4, <2>5, <2>6 DEF DefaultInv
  <1> QED BY <1>1, <1>2

LEMMA WriteDataInv ==
    ASSUME Inv, WriteData
    PROVE  Inv'
  <1>1. /\ pc = "data" /\ pc' = "write" /\ Putting /\ HasNew /\ put.ret \in {"set", "gc", "def"}
        /\ UNCHANGED <<gc_request, in_recovery_check, last_is_complete_del, op, already_gc, put, gcs,
                       ret, cur, want, crashes>>
        /\ put.key \in Keys
    BY DEF WriteData, Inv, PutInv, Putting, HasNew
  <1>2. /\ New \in Addrs(sec) /\ New[1] = put.dst /\ put.dst \in Sectors
        /\ \A a \in Addrs(sec) : a[1] = put.dst /\ Kv(sec, a).at = Kv(sec, New).at => a = New
        /\ Address(New) = <<put.dst, Kv(sec, New).at>>
    BY <1>1, NewPlace
  <1>3. Restatus(sec, sec', New, "PRE_WRITE")
    BY <1>1, <1>2, SetStatusIs DEF WriteData, Inv, Statuses
  <1>4. Empties' = Empties /\ New' = New /\ FlashOK(sec')
    BY <1>1, <1>2, <1>3 DEF Restatus, Empties, New
  <1>5. ControlInv'
    BY <1>1 DEF Inv, ControlInv, Putting, InGc, Collecting, Wiping, Defaulting, Booting
  <1>6. PutInv'
    BY <1>1, <1>2, <1>3, <1>4 DEF Inv, PutInv, Putting, HasNew, Chosen, OldStatus, NewStatus, Restatus
  <1>7. StatusInv'
    BY <1>1, <1>3, <1>4 DEF Inv, StatusInv, Putting, HasNew, Restatus
  <1>8. DirtyInv'
    BY <1>1, <1>3, AddrsIs DEF Inv, DirtyInv, Restatus
  <1>9. LiveInv'
    BY <1>1, <1>3, <1>4 DEF Inv, LiveInv, Putting, HasNew, Restatus
  <1>10. CacheInv'
    <2>1. CASE put.ret \in {"set", "def"}
      <3>1. cache' = [cache EXCEPT ![put.key] = <<put.dst, Kv(sec, New).at>>]
        BY <1>2, <2>1 DEF WriteData
      <3>2. cache = [k \in Keys |-> cache[k]]
        BY DEF Inv, CacheInv
      <3>3. /\ cache' = [k \in Keys |-> cache'[k]]
            /\ \A k \in Keys : cache'[k] = IF k = put.key THEN <<put.dst, Kv(sec, New).at>> ELSE cache[k]
        BY <3>1, <3>2
      <3>4. \A k \in Keys : cache'[k] = NoAddr \/ (cache'[k] = <<cache'[k][1], cache'[k][2]>> /\ cache'[k][1] \in Sectors)
        BY <3>3, <1>2 DEF Inv, CacheInv
      <3>5. ASSUME NEW a \in Addrs(sec), cache'[Kv(sec, a).key] = <<a[1], Kv(sec, a).at>>, a # New
            PROVE  Kv(sec, a).st \in {"NONE", "WRITE"}
        <4>1. Kv(sec, a).key \in Keys
          BY KvType DEF Inv
        <4>2. Kv(sec, a).key # put.key
          BY <3>3, <3>5, <1>2, <4>1
        <4>3. cache[Kv(sec, a).key] = <<a[1], Kv(sec, a).at>>
          BY <3>3, <3>5, <4>1, <4>2
        <4>4. a # put.old
          BY <4>2, NoAddrOut, <1>1 DEF Inv, PutInv
        <4> QED BY <4>3, <4>4, <1>1 DEF Inv, CacheInv, Leaving
      <3> QED BY <1>1, <1>3, <1>4, <3>3, <3>4, <3>5 DEF CacheInv, Restatus
    <2>2. CASE put.ret = "gc"
      <3>1. cache' = cache
        BY <2>2 DEF WriteData
      <3>2. \A a \in Addrs(sec) : Leaving(a) => Leaving(a)'
        BY <1>1, <2>2 DEF Leaving, Putting
      <3> QED BY <1>1, <1>3, <1>4, <2>2, <3>1, <3>2 DEF Inv, CacheInv, Restatus
    <2> QED BY <1>1, <2>1, <2>2
  <1>11. RoomInv'
    BY <1>1, <1>3 DEF Inv, RoomInv, Chosen, Unwritten, Restatus
  <1>12. WantInv'
    BY <1>1, <1>3 DEF Inv, WantInv, Held, PutInv, NewStatus, Restatus
  <1>13. SpareInv'
    BY <1>1, <1>3, SpareKept DEF Inv, SpareInv, Chosen, Collecting, Putting, Booting
  <1>14. GcInv'
    BY <1>1, <1>3, <1>4 DEF Inv, GcInv, PutInv, NewStatus, Collecting, Putting, Restatus
  <1>15. WipeInv' /\ BootInv'
    BY <1>1 DEF WipeInv, BootInv, Wiping, Booting, Putting
  <1>16. DefaultInv'
    BY <1>1, <1>2, <1>3, DefaultKept
  <1> QED BY <1>4, <1>5, <1>6, <1>7, <1>8, <1>9, <1>10, <1>11, <1>12, <1>13, <1>14, <1>15, <1>16 DEF Inv

LEMMA WriteDoneInv ==
    ASSUME Inv, WriteDone
    PROVE  Inv'
  <1>1. /\ pc = "write" /\ pc' = (IF put.old = NoAddr THEN "done" ELSE "delete")
        /\ Putting /\ HasNew /\ put.ret \in {"set", "gc", "def"}
        /\ gc_request' = (gc_request \/ (put.full /\ put.ret \in {"set", "def"}))
        /\ UNCHANGED <<in_recovery_check, last_is_complete_del, op, already_gc, put, gcs, ret, cur, want, crashes>>
        /\ put.key \in Keys /\ put.full \in BOOLEAN /\ (put.ret = "def" => ~put.full /\ put.old = NoAddr)
        /\ put.val \in want[put.key]
    BY DEF WriteDone, Inv, PutInv, Putting, HasNew
  <1>2. /\ New \in Addrs(sec) /\ New[1] = put.dst /\ put.dst \in Sectors
        /\ \A a \in Addrs(sec) : a[1] = put.dst /\ Kv(sec, a).at = Kv(sec, New).at => a = New
        /\ Address(New) = <<put.dst, Kv(sec, New).at>>
        /\ put.old # NoAddr => /\ put.old \in Addrs(sec)
                               /\ <<put.old[1], Kv(sec, put.old).at>> # <<put.dst, Kv(sec, New).at>>
    BY <1>1, NewPlace
  <1>3. Restatus(sec, sec', New, "WRITE")
    BY <1>1, <1>2, SetStatusIs DEF WriteDone, Inv, Statuses
  <1>4. Empties' = Empties /\ New' = New /\ FlashOK(sec')
    BY <1>1, <1>2, <1>3 DEF Restatus, Empties, New
  <1>5. ControlInv'
    BY <1>1 DEF Inv, ControlInv, Putting, InGc, Collecting, Wiping, Defaulting, Booting
  <1>6. PutInv'
    BY <1>1, <1>2, <1>3, <1>4 DEF Inv, PutInv, Putting, HasNew, Chosen, OldStatus, NewStatus, Restatus
  <1>7. StatusInv'
    BY <1>1, <1>3, <1>4 DEF Inv, StatusInv, Putting, HasNew, Restatus
  <1>8. DirtyInv'
    BY <1>1, <1>3, AddrsIs DEF Inv, DirtyInv, Restatus
  <1>9. LiveInv'
    <2>1. Kv(sec, New).key = put.key
      BY <1>1 DEF Inv, PutInv
    <2>2. \A a \in Addrs(sec) : Kv(sec, a).st = "WRITE" /\ Kv(sec, a).key = put.key => FALSE
      BY <1>1, NoAddrOut DEF Inv, LiveInv, PutInv, OldStatus, NewStatus
    <2> QED BY <1>1, <1>2, <1>3, <1>4, <2>1, <2>2 DEF Inv, LiveInv, Putting, HasNew, Restatus
  <1>10. CacheInv'
    <2>0. cache = [k \in Keys |-> cache[k]]
      BY DEF Inv, CacheInv
    <2>1. /\ cache' = [k \in Keys |-> cache'[k]]
          /\ \A k \in Keys : cache'[k] = IF k = put.key THEN <<put.dst, Kv(sec, New).at>> ELSE cache[k]
      <3>1. CASE put.ret \in {"set", "def"}
        <4>1. cache' = cache /\ cache[put.key] = <<put.dst, Kv(sec, New).at>>
          BY <1>1, <3>1 DEF WriteDone, Inv, CacheInv
        <4> QED BY <4>1, <2>0
      <3>2. CASE put.ret = "gc"
        <4>1. cache' = [cache EXCEPT ![put.key] = <<put.dst, Kv(sec, New).at>>]
          BY <1>2, <3>2 DEF WriteDone
        <4> QED BY <4>1, <2>0
      <3> QED BY <1>1, <3>1, <3>2
    <2>2. \A k \in Keys : cache'[k] = NoAddr \/ (cache'[k] = <<cache'[k][1], cache'[k][2]>> /\ cache'[k][1] \in Sectors)
      BY <2>1, <1>2 DEF Inv, CacheInv
    <2>3. ASSUME NEW a \in Addrs(sec), cache'[Kv(sec, a).key] = <<a[1], Kv(sec, a).at>>, a # New
          PROVE  Kv(sec, a).st \in {"NONE", "WRITE"}
      <3>1. Kv(sec, a).key \in Keys
        BY KvType DEF Inv
      <3>2. Kv(sec, a).key # put.key
        BY <2>1, <2>3, <1>2, <3>1
      <3>3. cache[Kv(sec, a).key] = <<a[1], Kv(sec, a).at>>
        BY <2>1, <2>3, <3>1, <3>2
      <3>4. a # put.old
        BY <3>2, NoAddrOut, <1>1 DEF Inv, PutInv
      <3> QED BY <2>3, <3>3, <3>4, <1>1 DEF Inv, CacheInv, Leaving
    <2>4. Kv(sec', New).st = "WRITE" /\ Kv(sec', New).at = Kv(sec, New).at
      BY <1>2, <1>3 DEF Restatus
    <2> QED BY <1>1, <1>3, <1>4, <2>1, <2>2, <2>3, <2>4 DEF CacheInv, Restatus
  <1>11. RoomInv'
    BY <1>1, <1>3 DEF Inv, RoomInv, Chosen, Unwritten, Restatus
  <1>12. WantInv'
    BY <1>1, <1>2, <1>3 DEF Inv, WantInv, Held, PutInv, NewStatus, Restatus
  <1>13. SpareInv'
    BY <1>1, <1>3, SpareKept DEF Inv, SpareInv, Chosen, Collecting, Putting, Booting
  <1>14. GcInv'
    BY <1>1, <1>2, <1>3, <1>4 DEF Inv, GcInv, PutInv, NewStatus, Collecting, Putting, Restatus
  <1>15. WipeInv' /\ BootInv'
    BY <1>1 DEF WipeInv, BootInv, Wiping, Booting, Putting
  <1>16. DefaultInv'
    BY <1>1, <1>2, <1>3, DefaultKept
  <1> QED BY <1>4, <1>5, <1>6, <1>7, <1>8, <1>9, <1>10, <1>11, <1>12, <1>13, <1>14, <1>15, <1>16 DEF Inv

LEMMA DeleteInv ==
    ASSUME Inv, Delete
    PROVE  Inv'
  <1>1. /\ pc = "delete" /\ pc' = "dirty" /\ Putting /\ put.ret \in {"set", "gc", "del"}
        /\ put.old # NoAddr /\ put.old \in Addrs(sec) /\ last_is_complete_del' = FALSE
        /\ UNCHANGED <<gc_request, in_recovery_check, op, already_gc, put, gcs, ret, cur, want, crashes>>
        /\ put.key \in Keys /\ Kv(sec, put.old).key = put.key
        /\ (put.ret = "del" => put.val = None) /\ put.val \in want[put.key]
        /\ last_is_complete_del = (put.ret # "del") /\ HasNew = (put.ret # "del")
    BY DEF Delete, Inv, PutInv, ControlInv, Putting, HasNew
  <1>2. put.ret # "del" =>
           /\ New \in Addrs(sec) /\ New[1] = put.dst /\ put.dst \in Sectors
           /\ <<put.old[1], Kv(sec, put.old).at>> # <<put.dst, Kv(sec, New).at>> /\ New # put.old
           /\ Kv(sec, New).st = "WRITE" /\ Kv(sec, New).key = put.key
           /\ cache[put.key] = <<put.dst, Kv(sec, New).at>>
    <2>1. put.ret # "del" => New # put.old /\ Kv(sec, New).st = "WRITE" /\ Kv(sec, New).key = put.key
      BY <1>1 DEF Inv, PutInv, NewStatus
    <2>2. put.ret # "del" => cache[put.key] = <<put.dst, Kv(sec, New).at>>
      BY <1>1 DEF Inv, CacheInv
    <2> QED BY <1>1, <2>1, <2>2, NewPlace
  <1>3. Restatus(sec, sec', put.old, "DELETED")
    BY <1>1, SetStatusIs DEF Delete, Inv, Statuses
  <1>4. Empties' = Empties /\ FlashOK(sec') /\ (put.ret # "del" => New' = New)
    BY <1>1, <1>2, <1>3 DEF Restatus, Empties, New
  <1>5. ControlInv'
    BY <1>1 DEF Inv, ControlInv, Putting, InGc, Collecting, Wiping, Defaulting, Booting
  <1>6. PutInv'
    BY <1>1, <1>2, <1>3, <1>4 DEF Inv, PutInv, Putting, HasNew, Chosen, OldStatus, NewStatus, Restatus
  <1>7. StatusInv'
    BY <1>1, <1>3, <1>4 DEF Inv, StatusInv, Putting, HasNew, Restatus
  <1>8. DirtyInv'
    BY <1>1, <1>3, AddrsIs DEF Inv, DirtyInv, Restatus
  <1>9. LiveInv'
    BY <1>1, <1>3, <1>4 DEF Inv, LiveInv, Putting, HasNew, Restatus
  <1>10. CacheInv'
    <2>0. cache = [k \in Keys |-> cache[k]]
      BY DEF Inv, CacheInv
    <2>1. /\ cache' = [k \in Keys |-> cache'[k]]
          /\ \A k \in Keys : cache'[k] = cache[k] \/ (k = put.key /\ put.ret = "del" /\ cache'[k] = NoAddr)
          /\ put.ret = "del" => cache'[put.key] = NoAddr
      <3>1. CASE put.ret # "del"
        <4>1. cache' = cache
          BY <1>1, <3>1 DEF Delete
        <4> QED BY <4>1, <2>0, <3>1
      <3>2. CASE put.ret = "del"
        <4>1. cache' = [cache EXCEPT ![put.key] = NoAddr]
          BY <1>1, <3>2 DEF Delete
        <4>2. cache'[put.key] = NoAddr /\ (\A k \in Keys : k # put.key => cache'[k] = cache[k])
          BY <4>1, <2>0, <1>1
        <4>3. cache' = [k \in Keys |-> cache'[k]]
          BY <4>1, <2>0, <1>1
        <4> QED BY <4>2, <4>3, <3>2
      <3> QED BY <3>1, <3>2
    <2>2. \A k \in Keys : cache'[k] = NoAddr \/ (cache'[k] = <<cache'[k][1], cache'[k][2]>> /\ cache'[k][1] \in Sectors)
      BY <2>1 DEF Inv, CacheInv
    <2>3. ASSUME NEW a \in Addrs(sec), cache'[Kv(sec, a).key] = <<a[1], Kv(sec, a).at>>
          PROVE  a # put.old /\ Kv(sec, a).st \in {"NONE", "WRITE"}
      <3>1. Kv(sec, a).key \in Keys /\ a[1] \in Sectors
        BY KvType DEF Inv
      <3>2. <<a[1], Kv(sec, a).at>> # NoAddr
        BY <3>1, Consts DEF NoAddr, Sectors
      <3>3. cache[Kv(sec, a).key] = <<a[1], Kv(sec, a).at>>
        BY <2>1, <2>3, <3>1, <3>2
      <3>4. a # put.old
        <4>1. CASE put.ret = "del"
          BY <4>1, <2>1, <2>3, <3>2, <1>1
        <4>2. CASE put.ret # "del"
          BY <4>2, <1>1, <1>2, <3>3
        <4> QED BY <4>1, <4>2
      <3> QED BY <3>3, <3>4, <1>1 DEF Inv, CacheInv, Leaving
    <2>4. \A a \in Addrs(sec) : a # put.old => Kv(sec', a).st = Kv(sec, a).st
      BY <1>3 DEF Restatus
    <2> QED BY <1>1, <1>3, <2>1, <2>2, <2>3, <2>4 DEF CacheInv, Restatus
  <1>11. RoomInv'
    BY <1>1, <1>3 DEF Inv, RoomInv, Chosen, Unwritten, Restatus
  <1>12. WantInv'
    <2>1. ASSUME NEW k \in Keys, k # put.key
          PROVE  None \in want[k] \/ \E a \in Addrs(sec) : Kv(sec', a).key = k /\ Held(Kv(sec', a).st)
      <3>1. CASE None \in want[k]
        BY <3>1
      <3>2. CASE \E a \in Addrs(sec) : Kv(sec, a).key = k /\ Held(Kv(sec, a).st)
        <4>1. PICK a \in Addrs(sec) : Kv(sec, a).key = k /\ Held(Kv(sec, a).st)
          BY <3>2
        <4>2. a # put.old
          BY <4>1, <2>1, <1>1
        <4> QED BY <4>1, <4>2, <1>3 DEF Restatus
      <3> QED BY <3>1, <3>2 DEF Inv, WantInv
    <2>2. None \in want[put.key] \/ \E a \in Addrs(sec) : Kv(sec', a).key = put.key /\ Held(Kv(sec', a).st)
      BY <1>1, <1>2, <1>3 DEF Restatus, Held
    <2>3. \A a \in Addrs(sec) : Held(Kv(sec', a).st) => Kv(sec', a).val \in want[Kv(sec', a).key]
      BY <1>3 DEF Restatus, Held, Inv, WantInv
    <2> QED BY <1>1, <1>3, <2>1, <2>2, <2>3 DEF WantInv, Restatus
  <1>13. SpareInv'
    BY <1>1, <1>3, SpareKept DEF Inv, SpareInv, Chosen, Collecting, Putting, Booting
  <1>14. GcInv'
    BY <1>1, <1>3, <1>4 DEF Inv, GcInv, Collecting, Putting, Restatus
  <1>15. WipeInv' /\ BootInv' /\ DefaultInv'
    BY <1>1 DEF WipeInv, BootInv, DefaultInv, Defaulting, Wiping, Booting, Putting
  <1> QED BY <1>4, <1>5, <1>6, <1>7, <1>8, <1>9, <1>10, <1>11, <1>12, <1>13, <1>14, <1>15 DEF Inv

LEMMA DoneInv ==
    ASSUME Inv, Done
    PROVE  Inv'
  <1>1. /\ pc = "done" /\ Putting /\ put.ret \in {"set", "gc", "def", "del"} /\ put' = NoPut
        /\ UNCHANGED <<sec, gc_request, in_recovery_check, last_is_complete_del, cache, already_gc, gcs, ret,
                       cur, crashes>>
        /\ put.key \in Keys /\ HasNew = (put.ret # "del")
    BY DEF Done, Inv, PutInv, Putting, HasNew, ram
  <1>2. /\ (put.old # NoAddr => put.old \in Addrs(sec) /\ Kv(sec, put.old).st = "DELETED")
        /\ (put.ret # "del" => /\ New \in Addrs(sec) /\ Kv(sec, New).st = "WRITE"
                               /\ Kv(sec, New).key = put.key /\ Kv(sec, New).val = put.val)
        /\ (put.ret = "del" => put.val = None)
    BY <1>1, PutFacts DEF Inv, PutInv, OldStatus, NewStatus
  <1>3. \/ /\ put.ret \in {"set", "del"} /\ pc' = (IF put.ret = "set" /\ gc_request THEN "gc" ELSE "idle")
           /\ op' = NoOp /\ want' = [want EXCEPT ![put.key] = {put.val}]
        \/ put.ret = "def" /\ pc' = "default" /\ op' = NoOp /\ want' = want
        \/ put.ret = "gc" /\ pc' = "gckv" /\ op' = op /\ want' = want
    BY <1>1 DEF Done
  <1>4. ~Putting' /\ ~HasNew' /\ ~Chosen' /\ pc' \in {"gc", "idle", "default", "gckv"}
    BY <1>3 DEF Putting, HasNew, Chosen
  <1>5. FlashOK(sec')
    BY <1>1 DEF Inv
  <1>6. ControlInv'
    <2>1. want = [k \in Keys |-> want[k]]
      BY DEF Inv, ControlInv
    <2>2. want' = [k \in Keys |-> want'[k]]
      BY <1>3, <2>1
    <2> QED BY <1>1, <1>3, <1>4, <2>2 DEF Inv, ControlInv, Putting, InGc, Collecting, Wiping, Defaulting, Booting
  <1>7. PutInv'
    BY <1>4 DEF PutInv
  <1>8. \A a \in Addrs(sec) : Kv(sec, a).st \in {"WRITE", "DELETED"}
    BY <1>1, <1>2, NoAddrOut DEF Inv, StatusInv
  <1>9. StatusInv'
    BY <1>1, <1>8 DEF StatusInv
  <1>10. DirtyInv'
    BY <1>1, <1>4 DEF Inv, DirtyInv
  <1>11. LiveInv'
    BY <1>1, <1>4 DEF Inv, LiveInv
  <1>12. CacheInv'
    BY <1>1, <1>4 DEF Inv, CacheInv, Leaving
  <1>13. RoomInv'
    BY <1>1, <1>4 DEF Inv, RoomInv
  <1>14. WantInv'
    <2>1. CASE put.ret \in {"set", "del"}
      <3>1. want' = [want EXCEPT ![put.key] = {put.val}] /\ want = [k \in Keys |-> want[k]]
        BY <1>3, <2>1 DEF Inv, ControlInv
      <3>2. want'[put.key] = {put.val} /\ \A k \in Keys : k # put.key => want'[k] = want[k]
        BY <1>1, <3>1
      <3>3. ASSUME NEW a \in Addrs(sec), Held(Kv(sec, a).st) PROVE Kv(sec, a).val \in want'[Kv(sec, a).key]
        <4>1. Kv(sec, a).st = "WRITE" /\ Kv(sec, a).key \in Keys
          BY <3>3, <1>8, KvType DEF Held, Inv
        <4>2. CASE Kv(sec, a).key = put.key
          <5>1. HasNew /\ a = New
            BY <4>1, <4>2, <1>1, <1>2, NoAddrOut DEF Inv, LiveInv
          <5> QED BY <5>1, <1>1, <1>2, <3>2, <4>2
        <4>3. CASE Kv(sec, a).key # put.key
          BY <3>2, <3>3, <4>1, <4>3 DEF Inv, WantInv
        <4> QED BY <4>2, <4>3
      <3>4. ASSUME NEW k \in Keys PROVE None \in want'[k] \/ \E a \in Addrs(sec) : Kv(sec, a).key = k /\ Held(Kv(sec, a).st)
        <4>1. CASE k # put.key
          BY <4>1, <3>2 DEF Inv, WantInv
        <4>2. CASE k = put.key
          BY <4>2, <1>2, <3>2 DEF Held
        <4> QED BY <4>1, <4>2
      <3> QED BY <1>1, <3>3, <3>4 DEF WantInv
    <2>2. CASE put.ret \notin {"set", "del"}
      BY <1>1, <1>3, <2>2 DEF Inv, WantInv
    <2> QED BY <2>1, <2>2
  <1>15. SpareInv'
    <2>1. Empties' = Empties
      BY <1>1 DEF Empties
    <2>2. put.ret # "gc" => Empties # {}
      BY <1>1 DEF Inv, SpareInv, Chosen
    <2>3. put.ret = "gc" => \/ Empties # {} \/ (\E e \in Sectors : Takes(e, Emptied)) \/ gcs[2] = Len(sec[gcs[1]].kvs)
      BY <1>1 DEF Inv, SpareInv, Collecting
    <2>4. Emptied' = Emptied /\ \A e, n : Takes(e, n) => Takes(e, n)'
      BY <1>1, <1>4 DEF Emptied, Takes
    <2> QED BY <1>1, <1>3, <1>4, <2>1, <2>2, <2>3, <2>4 DEF SpareInv, Booting, Collecting
  <1>16. GcInv'
    <2>1. Empties' = Empties
      BY <1>1 DEF Empties
    <2>2. CASE put.ret = "gc"
      <3>1. Collecting /\ Collecting' /\ pc' = "gckv" /\ put.old = gcs /\ put.old # NoAddr
        BY <1>1, <1>3, <2>2 DEF Inv, GcInv, PutInv, Collecting
      <3> QED BY <1>1, <1>2, <1>4, <3>1 DEF Inv, GcInv
    <2>3. CASE put.ret # "gc"
      <3>1. ~Collecting /\ ~Collecting' /\ ~InGc /\ pc' # "format" /\ pc' # "new"
        BY <1>1, <1>3, <1>4, <2>3 DEF Collecting, InGc
      <3>2. gcs = <<0, 0>> /\ ret # "new"
        BY <3>1 DEF Inv, GcInv, ControlInv
      <3> QED BY <1>1, <3>1, <3>2 DEF GcInv
    <2> QED BY <2>2, <2>3
  <1>17. WipeInv' /\ BootInv'
    BY <1>1, <1>4 DEF WipeInv, BootInv, Wiping, Booting
  <1>18. DefaultInv'
    <2>1. CASE put.ret # "def"
      BY <2>1, <1>3 DEF DefaultInv, Defaulting, Putting
    <2>2. CASE put.ret = "def"
      <3>1. pc' = "default" /\ want' = want /\ Defaulting
        BY <2>2, <1>1, <1>3 DEF Defaulting
      <3>2. Written' = Written /\ DefaultInv /\ Undecided' = Undecided
        BY <3>1, <1>1, <2>2 DEF Written, Inv, Undecided
      <3> QED BY <3>1, <3>2, <1>1, <1>4 DEF DefaultInv
    <2> QED BY <2>1, <2>2
  <1> QED BY <1>5, <1>6, <1>7, <1>9, <1>10, <1>11, <1>12, <1>13, <1>14, <1>15, <1>16, <1>17, <1>18 DEF Inv

\* GC always finds a place for the entry it moves: in an empty sector, or where the entries
\* before it in the collected sector went.
LEMMA MoveFits ==
    ASSUME Inv, pc = "move"
    PROVE  LET s == alloc_kv(Size[put.val]) IN
           /\ s # NoSector /\ s \in Sectors /\ sec[s].store \in {"using", "empty"}
           /\ Top(sec[s].kvs) + Size[put.val] < Cap /\ sec[s].dirty = "false" /\ s # gcs[1]
  <1>1. /\ Putting /\ put.ret = "gc" /\ Collecting /\ put.old # NoAddr /\ put.old = gcs /\ put.val \in Values
        /\ put.old \in Addrs(sec) /\ Kv(sec, put.old).val = put.val /\ gc_request /\ sec[gcs[1]].dirty = "gc"
    BY DEF Inv, PutInv, GcInv, ControlInv, Putting, Collecting, InGc
  <1>2. Settled
    BY InvSettled
  <1>3. alloc_kv(Size[put.val]) # NoSector
    <2> SUFFICES ASSUME alloc_kv(Size[put.val]) = NoSector PROVE FALSE
      OBVIOUS
    <2>1. Room("using", Size[put.val]) = {} /\ Empties = {}
      BY <1>1, <1>2, AllocNot
    <2>2. PICK e \in Sectors : Takes(e, Kv(sec, gcs).at)
      BY <1>1, <2>1 DEF Inv, SpareInv
    <2>3. sec[e].store = "using" /\ sec[e].dirty = "false" /\ Top(sec[e].kvs) + 0 <= Kv(sec, gcs).at
      BY <2>2 DEF Takes
    <2>4. Top(sec[e].kvs) \in Nat
      BY <1>2, SettledRemain
    <2>5. Kv(sec, gcs).at \in Nat /\ EndOf(Kv(sec, gcs)) < Cap
      <3>1. gcs[1] \in Sectors /\ gcs[2] \in 1 .. Len(sec[gcs[1]].kvs) /\ Kv(sec, gcs).at \in Nat
        BY <1>1, KvType DEF Inv
      <3> QED BY <3>1 DEF Inv, RoomInv, LayoutOK, Kv
    <2>6. Size[put.val] \in Nat /\ EndOf(Kv(sec, gcs)) = Kv(sec, gcs).at + Size[put.val]
      BY <1>1, Consts DEF EndOf
    <2>7. Top(sec[e].kvs) + Size[put.val] < Cap
      BY <2>3, <2>4, <2>5, <2>6, Consts
    <2>8. e \in Room("using", Size[put.val])
      BY <1>2, <2>3, <2>6, <2>7, RoomIs
    <2> QED BY <2>1, <2>8
  <1> QED BY <1>1, <1>2, <1>3, AllocFound

LEMMA MoveAllocInv ==
    ASSUME Inv, MoveAlloc
    PROVE  Inv'
  <1> DEFINE s == alloc_kv(Size[put.val])
  <1>1. pc = "move"
    BY DEF MoveAlloc
  <1>2. /\ s # NoSector /\ s \in Sectors /\ sec[s].store \in {"using", "empty"}
        /\ Top(sec[s].kvs) + Size[put.val] < Cap /\ sec[s].dirty = "false" /\ s # gcs[1]
    BY <1>1, MoveFits
  <1>3. Putting /\ put.ret = "gc" /\ Collecting /\ gc_request = TRUE /\ in_recovery_check = FALSE /\ InGc
    BY <1>1 DEF Inv, PutInv, ControlInv, Putting, Collecting, InGc, Wiping, Defaulting, Booting
  <1>4. /\ pc' = "status" /\ put' = [put EXCEPT !.dst = s] /\ gc_request' = TRUE
        /\ UNCHANGED <<sec, in_recovery_check, last_is_complete_del, cache, op, already_gc, gcs, ret, cur, want, crashes>>
    BY <1>2, <1>3 DEF MoveAlloc, AllocRequest
  <1>5. put = [key |-> put.key, val |-> put.val, old |-> put.old, dst |-> put.dst, full |-> put.full, ret |-> put.ret]
    BY <1>3 DEF Inv, PutInv
  <1> HIDE DEF s
  <1>6. /\ put'.key = put.key /\ put'.val = put.val /\ put'.old = put.old /\ put'.full = put.full /\ put'.ret = put.ret
        /\ put'.dst = s
        /\ put' = [key |-> put'.key, val |-> put'.val, old |-> put'.old, dst |-> put'.dst, full |-> put'.full, ret |-> put'.ret]
    BY <1>4, <1>5
  <1>7. Putting' /\ Collecting' /\ Chosen' /\ ~HasNew' /\ ~HasNew /\ Empties' = Empties
    BY <1>1, <1>3, <1>4, <1>6 DEF Putting, Collecting, Chosen, HasNew, Empties
  <1>8. FlashOK(sec')
    BY <1>4 DEF Inv
  <1>9. ControlInv'
    BY <1>1, <1>3, <1>4, <1>6, <1>7 DEF Inv, ControlInv, InGc, Booting
  <1>10. PutInv'
    BY <1>1, <1>2, <1>3, <1>4, <1>6, <1>7 DEF Inv, PutInv, OldStatus
  <1>11. StatusInv' /\ DirtyInv' /\ LiveInv'
    BY <1>1, <1>3, <1>4, <1>6, <1>7 DEF Inv, StatusInv, DirtyInv, LiveInv
  <1>12. CacheInv'
    BY <1>1, <1>3, <1>4, <1>6, <1>7 DEF Inv, CacheInv, Leaving
  <1>13. RoomInv'
    BY <1>1, <1>2, <1>4, <1>6 DEF Inv, RoomInv
  <1>14. WantInv'
    BY <1>4 DEF Inv, WantInv
  <1>15. SpareInv'
    BY <1>1, <1>3, <1>4, <1>6, <1>7 DEF Inv, SpareInv, Takes, Booting
  <1>16. GcInv'
    BY <1>1, <1>2, <1>3, <1>4, <1>6, <1>7 DEF Inv, GcInv
  <1>17. WipeInv' /\ BootInv' /\ DefaultInv'
    BY <1>3, <1>4, <1>6 DEF WipeInv, BootInv, DefaultInv, Wiping, Booting, Defaulting
  <1> QED BY <1>8, <1>9, <1>10, <1>11, <1>12, <1>13, <1>14, <1>15, <1>16, <1>17 DEF Inv

-----------------------------------------------------------------------------
(* The places of the defaults.                                             *)

LEMMA PlaceIs ==
    ASSUME DefaultsFit
    PROVE  /\ Place[1] = 0 /\ \A i \in 1 .. Len(Defaults) + 1 : Place[i] \in Nat
           /\ \A i \in 1 .. Len(Defaults) : /\ Place[i + 1] = Place[i] + Size[Defaults[i].val] /\ Place[i + 1] < Cap
                                            /\ i >= 2 => Place[i + 1] + Threshold <= Cap
           /\ \A i, j \in 1 .. Len(Defaults) : Defaults[i].key = Defaults[j].key => i = j
  <1>1. Place \in [1 .. Len(Defaults) + 1 -> 0 .. Cap] /\ Placing(Place)
    BY DEF DefaultsFit, Place
  <1>2. \A i \in 1 .. Len(Defaults) + 1 : Place[i] \in Nat
    BY <1>1
  <1> QED BY <1>1, <1>2 DEF Placing, DefaultsFit

LEMMA DefaultTop ==
    ASSUME Inv, DefaultsFit, Defaulting
    PROVE  /\ 1 \in Sectors /\ Written \in 0 .. Len(Defaults) /\ Len(sec[1].kvs) = Written
           /\ Top(sec[1].kvs) = Place[Written + 1]
  <1>1. 1 \in Sectors /\ Len(Defaults) \in Nat
    BY Consts DEF Sectors
  <1>2. /\ cur[1] \in 1 .. Len(Defaults) + 1 /\ (pc = "default" \/ cur[1] >= 2) /\ Len(sec[1].kvs) = Written
        /\ \A i \in 1 .. Written : sec[1].kvs[i].val = Defaults[i].val /\ sec[1].kvs[i].at = Place[i]
    BY DEF Inv, DefaultInv
  <1>3. Written \in 0 .. Len(Defaults)
    BY <1>1, <1>2 DEF Written
  <1>4. sec[1].kvs = << >> <=> Len(sec[1].kvs) = 0
    BY <1>1, SectorKvs DEF Inv
  <1>5. CASE Written = 0
    <2>1. Top(sec[1].kvs) = 0
      BY <1>2, <1>4, <1>5 DEF Top
    <2>2. Place[1] = 0 /\ Written + 1 = 1
      BY <1>5, PlaceIs
    <2> QED BY <1>1, <1>2, <1>3, <2>1, <2>2
  <1>6. CASE Written # 0
    <2>1. Written \in 1 .. Written /\ Written \in 1 .. Len(Defaults)
      BY <1>3, <1>6
    <2>2. Top(sec[1].kvs) = EndOf(sec[1].kvs[Written])
      BY <1>2, <1>4, <1>6 DEF Top
    <2>3. EndOf(sec[1].kvs[Written]) = Place[Written] + Size[Defaults[Written].val]
      BY <1>2, <2>1 DEF EndOf
    <2> QED BY <1>1, <1>2, <1>3, <2>1, <2>2, <2>3, PlaceIs
  <1> QED BY <1>1, <1>2, <1>3, <1>5, <1>6

\* The next default has room, and does not fill the sector.
LEMMA NextDefault ==
    ASSUME Inv, DefaultsFit, Defaulting, Written = cur[1] - 2, cur[1] >= 2
    PROVE  LET v == Defaults[cur[1] - 1].val IN
           /\ Top(sec[1].kvs) + Size[v] < Cap
           /\ Written >= 1 => Top(sec[1].kvs) + Size[v] + Threshold <= Cap
           /\ Written + 1 = cur[1] - 1 /\ cur[1] - 1 \in 1 .. Len(Defaults) /\ Top(sec[1].kvs) = Place[cur[1] - 1]
  <1> DEFINE i == cur[1] - 1
  <1>1. /\ 1 \in Sectors /\ Written \in 0 .. Len(Defaults) /\ Top(sec[1].kvs) = Place[Written + 1]
        /\ cur[1] \in 1 .. Len(Defaults) + 1 /\ Len(Defaults) \in Nat
    BY DefaultTop, Consts DEF Inv, DefaultInv
  <1>2. i \in 1 .. Len(Defaults) /\ i = Written + 1
    BY <1>1
  <1>3. /\ Place[i + 1] = Place[i] + Size[Defaults[i].val] /\ Place[i + 1] < Cap
        /\ i >= 2 => Place[i + 1] + Threshold <= Cap
    BY <1>2, PlaceIs
  <1>4. Top(sec[1].kvs) = Place[i]
    BY <1>1, <1>2
  <1>5. i >= 2 <=> Written >= 1
    BY <1>1, <1>2
  <1> HIDE DEF i
  <1>6. /\ Top(sec[1].kvs) + Size[Defaults[i].val] < Cap
        /\ Written >= 1 => Top(sec[1].kvs) + Size[Defaults[i].val] + Threshold <= Cap
    BY <1>3, <1>4, <1>5
  <1> QED BY <1>2, <1>4, <1>6 DEF i

-----------------------------------------------------------------------------
(* Taking the sector of the new entry.                                     *)

\* When GC fills the sector that it moves to, the entry was the last one.
LEMMA LastMoved ==
    ASSUME Inv, pc = "status", put.ret = "gc", sec[put.dst].store = "using",
           Top(sec[put.dst].kvs) <= Kv(sec, gcs).at, Cap - Top(sec[put.dst].kvs) - Size[put.val] < Threshold
    PROVE  gcs[2] = Len(sec[gcs[1]].kvs)
  <1> DEFINE es == sec[gcs[1]].kvs
             i == gcs[2]
             t == Top(sec[put.dst].kvs)
  <1>1. /\ Putting /\ Collecting /\ put.old = gcs /\ put.old # NoAddr /\ put.old \in Addrs(sec) /\ put.dst \in Sectors
        /\ Kv(sec, gcs).val = put.val /\ put.val \in Values
    BY DEF Inv, PutInv, GcInv, Putting, Collecting, Chosen
  <1>2. /\ gcs[1] \in Sectors /\ i \in 1 .. Len(es) /\ Kv(sec, gcs) = es[i] /\ Len(es) \in Nat /\ LayoutOK(es)
        /\ es \in Seq(KvEntries) /\ es[i] \in KvEntries
    BY <1>1, KvType, SectorKvs DEF Inv, RoomInv, Kv
  <1>3. t \in Nat /\ t > 0
    <2>1. sec[put.dst].kvs # << >> /\ LayoutOK(sec[put.dst].kvs) /\ sec[put.dst].kvs \in Seq(KvEntries)
      BY <1>1, SectorKvs DEF Inv, RoomInv
    <2> QED BY <2>1, TopType
  <1>4. es[i].at \in Nat /\ EndOf(es[i]) = es[i].at + Size[put.val] /\ Size[put.val] \in Nat
    BY <1>1, <1>2, EndType, Consts DEF EndOf
  <1> HIDE DEF es, t
  <1>5. SUFFICES ASSUME i # Len(es) PROVE FALSE
    BY DEF es
  <1>6. i + 1 \in 1 .. Len(es) /\ i \in 1 .. (i + 1) - 1
    BY <1>2, <1>5
  <1>7. EndOf(es[i]) <= es[i + 1].at /\ es[i + 1].at \in Nat
    BY <1>2, <1>6, EndType DEF LayoutOK
  <1>8. es[i].at + Size[put.val] + Threshold > Cap
    BY <1>2, <1>3, <1>4, Consts DEF t
  <1>9. ~(i + 1 >= 3)
    <2>1. i + 1 >= 3 => es[i + 1].at + Threshold <= Cap
      BY <1>2, <1>6 DEF LayoutOK
    <2> DEFINE y == es[i + 1].at
    <2> HIDE DEF y
    <2>2. EndOf(es[i]) <= y /\ y \in Nat /\ (i + 1 >= 3 => y + Threshold <= Cap)
      BY <1>7, <2>1 DEF y
    <2> QED BY <1>2, <1>4, <1>8, <2>2, Consts
  <1>10. i = 1 /\ es # << >>
    BY <1>2, <1>9
  <1>11. es[i].at = 0
    BY <1>2, <1>10 DEF LayoutOK
  <1> QED BY <1>2, <1>3, <1>11 DEF t

LEMMA SectorStatusInv ==
    ASSUME Inv, DefaultsFit, SectorStatus
    PROVE  Inv'
  <1> DEFINE s == put.dst
             h == sec[s]
             z == Size[put.val]
             t == Top(h.kvs)
             full == h.store = "using" /\ Remain(s) - z < Threshold
             x == IF full THEN "full" ELSE "using"
  <1>1. /\ pc = "status" /\ pc' = "slot" /\ Putting /\ Chosen /\ ~HasNew /\ s \in Sectors
        /\ put.ret \in {"set", "gc", "def"} /\ put.val \in Values /\ put.key \in Keys
        /\ put = [key |-> put.key, val |-> put.val, old |-> put.old, dst |-> put.dst, full |-> put.full, ret |-> put.ret]
    BY DEF SectorStatus, Inv, PutInv, Putting, Chosen, HasNew
  <1>2. /\ put' = [put EXCEPT !.full = full] /\ StoreWrite(sec, sec', s, x)
        /\ UNCHANGED <<gc_request, in_recovery_check, last_is_complete_del, cache, op, already_gc, gcs, ret, cur, want, crashes>>
    BY DEF SectorStatus, ram, StoreWrite
  <1>3. Settled
    BY <1>1, InvSettled
  <1>4. Remain(s) = Cap - t /\ t \in Nat /\ t < Cap /\ z \in Nat /\ z > 0 /\ (h.store = "empty" => t = 0 /\ h.dirty = "false")
    BY <1>1, <1>3, SettledRemain, Consts
  <1>5. full \in BOOLEAN /\ x \in {"bad", "empty", "using", "full"} /\ x \in {"using", "full"}
    OBVIOUS
  <1>6. full <=> h.store = "using" /\ Cap - t - z < Threshold
    BY <1>4
  <1>6a. h.store \in {"using", "empty"} /\ t + z < Cap
    BY <1>1 DEF Inv, RoomInv
  <1> HIDE DEF full, x
  <1>7. /\ put'.key = put.key /\ put'.val = put.val /\ put'.old = put.old /\ put'.dst = put.dst /\ put'.ret = put.ret
        /\ put'.full = full
        /\ put' = [key |-> put'.key, val |-> put'.val, old |-> put'.old, dst |-> put'.dst, full |-> put'.full, ret |-> put'.ret]
    BY <1>1, <1>2
  <1>8. Reheader(sec, sec') /\ sec'[s].store = x /\ (\A u \in Sectors : sec'[u].dirty = sec[u].dirty)
        /\ (\A u \in Sectors : u # s => sec'[u] = sec[u])
    <2>1. FlashOK(sec)
      BY DEF Inv
    <2> QED BY <1>1, <1>2, <1>5, <2>1, StoreFrame DEF Reheader
  <1>9. Putting' /\ ~HasNew' /\ ~Chosen' /\ (put'.ret = "gc" => Collecting') /\ (Collecting' => put.ret = "gc")
    BY <1>1, <1>2, <1>7 DEF Putting, HasNew, Chosen, Collecting
  <1>10. Empties' = Empties \ {s}
    BY <1>1, <1>5, <1>8 DEF Empties
  <1>11. put.ret = "def" => ~full /\ s = 1
    <2> SUFFICES ASSUME put.ret = "def" PROVE ~full /\ s = 1
      OBVIOUS
    <2>1. Defaulting /\ Written = cur[1] - 2 /\ s = 1 /\ cur[1] >= 2 /\ put.val = Defaults[cur[1] - 1].val
          /\ Len(h.kvs) = Written /\ h.store = IF Written = 0 THEN "empty" ELSE "using"
      BY <1>1 DEF Defaulting, Written, Inv, DefaultInv
    <2>2. Written >= 1 => t + z + Threshold <= Cap
      BY <2>1, NextDefault
    <2>3. Written \in Nat
      BY <2>1, DefaultTop
    <2>4. CASE Written = 0
      BY <2>1, <2>4, <1>6
    <2>5. CASE Written # 0
      <3>1. t + z + Threshold <= Cap
        BY <2>2, <2>3, <2>5
      <3> QED BY <3>1, <2>1, <1>4, <1>6, Consts
    <2> QED BY <2>4, <2>5
  <1>12. FlashOK(sec')
    BY <1>8 DEF Reheader
  <1>13. ControlInv'
    BY <1>1, <1>2, <1>7, <1>9 DEF Inv, ControlInv, Putting, InGc, Collecting, Wiping, Defaulting, Booting
  <1>14. PutInv'
    BY <1>1, <1>2, <1>5, <1>7, <1>8, <1>9, <1>11 DEF Inv, PutInv, OldStatus, Reheader
  <1>15. StatusInv' /\ DirtyInv' /\ LiveInv'
    <2>1. Addrs(sec') = Addrs(sec) /\ \A a \in Addrs(sec) : Kv(sec', a) = Kv(sec, a)
      BY <1>8 DEF Reheader
    <2>2. StatusInv'
      BY <1>1, <1>7, <1>9, <2>1 DEF Inv, StatusInv
    <2>3. DirtyInv'
      BY <1>1, <1>7, <1>8, <2>1, AddrsIs DEF Inv, DirtyInv
    <2>4. LiveInv'
      BY <1>1, <1>7, <1>9, <2>1 DEF Inv, LiveInv
    <2> QED BY <2>2, <2>3, <2>4
  <1>16. CacheInv'
    <2>1. \A a \in Addrs(sec) : Leaving(a) => Leaving(a)'
      BY <1>1, <1>7, <1>9 DEF Leaving
    <2>2. Addrs(sec') = Addrs(sec) /\ \A a \in Addrs(sec) : Kv(sec', a) = Kv(sec, a)
      BY <1>8 DEF Reheader
    <2>3. CacheInv
      BY DEF Inv
    <2> QED BY <1>1, <1>2, <2>1, <2>2, <2>3 DEF CacheInv
  <1>17. RoomInv'
    <2>1. \A u \in Sectors : LayoutOK(sec'[u].kvs) /\ Unwritten(sec'[u])
      BY <1>5, <1>8 DEF Inv, RoomInv, Unwritten, Reheader
    <2>2. /\ h.store = "using" /\ Len(h.kvs) >= 2 => t + Threshold <= Cap
          /\ h.store = "empty" => h.kvs = << >> /\ Len(h.kvs) = 0
      BY <1>1 DEF Inv, RoomInv, Unwritten
    <2>3. sec'[s].kvs = h.kvs /\ \A u \in Sectors : sec'[u].kvs = sec[u].kvs
      BY <1>1, <1>8 DEF Reheader
    <2>4. ASSUME NEW u \in Sectors, sec'[u].store = "using"
          PROVE  /\ sec'[u].kvs # << >> \/ u = s
                 /\ Len(sec'[u].kvs) >= 2 => Top(sec'[u].kvs) + Threshold <= Cap
      <3>1. CASE u = s
        BY <3>1, <2>2, <2>3, <1>6a
      <3>2. CASE u # s
        BY <3>2, <2>4, <1>1, <1>8 DEF Inv, RoomInv
      <3> QED BY <3>1, <3>2
    <2>5. Len(h.kvs) >= 2 => t + Threshold <= Cap
      BY <2>2, <1>6a
    <2>6. sec'[s].store = "using" /\ h.kvs # << >> => t + z + Threshold <= Cap
      <3>1. x = "using" => ~full
        BY <1>5 DEF x
      <3> QED BY <3>1, <2>2, <1>4, <1>6, <1>6a, <1>8, Consts
    <2> QED BY <1>1, <1>5, <1>6a, <1>7, <1>8, <1>9, <2>1, <2>3, <2>4, <2>5, <2>6 DEF RoomInv
  <1>18. WantInv'
    BY <1>2, <1>8 DEF Inv, WantInv, Reheader
  <1>19. SpareInv'
    <2>1. CASE put.ret # "gc"
      <3>1. \E e \in Empties : e # s
        BY <1>1, <2>1 DEF Inv, SpareInv
      <3>2. Empties' # {}
        BY <3>1, <1>10
      <3> QED BY <1>1, <1>7, <1>9, <2>1, <3>2 DEF SpareInv, Booting
    <2>2. CASE put.ret = "gc"
      <3>0. Collecting /\ s # gcs[1] /\ h.dirty = "false" /\ put.old = gcs /\ put.old # NoAddr /\ put.old \in Addrs(sec)
            /\ Kv(sec, gcs).val = put.val
        BY <1>1, <2>2 DEF Inv, GcInv, PutInv, Collecting
      <3>1. gcs[2] # 0 /\ Kv(sec, gcs).at \in Nat /\ EndOf(Kv(sec, gcs)) = Kv(sec, gcs).at + z /\ gcs[1] \in Sectors
        BY <3>0, KvType DEF Inv, EndOf
      <3>2. Emptied' = Kv(sec, gcs).at + z
        BY <3>0, <3>1, <1>2, <1>8 DEF Emptied, Reheader
      <3>3. \A u \in Sectors : \A n : Takes(u, n)' <=> /\ u # gcs[1] /\ sec'[u].store = "using" /\ sec[u].dirty = "false"
                                                       /\ Top(sec[u].kvs) + (IF u = s THEN z ELSE 0) <= n
        BY <1>1, <1>2, <1>7, <1>8 DEF Takes, Reheader
      <3>4. \A u \in Sectors : Top(sec[u].kvs) \in Nat
        BY <1>3, SettledRemain
      <3>5. \/ Empties' # {} \/ (\E e \in Sectors : Takes(e, Emptied)') \/ gcs[2] = Len(sec[gcs[1]].kvs)
        <4>1. CASE h.store = "empty"
          <5>1. sec'[s].store = "using"
            BY <4>1, <1>5, <1>6, <1>8 DEF x
          <5>2. t + z <= Kv(sec, gcs).at + z
            BY <4>1, <3>1, <1>4
          <5>3. ASSUME NEW e \in Sectors, e = s PROVE Takes(e, Emptied)'
            BY <5>1, <5>2, <5>3, <3>0, <3>2, <3>3
          <5> QED BY <5>3, <1>1
        <4>2. CASE h.store = "using" /\ Empties # {}
          <5>1. s \notin Empties
            BY <4>2 DEF Empties
          <5> QED BY <5>1, <4>2, <1>10
        <4>3. CASE h.store = "using" /\ Empties = {}
          <5>1. PICK e \in Sectors : Takes(e, Kv(sec, gcs).at)
            BY <1>1, <2>2, <3>0, <4>3 DEF Inv, SpareInv
          <5>2. e # gcs[1] /\ sec[e].store = "using" /\ sec[e].dirty = "false" /\ Top(sec[e].kvs) + 0 <= Kv(sec, gcs).at
            BY <5>1, <1>1 DEF Takes
          <5>3. CASE e # s
            <6>1. sec'[e].store = "using"
              BY <5>2, <5>3, <1>8
            <6>2. Takes(e, Emptied)'
              BY <6>1, <5>2, <5>3, <3>1, <3>2, <3>3, <3>4, <1>4
            <6> QED BY <6>2
          <5>4. CASE e = s /\ ~full
            <6>1. sec'[e].store = "using"
              BY <5>4, <1>8 DEF x
            <6>2. Takes(e, Emptied)'
              BY <6>1, <5>2, <5>4, <3>1, <3>2, <3>3, <3>4, <1>4
            <6> QED BY <6>2
          <5>5. CASE e = s /\ full
            BY <5>2, <5>5, <1>1, <1>4, <1>6, <2>2, <3>1, LastMoved
          <5> QED BY <5>3, <5>4, <5>5
        <4> QED BY <4>1, <4>2, <4>3, <1>6a
      <3>6. sec'[gcs[1]].kvs = sec[gcs[1]].kvs
        BY <3>1, <1>8 DEF Reheader
      <3> QED BY <1>1, <1>2, <1>7, <2>2, <3>5, <3>6 DEF SpareInv, Booting
    <2> QED BY <2>1, <2>2
  <1>20. GcInv'
    <2>1. put.ret = "gc" => Collecting
      BY <1>1 DEF Collecting
    <2> QED BY <1>1, <1>2, <1>7, <1>8, <1>9, <2>1 DEF Inv, GcInv, Collecting, Reheader
  <1>21. WipeInv' /\ BootInv'
    BY <1>1 DEF WipeInv, BootInv, Wiping, Booting
  <1>22. DefaultInv'
    <2>1. CASE put.ret # "def"
      BY <2>1, <1>1, <1>7 DEF DefaultInv, Defaulting
    <2>2. CASE put.ret = "def"
      <3>1. Defaulting /\ DefaultInv /\ Written' = Written /\ Undecided' = Undecided /\ sec'[1].store = "using"
        BY <2>2, <1>1, <1>2, <1>8, <1>9, <1>11 DEF Defaulting, Inv, Written, Undecided, x
      <3>2. sec'[1].kvs = sec[1].kvs /\ sec'[1].dirty = sec[1].dirty /\ \A u \in Sectors \ {1} : sec'[u] = sec[u]
        BY <2>2, <1>1, <1>8, <1>11 DEF Reheader
      <3> QED BY <3>1, <3>2, <1>1, <1>2, <1>7, <1>9, <1>11, <2>2 DEF DefaultInv
    <2> QED BY <2>1, <2>2
  <1> QED BY <1>12, <1>13, <1>14, <1>15, <1>16, <1>17, <1>18, <1>19, <1>20, <1>21, <1>22 DEF Inv

\* The new entry, whose header is not there yet, lies behind the others.
LEMMA WriteSlotInv ==
    ASSUME Inv, DefaultsFit, WriteSlot
    PROVE  Inv'
  <1> DEFINE d == put.dst
             es == sec[d].kvs
             z == Size[put.val]
             n == <<d, Len(es) + 1>>
             e == [key |-> put.key, val |-> put.val, st |-> "NONE", at |-> Top(es)]
  <1>1. /\ pc = "slot" /\ pc' = "data" /\ Putting /\ ~Chosen /\ ~HasNew /\ d \in Sectors
        /\ put.ret \in {"set", "gc", "def"} /\ put.val \in Values /\ put.key \in Keys
        /\ UNCHANGED <<gc_request, in_recovery_check, last_is_complete_del, cache, op, already_gc, put, gcs,
                       ret, cur, want, crashes>>
    BY DEF WriteSlot, ram, Inv, PutInv, Putting, Chosen, HasNew
  <1>2. Settled
    BY <1>1, InvSettled
  <1>3. /\ Offset(d) = Top(es) /\ Top(es) \in Nat /\ Top(es) < Cap /\ z \in Nat /\ es \in Seq(KvEntries) /\ Len(es) \in Nat
        /\ LayoutOK(es) /\ FlashOK(sec) /\ (es = << >> <=> Len(es) = 0)
    BY <1>1, <1>2, SettledRemain, Consts, SectorKvs DEF Settled
  <1>4. e \in KvEntries /\ e.key = put.key /\ e.val = put.val /\ e.st = "NONE" /\ e.at = Top(es)
    BY <1>1, <1>3 DEF KvEntries, Statuses
  <1>5. EntryWrite(sec, sec', d, e)
    BY <1>3 DEF WriteSlot, EntryWrite
  <1>6. /\ sec[d].store \in {"using", "full"} /\ Top(es) + z < Cap
        /\ Len(es) >= 2 => Top(es) + Threshold <= Cap
        /\ sec[d].store = "using" /\ es # << >> => Top(es) + z + Threshold <= Cap
    BY <1>1 DEF Inv, RoomInv
  <1> HIDE DEF e
  <1>7. /\ FlashOK(sec') /\ Addrs(sec') = Addrs(sec) \cup {n} /\ n \notin Addrs(sec) /\ Kv(sec', n) = e
        /\ \A t \in Sectors : sec'[t].store = sec[t].store /\ sec'[t].dirty = sec[t].dirty
        /\ \A t \in Sectors : t # d => sec'[t] = sec[t]
        /\ sec'[d].kvs = Append(es, e) /\ Len(sec'[d].kvs) = Len(es) + 1
        /\ \A b \in Addrs(sec) : Kv(sec', b) = Kv(sec, b)
    BY <1>1, <1>3, <1>4, <1>5, AppendFrame
  <1>8. LayoutOK(sec'[d].kvs) /\ Top(sec'[d].kvs) = Top(es) + z /\ sec'[d].kvs # << >>
    <2>1. LayoutOK(Append(es, e)) /\ Top(Append(es, e)) = Top(es) + z
      BY <1>3, <1>4, <1>6, AppendLayout
    <2>2. sec'[d].kvs # << >>
      BY <1>1, <1>3, <1>7, SectorKvs
    <2> QED BY <2>1, <2>2, <1>7
  <1>9. New' = n /\ Empties' = Empties /\ HasNew' /\ Putting' /\ ~Chosen'
    BY <1>1, <1>7 DEF New, Empties, HasNew, Putting, Chosen
  <1> HIDE DEF n
  <1>10. put.old # NoAddr => put.old \in Addrs(sec) /\ put.old # n
    BY <1>1, <1>7, PutFacts
  <1>11. ControlInv'
    BY <1>1 DEF Inv, ControlInv, Putting, InGc, Collecting, Wiping, Defaulting, Booting
  <1>12. PutInv'
    BY <1>1, <1>4, <1>7, <1>8, <1>9, <1>10, NoAddrOut DEF Inv, PutInv, OldStatus, NewStatus
  <1>13. StatusInv'
    BY <1>1, <1>7, <1>9 DEF Inv, StatusInv
  <1>14. DirtyInv'
    BY <1>1, <1>4, <1>7, AddrsIs DEF Inv, DirtyInv
  <1>15. LiveInv'
    BY <1>1, <1>4, <1>7, <1>9 DEF Inv, LiveInv
  <1>16. CacheInv'
    <2>1. \A a \in Addrs(sec) : Leaving(a) => Leaving(a)'
      BY <1>1, <1>9 DEF Leaving
    <2>2. CacheInv
      BY DEF Inv
    <2> QED BY <1>1, <1>4, <1>7, <2>1, <2>2 DEF CacheInv
  <1>17. RoomInv'
    <2>1. ASSUME NEW u \in Sectors PROVE LayoutOK(sec'[u].kvs) /\ Unwritten(sec'[u])
      BY <1>6, <1>7, <1>8 DEF Inv, RoomInv, Unwritten
    <2>2. ASSUME NEW u \in Sectors, sec'[u].store = "using"
          PROVE  sec'[u].kvs # << >> /\ (Len(sec'[u].kvs) >= 2 => Top(sec'[u].kvs) + Threshold <= Cap)
      <3>1. CASE u = d
        <4>1. Len(sec'[d].kvs) >= 2 => es # << >>
          BY <1>3, <1>7
        <4> QED BY <3>1, <4>1, <2>2, <1>1, <1>6, <1>7, <1>8
      <3>2. CASE u # d
        BY <3>2, <2>2, <1>1, <1>7 DEF Inv, RoomInv
      <3> QED BY <3>1, <3>2
    <2> QED BY <1>1, <1>9, <2>1, <2>2 DEF RoomInv
  <1>18. WantInv'
    BY <1>1, <1>4, <1>7 DEF Inv, WantInv, Held
  <1>19. SpareInv'
    <2>1. CASE put.ret # "gc"
      BY <2>1, <1>1, <1>9 DEF Inv, SpareInv, Collecting, Booting
    <2>2. CASE put.ret = "gc"
      <3>1. Collecting /\ gcs \in Addrs(sec) /\ gcs[1] \in Sectors /\ d # gcs[1]
        BY <2>2, <1>1, AddrsIs DEF Collecting, Inv, GcInv, PutInv
      <3>2. Emptied' = Emptied /\ sec'[gcs[1]] = sec[gcs[1]]
        BY <3>1, <1>1, <1>7 DEF Emptied
      <3>3. \A u \in Sectors : \A m : Takes(u, m) => Takes(u, m)'
        <4> SUFFICES ASSUME NEW u \in Sectors, NEW m, Takes(u, m) PROVE Takes(u, m)'
          OBVIOUS
        <4>1. CASE u = d
          <5>1. u # gcs[1] /\ sec[u].store = "using" /\ sec[u].dirty = "false" /\ Top(es) + z <= m
            BY <4>1, <1>1 DEF Takes
          <5>2. Top(sec'[u].kvs) + 0 = Top(es) + z
            BY <4>1, <1>3, <1>8
          <5> QED BY <5>1, <5>2, <1>1, <1>7 DEF Takes
        <4>2. CASE u # d
          BY <4>2, <1>1, <1>7 DEF Takes
        <4> QED BY <4>1, <4>2
      <3>4. Empties # {} \/ (\E u \in Sectors : Takes(u, Emptied)) \/ gcs[2] = Len(sec[gcs[1]].kvs)
        BY <3>1, <1>1 DEF Inv, SpareInv
      <3> QED BY <2>2, <1>1, <1>9, <3>2, <3>3, <3>4 DEF SpareInv, Booting
    <2> QED BY <2>1, <2>2
  <1>20. GcInv'
    <2>1. CASE put.ret # "gc"
      BY <2>1, <1>1, <1>9 DEF Inv, GcInv, Collecting
    <2>2. CASE put.ret = "gc"
      <3>1. Collecting /\ Collecting' /\ GcInv
        BY <2>2, <1>1, <1>9 DEF Collecting, Inv
      <3>2. \A a \in Addrs(sec') : a[1] = gcs[1] => a \in Addrs(sec)
        BY <3>1, <1>1, <1>7 DEF GcInv, n
      <3>3. gcs[1] \in Sectors /\ gcs[1] # d
        BY <3>1, <1>1 DEF GcInv
      <3> QED BY <3>1, <3>2, <3>3, <1>1, <1>7, <1>9 DEF GcInv
    <2> QED BY <2>1, <2>2
  <1>21. WipeInv' /\ BootInv'
    BY <1>1 DEF WipeInv, BootInv, Wiping, Booting
  <1>22. DefaultInv'
    <2>1. CASE put.ret # "def"
      BY <2>1, <1>1 DEF DefaultInv, Defaulting
    <2>2. CASE put.ret = "def"
      <3>1. Defaulting /\ DefaultInv /\ d = 1 /\ Written = cur[1] - 2 /\ cur[1] >= 2 /\ Written' = cur[1] - 1
        BY <2>2, <1>1, <1>9 DEF Defaulting, Inv, DefaultInv, Written
      <3>2. /\ cur[1] - 1 \in 1 .. Len(Defaults) /\ Written + 1 = cur[1] - 1 /\ Top(es) = Place[cur[1] - 1]
            /\ Written \in Nat /\ Len(es) = Written /\ Len(Defaults) \in Nat
        BY <3>1, NextDefault, DefaultTop, Consts
      <3>3. ASSUME NEW i \in 1 .. Written + 1
            PROVE  /\ sec'[1].kvs[i].key = Defaults[i].key /\ sec'[1].kvs[i].val = Defaults[i].val
                   /\ sec'[1].kvs[i].at = Place[i]
        <4>1. CASE i = Written + 1
          <5>1. sec'[1].kvs[i] = e
            BY <4>1, <3>1, <3>2, <1>3, <1>7
          <5>2. put.key = Defaults[cur[1] - 1].key /\ put.val = Defaults[cur[1] - 1].val
            BY <3>1, <1>1 DEF DefaultInv
          <5> QED BY <5>1, <5>2, <4>1, <3>2, <1>4
        <4>2. CASE i # Written + 1
          <5>1. i \in 1 .. Written
            BY <4>2, <3>2
          <5>2. sec'[1].kvs[i] = sec[1].kvs[i]
            BY <5>1, <3>1, <3>2, <1>3, <1>7
          <5> QED BY <5>1, <5>2, <3>1 DEF DefaultInv
        <4> QED BY <4>1, <4>2
      <3>4. Undecided'
        BY <3>1, <1>1 DEF DefaultInv, Undecided
      <3>5. /\ sec'[1].dirty = "false" /\ sec'[1].store = "using" /\ Len(sec'[1].kvs) = Written'
            /\ \A u \in Sectors \ {1} : sec'[u] = Clean
        BY <3>1, <3>2, <1>1, <1>7 DEF DefaultInv
      <3>6. Written' = Written + 1 /\ Written' # 0
        BY <3>1, <3>2
      <3> QED BY <3>1, <3>2, <3>3, <3>4, <3>5, <3>6, <1>1, <1>9 DEF DefaultInv
    <2> QED BY <2>1, <2>2
  <1> QED BY <1>7, <1>11, <1>12, <1>13, <1>14, <1>15, <1>16, <1>17, <1>18, <1>19, <1>20, <1>21, <1>22 DEF Inv

-----------------------------------------------------------------------------
(* gc_collect.                                                             *)

\* What holds between two changes, as long as the flash stays as it is.
Quiet == StatusInv /\ DirtyInv /\ LiveInv /\ CacheInv /\ RoomInv /\ WantInv

LEMMA QuietKept ==
    ASSUME Inv, ~Putting, ~Putting', UNCHANGED <<sec, cache>>, \A k \in Keys : want[k] \subseteq want'[k]
    PROVE  FlashOK(sec') /\ PutInv' /\ Quiet'
  <1>0. /\ pc \notin {"status", "slot", "data", "write", "delete", "dirty"}
        /\ pc' \notin {"status", "slot", "data", "write", "delete", "dirty"}
        /\ ~HasNew /\ ~HasNew' /\ ~Chosen /\ ~Chosen'
    BY DEF Putting, HasNew, Chosen
  <1>1. FlashOK(sec') /\ PutInv'
    BY DEF Inv, PutInv
  <1>2. StatusInv' /\ DirtyInv' /\ LiveInv'
    BY <1>0 DEF Inv, StatusInv, DirtyInv, LiveInv
  <1>3. CacheInv'
    BY <1>0 DEF Inv, CacheInv, Leaving
  <1>4. RoomInv'
    BY <1>0 DEF Inv, RoomInv
  <1>5. WantInv'
    <2>1. \A b \in Addrs(sec) : Kv(sec, b).key \in Keys
      BY KvType DEF Inv
    <2> QED BY <2>1 DEF Inv, WantInv
  <1> QED BY <1>1, <1>2, <1>3, <1>4, <1>5 DEF Quiet

LEMMA BlankSector ==
    /\ SectorOK(Bad) /\ SectorOK(Clean) /\ LayoutOK(<< >>) /\ Unwritten(Bad) /\ Unwritten(Clean)
    /\ Bad.kvs = << >> /\ Clean.kvs = << >> /\ Bad.dirty = "false" /\ Clean.dirty = "false"
    /\ Bad.store = "bad" /\ Clean.store = "empty"
    /\ Clean = [store |-> "empty", dirty |-> "false", kvs |-> << >>]
  <1>1. Clean = [store |-> "empty", dirty |-> "false", kvs |-> << >>]
    BY DEF Clean, Bad
  <1>2. Len(<< >>) = 0 /\ << >> \in Seq(KvEntries)
    OBVIOUS
  <1>3. LayoutOK(<< >>)
    BY <1>2 DEF LayoutOK
  <1> QED BY <1>1, <1>2, <1>3 DEF Bad, SectorOK, Unwritten

\* A sector is erased, or formatted, that holds nothing a key needs.
LEMMA ErasedKept ==
    ASSUME Inv, ~Putting, ~Putting', UNCHANGED <<cache, want>>,
           NEW s \in Sectors, NEW h, h = Bad \/ h = Clean, SectorWrite(sec, sec', s, h),
           \A a \in Addrs(sec) : a[1] = s => ~Held(Kv(sec, a).st) \/ None \in want[Kv(sec, a).key]
    PROVE  /\ FlashOK(sec') /\ PutInv' /\ Quiet'
           /\ sec'[s] = h /\ \A t \in Sectors : t # s => sec'[t] = sec[t]
  <1>0. /\ pc \notin {"status", "slot", "data", "write", "delete", "dirty"}
        /\ pc' \notin {"status", "slot", "data", "write", "delete", "dirty"}
        /\ ~HasNew /\ ~HasNew' /\ ~Chosen /\ ~Chosen'
    BY DEF Putting, HasNew, Chosen
  <1>1. /\ FlashOK(sec') /\ Addrs(sec') \subseteq Addrs(sec)
        /\ \A t \in Sectors : t # s => sec'[t] = sec[t]
        /\ sec'[s] = h
        /\ \A b \in Addrs(sec') : Kv(sec', b) = Kv(sec, b) /\ b[1] # s
        /\ \A b \in Addrs(sec) : b[1] # s => b \in Addrs(sec')
    <2>1. FlashOK(sec) /\ SectorOK(h) /\ h.kvs = << >>
      BY BlankSector DEF Inv
    <2> QED BY <2>1, ReplaceFrame
  <1>2. PutInv'
    BY DEF PutInv
  <1>3. StatusInv'
    BY <1>0, <1>1 DEF Inv, StatusInv
  <1>4. DirtyInv'
    BY <1>0, <1>1, AddrsIs DEF Inv, DirtyInv
  <1>5. LiveInv'
    BY <1>0, <1>1 DEF Inv, LiveInv
  <1>6. CacheInv'
    BY <1>0, <1>1 DEF Inv, CacheInv, Leaving
  <1>7. RoomInv'
    <2>1. \A t \in Sectors : LayoutOK(sec'[t].kvs) /\ Unwritten(sec'[t])
      BY <1>1, BlankSector DEF Inv, RoomInv
    <2>2. sec'[s].store # "using"
      BY <1>1, BlankSector
    <2> QED BY <1>0, <1>1, <2>1, <2>2 DEF Inv, RoomInv
  <1>8. WantInv'
    <2>1. \A a \in Addrs(sec') : Held(Kv(sec', a).st) => Kv(sec', a).val \in want'[Kv(sec', a).key]
      BY <1>1 DEF Inv, WantInv
    <2>2. ASSUME NEW k \in Keys, None \notin want[k]
          PROVE  \E a \in Addrs(sec') : Kv(sec', a).key = k /\ Held(Kv(sec', a).st)
      <3>1. PICK a \in Addrs(sec) : Kv(sec, a).key = k /\ Held(Kv(sec, a).st)
        BY <2>2 DEF Inv, WantInv
      <3>2. a \in Addrs(sec')
        BY <2>2, <3>1, <1>1
      <3> QED BY <3>1, <3>2, <1>1
    <2> QED BY <2>1, <2>2 DEF WantInv
  <1> QED BY <1>1, <1>2, <1>3, <1>4, <1>5, <1>6, <1>7, <1>8 DEF Quiet

LEMMA GcStartInv ==
    ASSUME Inv, GcStart
    PROVE  Inv'
  <1>1. /\ pc = "gc" /\ ~Putting /\ InGc /\ gc_request /\ ret \in {"idle", "new"} /\ gcs = <<0, 0>>
        /\ UNCHANGED <<sec, in_recovery_check, last_is_complete_del, cache, op, already_gc, put, gcs, cur, want, crashes>>
        /\ ~Wiping /\ ~Defaulting /\ ~Booting /\ Empties # {} /\ ~in_recovery_check /\ ~last_is_complete_del
    BY DEF GcStart, Inv, ControlInv, GcInv, SpareInv, Putting, InGc, Collecting, Wiping, Defaulting, Booting
  <1>2. CASE Cardinality(Empties) <= 1
    <2>1. pc' = "gcsector" /\ UNCHANGED <<gc_request, ret>>
      BY <1>2 DEF GcStart
    <2>2. ~Putting' /\ Collecting' /\ InGc' /\ ~Wiping' /\ ~Defaulting' /\ ~Booting' /\ ~Chosen'
      BY <2>1 DEF Putting, Collecting, InGc, Wiping, Defaulting, Booting, Chosen
    <2>3. FlashOK(sec') /\ PutInv' /\ Quiet'
      BY <1>1, <2>2, QuietKept
    <2>4. ControlInv'
      BY <1>1, <2>1, <2>2 DEF Inv, ControlInv
    <2>5. SpareInv'
      BY <1>1, <2>1, <2>2 DEF SpareInv, Empties
    <2>6. GcInv'
      BY <1>1, <2>1, <2>2, Consts DEF GcInv, Sectors
    <2>7. WipeInv' /\ DefaultInv' /\ BootInv'
      BY <2>1, <2>2 DEF WipeInv, DefaultInv, BootInv
    <2> QED BY <2>3, <2>4, <2>5, <2>6, <2>7 DEF Inv, Quiet
  <1>3. CASE ~(Cardinality(Empties) <= 1)
    <2>1. pc' = ret /\ ret' = "idle" /\ gc_request' = FALSE /\ ret = "idle"
      BY <1>1, <1>3 DEF GcStart, Inv, GcInv
    <2>2. ~Putting' /\ ~Collecting' /\ ~InGc' /\ ~Wiping' /\ ~Defaulting' /\ ~Booting' /\ ~Chosen'
      BY <2>1 DEF Putting, Collecting, InGc, Wiping, Defaulting, Booting, Chosen
    <2>3. FlashOK(sec') /\ PutInv' /\ Quiet'
      BY <1>1, <2>2, QuietKept
    <2>4. ControlInv'
      BY <1>1, <2>1, <2>2 DEF Inv, ControlInv
    <2>5. SpareInv'
      BY <1>1, <2>1, <2>2 DEF SpareInv, Empties
    <2>6. GcInv'
      BY <1>1, <2>1, <2>2 DEF GcInv
    <2>7. WipeInv' /\ DefaultInv' /\ BootInv'
      BY <2>1, <2>2 DEF WipeInv, DefaultInv, BootInv
    <2> QED BY <2>3, <2>4, <2>5, <2>6, <2>7 DEF Inv, Quiet
  <1> QED BY <1>2, <1>3

LEMMA GcSectorInv ==
    ASSUME Inv, GcSector
    PROVE  Inv'
  <1> DEFINE dirty == {s \in Sectors : s > gcs[1] /\ sec[s].dirty # "false"}
             m == Min(dirty)
  <1>1. /\ pc = "gcsector" /\ ~Putting /\ Collecting /\ InGc /\ gc_request /\ ret \in {"idle", "new"}
        /\ UNCHANGED <<in_recovery_check, last_is_complete_del, cache, op, already_gc, put, cur, want, crashes>>
        /\ Empties # {} /\ ~in_recovery_check /\ ~last_is_complete_del
        /\ gcs[1] \in 0 .. S /\ \A s \in Sectors : s < gcs[1] \/ s = gcs[1] => sec[s].dirty = "false"
    BY DEF GcSector, Inv, ControlInv, GcInv, SpareInv, Putting, InGc, Collecting, Wiping, Defaulting, Booting
  <1>2. Sectors \subseteq Nat /\ gcs[1] \in Nat
    BY <1>1, Consts DEF Sectors
  <1>3. CASE dirty = {}
    <2>1. pc' = ret /\ ret' = "idle" /\ gcs' = <<0, 0>> /\ gc_request' = FALSE /\ UNCHANGED sec
      BY <1>3 DEF GcSector
    <2>2. ~Putting' /\ ~Collecting' /\ ~InGc' /\ ~Wiping' /\ ~Defaulting' /\ ~Booting' /\ ~Chosen'
      BY <1>1, <2>1 DEF Putting, Collecting, InGc, Wiping, Defaulting, Booting, Chosen, Inv, ControlInv
    <2>3. FlashOK(sec') /\ PutInv' /\ Quiet'
      BY <1>1, <2>1, <2>2, QuietKept
    <2>4. ControlInv'
      BY <1>1, <2>1, <2>2 DEF Inv, ControlInv
    <2>5. SpareInv'
      BY <1>1, <2>1, <2>2 DEF SpareInv, Empties
    <2>6. \A s \in Sectors : sec[s].dirty = "false"
      BY <1>1, <1>2, <1>3
    <2>7. GcInv'
      BY <1>1, <2>1, <2>2, <2>6 DEF GcInv
    <2>8. WipeInv' /\ DefaultInv' /\ BootInv'
      BY <1>1, <2>1, <2>2 DEF WipeInv, DefaultInv, BootInv
    <2> QED BY <2>3, <2>4, <2>5, <2>7, <2>8 DEF Inv, Quiet
  <1>4. CASE dirty # {}
    <2>0. m \in dirty /\ \A s \in dirty : m <= s
      BY <1>2, <1>4, MinIs
    <2>1. pc' = "gckv" /\ gcs' = <<m, 0>> /\ UNCHANGED <<gc_request, ret>> /\ DirtyWrite(sec, sec', m, "gc")
      BY <1>4 DEF GcSector, DirtyWrite
    <2>2. m \in Sectors /\ m \in Nat /\ m > gcs[1] /\ sec[m].dirty # "false"
      BY <2>0, <1>2
    <2>3. \A s \in Sectors : s < m => sec[s].dirty = "false"
      BY <2>0, <2>2, <1>1, <1>2
    <2> HIDE DEF m, dirty
    <2>4. /\ FlashOK(sec') /\ Addrs(sec') = Addrs(sec)
          /\ \A t \in Sectors : sec'[t].kvs = sec[t].kvs /\ sec'[t].store = sec[t].store
          /\ \A t \in Sectors : t # m => sec'[t] = sec[t]
          /\ sec'[m].dirty = "gc"
          /\ \A b \in Addrs(sec) : Kv(sec', b) = Kv(sec, b)
      <3>1. FlashOK(sec)
        BY DEF Inv
      <3> QED BY <2>1, <2>2, <3>1, DirtyFrame
    <2>5. /\ ~Putting' /\ Collecting' /\ InGc' /\ ~Wiping' /\ ~Defaulting' /\ ~Booting' /\ ~Chosen' /\ ~HasNew'
          /\ ~HasNew /\ ~Chosen
      BY <1>1, <2>1 DEF Putting, Collecting, InGc, Wiping, Defaulting, Booting, Chosen, HasNew
    <2>6. PutInv' /\ ControlInv'
      BY <1>1, <2>1, <2>5 DEF Inv, PutInv, ControlInv
    <2>7. StatusInv' /\ LiveInv'
      BY <1>1, <2>4, <2>5 DEF Inv, StatusInv, LiveInv
    <2>8. DirtyInv'
      BY <1>1, <2>1, <2>4, AddrsIs DEF Inv, DirtyInv
    <2>9. CacheInv'
      <3>1. \A b : ~Leaving(b)
        BY <1>1 DEF Leaving
      <3>2. CacheInv
        BY DEF Inv
      <3> QED BY <1>1, <2>1, <2>4, <3>1, <3>2 DEF CacheInv
    <2>10. RoomInv'
      <3>1. \A t \in Sectors : Unwritten(sec'[t])
        BY <2>2, <2>4 DEF Inv, RoomInv, Unwritten
      <3> QED BY <1>1, <2>1, <2>4, <2>5, <3>1 DEF Inv, RoomInv
    <2>11. WantInv'
      BY <1>1, <2>4 DEF Inv, WantInv
    <2>12. SpareInv'
      BY <1>1, <2>1, <2>4, <2>5 DEF SpareInv, Empties
    <2>13. GcInv'
      <3>1. gcs'[1] = m /\ gcs'[2] = 0 /\ Len(sec'[m].kvs) \in Nat
        BY <2>1, <2>2, <2>4, SectorKvs
      <3>2. \A a \in Addrs(sec') : ~(a[1] = m /\ a[2] <= 0)
        BY <2>4, KvType DEF Inv
      <3>3. \A s \in Sectors : s < m => sec'[s].dirty = "false"
        BY <2>2, <2>3, <2>4, <1>2
      <3> QED BY <2>1, <2>2, <2>4, <2>5, <3>1, <3>2, <3>3 DEF GcInv
    <2>14. WipeInv' /\ DefaultInv' /\ BootInv'
      BY <2>1, <2>5 DEF WipeInv, DefaultInv, BootInv
    <2> QED BY <2>4, <2>6, <2>7, <2>8, <2>9, <2>10, <2>11, <2>12, <2>13, <2>14 DEF Inv
  <1> QED BY <1>3, <1>4

\* do_gc moves the next valid entry: there is room for it, as the sectors that are
\* filled hold no more than the places behind which it lies.
LEMMA GcKvInv ==
    ASSUME Inv, GcKv
    PROVE  Inv'
  <1> DEFINE g == gcs[1]
             left == {a \in ToMove(g) : Before(gcs, a)}
             a == First(left)
  <1>1. /\ pc = "gckv" /\ ~Putting /\ Collecting /\ InGc /\ gc_request /\ ret \in {"idle", "new"}
        /\ UNCHANGED <<sec, gc_request, in_recovery_check, last_is_complete_del, cache, op, already_gc, ret,
                       cur, want, crashes>>
        /\ ~in_recovery_check /\ ~last_is_complete_del /\ ~HasNew /\ ~Chosen
        /\ g \in Sectors /\ g \in Nat /\ gcs[2] \in Nat /\ gcs = <<g, gcs[2]>> /\ sec[g].dirty = "gc"
        /\ gcs[2] <= Len(sec[g].kvs) /\ FlashOK(sec)
    <2>1. /\ pc = "gckv" /\ ~Putting /\ Collecting /\ InGc /\ ~HasNew /\ ~Chosen /\ ~Wiping /\ ~Defaulting /\ ~Booting
          /\ UNCHANGED <<sec, gc_request, in_recovery_check, last_is_complete_del, cache, op, already_gc, ret,
                         cur, want, crashes>>
      BY DEF GcKv, ram, Putting, InGc, Collecting, HasNew, Chosen, Wiping, Defaulting, Booting
    <2>2. gc_request /\ ret \in {"idle", "new"} /\ ~in_recovery_check /\ ~last_is_complete_del /\ FlashOK(sec)
      BY <2>1 DEF Inv, ControlInv
    <2>3. /\ g \in Sectors /\ gcs[2] \in Nat /\ gcs = <<g, gcs[2]>> /\ sec[g].dirty = "gc"
          /\ gcs[2] <= Len(sec[g].kvs)
      BY <2>1 DEF Inv, GcInv
    <2>4. g \in Nat
      BY <2>3, Consts DEF Sectors
    <2> QED BY <2>1, <2>2, <2>3, <2>4
  <1>2. \A b \in Addrs(sec) : b[1] = g /\ b[2] <= gcs[2] => Kv(sec, b).st = "DELETED"
    BY <1>1 DEF Inv, GcInv
  <1>3. \A b \in Addrs(sec) : Kv(sec, b).st \in {"WRITE", "DELETED"}
    BY <1>1 DEF Inv, StatusInv
  <1>4. \A b \in Addrs(sec) : b[1] = g /\ b[2] > gcs[2] /\ Kv(sec, b).st = "WRITE" => b \in left
    <2> SUFFICES ASSUME NEW b \in Addrs(sec), b[1] = g, b[2] > gcs[2], Kv(sec, b).st = "WRITE" PROVE b \in left
      OBVIOUS
    <2>1. b \in Entries(g) /\ Entry(b) = Kv(sec, b)
      BY <1>1, AllIs, KvType
    <2> QED BY <2>1, <1>1 DEF ToMove, Before
  <1>5. \A b \in left : b \in Addrs(sec) /\ b[1] = g /\ b[2] > gcs[2] /\ Kv(sec, b).st = "WRITE"
    <2> SUFFICES ASSUME NEW b \in left
                 PROVE  b \in Addrs(sec) /\ b[1] = g /\ b[2] > gcs[2] /\ Kv(sec, b).st = "WRITE"
      OBVIOUS
    <2>1. b \in Entries(g) /\ Entry(b).st \in {"WRITE", "PRE_DELETE"} /\ Before(gcs, b)
      BY DEF ToMove
    <2>2. b \in Addrs(sec) /\ b[1] = g /\ Entry(b) = Kv(sec, b)
      BY <2>1, <1>1, AllIs, AddrsIs
    <2> QED BY <2>1, <2>2, <1>1, <1>3, KvType DEF Before
  <1>6. CASE left = {}
    <2>1. pc' = "erase" /\ UNCHANGED <<put, gcs>>
      BY <1>6 DEF GcKv
    <2>2. /\ ~Putting' /\ Collecting' /\ InGc' /\ ~Wiping' /\ ~Defaulting' /\ ~Booting' /\ ~Chosen'
      BY <1>1, <2>1 DEF Putting, Collecting, InGc, Wiping, Defaulting, Booting, Chosen
    <2>3. FlashOK(sec') /\ PutInv' /\ Quiet'
      BY <1>1, <2>1, <2>2, QuietKept
    <2>4. ControlInv'
      BY <1>1, <2>1, <2>2 DEF Inv, ControlInv
    <2>5. SpareInv'
      BY <1>1, <2>1, <2>2 DEF SpareInv
    <2>6. \A b \in Addrs(sec) : b[1] = g => Kv(sec, b).st = "DELETED"
      BY <1>1, <1>2, <1>3, <1>4, <1>6, KvType
    <2>7. GcInv'
      BY <1>1, <2>1, <2>2, <2>6 DEF Inv, GcInv
    <2>8. WipeInv' /\ DefaultInv' /\ BootInv'
      BY <2>1, <2>2 DEF WipeInv, DefaultInv, BootInv
    <2> QED BY <2>3, <2>4, <2>5, <2>7, <2>8 DEF Inv, Quiet
  <1>7. CASE left # {}
    <2>1. a \in left /\ \A b \in left \ {a} : Before(a, b)
      <3>1. left \in SUBSET (Nat \X Nat)
        BY <1>1, <1>5, KvType
      <3> QED BY <3>1, <1>7, FirstIs
    <2>2. a \in Addrs(sec) /\ a[1] = g /\ a[2] > gcs[2] /\ Kv(sec, a).st = "WRITE" /\ Entry(a) = Kv(sec, a)
      BY <2>1, <1>1, <1>5, AllIs
    <2>3. /\ a = <<g, a[2]>> /\ a[2] \in Nat /\ a[2] \in 1 .. Len(sec[g].kvs) /\ Kv(sec, a).key \in Keys
          /\ Kv(sec, a).val \in Values /\ a # NoAddr /\ Len(sec[g].kvs) \in Nat
      BY <2>2, <1>1, KvType, NoAddrOut
    <2>4. move_kv(a, "gc") /\ gcs' = a
      BY <1>7 DEF GcKv
    <2> HIDE DEF a
    <2>5. /\ pc' = "predelete" /\ put'.key = Kv(sec, a).key /\ put'.val = Kv(sec, a).val /\ put'.old = a
          /\ put'.ret = "gc" /\ put'.full = FALSE
          /\ put' = [key |-> put'.key, val |-> put'.val, old |-> put'.old, dst |-> put'.dst, full |-> put'.full,
                     ret |-> put'.ret]
      BY <2>2, <2>4 DEF move_kv, NoPut
    <2>6. /\ Putting' /\ Collecting' /\ InGc' /\ ~Wiping' /\ ~Defaulting' /\ ~Booting' /\ ~Chosen' /\ ~HasNew'
      BY <2>5 DEF Putting, Collecting, InGc, Wiping, Defaulting, Booting, Chosen, HasNew
    <2>7. FlashOK(sec') /\ ControlInv'
      BY <1>1, <2>5, <2>6 DEF Inv, ControlInv
    <2>8. PutInv'
      <3>1. Kv(sec, a).val \in want[Kv(sec, a).key]
        BY <2>2 DEF Inv, WantInv, Held
      <3> QED BY <1>1, <2>2, <2>3, <2>5, <2>6, <3>1 DEF PutInv, OldStatus
    <2>9. StatusInv' /\ DirtyInv'
      BY <1>1, <2>5 DEF Inv, StatusInv, DirtyInv
    <2>10. LiveInv'
      BY <1>1, <2>2, <2>5 DEF Inv, LiveInv
    <2>11. CacheInv'
      <3>1. \A b : ~Leaving(b)
        BY <1>1 DEF Leaving
      <3>2. CacheInv
        BY DEF Inv
      <3> QED BY <1>1, <2>5, <3>1, <3>2 DEF CacheInv
    <2>12. RoomInv'
      BY <1>1, <2>5, <2>6 DEF Inv, RoomInv
    <2>13. WantInv'
      BY <1>1 DEF Inv, WantInv
    <2>14. SpareInv'
      <3>1. Empties # {} \/ (\E e \in Sectors : Takes(e, Emptied)) \/ gcs[2] = Len(sec[g].kvs)
        BY <1>1 DEF Inv, SpareInv
      <3>2. Emptied \in Nat /\ Emptied <= Kv(sec, a).at /\ Kv(sec, a).at \in Nat
        <4>1. CASE gcs[2] = 0
          BY <4>1, <1>1, <2>2, KvType DEF Emptied
        <4>2. CASE gcs[2] # 0
          <5>1. gcs[2] \in 1 .. Len(sec[g].kvs) /\ gcs[2] \in 1 .. a[2] - 1
            BY <4>2, <1>1, <2>2, <2>3
          <5>2. gcs \in Addrs(sec)
            BY <5>1, <1>1, AddrsIs
          <5>3. EndOf(sec[g].kvs[gcs[2]]) <= sec[g].kvs[a[2]].at
            <6>1. LayoutOK(sec[g].kvs)
              BY <1>1 DEF Inv, RoomInv
            <6> QED BY <5>1, <6>1, <2>3 DEF LayoutOK
          <5>4. EndOf(Kv(sec, gcs)) <= Kv(sec, a).at
            BY <5>3, <2>2 DEF Kv
          <5> QED BY <4>2, <5>2, <5>4, <1>1, <2>2, KvType DEF Emptied
        <4> QED BY <4>1, <4>2
      <3>3. ASSUME NEW e \in Sectors, Takes(e, Emptied) PROVE Takes(e, Kv(sec, gcs).at)'
        <4>1. e # g /\ sec[e].store = "using" /\ sec[e].dirty = "false" /\ Top(sec[e].kvs) + 0 <= Emptied
          BY <3>3, <1>1 DEF Takes
        <4>2. Top(sec[e].kvs) \in Nat
          BY <1>1, SectorKvs, TopType DEF Inv, RoomInv
        <4>3. Top(sec[e].kvs) + 0 <= Kv(sec, a).at
          BY <4>1, <4>2, <3>2
        <4> QED BY <4>1, <4>3, <1>1, <2>2, <2>4, <2>5 DEF Takes
      <3>4. gcs[2] # Len(sec[g].kvs)
        BY <1>1, <2>2, <2>3
      <3>5. Empties' = Empties
        BY <1>1 DEF Empties
      <3> QED BY <3>1, <3>3, <3>4, <3>5, <2>5, <2>6 DEF SpareInv
    <2>15. GcInv'
      <3>1. ASSUME NEW b \in Addrs(sec), b[1] = g, b[2] <= a[2] PROVE Kv(sec, b).st = "DELETED" \/ b = a
        <4>1. b = <<b[1], b[2]>> /\ b[2] \in Nat
          BY <1>1, KvType
        <4>2. CASE b[2] <= gcs[2]
          BY <3>1, <4>2, <1>2
        <4>3. CASE b[2] > gcs[2] /\ b # a
          <5>1. b \notin left
            <6>1. b \in left => a[1] < b[1] \/ a[2] < b[2]
              BY <4>3, <2>1 DEF Before
            <6> QED BY <3>1, <4>1, <6>1, <2>2, <2>3, <1>1
          <5> QED BY <3>1, <4>3, <5>1, <1>3, <1>4
        <4> QED BY <4>1, <4>2, <4>3, <1>1
      <3>2. \A s \in Sectors : s < g => sec[s].dirty = "false"
        BY <1>1 DEF Inv, GcInv
      <3> QED BY <1>1, <2>2, <2>3, <2>4, <2>5, <2>6, <3>1, <3>2 DEF GcInv
    <2>16. WipeInv' /\ DefaultInv' /\ BootInv'
      BY <2>5, <2>6 DEF WipeInv, DefaultInv, BootInv
    <2> QED BY <2>7, <2>8, <2>9, <2>10, <2>11, <2>12, <2>13, <2>14, <2>15, <2>16 DEF Inv
  <1> QED BY <1>6, <1>7

LEMMA EraseInv ==
    ASSUME Inv, Erase
    PROVE  Inv'
  <1>1. /\ pc = "erase" /\ pc' = "format" /\ ~Putting /\ Collecting /\ InGc /\ gcs[1] \in Sectors
        /\ UNCHANGED <<gc_request, in_recovery_check, last_is_complete_del, cache, op, already_gc, put, gcs, ret,
                       cur, want, crashes>>
        /\ \A a \in Addrs(sec) : a[1] = gcs[1] => Kv(sec, a).st = "DELETED"
    BY DEF Erase, ram, Inv, GcInv, Putting, InGc, Collecting
  <1>2. ~Putting' /\ Collecting' /\ InGc' /\ ~Wiping' /\ ~Defaulting' /\ ~Booting' /\ ~Chosen'
    BY <1>1 DEF Putting, Collecting, InGc, Wiping, Defaulting, Booting, Chosen
  <1>3. SectorWrite(sec, sec', gcs[1], Bad)
    BY DEF Erase, SectorWrite
  <1>4. \A a \in Addrs(sec) : a[1] = gcs[1] => ~Held(Kv(sec, a).st)
    BY <1>1 DEF Held
  <1>5. FlashOK(sec') /\ PutInv' /\ Quiet' /\ sec'[gcs[1]] = Bad /\ \A t \in Sectors : t # gcs[1] => sec'[t] = sec[t]
    BY <1>1, <1>2, <1>3, <1>4, ErasedKept
  <1>6. ControlInv'
    BY <1>1, <1>2 DEF Inv, ControlInv, Putting, Wiping, Defaulting, Booting
  <1>7. SpareInv'
    BY <1>1, <1>2 DEF SpareInv
  <1>8. GcInv'
    BY <1>1, <1>2, <1>5, Consts DEF Inv, GcInv, Sectors
  <1>9. WipeInv' /\ DefaultInv' /\ BootInv'
    BY <1>1, <1>2 DEF WipeInv, DefaultInv, BootInv
  <1> QED BY <1>5, <1>6, <1>7, <1>8, <1>9 DEF Inv, Quiet

LEMMA FormatInv ==
    ASSUME Inv, Format
    PROVE  Inv'
  <1>1. /\ pc = "format" /\ pc' = "gcsector" /\ ~Putting /\ Collecting /\ InGc /\ gcs[1] \in Sectors
        /\ UNCHANGED <<gc_request, in_recovery_check, last_is_complete_del, cache, op, already_gc, put, gcs, ret,
                       cur, want, crashes>>
        /\ sec[gcs[1]] = Bad
    BY DEF Format, ram, Inv, GcInv, Putting, InGc, Collecting
  <1>2. ~Putting' /\ Collecting' /\ InGc' /\ ~Wiping' /\ ~Defaulting' /\ ~Booting' /\ ~Chosen'
    BY <1>1 DEF Putting, Collecting, InGc, Wiping, Defaulting, Booting, Chosen
  <1>3. SectorWrite(sec, sec', gcs[1], Clean)
    BY DEF Format, SectorWrite
  <1>4. \A a \in Addrs(sec) : a[1] # gcs[1]
    <2>1. Len(sec[gcs[1]].kvs) = 0
      BY <1>1, BlankSector
    <2> QED BY <2>1, AddrsIs
  <1>5. FlashOK(sec') /\ PutInv' /\ Quiet' /\ sec'[gcs[1]] = Clean /\ \A t \in Sectors : t # gcs[1] => sec'[t] = sec[t]
    BY <1>1, <1>2, <1>3, <1>4, ErasedKept
  <1>6. ControlInv'
    BY <1>1, <1>2 DEF Inv, ControlInv, Putting, Wiping, Defaulting, Booting
  <1>7. SpareInv'
    <2>1. gcs[1] \in Empties'
      BY <1>1, <1>5, BlankSector DEF Empties
    <2> QED BY <1>1, <1>2, <2>1 DEF SpareInv
  <1>8. GcInv'
    <2>1. \A s \in Sectors : s < gcs[1] \/ s = gcs[1] => sec'[s].dirty = "false"
      BY <1>1, <1>5, BlankSector DEF Inv, GcInv
    <2> QED BY <1>1, <1>2, <2>1, Consts DEF Inv, GcInv, Sectors
  <1>9. WipeInv' /\ DefaultInv' /\ BootInv'
    BY <1>1, <1>2 DEF WipeInv, DefaultInv, BootInv
  <1> QED BY <1>5, <1>6, <1>7, <1>8, <1>9 DEF Inv, Quiet

-----------------------------------------------------------------------------
(* The interface.                                                          *)

\* A cache entry for a valid entry of the flash.
LEMMA CacheValid ==
    ASSUME Inv, ~Putting, ~Putting', UNCHANGED sec, NEW a \in Addrs(sec), Kv(sec, a).st = "WRITE",
           NEW k \in Keys, cache' = [cache EXCEPT ![k] = <<a[1], Kv(sec, a).at>>]
    PROVE  CacheInv'
  <1>0. pc' \notin {"write", "delete"} /\ (\A b : ~Leaving(b)) /\ pc # "write"
    BY DEF Putting, Leaving
  <1>1. FlashOK(sec) /\ cache = [j \in Keys |-> cache[j]] /\ CacheInv
    BY DEF Inv, CacheInv
  <1>2. /\ cache' = [j \in Keys |-> cache'[j]]
        /\ \A j \in Keys : cache'[j] = IF j = k THEN <<a[1], Kv(sec, a).at>> ELSE cache[j]
    BY <1>1
  <1>3. a[1] \in Sectors
    BY AddrsIs
  <1>4. \A j \in Keys : cache'[j] = NoAddr \/ (cache'[j] = <<cache'[j][1], cache'[j][2]>> /\ cache'[j][1] \in Sectors)
    BY <1>1, <1>2, <1>3 DEF CacheInv
  <1>5. ASSUME NEW b \in Addrs(sec), cache'[Kv(sec, b).key] = <<b[1], Kv(sec, b).at>>
        PROVE  Kv(sec, b).st \in {"NONE", "WRITE"}
    <2>1. Kv(sec, b).key \in Keys
      BY <1>1, KvType
    <2>2. CASE Kv(sec, b).key = k
      <3>1. a[1] = b[1] /\ Kv(sec, a).at = Kv(sec, b).at
        BY <1>2, <1>5, <2>1, <2>2
      <3>2. LayoutOK(sec[a[1]].kvs)
        BY <1>3 DEF Inv, RoomInv
      <3>3. a = b
        BY <1>1, <3>1, <3>2, OtherPlace
      <3> QED BY <3>3
    <2>3. CASE Kv(sec, b).key # k
      <3>1. cache[Kv(sec, b).key] = <<b[1], Kv(sec, b).at>>
        BY <1>2, <1>5, <2>1, <2>3
      <3> QED BY <3>1, <1>0, <1>1 DEF CacheInv
    <2> QED BY <2>2, <2>3
  <1> QED BY <1>0, <1>2, <1>4, <1>5 DEF CacheInv

LEMMA GetInv ==
    ASSUME Inv, NEW k \in Keys, fdb_kv_get(k)
    PROVE  Inv'
  <1>1. /\ pc = "idle" /\ ~Putting /\ ~Putting'
        /\ UNCHANGED <<sec, gc_request, in_recovery_check, last_is_complete_del, pc, op, already_gc, put, gcs, ret,
                       cur, want, crashes>>
    BY DEF fdb_kv_get, Putting
  <1>2. CacheInv'
    <2>1. CASE find_kv(k) = NoAddr
      <3>1. cache' = cache
        BY <2>1 DEF fdb_kv_get
      <3> QED BY <1>1, <3>1, QuietKept DEF Quiet
    <2>2. CASE find_kv(k) # NoAddr
      <3> DEFINE a == find_kv(k)
      <3>1. a \in Addrs(sec) /\ Kv(sec, a).st = "WRITE"
        BY <1>1, <2>2, FindIs
      <3>2. cache' = [cache EXCEPT ![k] = <<a[1], Kv(sec, a).at>>]
        BY <2>2 DEF fdb_kv_get, Address, Entry, Kv
      <3> HIDE DEF a
      <3> QED BY <1>1, <3>1, <3>2, CacheValid
    <2> QED BY <2>1, <2>2
  <1>3. ControlInv'
    BY <1>1 DEF Inv, ControlInv, Putting, InGc, Collecting, Wiping, Defaulting, Booting
  <1>4. FlashOK(sec') /\ PutInv' /\ StatusInv' /\ DirtyInv' /\ LiveInv'
    BY <1>1 DEF Inv, PutInv, StatusInv, DirtyInv, LiveInv, HasNew
  <1>5. RoomInv' /\ WantInv'
    BY <1>1 DEF Inv, RoomInv, Chosen, WantInv
  <1>6. SpareInv' /\ GcInv'
    BY <1>1 DEF Inv, SpareInv, GcInv, Collecting, Putting, Booting, Empties
  <1>7. WipeInv' /\ DefaultInv' /\ BootInv'
    BY <1>1 DEF WipeInv, DefaultInv, BootInv, Wiping, Defaulting, Booting, Putting
  <1> QED BY <1>2, <1>3, <1>4, <1>5, <1>6, <1>7 DEF Inv

\* The database at rest.
LEMMA AtRest ==
    ASSUME Inv, pc = "idle"
    PROVE  /\ ~Putting /\ ~InGc /\ ~Collecting /\ ~gc_request /\ ~in_recovery_check /\ ~last_is_complete_del
           /\ ret = "idle" /\ ~already_gc /\ gcs = <<0, 0>> /\ Empties # {} /\ crashes = 0
           /\ want = [k \in Keys |-> want[k]] /\ ~HasNew
  <1>1. ~Putting /\ ~InGc /\ ~Collecting /\ ~Wiping /\ ~Defaulting /\ ~Booting /\ ~HasNew
    BY DEF Putting, InGc, Collecting, Wiping, Defaulting, Booting, HasNew
  <1> QED BY <1>1 DEF Inv, ControlInv, GcInv, SpareInv

LEMMA SetInv ==
    ASSUME Inv, NEW k \in Keys, NEW v \in Values, fdb_kv_set(k, v)
    PROVE  Inv'
  <1>1. /\ pc = "idle" /\ pc' = "new" /\ op'.key = k /\ op'.val = v /\ op'.ret = "set"
        /\ UNCHANGED <<sec, gc_request, in_recovery_check, last_is_complete_del, cache, already_gc, put, gcs, ret,
                       cur, want, crashes>>
    BY DEF fdb_kv_set, ram
  <1>2. ~Putting' /\ ~InGc' /\ ~Collecting' /\ ~Wiping' /\ ~Defaulting' /\ ~Booting'
    BY <1>1 DEF Putting, InGc, Collecting, Wiping, Defaulting, Booting
  <1>3. FlashOK(sec') /\ PutInv' /\ Quiet'
    BY <1>1, <1>2, AtRest, QuietKept
  <1>4. ControlInv'
    BY <1>1, <1>2, AtRest DEF Inv, ControlInv
  <1>5. SpareInv' /\ GcInv'
    BY <1>1, <1>2, AtRest DEF SpareInv, GcInv, Empties
  <1>6. WipeInv' /\ DefaultInv' /\ BootInv'
    BY <1>1, <1>2 DEF WipeInv, DefaultInv, BootInv
  <1> QED BY <1>3, <1>4, <1>5, <1>6 DEF Inv, Quiet

LEMMA DelInv ==
    ASSUME Inv, NEW k \in Keys, fdb_kv_del(k)
    PROVE  Inv'
  <1> DEFINE a == find_kv(k)
  <1>1. /\ pc = "idle" /\ pc' = "delete" /\ a # NoAddr
        /\ UNCHANGED <<sec, gc_request, in_recovery_check, last_is_complete_del, cache, op, already_gc, gcs, ret,
                       cur, crashes>>
    BY DEF fdb_kv_del, ram
  <1>2. /\ ~Putting /\ ~InGc /\ ~Collecting /\ ~gc_request /\ ~in_recovery_check /\ ~last_is_complete_del
        /\ ret = "idle" /\ ~already_gc /\ gcs = <<0, 0>> /\ Empties # {} /\ crashes = 0
        /\ want = [j \in Keys |-> want[j]] /\ ~HasNew
    BY <1>1, AtRest
  <1>3. a \in Addrs(sec) /\ Kv(sec, a).key = k /\ Kv(sec, a).st = "WRITE"
    BY <1>1, <1>2, FindIs
  <1>4. /\ put'.key = k /\ put'.val = None /\ put'.old = a /\ put'.ret = "del" /\ put'.full = FALSE
        /\ put' = [key |-> put'.key, val |-> put'.val, old |-> put'.old, dst |-> put'.dst, full |-> put'.full,
                   ret |-> put'.ret]
    BY DEF fdb_kv_del, NoPut
  <1>5. /\ want' = [j \in Keys |-> want'[j]] /\ None \in want'[k]
        /\ \A j \in Keys : want[j] \subseteq want'[j]
    BY <1>2 DEF fdb_kv_del
  <1> HIDE DEF a
  <1>6. /\ Putting' /\ ~InGc' /\ ~Collecting' /\ ~Wiping' /\ ~Defaulting' /\ ~Booting' /\ ~HasNew' /\ ~Chosen'
    BY <1>1, <1>4 DEF Putting, InGc, Collecting, Wiping, Defaulting, Booting, HasNew, Chosen
  <1>7. ControlInv' /\ FlashOK(sec')
    <2>1. FlashOK(sec')
      BY <1>1 DEF Inv
    <2>2. ControlInv'
      BY <1>1, <1>2, <1>4, <1>5, <1>6 DEF Inv, ControlInv
    <2> QED BY <2>1, <2>2
  <1>8. PutInv'
    BY <1>1, <1>3, <1>4, <1>5, <1>6 DEF PutInv, OldStatus
  <1>9. StatusInv' /\ DirtyInv'
    BY <1>1, <1>2 DEF Inv, StatusInv, DirtyInv
  <1>10. LiveInv'
    BY <1>1, <1>3, <1>4 DEF Inv, LiveInv
  <1>11. CacheInv'
    <2>1. \A b : ~Leaving(b)
      BY <1>2 DEF Leaving
    <2>2. CacheInv
      BY DEF Inv
    <2> QED BY <1>1, <1>4, <2>1, <2>2 DEF CacheInv
  <1>12. RoomInv'
    BY <1>1, <1>6 DEF Inv, RoomInv
  <1>13. WantInv'
    <2>1. \A b \in Addrs(sec) : Kv(sec, b).key \in Keys
      BY KvType DEF Inv
    <2> QED BY <1>1, <1>5, <2>1 DEF Inv, WantInv
  <1>14. SpareInv' /\ GcInv'
    BY <1>1, <1>2, <1>4, <1>6 DEF SpareInv, GcInv, Empties
  <1>15. WipeInv' /\ DefaultInv' /\ BootInv'
    BY <1>1, <1>6 DEF WipeInv, DefaultInv, BootInv
  <1> QED BY <1>7, <1>8, <1>9, <1>10, <1>11, <1>12, <1>13, <1>14, <1>15 DEF Inv

\* new_kv before it allocates.
LEMMA AtNew ==
    ASSUME Inv, pc = "new"
    PROVE  /\ ~Putting /\ ~InGc /\ ~Collecting /\ ~gc_request /\ ~last_is_complete_del /\ gcs = <<0, 0>>
           /\ ret = "idle" /\ Empties # {} /\ crashes = 0 /\ want = [k \in Keys |-> want[k]] /\ ~HasNew /\ Settled
           /\ op.key \in Keys /\ op.val \in Values /\ op.ret \in {"set", "def"} /\ already_gc \in BOOLEAN
           /\ (op.ret = "set" => ~in_recovery_check) /\ (op.ret = "def" => ~already_gc) /\ in_recovery_check \in BOOLEAN
  <1>1. ~Putting /\ ~InGc /\ ~Collecting /\ ~Wiping /\ (op.ret = "set" => ~Defaulting) /\ ~Booting /\ ~HasNew
    BY DEF Putting, InGc, Collecting, Wiping, Defaulting, Booting, HasNew
  <1>2. Settled
    BY InvSettled
  <1> QED BY <1>1, <1>2 DEF Inv, ControlInv, GcInv, SpareInv

\* The defaults go into the first sector.
LEMMA DefaultAlloc ==
    ASSUME Inv, DefaultsFit, pc = "new", op.ret = "def"
    PROVE  alloc_kv(Size[op.val]) = 1
  <1> DEFINE z == Size[op.val]
  <1>1. Defaulting /\ Written = cur[1] - 2 /\ cur[1] >= 2 /\ op.val = Defaults[cur[1] - 1].val /\ Len(sec[1].kvs) = Written
        /\ sec[1].dirty = "false" /\ (\A s \in Sectors \ {1} : sec[s] = Clean)
        /\ sec[1].store = IF Written = 0 THEN "empty" ELSE "using"
    BY DEF Defaulting, Inv, DefaultInv, Written, HasNew
  <1>2. Settled /\ op.val \in Values /\ z \in Nat /\ z < Cap /\ 1 \in Sectors /\ Sectors \subseteq Nat \ {0} /\ 2 \in Sectors
    BY AtNew, Consts DEF Sectors
  <1>3. Top(sec[1].kvs) + z < Cap
    BY <1>1, NextDefault
  <1>4. CASE Written # 0
    <2>1. 1 \in Room("using", z) /\ Room("using", z) \in SUBSET Nat
      BY <1>1, <1>2, <1>3, <1>4, RoomIs
    <2>2. Min(Room("using", z)) \in Room("using", z) /\ Min(Room("using", z)) <= 1
      BY <2>1, MinIs
    <2>3. Min(Room("using", z)) \in Nat \ {0}
      BY <2>2, <1>2, RoomIs
    <2>4. Min(Room("using", z)) = 1
      <3> DEFINE x == Min(Room("using", z))
      <3> HIDE DEF x
      <3>1. x \in Nat \ {0} /\ x <= 1
        BY <2>2, <2>3 DEF x
      <3>2. x = 1
        BY <3>1
      <3> QED BY <3>2 DEF x
    <2> QED BY <2>1, <2>4 DEF alloc_kv
  <1>5. CASE Written = 0
    <2>1. \A s \in Sectors : sec[s].store = "empty"
      BY <1>1, <1>5, BlankSector
    <2>2. Room("using", z) = {}
      BY <2>1 DEF Room
    <2>3. 1 \in Empties /\ 2 \in Empties
      BY <2>1, <1>2 DEF Empties
    <2>4. Cardinality(Empties) > 1
      <3>1. {1, 2} \subseteq Empties /\ Cardinality({1, 2}) = 2
        <4>1. IsFiniteSet({1}) /\ Cardinality({1}) = 1
          BY FS_Singleton
        <4>2. 2 \notin {1} /\ {1, 2} = {1} \cup {2}
          OBVIOUS
        <4>3. Cardinality({1} \cup {2}) = 2
          BY <4>1, <4>2, FS_AddElement
        <4> QED BY <4>2, <4>3, <2>3
      <3>2. Cardinality({1, 2}) <= Cardinality(Empties)
        BY <3>1, FS_Subset, EmptiesFinite
      <3> QED BY <3>1, <3>2, EmptiesFinite
    <2>5. 1 \in Room("empty", z) /\ Room("empty", z) \in SUBSET Nat
      BY <1>1, <1>2, <1>3, <2>1, RoomIs
    <2>6. Min(Room("empty", z)) \in Room("empty", z) /\ Min(Room("empty", z)) <= 1
      BY <2>5, MinIs
    <2>7. Min(Room("empty", z)) \in Nat \ {0}
      BY <2>6, <1>2, RoomIs
    <2>8. Min(Room("empty", z)) = 1
      <3> DEFINE x == Min(Room("empty", z))
      <3> HIDE DEF x
      <3>1. x \in Nat \ {0} /\ x <= 1
        BY <2>6, <2>7 DEF x
      <3>2. x = 1
        BY <3>1
      <3> QED BY <3>2 DEF x
    <2> QED BY <2>2, <2>4, <2>8 DEF alloc_kv
  <1> QED BY <1>4, <1>5

LEMMA NewInv ==
    ASSUME Inv, DefaultsFit, new_kv
    PROVE  Inv'
  <1> DEFINE s == alloc_kv(Size[op.val])
             old == IF op.ret = "set" THEN find_kv(op.key) ELSE NoAddr
  <1>1. /\ ~Putting /\ ~InGc /\ ~Collecting /\ ~gc_request /\ ~last_is_complete_del /\ gcs = <<0, 0>>
        /\ ret = "idle" /\ Empties # {} /\ crashes = 0 /\ want = [k \in Keys |-> want[k]] /\ ~HasNew /\ Settled
        /\ op.key \in Keys /\ op.val \in Values /\ op.ret \in {"set", "def"} /\ pc = "new"
        /\ (op.ret = "set" => ~in_recovery_check)
    BY AtNew DEF new_kv
  <1>2. /\ s # NoSector /\ pc' = (IF old = NoAddr THEN "status" ELSE "predelete") /\ already_gc' = FALSE
        /\ UNCHANGED <<sec, gc_request, in_recovery_check, last_is_complete_del, cache, op, gcs, ret, cur, crashes>>
    BY DEF new_kv, ram
  <1>3. /\ put'.key = op.key /\ put'.val = op.val /\ put'.old = old /\ put'.dst = s /\ put'.full = FALSE
        /\ put'.ret = op.ret
        /\ put' = [key |-> put'.key, val |-> put'.val, old |-> put'.old, dst |-> put'.dst, full |-> put'.full,
                   ret |-> put'.ret]
    <2> HIDE DEF s, old
    <2>1. put' = [key |-> op.key, val |-> op.val, old |-> old, dst |-> s, full |-> FALSE, ret |-> op.ret]
      BY DEF new_kv, s, old
    <2> QED BY <2>1
  <1>4. /\ want' = [j \in Keys |-> want'[j]] /\ op.val \in want'[op.key]
        /\ \A j \in Keys : want[j] \subseteq want'[j]
    <2>1. want' = [want EXCEPT ![op.key] = @ \cup {op.val}]
      BY DEF new_kv
    <2> QED BY <2>1, <1>1
  <1>5. /\ s \in Sectors /\ sec[s].store \in {"using", "empty"} /\ Top(sec[s].kvs) + Size[op.val] < Cap
        /\ s \in Room("using", Size[op.val]) \/ Cardinality(Empties) > 1
    BY <1>1, <1>2, AllocFound
  <1>6. \E e \in Empties : e # s
    <2>1. CASE s \in Room("using", Size[op.val])
      <3>1. s \notin Empties
        BY <2>1 DEF Room, Empties
      <3> QED BY <3>1, <1>1
    <2>2. CASE Cardinality(Empties) > 1
      BY <2>2, OtherEmpty
    <2> QED BY <2>1, <2>2, <1>5
  <1>7. op.ret = "def" => s = 1
    BY <1>1, DefaultAlloc
  <1>8. /\ old # NoAddr => old \in Addrs(sec) /\ Kv(sec, old).key = op.key /\ Kv(sec, old).st = "WRITE" /\ op.ret = "set"
        /\ \A a \in Addrs(sec) : Kv(sec, a).st = "WRITE" /\ Kv(sec, a).key = op.key => a = old
    <2>1. CASE op.ret = "set"
      <3>1. old = find_kv(op.key)
        BY <2>1
      <3> HIDE DEF old
      <3>2. \/ old = NoAddr /\ \A a \in Addrs(sec) : Kv(sec, a).key = op.key => Kv(sec, a).st # "WRITE"
            \/ old \in Addrs(sec) /\ old # NoAddr /\ Kv(sec, old).key = op.key /\ Kv(sec, old).st = "WRITE"
        BY <3>1, <1>1, FindIs
      <3> QED BY <2>1, <3>2 DEF Inv, LiveInv
    <2>2. CASE op.ret = "def"
      <3>1. old = NoAddr
        BY <2>2
      <3>2. /\ Defaulting /\ Written = cur[1] - 2 /\ op.key = Defaults[cur[1] - 1].key /\ cur[1] >= 2
            /\ \A u \in Sectors \ {1} : sec[u] = Clean
            /\ \A i \in 1 .. Written : sec[1].kvs[i].key = Defaults[i].key
        BY <2>2, <1>1 DEF Defaulting, Inv, DefaultInv, Written
      <3>3. /\ Written \in 0 .. Len(Defaults) /\ Len(sec[1].kvs) = Written /\ cur[1] - 1 \in 1 .. Len(Defaults)
            /\ Written + 1 = cur[1] - 1
        BY <3>2, DefaultTop, NextDefault
      <3>4. ASSUME NEW a \in Addrs(sec), Kv(sec, a).key = op.key PROVE FALSE
        <4>1. a = <<a[1], a[2]>> /\ a[1] \in Sectors /\ a[2] \in 1 .. Len(sec[a[1]].kvs)
          BY AddrsIs
        <4>2. a[1] = 1
          BY <4>1, <3>2, BlankSector
        <4>3. a[2] \in 1 .. Written /\ a[2] \in 1 .. Len(Defaults) /\ a[2] # cur[1] - 1
          BY <4>1, <4>2, <3>3, Consts
        <4>4. Defaults[a[2]].key = Defaults[cur[1] - 1].key
          BY <4>2, <4>3, <3>2, <3>4 DEF Kv
        <4> QED BY <4>3, <4>4, <3>3, PlaceIs
      <3> QED BY <3>1, <3>4
    <2> QED BY <1>1, <2>1, <2>2
  <1> HIDE DEF s, old
  <1>9. /\ Putting' /\ ~InGc' /\ ~Collecting' /\ ~Wiping' /\ ~Booting' /\ ~HasNew' /\ Chosen'
        /\ (op.ret = "def" => pc' = "status" /\ Defaulting /\ Defaulting') /\ (Defaulting' => op.ret = "def")
    BY <1>1, <1>2, <1>3, <1>8 DEF Putting, InGc, Collecting, Wiping, Defaulting, Booting, HasNew, Chosen
  <1>10. FlashOK(sec')
    BY <1>2 DEF Inv
  <1>11. ControlInv'
    BY <1>1, <1>2, <1>3, <1>4, <1>8, <1>9 DEF Inv, ControlInv
  <1>12. PutInv'
    BY <1>1, <1>2, <1>3, <1>4, <1>5, <1>8, <1>9 DEF PutInv, OldStatus
  <1>13. StatusInv' /\ DirtyInv'
    BY <1>1, <1>2 DEF Inv, StatusInv, DirtyInv
  <1>14. LiveInv'
    BY <1>2, <1>3, <1>8 DEF Inv, LiveInv
  <1>15. CacheInv'
    <2>1. \A b : ~Leaving(b)
      BY <1>1 DEF Leaving
    <2>2. CacheInv
      BY DEF Inv
    <2>3. pc' \notin {"write", "delete"}
      BY <1>2
    <2> QED BY <1>1, <1>2, <2>1, <2>2, <2>3 DEF CacheInv
  <1>16. RoomInv'
    BY <1>1, <1>2, <1>3, <1>5 DEF Inv, RoomInv
  <1>17. WantInv'
    <2>1. \A b \in Addrs(sec) : Kv(sec, b).key \in Keys
      BY KvType DEF Inv
    <2> QED BY <1>2, <1>4, <2>1 DEF Inv, WantInv
  <1>18. SpareInv'
    BY <1>2, <1>3, <1>6, <1>9 DEF SpareInv, Empties
  <1>19. GcInv'
    BY <1>1, <1>2, <1>9 DEF GcInv
  <1>20. WipeInv' /\ BootInv'
    BY <1>2, <1>9 DEF WipeInv, BootInv
  <1>21. DefaultInv'
    <2>1. CASE op.ret # "def"
      BY <2>1, <1>9 DEF DefaultInv
    <2>2. CASE op.ret = "def"
      <3>1. DefaultInv /\ Defaulting /\ pc' = "status" /\ Written' = Written
        BY <2>2, <1>1, <1>2, <1>9 DEF Inv, Written
      <3>2. Undecided'
        BY <3>1, <1>4 DEF DefaultInv, Undecided
      <3> QED BY <3>1, <3>2, <2>2, <1>1, <1>2, <1>3, <1>7, <1>9 DEF DefaultInv
    <2> QED BY <2>1, <2>2
  <1> QED BY <1>10, <1>11, <1>12, <1>13, <1>14, <1>15, <1>16, <1>17, <1>18, <1>19, <1>20, <1>21 DEF Inv

\* There is no room: GC, once; then the set is refused.
LEMMA NewFailsInv ==
    ASSUME Inv, DefaultsFit, NewFails
    PROVE  Inv'
  <1>1. /\ ~Putting /\ ~InGc /\ ~Collecting /\ ~gc_request /\ ~last_is_complete_del /\ gcs = <<0, 0>>
        /\ ret = "idle" /\ Empties # {} /\ crashes = 0 /\ want = [k \in Keys |-> want[k]] /\ Settled
        /\ op.key \in Keys /\ op.val \in Values /\ op.ret \in {"set", "def"} /\ pc = "new" /\ already_gc \in BOOLEAN
        /\ (op.ret = "set" => ~in_recovery_check)
        /\ alloc_kv(Size[op.val]) = NoSector
        /\ UNCHANGED <<sec, in_recovery_check, last_is_complete_del, cache, put, gcs, cur, want, crashes>>
    BY AtNew DEF NewFails
  <1>2. op.ret = "set"
    BY <1>1, DefaultAlloc DEF NoSector
  <1>3. AllocRequest(Size[op.val]) /\ Cardinality(Empties) <= 1
    BY <1>1, AllocNot, EmptiesFinite
  <1>4. CASE ~already_gc
    <2>1. pc' = "gc" /\ ret' = "new" /\ already_gc' = TRUE /\ gc_request' = TRUE /\ op' = op
      BY <1>3, <1>4 DEF NewFails
    <2>2. ~Putting' /\ InGc' /\ ~Collecting' /\ ~Wiping' /\ ~Defaulting' /\ ~Booting'
      BY <2>1 DEF Putting, InGc, Collecting, Wiping, Defaulting, Booting
    <2>3. FlashOK(sec') /\ PutInv' /\ Quiet'
      BY <1>1, <2>2, QuietKept
    <2>4. ControlInv'
      BY <1>1, <1>2, <2>1, <2>2 DEF Inv, ControlInv
    <2>5. SpareInv' /\ GcInv'
      BY <1>1, <1>3, <2>1, <2>2 DEF SpareInv, GcInv, Empties
    <2>6. WipeInv' /\ DefaultInv' /\ BootInv'
      BY <2>1, <2>2 DEF WipeInv, DefaultInv, BootInv
    <2> QED BY <2>3, <2>4, <2>5, <2>6 DEF Inv, Quiet
  <1>5. CASE already_gc
    <2>1. pc' = "idle" /\ ret' = ret /\ already_gc' = FALSE /\ gc_request' = FALSE
      BY <1>2, <1>5 DEF NewFails
    <2>2. ~Putting' /\ ~InGc' /\ ~Collecting' /\ ~Wiping' /\ ~Defaulting' /\ ~Booting'
      BY <2>1 DEF Putting, InGc, Collecting, Wiping, Defaulting, Booting
    <2>3. FlashOK(sec') /\ PutInv' /\ Quiet'
      BY <1>1, <2>2, QuietKept
    <2>4. ControlInv'
      BY <1>1, <1>2, <2>1, <2>2 DEF Inv, ControlInv
    <2>5. SpareInv' /\ GcInv'
      BY <1>1, <2>1, <2>2 DEF SpareInv, GcInv, Empties
    <2>6. WipeInv' /\ DefaultInv' /\ BootInv'
      BY <2>1, <2>2 DEF WipeInv, DefaultInv, BootInv
    <2> QED BY <2>3, <2>4, <2>5, <2>6 DEF Inv, Quiet
  <1> QED BY <1>1, <1>4, <1>5

-----------------------------------------------------------------------------
(* fdb_kv_set_default.                                                     *)

LEMMA SetDefaultInv ==
    ASSUME Inv, fdb_kv_set_default
    PROVE  Inv'
  <1>1. /\ pc = "idle" /\ pc' = "wipe" /\ cur' = <<1, 0>>
        /\ want' = [k \in Keys |-> want[k] \cup {None, Default(k)}]
        /\ UNCHANGED <<sec, gc_request, in_recovery_check, last_is_complete_del, cache, op, already_gc, put, gcs, ret,
                       crashes>>
    BY DEF fdb_kv_set_default, ram
  <1>2. /\ want' = [j \in Keys |-> want'[j]] /\ (\A j \in Keys : want[j] \subseteq want'[j])
        /\ \A j \in Keys : None \in want'[j] /\ Default(j) \in want'[j]
    BY <1>1
  <1>3. ~Putting' /\ ~InGc' /\ ~Collecting' /\ Wiping' /\ ~Defaulting' /\ ~Booting'
    BY <1>1 DEF Putting, InGc, Collecting, Wiping, Defaulting, Booting
  <1>4. FlashOK(sec') /\ PutInv' /\ Quiet'
    BY <1>1, <1>2, <1>3, AtRest, QuietKept
  <1>5. ControlInv'
    BY <1>1, <1>2, <1>3, AtRest DEF Inv, ControlInv
  <1>6. SpareInv' /\ GcInv'
    BY <1>1, <1>3, AtRest DEF SpareInv, GcInv
  <1>7. WipeInv'
    <2>1. 1 \in Sectors /\ \A s \in Sectors : ~(s < 1)
      BY Consts DEF Sectors
    <2> QED BY <1>1, <1>2, <2>1 DEF WipeInv, Undecided
  <1>8. DefaultInv' /\ BootInv'
    BY <1>1, <1>3 DEF DefaultInv, BootInv
  <1> QED BY <1>4, <1>5, <1>6, <1>7, <1>8 DEF Inv, Quiet

LEMMA AtWipe ==
    ASSUME Inv, Wiping
    PROVE  /\ ~Putting /\ ~InGc /\ ~Collecting /\ ~gc_request /\ ~last_is_complete_del /\ gcs = <<0, 0>>
           /\ ret = "idle" /\ ~already_gc /\ crashes = 0 /\ want = [k \in Keys |-> want[k]]
           /\ cur[1] \in Sectors /\ cur[1] \in Nat /\ Undecided /\ in_recovery_check \in BOOLEAN
           /\ \A a \in Addrs(sec) : None \in want[Kv(sec, a).key]
  <1>1. ~Putting /\ ~InGc /\ ~Collecting /\ pc # "new"
    BY DEF Putting, InGc, Collecting, Wiping
  <1>2. cur[1] \in Sectors /\ cur[1] \in Nat /\ Undecided
    BY Consts DEF Inv, WipeInv, Sectors
  <1>3. \A a \in Addrs(sec) : None \in want[Kv(sec, a).key]
    BY <1>2, KvType DEF Inv, Undecided
  <1> QED BY <1>1, <1>2, <1>3 DEF Inv, ControlInv, GcInv

LEMMA WipeStepInv ==
    ASSUME Inv, Wipe
    PROVE  Inv'
  <1>1. /\ pc = "wipe" /\ pc' = "wiped" /\ Wiping /\ SectorWrite(sec, sec', cur[1], Bad)
        /\ UNCHANGED <<gc_request, in_recovery_check, last_is_complete_del, cache, op, already_gc, put, gcs, ret,
                       cur, want, crashes>>
    BY DEF Wipe, ram, SectorWrite, Wiping
  <1>2. ~Putting' /\ ~InGc' /\ ~Collecting' /\ Wiping' /\ ~Defaulting' /\ ~Booting'
    BY <1>1 DEF Putting, InGc, Collecting, Wiping, Defaulting, Booting
  <1>3. /\ ~Putting /\ ~InGc /\ ~Collecting /\ ~gc_request /\ ~last_is_complete_del /\ gcs = <<0, 0>>
        /\ ret = "idle" /\ ~already_gc /\ crashes = 0 /\ want = [k \in Keys |-> want[k]]
        /\ cur[1] \in Sectors /\ cur[1] \in Nat /\ Undecided
        /\ \A a \in Addrs(sec) : None \in want[Kv(sec, a).key]
    BY <1>1, AtWipe
  <1>4. /\ FlashOK(sec') /\ PutInv' /\ Quiet'
        /\ sec'[cur[1]] = Bad /\ \A t \in Sectors : t # cur[1] => sec'[t] = sec[t]
    BY <1>1, <1>2, <1>3, ErasedKept
  <1>5. ControlInv'
    BY <1>1, <1>2, <1>3 DEF Inv, ControlInv
  <1>6. SpareInv' /\ GcInv'
    BY <1>1, <1>2, <1>3 DEF SpareInv, GcInv
  <1>7. WipeInv'
    <2>1. \A s \in Sectors : s < cur[1] => sec'[s] = Clean
      BY <1>1, <1>3, <1>4, Consts DEF Inv, WipeInv, Sectors
    <2>2. Undecided'
      BY <1>1, <1>3 DEF Undecided
    <2> QED BY <1>1, <1>4, <2>1, <2>2 DEF Inv, WipeInv
  <1>8. DefaultInv' /\ BootInv'
    BY <1>1, <1>2 DEF DefaultInv, BootInv
  <1> QED BY <1>4, <1>5, <1>6, <1>7, <1>8 DEF Inv, Quiet

LEMMA WipedInv ==
    ASSUME Inv, Wiped
    PROVE  Inv'
  <1>1. /\ pc = "wiped" /\ Wiping /\ SectorWrite(sec, sec', cur[1], Clean)
        /\ pc' = IF cur[1] = S THEN "default" ELSE "wipe"
        /\ cur' = IF cur[1] = S THEN <<1, 0>> ELSE <<cur[1] + 1, 0>>
        /\ UNCHANGED <<gc_request, in_recovery_check, last_is_complete_del, cache, op, already_gc, put, gcs, ret,
                       want, crashes>>
    BY DEF Wiped, ram, SectorWrite, Wiping
  <1>2. ~Putting' /\ ~InGc' /\ ~Collecting' /\ (Wiping' \/ Defaulting') /\ ~Booting' /\ ~HasNew'
    BY <1>1 DEF Putting, InGc, Collecting, Wiping, Defaulting, Booting, HasNew
  <1>3. /\ ~Putting /\ ~InGc /\ ~Collecting /\ ~gc_request /\ ~last_is_complete_del /\ gcs = <<0, 0>>
        /\ ret = "idle" /\ ~already_gc /\ crashes = 0 /\ want = [k \in Keys |-> want[k]]
        /\ cur[1] \in Sectors /\ cur[1] \in Nat /\ Undecided
        /\ \A a \in Addrs(sec) : None \in want[Kv(sec, a).key]
    BY <1>1, AtWipe
  <1>4. /\ FlashOK(sec') /\ PutInv' /\ Quiet'
        /\ sec'[cur[1]] = Clean /\ \A t \in Sectors : t # cur[1] => sec'[t] = sec[t]
    BY <1>1, <1>2, <1>3, ErasedKept
  <1>5. ControlInv'
    BY <1>1, <1>2, <1>3 DEF Inv, ControlInv
  <1>6. \A s \in Sectors : s <= cur[1] => sec'[s] = Clean
    BY <1>1, <1>3, <1>4, Consts DEF Inv, WipeInv, Sectors
  <1>7. 1 \in Sectors /\ sec'[1] = Clean /\ Undecided'
    BY <1>1, <1>3, <1>6, Consts DEF Sectors, Undecided
  <1>8. SpareInv' /\ GcInv'
    <2>1. 1 \in Empties'
      BY <1>7, BlankSector DEF Empties
    <2> QED BY <1>1, <1>2, <1>3, <2>1 DEF SpareInv, GcInv
  <1>9. WipeInv'
    <2>1. CASE cur[1] = S
      BY <2>1, <1>1 DEF WipeInv, Wiping
    <2>2. CASE cur[1] # S
      <3>1. cur[1] + 1 \in Sectors /\ \A s \in Sectors : s < cur[1] + 1 => sec'[s] = Clean
        BY <2>2, <1>3, <1>6, Consts DEF Sectors
      <3>2. cur' = <<cur[1] + 1, 0>> /\ pc' = "wipe"
        BY <2>2, <1>1
      <3> QED BY <3>1, <3>2, <1>7 DEF WipeInv
    <2> QED BY <2>1, <2>2
  <1>10. DefaultInv'
    <2>1. CASE cur[1] = S
      <3>1. cur' = <<1, 0>> /\ pc' = "default" /\ \A s \in Sectors : sec'[s] = Clean
        BY <2>1, <1>1, <1>3, <1>6, Consts DEF Sectors
      <3>2. Written' = 0 /\ 1 \in 1 .. Len(Defaults) + 1
        BY <3>1, Consts DEF Written
      <3>3. Len(sec'[1].kvs) = 0 /\ sec'[1].dirty = "false" /\ sec'[1].store = "empty"
        BY <1>7, BlankSector
      <3> QED BY <3>1, <3>2, <3>3, <1>2, <1>7 DEF DefaultInv
    <2>2. CASE cur[1] # S
      BY <2>2, <1>1 DEF DefaultInv, Defaulting, Putting
    <2> QED BY <2>1, <2>2
  <1>11. BootInv'
    BY <1>1, <1>2 DEF BootInv
  <1> QED BY <1>4, <1>5, <1>8, <1>9, <1>10, <1>11 DEF Inv, Quiet

\* A key has the value of its default, or none.
LEMMA DefaultIs ==
    ASSUME DefaultsFit
    PROVE  /\ \A i \in 1 .. Len(Defaults) : Default(Defaults[i].key) = Defaults[i].val
           /\ \A k : (\A i \in 1 .. Len(Defaults) : Defaults[i].key # k) => Default(k) = None
  <1>0. DOMAIN Defaults = 1 .. Len(Defaults)
    BY DefaultAssumption
  <1>1. ASSUME NEW i \in 1 .. Len(Defaults) PROVE Default(Defaults[i].key) = Defaults[i].val
    <2>1. {j \in DOMAIN Defaults : Defaults[j].key = Defaults[i].key} = {i}
      BY <1>0, PlaceIs
    <2>2. Max({i}) = i
      BY Consts DEF Max
    <2> QED BY <2>1, <2>2 DEF Default
  <1>2. ASSUME NEW k, \A i \in 1 .. Len(Defaults) : Defaults[i].key # k PROVE Default(k) = None
    <2>1. {j \in DOMAIN Defaults : Defaults[j].key = k} = {}
      BY <1>0, <1>2
    <2> QED BY <2>1 DEF Default
  <1> QED BY <1>1, <1>2

LEMMA CreateDefaultInv ==
    ASSUME Inv, DefaultsFit, CreateDefault
    PROVE  Inv'
  <1> DEFINE n == Len(Defaults)
             c == cur[1]
  <1>1. /\ pc = "default" /\ Defaulting /\ ~Putting /\ ~InGc /\ ~Collecting /\ ~HasNew
        /\ UNCHANGED <<sec, gc_request, in_recovery_check, last_is_complete_del, cache, already_gc, put, gcs, ret, crashes>>
    BY DEF CreateDefault, ram, Putting, InGc, Collecting, Defaulting, HasNew
  <1>2. /\ ~gc_request /\ ~last_is_complete_del /\ gcs = <<0, 0>> /\ Empties # {} /\ in_recovery_check \in BOOLEAN
        /\ ret = "idle" /\ ~already_gc /\ crashes = 0 /\ want = [k \in Keys |-> want[k]]
    BY <1>1 DEF Inv, ControlInv, GcInv, SpareInv
  <1>3. /\ cur = <<c, cur[2]>> /\ c \in 1 .. n + 1 /\ Undecided /\ Written = c - 1 /\ n \in Nat /\ c \in Nat
        /\ \A s \in Sectors \ {1} : sec[s] = Clean
        /\ sec[1].dirty = "false" /\ Len(sec[1].kvs) = c - 1
        /\ \A i \in 1 .. c - 1 : sec[1].kvs[i].key = Defaults[i].key /\ sec[1].kvs[i].val = Defaults[i].val
    BY <1>1, Consts DEF Inv, DefaultInv, Written
  <1>4. CASE c > n
    <2>1. /\ pc' = (IF in_recovery_check THEN "gcs" ELSE "idle") /\ cur' = <<1, 0>> /\ op' = op
          /\ want' = [k \in Keys |-> {Default(k)}]
      BY <1>4 DEF CreateDefault
    <2>2. ~Putting' /\ ~InGc' /\ ~Collecting' /\ ~Wiping' /\ ~Defaulting' /\ ~HasNew' /\ ~Chosen'
          /\ (Booting' => in_recovery_check) /\ (in_recovery_check => Booting')
      BY <2>1 DEF Putting, InGc, Collecting, Wiping, Defaulting, Booting, HasNew, Chosen
    <2>3. c - 1 = n
      BY <1>3, <1>4
    <2>4. FlashOK(sec') /\ PutInv' /\ StatusInv' /\ DirtyInv' /\ LiveInv'
      BY <1>1, <2>1, <2>2 DEF Inv, PutInv, StatusInv, DirtyInv, LiveInv
    <2>5. CacheInv'
      <3>1. \A b : ~Leaving(b)
        BY <1>1 DEF Leaving
      <3>2. CacheInv
        BY DEF Inv
      <3>3. pc' \notin {"write", "delete"}
        BY <2>1
      <3> QED BY <1>1, <3>1, <3>2, <3>3 DEF CacheInv
    <2>6. RoomInv'
      BY <1>1, <2>1, <2>2 DEF Inv, RoomInv
    <2>7. WantInv'
      <3>1. ASSUME NEW a \in Addrs(sec) PROVE Kv(sec, a).val \in want'[Kv(sec, a).key]
        <4>1. a = <<a[1], a[2]>> /\ a[1] \in Sectors /\ a[2] \in 1 .. Len(sec[a[1]].kvs) /\ Kv(sec, a).key \in Keys
          BY KvType DEF Inv
        <4>2. a[1] = 1
          BY <4>1, <1>3, BlankSector
        <4>3. a[2] \in 1 .. n /\ Kv(sec, a).key = Defaults[a[2]].key /\ Kv(sec, a).val = Defaults[a[2]].val
          BY <4>1, <4>2, <1>3, <2>3 DEF Kv
        <4> QED BY <4>1, <4>3, <2>1, DefaultIs
      <3>2. ASSUME NEW k \in Keys
            PROVE  None \in want'[k] \/ \E a \in Addrs(sec) : Kv(sec, a).key = k /\ Held(Kv(sec, a).st)
        <4>1. CASE \A i \in 1 .. n : Defaults[i].key # k
          BY <4>1, <2>1, DefaultIs
        <4>2. ASSUME NEW i \in 1 .. n, Defaults[i].key = k
              PROVE  \E a \in Addrs(sec) : Kv(sec, a).key = k /\ Held(Kv(sec, a).st)
          <5>1. 1 \in Sectors /\ FlashOK(sec) /\ i \in 1 .. Len(sec[1].kvs)
            BY <1>3, <2>3, Consts DEF Inv, Sectors
          <5>2. <<1, i>> \in Addrs(sec) /\ Kv(sec, <<1, i>>) = sec[1].kvs[i]
            BY <5>1, InSector
          <5>3. Kv(sec, <<1, i>>).key = k
            BY <5>2, <4>2, <1>3, <2>3
          <5>4. Kv(sec, <<1, i>>).st = "WRITE"
            <6> DEFINE a == <<1, i>>
            <6>1. Kv(sec, a).st \in {"WRITE", "DELETED"}
              BY <5>2, <1>1 DEF Inv, StatusInv
            <6>2. Kv(sec, a).st = "DELETED" => sec[a[1]].dirty # "false"
              BY <5>2, <1>1 DEF Inv, DirtyInv
            <6> QED BY <6>1, <6>2, <1>3
          <5> QED BY <5>2, <5>3, <5>4 DEF Held
        <4> QED BY <4>1, <4>2
      <3> QED BY <1>1, <3>1, <3>2 DEF WantInv
    <2>8. ControlInv'
      <3>1. want' = [k \in Keys |-> want'[k]]
        BY <2>1
      <3> QED BY <1>1, <1>2, <2>1, <2>2, <3>1 DEF Inv, ControlInv
    <2>9. SpareInv' /\ GcInv'
      BY <1>1, <1>2, <2>1, <2>2 DEF SpareInv, GcInv, Empties
    <2>10. WipeInv' /\ DefaultInv'
      BY <2>2 DEF WipeInv, DefaultInv
    <2>11. BootInv'
      <3>1. \A s \in Sectors : sec'[s].dirty = "false"
        BY <1>1, <1>3, BlankSector
      <3> QED BY <2>1, <3>1 DEF BootInv
    <2> QED BY <2>4, <2>5, <2>6, <2>7, <2>8, <2>9, <2>10, <2>11 DEF Inv
  <1>5. CASE ~(c > n)
    <2>1. /\ pc' = "new" /\ cur' = <<c + 1, 0>> /\ want' = want
          /\ op'.key = Defaults[c].key /\ op'.val = Defaults[c].val /\ op'.ret = "def"
      BY <1>5 DEF CreateDefault
    <2>2. ~Putting' /\ ~InGc' /\ ~Collecting' /\ ~Wiping' /\ Defaulting' /\ ~HasNew' /\ ~Booting'
      BY <2>1 DEF Putting, InGc, Collecting, Wiping, Defaulting, Booting, HasNew
    <2>3. FlashOK(sec') /\ PutInv' /\ Quiet'
      BY <1>1, <2>1, <2>2, QuietKept
    <2>4. c \in 1 .. n /\ Defaults[c].key \in Keys /\ Defaults[c].val \in Values
      BY <1>3, <1>5, Consts
    <2>5. ControlInv'
      BY <1>1, <1>2, <2>1, <2>2, <2>4 DEF Inv, ControlInv
    <2>6. SpareInv' /\ GcInv'
      BY <1>1, <1>2, <2>1, <2>2 DEF SpareInv, GcInv, Empties
    <2>7. WipeInv' /\ BootInv'
      BY <2>1, <2>2 DEF WipeInv, BootInv
    <2>8. DefaultInv'
      <3>1. /\ Written' = (c + 1) - 2 /\ (c + 1) - 2 = c - 1 /\ (c + 1) - 1 = c /\ c + 1 \in 1 .. n + 1 /\ c + 1 >= 2
        BY <1>3, <2>1, <2>2, <2>4 DEF Written
      <3>2. Undecided' /\ DefaultInv /\ cur'[1] = c + 1 /\ Written' = Written
        BY <1>1, <1>3, <2>1, <3>1 DEF Undecided, Inv
      <3> HIDE DEF c, n
      <3>3. cur'[1] - 1 = c
        BY <3>1, <3>2
      <3> QED BY <1>1, <2>1, <2>2, <3>1, <3>2, <3>3 DEF DefaultInv, n
    <2> QED BY <2>3, <2>5, <2>6, <2>7, <2>8 DEF Inv, Quiet
  <1> QED BY <1>4, <1>5

-----------------------------------------------------------------------------
(* _fdb_kv_load of a flash on which nothing was interrupted.               *)

LEMMA InitStepInv ==
    ASSUME Inv, fdb_kvdb_init
    PROVE  Inv'
  <1>1. /\ pc = "off" /\ pc' = "headers" /\ in_recovery_check' = TRUE /\ cur' = <<1, 0>>
        /\ UNCHANGED <<gc_request, last_is_complete_del, cache, already_gc, put, gcs, ret, want, crashes>>
        /\ op'.ret = (IF \A s \in Sectors : sec[s].store = "bad" THEN "blank" ELSE None)
        /\ sec' = [s \in Sectors |-> Spoil(s)]
    BY DEF fdb_kvdb_init, NoOp
  <1>2. ~Putting /\ ~InGc /\ ~Collecting
    BY <1>1 DEF Putting, InGc, Collecting
  <1>3. ~Putting' /\ ~InGc' /\ ~Collecting' /\ ~Wiping' /\ ~Defaulting' /\ ~Booting' /\ ~HasNew'
    BY <1>1 DEF Putting, InGc, Collecting, Wiping, Defaulting, Booting, HasNew
  <1>4. /\ ~gc_request /\ ~last_is_complete_del /\ gcs = <<0, 0>> /\ ret = "idle" /\ ~already_gc /\ crashes = 0
        /\ want = [k \in Keys |-> want[k]] /\ FlashOK(sec)
    BY <1>1, <1>2 DEF Inv, ControlInv, GcInv
  <1>5. (\A s \in Sectors : sec[s] = IF Start = "blank" THEN Bad ELSE Clean) /\ (Start = "blank" => Undecided)
    BY <1>1 DEF Inv, BootInv
  <1>6. sec' = sec
    <2>1. \A s \in Sectors : Spoil(s) = sec[s]
      BY <1>5, BlankSector DEF Spoil
    <2>2. sec = [s \in Sectors |-> sec[s]]
      BY <1>4 DEF FlashOK
    <2> QED BY <1>1, <2>1, <2>2
  <1>7. FlashOK(sec') /\ PutInv' /\ Quiet'
    BY <1>1, <1>2, <1>3, <1>6, QuietKept
  <1>8. ControlInv'
    BY <1>1, <1>3, <1>4 DEF Inv, ControlInv
  <1>9. SpareInv' /\ GcInv' /\ WipeInv' /\ DefaultInv'
    BY <1>1, <1>3, <1>4 DEF SpareInv, GcInv, WipeInv, DefaultInv
  <1>10. BootInv'
    <2>1. CASE Start = "blank"
      <3>1. op'.ret = "blank" /\ Undecided' /\ \A s \in Sectors : sec'[s] = Bad
        BY <2>1, <1>1, <1>5, <1>6, BlankSector DEF Undecided
      <3> QED BY <3>1, <1>1, <1>3 DEF BootInv
    <2>2. CASE Start # "blank"
      <3>1. 1 \in Sectors /\ \A s \in Sectors : sec[s] = Clean
        BY <2>2, <1>5, Consts DEF Sectors
      <3>2. op'.ret # "blank"
        BY <3>1, <1>1, BlankSector DEF None
      <3> QED BY <3>1, <3>2, <1>1, <1>3, <1>6 DEF BootInv
    <2> QED BY <2>1, <2>2
  <1> QED BY <1>7, <1>8, <1>9, <1>10 DEF Inv, Quiet

LEMMA CheckHeadersInv ==
    ASSUME Inv, CheckHeaders
    PROVE  Inv'
  <1> DEFINE bad == {s \in Sectors : sec[s].store = "bad"}
  <1>1. /\ pc = "headers" /\ UNCHANGED <<gc_request, in_recovery_check, last_is_complete_del, cache, already_gc, put,
                                         gcs, ret, cur, want, crashes>>
    BY DEF CheckHeaders, ram
  <1>2. ~Putting /\ ~InGc /\ ~Collecting /\ ~Wiping /\ ~Defaulting /\ ~Booting
    BY <1>1 DEF Putting, InGc, Collecting, Wiping, Defaulting, Booting
  <1>3. /\ ~gc_request /\ ~last_is_complete_del /\ gcs = <<0, 0>> /\ ret = "idle" /\ ~already_gc /\ crashes = 0
        /\ want = [k \in Keys |-> want[k]] /\ FlashOK(sec)
    BY <1>1, <1>2 DEF Inv, ControlInv, GcInv
  <1>4. /\ \A s \in Sectors : sec[s] = Clean \/ (op.ret = "blank" /\ sec[s] = Bad)
        /\ op.ret = "blank" => Undecided
        /\ cur = <<1, 0>> /\ in_recovery_check
    BY <1>1 DEF Inv, BootInv
  <1>5. Sectors \subseteq Nat /\ 1 \in Sectors /\ bad \in SUBSET Nat
    BY Consts DEF Sectors
  <1>6. CASE bad # {}
    <2> DEFINE m == Min(bad)
    <2>1. m \in Sectors
      BY <1>5, <1>6, MinIs
    <2>2. SectorWrite(sec, sec', m, Clean) /\ UNCHANGED <<pc, op>>
      BY <1>6 DEF CheckHeaders, SectorWrite
    <2> HIDE DEF m
    <2>3. ~Putting' /\ ~InGc' /\ ~Collecting' /\ ~Wiping' /\ ~Defaulting' /\ ~Booting' /\ ~HasNew'
      BY <1>1, <2>2 DEF Putting, InGc, Collecting, Wiping, Defaulting, Booting, HasNew
    <2>4. \A a \in Addrs(sec) : a[1] # m
      <3>1. Len(sec[m].kvs) = 0
        BY <2>1, <1>4, BlankSector
      <3> QED BY <3>1, AddrsIs
    <2>5. FlashOK(sec') /\ PutInv' /\ Quiet' /\ sec'[m] = Clean /\ \A t \in Sectors : t # m => sec'[t] = sec[t]
      BY <1>1, <1>2, <2>1, <2>2, <2>3, <2>4, ErasedKept
    <2>6. ControlInv'
      BY <1>1, <1>3, <2>2, <2>3 DEF Inv, ControlInv
    <2>7. SpareInv' /\ GcInv' /\ WipeInv' /\ DefaultInv'
      BY <1>1, <1>3, <2>2, <2>3 DEF SpareInv, GcInv, WipeInv, DefaultInv
    <2>8. BootInv'
      BY <1>1, <1>4, <2>2, <2>3, <2>5 DEF BootInv, Undecided
    <2> QED BY <2>5, <2>6, <2>7, <2>8 DEF Inv, Quiet
  <1>7. CASE bad = {}
    <2>1. pc' = (IF op.ret = "blank" THEN "wipe" ELSE "gcs") /\ op' = NoOp /\ sec' = sec
      BY <1>7 DEF CheckHeaders
    <2>2. \A s \in Sectors : sec[s] = Clean
      BY <1>4, <1>7, BlankSector
    <2>3. /\ ~Putting' /\ ~InGc' /\ ~Collecting' /\ ~Defaulting' /\ ~HasNew' /\ ~Chosen' /\ (Wiping' \/ Booting')
          /\ (Wiping' => op.ret = "blank")
      BY <2>1 DEF Putting, InGc, Collecting, Wiping, Defaulting, Booting, HasNew, Chosen
    <2>4. FlashOK(sec') /\ PutInv' /\ Quiet'
      BY <1>1, <1>2, <2>1, <2>3, QuietKept
    <2>6. ControlInv'
      BY <1>1, <1>3, <1>4, <2>1, <2>3 DEF Inv, ControlInv
    <2>7. SpareInv' /\ GcInv'
      <3>1. 1 \in Empties'
        BY <2>1, <2>2, <1>5, BlankSector DEF Empties
      <3> QED BY <1>1, <1>3, <2>1, <2>3, <3>1 DEF SpareInv, GcInv
    <2>8. WipeInv'
      BY <1>1, <1>4, <1>5, <2>1, <2>2, <2>3 DEF WipeInv, Undecided
    <2>9. BootInv' /\ DefaultInv'
      BY <1>1, <1>4, <2>1, <2>2, <2>3, BlankSector DEF BootInv, DefaultInv
    <2> QED BY <2>4, <2>6, <2>7, <2>8, <2>9 DEF Inv, Quiet
  <1> QED BY <1>6, <1>7

LEMMA AtBoot ==
    ASSUME Inv, Booting
    PROVE  /\ ~Putting /\ ~InGc /\ ~Collecting /\ ~Wiping /\ ~Defaulting /\ ~gc_request /\ ~last_is_complete_del
           /\ gcs = <<0, 0>> /\ ret = "idle" /\ ~already_gc /\ crashes = 0 /\ want = [k \in Keys |-> want[k]]
           /\ in_recovery_check /\ Empties # {} /\ FlashOK(sec) /\ ~HasNew
           /\ (\A s \in Sectors : sec[s].dirty = "false")
           /\ cur = <<cur[1], cur[2]>> /\ cur[1] \in Nat \ {0} /\ cur[2] \in Nat
  <1>1. ~Putting /\ ~InGc /\ ~Collecting /\ ~Wiping /\ ~Defaulting /\ pc # "new" /\ ~HasNew
    BY DEF Putting, InGc, Collecting, Wiping, Defaulting, Booting, HasNew
  <1>2. /\ ~gc_request /\ ~last_is_complete_del /\ ret = "idle" /\ ~already_gc /\ crashes = 0
        /\ want = [k \in Keys |-> want[k]] /\ in_recovery_check
    BY <1>1 DEF Inv, ControlInv
  <1>3. gcs = <<0, 0>> /\ Empties # {} /\ FlashOK(sec)
    BY <1>1 DEF Inv, GcInv, SpareInv
  <1>4. (\A s \in Sectors : sec[s].dirty = "false") /\ cur = <<cur[1], cur[2]>> /\ cur[1] \in Nat \ {0} /\ cur[2] \in Nat
    BY DEF Inv, BootInv
  <1> QED BY <1>1, <1>2, <1>3, <1>4

\* No GC was interrupted.
LEMMA RecoverGcInv ==
    ASSUME Inv, RecoverGc
    PROVE  Inv'
  <1>1. pc = "gcs" /\ Booting
    BY DEF RecoverGc, Booting
  <1>2. /\ ~Putting /\ ~gc_request /\ ~last_is_complete_del
        /\ gcs = <<0, 0>> /\ ret = "idle" /\ ~already_gc /\ crashes = 0 /\ want = [k \in Keys |-> want[k]]
        /\ in_recovery_check /\ Empties # {}
        /\ (\A s \in Sectors : sec[s].dirty = "false")
        /\ cur = <<cur[1], cur[2]>> /\ cur[1] \in Nat \ {0} /\ cur[2] \in Nat
    BY <1>1, AtBoot
  <1>3. /\ pc' \in {"gcs", "kvs"} /\ UNCHANGED <<gc_request, ret>>
        /\ cur' = <<1, 0>> \/ cur' = <<cur[1] + 1, 0>>
        /\ UNCHANGED <<sec, in_recovery_check, last_is_complete_del, cache, op, already_gc, put, gcs, want, crashes>>
    <2>1. CASE cur[1] > S
      BY <2>1 DEF RecoverGc
    <2>2. CASE ~(cur[1] > S)
      <3>1. sec[cur[1]].dirty # "gc"
        BY <2>2, <1>2, Consts DEF Sectors
      <3> QED BY <2>2, <3>1, <1>1 DEF RecoverGc
    <2> QED BY <2>1, <2>2
  <1>4. ~Putting' /\ ~InGc' /\ ~Collecting' /\ ~Wiping' /\ ~Defaulting' /\ Booting' /\ ~HasNew' /\ ~Chosen'
    BY <1>3 DEF Putting, InGc, Collecting, Wiping, Defaulting, Booting, HasNew, Chosen
  <1>5. FlashOK(sec') /\ PutInv' /\ Quiet'
    BY <1>2, <1>3, <1>4, QuietKept
  <1>6. ControlInv'
    BY <1>2, <1>3, <1>4 DEF Inv, ControlInv
  <1>7. SpareInv' /\ GcInv' /\ WipeInv' /\ DefaultInv'
    BY <1>2, <1>3, <1>4 DEF SpareInv, GcInv, Empties, WipeInv, DefaultInv
  <1>8. BootInv'
    <2>1. cur' = <<cur'[1], cur'[2]>> /\ cur'[1] \in Nat \ {0} /\ cur'[2] \in Nat
      BY <1>2, <1>3
    <2> QED BY <1>2, <1>3, <2>1 DEF BootInv
  <1> QED BY <1>5, <1>6, <1>7, <1>8 DEF Inv, Quiet

\* Every entry is valid: it is cached.
LEMMA RecoverKvsInv ==
    ASSUME Inv, RecoverKvs
    PROVE  Inv'
  <1> DEFINE left == {a \in All : Before(cur, a)}
             a == First(left)
  <1>1. pc = "kvs" /\ Booting
    BY DEF RecoverKvs, Booting
  <1>2. /\ ~Putting /\ ~gc_request /\ ~last_is_complete_del /\ ~HasNew
        /\ gcs = <<0, 0>> /\ ret = "idle" /\ ~already_gc /\ crashes = 0 /\ want = [k \in Keys |-> want[k]]
        /\ in_recovery_check /\ Empties # {} /\ FlashOK(sec)
        /\ (\A s \in Sectors : sec[s].dirty = "false")
        /\ cur = <<cur[1], cur[2]>> /\ cur[1] \in Nat \ {0} /\ cur[2] \in Nat
    BY <1>1, AtBoot
  <1>3. /\ All = Addrs(sec) /\ \A b : Entry(b) = Kv(sec, b)
        /\ UNCHANGED <<gc_request, in_recovery_check, last_is_complete_del, op, already_gc, gcs, ret, want, crashes>>
    BY <1>2, AllIs DEF RecoverKvs
  <1>4. /\ pc' \in {"kvs", "retry"} /\ sec' = sec
        /\ cur' = <<cur'[1], cur'[2]>> /\ cur'[1] \in Nat \ {0} /\ cur'[2] \in Nat
        /\ \/ cache' = cache
           \/ \E b \in Addrs(sec) : /\ Kv(sec, b).st = "WRITE"
                                    /\ cache' = [cache EXCEPT ![Kv(sec, b).key] = <<b[1], Kv(sec, b).at>>]
    <2>1. CASE left = {}
      BY <2>1, <1>2 DEF RecoverKvs
    <2>2. CASE left # {}
      <3>1. left \in SUBSET (Nat \X Nat)
        BY <1>2, <1>3, KvType
      <3>2. a \in left
        BY <2>2, <3>1, FirstIs
      <3>3. a \in Addrs(sec) /\ Entry(a) = Kv(sec, a) /\ Kv(sec, a).st \in {"WRITE", "DELETED"}
        BY <3>2, <1>2, <1>3 DEF Inv, StatusInv
      <3>4. cur' = a /\ (RecoverKv(a) \/ SpoilKv(a) \/ CacheKv(a))
        BY <2>2 DEF RecoverKvs
      <3> HIDE DEF a
      <3>5. a = <<a[1], a[2]>> /\ a[1] \in Nat \ {0} /\ a[2] \in Nat
        BY <3>3, <1>2, KvType, Consts DEF Sectors
      <3>6. ~SpoilKv(a)
        BY <3>3 DEF SpoilKv
      <3>7. CASE RecoverKv(a)
        BY <3>3, <3>4, <3>5, <3>7, <1>1 DEF RecoverKv
      <3>8. CASE CacheKv(a)
        <4>1. /\ Kv(sec, a).st = "WRITE" /\ cache' = [cache EXCEPT ![Kv(sec, a).key] = <<a[1], Kv(sec, a).at>>]
              /\ sec' = sec /\ pc' = pc
          BY <3>3, <3>8 DEF CacheKv, Address
        <4> QED BY <4>1, <3>3, <3>4, <3>5, <1>1
      <3> QED BY <3>4, <3>6, <3>7, <3>8
    <2> QED BY <2>1, <2>2
  <1> HIDE DEF a, left
  <1>5. ~Putting' /\ ~InGc' /\ ~Collecting' /\ ~Wiping' /\ ~Defaulting' /\ Booting' /\ ~HasNew' /\ ~Chosen'
    BY <1>4 DEF Putting, InGc, Collecting, Wiping, Defaulting, Booting, HasNew, Chosen
  <1>6. CacheInv'
    <2>1. CASE cache' = cache
      BY <2>1, <1>2, <1>3, <1>4, <1>5, QuietKept DEF Quiet
    <2>2. ASSUME NEW b \in Addrs(sec), Kv(sec, b).st = "WRITE",
                 cache' = [cache EXCEPT ![Kv(sec, b).key] = <<b[1], Kv(sec, b).at>>]
          PROVE  CacheInv'
      <3>1. Kv(sec, b).key \in Keys
        BY <1>2, KvType
      <3> DEFINE k == Kv(sec, b).key
      <3> HIDE DEF k
      <3>2. k \in Keys /\ cache' = [cache EXCEPT ![k] = <<b[1], Kv(sec, b).at>>]
        BY <2>2, <3>1 DEF k
      <3> QED BY <2>2, <3>2, <1>2, <1>4, <1>5, CacheValid
    <2> QED BY <2>1, <2>2, <1>4
  <1>7. FlashOK(sec') /\ PutInv' /\ StatusInv' /\ LiveInv'
    BY <1>2, <1>4, <1>5 DEF Inv, PutInv, StatusInv, LiveInv
  <1>8. DirtyInv' /\ RoomInv' /\ WantInv'
    BY <1>1, <1>3, <1>4, <1>5 DEF Inv, DirtyInv, RoomInv, WantInv
  <1>9. ControlInv'
    BY <1>2, <1>3, <1>4, <1>5 DEF Inv, ControlInv
  <1>10. SpareInv' /\ GcInv' /\ WipeInv' /\ DefaultInv'
    BY <1>2, <1>3, <1>4, <1>5 DEF SpareInv, GcInv, Empties, WipeInv, DefaultInv
  <1>11. BootInv'
    BY <1>2, <1>4 DEF BootInv
  <1> QED BY <1>6, <1>7, <1>8, <1>9, <1>10, <1>11 DEF Inv

\* What fdb_kv_get returns between two changes.
LEMMA GetIs ==
    ASSUME Inv, ~Putting, NEW k \in Keys
    PROVE  \/ Get(k) = None /\ None \in want[k] /\ \A a \in Addrs(sec) : Kv(sec, a).key = k => ~Held(Kv(sec, a).st)
           \/ \E a \in Addrs(sec) : /\ Kv(sec, a).key = k /\ Kv(sec, a).st = "WRITE" /\ Get(k) = Kv(sec, a).val
                                    /\ Get(k) \in want[k]
                                    /\ \A b \in Addrs(sec) : Kv(sec, b).key = k /\ Held(Kv(sec, b).st) => b = a
  <1>1. \A a \in Addrs(sec) : Kv(sec, a).st \in {"WRITE", "DELETED"}
    BY DEF Inv, StatusInv, HasNew, Putting
  <1>2. \A a \in Addrs(sec) : Held(Kv(sec, a).st) <=> Kv(sec, a).st = "WRITE"
    BY <1>1 DEF Held
  <1>3. CASE find_kv(k) = NoAddr
    <2>1. \A a \in Addrs(sec) : Kv(sec, a).key = k => ~Held(Kv(sec, a).st)
      <3>1. find_kv(k) \notin Addrs(sec)
        BY <1>3, NoAddrOut
      <3> QED BY <1>2, <3>1, FindIs
    <2>2. None \in want[k]
      BY <2>1 DEF Inv, WantInv
    <2> QED BY <1>3, <2>1, <2>2 DEF Get
  <1>4. CASE find_kv(k) # NoAddr
    <2> DEFINE a == find_kv(k)
    <2>1. a \in Addrs(sec) /\ Kv(sec, a).key = k /\ Kv(sec, a).st = "WRITE"
      BY <1>4, FindIs
    <2>2. Get(k) = Kv(sec, a).val
      BY <1>4 DEF Get, Entry, Kv
    <2> HIDE DEF a
    <2>3. Get(k) \in want[k]
      BY <2>1, <2>2, <1>2 DEF Inv, WantInv
    <2>4. \A b \in Addrs(sec) : Kv(sec, b).key = k /\ Held(Kv(sec, b).st) => b = a
      BY <2>1, <1>2 DEF Inv, LiveInv
    <2> QED BY <2>1, <2>2, <2>3, <2>4
  <1> QED BY <1>3, <1>4

LEMMA RetryInv ==
    ASSUME Inv, Retry
    PROVE  Inv'
  <1>1. pc = "retry" /\ Booting
    BY DEF Retry, Booting
  <1>2. /\ ~Putting /\ ~gc_request /\ ~last_is_complete_del /\ ~HasNew
        /\ gcs = <<0, 0>> /\ ret = "idle" /\ ~already_gc /\ crashes = 0 /\ want = [k \in Keys |-> want[k]]
        /\ in_recovery_check /\ Empties # {} /\ FlashOK(sec)
    BY <1>1, AtBoot
  <1>3. /\ pc' = "idle" /\ in_recovery_check' = FALSE /\ ret' = ret
        /\ want' = [k \in Keys |-> IF Get(k) \in want[k] THEN {Get(k)} ELSE want[k]]
        /\ UNCHANGED <<sec, gc_request, last_is_complete_del, cache, op, already_gc, put, gcs, crashes>>
    BY <1>2 DEF Retry
  <1>4. ~Putting' /\ ~InGc' /\ ~Collecting' /\ ~Wiping' /\ ~Defaulting' /\ ~Booting' /\ ~HasNew' /\ ~Chosen'
    BY <1>3 DEF Putting, InGc, Collecting, Wiping, Defaulting, Booting, HasNew, Chosen
  <1>5. FlashOK(sec') /\ PutInv' /\ StatusInv' /\ LiveInv'
    BY <1>2, <1>3, <1>4 DEF Inv, PutInv, StatusInv, LiveInv
  <1>6. DirtyInv' /\ RoomInv'
    BY <1>1, <1>3, <1>4 DEF Inv, DirtyInv, RoomInv
  <1>7. CacheInv'
    <2>1. \A b : ~Leaving(b)
      BY <1>2 DEF Leaving
    <2>2. CacheInv
      BY DEF Inv
    <2> QED BY <1>1, <1>3, <2>1, <2>2 DEF CacheInv
  <1>8. WantInv'
    <2>1. ASSUME NEW k \in Keys
          PROVE  want'[k] = {Get(k)}
      BY <1>2, <1>3, GetIs
    <2>2. ASSUME NEW b \in Addrs(sec), Held(Kv(sec, b).st)
          PROVE  Kv(sec, b).val \in want'[Kv(sec, b).key]
      <3>1. Kv(sec, b).key \in Keys
        BY <1>2, KvType
      <3>2. Get(Kv(sec, b).key) = Kv(sec, b).val
        BY <2>2, <3>1, <1>2, GetIs
      <3> QED BY <2>1, <3>1, <3>2
    <2>3. ASSUME NEW k \in Keys, None \notin want'[k]
          PROVE  \E b \in Addrs(sec) : Kv(sec, b).key = k /\ Held(Kv(sec, b).st)
      <3>1. Get(k) # None
        BY <2>1, <2>3
      <3> QED BY <3>1, <1>2, GetIs DEF Held
    <2> QED BY <1>3, <2>2, <2>3 DEF WantInv
  <1>9. ControlInv'
    <2>1. want' = [k \in Keys |-> want'[k]]
      BY <1>3
    <2> QED BY <1>2, <1>3, <1>4, <2>1 DEF Inv, ControlInv
  <1>10. SpareInv' /\ GcInv' /\ WipeInv' /\ DefaultInv' /\ BootInv'
    BY <1>2, <1>3, <1>4 DEF SpareInv, GcInv, Empties, WipeInv, DefaultInv, BootInv
  <1> QED BY <1>5, <1>6, <1>7, <1>8, <1>9, <1>10 DEF Inv

-----------------------------------------------------------------------------
(* The invariant of the specification.                                     *)

LEMMA InitInv ==
    ASSUME Init
    PROVE  Inv
  <1>1. /\ pc = "off" /\ gc_request = FALSE /\ in_recovery_check = FALSE /\ last_is_complete_del = FALSE
        /\ already_gc = FALSE /\ put = NoPut /\ gcs = <<0, 0>> /\ ret = "idle" /\ crashes = 0
        /\ cache = [k \in Keys |-> NoAddr]
        /\ sec = [s \in Sectors |-> IF Start = "blank" THEN Bad ELSE Clean]
        /\ want = [k \in Keys |-> IF Start = "blank" THEN {None, Default(k)} ELSE {None}]
    BY DEF Init
  <1>2. ~Putting /\ ~InGc /\ ~Collecting /\ ~Wiping /\ ~Defaulting /\ ~Booting /\ ~HasNew /\ ~Chosen
    BY <1>1 DEF Putting, InGc, Collecting, Wiping, Defaulting, Booting, HasNew, Chosen
  <1>3. sec = [s \in Sectors |-> sec[s]] /\ \A s \in Sectors : sec[s] = IF Start = "blank" THEN Bad ELSE Clean
    BY <1>1
  <1>4. FlashOK(sec)
    BY <1>3, BlankSector DEF FlashOK
  <1>5. want = [k \in Keys |-> want[k]] /\ \A k \in Keys : None \in want[k] /\ (Start = "blank" => Default(k) \in want[k])
    BY <1>1
  <1>6. \A a : a \notin Addrs(sec)
    <2>1. \A s \in Sectors : Len(sec[s].kvs) = 0
      BY <1>3, BlankSector
    <2> QED BY <2>1, AddrsIs
  <1>7. ControlInv
    BY <1>1, <1>2, <1>5 DEF ControlInv
  <1>8. PutInv /\ StatusInv /\ DirtyInv /\ LiveInv
    BY <1>2, <1>6 DEF PutInv, StatusInv, DirtyInv, LiveInv
  <1>9. CacheInv
    <2>1. cache = [k \in Keys |-> cache[k]] /\ \A k \in Keys : cache[k] = NoAddr
      BY <1>1
    <2> QED BY <1>1, <1>6, <2>1 DEF CacheInv
  <1>10. RoomInv
    <2>1. \A s \in Sectors : LayoutOK(sec[s].kvs) /\ Unwritten(sec[s]) /\ sec[s].store # "using"
      BY <1>3, BlankSector
    <2> QED BY <1>1, <1>2, <2>1 DEF RoomInv
  <1>11. WantInv
    BY <1>5, <1>6 DEF WantInv
  <1>12. SpareInv /\ GcInv /\ WipeInv /\ DefaultInv
    BY <1>1, <1>2 DEF SpareInv, GcInv, WipeInv, DefaultInv
  <1>13. BootInv
    BY <1>1, <1>2, <1>3, <1>5 DEF BootInv, Undecided
  <1> QED BY <1>4, <1>7, <1>8, <1>9, <1>10, <1>11, <1>12, <1>13 DEF Inv

LEMMA IdleStep ==
    ASSUME Inv, UNCHANGED vars
    PROVE  Inv'
  <1> USE DEF vars, ram
  <1>1. FlashOK(sec') /\ ControlInv'
    BY DEF Inv, ControlInv, Putting, InGc, Collecting, Wiping, Defaulting, Booting
  <1>2. PutInv' /\ StatusInv' /\ DirtyInv' /\ LiveInv'
    BY DEF Inv, PutInv, StatusInv, DirtyInv, LiveInv, Putting, HasNew, New, Chosen, OldStatus, NewStatus
  <1>3. CacheInv'
    BY DEF Inv, CacheInv, Leaving, Putting, New
  <1>4. RoomInv' /\ WantInv'
    BY DEF Inv, RoomInv, Chosen, WantInv
  <1>5. SpareInv'
    BY DEF Inv, SpareInv, Collecting, Putting, Chosen, Booting, Empties, Takes, Emptied
  <1>6. GcInv'
    BY DEF Inv, GcInv, Collecting, Putting, Empties
  <1>7. WipeInv' /\ BootInv'
    BY DEF Inv, WipeInv, BootInv, Wiping, Booting, Undecided
  <1>8. DefaultInv'
    BY DEF Inv, DefaultInv, Defaulting, Putting, HasNew, Chosen, Written, Undecided
  <1> QED BY <1>1, <1>2, <1>3, <1>4, <1>5, <1>6, <1>7, <1>8 DEF Inv

LEMMA NextInv ==
    ASSUME Plain, Inv, [Next]_vars
    PROVE  Inv'
  <1>0. DefaultsFit /\ MaxCrashes = 0 /\ crashes = 0
    BY DEF Plain, Inv, ControlInv
  <1>1. CASE WriteEntry
    BY <1>0, <1>1, PreDeleteInv, PreDirtyInv, MoveAllocInv, SectorStatusInv, WriteSlotInv, WriteDataInv, WriteDoneInv,
       DeleteInv, DirtyStepInv, DoneInv DEF WriteEntry
  <1>2. CASE Collect
    BY <1>2, GcStartInv, GcSectorInv, GcKvInv, EraseInv, FormatInv DEF Collect
  <1>3. CASE Load
    BY <1>3, InitStepInv, CheckHeadersInv, RecoverGcInv, RecoverKvsInv, RetryInv DEF Load
  <1>4. CASE Interface
    <2>1. CASE \E k \in Keys : fdb_kv_get(k) \/ fdb_kv_del(k)
      BY <2>1, GetInv, DelInv
    <2>2. CASE \E w \in Writes : fdb_kv_set(w[1], w[2])
      <3>1. PICK w \in Writes : fdb_kv_set(w[1], w[2])
        BY <2>2
      <3>2. w[1] \in Keys /\ w[2] \in Values
        BY Consts
      <3> QED BY <3>1, <3>2, SetInv
    <2> QED BY <1>0, <1>4, <2>1, <2>2, NewInv, NewFailsInv, SetDefaultInv, WipeStepInv, WipedInv, CreateDefaultInv
            DEF Interface
  <1>5. CASE Crash
    BY <1>0, <1>5 DEF Crash
  <1>6. CASE UNCHANGED vars
    BY <1>6, IdleStep
  <1> QED BY <1>1, <1>2, <1>3, <1>4, <1>5, <1>6 DEF Next, Step

\* The invariant holds whenever no power is lost.
THEOREM PlainInvariant == Plain => (Spec => []Inv)
  <1> SUFFICES ASSUME Plain PROVE Spec => []Inv
    OBVIOUS
  <1>1. Init => Inv
    BY InitInv
  <1>2. Inv /\ [Next]_vars => Inv'
    BY NextInv
  <1> QED BY <1>1, <1>2, PTL DEF Spec

-----------------------------------------------------------------------------
(* The properties.                                                         *)

LEMMA InvTypeOK ==
    ASSUME Inv
    PROVE  TypeOK
  <1>1. ASSUME NEW s \in Sectors
        PROVE  /\ sec[s].store \in {"bad", "empty", "using", "full"}
               /\ sec[s].dirty \in {"false", "true", "gc"}
               /\ sec[s].store \in {"bad", "empty"} => sec[s].kvs = << >> /\ sec[s].dirty = "false"
    BY DEF Inv, FlashOK, SectorOK, RoomInv, Unwritten
  <1>2. ASSUME NEW s \in Sectors PROVE Remain(s) > 0
    <2> DEFINE es == sec[s].kvs
               e == es[Len(es)]
    <2>1. es \in Seq(KvEntries) /\ LayoutOK(es)
      BY SectorKvs DEF Inv, RoomInv
    <2>2. CASE es = << >>
      BY <2>2, Consts DEF Remain, Offset
    <2>3. CASE es # << >>
      <3>1. Len(es) \in 1 .. Len(es) /\ e \in KvEntries /\ Last(es) = e
        BY <2>1, <2>3 DEF Last
      <3>2. EndOf(e) < Cap
        BY <2>1, <3>1 DEF LayoutOK
      <3> HIDE DEF e
      <3>3. e.at \in Nat /\ Size[e.val] \in Nat /\ Size[e.val] > Hdr /\ e.at + Size[e.val] < Cap
        BY <3>1, <3>2, Consts DEF KvEntries, EndOf
      <3>4. Used(e) \in Nat /\ Used(e) <= Size[e.val]
        BY <3>3, Consts DEF Used
      <3>5. Offset(s) = e.at + Used(e)
        BY <2>3, <3>1 DEF Offset
      <3> QED BY <3>3, <3>4, <3>5, Consts DEF Remain
    <2> QED BY <2>2, <2>3
  <1>3. /\ gc_request \in BOOLEAN /\ in_recovery_check \in BOOLEAN /\ last_is_complete_del \in BOOLEAN
        /\ crashes \in 0 .. MaxCrashes
    BY Consts DEF Inv, ControlInv
  <1> QED BY <1>1, <1>2, <1>3 DEF TypeOK

LEMMA InvOneLive ==
    ASSUME Inv
    PROVE  OneLive
  <1> SUFFICES ASSUME NEW k \in Keys PROVE Cardinality(Live(k)) <= 1
    BY DEF OneLive
  <1>1. /\ \A a \in Live(k) : a \in Addrs(sec) /\ Kv(sec, a).st = "WRITE" /\ Kv(sec, a).key = k
    BY AllIs DEF Live, Inv
  <1>2. \A a, b \in Live(k) : a = b
    BY <1>1 DEF Inv, LiveInv
  <1>3. CASE Live(k) = {}
    <2>1. Cardinality(Live(k)) = 0
      BY <1>3, FS_EmptySet
    <2> QED BY <2>1
  <1>4. CASE Live(k) # {}
    <2>1. PICK a \in Live(k) : TRUE
      BY <1>4
    <2>2. Live(k) = {a}
      BY <2>1, <1>2
    <2>3. Cardinality(Live(k)) = 1
      BY <2>2, FS_Singleton
    <2> QED BY <2>3
  <1> QED BY <1>3, <1>4

LEMMA InvDurable ==
    ASSUME Inv
    PROVE  Durable
  <1> SUFFICES ASSUME NEW k \in Keys, None \notin want[k]
               PROVE  \E a \in All : /\ Entry(a).key = k /\ Entry(a).val \in want[k]
                                     /\ Entry(a).st \in {"WRITE", "PRE_DELETE"}
    BY DEF Durable
  <1>1. PICK a \in Addrs(sec) : Kv(sec, a).key = k /\ Held(Kv(sec, a).st)
    BY DEF Inv, WantInv
  <1>2. Kv(sec, a).val \in want[k]
    BY <1>1 DEF Inv, WantInv
  <1>3. a \in All /\ Entry(a) = Kv(sec, a)
    BY AllIs DEF Inv
  <1> QED BY <1>1, <1>2, <1>3 DEF Held

LEMMA InvReadBack ==
    ASSUME Inv
    PROVE  ReadBack
  <1> SUFFICES ASSUME pc = "idle", NEW k \in Keys PROVE Get(k) \in want[k]
    BY DEF ReadBack
  <1>1. ~Putting
    BY DEF Putting
  <1> QED BY <1>1, GetIs

\* Every step of set_kv, of gc_collect and of _fdb_kv_load keeps the statuses in their
\* tables, the entries in their sectors and an empty sector empty.
THEOREM KvTypeCorrect == Plain => (Spec => []TypeOK)
  <1> SUFFICES ASSUME Plain PROVE Spec => []TypeOK
    OBVIOUS
  <1>1. Spec => []Inv
    BY PlainInvariant
  <1>2. Inv => TypeOK
    BY InvTypeOK
  <1> QED BY <1>1, <1>2, PTL

\* A key never has two valid entries, not even while GC moves one of them: del_kv
\* (PRE_DELETE) precedes FDB_KV_WRITE in set_kv and in move_kv.
THEOREM KvOneLive == Plain => (Spec => []OneLive)
  <1> SUFFICES ASSUME Plain PROVE Spec => []OneLive
    OBVIOUS
  <1>1. Spec => []Inv
    BY PlainInvariant
  <1>2. Inv => OneLive
    BY InvOneLive
  <1> QED BY <1>1, <1>2, PTL

\* Between any two writes of the flash a complete copy of every key is there: GC finds
\* room for every entry of a sector before format_sector erases it.
THEOREM KvDurable == Plain => (Spec => []Durable)
  <1> SUFFICES ASSUME Plain PROVE Spec => []Durable
    OBVIOUS
  <1>1. Spec => []Inv
    BY PlainInvariant
  <1>2. Inv => Durable
    BY InvDurable
  <1> QED BY <1>1, <1>2, PTL

\* fdb_kv_get returns what was set last, or nothing after fdb_kv_del, through the address
\* cache as well as without it.
THEOREM KvReadBack == Plain => (Spec => []ReadBack)
  <1> SUFFICES ASSUME Plain PROVE Spec => []ReadBack
    OBVIOUS
  <1>1. Spec => []Inv
    BY PlainInvariant
  <1>2. Inv => ReadBack
    BY InvReadBack
  <1> QED BY <1>1, <1>2, PTL

\* alloc_kv and gc_collect leave an empty sector for the next GC
\* (FDB_GC_EMPTY_SEC_THRESHOLD).
THEOREM KvSpareSector == Plain => (Spec => []SpareSector)
  <1> SUFFICES ASSUME Plain PROVE Spec => []SpareSector
    OBVIOUS
  <1>1. Spec => []Inv
    BY PlainInvariant
  <1>2. Inv => SpareSector
    BY DEF Inv, SpareInv, SpareSector
  <1> QED BY <1>1, <1>2, PTL

LEMMA RefusedStep ==
    ASSUME Plain, Inv, Next, pc = "new", pc' = "idle"
    PROVE  \A a \in All : Entry(a).st = "WRITE"
  <1>1. NewFails
    <2>1. ~WriteEntry
      BY DEF WriteEntry, PreDelete, PreDirty, MoveAlloc, SectorStatus, WriteSlot, WriteData, WriteDone, Delete, Dirty, Done
    <2>2. ~Collect
      BY DEF Collect, GcStart, GcSector, GcKv, Erase, Format
    <2>3. ~Load
      BY DEF Load, fdb_kvdb_init, CheckHeaders, RecoverGc, RecoverKvs, Retry
    <2>4. ~Crash
      BY DEF Crash
    <2>5. Interface
      BY <2>1, <2>2, <2>3, <2>4 DEF Next, Step
    <2> QED BY <2>5 DEF Interface, fdb_kv_get, fdb_kv_del, fdb_kv_set, new_kv, fdb_kv_set_default, Wipe, Wiped, CreateDefault
  <1>2. /\ Settled /\ op.val \in Values /\ op.ret \in {"set", "def"} /\ Empties # {} /\ already_gc \in BOOLEAN
        /\ ~Putting /\ ~HasNew
    BY AtNew
  <1>3. alloc_kv(Size[op.val]) = NoSector
    BY <1>1 DEF NewFails
  <1>4. AllocRequest(Size[op.val])
    BY <1>2, <1>3, AllocNot
  <1>5. already_gc
    BY <1>1, <1>2, <1>4 DEF NewFails
  <1>6. \A s \in Sectors : sec[s].dirty = "false"
    BY <1>5 DEF Inv, GcInv
  <1>7. \A a \in Addrs(sec) : Kv(sec, a).st = "WRITE"
    BY <1>2, <1>6, AddrsIs DEF Inv, StatusInv, DirtyInv
  <1> QED BY <1>7, AllIs DEF Inv

\* FDB_SAVED_FULL is the answer of a flash without a deleted entry only.
THEOREM KvRefusedOnlyWhenFull == Plain => (Spec => RefusedOnlyWhenFull)
  <1> SUFFICES ASSUME Plain PROVE Spec => RefusedOnlyWhenFull
    OBVIOUS
  <1>1. Spec => []Inv
    BY PlainInvariant
  <1>2. Inv /\ [Next]_vars => [pc = "new" /\ pc' = "idle" => \A a \in All : Entry(a).st = "WRITE"]_vars
    BY RefusedStep
  <1> QED BY <1>1, <1>2, PTL DEF Spec, RefusedOnlyWhenFull
=============================================================================
