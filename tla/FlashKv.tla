------------------------------ MODULE FlashKv -------------------------------
(***************************************************************************)
(* The key-value database of FlashDB/src/fdb_kvdb.c on a flash of S        *)
(* sectors.  A step is one write or erase of the flash, with the work in   *)
(* RAM that goes with it, and power may be lost between any two of them.   *)
(*                                                                         *)
(* Sizes are in units; a header takes Hdr of them.  An entry shows its     *)
(* status table (st): NONE when only PRE_WRITE is there and the header is  *)
(* not.  Header, name and value are one write: between them the entry is   *)
(* PRE_WRITE, and nothing that reads one looks at more than that.          *)
(***************************************************************************)
EXTENDS Integers, Sequences, FiniteSets, FiniteSetsExt, SequencesExt

CONSTANTS S,              \* sectors
          Cap,            \* units of a sector
          Hdr,            \* KV_HDR_DATA_SIZE
          Threshold,      \* FDB_SEC_REMAIN_THRESHOLD
          Keys, Values,
          Writes,         \* the <<key, value>> pairs the application sets
          Size,           \* units of an entry with a value
          Defaults,       \* default_kvs: sequence of [key, val]
          Start,          \* "blank" or "formatted" flash
          MaxCrashes

None == "none"            \* no key, no value
NoSector == 0             \* FAILED_ADDR of alloc_kv
NoAddr == <<0, 0>>        \* FDB_DATA_UNUSED, and an entry that was not found
NoOp == [key |-> None, val |-> None, ret |-> None]
NoPut == [key |-> None, val |-> None, old |-> NoAddr, dst |-> NoSector, full |-> FALSE, ret |-> None]

ASSUME SectorAssumption == S \in Nat /\ S >= 2 /\ Hdr \in Nat \ {0}
ASSUME SizeAssumption ==
    /\ Cap \in Nat \ {0} /\ Threshold \in Nat
    /\ \A v \in Values : Size[v] \in Nat /\ Size[v] > Hdr /\ Size[v] < Cap
ASSUME ValueAssumption == None \notin Values /\ None \notin Keys /\ Writes \subseteq Keys \X Values
ASSUME DefaultAssumption == Defaults \in Seq([key : Keys, val : Values])
ASSUME StartAssumption == Start \in {"blank", "formatted"} /\ MaxCrashes \in Nat

VARIABLES sec,            \* the flash
          gc_request, in_recovery_check, last_is_complete_del,
          cache,          \* kv_cache_table: the address of a key
          pc,             \* what the database does next
          op,             \* set_kv under way, or the default being created
          already_gc,     \* of new_kv
          put,            \* the entry being written, and the old one it replaces
          gcs, ret,       \* gc_collect: the sector and the entry it is at, and its caller
          cur,            \* where the recovery, or fdb_kv_set_default, is
          want,           \* what a key may read as
          crashes

ram == <<gc_request, in_recovery_check, last_is_complete_del, cache>>
vars == <<sec, ram, pc, op, already_gc, put, gcs, ret, cur, want, crashes>>

Sectors == 1 .. S
Bad == [store |-> "bad", dirty |-> "false", kvs |-> << >>]
Clean == [Bad EXCEPT !.store = "empty"]

Default(k) ==
    LET n == {i \in DOMAIN Defaults : Defaults[i].key = k}
    IN  IF n = {} THEN None ELSE Defaults[Max(n)].val

Init ==
    /\ sec = [s \in Sectors |-> IF Start = "blank" THEN Bad ELSE Clean]
    /\ gc_request = FALSE /\ in_recovery_check = FALSE /\ last_is_complete_del = FALSE
    /\ cache = [k \in Keys |-> NoAddr]
    /\ pc = "off" /\ op = NoOp /\ already_gc = FALSE /\ put = NoPut
    /\ gcs = <<0, 0>> /\ ret = "idle" /\ cur = <<1, 0>>
    /\ want = [k \in Keys |-> IF Start = "blank" THEN {None, Default(k)} ELSE {None}]
    /\ crashes = 0

-----------------------------------------------------------------------------
(* Looking at the flash.                                                   *)

Used(e) == IF e.st = "NONE" THEN Hdr ELSE Size[e.val]
\* Where the next entry goes: behind the last one that read_sector_info walks over.
Offset(s) == IF sec[s].kvs = << >> THEN 0 ELSE Last(sec[s].kvs).at + Used(Last(sec[s].kvs))
Remain(s) == Cap - Offset(s)

Entries(s) == {<<s, i>> : i \in DOMAIN sec[s].kvs}
Entry(a) == sec[a[1]].kvs[a[2]]
All == UNION {Entries(s) : s \in Sectors}
Empties == {s \in Sectors : sec[s].store = "empty"}
Before(a, b) == a[1] < b[1] \/ (a[1] = b[1] /\ a[2] < b[2])
First(A) == CHOOSE a \in A : \A b \in A \ {a} : Before(a, b)

\* find_kv_no_cache: the first entry with that name and status WRITE.
Live(k) == {a \in All : Entry(a).st = "WRITE" /\ Entry(a).key = k}

\* get_kv_from_cache looks at the name at the address, not at its status.
Hits(k) ==
    IF cache[k] = NoAddr THEN {}
    ELSE {a \in Entries(cache[k][1]) :
            Entry(a).at = cache[k][2] /\ Entry(a).key = k /\ Entry(a).st # "NONE"}

find_kv(k) ==
    IF Hits(k) # {} THEN First(Hits(k))
    ELSE IF Live(k) # {} THEN First(Live(k))
    ELSE NoAddr

Get(k) == IF find_kv(k) = NoAddr THEN None ELSE Entry(find_kv(k)).val

Address(a) == <<a[1], Entry(a).at>>

\* alloc_kv_cb for a sector of the given status.
Room(store, size) ==
    {s \in Sectors :
        /\ sec[s].store = store /\ Remain(s) > size
        /\ sec[s].dirty = "false" \/ (sec[s].dirty = "true" /\ ~gc_request)}

\* alloc_kv: a sector, or none and perhaps a request of GC.
alloc_kv(size) ==
    IF Room("using", size) # {} THEN Min(Room("using", size))
    ELSE IF Cardinality(Empties) > 1 \/ (gc_request /\ Empties # {})
         THEN Min(Room("empty", size))
    ELSE NoSector

AllocRequest(size) ==
    gc_request \/ (Room("using", size) = {} /\ Cardinality(Empties) = 1)

-----------------------------------------------------------------------------
(* Writing one entry and deleting the one it replaces: create_kv_blob with *)
(* the del_kv around it in set_kv, and move_kv.                            *)

SetStatus(a, st) == sec' = [sec EXCEPT ![a[1]].kvs[a[2]].st = st]

\* del_kv(..., false)
PreDelete ==
    /\ pc = "predelete" /\ pc' = "predirty"
    /\ SetStatus(put.old, "PRE_DELETE")
    /\ last_is_complete_del' = TRUE
    /\ UNCHANGED <<gc_request, in_recovery_check, cache, op, already_gc, put, gcs, ret, cur, want, crashes>>

\* Mutant: the sector of a deleted entry is not marked.
MutantMarkDirty(s) == UNCHANGED sec

\* The end of del_kv.
MarkDirty(s) ==
    sec' = IF sec[s].dirty = "false" THEN [sec EXCEPT ![s].dirty = "true"] ELSE sec

PreDirty ==
    /\ pc = "predirty" /\ pc' = IF put.ret = "set" THEN "status" ELSE "move"
    /\ MarkDirty(put.old[1])
    /\ UNCHANGED <<ram, op, already_gc, put, gcs, ret, cur, want, crashes>>

\* move_kv allocates after PRE_DELETE.  During a recovery the copy may be there.
MoveAlloc ==
    LET s == alloc_kv(Size[put.val]) IN
    /\ pc = "move"
    /\ gc_request' = AllocRequest(Size[put.val])
    /\ IF s = NoSector
         THEN pc' = (IF put.ret = "gc" THEN "gckv" ELSE "retry") /\ put' = NoPut
         ELSE /\ put' = [put EXCEPT !.dst = s]
              /\ pc' = IF in_recovery_check /\ Live(put.key) # {} THEN "delete" ELSE "status"
    /\ UNCHANGED <<sec, in_recovery_check, last_is_complete_del, cache, op, already_gc, gcs, ret, cur, want, crashes>>

\* update_sec_status
SectorStatus ==
    LET s == put.dst
        full == sec[s].store = "using" /\ Remain(s) - Size[put.val] < Threshold
    IN  /\ pc = "status" /\ pc' = "slot"
        /\ sec' = [sec EXCEPT ![s].store = IF full THEN "full" ELSE "using"]
        /\ put' = [put EXCEPT !.full = full]
        /\ UNCHANGED <<ram, op, already_gc, gcs, ret, cur, want, crashes>>

\* The status PRE_WRITE of a new entry.
WriteSlot ==
    LET e == [key |-> put.key, val |-> put.val, st |-> "NONE", at |-> Offset(put.dst)] IN
    /\ pc = "slot" /\ pc' = "data"
    /\ sec' = [sec EXCEPT ![put.dst].kvs = Append(@, e)]
    /\ UNCHANGED <<ram, op, already_gc, put, gcs, ret, cur, want, crashes>>

New == <<put.dst, Len(sec[put.dst].kvs)>>

\* Header, name and value.  create_kv_blob caches the address with the name.
WriteData ==
    /\ pc = "data" /\ pc' = "write"
    /\ SetStatus(New, "PRE_WRITE")
    /\ cache' = IF put.ret \in {"set", "def"} THEN [cache EXCEPT ![put.key] = Address(New)] ELSE cache
    /\ UNCHANGED <<gc_request, in_recovery_check, last_is_complete_del, op, already_gc, put, gcs, ret, cur, want, crashes>>

\* The entry is valid; a sector that it has filled asks for GC, move_kv caches.
WriteDone ==
    /\ pc = "write" /\ pc' = IF put.old = NoAddr THEN "done" ELSE "delete"
    /\ SetStatus(New, "WRITE")
    /\ gc_request' = (gc_request \/ (put.full /\ put.ret \in {"set", "def"}))
    /\ cache' = IF put.ret \in {"gc", "load"} THEN [cache EXCEPT ![put.key] = Address(New)] ELSE cache
    /\ UNCHANGED <<in_recovery_check, last_is_complete_del, op, already_gc, put, gcs, ret, cur, want, crashes>>

\* Mutant: the cache keeps the address of a deleted key.
MutantDelete ==
    /\ pc = "delete" /\ pc' = "dirty"
    /\ SetStatus(put.old, "DELETED")
    /\ last_is_complete_del' = FALSE
    /\ UNCHANGED <<gc_request, in_recovery_check, cache, op, already_gc, put, gcs, ret, cur, want, crashes>>

\* del_kv(..., true): the cache already has the new address after a PRE_DELETE.
Delete ==
    /\ pc = "delete" /\ pc' = "dirty"
    /\ SetStatus(put.old, "DELETED")
    /\ cache' = IF last_is_complete_del THEN cache ELSE [cache EXCEPT ![put.key] = NoAddr]
    /\ last_is_complete_del' = FALSE
    /\ UNCHANGED <<gc_request, in_recovery_check, op, already_gc, put, gcs, ret, cur, want, crashes>>

Dirty ==
    /\ pc = "dirty" /\ pc' = "done"
    /\ MarkDirty(put.old[1])
    /\ UNCHANGED <<ram, op, already_gc, put, gcs, ret, cur, want, crashes>>

\* Back to set_kv, fdb_kv_set_default, gc_collect or the recovery.
Done ==
    /\ pc = "done" /\ put' = NoPut
    /\ \/ /\ put.ret \in {"set", "del"}
          /\ pc' = (IF put.ret = "set" /\ gc_request THEN "gc" ELSE "idle")
          /\ op' = NoOp /\ want' = [want EXCEPT ![put.key] = {put.val}]
       \/ put.ret = "def" /\ pc' = "default" /\ op' = NoOp /\ UNCHANGED want
       \/ put.ret = "gc" /\ pc' = "gckv" /\ UNCHANGED <<op, want>>
       \/ put.ret = "load" /\ pc' = "kvs" /\ UNCHANGED <<op, want>>
    /\ UNCHANGED <<sec, ram, already_gc, gcs, ret, cur, crashes>>

WriteEntry ==
    \/ PreDelete \/ PreDirty \/ MoveAlloc \/ SectorStatus \/ WriteSlot
    \/ WriteData \/ WriteDone \/ Delete \/ Dirty \/ Done

\* move_kv: an entry that is PRE_DELETE already is only copied.
move_kv(a, from) ==
    /\ put' = [NoPut EXCEPT !.key = Entry(a).key, !.val = Entry(a).val, !.old = a, !.ret = from]
    /\ pc' = IF Entry(a).st = "WRITE" THEN "predelete" ELSE "move"

-----------------------------------------------------------------------------
(* gc_collect.                                                             *)

GcStart ==
    /\ pc = "gc"
    /\ IF Cardinality(Empties) <= 1
         THEN pc' = "gcsector" /\ UNCHANGED <<gc_request, ret>>
         ELSE pc' = ret /\ ret' = "idle" /\ gc_request' = FALSE
    /\ UNCHANGED <<sec, in_recovery_check, last_is_complete_del, cache, op, already_gc, put, gcs, cur, want, crashes>>

\* Mutant: the request of GC is not taken back.
MutantGcSector ==
    LET dirty == {s \in Sectors : s > gcs[1] /\ sec[s].dirty # "false"} IN
    /\ pc = "gcsector"
    /\ IF dirty = {}
         THEN pc' = ret /\ ret' = "idle" /\ gcs' = <<0, 0>> /\ UNCHANGED sec
         ELSE /\ pc' = "gckv" /\ gcs' = <<Min(dirty), 0>>
              /\ sec' = [sec EXCEPT ![Min(dirty)].dirty = "gc"] /\ UNCHANGED ret
    /\ UNCHANGED <<ram, op, already_gc, put, cur, want, crashes>>

\* do_gc: mark the next dirty sector.
GcSector ==
    LET dirty == {s \in Sectors : s > gcs[1] /\ sec[s].dirty # "false"} IN
    /\ pc = "gcsector"
    /\ IF dirty = {}
         THEN /\ pc' = ret /\ ret' = "idle" /\ gcs' = <<0, 0>>
              /\ gc_request' = FALSE /\ UNCHANGED sec
         ELSE /\ pc' = "gckv" /\ gcs' = <<Min(dirty), 0>>
              /\ sec' = [sec EXCEPT ![Min(dirty)].dirty = "gc"]
              /\ UNCHANGED <<gc_request, ret>>
    /\ UNCHANGED <<in_recovery_check, last_is_complete_del, cache, op, already_gc, put, cur, want, crashes>>

\* Mutant: entries that are PRE_DELETE are not moved.
MutantToMove(s) == {a \in Entries(s) : Entry(a).st = "WRITE"}

\* The entries of a sector that do_gc moves.
ToMove(s) == {a \in Entries(s) : Entry(a).st \in {"WRITE", "PRE_DELETE"}}

\* Move the next of them.  do_gc goes on behind an entry it could not move.
GcKv ==
    LET left == {a \in ToMove(gcs[1]) : Before(gcs, a)} IN
    /\ pc = "gckv"
    /\ IF left = {}
         THEN pc' = "erase" /\ UNCHANGED <<put, gcs>>
         ELSE move_kv(First(left), "gc") /\ gcs' = First(left)
    /\ UNCHANGED <<sec, ram, op, already_gc, ret, cur, want, crashes>>

\* format_sector
Erase ==
    /\ pc = "erase" /\ pc' = "format"
    /\ sec' = [sec EXCEPT ![gcs[1]] = Bad]
    /\ UNCHANGED <<ram, op, already_gc, put, gcs, ret, cur, want, crashes>>

Format ==
    /\ pc = "format" /\ pc' = "gcsector"
    /\ sec' = [sec EXCEPT ![gcs[1]] = Clean]
    /\ UNCHANGED <<ram, op, already_gc, put, gcs, ret, cur, want, crashes>>

Collect == GcStart \/ GcSector \/ GcKv \/ Erase \/ Format

-----------------------------------------------------------------------------
(* The interface, under the lock.                                          *)

\* find_kv caches what it has found by scanning.
fdb_kv_get(k) ==
    /\ pc = "idle"
    /\ cache' = IF find_kv(k) = NoAddr THEN cache ELSE [cache EXCEPT ![k] = Address(find_kv(k))]
    /\ UNCHANGED <<sec, gc_request, in_recovery_check, last_is_complete_del, pc, op, already_gc, put, gcs, ret, cur, want, crashes>>

fdb_kv_set(k, v) ==
    /\ pc = "idle" /\ pc' = "new"
    /\ op' = [key |-> k, val |-> v, ret |-> "set"]
    /\ UNCHANGED <<sec, ram, already_gc, put, gcs, ret, cur, want, crashes>>

fdb_kv_del(k) ==
    /\ pc = "idle" /\ pc' = "delete" /\ find_kv(k) # NoAddr
    /\ put' = [NoPut EXCEPT !.key = k, !.old = find_kv(k), !.ret = "del"]
    /\ want' = [want EXCEPT ![k] = @ \cup {None}]
    /\ UNCHANGED <<sec, ram, op, already_gc, gcs, ret, cur, crashes>>

\* Mutant: the old entry of the key is forgotten.
Mutant_new_kv ==
    LET s == alloc_kv(Size[op.val]) IN
    /\ pc = "new" /\ s # NoSector
    /\ put' = [key |-> op.key, val |-> op.val, old |-> NoAddr, dst |-> s, full |-> FALSE, ret |-> op.ret]
    /\ pc' = "status"
    /\ want' = [want EXCEPT ![op.key] = @ \cup {op.val}] /\ already_gc' = FALSE
    /\ UNCHANGED <<sec, ram, op, gcs, ret, cur, crashes>>

\* new_kv: one GC when there is no room, and then the old entry of the key.
new_kv ==
    LET s == alloc_kv(Size[op.val])
        old == IF op.ret = "set" THEN find_kv(op.key) ELSE NoAddr
    IN  /\ pc = "new" /\ s # NoSector
        /\ put' = [key |-> op.key, val |-> op.val, old |-> old, dst |-> s, full |-> FALSE, ret |-> op.ret]
        /\ pc' = IF old = NoAddr THEN "status" ELSE "predelete"
        /\ want' = [want EXCEPT ![op.key] = @ \cup {op.val}] /\ already_gc' = FALSE
        /\ UNCHANGED <<sec, ram, op, gcs, ret, cur, crashes>>

NewFails ==
    LET request == AllocRequest(Size[op.val]) IN
    /\ pc = "new" /\ alloc_kv(Size[op.val]) = NoSector
    /\ IF request /\ ~already_gc
         THEN /\ pc' = "gc" /\ ret' = "new" /\ already_gc' = TRUE /\ gc_request' = TRUE
              /\ UNCHANGED op
         ELSE /\ pc' = (IF op.ret = "set" THEN "idle" ELSE "default") /\ op' = NoOp
              /\ gc_request' = (request /\ ~already_gc) /\ already_gc' = FALSE
              /\ UNCHANGED ret
    /\ UNCHANGED <<sec, in_recovery_check, last_is_complete_del, cache, put, gcs, cur, want, crashes>>

\* fdb_kv_set_default: format everything, then create the defaults.
fdb_kv_set_default ==
    /\ pc = "idle" /\ pc' = "wipe" /\ cur' = <<1, 0>>
    /\ want' = [k \in Keys |-> want[k] \cup {None, Default(k)}]
    /\ UNCHANGED <<sec, ram, op, already_gc, put, gcs, ret, crashes>>

Wipe ==
    /\ pc = "wipe" /\ pc' = "wiped"
    /\ sec' = [sec EXCEPT ![cur[1]] = Bad]
    /\ UNCHANGED <<ram, op, already_gc, put, gcs, ret, cur, want, crashes>>

Wiped ==
    /\ pc = "wiped" /\ pc' = IF cur[1] = S THEN "default" ELSE "wipe"
    /\ cur' = IF cur[1] = S THEN <<1, 0>> ELSE <<cur[1] + 1, 0>>
    /\ sec' = [sec EXCEPT ![cur[1]] = Clean]
    /\ UNCHANGED <<ram, op, already_gc, put, gcs, ret, want, crashes>>

CreateDefault ==
    /\ pc = "default"
    /\ IF cur[1] > Len(Defaults)
         THEN /\ pc' = (IF in_recovery_check THEN "gcs" ELSE "idle") /\ cur' = <<1, 0>>
              /\ want' = [k \in Keys |-> {Default(k)}]
              /\ UNCHANGED op
         ELSE /\ pc' = "new" /\ cur' = <<cur[1] + 1, 0>>
              /\ op' = [key |-> Defaults[cur[1]].key, val |-> Defaults[cur[1]].val, ret |-> "def"]
              /\ UNCHANGED want
    /\ UNCHANGED <<sec, ram, already_gc, put, gcs, ret, crashes>>

Interface ==
    \/ \E k \in Keys : fdb_kv_get(k) \/ fdb_kv_del(k)
    \/ \E w \in Writes : fdb_kv_set(w[1], w[2])
    \/ new_kv \/ NewFails
    \/ fdb_kv_set_default \/ Wipe \/ Wiped \/ CreateDefault

-----------------------------------------------------------------------------
(* _fdb_kv_load.                                                           *)

\* Reading the first entry of a sector that has none yet spoils its place.
Spoil(s) ==
    IF sec[s].store = "using" /\ sec[s].kvs = << >>
      THEN [sec[s] EXCEPT !.kvs = <<[key |-> None, val |-> None, st |-> "NONE", at |-> 0]>>]
      ELSE sec[s]

fdb_kvdb_init ==
    /\ pc = "off" /\ in_recovery_check' = TRUE
    /\ pc' = "headers"
    /\ op' = [NoOp EXCEPT !.ret = IF \A s \in Sectors : sec[s].store = "bad" THEN "blank" ELSE None]
    /\ sec' = [s \in Sectors |-> Spoil(s)] /\ cur' = <<1, 0>>
    /\ UNCHANGED <<gc_request, last_is_complete_del, cache, already_gc, put, gcs, ret, want, crashes>>

\* check_sec_hdr_cb formats what has no header; if nothing has, the defaults follow.
CheckHeaders ==
    LET bad == {s \in Sectors : sec[s].store = "bad"} IN
    /\ pc = "headers"
    /\ IF bad # {}
         THEN sec' = [sec EXCEPT ![Min(bad)] = Clean] /\ UNCHANGED <<pc, op>>
         ELSE pc' = (IF op.ret = "blank" THEN "wipe" ELSE "gcs") /\ op' = NoOp /\ UNCHANGED sec
    /\ UNCHANGED <<ram, already_gc, put, gcs, ret, cur, want, crashes>>

\* check_and_recovery_gc_cb: resume an interrupted GC.
RecoverGc ==
    /\ pc = "gcs"
    /\ IF cur[1] > S
         THEN pc' = "kvs" /\ cur' = <<1, 0>> /\ UNCHANGED <<gc_request, ret>>
         ELSE /\ cur' = <<cur[1] + 1, 0>>
              /\ IF sec[cur[1]].dirty = "gc"
                   THEN pc' = "gc" /\ ret' = "gcs" /\ gc_request' = TRUE
                   ELSE UNCHANGED <<pc, ret, gc_request>>
    /\ UNCHANGED <<sec, in_recovery_check, last_is_complete_del, cache, op, already_gc, put, gcs, want, crashes>>

\* check_and_recovery_kv_cb for an entry that is to be restored, or to be passed.
RecoverKv(a) ==
    IF Entry(a).st = "PRE_DELETE"
      THEN move_kv(a, "load") /\ UNCHANGED <<sec, cache>>
      ELSE /\ Entry(a).st \notin {"PRE_WRITE", "WRITE"}
           /\ UNCHANGED <<sec, cache, put, pc>>

\* An unfinished entry ends the iteration.
SpoilKv(a) ==
    /\ Entry(a).st = "PRE_WRITE"
    /\ SetStatus(a, "ERR_HDR") /\ pc' = "retry"
    /\ UNCHANGED <<cache, put>>

CacheKv(a) ==
    /\ Entry(a).st = "WRITE"
    /\ cache' = [cache EXCEPT ![Entry(a).key] = Address(a)]
    /\ UNCHANGED <<sec, put, pc>>

\* kv_iterator: the entries in the order of their addresses.
RecoverKvs ==
    LET left == {a \in All : Before(cur, a)} IN
    /\ pc = "kvs"
    /\ IF left = {}
         THEN pc' = "retry" /\ UNCHANGED <<sec, cache, put, cur>>
         ELSE /\ cur' = First(left)
              /\ RecoverKv(First(left)) \/ SpoilKv(First(left)) \/ CacheKv(First(left))
    /\ UNCHANGED <<gc_request, in_recovery_check, last_is_complete_del, op, already_gc, gcs, ret, want, crashes>>

\* The end of the iteration: again after a GC, or the database is ready.
Retry ==
    /\ pc = "retry"
    /\ IF gc_request
         THEN pc' = "gc" /\ ret' = "kvs" /\ cur' = <<1, 0>> /\ UNCHANGED <<in_recovery_check, want>>
         ELSE /\ pc' = "idle" /\ in_recovery_check' = FALSE /\ cur' = <<1, 0>>
              /\ want' = [k \in Keys |-> IF Get(k) \in want[k] THEN {Get(k)} ELSE want[k]]
              /\ UNCHANGED ret
    /\ UNCHANGED <<sec, gc_request, last_is_complete_del, cache, op, already_gc, put, gcs, crashes>>

Load == fdb_kvdb_init \/ CheckHeaders \/ RecoverGc \/ RecoverKvs \/ Retry

\* Power is lost.
Crash ==
    /\ pc # "off" /\ crashes < MaxCrashes /\ crashes' = crashes + 1
    /\ pc' = "off" /\ op' = NoOp /\ put' = NoPut /\ already_gc' = FALSE
    /\ gc_request' = FALSE /\ in_recovery_check' = FALSE /\ last_is_complete_del' = FALSE
    /\ cache' = [k \in Keys |-> NoAddr]
    /\ gcs' = <<0, 0>> /\ ret' = "idle" /\ cur' = <<1, 0>>
    /\ UNCHANGED <<sec, want>>

-----------------------------------------------------------------------------
Step == WriteEntry \/ Collect \/ Load

Next == Step \/ Interface \/ Crash

Spec == Init /\ [][Next]_vars

\* The database goes on with what it has begun.
FairSpec == Spec /\ WF_vars(Step \/ (pc # "idle" /\ Interface))

-----------------------------------------------------------------------------
\* The statuses are those of the status tables, a sector that format_sector has just
\* written is empty, and new_kv never lets an entry reach the end of its sector.
TypeOK ==
    /\ \A s \in Sectors :
         /\ sec[s].store \in {"bad", "empty", "using", "full"}
         /\ sec[s].dirty \in {"false", "true", "gc"}
         /\ sec[s].store \in {"bad", "empty"} => sec[s].kvs = << >> /\ sec[s].dirty = "false"
         /\ Remain(s) > 0
    /\ gc_request \in BOOLEAN /\ in_recovery_check \in BOOLEAN /\ last_is_complete_del \in BOOLEAN
    /\ crashes \in 0 .. MaxCrashes

\* What fdb_kv_get returns is what was last set, or deleted; after a power loss
\* in the middle of a change, the old or the new.
ReadBack == pc = "idle" => \A k \in Keys : Get(k) \in want[k]

\* At every moment, between any two writes of set_kv, gc_collect or _fdb_kv_load, the
\* flash holds a complete copy of every key.
Durable ==
    \A k \in Keys : None \in want[k] \/
       \E a \in All : /\ Entry(a).key = k /\ Entry(a).val \in want[k]
                      /\ Entry(a).st \in {"WRITE", "PRE_DELETE"}

\* A key has one entry with status FDB_KV_WRITE at most: set_kv and move_kv take the
\* old one out of it before the new one enters it.
OneLive == \A k \in Keys : Cardinality(Live(k)) <= 1

\* FDB_GC_EMPTY_SEC_THRESHOLD: when a call returns "there is at least one empty sector
\* for GC", which alloc_kv and gc_collect keep between them.
SpareSector == pc = "idle" => Empties # {}

\* set_kv returns FDB_SAVED_FULL only when every entry is valid, so that the GC of
\* new_kv has freed all there was to free.
RefusedOnlyWhenFull ==
    [][pc = "new" /\ pc' = "idle" => \A a \in All : Entry(a).st = "WRITE"]_vars

\* After every power loss fdb_kvdb_init returns: the retries of _fdb_kv_load end.
Boots == pc = "off" ~> pc = "idle"
=============================================================================
