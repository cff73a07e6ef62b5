------------------------------ MODULE FlashTs -------------------------------
(***************************************************************************)
(* The time series database of FlashDB/src/fdb_tsdb.c on a partition of S  *)
(* sectors.  A step is one write or erase of the flash with the work in    *)
(* RAM that goes with it; power may be lost between any two of them.       *)
(*                                                                         *)
(* Sizes are in units.  Of a sector, Cap units follow the header: indices  *)
(* of Idx units from the front, data of the logs from the back.  An index  *)
(* in PRE_WRITE is written in one step with its data, and so is an end     *)
(* node: whoever reads one in PRE_WRITE looks at its status only.          *)
(***************************************************************************)
EXTENDS Integers, Sequences, FiniteSets, FiniteSetsExt, SequencesExt

CONSTANTS S,              \* sectors
          Cap, Idx,       \* units of a sector without its header, LOG_IDX_DATA_SIZE
          Lens, MaxLen,   \* units of a log, max_len of fdb_tsdb_init
          Times,          \* what get_time may return
          Asked,          \* the times that a query may name
          Rollover,       \* what the application sets after initialisation
          MaxCrashes,     \* power losses in the middle of a call
          MaxMarks,       \* calls of fdb_tsl_set_status
          Wrap            \* 2^32 in units

ASSUME TsAssumption == /\ S \in Nat /\ S >= 2 /\ Times \subseteq Nat \ {0} /\ Asked \subseteq Nat \ {0}
                       /\ Idx \in Nat \ {0} /\ MaxLen \in Nat /\ Cap \in Nat /\ Idx + MaxLen <= Cap
                       /\ \A n \in Lens : n \in 1 .. MaxLen
                       /\ MaxCrashes \in Nat
                       /\ Rollover \in BOOLEAN /\ Wrap \in Nat /\ S * Cap < Wrap

VARIABLES sec,            \* the flash
          cur, oldest, last_time, rollover,     \* struct fdb_tsdb
          pc, op,         \* what the database does next, the append under way
          fmt,            \* the sector tsl_format_all is at
          kept,           \* history: the logs that fdb_tsl_append has promised
          met,            \* history: where power was lost
          crashes, marks,
          outside         \* a write has left the partition

ram == <<cur, oldest, last_time, rollover>>
hist == <<kept, met, crashes, marks>>
vars == <<sec, ram, pc, op, fmt, hist, outside>>

NoSector == -1            \* FDB_DATA_UNUSED
NoTime == -1              \* an erased fdb_time_t, which is signed
NoEnd == [st |-> "UNUSED", time |-> NoTime, idx |-> 0]
Erased == [magic |-> FALSE, st |-> "UNUSED", start |-> NoTime, ends |-> <<NoEnd, NoEnd>>, tsls |-> << >>]
Clean == [Erased EXCEPT !.magic = TRUE, !.st = "EMPTY"]
Zero == [addr |-> 0, st |-> "UNUSED", start |-> 0, end |-> 0, end_idx |-> 0,
         ends |-> <<"UNUSED", "UNUSED">>, idx |-> 0, data |-> 0, remain |-> 0]
NoOp == [time |-> NoTime, len |-> 0]
CleanOp == [time |-> 0, len |-> 0]

\* What an index reads as that was never written: read_tsl.
Blank == [st |-> "UNUSED", time |-> 0, len |-> MaxLen, at |-> NoSector]

Sectors == 0 .. S - 1
Following(s) == (s + 1) % S

\* The address of the n-th index of a sector.  Addresses are compared across sectors.
At(s, n) == s * Cap + n

PowerUp == /\ cur' = Zero /\ oldest' = NoSector /\ last_time' = 0 /\ rollover' = FALSE
           /\ pc' = "boot" /\ op' = NoOp /\ fmt' = 0

Init == /\ sec = [s \in Sectors |-> Erased]
        /\ cur = Zero /\ oldest = NoSector /\ last_time = 0 /\ rollover = FALSE
        /\ pc = "boot" /\ op = NoOp /\ fmt = 0
        /\ kept = << >> /\ met = {} /\ crashes = 0 /\ marks = 0 /\ outside = FALSE

-----------------------------------------------------------------------------
(* Reading the flash.                                                      *)

\* read_tsl: an index that was not finished is taken for the longest log, at time 0.
Unfinished(e) == e.st = "PRE_WRITE"
TimeOf(e) == IF Unfinished(e) THEN 0 ELSE e.time
LenOf(e) == IF Unfinished(e) THEN MaxLen ELSE e.len

\* The units that the data of the logs take: unit u of log i is counted as <<i, u>>.
DataLen(es) == Cardinality({iu \in (1 .. Len(es)) \X (1 .. MaxLen) : iu[2] <= LenOf(es[iu[1]])})

\* Mutant: the index of a log is not counted when a sector is read again.
MutantTraverse(i, es) ==
    IF es = << >> THEN i
    ELSE [i EXCEPT !.end = TimeOf(Last(es)), !.end_idx = At(i.addr, Len(es)), !.idx = Len(es),
                   !.data = Cap - DataLen(es), !.remain = Cap - DataLen(es)]

\* The loop over the logs of a sector in use.  One that fills it leaves 0.
Traverse(i, es) ==
    LET used == Len(es) * Idx + DataLen(es) IN
    IF es = << >> THEN i
    ELSE [i EXCEPT !.end = TimeOf(Last(es)), !.end_idx = At(i.addr, Len(es)), !.idx = Len(es),
                   !.data = Cap - DataLen(es), !.remain = IF Cap > used THEN Cap - used ELSE 0]

\* Without magic only the address is set; without an end node end and end_idx stay as they were.
read_sector_info(s, old, traversal) ==
    LET h == sec[s]
        written == {k \in 1 .. 2 : h.ends[k].st = "WRITE"}
        i == [addr |-> s, st |-> h.st, start |-> h.start,
              end |-> IF written = {} THEN old.end ELSE h.ends[Min(written)].time,
              end_idx |-> IF written = {} THEN old.end_idx ELSE h.ends[Min(written)].idx,
              ends |-> <<h.ends[1].st, h.ends[2].st>>, idx |-> 0, data |-> Cap, remain |-> Cap]
    IN  IF ~h.magic THEN [old EXCEPT !.addr = s]
        ELSE IF traversal /\ h.st = "USING" THEN Traverse(i, h.tsls)
        ELSE i

\* FDB_ASSERT(0) of read_sector_info
NoValidEnd(s) == sec[s].magic /\ \A k \in 1 .. 2 : sec[s].ends[k].st = "PRE_WRITE"

\* The sectors from the oldest on, as the iterators visit them.
Order == [i \in 1 .. S |-> (oldest + i - 1) % S]

\* What the iterators know of a sector: db->cur_sec when it is in use.
View(s) == IF sec[s].st = "USING" THEN cur ELSE read_sector_info(s, Zero, FALSE)
HasTsl(s) == sec[s].magic /\ sec[s].st \in {"USING", "FULL"}

\* The first n indices of a sector, as read_tsl finds them; past the logs it finds them unused.
Index(s, i) == IF i \in DOMAIN sec[s].tsls THEN sec[s].tsls[i] ELSE Blank
Seen(s, n) == [i \in 1 .. n |-> Index(s, i)]

\* As many indices of a sector lie up to end_idx (none when end_idx is the address of another sector).
Reach(v) == Max({0, v.end_idx - At(v.addr, 0)})

\* fdb_tsl_iter: the indices it passes to the callback.  In a sector with a status of its own the
\* first is passed on before an address is compared with end_idx, and none is left out for its status.
Passed(s) == IF HasTsl(s) THEN Seen(View(s).addr, Max({1, Reach(View(s))})) ELSE << >>
fdb_tsl_iter == IF oldest = NoSector THEN << >> ELSE FlattenSeq([i \in 1 .. S |-> Passed(Order[i])])

\* The binary search of fdb_tsl_iter_by_time.
Search(es, from) ==
    LET n == Len(es)
        f[r \in (1 .. n + 1) \X (0 .. n)] ==
            LET lo == r[1]
                hi == r[2]
                mid == lo + (hi - lo) \div 2
            IN  IF lo > hi THEN lo
                ELSE IF TimeOf(es[mid]) < from THEN f[<<mid + 1, hi>>]
                ELSE f[<<lo, mid - 1>>]
    IN  f[<<1, n>>]

\* Mutant: a time that is the last of a sector is looked for in the next.
MutantHolds(s, from) ==
    \/ View(s).start <= from /\ from < View(s).end
    \/ s = oldest /\ from <= View(s).start

\* The sector in which the logs from a time on begin.
Holds(s, from) ==
    \/ View(s).start <= from /\ from <= View(s).end
    \/ s = oldest /\ from <= View(s).start

\* The indices of a sector from a time on.  Where the search ends one is read before an address is
\* compared with end_idx, but an unused one is left out.
From(s, from) ==
    LET n == Reach(View(s))
        a == View(s).addr
        at == Search(Seen(a, n), from)
        m == Max({n, at})
    IN  FlattenSeq([k \in 1 .. m - at + 1 |->
            IF Index(a, at + k - 1).st = "UNUSED" THEN << >> ELSE <<Index(a, at + k - 1)>>])

\* fdb_tsl_iter_by_time: it ends at an empty sector, and at a log out of range.
fdb_tsl_iter_by_time(from, to) ==
    LET empty == {i \in 1 .. S : sec[Order[i]].magic /\ sec[Order[i]].st = "EMPTY"}
        last == IF empty = {} THEN S ELSE Min(empty) - 1
        first == {i \in 1 .. last : HasTsl(Order[i]) /\ Holds(Order[i], from)}
        scan == FlattenSeq([i \in 1 .. last |->
                    IF first # {} /\ i >= Min(first) /\ HasTsl(Order[i]) THEN From(Order[i], from) ELSE << >>])
        out == {i \in DOMAIN scan : ~(TimeOf(scan[i]) \in from .. to)}
    IN  IF oldest = NoSector THEN << >>
        ELSE SubSeq(scan, 1, IF out = {} THEN Len(scan) ELSE Min(out) - 1)

-----------------------------------------------------------------------------
(* fdb_tsdb_init                                                           *)

\* The local `sector' and `sec' of fdb_tsdb_init begin as what is on the stack: a time, and an
\* address before or after every index.
Stack == [end : Times \cup {0}, end_idx : {0, S * Cap}]
Local(g) == [Zero EXCEPT !.end = g.end, !.end_idx = g.end_idx]
ScanInfo(g) ==
    LET f[n \in 0 .. S] == IF n = 0 THEN Local(g) ELSE read_sector_info(n - 1, f[n - 1], TRUE)
    IN  f

InUse == {s \in Sectors : sec[s].st = "USING"}
Empties == {s \in Sectors : sec[s].st = "EMPTY"}

\* check_sec_hdr_cb: a header without magic, or a second sector to write to.
Failing == {s \in Sectors : ~sec[s].magic \/ (s \in InUse /\ \E t \in InUse \cup Empties : t < s)}

\* The check stops at the first sector that fails; the assertion comes before its callback.
Hangs == \E s \in Sectors : NoValidEnd(s) /\ \A t \in Failing : s <= t

\* Mutant: the oldest sector is taken to be the one after the first empty one.
MutantLatest == IF Empties # {} THEN Min(Empties) ELSE IF InUse # {} THEN Min(InUse) ELSE NoSector

\* The sector before the oldest: the last empty one, else the one in use.
Latest == IF Empties # {} THEN Max(Empties) ELSE IF InUse # {} THEN Min(InUse) ELSE NoSector

\* Mutant: an empty sector is not taken for the one to write to.
MutantBootSector == IF InUse # {} THEN Min(InUse) ELSE NoSector

\* The sector to write to, and what is known of it and of the one before it.
BootSector == IF InUse # {} THEN Min(InUse) ELSE IF Empties # {} THEN Min(Empties) ELSE NoSector
BootInfo(g) ==
    LET c == BootSector IN
    IF c = NoSector THEN [Zero EXCEPT !.addr = NoSector] ELSE read_sector_info(c, ScanInfo(g)[c + 1], TRUE)
BootOldest == IF Latest = NoSector THEN NoSector ELSE Following(Latest)

\* The time of the last log: of the sector in use, or of the one before an empty one.
BootTime(g) ==
    IF BootInfo(g).st = "USING" THEN BootInfo(g).end
    ELSE IF BootInfo(g).st = "EMPTY" /\ BootOldest # BootSector
      THEN read_sector_info((BootSector - 1) % S, Local(g), FALSE).end
    ELSE 0

\* Every sector is checked; the database is formatted, or cur_sec, oldest_addr and last_time are set.
Boot(g) ==
    /\ pc = "boot"
    /\ rollover' = TRUE
    /\ IF Hangs \/ Failing # {}
         THEN /\ pc' = IF Hangs THEN "hung" ELSE "format"
              /\ UNCHANGED <<cur, oldest, last_time>>
         ELSE /\ pc' = "control"
              /\ cur' = BootInfo(g) /\ oldest' = BootOldest /\ last_time' = BootTime(g)
    /\ UNCHANGED <<sec, op, fmt, hist, outside>>

\* fdb_tsdb_control(FDB_TSDB_CTRL_SET_ROLLOVER) is called after every initialisation.
Control ==
    /\ pc = "control" /\ pc' = "idle"
    /\ rollover' = Rollover
    /\ UNCHANGED <<sec, cur, oldest, last_time, op, fmt, hist, outside>>

\* tsl_format_all: one sector is erased, its status and magic are written, then the next.
FormatErase ==
    /\ pc = "format"
    /\ IF NoValidEnd(fmt) THEN pc' = "hung" /\ UNCHANGED sec
       ELSE pc' = "formatted" /\ sec' = [sec EXCEPT ![fmt] = Erased]
    /\ UNCHANGED <<ram, op, fmt, hist, outside>>

FormatMagic ==
    /\ pc = "formatted"
    /\ sec' = [sec EXCEPT ![fmt] = Clean]
    /\ IF fmt < S - 1
         THEN fmt' = fmt + 1 /\ pc' = "format" /\ UNCHANGED <<cur, oldest, last_time>>
         ELSE /\ pc' = IF op = CleanOp THEN "idle" ELSE "control"
              /\ oldest' = 0 /\ last_time' = 0 /\ fmt' = 0
              /\ cur' = [Zero EXCEPT !.st = "EMPTY", !.start = NoTime, !.data = Cap, !.remain = Cap,
                                     !.end = cur.end, !.end_idx = cur.end_idx]
    /\ op' = IF fmt < S - 1 THEN op ELSE NoOp
    /\ UNCHANGED <<rollover, hist, outside>>

\* fdb_tsl_clean.  The logs are given up as soon as it is called.
fdb_tsl_clean ==
    /\ pc = "idle" /\ pc' = "format" /\ fmt' = 0
    /\ op' = CleanOp
    /\ kept' = << >>
    /\ UNCHANGED <<sec, ram, met, crashes, marks, outside>>

-----------------------------------------------------------------------------
(* fdb_tsl_append                                                          *)

Need(n) == Idx + n

\* What an append does first: update_sec_status by the status of the current sector.
Begin(n) ==
    CASE cur.st = "USING" /\ cur.remain < Need(n) -> "seal"
      [] cur.st = "FULL"  -> "idle"
      [] cur.st = "EMPTY" -> "using"
      [] OTHER            -> "entry"

Enter(to, t, n) == op' = IF to = "idle" THEN NoOp ELSE [time |-> t, len |-> n]

\* tsl_append up to the first write to the flash.
fdb_tsl_append(t, n) ==
    /\ pc = "idle" /\ pc' = IF t < last_time THEN "idle" ELSE Begin(n)
    /\ Enter(pc', t, n)
    /\ UNCHANGED <<sec, ram, fmt, hist, outside>>

FreeEnds == {k \in 1 .. 2 : cur.ends[k] = "UNUSED"}

\* The end node of a sector that is full: the first free one of the two, PRE_WRITE.
Seal ==
    /\ pc = "seal"
    /\ IF FreeEnds = {} THEN pc' = "full" /\ UNCHANGED sec
       ELSE /\ pc' = "sealed"
            /\ sec' = [sec EXCEPT ![cur.addr].ends[Min(FreeEnds)] =
                          [st |-> "PRE_WRITE", time |-> last_time, idx |-> At(cur.addr, cur.idx)]]
    /\ UNCHANGED <<ram, op, fmt, hist, outside>>

\* Mutant: the end node is left in PRE_WRITE.
MutantSealed ==
    /\ pc = "sealed" /\ pc' = "full"
    /\ UNCHANGED <<sec, ram, op, fmt, hist, outside>>

Sealed ==
    /\ pc = "sealed" /\ pc' = "full"
    /\ sec' = [sec EXCEPT ![cur.addr].ends[Min(FreeEnds)].st = "WRITE"]
    /\ UNCHANGED <<ram, op, fmt, hist, outside>>

IsLast(s) == s = S - 1

\* The sector is full; without rollover the last one ends the database.
MarkFull ==
    /\ pc = "full"
    /\ sec' = [sec EXCEPT ![cur.addr].st = "FULL"]
    /\ cur' = [cur EXCEPT !.st = "FULL"]
    /\ IF IsLast(cur.addr) /\ ~rollover
         THEN pc' = "idle" /\ op' = NoOp
         ELSE pc' = "next" /\ UNCHANGED op
    /\ UNCHANGED <<oldest, last_time, rollover, fmt, hist, outside>>

\* Mutant: the oldest sector is not moved on.
MutantNextSector ==
    LET s == Following(cur.addr)
        i == read_sector_info(s, cur, FALSE)
    IN  /\ pc = "next" /\ cur' = i
        /\ pc' = IF i.st = "EMPTY" THEN "using" ELSE "erase"
        /\ UNCHANGED <<sec, oldest, last_time, rollover, op, fmt, hist, outside>>

\* The next sector is read; unless it is empty it is given up and the one after it is the oldest.
NextSector ==
    LET s == Following(cur.addr)
        i == read_sector_info(s, cur, FALSE)
    IN  /\ pc = "next" /\ cur' = i
        /\ IF i.st = "EMPTY" THEN pc' = "using" /\ UNCHANGED oldest
           ELSE pc' = "erase" /\ oldest' = Following(s)
        /\ UNCHANGED <<sec, last_time, rollover, op, fmt, hist, outside>>

Written(es) == FlattenSeq([i \in DOMAIN es |-> IF Unfinished(es[i]) THEN << >> ELSE <<es[i]>>])
Log(es) == [i \in DOMAIN es |-> [time |-> es[i].time, len |-> es[i].len]]

\* format_sector: as many of the oldest logs are given up as the sector held.
Erase ==
    LET n == Len(Written(sec[cur.addr].tsls)) IN
    /\ pc = "erase" /\ pc' = "magic"
    /\ sec' = [sec EXCEPT ![cur.addr] = Erased]
    /\ kept' = SubSeq(kept, n + 1, Len(kept))
    /\ UNCHANGED <<ram, op, fmt, met, crashes, marks, outside>>

Magic ==
    /\ pc = "magic" /\ pc' = "using"
    /\ sec' = [sec EXCEPT ![cur.addr] = Clean]
    /\ cur' = [cur EXCEPT !.st = "EMPTY", !.start = NoTime, !.ends = <<"UNUSED", "UNUSED">>,
                          !.idx = 0, !.data = Cap, !.remain = Cap]
    /\ UNCHANGED <<oldest, last_time, rollover, op, fmt, hist, outside>>

MarkUsing ==
    /\ pc = "using" /\ pc' = "start"
    /\ sec' = [sec EXCEPT ![cur.addr].st = "USING"]
    /\ cur' = [cur EXCEPT !.st = "USING", !.start = op.time]
    /\ UNCHANGED <<oldest, last_time, rollover, op, fmt, hist, outside>>

StartTime ==
    /\ pc = "start" /\ pc' = "entry"
    /\ sec' = [sec EXCEPT ![cur.addr].start = op.time]
    /\ UNCHANGED <<ram, op, fmt, hist, outside>>

\* write_tsl: the index in PRE_WRITE and the data.
Entry ==
    LET e == [st |-> "PRE_WRITE", time |-> op.time, len |-> op.len, at |-> cur.data - op.len] IN
    /\ pc = "entry" /\ cur.addr # NoSector /\ pc' = "commit"
    /\ sec' = [sec EXCEPT ![cur.addr].tsls = Append(@, e)]
    /\ UNCHANGED <<ram, op, fmt, hist, outside>>

Counted(c, n) == [c EXCEPT !.end = op.time, !.end_idx = At(c.addr, c.idx + 1), !.idx = @ + 1,
                           !.data = @ - n, !.remain = @ - Need(n)]

\* The log is valid; cur_sec is brought up to date and the append returns.
Commit ==
    /\ pc = "commit" /\ pc' = "idle"
    /\ sec' = [sec EXCEPT ![cur.addr].tsls[cur.idx + 1].st = "WRITE"]
    /\ cur' = Counted(cur, op.len)
    /\ last_time' = op.time /\ kept' = Append(kept, op) /\ op' = NoOp
    /\ UNCHANGED <<oldest, rollover, fmt, met, crashes, marks, outside>>

\* fal_partition_write: the sum of address and size is one of 32 bits.
BoundCheck(addr, n) == (addr + n) % Wrap <= S * Cap
InPartition(addr, n) == addr + n <= S * Cap

\* Without a current sector empty_idx and empty_data are 0: the index goes over the header of
\* the first sector, the data n units before address 0.
EntryNowhere ==
    LET addr == (0 - op.len) % Wrap
        ok == BoundCheck(addr, op.len)
    IN  /\ pc = "entry" /\ cur.addr = NoSector /\ pc' = "idle"
        /\ sec' = [sec EXCEPT ![0].magic = FALSE]
        /\ outside' = (outside \/ (ok /\ ~InPartition(addr, op.len)))
        /\ last_time' = IF ok THEN op.time ELSE last_time
        /\ op' = NoOp
        /\ UNCHANGED <<cur, oldest, rollover, fmt, hist>>

-----------------------------------------------------------------------------
(* fdb_tsl_set_status, restarts and power losses                           *)

StatusOrder == <<"PRE_WRITE", "WRITE", "USER_STATUS1", "DELETED", "USER_STATUS2">>
Rank(st) == CHOOSE i \in DOMAIN StatusOrder : StatusOrder[i] = st

\* The status of a log only moves on (docs/api.md:348); a program can only clear bits.
fdb_tsl_set_status(s, i, st) ==
    /\ pc = "idle" /\ marks < MaxMarks /\ marks' = marks + 1
    /\ i \in DOMAIN sec[s].tsls /\ ~Unfinished(sec[s].tsls[i])
    /\ Rank(st) > Rank(sec[s].tsls[i].st)
    /\ sec' = [sec EXCEPT ![s].tsls[i].st = st]
    /\ UNCHANGED <<ram, pc, op, fmt, kept, met, crashes, outside>>

\* The device is switched off between two calls.
Restart == pc = "idle" /\ PowerUp /\ UNCHANGED <<sec, hist, outside>>

\* Where a power loss hurts.
Window ==
    CASE pc \in {"format", "formatted"} /\ op = CleanOp -> {"clean"}
      [] pc = "sealed" -> IF "seal" \in met THEN {"reseal"} ELSE {"seal"}
      [] pc = "full" -> {"full"}
      [] pc \in {"next", "erase", "magic"} /\ sec[IF pc = "next" THEN Following(cur.addr) ELSE cur.addr].st # "EMPTY"
                 -> {"roll"}
      [] pc \in {"start", "entry"} /\ sec[cur.addr].tsls = << >> -> {"start"}
      [] pc = "commit" -> {"entry"}
      [] OTHER -> {}

\* After these the logs are no longer accounted for.
Fatal == {"roll", "full", "clean", "reseal"}

PowerLoss ==
    /\ pc \notin {"idle", "boot", "hung", "control"} /\ cur.addr # NoSector
    /\ crashes < MaxCrashes /\ crashes' = crashes + 1
    /\ met' = met \cup Window
    /\ kept' = IF Window \cap Fatal = {} THEN kept ELSE << >>
    /\ PowerUp
    /\ UNCHANGED <<sec, marks, outside>>

Work ==
    \/ \E g \in Stack : Boot(g)
    \/ Control \/ FormatErase \/ FormatMagic
    \/ Seal \/ Sealed \/ MarkFull \/ NextSector \/ Erase \/ Magic \/ MarkUsing \/ StartTime
    \/ Entry \/ Commit \/ EntryNowhere

Next ==
    \/ Work
    \/ \E t \in Times, n \in Lens : fdb_tsl_append(t, n)
    \/ fdb_tsl_clean
    \/ \E s \in Sectors, i \in 1 .. Cap, st \in {"USER_STATUS1", "DELETED"} : fdb_tsl_set_status(s, i, st)
    \/ Restart \/ PowerLoss

Spec == Init /\ [][Next]_vars

-----------------------------------------------------------------------------
(* Properties                                                              *)

Ready == pc = "idle"

TypeOK ==
    /\ \A s \in Sectors : sec[s].st \in {"UNUSED", "EMPTY", "USING", "FULL"}
    /\ cur.addr \in Sectors \cup {NoSector} /\ oldest \in Sectors \cup {NoSector}
    /\ Ready /\ cur.st = "USING" => cur.remain \in 0 .. Cap /\ cur.idx \in 0 .. Cap
    /\ fmt \in Sectors /\ crashes \in 0 .. MaxCrashes

\* Power was lost in `start': the sector in use holds no index yet.
Bare == cur.st = "USING" /\ cur.idx = 0

\* fdb_tsl_iter returns every log whose append returned, oldest first; only the oldest logs are
\* ever given up.  Besides them it passes on the indices of appends that were interrupted, which
\* say so by their status, and no index that was never written, except in a sector that a power
\* loss left in use and without a log (fdb_tsdb.c:443).  Power losses matter in the places of Fatal.
Found ==
    Ready /\ met \cap Fatal = {} /\ ~Bare => Log(Written(fdb_tsl_iter)) = kept

\* A time after the last log of one sector and before the first of the next.
InGap(from) ==
    \E i \in 1 .. S - 1 : /\ HasTsl(Order[i]) /\ HasTsl(Order[i + 1])
                          /\ View(Order[i]).end < from /\ from < View(Order[i + 1]).start

\* The logs of a range of times, in their order.
Between(os, from, to) ==
    FlattenSeq([i \in DOMAIN os |-> IF os[i].time \in from .. to THEN <<os[i]>> ELSE << >>])

\* fdb_tsl_iter_by_time returns the logs of the range and no others, in order, whatever
\* sectors they are in, unless the range begins in a gap between two sectors.
QueryRight ==
    Ready /\ met \subseteq {"seal"} =>
        \A from \in Asked, to \in Asked :
            ~InGap(from) => Log(fdb_tsl_iter_by_time(from, to)) = Between(kept, from, to)

\* The data of two logs never overlap, nor do they reach into the indices, also when an
\* append was interrupted and its place is skipped by what the recovery counts.
Disjoint ==
    \A s \in Sectors : LET es == sec[s].tsls IN
        \A i \in DOMAIN es :
            /\ es[i].at >= Len(es) * Idx
            /\ \A j \in 1 .. i - 1 : es[i].at + es[i].len <= es[j].at

\* What fdb_tsdb_init would read from the flash is what db holds between two calls: no
\* restart changes what is found or where the next log goes.
RestartNeutral ==
    Ready /\ rollover /\ met \subseteq {"seal", "entry"} =>
        \A g \in Stack :
            /\ Failing = {} /\ ~Hangs
            /\ BootOldest = oldest /\ BootTime(g) = last_time
            /\ cur.st = "EMPTY" => BootInfo(g).addr = cur.addr /\ BootInfo(g).remain = cur.remain
            /\ cur.st = "USING" => [BootInfo(g) EXCEPT !.ends = cur.ends] = cur

\* An end node that was interrupted once is written again in the other place: only a second
\* power loss in the same place stops fdb_tsdb_init in its assertion.
NeverHangs == pc = "hung" => "reseal" \in met

\* No write leaves the partition unless power was lost between FULL and the next sector.
Inside == outside => "roll" \in met \/ "full" \in met
=============================================================================
