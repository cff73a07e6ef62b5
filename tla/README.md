# Verification of mcu_utilities

TLA+ models of the parts of mcu_utilities that carry its own control logic: what happens when
power is lost between two flash operations, when an interrupt comes between two assignments,
when a byte on the line is lost or damaged. TLC checks the models on small instances; TLAPS
proves most of the safety properties for every size: those of the boot loader, the ring buffer,
the file transfer, the Modbus slave, the log output and the buttons.

Paths are relative to the repository (`src/`).

## 1. The system

The repository is a collection of bare-metal components for microcontrollers. A product links
some of them together; they meet in flash partitions, interrupt handlers and callbacks:

- the application (or `fota` itself) receives a package by `ymodem` and writes it through
  `RTT_FAL` into the download partition; after the next reset `fota` verifies it with
  `tinycrypt`, unpacks it with `fastlz` or `quicklz` and installs it;
- `FlashDB` keeps settings and logs in other partitions of the same flash, through `RTT_FAL`,
  which may sit on `SFUD`;
- serial input reaches the main loop through `lwrb` (filled by DMA or an interrupt), `ymodem`
  through `ymodem_data_recv`, and `FreeModbus` through its own interrupt handlers;
- `easylogger`, `letter-shell`, `segger-rtt` and `cm_backtrace` carry text out.

| Component | State it keeps | Operations | Talks to | Hard because of | Correct when |
|---|---|---|---|---|---|
| `fota` | flash: `app`, `rollback`, download partitions and the header in the last; RAM: `rbl_fota_part_head`, `is_first_enter` | `fota_init` and what it calls | RTT_FAL, ymodem, tinycrypt, fastlz, quicklz | power loss and flash errors between any two of many erases and writes | there is always an image to go back to; only verified code runs; a package is marked iff installed; the device comes back |
| `lwrb` | array, `r`, `w` | write, read, peek, skip, linear blocks, advance, reset, free | DMA, interrupt handlers | the other end runs in between | it is a FIFO of `size - 1` bytes; a DMA block stays its owner's |
| `ymodem` | packet number, file number, `eot_num`, error counter, `recv_buf` | `ymodem_receive`, `ymodem_data_recv`, callbacks | serial interrupt, host, flash of the application | lost, damaged, late, repeated frames and answers | files arrive once and complete, errors are reported, it always returns |
| FlashDB KVDB | sectors with status tables and entries; RAM: `gc_request`, `in_recovery_check`, `last_is_complete_del`, key cache | set, delete, get, set default, GC, load | RTT_FAL | power loss in set, GC and recovery; running full | reads return the last value; the last copy is never erased; GC always has a spare sector; initialisation ends |
| FlashDB TSDB | sectors with header, end nodes, indices and data; RAM: `cur_sec`, `oldest_addr`, `last_time`, `rollover` | append, iterate, query by time, set status, clean, initialise | RTT_FAL | power loss at a sector change, rollover, RAM worked out again at every start | an append that returned is found, in order and by time; logs do not overlap; a restart changes nothing; no write leaves the partition |
| FreeModbus | `eRcvState`, `eSndState`, `ucRTUBuf`, one event slot, `eMBState` | `eMBPoll`, receive, transmit and timer interrupts | UART, timer | interrupts during `eMBPoll`; one slot for events | a request is executed whole and once; a reply answers the request it was made for; the receiver always comes back |
| easylogger | async ring buffer with full and empty flags, output lock, semaphore; buffer of `elog_buf`, flash and file plugins | output, get log, flush | RTT_FAL, FILE, threads | boundary of the ring, threads that log and one that writes | logs come out in order, cut only when full, and nothing is left behind |
| MultiButton | state, ticks, repeat, debounce counter of each button; list of buttons | init, start, stop, ticks | timer interrupt, GPIO, callbacks | time limits, list changed under the interrupt and by callbacks | bounces are ignored; every gesture ends in its events; a tick handles every button once |
| RTT_FAL | partition table, device table | find, read, write, erase | flash drivers | wrapping of address sums | no access leaves its partition |
| sfu | download state | older ymodem downloader | flash | as ymodem and fota | as ymodem |
| SFUD | chip parameters | read, write, erase of a SPI flash | SPI | busy waits, page splits | whole range written, in pages |
| system_status | status bits | set, get | – | – | – |
| check, tinycrypt, fastlz, quicklz, cjson, letter-shell, segger-rtt, cm_backtrace, tools | – | libraries and scripts | – | – | not modelled, see section 8 |

The hazards found in this survey, each at its line, are in `PROJECT.json`.

## 2. Modules

| Module | Models | Kind |
|---|---|---|
| `Fota` | `fota/fota.c` | state machine, invariants, liveness |
| `FotaProofs` | – | theorems about `Fota` |
| `LwrbOps` | the array, indices, index arithmetic and copies of `lwrb/lwrb.c` | operators |
| `Lwrb` | every call of `lwrb/lwrb.c`, DMA on linear blocks | state machine |
| `Fifo` | what `lwrb` promises | abstract specification |
| `LwrbPreempt` | the same calls, interrupted between any two accesses | state machine |
| `LwrbProofs` | – | theorems about `Lwrb` and `LwrbPreempt` |
| `Ymodem` | `ymodem/ymodem.c`, a host, the line | state machine, liveness |
| `YmodemProofs` | – | theorems about `Ymodem` |
| `FlashKv` | `FlashDB/src/fdb_kvdb.c` and the status tables of `fdb_utils.c` | state machine, liveness |
| `FlashKvProofs` | – | theorems about `FlashKv` |
| `FlashTs` | `FlashDB/src/fdb_tsdb.c`, the bound check of `RTT_FAL/src/rtt_fal_partition.c` | state machine |
| `FlashTsProofs` | – | theorems about `FlashTs` |
| `ModbusRtu` | `FreeModbus/modbus/rtu/mbrtu.c`, `modbus/mb.c`, `port/portevent.c`, a master, the line | state machine, liveness |
| `ModbusProofs` | – | theorems about `ModbusRtu` |
| `ElogAsync` | `easylogger/src/elog_async.c`, the lock of `elog.c`, `elog_cpyln` | state machine, liveness, refinement |
| `LogStream` | what the asynchronous output promises | abstract specification |
| `ElogProofs` | – | theorems about `ElogAsync` |
| `MultiButton` | `MultiButton/multi_button.c` | state machine, liveness |
| `MultiButtonProofs` | – | theorems about `MultiButton` |
| `MC*` | – | instances for TLC |

Definitions named `Mutant...` are faulty versions of the definition below them; each breaks one
property, which shows that the property depends on that piece of code.

### Fota

`flash` holds the three partitions, each a row of cells; a cell is one 4 KB transfer and its
value is the image whose part it holds, `Erased` or `Torn`. `done` is "current version =
download version" in the header of the download partition. `pc` is where `fota_init` is, `idx`
the cell its loop is at. One step erases or programs one cell. `PowerLoss` and `FlashError` may
come instead of any step and may leave the cell in hand torn. The compile-time switches
(`FOTA_ROLLBACK`, `FOTA_YMODEM`, `FOTA_INSTALL_RESTART`) are constants, so are the sets of
packages that fail verification (`Bad`) and of those whose vectors `fota_start_application`
rejects (`NoStart`). Hashing, decryption and decompression are abstracted to `Intact` and
`Bad`: an image is what its hash says it is. The ymodem sender, the port's callbacks that
program the download partition, and the application are external: they are modelled from how
`fota.c` uses them.

### Lwrb, LwrbPreempt, Fifo

`Lwrb` has one action per call and two for a DMA on a linear block (address and length handed
out; `lwrb_advance` or `lwrb_skip` when it is done). `call` records arguments and results, so
that the refinement covers what calls return. `Fifo` is a queue of at most `Capacity` bytes;
`IsFifo` says `Lwrb` implements it with `q` the bytes from `r` round to `w`. The event callback
(`BUF_SEND_EVT`) is left out.

In `LwrbPreempt` one end calls from the main program, one access per step, the other from an
interrupt handler, a whole call per step. Which end is the handler's is chosen at first. The
k-th byte written carries the stamp `k % M`, so a byte lost, repeated or overwritten is seen
when it is read.

### Ymodem

A frame is a header byte and a rest; `ymodem_data_recv` puts them into `recv_buf` one after the
other and `ymodem_receive` looks at the header first. The host is an ordinary sender: one frame
at a time, repeated on NAK or timeout. The line may damage a frame (`corrupt` the data,
`renumber` it), lose one (`packet`) or an answer (`reply`); the receiver may time out too early
(`late`, between frames; `cut`, inside one, after which what is left of the frame is taken for
a new one); a callback may fail (`flash`). `met` remembers which kinds have happened, so that
each property says under which of them it holds. `Mod` packet numbers stand for 256 and `Unit`
units for the 128 or 1024 bytes of a packet. The choice between SOH and STX sizes is one case.
The final partial packet, padding, the length in block 0, the wrap of packet numbers and the
or-ing of status values are modelled.

### FlashKv

A sector has a store status, a dirty status and a row of entries; an entry has a status, its
key and value, and its offset. A step is one write or erase of flash with the RAM work that
goes with it, in the order of `set_kv`, `create_kv_blob`, `del_kv`, `move_kv`, `do_gc`,
`format_sector` and `_fdb_kv_load`; `Crash` may come before any of them. `want[k]` is what the
key may read as: one value, or old and new while a change is under way. Header, name and value
are one write, since every reader of an entry in PRE_WRITE only looks at its status. Left out:
the sector cache, eviction and CRC collisions of the key cache, flash write errors,
`kv_auto_update`, the iterator and print interfaces, flash that tears inside one status write.

### FlashTs

A sector is its header (`magic`, status, start time, two end nodes) and a row of indices; an
index has status, time, length and the place of its data. Sizes are in units: `Cap` units after
the header, `Idx` for an index, growing from the front, and the data from the back, as in
`write_tsl`. `cur`, `oldest`, `last_time` and `rollover` are the fields of `struct fdb_tsdb`. A
step is one write or erase in the order of `update_sec_status`, `format_sector`, `write_tsl` and
`tsl_format_all`; status, time, index and data of one record are one step as long as it is
PRE_WRITE, since a reader of it looks only at the status. `PowerLoss` may come before any of
them. `fdb_tsl_iter` and `fdb_tsl_iter_by_time`, with its binary search, are operators: what
they would pass to their callbacks in a state. `At` numbers the indices of all sectors, since
`end_idx` is an address and may be that of another sector. `Passed` and `From` follow the loops:
in a sector in use the first index is read before an address is compared with `end_idx`, so that
indices beyond the logs are read too (`Index`, `Blank`); what is beyond them counts as unused, that
is, data are not mistaken for an index. The stack variable `sector` of `fdb_tsdb_init` is not
initialised; its end time and `end_idx` are a choice (`g`). `NoSector` is the address 0xFFFFFFFF,
which `EntryNowhere` writes through, past the bound check of `fal_partition_write`, whose sum is
taken modulo `Wrap`.

`kept` holds what the appends that returned have promised and gives up the oldest when a sector
is erased for a new one. `met` says in which places power was lost; properties name the places
after which the code does not keep them: `roll` (the next sector is being formatted), `full`
(FULL is set and nothing else), `clean` (inside `fdb_tsl_clean`), `reseal` (an end node for the
second time), `seal`, `start`, `entry` (an end node, a sector without a log, an index unfinished).

### ModbusRtu

A frame is three units: header (address and function), data and a CRC, which is right only for
the two units it was made of. An interrupt handler is one step, `eMBPoll` is several, with a
step between the read and the clear of the event slot, and one between execution and reply, as
`ucRTUBuf` is written by the receiver all the time. Critical sections are one step. The function
handlers are `Execute` (what it read) and `WriteReply` (a reply over the request). The idle case of
the transmitter (`mbrtu.c:298-301`) is left out: the port disables the transmitter's interrupt
whenever that state is entered, so it is not reached. The master
sends after a silence, repeats what is not answered, and may be too early; `due`, `done`,
`wrong` and `met` are history. `met` keeps what the properties have to except: `early` (the master
did not wait), `late` (after the silence that ended a whole frame a unit of noise comes in while
that frame is still to be executed) and `stale` (`eMBDisable` left an event or a transmission).

### ElogAsync, LogStream

One step is what a thread does between two points where another can see a difference: taking
and releasing the lock, the put under it, the post of the semaphore, the wait, the read, the
write to the port. `line` chooses between `elog_async_get_log` and `elog_async_get_line_log`,
which are two builds; `TakeSize` is the difference between them. A filter lets a log pass or
not; `DirectOutput` stands for a log that goes to the port at once. `LogStream` is a queue of
characters in which a put drops what does not fit; `IsStream` says `ElogAsync` implements it with
`q` the characters from `read_index` on.

### MultiButton

The main program's `button_start` and `button_stop` take one step per pass of their loops, with
pointers into the list as in the code; `button_ticks` starts between any two of them and then one step
handles one button, while the main program stands still. Each state of `button_handler` has its
actions. A callback may stop one button, its own or another, wherever the main program is; what it
does to the list is one step, since it runs in the interrupt. The list is the set of buttons that
`Reach` finds from `head_handle`. `ticks`, `repeat` and `debounce_cnt` are numbers below `Wrap`,
`RepeatWrap` and `CntWrap` (16, 4 and 3 bits in the code). `started`, `done`, `trace`, `seen` and
`crossed` are history: what was asked for, handled, called back and read, and whether a callback
has stopped a button inside `button_start` or `button_stop`. A callback starts no button: `button_start`
from a callback, which `multi_button.c:8` and 208-209 allow, is left out. A button that a callback
stops and starts is put before all others, so that the walk of `multi_button.c:239` begins again
and handles buttons twice in one tick.

## 3. Runs

| Run | Expected | Question | Instance |
|---|---|---|---|
| `lwrb` | pass | do DMA blocks and results of all calls stay right; is it the queue of `Fifo`? | 3-byte array, 2 byte values, transfers of 0 to 3 bytes |
| `lwrb_preempt` | pass | is nothing lost, repeated or miscounted with one end in an interrupt handler? | 4-byte array; `lwrb_read` interrupted at will, other calls once |
| `fota_rollback` | pass | is there always a way back, is the mark true, does the device come back, is a pending package installed? | two good packages and a bad one, 3 cells |
| `fota_ymodem` | pass | is only intact and accepted code started, with manual rollback, ymodem, unstartable packages and read errors too; does ymodem rescue the device? | a good, an unstartable and a bad package, 2 cells |
| `fota_unstartable` | violation | is there still a way back when a package has illegal vectors and saving the application fails? | a good and an unstartable package, 3 cells |
| `ymodem` | pass | does it return, succeed, deliver, count, abort and acknowledge as it should, under which faults? | files of 5 and 2 units, 2 per packet, 3 packet numbers, 3 faults of 7 kinds |
| `flashkv` | pass | do reads return what was set, is one entry valid, a refusal justified? | 3 sectors of 6 units, 2 keys, entries of 2 and 3 units, a default, blank flash |
| `flashkv_crash` | pass | is a copy of every key kept, does initialisation end, with a power loss anywhere? | 3 sectors of 5 units, 2 keys, entries of one size, 1 power loss |
| `flashts` | pass | is every log found, by order and by time; do logs overlap; does a restart change anything or hang; does a write leave the partition? | 3 sectors of 4 units, logs of 1 and 2 units, times 1 and 3, queries from 1 to 3, 1 power loss, 1 change of status |
| `modbus_rtu` | pass | is a request executed whole and once, do the assertions of the code hold, is every request answered? | a read, a write, a broadcast, a request to another slave; 1 fault, 1 upset |
| `elog_async` | pass | is a wake-up lost, is the output the stream of `LogStream`, does it drain? | ring of 4, chunks of 3, 2 threads, a line of 3 characters and a raw log of 1, both builds |
| `multi_button` | pass | is the list whole, is every button handled once per tick, are callbacks those of a gesture, are bounces ignored, does a button come to rest? | 2 buttons of two configurations, callbacks that stop either at any time, debouncing over 3 ticks, 3 presses in a row |

`Recoverable` of `fota_rollback` and `RunsIntact` and `NoRejectedCode` of `fota_ymodem` are the
same questions that `FotaProofs` answers for every size. Some invariants are stated in the
modules as support for the others and belong to no run: the `TypeOK` of every
module, `SpareSector` of `FlashKv`, `TimerRuns` and `HalfDuplex` of
`ModbusRtu`, `FlagsAgree` of `ElogAsync`. TLC finds them true under the constants of the run of
their module (`flashkv` for `FlashKv`); all are proved (section 5).

### Bounds and why they are enough

- `lwrb`: with 3 bytes the used part, the free part and a block can each be empty, partial,
  wrapped and full. The theorems hold for every size. In `lwrb_preempt` 4 bytes allow a call of
  two parts that each have more than one byte; `M` is larger than twice the array, so no stamp
  can be taken for another. `MaxIsr` is the number of interrupts during one call.
- `fota`: a transfer loop needs a first, a middle and a last cell (`N = 2`); further cells
  repeat the middle one. `N = 1` suffices where only the order of transfers matters. Two good
  images tell the old from the new one. Faults are not bounded. Safety is proved for every
  number of cells and any packages.
- `ymodem`: the first file has three packets and packet numbers run modulo 3, so the number
  wraps to 0 inside a file as 256 does; its last packet is partial; the second file shows what
  state is carried over. `MaxErrors = 4` is one more than `MaxFaults`: loss alone must not end
  the transfer, and a flash error or a cut frame can reach the limit.
- `flashkv`: 3 sectors are one in use, one full and one spare, the smallest in which GC visits
  more than one sector. 2 or 3 entries fill a sector. `Hdr` and `Threshold` are such that a
  sector can become full by an entry, by a spent slot and by neither. In `flashkv_crash` one
  key changes between two values and the other is set and deleted.
- `flashts`: with 3 sectors one is in use, one full, one the next; a sector takes one or two logs
  and a small log can follow where a large one did not fit, which needs two sizes. Two times make
  equal and different times within and between sectors; queries also ask for the time between
  them, which no log has and which may lie in a gap between two sectors (`InGap`).
- `modbus_rtu`: one fault reaches each kind of damaged frame; with three units and room for three,
  an added unit overruns the buffer. Noise after a whole frame takes two faults: the invariants
  were checked with two as well (3.5 million states), and are proved for any number. `MaxUpsets` bounds early masters and `eMBDisable`.
- `elog_async`: a line is one character shorter than the ring and longer than a chunk minus the
  newline, so that logs are cut, just fit, wrap and are read in two parts; the newline has two
  characters and may be split by the end of the array. One post saturates the semaphore.
- `multi_button`: `Debounce` and `CntWrap` are the real ones; `Short` and `long` are such that a
  press can be shorter and longer than each; `Wrap` lets `ticks` overflow while a button is held.
  Three presses are one more than the code tells apart. The pins of one button move; the other is
  in the list before or after it.

`CHECK_DEADLOCK FALSE` appears in the ymodem run only: `ymodem_receive` returns and the model
then stops.

### Fairness

- `Fota`: weak fairness of `Boot`, the steps `fota_init` takes by itself; it is a loop on one
  processor. Nothing is assumed of downloads or restarts. `EventuallyRuns` and the other
  liveness properties assume that faults stop, inside the property.
- `Ymodem`: weak fairness of the receive loop, the interrupt, the host's reception and the
  receiver's clock; strong fairness of the host's timeout, whose condition (silence) comes and
  goes. Faults are bounded and need no fairness.
- `FlashKv`: the database goes on with a call it has begun (`pc # "idle"`); nothing obliges the
  application to call.
- `ModbusRtu`: weak fairness of characters, timer, transmitter, `eMBPoll` and the master's
  patience; the application calls `eMBEnable` again after `eMBDisable`.
- `ElogAsync`: a thread that holds the lock goes on; weak fairness of the output thread and
  strong fairness of its taking the lock, since its priority is the highest but one
  (`elog_async.c:47`).
- `MultiButton`: the timer goes on and an interrupt ends. Nothing is assumed of the main program.

## 4. Where code and documentation disagree

`fota_unstartable` is a run, and under `findings` in `PROJECT.json`: the application downloads a
package that passes every hash but has illegal vectors. The next boot verifies it and begins to save
the application in the rollback partition, which is still empty; the flash reports an error, and
`fota.c:1451` ignores it. The upgrade goes on and erases the application. From its first cell on
nothing in the flash can be started, and no power was lost. (With a package that can be started the
download itself would be the way back.)

The others are found by changing constants of a run, or follow from the code; the conditions in
the properties name them.

lwrb, ymodem, fota:

- `lwrb.c:459`, `144`, `381`, `189`: an index is stored as `size` before it is wrapped. A reader
  in an interrupt that empties the buffer to `r = 0` in between, and comes a second time, counts
  `size` bytes, against `lwrb.c:57` (`lwrb_preempt` with `MaxIsr <- AnyEach` violates
  `CapacityKept`). One interrupt per call is harmless, and so is any number during `lwrb_read`.
- `ymodem.c:287`: the data callback gets a packet before its CRC has decided anything, and again
  when it is resent, against `ymodem/README.md:5` (`Faults = {"corrupt"}` violates
  `AllDelivered`).
- `ymodem.c:405`: a host that sends no length gets length 0, not 0xFFFFFFFF as `ymodem.c:372`
  says; every packet is cut to nothing (`Announce = FALSE` violates `AllDelivered`).
- `ymodem.h:71-79`: Y_ERROR_CRC | Y_ERROR_FLASH = Y_EOY: a damaged packet whose write fails
  ends in success. Hence the condition in `FlashErrorAborts`.
- `ymodem.c:116`: when the ACK of the second EOT is lost or comes too late the file is closed and
  counted twice, against `ymodem.c:37`. A damaged block 0 may read as an empty name, which ends the
  transfer in success with files missing. `CountRight` says what is left: an exact count while packets
  are only lost or renumbered and callbacks fail, none too few when answers are lost or late as well,
  and under any faults at most one too many for each.
- A block 0 with a damaged number sets `y_first_packet_received`, and late timeouts at EOT shift
  acknowledgements. Hence the condition in `AckedInOrder`.
- `fota.c:1445` records the version of a rejected package as the current one, against
  `fota.c:24`; `fota.c:1467` takes a failed read for a corrupted application and rolls back over
  a good one.

FlashDB KVDB, which promises power-off protection (`FlashDB/README_zh.md:44`):

- `fdb_kvdb.c:1483`: an unfinished entry at a lower address ends the recovery before the old value,
  PRE_DELETE, has been restored (`flashkv_crash` violates `ReadBack`).
- `fdb_kvdb.c:1527`: the old entry is larger than the room left, its sector not yet dirty, so the GC
  that the recovery asks for finds nothing to collect, for ever (`flashkv_crash` with
  `Size <- Unlike` violates `Boots`).
- `fdb_kvdb.c:919`: the entry that the recovery forgets is moved to WRITE by a later GC,
  beside a newer value (`flashkv_crash` violates `OneLive`).
- `fdb_kvdb.c:1025`: a GC resumed after a power loss may lack room for an entry, and erases it
  all the same (`Durable` fails with entries of two sizes, or after two power losses).
- `fdb_kvdb.c:1512`: a power loss in the first initialisation leaves a formatted sector, and the
  defaults are then never written, against `FlashDB/docs/zh-cn/api.md:41`.
- `fdb_kvdb.c:1156`, without any power loss: a default that fills its sector sets `gc_request`, and
  `fdb_kv_set_default` runs no GC. The next `fdb_kv_set` is then allowed the last empty sector at 836,
  and its GC erases what it finds no room for (2 sectors and two defaults that fill one violate
  `Durable` and `ReadBack`). Two defaults of one name are both written and both valid (`OneLive` fails).
  Hence `DefaultsFit` in section 5, where the proof met this.
- Slots spent by a power loss in a sector that is not dirty are not reclaimed, so
  `RefusedOnlyWhenFull` is stated for runs without power loss.

FlashDB TSDB, which promises "Support **Power-off protection** function, high reliability"
(`FlashDB/README.md:33`):

- `fdb_tsdb.c:327`: a power loss while the next sector is formatted leaves it without magic, and
  `fdb_tsdb_init` then formats every sector (`roll`).
- `fdb_tsdb.c:307`: a power loss between FULL and the erase of the next sector in a full ring leaves
  no sector in use and none empty: `cur_sec.addr` stays 0xFFFFFFFF, the next append writes its
  index over the header of the first sector and its data before the partition, since the sum in
  `rtt_fal_partition.c:421` wraps (`roll`, `full`).
- `fdb_tsdb.c:758`: initialisation sets `rollover` before it uses it, so the branch at 782 is dead;
  a full database without rollover meets the same after every restart (`Rollover = FALSE`
  violates `Found`), against `FlashDB/docs/zh-cn/api.md:277`.
- `fdb_tsdb.c:299`: a power loss after the end node and before FULL, then a log that still fits:
  the end node is out of date and the logs after it are not found (`full`).
- `fdb_tsdb.c:192`: two power losses in end nodes of one sector stop every later start in
  `FDB_ASSERT(0)` (`reseal`).
- `fdb_tsdb.c:114`: an unfinished index is read with time 0. It becomes `last_time`, so that older
  times are accepted, and misleads the binary search (`entry`).
- `fdb_tsdb.c:494`: a query that begins in the gap between two sectors returns nothing, against
  `FlashDB/docs/sample-tsdb-basic.md:85` (`InGap`).
- `fdb_tsdb.c:801`: a sector in use without a log gives `last_time` an uninitialised value
  (`start`). An interrupted `fdb_tsl_clean` may bring logs back (`clean`).
- `fdb_tsdb.c:443`: in such a sector `fdb_tsl_iter` hands out the first index, which was never written
  (length `max_len`, address 0xFFFFFFFF), until the next append; hence `~Bare` in `Found`. Everywhere
  it hands out the indices of interrupted appends, with their status.
- `fdb_tsdb.c:762` accepts a `max_len` that does not fit into a sector with its header and index.
  The iterators and `fdb_tsl_set_status` take no lock.

FreeModbus:

- `mbrtu.c:196` says sending is aborted when the master has sent another frame. It is not when that
  frame is already complete: the stale reply is sent, and a write whose reply equals the request
  may be executed twice (`early`).
- `mb.c:316`: `eMBDisable` leaves event slot and transmission; after `eMBEnable` the old request is
  executed, and the end of the transmission switches the receiver on while disabled (`stale`).
- `portevent.c:75`: an event posted between read and clear is lost; only the master's repetition
  recovers it.
- `mbrtu.c:159` asserts fewer than MB_SER_PDU_SIZE_MAX bytes, the receiver accepts as many; the
  assertions are empty in `port.h`.
- `modbus_api.c`: a write over two lists of registers takes the bytes of the first for the second,
  may stop in the middle with an exception, and swaps bytes only for one register (not modelled).

easylogger:

- `elog_async.c:267`: the notice is posted only under ELOG_ASYNC_OUTPUT_USING_PTHREAD, while
  `elog_async.c:258` says the user implements it when that is not defined.
- `elog_async.c:275`: a direct log overtakes those in the buffer and is written while the output
  thread, which does not hold the lock then, writes.
- `elog_async.c:191`: a newline split by the end of the array is not seen, and two lines are
  returned as one.
- `elog.c:435`: `elog_get_filter_tag_lvl` takes the port's lock always and gives it back only when the
  lock is enabled: after `elog_output_lock_enabled(false)`, recommended for exceptions
  (`elog.c:690`), the next log blocks. `elog_buf.c:85` tests the size before it takes the lock.

MultiButton:

- `multi_button.c:218`, 209: when a callback stops a button while the main program is inside
  `button_start` or `button_stop`, a stopped button may stay in the list or come back, since the
  main program writes a pointer it has read before. The list is then still without a circle and holds
  every started button, which `ListRight` says; that it holds no other it says for `~crossed` only.
  A callback that stops its own button and the next has the latter handled once more.
  `button_init` of a button in the list cuts the list.
- `multi_button.c:29`: `button_init_ext` does not read the pin; a button that is active low is
  reported as pressed at the first tick.
- `multi_button.c:138`: `repeat` has 4 bits; 17 presses in a row are a single click. Three to 15
  presses, or a long second one, end without a click event. A second press held for 65536 ticks
  counts as short.
- `multi_button.c:67`: `period` is 0 after `button_init`, so a press is long at its first tick;
  LONG_TICKS is not used.
- `multi_button.h:14` allows a DEBOUNCE_TICKS of 8 ("MAX 8"), which the 3 bits of `debounce_cnt`
  never reach (`Debounce = 8` violates `Debounced`). `debounce_cnt` is kept across a stop, so that
  readings before it and after the next start count together.

## 5. What is proved

All theorems hold for every value of the constants that satisfies the named assumptions.

**`LwrbProofs`** (`SizeAssumption`; `DataAssumption` and `ReqAssumption` for `Lwrb`, `IsrAssumption` and
`StampAssumption` for `LwrbPreempt`).

- `Typed`, `Owned`: `TypeOK` and `BlocksOwned`. They are proved together: that a DMA's block is
  still free when `lwrb_advance` comes needs the indices in range, and that the index stays in
  range needs the block still free. The lemmas on `lwrb_get_full`, `lwrb_get_free` and the
  linear lengths say that used and free bytes add up to `size - 1` and that a free and a used
  block share no cell.
- `Implements`: `Spec => IsFifo`, the refinement of `Fifo`. `PutCells` and `GetCells` say
  what the two-part copies do going round; `Appended` and `Dropped` turn them into operations on
  the queue; then one lemma per call.
- `ReadInOrder`, `CapacitySeen`: `InOrder` and `CapacityKept` under `IsrOnce`, at most one
  interrupt during a call of `lwrb_write`, `lwrb_skip` and `lwrb_advance` and any number during
  `lwrb_read`. The hypothesis is needed: section 4 tells what a second interrupt does between an
  index and its wrap. The invariant says at each place of the interrupted call how far its index
  has come, how many stamps lie between the indices, and that the part a call has reserved
  stays reserved whatever the handler does at the other end.

**`FotaProofs`** (assumptions: `NAssumption`, `ImageAssumption`, `SwitchAssumption`).

- `Typed`.
- `StartsOnlyIntact`, `RejectedStaysOut`: `RunsIntact` and `NoRejectedCode` under every switch.
  Neither is inductive. `SafeInv` adds `Vetted` (from the verification on the download
  partition holds the package unchanged and unmarked, because nothing writes it) and `Checked`
  (from the check on nothing writes the application).
- `NeverStranded`: `Recoverable` under `Plain` (no unstartable packages, no manual rollback, no
  ymodem, no read errors; with or without FOTA_ROLLBACK). `RecoverInv` adds `WayBack`: what is
  left at each step that destroys something. The argument: a step writes one partition only
  (`OnlyTarget`), and a partition it does not write holds a way back (`Spared`). `Plain` is
  needed: `fota_unstartable` is the counterexample without it.
- `MarkIsTrue`: `MarkedInstalled` under `Plain`, with `MarkInv`.

**`ElogProofs`** (the assumptions of `ElogAsync`).

- `Typed`, `FlagsHold`, `WakeupKept`: `TypeOK`, `FlagsAgree` and `NoLostWakeup`. The invariant says
  who holds the lock at each place of each thread, so that a put and a read exclude each
  other, and that a thread between its put and its post accounts for a buffer that is not empty.
- `Streams`: `Spec => IsStream`. The two-part copies of put and read are an append to and a take
  from the characters from `read_index` on.

**`ModbusProofs`** (the assumptions of `ModbusRtu`).

- `Typed`, `TimerKept`, `NoAssert`: `TypeOK`, `TimerRuns` and `AssertsHold` from `BInv`, which relates
  the states of receiver and transmitter, their interrupt enables and the timer.
- `ExecutedWhole`, `ExecutedOnce`, `OneSends`: `WholeRequest`, `OncePerRequest` and `HalfDuplex`
  from `IInv`, by which one request at a time is under way: being sent, received, awaiting
  `eMBPoll`, executed or answered, and in each of these phases `ucRTUBuf` holds what it should.
  The attempt to prove this found that a second fault can put noise behind a whole frame, which one
  fault does not reach; it is now named (`late`).

**`MultiButtonProofs`** (`ButtonAssumption` and the others of `MultiButton`).

- `ListKept`, `TickHandlesAll`, `Typed`: `ListRight`, `EveryTick` and `TypeOK` without hypothesis. The
  list is the least set closed under `next`; the lemmas say what inserting, unlinking and following
  a link do to such a set. `ListInv` holds also when a callback stops a button inside `button_start` or
  `button_stop`: the links of all buttons, in the list or out of it, run in no circle (`Acyclic`); the
  main program's pointer may be at a button that is out of the list; the walk of the interrupt still
  reaches what it has not handled (`MainInv`, `WalkInv`). What the main program writes through a pointer it
  read before is a shortcut of the links or the way round one button (`Shortcut`, `Bypass`).
  `AloneInv` adds, while not `crossed`, that the list holds no other buttons than the started ones.
- `GesturesInOrder`: `EventOrder` for `MaxClicks < RepeatWrap`, that is, as long as nobody presses more
  often in a row than `repeat` can count: section 4 tells what happens at 17 presses. By `HandleInv`
  the state of a button determines how far into which gestures its callbacks are.
- `BouncesIgnored`: `Debounced` for `Debounce < CntWrap`; with the limit at the width of the counter it
  fails (section 4).

**`YmodemProofs`** (`SizeAssumption`, `FaultAssumption`).

- `Typed`; `FlashErrorSeen`: `FlashErrorAborts`, from `CleanInv` (no packet on the line is damaged as
  long as nothing damages), since only a damaged packet can hide a flash error.
- `AcksInOrder`: `AckedInOrder`. By `StepInv` one thing at a time is under way: nothing, the frame the
  host is at, or its answer; and the receiver either waits for that frame (`InSync`) or has taken it
  (`Behind`), which the packet number tells apart because `Mod > 1`. `Timeout` in silence, NAK and
  the host's repetition keep this; `late` and `cut` break it, hence the condition.
- `CountKept`, `FilesDelivered`: that the count is exact while packets are only lost, and, for a host
  that announces lengths, `Delivered`. The rest of `CountRight` is only model-checked.
  When no answer is lost a receiver that has taken a frame has an acknowledgement on its way, so
  (`LossInv`) every data packet is given to the callback exactly once; by `UnitsStep` the packets,
  the last cut to the length, add up to the file.

**`FlashKvProofs`** (the assumptions of `FlashKv`; any number and size of sectors, any keys, values and
sizes, any threshold). All under `Plain`: no power is lost (`MaxCrashes = 0`), and `DefaultsFit`: the
default keys differ and their entries fit into one sector without filling it. Section 4 shows what goes
wrong without either.

- `KvTypeCorrect`, `KvOneLive`, `KvDurable`, `KvReadBack`, `KvSpareSector`, `KvRefusedOnlyWhenFull`:
  `TypeOK`, `OneLive`, `Durable`, `ReadBack`, `SpareSector` and `RefusedOnlyWhenFull`, all from the
  inductive `Inv` (`PlainInvariant`), since none of them is inductive and each needs the others. Its
  parts: `ControlInv` and `PutInv` (what each place of `set_kv`, `move_kv` and `gc_collect` knows of the
  entry in hand and the one it replaces), `StatusInv`, `LiveInv` and `DirtyInv` (other entries are
  valid or deleted, one of a key is valid, the sector of a deleted one is marked), `CacheInv` (an
  entry at the cached address of its key is valid), `RoomInv`, `SpareInv` and `GcInv` (below), `WantInv`
  (what is held is what may be read) and the defaults' places while they are created.
- The argument that GC loses nothing is about room. Entries of a sector lie one behind the other
  (`LayoutOK`), and `do_gc` moves them in the order of their addresses into the empty sector that
  `alloc_kv` has kept. As long as there is no other empty sector, the copies in that one reach no
  further than the originals did (`Takes`), so there is room for the next. Every move succeeds before
  the erase, and the erased sector is the next spare one.
- `LeastNatural` derives from `WellFoundedInduction` that a nonempty set of naturals has a least
  element; from it follow what `Min`, `First` and `alloc_kv` choose.

**`FlashTsProofs`** (`TsAssumption`; any number and size of sectors, any lengths, any number of
power losses).

- `TypesHold`: `TypeOK`.
- `LogsDisjoint`: `Disjoint`. `LogInv` says that the logs of a sector lie one below the other above
  what the database takes for free (`Placed`), both in flash and in what `read_sector_info` counts. An
  index whose append was interrupted is read as the longest log there is, never as less than it took.
- `NeverHangsHolds`: `NeverHangs`. By `EndInv` a sector has at most one half-written end node outside
  a seal, unless power was lost in a second one.
- `InsideHolds`: `Inside`, for `Rollover`. By `RoomInv` there is always a sector in use or empty, or
  one without magic that makes `fdb_tsdb_init` format everything. The hypothesis is needed: without
  rollover a restart of a full database finds neither (section 4).
- `RestartIsNeutral`: `RestartNeutral`. `NeutralInv` says for each place a call can be at how the
  sectors are arranged around the current one: in the first round those before it are full and those
  after it empty, in later ones all others are full; and which of them `oldest_addr` is. From this
  follows what the scan of `fdb_tsdb_init` finds. `SetInv` ties the control flag to `Rollover`.
- `FoundHolds`: `Found`, for `Rollover` (without it a restart of a full database fails, section 4). Its
  exception `~Bare`, a sector in use without a log, is what the loop of `fdb_tsdb.c:443` needs; that a
  sector is not full before it holds a log (`FullInv`) excludes it for all others.
  `KeptInv` says that `kept` is the finished logs of the sectors, one sector after the other from
  the oldest on, with the case that `fmt_sec` or an erase is under way; `MetInv` which power losses
  a restart may have brought. An append extends the last sector's logs, an erase drops the first
  sector's, and the sequence lemmas (`FlatExtend`, `FlatNothing`, `LogsFlat`) carry this through the
  concatenation, each by the least index at which it would fail. `EndInv` and `NeutralInv` give
  that the last end node, or `cur_sec`, counts all logs of a sector, so that `fdb_tsl_iter` passes
  over none.

- `QueryRightHolds`: `QueryRight`, for `Rollover`. `TimeInv` says that the start of a sector is the time
  of its first log and its end node, or `cur_sec`, has the time of the last; `SortInv` that the times
  of what is kept do not go back, and the append under way is not earlier than any of them. A power loss at
  the start of a sector or in an index breaks this (section 4), one in an end node does not. The
  search is a recursive function: `HalvesExist` gives it as an explicit function of the range, since a
  `CHOOSE` needs a witness, and `HalvesEnd` says where it ends, by induction on the width of the range.
  A sector cut off where the search ends is the sector sifted by time (`CutIs`). Outside a gap the first
  sector that ends at the time or later is one that `Holds` finds (`HeldSomewhere`); the ones
  before it have nothing of the range (`NoneLate`). So the scan is all logs sifted by time, and it
  stops where the range does (`RangeIs`).

The inductive invariants (`IInv`, `BInv`, `ListInv`, `AloneInv`, `HandleInv`, `BounceInv`, `CleanInv`, `StepInv`, `LossInv`, and
the `Inv` of `FlashTsProofs` and `FlashKvProofs`) were checked with TLC on the instances of section 3 before they were proved.

## 6. Only model-checked

Liveness (`EventuallyRuns`, `PendingInstalled`, `YmodemRecovers`, `Finishes`, `Succeeds`,
`Boots`, `Answered`, `Drains`, `Settles`), which TLAPS does not do. `CountRight` of `Ymodem` under other
faults than lost packets. `Durable` of `FlashKv` after one power
loss: it holds for entries of one size and one loss only (section 4), and a proof of that would rest on
the bound.

## 7. Plan

1. `elog_buf.c` and `elog_output_lock_enabled` in `ElogAsync`; `ymodem` with bytes and the interrupt
   between `recv_len` accesses; the sector cache and flash write errors in `FlashKv`.
2. Composition of `Ymodem` with the download of `Fota`; `sfu`; page splits and busy waits of SFUD.

## 8. Not modelled

`sfu` repeats `ymodem` and `fota` in an older form. Of SFUD the driver itself is small and the rest
of the directory, most of the repository's lines, is vendor code and demos. Of FreeModbus, ASCII
and TCP are not started by the port, and the function handlers, like `letter-shell`,
`segger-rtt` and `cm_backtrace`, are parsing and formatting. `check`, `tinycrypt`, `fastlz`, `quicklz`
and `cjson` compute on whole messages, beyond TLC and, being vendored, not this repository's
logic. `system_status` is a table of bits; `tools` and FlashDB's file mode are scripts and file
I/O. easylogger's plugins write what `ElogAsync` hands out.
