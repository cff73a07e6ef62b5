-------------------------------- MODULE Fota --------------------------------
(***************************************************************************)
(* The boot loader of fota/fota.c: verify the package in the download      *)
(* partition, save the application to the rollback partition, install the  *)
(* package, mark it installed, check and start the application.            *)
(*                                                                         *)
(* Flash is the only state that survives.  A partition is N + 1 cells (one *)
(* cell for each 4 KB transfer of the code); cell 0 carries the header.    *)
(* The value of cell i is the image whose i-th part it holds.  One step of *)
(* the model programs or erases one cell, so a power loss or a flash error *)
(* may come between any two of them, or leave the cell in hand Torn.       *)
(***************************************************************************)
EXTENDS Integers

CONSTANTS Image,          \* packages
          Bad,            \* packages fota_upgrade_verify rejects (hash, algorithm)
          NoStart,        \* packages whose vectors fota_start_application rejects
          N,              \* index of the last cell of a partition
          Rollback,       \* FOTA_ROLLBACK is defined
          ManualRollback, \* fota_rollback_check may return 0
          Ymodem,         \* FOTA_YMODEM is defined
          InstallRestart, \* FOTA_INSTALL_RESTART is defined
          ReadErrors,     \* a read or malloc of a verification may fail
          NoImage, Erased, Torn

ASSUME NAssumption == N \in Nat
ASSUME ImageAssumption ==
    /\ Bad \subseteq Image /\ NoStart \subseteq Image
    /\ NoImage \notin Image /\ Erased \notin Image /\ Torn \notin Image
ASSUME SwitchAssumption ==
    {Rollback, ManualRollback, Ymodem, InstallRestart, ReadErrors} \subseteq BOOLEAN

VARIABLES flash,          \* contents of the three partitions
          done,           \* header of fm: current_version = download_version
          pc,             \* where fota_init is
          idx,            \* cell a transfer loop is at
          head,           \* rbl_fota_part_head, NoImage when zeroed
          restored,       \* fota_init is past __rollback_entry
          first_enter,    \* is_first_enter
          incoming        \* package being downloaded

vars == <<flash, done, pc, idx, head, restored, first_enter, incoming>>

Part == {"fm", "app", "rb"}
Cells == 0 .. N
Content == Image \cup {Erased, Torn}

Running == pc \in {"run", "dl_erase", "dl_write"}

\* The partition the current step is writing, "none" when it only reads.
Target ==
    CASE pc \in {"save_erase", "save_copy"} -> "rb"
      [] pc \in {"up_erase", "up_write", "restore_erase", "restore_copy"} -> "app"
      [] pc \in {"mark_erase", "mark_write"} -> "fm"
      [] pc \in {"y_erase", "y_write", "dl_erase", "dl_write"} -> "fm"
      [] OTHER -> "none"

Intact(p) == flash[p][0] \in Image /\ \A i \in Cells : flash[p][i] = flash[p][0]

-----------------------------------------------------------------------------
Put(p, i, c) == flash' = [flash EXCEPT ![p][i] = c]

Goto(next) == pc' = next /\ idx' = 0

\* One round of a transfer loop.
Advance(next) == IF idx < N THEN idx' = idx + 1 /\ UNCHANGED pc ELSE Goto(next)

\* RAM and the program counter after a reset.
Reset ==
    /\ Goto("enter")
    /\ head' = NoImage /\ restored' = FALSE /\ first_enter' = TRUE
    /\ incoming' = NoImage

\* The factory state: an application, no rollback image, no package.
Init ==
    /\ \E v \in Image \ (Bad \cup NoStart) :
          flash = [p \in Part |-> [i \in Cells |-> IF p = "app" THEN v ELSE Erased]]
    /\ done = FALSE
    /\ pc = "enter" /\ idx = 0
    /\ head = NoImage /\ restored = FALSE /\ first_enter = TRUE
    /\ incoming = NoImage

\* fota_boot_verify, then the choice between rollback, ymodem and upgrade.
EnterRollback ==
    /\ pc = "enter" /\ Rollback /\ ManualRollback
    /\ Goto("restore_erase") /\ head' = NoImage
    /\ restored' = TRUE
    /\ UNCHANGED <<flash, done, first_enter, incoming>>

EnterYmodem ==
    /\ pc = "enter" /\ Ymodem
    /\ Goto("y_wait") /\ head' = NoImage
    /\ UNCHANGED <<flash, done, restored, first_enter, incoming>>

EnterUpgrade ==
    /\ pc = "enter" /\ (Ymodem => first_enter)
    /\ Goto("verify") /\ head' = NoImage
    /\ UNCHANGED <<flash, done, restored, first_enter, incoming>>

\* ymodem_receive: a sender announces a file, which the port's callback makes
\* room for; the data packets are programmed as they come.
YmodemFile(v) ==
    /\ pc = "y_wait"
    /\ incoming' = v /\ Goto("y_erase")
    /\ UNCHANGED <<flash, done, head, restored, first_enter>>

\* Erasing and programming the download partition, for ymodem or the application.
Receive(erase, write, next) ==
    /\ \/ pc = erase /\ Put("fm", idx, Erased) /\ Advance(write) /\ UNCHANGED done
       \/ /\ pc = write /\ Put("fm", idx, incoming) /\ Advance(next)
          /\ done' = IF idx = 0 THEN FALSE ELSE done
    /\ UNCHANGED <<head, restored, first_enter, incoming>>

YmodemReceive == Receive("y_erase", "y_write", "y_wait")

YmodemEnd ==
    /\ pc = "y_wait"
    /\ Goto("verify") /\ incoming' = NoImage
    /\ UNCHANGED <<flash, done, head, restored, first_enter>>

\* fota_ymodem_ota: bit 15 of the result resets the device.
YmodemError ==
    /\ pc \in {"y_wait", "y_erase", "y_write"}
    /\ Reset
    /\ UNCHANGED <<flash, done>>

\* fota_part_fw_verify and fota_check_upgrade.
fota_part_fw_verify ==
    /\ pc = "verify"
    /\ IF Intact("fm")
          THEN head' = flash["fm"][0] /\ Goto(IF done THEN "check" ELSE "up_verify")
          ELSE head' = NoImage /\ Goto("check")
    /\ UNCHANGED <<flash, done, restored, first_enter, incoming>>

\* Mutant: the result is ignored, every package is installed.
Mutant_upgrade_verify ==
    /\ pc = "up_verify"
    /\ Goto(IF Rollback THEN "save_erase" ELSE "up_erase")
    /\ UNCHANGED <<flash, done, head, restored, first_enter, incoming>>

\* A package that cannot be unpacked to its hash is marked, not installed.
fota_upgrade_verify ==
    /\ pc = "up_verify"
    /\ Goto(IF head \in Bad \/ ~Intact("fm") THEN "mark_erase"
            ELSE IF Rollback THEN "save_erase" ELSE "up_erase")
    /\ UNCHANGED <<flash, done, head, restored, first_enter, incoming>>

\* Erase the destination, then copy cell by cell whatever the source holds.
fota_rollback_copy(erase, copy, dest, source, next) ==
    /\ \/ pc = erase /\ Put(dest, idx, Erased) /\ Advance(copy)
       \/ pc = copy /\ Put(dest, idx, flash[source][idx]) /\ Advance(next)
    /\ UNCHANGED <<done, head, restored, first_enter, incoming>>

SaveApp == fota_rollback_copy("save_erase", "save_copy", "rb", "app", "up_erase")

RestoreApp == fota_rollback_copy("restore_erase", "restore_copy", "app", "rb", "check")

\* Mutant: the package is marked installed before it is.
Mutant_upgrade ==
    /\ \/ pc = "up_erase" /\ Put("app", idx, Erased) /\ Advance("up_write") /\ done' = TRUE
       \/ pc = "up_write" /\ Put("app", idx, flash["fm"][idx]) /\ Advance("mark_erase") /\ UNCHANGED done
    /\ UNCHANGED <<head, restored, first_enter, incoming>>

\* Mutant: the last part of the body is dropped and nobody notices.
Mutant_upgrade_short ==
    /\ \/ pc = "up_erase" /\ Put("app", idx, Erased) /\ Advance("up_write")
       \/ /\ pc = "up_write" /\ Put("app", idx, flash["fm"][idx])
          /\ IF idx < N - 1 THEN idx' = idx + 1 /\ UNCHANGED pc ELSE Goto("mark_erase")
    /\ UNCHANGED <<done, head, restored, first_enter, incoming>>

\* Erase the application partition, write the header, then the unpacked body.
fota_upgrade ==
    /\ \/ pc = "up_erase" /\ Put("app", idx, Erased) /\ Advance("up_write")
       \/ pc = "up_write" /\ Put("app", idx, flash["fm"][idx]) /\ Advance("mark_erase")
    /\ UNCHANGED <<done, head, restored, first_enter, incoming>>

\* Mutant: the header is written back as it was.
Mutant_copy_version ==
    \/ /\ pc = "mark_erase"
       /\ Put("fm", 0, Erased) /\ Goto("mark_write")
       /\ UNCHANGED <<done, head, restored, first_enter, incoming>>
    \/ /\ pc = "mark_write"
       /\ Put("fm", 0, head) /\ UNCHANGED done
       /\ IF InstallRestart
             THEN Reset
             ELSE Goto("check") /\ UNCHANGED <<head, restored, first_enter, incoming>>

\* current_version := download_version in the header's 4 KB, erased and rewritten.
fota_copy_version ==
    \/ /\ pc = "mark_erase"
       /\ Put("fm", 0, Erased) /\ Goto("mark_write")
       /\ UNCHANGED <<done, head, restored, first_enter, incoming>>
    \/ /\ pc = "mark_write"
       /\ Put("fm", 0, head) /\ done' = TRUE
       /\ IF InstallRestart
             THEN Reset
             ELSE Goto("check") /\ UNCHANGED <<head, restored, first_enter, incoming>>

\* What fota_init does when the application is no good.
Corrupted == IF Rollback /\ ~restored THEN "restore_erase" ELSE "return"

\* Mutant: the application is started without checking it.
Mutant_check_application ==
    /\ pc = "check" /\ Goto("start") /\ UNCHANGED restored
    /\ UNCHANGED <<flash, done, head, first_enter, incoming>>

\* fota_check_application: the hash of the body against the one in the header.
fota_check_application ==
    /\ pc = "check"
    /\ \/ Intact("app") /\ Goto("start") /\ UNCHANGED restored
       \/ ~Intact("app") /\ Goto(Corrupted) /\ restored' = TRUE
    /\ UNCHANGED <<flash, done, head, first_enter, incoming>>

\* fota_start_application returns only when the vectors are illegal.
fota_start_application ==
    /\ pc = "start"
    /\ IF flash["app"][0] \in NoStart
          THEN Goto(Corrupted) /\ restored' = TRUE
          ELSE Goto("run") /\ UNCHANGED restored
    /\ UNCHANGED <<flash, done, head, first_enter, incoming>>

\* fota_init returns and its caller calls it again, RAM as it was.
Return ==
    /\ pc = "return"
    /\ Goto("enter") /\ restored' = FALSE /\ first_enter' = FALSE
    /\ UNCHANGED <<flash, done, head, incoming>>

\* The application: restarts the device, or downloads a package into fm.
AppRestart == pc = "run" /\ Reset /\ UNCHANGED <<flash, done>>

AppDownload(v) ==
    /\ pc = "run"
    /\ incoming' = v /\ Goto("dl_erase")
    /\ UNCHANGED <<flash, done, head, restored, first_enter>>

AppReceive == Receive("dl_erase", "dl_write", "run")

-----------------------------------------------------------------------------
\* The cell in hand may be left half erased or half programmed.
Tear(torn) ==
    IF torn /\ Target # "none"
      THEN Put(Target, IF pc \in {"mark_erase", "mark_write"} THEN 0 ELSE idx, Torn)
      ELSE UNCHANGED flash

PowerLoss(torn) == Tear(torn) /\ Reset /\ UNCHANGED done

\* Mutant: the result of fota_upgrade is ignored as well.
MutantAfterError ==
    CASE pc \in {"save_erase", "save_copy"} -> "up_erase"
      [] pc \in {"up_erase", "up_write"} -> "mark_erase"
      [] pc \in {"dl_erase", "dl_write"} -> "run"
      [] OTHER -> "check"

\* A fal_partition_erase or _write returns < 0: where the code goes on.
AfterError ==
    CASE pc \in {"save_erase", "save_copy"} -> "up_erase"       \* result ignored
      [] pc \in {"dl_erase", "dl_write"} -> "run"
      [] OTHER -> "check"

FlashError(torn) ==
    /\ Target # "none"
    /\ Tear(torn)
    /\ IF pc \in {"y_erase", "y_write"}
          THEN Reset
          ELSE Goto(AfterError) /\ UNCHANGED <<head, restored, first_enter, incoming>>
    /\ UNCHANGED done

\* fota_check_application cannot read the partition or allocate its buffers;
\* fota_init takes any result but FOTA_NO_ERR for a corrupted application.
CheckError ==
    /\ pc = "check" /\ ReadErrors
    /\ Goto(Corrupted) /\ restored' = TRUE
    /\ UNCHANGED <<flash, done, head, first_enter, incoming>>

\* The same in the two verifications: a package that cannot be read is skipped
\* by the first and marked, as if it were bad, after the second.
VerifyError ==
    /\ ReadErrors
    /\ \/ pc = "verify" /\ Goto("check")
       \/ pc = "up_verify" /\ Goto("mark_erase")
    /\ UNCHANGED <<flash, done, head, restored, first_enter, incoming>>

Fault == CheckError \/ VerifyError \/ \E torn \in BOOLEAN : PowerLoss(torn) \/ FlashError(torn)

\* Every step fota_init takes by itself.
Boot ==
    \/ EnterRollback \/ EnterUpgrade
    \/ fota_part_fw_verify \/ fota_upgrade_verify
    \/ SaveApp \/ fota_upgrade \/ fota_copy_version
    \/ fota_check_application \/ fota_start_application
    \/ RestoreApp \/ Return

\* What the ymodem sender and the application do.
Download ==
    \/ EnterYmodem \/ YmodemReceive \/ YmodemEnd \/ YmodemError
    \/ \E v \in Image : YmodemFile(v) \/ AppDownload(v)
    \/ AppReceive

Next == Boot \/ Download \/ AppRestart \/ Fault

Spec == Init /\ [][Next]_vars

\* The boot loader runs until it starts the application.
FairSpec == Spec /\ WF_vars(Boot)

-----------------------------------------------------------------------------
\* Where fota_init can be, and what every partition can hold.
TypeOK ==
    /\ flash \in [Part -> [Cells -> Content]]
    /\ done \in BOOLEAN
    /\ pc \in {"enter", "y_wait", "y_erase", "y_write", "verify", "up_verify",
               "save_erase", "save_copy", "up_erase", "up_write", "mark_erase",
               "mark_write", "check", "start", "restore_erase", "restore_copy",
               "return", "run", "dl_erase", "dl_write"}
    /\ idx \in Cells
    /\ head \in Image \cup {NoImage}
    /\ restored \in BOOLEAN /\ first_enter \in BOOLEAN
    /\ incoming \in Image \cup {NoImage}
    /\ (pc \in {"y_erase", "y_write", "dl_erase", "dl_write"}) => incoming \in Image
    /\ (pc \in {"up_verify", "save_erase", "save_copy", "up_erase", "up_write",
                "mark_erase", "mark_write"}) => head \in Image

Bootable(p) == Intact(p) /\ flash[p][0] \notin Bad \cup NoStart

\* The download partition holds a good package the next boot will install.
Pending == Bootable("fm") /\ ~done

\* Whatever fails and whenever power is lost, flash holds a way back to a
\* running application: the application itself, its copy in the rollback
\* partition, or a package that is still to be installed (fota_init).
Recoverable == Bootable("app") \/ Bootable("rb") \/ Pending

\* Control is never given to an image that is torn, mixed or rejected.
RunsIntact == Running => Bootable("app")

\* No part of a package that failed fota_upgrade_verify gets into the
\* application partition, nor from there into the rollback partition.
NoRejectedCode ==
    \A p \in {"app", "rb"}, i \in Cells : flash[p][i] \notin Bad

\* A package that passed the verification is marked only when it is what the
\* application partition holds (fota_upgrade before fota_copy_version).
MarkedInstalled ==
    (Intact("fm") /\ done /\ flash["fm"][0] \notin Bad) =>
        Intact("app") /\ flash["app"][0] = flash["fm"][0]

\* From the verification on, until the package is installed, the download
\* partition holds it unchanged and unmarked.
Vetted ==
    /\ pc = "up_verify" => Intact("fm") /\ head = flash["fm"][0] /\ ~done
    /\ pc \in {"save_erase", "save_copy", "up_erase", "up_write"} =>
          Intact("fm") /\ flash["fm"][0] \notin Bad /\ ~done

\* The application was checked before it is started, and is not written since.
Checked ==
    /\ pc = "start" \/ Running => Intact("app")
    /\ Running => flash["app"][0] \notin NoStart

\* What is left to go back to at each step of fota_init that destroys something.
WayBack ==
    /\ pc = "up_write" => \A i \in Cells : i < idx => flash["app"][i] = flash["fm"][i]
    /\ pc \in {"mark_erase", "mark_write"} => Bootable("app") \/ Bootable("rb")
    /\ pc \in {"restore_erase", "restore_copy"} => Bootable("rb") \/ Pending

\* Where the mark of the download partition stands at each step that writes it
\* or the application partition.
MarkOwed ==
    /\ pc \in {"save_erase", "save_copy", "up_erase", "up_write"} => head = flash["fm"][0]
    /\ pc \in {"mark_erase", "mark_write"} /\ head \notin Bad =>
          Intact("app") /\ flash["app"][0] = head
    /\ pc \in {"restore_erase", "restore_copy"} =>
          ~(Intact("fm") /\ done /\ flash["fm"][0] \notin Bad)
    /\ pc = "dl_write" /\ idx > 0 => ~done

\* The inductive invariants behind RunsIntact and NoRejectedCode, behind
\* Recoverable, and behind MarkedInstalled.
SafeInv == NoRejectedCode /\ Vetted /\ Checked
RecoverInv == Recoverable /\ WayBack
MarkInv == MarkedInstalled /\ MarkOwed

\* A fault while fota_init is at work, not while the application or a ymodem
\* sender has the device (a restart from there is part of normal life).  A step
\* that fota_init could have taken by itself is no fault.
BootFault == Fault /\ ~Boot /\ ~Running /\ pc \notin {"y_wait", "y_erase", "y_write"}

\* Once fota_init is no longer disturbed the device ends up in its application,
\* again after every restart: no sequence of faults can strand the boot loader.
EventuallyRuns == (<>[][~BootFault]_vars) => []<>Running

\* A device that cannot start anything is saved over the serial line: if good
\* packages keep arriving by ymodem, and nobody asks for a rollback any more, it
\* runs again, whatever flash held before.
YmodemRecovers ==
    (<>[][~(BootFault \/ EnterRollback)]_vars /\ []<>(pc = "verify" /\ Pending)) => []<>Running

\* A package is not installed for ever: when faults and downloads have stopped
\* and the device is restarted now and then, every pending package gets marked
\* (fota_check_upgrade, fota_copy_version).
PendingInstalled ==
    (<>[][~(BootFault \/ Download)]_vars /\ []<>(pc = "enter")) => <>[]~Pending
=============================================================================
