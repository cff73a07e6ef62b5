----------------------------- MODULE FotaProofs -----------------------------
(***************************************************************************)
(* Theorems about the boot loader for every number of cells, every set of  *)
(* images and every setting of the compile-time switches of fota_port.h.   *)
(***************************************************************************)
EXTENDS Fota, TLAPS

\* Writing one cell changes that cell and no other, and keeps flash a table
\* of cells.
LEMMA PutCell ==
    ASSUME TypeOK, NEW p \in Part, NEW i \in Cells, NEW c \in Content, Put(p, i, c)
    PROVE  /\ flash' \in [Part -> [Cells -> Content]]
           /\ \A q \in Part, j \in Cells :
                 flash'[q][j] = IF q = p /\ j = i THEN c ELSE flash[q][j]
  BY DEF TypeOK, Put

\* The partition being written is one of the three, and the cell is one of its
\* cells.
LEMMA TearCell ==
    ASSUME TypeOK, NEW torn \in BOOLEAN, Tear(torn)
    PROVE  /\ flash' \in [Part -> [Cells -> Content]]
           /\ \A q \in Part, j \in Cells :
                 flash'[q][j] = flash[q][j] \/ (q = Target /\ flash'[q][j] = Torn)
  <1> DEFINE k == IF pc \in {"mark_erase", "mark_write"} THEN 0 ELSE idx
  <1>1. CASE torn /\ Target # "none"
    <2>1. Target \in Part /\ k \in Cells /\ Torn \in Content
      BY <1>1, NAssumption DEF TypeOK, Target, Part, Cells, Content
    <2>2. Put(Target, k, Torn)
      BY <1>1 DEF Tear
    <2> HIDE DEF k
    <2> QED BY <2>1, <2>2, PutCell
  <1>2. CASE ~(torn /\ Target # "none")
    BY <1>2 DEF Tear, TypeOK
  <1> QED BY <1>1, <1>2

\* The loop index stays inside the partition and the next position is a known one.
LEMMA LoopStep ==
    ASSUME TypeOK, NEW next, Advance(next)
    PROVE  idx' \in Cells /\ pc' \in {pc, next}
  BY NAssumption DEF TypeOK, Advance, Goto, Cells

\* A partition has a header cell.
LEMMA ZeroCell == 0 \in Cells
  BY NAssumption DEF Cells

-----------------------------------------------------------------------------
\* Type correctness of the initial states.
LEMMA InitTypeOK == Init => TypeOK
  <1> SUFFICES ASSUME Init PROVE TypeOK
    OBVIOUS
  <1>1. flash \in [Part -> [Cells -> Content]]
    BY DEF Init, Content
  <1>2. done \in BOOLEAN /\ restored \in BOOLEAN /\ first_enter \in BOOLEAN
    BY DEF Init
  <1> QED BY <1>1, <1>2, ZeroCell DEF Init, TypeOK

\* Type correctness is kept by every step.
LEMMA NextTypeOK == TypeOK /\ [Next]_vars => TypeOK'
  <1> SUFFICES ASSUME TypeOK, [Next]_vars PROVE TypeOK'
    OBVIOUS
  <1> USE ZeroCell
  <1>a. /\ "fm" \in Part /\ "app" \in Part /\ "rb" \in Part
        /\ Erased \in Content /\ idx \in Cells
        /\ \A q \in Part : flash[q][idx] \in Content
        /\ Image \subseteq Content
    BY DEF TypeOK, Content, Part
  <1>1. CASE EnterRollback \/ EnterYmodem \/ EnterUpgrade
    BY <1>1 DEF EnterRollback, EnterYmodem, EnterUpgrade, Goto, TypeOK
  <1>2. CASE fota_part_fw_verify
    BY <1>2 DEF fota_part_fw_verify, Intact, Goto, TypeOK
  <1>3. CASE fota_upgrade_verify
    BY <1>3 DEF fota_upgrade_verify, Goto, TypeOK
  <1>4. CASE SaveApp \/ RestoreApp
    <2>1. flash' \in [Part -> [Cells -> Content]]
      BY <1>4, <1>a, PutCell DEF SaveApp, RestoreApp, fota_rollback_copy
    <2>2. /\ idx' \in Cells
          /\ pc' \in {pc, "save_copy", "up_erase", "restore_copy", "check"}
          /\ pc' = "up_erase" => pc = "save_copy"
          /\ pc' = "save_copy" => pc \in {"save_erase", "save_copy"}
      BY <1>4, LoopStep DEF SaveApp, RestoreApp, fota_rollback_copy
    <2>3. /\ UNCHANGED <<done, head, restored, first_enter, incoming>>
          /\ pc \in {"save_erase", "save_copy", "restore_erase", "restore_copy"}
      BY <1>4 DEF SaveApp, RestoreApp, fota_rollback_copy
    <2> QED BY <2>1, <2>2, <2>3 DEF TypeOK
  <1>5. CASE fota_upgrade
    <2>1. flash' \in [Part -> [Cells -> Content]]
      BY <1>5, <1>a, PutCell DEF fota_upgrade
    <2>2. idx' \in Cells /\ pc' \in {pc, "up_write", "mark_erase"}
      BY <1>5, LoopStep DEF fota_upgrade
    <2>3. /\ UNCHANGED <<done, head, restored, first_enter, incoming>>
          /\ pc \in {"up_erase", "up_write"}
      BY <1>5 DEF fota_upgrade
    <2> QED BY <2>1, <2>2, <2>3 DEF TypeOK
  <1>6. CASE fota_copy_version
    <2>1. head \in Content
      BY <1>6, <1>a DEF fota_copy_version, TypeOK
    <2>2. flash' \in [Part -> [Cells -> Content]]
      BY <1>6, <1>a, <2>1, PutCell DEF fota_copy_version
    <2>3. done' \in BOOLEAN /\ restored' \in BOOLEAN /\ first_enter' \in BOOLEAN
      BY <1>6 DEF fota_copy_version, Reset, TypeOK
    <2> QED BY <1>6, <2>2, <2>3 DEF fota_copy_version, Reset, Goto, TypeOK
  <1>7. CASE fota_check_application \/ CheckError \/ VerifyError \/ fota_start_application
    BY <1>7 DEF fota_check_application, CheckError, VerifyError, fota_start_application,
                Corrupted, Goto, TypeOK
  <1>8. CASE Return
    BY <1>8 DEF Return, Goto, TypeOK
  <1>9. CASE YmodemReceive \/ AppReceive
    <2>1. incoming \in Content
      BY <1>9, <1>a DEF YmodemReceive, AppReceive, Receive, TypeOK
    <2>2. flash' \in [Part -> [Cells -> Content]]
      BY <1>9, <1>a, <2>1, PutCell DEF YmodemReceive, AppReceive, Receive
    <2>3. idx' \in Cells /\ pc' \in {pc, "y_write", "y_wait", "dl_write", "run"}
      BY <1>9, LoopStep DEF YmodemReceive, AppReceive, Receive
    <2>4. done' \in BOOLEAN
      BY <1>9 DEF YmodemReceive, AppReceive, Receive, TypeOK
    <2>5. /\ UNCHANGED <<head, restored, first_enter, incoming>>
          /\ pc \in {"y_erase", "y_write", "dl_erase", "dl_write"}
      BY <1>9 DEF YmodemReceive, AppReceive, Receive
    <2> QED BY <2>2, <2>3, <2>4, <2>5 DEF TypeOK
  <1>10. CASE YmodemEnd
    BY <1>10 DEF YmodemEnd, Goto, TypeOK
  <1>11. CASE YmodemError \/ AppRestart
    BY <1>11 DEF YmodemError, AppRestart, Reset, Goto, TypeOK
  <1>12. CASE \E v \in Image : YmodemFile(v) \/ AppDownload(v)
    BY <1>12 DEF YmodemFile, AppDownload, Goto, TypeOK
  <1>13. ASSUME NEW torn \in BOOLEAN, PowerLoss(torn) PROVE TypeOK'
    <2>1. flash' \in [Part -> [Cells -> Content]]
      BY <1>13, TearCell DEF PowerLoss
    <2> QED BY <1>13, <2>1 DEF PowerLoss, Reset, Goto, TypeOK
  <1>14. ASSUME NEW torn \in BOOLEAN, FlashError(torn) PROVE TypeOK'
    <2>1. flash' \in [Part -> [Cells -> Content]]
      BY <1>14, TearCell DEF FlashError
    <2>2. CASE pc \in {"y_erase", "y_write"}
      BY <1>14, <2>1, <2>2 DEF FlashError, Reset, Goto, TypeOK
    <2>3. CASE pc \notin {"y_erase", "y_write"}
      <3>1. AfterError \in {"up_erase", "run", "check"}
        BY DEF AfterError
      <3>2. AfterError = "up_erase" => pc \in {"save_erase", "save_copy"}
        BY DEF AfterError
      <3> QED BY <1>14, <2>1, <2>3, <3>1, <3>2 DEF FlashError, Goto, TypeOK
    <2> QED BY <2>2, <2>3
  <1>15. CASE UNCHANGED vars
    BY <1>15 DEF vars, TypeOK
  <1> QED
    BY <1>1, <1>2, <1>3, <1>4, <1>5, <1>6, <1>7, <1>8, <1>9, <1>10, <1>11, <1>12,
       <1>13, <1>14, <1>15 DEF Next, Boot, Download, Fault

\* fota_init is always at a known place and every partition holds cells of
\* known content, for any number of cells and any set of images.
THEOREM Typed == Spec => []TypeOK
  BY InitTypeOK, NextTypeOK, PTL DEF Spec

-----------------------------------------------------------------------------
\* A partition whose cells are as before is as intact and bootable as before.
LEMMA Untouched ==
    ASSUME NEW q \in Part, \A j \in Cells : flash'[q][j] = flash[q][j]
    PROVE  /\ flash'[q][0] = flash[q][0]
           /\ Intact(q)' <=> Intact(q)
           /\ Bootable(q)' <=> Bootable(q)
  BY ZeroCell DEF Intact, Bootable

\* A step of fota_init, of a download or of a fault writes one partition only.
LEMMA OnlyTarget ==
    ASSUME TypeOK, [Next]_vars
    PROVE  \A q \in Part : q # Target => \A j \in Cells : flash'[q][j] = flash[q][j]
  <1> USE ZeroCell
  <1>a. /\ "fm" \in Part /\ "app" \in Part /\ "rb" \in Part
        /\ Erased \in Content /\ idx \in Cells
        /\ \A q \in Part : flash[q][idx] \in Content
        /\ Image \subseteq Content
    BY DEF TypeOK, Content, Part
  <1>1. CASE UNCHANGED flash
    BY <1>1
  <1>2. CASE SaveApp \/ RestoreApp
    BY <1>2, <1>a, PutCell DEF SaveApp, RestoreApp, fota_rollback_copy, Target
  <1>3. CASE fota_upgrade
    BY <1>3, <1>a, PutCell DEF fota_upgrade, Target
  <1>4. CASE fota_copy_version
    <2>1. head \in Content
      BY <1>4, <1>a DEF fota_copy_version, TypeOK
    <2>2. Put("fm", 0, Erased) \/ Put("fm", 0, head)
      BY <1>4 DEF fota_copy_version
    <2>3. Target = "fm"
      BY <1>4 DEF fota_copy_version, Target
    <2> QED BY <1>a, <2>1, <2>2, <2>3, PutCell
  <1>5. CASE YmodemReceive \/ AppReceive
    <2>1. incoming \in Content
      BY <1>5, <1>a DEF YmodemReceive, AppReceive, Receive, TypeOK
    <2>2. Put("fm", idx, Erased) \/ Put("fm", idx, incoming)
      BY <1>5 DEF YmodemReceive, AppReceive, Receive
    <2>3. Target = "fm"
      BY <1>5 DEF YmodemReceive, AppReceive, Receive, Target
    <2> QED BY <1>a, <2>1, <2>2, <2>3, PutCell
  <1>6. ASSUME NEW torn \in BOOLEAN, PowerLoss(torn) \/ FlashError(torn)
        PROVE  \A q \in Part : q # Target => \A j \in Cells : flash'[q][j] = flash[q][j]
    BY <1>6, TearCell DEF PowerLoss, FlashError
  <1>7. CASE EnterRollback \/ EnterYmodem \/ EnterUpgrade \/ fota_part_fw_verify
             \/ fota_upgrade_verify \/ fota_check_application \/ CheckError
             \/ VerifyError \/ fota_start_application \/ Return
    BY <1>1, <1>7 DEF EnterRollback, EnterYmodem, EnterUpgrade, fota_part_fw_verify,
         fota_upgrade_verify, fota_check_application, CheckError, VerifyError,
         fota_start_application, Return
  <1>8. CASE YmodemEnd \/ YmodemError \/ AppRestart
             \/ \E v \in Image : YmodemFile(v) \/ AppDownload(v)
    BY <1>1, <1>8 DEF YmodemEnd, YmodemError, AppRestart, YmodemFile, AppDownload
  <1>9. CASE UNCHANGED vars
    BY <1>1, <1>9 DEF vars
  <1> QED
    BY <1>2, <1>3, <1>4, <1>5, <1>6, <1>7, <1>8, <1>9 DEF Next, Boot, Download, Fault

-----------------------------------------------------------------------------
\* A cell of the application or the rollback partition is erased, torn, copied
\* from the other of the two, or from a package that was vetted.
LEMMA NextNoRejected ==
    ASSUME TypeOK, NoRejectedCode, Vetted, [Next]_vars
    PROVE  NoRejectedCode'
  <1> USE ZeroCell
  <1>a. /\ "fm" \in Part /\ "app" \in Part /\ "rb" \in Part
        /\ Erased \in Content /\ Torn \in Content /\ idx \in Cells
        /\ \A q \in Part : flash[q][idx] \in Content
        /\ Erased \notin Bad /\ Torn \notin Bad
    BY ImageAssumption DEF TypeOK, Content, Part
  <1>b. \A q \in Part : q # Target => \A j \in Cells : flash'[q][j] = flash[q][j]
    BY OnlyTarget
  <1>1. CASE Target \notin {"app", "rb"}
    BY <1>a, <1>b, <1>1 DEF NoRejectedCode
  <1>2. CASE SaveApp \/ RestoreApp
    <2>1. flash["app"][idx] \notin Bad /\ flash["rb"][idx] \notin Bad
      BY <1>a DEF NoRejectedCode
    <2> QED BY <1>2, <1>a, <2>1, PutCell
            DEF SaveApp, RestoreApp, fota_rollback_copy, NoRejectedCode
  <1>3. CASE fota_upgrade
    <2>1. pc = "up_write" => flash["fm"][idx] \notin Bad
      BY <1>a DEF Vetted, Intact
    <2> QED BY <1>3, <1>a, <2>1, PutCell DEF fota_upgrade, NoRejectedCode
  <1>4. ASSUME NEW torn \in BOOLEAN, PowerLoss(torn) \/ FlashError(torn)
        PROVE  NoRejectedCode'
    BY <1>4, <1>a, TearCell DEF PowerLoss, FlashError, NoRejectedCode
  <1>5. CASE Boot /\ ~(SaveApp \/ RestoreApp \/ fota_upgrade)
    <2>1. Target \notin {"app", "rb"}
      BY <1>5 DEF Boot, EnterRollback, EnterUpgrade, fota_part_fw_verify,
           fota_upgrade_verify, fota_copy_version, fota_check_application,
           fota_start_application, Return, Target
    <2> QED BY <1>1, <2>1
  <1>6. CASE Download \/ AppRestart \/ CheckError \/ VerifyError
    <2>1. Target \notin {"app", "rb"}
      BY <1>6 DEF Download, EnterYmodem, YmodemReceive, AppReceive, Receive, YmodemEnd,
           YmodemError, YmodemFile, AppDownload, AppRestart, CheckError, VerifyError, Target
    <2> QED BY <1>1, <2>1
  <1>7. CASE UNCHANGED vars
    BY <1>7 DEF vars, NoRejectedCode
  <1> QED BY <1>2, <1>3, <1>4, <1>5, <1>6, <1>7 DEF Next, Fault

\* Between the verification and the mark nothing writes the download partition.
LEMMA NextVetted ==
    ASSUME TypeOK, Vetted, [Next]_vars
    PROVE  Vetted'
  <1> USE ZeroCell
  <1> DEFINE Late == {"save_erase", "save_copy", "up_erase", "up_write"}
  <1>a. "fm" \in Part
    BY DEF Part
  <1>b. Target # "fm" => /\ Intact("fm")' <=> Intact("fm")
                         /\ flash'["fm"][0] = flash["fm"][0]
    BY <1>a, OnlyTarget, Untouched
  <1>1. CASE pc' \notin Late \cup {"up_verify"}
    BY <1>1 DEF Vetted
  <1>2. CASE fota_part_fw_verify
    <2>1. Target # "fm" /\ done' = done
      BY <1>2 DEF fota_part_fw_verify, Target
    <2> QED BY <1>2, <1>b, <2>1 DEF fota_part_fw_verify, Goto, Vetted
  <1>3. CASE fota_upgrade_verify
    <2>1. Target # "fm" /\ done' = done
      BY <1>3 DEF fota_upgrade_verify, Target
    <2> QED BY <1>3, <1>b, <2>1 DEF fota_upgrade_verify, Goto, Vetted
  <1>4. CASE pc \in Late /\ pc' # "up_verify" /\ done' = done
    <2>1. Target # "fm"
      BY <1>4 DEF Target
    <2> QED BY <1>4, <1>b, <2>1 DEF Vetted
  <1>5. CASE SaveApp \/ RestoreApp
    BY <1>5, <1>1, <1>4 DEF SaveApp, RestoreApp, fota_rollback_copy, Advance, Goto
  <1>6. CASE fota_upgrade
    BY <1>6, <1>4 DEF fota_upgrade, Advance, Goto
  <1>7. CASE fota_copy_version
    BY <1>7, <1>1 DEF fota_copy_version, Reset, Goto
  <1>8. CASE EnterRollback \/ EnterYmodem \/ EnterUpgrade
    BY <1>8, <1>1 DEF EnterRollback, EnterYmodem, EnterUpgrade, Goto
  <1>9. CASE fota_check_application \/ CheckError \/ VerifyError \/ fota_start_application
             \/ Return
    BY <1>9, <1>1 DEF fota_check_application, CheckError, VerifyError, fota_start_application, Return,
                      Corrupted, Goto
  <1>10. CASE YmodemReceive \/ AppReceive
    BY <1>10, <1>1 DEF YmodemReceive, AppReceive, Receive, Advance, Goto
  <1>11. CASE YmodemEnd \/ YmodemError \/ AppRestart
    BY <1>11, <1>1 DEF YmodemEnd, YmodemError, AppRestart, Reset, Goto
  <1>12. CASE \E v \in Image : YmodemFile(v) \/ AppDownload(v)
    BY <1>12, <1>1 DEF YmodemFile, AppDownload, Goto
  <1>13. ASSUME NEW torn \in BOOLEAN, PowerLoss(torn) PROVE Vetted'
    BY <1>13, <1>1 DEF PowerLoss, Reset, Goto
  <1>14. ASSUME NEW torn \in BOOLEAN, FlashError(torn) PROVE Vetted'
    <2>1. CASE pc \in Late
      BY <1>14, <2>1, <1>4 DEF FlashError, AfterError, Goto
    <2>2. CASE pc \notin Late
      BY <1>14, <2>2, <1>1 DEF FlashError, AfterError, Reset, Goto
    <2> QED BY <2>1, <2>2
  <1>15. CASE UNCHANGED vars
    BY <1>15 DEF vars, Vetted, Intact
  <1> QED
    BY <1>2, <1>3, <1>5, <1>6, <1>7, <1>8, <1>9, <1>10, <1>11, <1>12, <1>13, <1>14,
       <1>15 DEF Next, Boot, Download, Fault

\* From the check to the end of the run nothing writes the application.
LEMMA NextChecked ==
    ASSUME TypeOK, Checked, [Next]_vars
    PROVE  Checked'
  <1> USE ZeroCell
  <1> DEFINE On == {"start", "run", "dl_erase", "dl_write"}
  <1>a. "app" \in Part
    BY DEF Part
  <1>b. Target # "app" => /\ Intact("app")' <=> Intact("app")
                          /\ flash'["app"][0] = flash["app"][0]
    BY <1>a, OnlyTarget, Untouched
  <1>1. CASE pc' \notin On
    BY <1>1 DEF Checked, Running
  <1>2. CASE fota_check_application
    <2>1. Target # "app"
      BY <1>2 DEF fota_check_application, Target
    <2> QED BY <1>2, <1>1, <1>b, <2>1 DEF fota_check_application, Corrupted, Goto, Checked, Running
  <1>3. CASE fota_start_application
    <2>1. Target # "app"
      BY <1>3 DEF fota_start_application, Target
    <2> QED BY <1>3, <1>1, <1>b, <2>1 DEF fota_start_application, Corrupted, Goto, Checked, Running
  <1>4. CASE Running /\ pc' # "start"
    <2>1. Target # "app"
      BY <1>4 DEF Running, Target
    <2> QED BY <1>4, <1>b, <2>1 DEF Checked, Running
  <1>5. CASE SaveApp \/ RestoreApp \/ fota_upgrade \/ fota_copy_version
    BY <1>5, <1>1 DEF SaveApp, RestoreApp, fota_rollback_copy, fota_upgrade,
                      fota_copy_version, Advance, Reset, Goto
  <1>6. CASE EnterRollback \/ EnterYmodem \/ EnterUpgrade \/ fota_part_fw_verify
             \/ fota_upgrade_verify \/ CheckError \/ VerifyError \/ Return
    BY <1>6, <1>1 DEF EnterRollback, EnterYmodem, EnterUpgrade, fota_part_fw_verify,
                      fota_upgrade_verify, CheckError, VerifyError, Return, Corrupted, Goto
  <1>7. CASE YmodemReceive
    BY <1>7, <1>1 DEF YmodemReceive, Receive, Advance, Goto
  <1>8. CASE AppReceive
    BY <1>8, <1>4 DEF AppReceive, Receive, Running, Advance, Goto
  <1>9. CASE YmodemEnd \/ YmodemError \/ AppRestart
    BY <1>9, <1>1 DEF YmodemEnd, YmodemError, AppRestart, Reset, Goto
  <1>10. CASE \E v \in Image : YmodemFile(v) \/ AppDownload(v)
    BY <1>10, <1>1, <1>4 DEF YmodemFile, AppDownload, Running, Goto
  <1>11. ASSUME NEW torn \in BOOLEAN, PowerLoss(torn) PROVE Checked'
    BY <1>11, <1>1 DEF PowerLoss, Reset, Goto
  <1>12. ASSUME NEW torn \in BOOLEAN, FlashError(torn) PROVE Checked'
    <2>1. CASE pc \in {"dl_erase", "dl_write"}
      BY <1>12, <2>1, <1>4 DEF FlashError, AfterError, Running, Goto
    <2>2. CASE pc \notin {"dl_erase", "dl_write"}
      BY <1>12, <2>2, <1>1 DEF FlashError, AfterError, Reset, Goto
    <2> QED BY <2>1, <2>2
  <1>13. CASE UNCHANGED vars
    BY <1>13 DEF vars, Checked, Running, Intact
  <1> QED
    BY <1>2, <1>3, <1>5, <1>6, <1>7, <1>8, <1>9, <1>10, <1>11, <1>12, <1>13
    DEF Next, Boot, Download, Fault

\* SafeInv is inductive.
LEMMA Safe == Spec => [](TypeOK /\ SafeInv)
  <1>1. Init => SafeInv
    <2> SUFFICES ASSUME Init PROVE SafeInv
      OBVIOUS
    <2>1. NoRejectedCode
      BY ImageAssumption DEF Init, NoRejectedCode, Part
    <2>2. Vetted /\ Checked
      BY DEF Init, Vetted, Checked, Running
    <2> QED BY <2>1, <2>2 DEF SafeInv
  <1>2. TypeOK /\ SafeInv /\ [Next]_vars => SafeInv'
    BY NextNoRejected, NextVetted, NextChecked DEF SafeInv
  <1> QED BY <1>1, <1>2, InitTypeOK, NextTypeOK, PTL DEF Spec

\* Whatever the compile-time switches, and whenever power is lost or flash
\* fails, control is only ever given to an application that is complete, was
\* not rejected and has legal vectors (fota_check_application,
\* fota_start_application).
THEOREM StartsOnlyIntact == Spec => []RunsIntact
  <1>1. SafeInv => RunsIntact
    BY ZeroCell DEF SafeInv, Checked, NoRejectedCode, RunsIntact, Bootable
  <1> QED BY <1>1, Safe, PTL

\* Not one cell of a package that fota_upgrade_verify rejects ever reaches the
\* application or the rollback partition.
THEOREM RejectedStaysOut == Spec => []NoRejectedCode
  <1>1. SafeInv => NoRejectedCode
    BY DEF SafeInv
  <1> QED BY <1>1, Safe, PTL

-----------------------------------------------------------------------------
\* The configuration in which nothing but a failed check leads to a rollback:
\* every package can be started, neither ymodem nor the manual rollback is
\* built in, and fota_check_application is never refused memory or a read.
Plain == NoStart = {} /\ ~ManualRollback /\ ~Ymodem /\ ~ReadErrors

\* Without FOTA_YMODEM nothing is received in the boot loader.
NoSerial == pc \notin {"y_wait", "y_erase", "y_write"}

\* No step enters ymodem.
LEMMA NextNoSerial ==
    ASSUME Plain, TypeOK, NoSerial, [Next]_vars
    PROVE  NoSerial'
  <1>1. CASE Boot
    BY <1>1 DEF Plain, NoSerial, Boot, EnterRollback, EnterUpgrade, fota_part_fw_verify,
         fota_upgrade_verify, SaveApp, RestoreApp, fota_rollback_copy, fota_upgrade,
         fota_copy_version, fota_check_application, fota_start_application, Return,
         Corrupted, Advance, Goto, Reset
  <1>2. CASE Download \/ AppRestart
    BY <1>2 DEF Plain, NoSerial, Download, EnterYmodem, YmodemReceive, YmodemEnd,
         YmodemError, YmodemFile, AppDownload, AppReceive, Receive, AppRestart,
         Advance, Goto, Reset
  <1>3. CASE Fault
    BY <1>3 DEF Plain, NoSerial, Fault, CheckError, VerifyError, PowerLoss, FlashError, AfterError,
         Goto, Reset
  <1>4. CASE UNCHANGED vars
    BY <1>4 DEF vars, NoSerial
  <1> QED BY <1>1, <1>2, <1>3, <1>4 DEF Next

\* While one partition is being written, another holds a way back.
LEMMA Spared ==
    ASSUME Plain, TypeOK, SafeInv, RecoverInv, NoSerial
    PROVE  \/ Target # "app" /\ Bootable("app")
           \/ Target # "rb" /\ Bootable("rb")
           \/ Target # "fm" /\ Pending
  <1>1. CASE Target = "none"
    BY <1>1 DEF RecoverInv, Recoverable
  <1>2. CASE pc \in {"save_erase", "save_copy", "up_erase", "up_write"}
    <2>1. Target \in {"rb", "app"}
      BY <1>2 DEF Target
    <2>2. Bootable("fm") \/ flash["fm"][0] \in NoStart
      BY <1>2 DEF SafeInv, Vetted, Bootable
    <2> QED BY <1>2, <2>1, <2>2 DEF Plain, SafeInv, Vetted, Pending
  <1>3. CASE pc \in {"mark_erase", "mark_write"}
    BY <1>3 DEF Target, RecoverInv, WayBack
  <1>4. CASE pc \in {"restore_erase", "restore_copy"}
    BY <1>4 DEF Target, RecoverInv, WayBack
  <1>5. CASE pc \in {"dl_erase", "dl_write"}
    <2>1. Bootable("app")
      BY <1>5, ZeroCell DEF SafeInv, Checked, NoRejectedCode, Bootable, Running
    <2> QED BY <1>5, <2>1 DEF Target
  <1> QED BY <1>1, <1>2, <1>3, <1>4, <1>5 DEF Target, NoSerial

\* The mark of the download partition changes only with that partition.
LEMMA DoneWithFm ==
    ASSUME [Next]_vars, Target # "fm"
    PROVE  done' = done
  <1>1. CASE Boot
    BY <1>1 DEF Boot, EnterRollback, EnterUpgrade, fota_part_fw_verify,
         fota_upgrade_verify, SaveApp, RestoreApp, fota_rollback_copy, fota_upgrade,
         fota_copy_version, fota_check_application, fota_start_application, Return, Target
  <1>2. CASE Download \/ AppRestart
    BY <1>2 DEF Download, EnterYmodem, YmodemReceive, YmodemEnd, YmodemError, YmodemFile,
         AppDownload, AppReceive, Receive, AppRestart, Target
  <1>3. CASE Fault
    BY <1>3 DEF Fault, CheckError, VerifyError, PowerLoss, FlashError
  <1>4. CASE UNCHANGED vars
    BY <1>4 DEF vars
  <1> QED BY <1>1, <1>2, <1>3, <1>4 DEF Next

\* The way back that is spared is still one after the step.
LEMMA NextRecoverable ==
    ASSUME Plain, TypeOK, SafeInv, RecoverInv, NoSerial, [Next]_vars
    PROVE  Recoverable'
  <1>1. "fm" \in Part /\ "app" \in Part /\ "rb" \in Part
    BY DEF Part
  <1>2. \A q \in Part : q # Target => (Bootable(q)' <=> Bootable(q))
    BY OnlyTarget, Untouched
  <1>3. Target # "fm" => (Pending' <=> Pending)
    BY <1>1, <1>2, DoneWithFm DEF Pending
  <1> QED BY <1>1, <1>2, <1>3, Spared DEF Recoverable

\* The steps that lead to a place where something is destroyed.
LEMMA NextWayBack ==
    ASSUME Plain, TypeOK, SafeInv, RecoverInv, NoSerial, [Next]_vars
    PROVE  WayBack'
  <1> USE ZeroCell
  <1> DEFINE Marking == {"mark_erase", "mark_write"}
             Restoring == {"restore_erase", "restore_copy"}
  <1>a. "fm" \in Part /\ "app" \in Part /\ "rb" \in Part
    BY DEF Part
  <1>b. \A q \in Part : q # Target =>
            (Bootable(q)' <=> Bootable(q)) /\ \A j \in Cells : flash'[q][j] = flash[q][j]
    BY OnlyTarget, Untouched
  <1>c. Target # "fm" => (Pending' <=> Pending)
    BY <1>a, <1>b, DoneWithFm DEF Pending
  <1>1. CASE pc' \notin Marking \cup Restoring \cup {"up_write"}
    BY <1>1 DEF WayBack
  <1>2. CASE fota_upgrade_verify
    <2>1. pc' = "mark_erase" => ~Pending
      BY <1>2 DEF fota_upgrade_verify, Goto, SafeInv, Vetted, Pending, Bootable
    <2>2. Target = "none"
      BY <1>2 DEF fota_upgrade_verify, Target
    <2>3. pc' \notin Restoring \cup {"mark_write", "up_write"}
      BY <1>2 DEF fota_upgrade_verify, Goto
    <2> QED BY <1>a, <1>b, <2>1, <2>2, <2>3 DEF RecoverInv, Recoverable, WayBack
  <1>3. CASE fota_upgrade
    <2>1. Target = "app" /\ idx \in Cells /\ flash["fm"][idx] \in Content /\ Erased \in Content
      BY <1>3, <1>a DEF fota_upgrade, Target, TypeOK, Content
    <2>2. CASE pc = "up_erase"
      <3>1. (pc' = "up_erase") \/ (pc' = "up_write" /\ idx' = 0)
        BY <1>3, <2>2 DEF fota_upgrade, Advance, Goto
      <3> QED BY <3>1 DEF WayBack, Cells
    <2>3. CASE pc = "up_write"
      <3>1. Put("app", idx, flash["fm"][idx]) /\ Advance("mark_erase")
        BY <1>3, <2>3 DEF fota_upgrade
      <3>2. \A j \in Cells : j <= idx => flash'["app"][j] = flash'["fm"][j]
        <4>1. \A j \in Cells : j < idx => flash["app"][j] = flash["fm"][j]
          BY <2>3 DEF RecoverInv, WayBack
        <4>2. \A j \in Cells : flash'["app"][j] = IF j = idx THEN flash["fm"][idx] ELSE flash["app"][j]
          BY <3>1, <2>1, <1>a, PutCell
        <4>3. \A j \in Cells : flash'["fm"][j] = flash["fm"][j]
          BY <1>a, <1>b, <2>1
        <4> QED BY <4>1, <4>2, <4>3, <2>1, NAssumption DEF Cells
      <3>3. CASE idx < N
        <4>1. pc' = "up_write" /\ idx' = idx + 1
          BY <3>1, <3>3, <2>3 DEF Advance
        <4>2. \A j \in Cells : j < idx' => j <= idx
          BY <4>1, <2>1, NAssumption DEF Cells
        <4> QED BY <3>2, <4>1, <4>2 DEF WayBack
      <3>4. CASE ~(idx < N)
        <4>1. pc' = "mark_erase"
          BY <3>1, <3>4 DEF Advance, Goto
        <4>2. \A j \in Cells : j <= idx
          BY <3>4, <2>1, NAssumption DEF Cells
        <4>3. Bootable("fm")
          BY <2>3 DEF Plain, SafeInv, Vetted, Bootable
        <4>4. Bootable("fm")'
          BY <4>3, <2>1, <1>a, <1>b
        <4>5. Bootable("app")'
          BY <4>2, <4>4, <3>2 DEF Bootable, Intact
        <4> QED BY <4>1, <4>5 DEF WayBack
      <3> QED BY <3>3, <3>4
    <2> QED BY <1>3, <2>2, <2>3 DEF fota_upgrade
  <1>4. CASE fota_copy_version
    <2>1. Target = "fm" /\ pc \in Marking
      BY <1>4 DEF fota_copy_version, Target
    <2>2. pc' \notin Restoring \cup {"up_write"}
      BY <1>4 DEF fota_copy_version, Reset, Goto
    <2> QED BY <1>a, <1>b, <2>1, <2>2 DEF RecoverInv, WayBack
  <1>5. CASE fota_check_application
    <2>1. pc' \in Restoring => ~Intact("app")
      BY <1>5 DEF fota_check_application, Goto
    <2>2. Target = "none"
      BY <1>5 DEF fota_check_application, Target
    <2>3. pc' \notin Marking \cup {"up_write"}
      BY <1>5 DEF fota_check_application, Corrupted, Goto
    <2> QED BY <1>a, <1>b, <1>c, <2>1, <2>2, <2>3
            DEF RecoverInv, Recoverable, Bootable, WayBack
  <1>6. CASE RestoreApp
    <2>1. Target = "app" /\ pc \in Restoring
      BY <1>6 DEF RestoreApp, fota_rollback_copy, Target
    <2>2. pc' \notin Marking \cup {"up_write"}
      BY <1>6 DEF RestoreApp, fota_rollback_copy, Advance, Goto
    <2> QED BY <1>a, <1>b, <1>c, <2>1, <2>2 DEF RecoverInv, WayBack
  <1>7. CASE SaveApp \/ EnterRollback \/ EnterUpgrade \/ fota_part_fw_verify
             \/ fota_start_application \/ Return \/ CheckError \/ VerifyError
    BY <1>1, <1>7 DEF Plain, SaveApp, fota_rollback_copy, EnterRollback, EnterUpgrade,
         fota_part_fw_verify, fota_start_application, Return, CheckError, VerifyError, Advance, Goto
  <1>8. CASE Download \/ AppRestart
    BY <1>1, <1>8 DEF Download, EnterYmodem, YmodemReceive, YmodemEnd, YmodemError,
         YmodemFile, AppDownload, AppReceive, Receive, AppRestart, Advance, Goto, Reset
  <1>9. CASE \E torn \in BOOLEAN : PowerLoss(torn) \/ FlashError(torn)
    BY <1>1, <1>9 DEF PowerLoss, FlashError, AfterError, Goto, Reset
  <1>10. CASE UNCHANGED vars
    BY <1>10 DEF vars, RecoverInv, WayBack, Bootable, Intact, Pending
  <1> QED
    BY <1>2, <1>3, <1>4, <1>5, <1>6, <1>7, <1>8, <1>9, <1>10 DEF Next, Boot, Fault

\* In the plain configuration no power loss and no flash error, at whatever
\* point of whatever boot, leaves the device without an image it can go back
\* to, for every partition size, with and without FOTA_ROLLBACK.
THEOREM NeverStranded ==
    ASSUME Plain
    PROVE  Spec => []Recoverable
  <1>1. Init => RecoverInv /\ NoSerial
    <2> SUFFICES ASSUME Init PROVE RecoverInv /\ NoSerial
      OBVIOUS
    <2>1. Bootable("app")
      BY ZeroCell DEF Init, Bootable, Intact, Part
    <2> QED BY <2>1 DEF Init, RecoverInv, Recoverable, WayBack, NoSerial
  <1>2. TypeOK /\ SafeInv /\ RecoverInv /\ NoSerial /\ [Next]_vars
           => RecoverInv' /\ NoSerial'
    BY NextRecoverable, NextWayBack, NextNoSerial DEF RecoverInv
  <1>3. RecoverInv => Recoverable
    BY DEF RecoverInv
  <1> QED BY <1>1, <1>2, <1>3, Safe, PTL DEF Spec

-----------------------------------------------------------------------------
\* A partition with a cell that is erased or torn is not intact.
LEMMA Broken ==
    ASSUME NEW p \in Part, NEW i \in Cells, flash[p][i] \in {Erased, Torn}
    PROVE  ~Intact(p)
  BY ZeroCell, ImageAssumption DEF Intact

\* The same after a step.
LEMMA WillBeBroken ==
    ASSUME NEW p \in Part, NEW i \in Cells, flash'[p][i] \in {Erased, Torn}
    PROVE  ~Intact(p)'
  BY ZeroCell, ImageAssumption DEF Intact

\* A fault leaves the partition it hits as it was, or not intact.
LEMMA TornOrSame ==
    ASSUME TypeOK, NEW torn \in BOOLEAN, Tear(torn), NEW q \in Part
    PROVE  ~Intact(q)' \/ (Intact(q)' = Intact(q) /\ flash'[q][0] = flash[q][0])
  <1>1. \A j \in Cells : flash'[q][j] = flash[q][j] \/ flash'[q][j] = Torn
    BY TearCell
  <1>2. CASE \E j \in Cells : flash'[q][j] = Torn
    BY <1>2, WillBeBroken
  <1>3. CASE \A j \in Cells : flash'[q][j] = flash[q][j]
    BY <1>3, ZeroCell DEF Intact
  <1> QED BY <1>1, <1>2, <1>3

\* The download partition claims that its package is installed.
Claims == Intact("fm") /\ done /\ flash["fm"][0] \notin Bad

\* The steps that write the application find no claim, and the steps that make
\* a claim find the package installed.
LEMMA NextMarked ==
    ASSUME Plain, TypeOK, SafeInv, RecoverInv, NoSerial, MarkInv, [Next]_vars
    PROVE  MarkedInstalled'
  <1> USE ZeroCell
  <1>a. "fm" \in Part /\ "app" \in Part
    BY DEF Part
  <1>b. \A q \in Part : q # Target => (Intact(q)' <=> Intact(q)) /\ flash'[q][0] = flash[q][0]
    BY OnlyTarget, Untouched
  <1>1. CASE Target \in {"none", "rb"}
    <2>1. done' = done
      BY <1>1, DoneWithFm
    <2> QED BY <1>1, <1>a, <1>b, <2>1 DEF MarkInv, MarkedInstalled
  <1>2. CASE Target = "app"
    <2>1. ~Claims
      BY <1>2 DEF Target, Claims, SafeInv, Vetted, MarkInv, MarkOwed
    <2>2. done' = done
      BY <1>2, DoneWithFm
    <2> QED BY <1>2, <1>a, <1>b, <2>1, <2>2 DEF Claims, MarkedInstalled
  <1>3. CASE Target = "fm"
    <2>a. (Intact("app")' <=> Intact("app")) /\ flash'["app"][0] = flash["app"][0]
      BY <1>3, <1>a, <1>b
    <2>b. /\ pc \in {"mark_erase", "mark_write", "dl_erase", "dl_write"}
          /\ Erased \in Content /\ idx \in Cells /\ Image \subseteq Content
      BY <1>3 DEF Target, NoSerial, TypeOK, Content
    <2>1. CASE fota_copy_version
      <3>1. CASE pc = "mark_erase"
        <4>1. Put("fm", 0, Erased)
          BY <2>1, <3>1 DEF fota_copy_version
        <4>2. flash'["fm"][0] = Erased
          BY <1>a, <2>b, <4>1, PutCell
        <4> QED BY <1>a, <4>2, WillBeBroken DEF MarkedInstalled
      <3>2. CASE pc = "mark_write"
        <4>1. Put("fm", 0, head) /\ head \in Content
          BY <2>1, <2>b, <3>2 DEF fota_copy_version, TypeOK
        <4>2. flash'["fm"][0] = head
          BY <1>a, <4>1, PutCell
        <4>3. head \notin Bad => Intact("app") /\ flash["app"][0] = head
          BY <3>2 DEF MarkInv, MarkOwed
        <4> QED BY <2>a, <4>2, <4>3 DEF MarkedInstalled
      <3> QED BY <2>1, <3>1, <3>2 DEF fota_copy_version
    <2>2. CASE AppReceive
      <3>1. CASE pc = "dl_erase"
        <4>1. Put("fm", idx, Erased)
          BY <2>2, <3>1 DEF AppReceive, Receive
        <4>2. flash'["fm"][idx] = Erased
          BY <1>a, <2>b, <4>1, PutCell
        <4> QED BY <1>a, <2>b, <4>2, WillBeBroken DEF MarkedInstalled
      <3>2. CASE pc = "dl_write"
        <4>1. done' = IF idx = 0 THEN FALSE ELSE done
          BY <2>2, <3>2 DEF AppReceive, Receive
        <4>2. idx > 0 => ~done
          BY <3>2 DEF MarkInv, MarkOwed
        <4>3. idx = 0 \/ idx > 0
          BY <2>b, NAssumption DEF Cells
        <4> QED BY <4>1, <4>2, <4>3 DEF MarkedInstalled
      <3> QED BY <2>2, <3>1, <3>2 DEF AppReceive, Receive
    <2>3. ASSUME NEW torn \in BOOLEAN, PowerLoss(torn) \/ FlashError(torn)
          PROVE  MarkedInstalled'
      <3>1. done' = done /\ Tear(torn)
        BY <2>3 DEF PowerLoss, FlashError
      <3> QED BY <1>a, <2>a, <3>1, TornOrSame DEF MarkInv, MarkedInstalled
    <2>4. CASE Boot /\ ~fota_copy_version
      BY <2>4, <2>b DEF Boot, EnterRollback, EnterUpgrade, fota_part_fw_verify,
           fota_upgrade_verify, SaveApp, RestoreApp, fota_rollback_copy, fota_upgrade,
           fota_check_application, fota_start_application, Return
    <2>5. CASE (Download /\ ~AppReceive) \/ AppRestart \/ CheckError \/ VerifyError
      BY <2>5, <2>b DEF Download, EnterYmodem, YmodemReceive, Receive, YmodemEnd, YmodemError,
           YmodemFile, AppDownload, AppRestart, CheckError, VerifyError
    <2>6. CASE UNCHANGED vars
      BY <2>6 DEF vars, MarkInv, MarkedInstalled, Intact
    <2> QED BY <2>1, <2>2, <2>3, <2>4, <2>5, <2>6 DEF Next, Fault
  <1> QED BY <1>1, <1>2, <1>3 DEF Target

\* What is owed at the next step.
LEMMA NextOwed ==
    ASSUME Plain, TypeOK, SafeInv, RecoverInv, NoSerial, MarkInv, [Next]_vars
    PROVE  MarkOwed'
  <1> USE ZeroCell
  <1> DEFINE Late == {"save_erase", "save_copy", "up_erase", "up_write"}
             Marking == {"mark_erase", "mark_write"}
             Restoring == {"restore_erase", "restore_copy"}
  <1>a. "fm" \in Part /\ "app" \in Part
    BY DEF Part
  <1>b. \A q \in Part : q # Target => /\ (Intact(q)' <=> Intact(q))
                                      /\ flash'[q][0] = flash[q][0]
                                      /\ \A j \in Cells : flash'[q][j] = flash[q][j]
    BY OnlyTarget, Untouched
  <1>1. CASE pc' \notin Late \cup Marking \cup Restoring \cup {"dl_write"}
    BY <1>1 DEF MarkOwed
  <1>2. CASE fota_upgrade_verify
    <2>1. Target = "none" /\ head' = head
      BY <1>2 DEF fota_upgrade_verify, Target
    <2>2. head = flash["fm"][0] /\ (pc' \in Marking => head \in Bad)
      BY <1>2 DEF fota_upgrade_verify, Goto, SafeInv, Vetted
    <2>3. pc' \in Late \cup Marking
      BY <1>2 DEF fota_upgrade_verify, Goto
    <2> QED BY <1>a, <1>b, <2>1, <2>2, <2>3 DEF MarkOwed
  <1>3. CASE SaveApp
    <2>1. Target = "rb" /\ head' = head /\ pc \in Late /\ pc' \in Late
      BY <1>3 DEF SaveApp, fota_rollback_copy, Target, Advance, Goto
    <2> QED BY <1>a, <1>b, <2>1 DEF MarkInv, MarkOwed
  <1>4. CASE fota_upgrade
    <2>1. /\ Target = "app" /\ head' = head /\ pc \in Late /\ idx \in Cells
          /\ pc' \in {"up_erase", "up_write", "mark_erase"}
          /\ flash["fm"][idx] \in Content
      BY <1>4, <1>a DEF fota_upgrade, Target, Advance, Goto, TypeOK
    <2>2. head = flash["fm"][0] /\ Intact("fm")
      BY <2>1 DEF MarkInv, MarkOwed, SafeInv, Vetted
    <2>3. pc' = "mark_erase" => Intact("app")' /\ flash'["app"][0] = head
      <3> SUFFICES ASSUME pc' = "mark_erase" PROVE Intact("app")' /\ flash'["app"][0] = head
        OBVIOUS
      <3>1. pc = "up_write" /\ idx = N /\ Put("app", idx, flash["fm"][idx])
        BY <1>4, <2>1, NAssumption DEF fota_upgrade, Advance, Goto, Cells
      <3>2. \A j \in Cells : flash'["app"][j] = IF j = idx THEN flash["fm"][idx] ELSE flash["app"][j]
        BY <1>a, <2>1, <3>1, PutCell
      <3>3. \A j \in Cells : j < idx => flash["app"][j] = flash["fm"][j]
        BY <3>1 DEF RecoverInv, WayBack
      <3>4. \A j \in Cells : j = idx \/ j < idx
        BY <3>1, NAssumption DEF Cells
      <3>5. \A j \in Cells : flash'["app"][j] = flash["fm"][j]
        BY <3>2, <3>3, <3>4
      <3> QED BY <2>2, <3>5 DEF Intact
    <2> QED BY <1>a, <1>b, <2>1, <2>2, <2>3 DEF MarkOwed
  <1>5. CASE fota_copy_version
    <2>1. /\ Target = "fm" /\ pc \in Marking
          /\ pc' \in {"mark_write", "enter", "check"}
          /\ pc' = "mark_write" => head' = head
      BY <1>5 DEF fota_copy_version, Target, Reset, Goto
    <2> QED BY <1>a, <1>b, <2>1 DEF MarkInv, MarkOwed
  <1>6. CASE fota_check_application
    <2>1. Target = "none" /\ done' = done /\ pc' \notin Late \cup Marking \cup {"dl_write"}
      BY <1>6 DEF fota_check_application, Target, Corrupted, Goto
    <2>2. pc' \in Restoring => ~Intact("app")
      BY <1>6 DEF fota_check_application, Goto
    <2> QED BY <1>a, <1>b, <2>1, <2>2 DEF MarkInv, MarkedInstalled, MarkOwed
  <1>7. CASE RestoreApp
    <2>1. /\ Target = "app" /\ done' = done /\ pc \in Restoring
          /\ pc' \notin Late \cup Marking \cup {"dl_write"}
      BY <1>7 DEF RestoreApp, fota_rollback_copy, Target, Advance, Goto
    <2> QED BY <1>a, <1>b, <2>1 DEF MarkInv, MarkOwed
  <1>8. CASE AppReceive
    <2>1. CASE pc = "dl_erase"
      <3>1. pc' = "dl_erase" \/ (pc' = "dl_write" /\ idx' = 0)
        BY <1>8, <2>1 DEF AppReceive, Receive, Advance, Goto
      <3> QED BY <3>1 DEF MarkOwed
    <2>2. CASE pc = "dl_write"
      <3>1. done' = IF idx = 0 THEN FALSE ELSE done
        BY <1>8, <2>2 DEF AppReceive, Receive
      <3>2. idx > 0 => ~done
        BY <2>2 DEF MarkInv, MarkOwed
      <3>3. idx = 0 \/ idx > 0
        BY NAssumption DEF TypeOK, Cells
      <3>4. ~done' /\ pc' \in {"dl_write", "run"}
        BY <1>8, <2>2, <3>1, <3>2, <3>3 DEF AppReceive, Receive, Advance, Goto
      <3> QED BY <3>4 DEF MarkOwed
    <2> QED BY <1>8, <2>1, <2>2 DEF AppReceive, Receive
  <1>9. CASE EnterRollback \/ EnterUpgrade \/ fota_part_fw_verify \/ fota_start_application
             \/ Return \/ CheckError \/ VerifyError
    BY <1>1, <1>9 DEF Plain, EnterRollback, EnterUpgrade, fota_part_fw_verify,
         fota_start_application, Return, CheckError, VerifyError, Goto
  <1>10. CASE (Download /\ ~AppReceive) \/ AppRestart
    BY <1>1, <1>10 DEF NoSerial, Download, EnterYmodem, YmodemReceive, Receive, YmodemEnd,
         YmodemError, YmodemFile, AppDownload, AppRestart, Reset, Goto
  <1>11. ASSUME NEW torn \in BOOLEAN, PowerLoss(torn) PROVE MarkOwed'
    BY <1>1, <1>11 DEF PowerLoss, Reset, Goto
  <1>12. ASSUME NEW torn \in BOOLEAN, FlashError(torn) PROVE MarkOwed'
    <2>1. CASE pc \in {"save_erase", "save_copy"}
      <3>1. Target = "rb" /\ head' = head /\ pc' = "up_erase"
        BY <1>12, <2>1 DEF FlashError, AfterError, Target, Goto
      <3> QED BY <1>a, <1>b, <2>1, <3>1 DEF MarkInv, MarkOwed
    <2>2. CASE pc \notin {"save_erase", "save_copy"}
      BY <1>1, <1>12, <2>2 DEF FlashError, AfterError, Reset, Goto
    <2> QED BY <2>1, <2>2
  <1>13. CASE UNCHANGED vars
    BY <1>13 DEF vars, MarkInv, MarkOwed, Intact
  <1> QED
    BY <1>2, <1>3, <1>4, <1>5, <1>6, <1>7, <1>8, <1>9, <1>10, <1>11, <1>12, <1>13
    DEF Next, Boot, Fault

\* In the plain configuration a package that passed the verification carries
\* the mark of an installed one only when the application partition holds it,
\* whatever power losses and flash errors came before: no device takes an
\* upgrade for done that is not.
THEOREM MarkIsTrue ==
    ASSUME Plain
    PROVE  Spec => []MarkedInstalled
  <1>1. Init => RecoverInv /\ NoSerial /\ MarkInv
    <2> SUFFICES ASSUME Init PROVE RecoverInv /\ NoSerial /\ MarkInv
      OBVIOUS
    <2>1. Bootable("app")
      BY ZeroCell DEF Init, Bootable, Intact, Part
    <2>2. RecoverInv /\ NoSerial
      BY <2>1 DEF Init, RecoverInv, Recoverable, WayBack, NoSerial
    <2>3. MarkInv
      BY DEF Init, MarkInv, MarkedInstalled, MarkOwed
    <2> QED BY <2>2, <2>3
  <1>2. TypeOK /\ SafeInv /\ RecoverInv /\ NoSerial /\ MarkInv /\ [Next]_vars
           => RecoverInv' /\ NoSerial' /\ MarkInv'
    BY NextRecoverable, NextWayBack, NextNoSerial, NextMarked, NextOwed DEF RecoverInv, MarkInv
  <1>3. MarkInv => MarkedInstalled
    BY DEF MarkInv
  <1> QED BY <1>1, <1>2, <1>3, Safe, PTL DEF Spec
=============================================================================
