------------------------ MODULE SendStateFilesProofs ------------------------
(***************************************************************************)
(* Theorems about SendStateFiles, for any number of changes: no change     *)
(* whose save returned is forgotten, a start never refuses files that      *)
(* nobody damaged, and the two files implement LedgerStore.                *)
(***************************************************************************)
EXTENDS SendStateFiles, TLAPS

USE FileConstants
USE DEF Good, Missing, Corrupt, Readable, Copies, Running

\* The invariant holds of an empty directory and of an older release's files.
LEMMA InitFilesInv == Init => FilesInv
<1> SUFFICES ASSUME Init PROVE FilesInv
  OBVIOUS
<1> USE DEF Init
<1>1. TypeOK
  <2>1. {Missing, Good(0, 0), Good(0, 1)} \subseteq Copies
    OBVIOUS
  <2>2. primary \in Copies /\ backup \in Copies /\ mem \in Copies
    BY <2>1
  <2>3. made \in 0..MaxVersions /\ acked \in 0..MaxVersions
    OBVIOUS
  <2>4. marker \in BOOLEAN /\ healthy \in BOOLEAN /\ damaged \in BOOLEAN
    OBVIOUS
  <2>5. Readable(mem) /\ at = "down"
    OBVIOUS
  <2> HIDE DEF Init, Copies, Good
  <2> QED BY <2>2, <2>3, <2>4, <2>5 DEF TypeOK
<1>2. AckedIsEverywhere  BY DEF AckedIsEverywhere, Bounded
<1>3. BackupLeads        BY DEF BackupLeads, Intact, Older, Selected, BackupWins
<1> QED BY <1>1, <1>2, <1>3 DEF FilesInv

\* Types are kept by every step.
LEMMA StepTypes == FilesInv /\ Next => TypeOK'
<1> SUFFICES ASSUME FilesInv, Next PROVE TypeOK'
  OBVIOUS
<1> USE DEF FilesInv, TypeOK, AckedIsEverywhere, Bounded
<1>1. CASE Step /\ UNCHANGED damaged
  <2>1. CASE Change            BY <1>1, <2>1 DEF Change
  <2>2. CASE SaveBackup        BY <1>1, <2>2 DEF SaveBackup
  <2>3. CASE SavePrimary       BY <1>1, <2>3 DEF SavePrimary
  <2>4. CASE SaveMarker        BY <1>1, <2>4 DEF SaveMarker
  <2>5. CASE SaveRaises        BY <1>1, <2>5 DEF SaveRaises
  <2>6. CASE LoadFresh         BY <1>1, <2>6 DEF LoadFresh
  <2>7. CASE LoadSelects
    BY <1>1, <2>7 DEF LoadSelects, CanLoad, Selected, BackupWins
  <2>8. CASE RepairBackup      BY <1>1, <2>8 DEF RepairBackup
  <2>9. CASE RepairPrimary     BY <1>1, <2>9 DEF RepairPrimary
  <2>10. CASE LoadRefuses      BY <1>1, <2>10 DEF LoadRefuses
  <2>11. CASE Crash            BY <1>1, <2>11 DEF Crash
  <2>12. CASE StartAgain       BY <1>1, <2>12 DEF StartAgain
  <2> QED BY <1>1, <2>1, <2>2, <2>3, <2>4, <2>5, <2>6, <2>7, <2>8, <2>9,
             <2>10, <2>11, <2>12 DEF Step
<1>2. CASE Damage              BY <1>2 DEF Damage
<1> QED BY <1>1, <1>2 DEF Next

\* So is the presence of acknowledged changes.
LEMMA StepAcked == FilesInv /\ Next => AckedIsEverywhere'
<1> SUFFICES ASSUME FilesInv, Next PROVE AckedIsEverywhere'
  OBVIOUS
<1> USE DEF FilesInv, TypeOK, AckedIsEverywhere, Bounded
<1>1. CASE Step /\ UNCHANGED damaged
  <2>1. CASE Change            BY <1>1, <2>1 DEF Change
  <2>2. CASE SaveBackup        BY <1>1, <2>2 DEF SaveBackup
  <2>3. CASE SavePrimary       BY <1>1, <2>3 DEF SavePrimary
  <2>4. CASE SaveMarker        BY <1>1, <2>4 DEF SaveMarker
  <2>5. CASE SaveRaises        BY <1>1, <2>5 DEF SaveRaises
  <2>6. CASE LoadFresh         BY <1>1, <2>6 DEF LoadFresh, NothingThere
  <2>7. CASE LoadSelects
    BY <1>1, <2>7 DEF LoadSelects, CanLoad, Selected, BackupWins
  <2>8. CASE RepairBackup      BY <1>1, <2>8 DEF RepairBackup
  <2>9. CASE RepairPrimary     BY <1>1, <2>9 DEF RepairPrimary
  <2>10. CASE LoadRefuses      BY <1>1, <2>10 DEF LoadRefuses
  <2>11. CASE Crash            BY <1>1, <2>11 DEF Crash
  <2>12. CASE StartAgain       BY <1>1, <2>12 DEF StartAgain
  <2> QED BY <1>1, <2>1, <2>2, <2>3, <2>4, <2>5, <2>6, <2>7, <2>8, <2>9,
             <2>10, <2>11, <2>12 DEF Step
<1>2. CASE Damage              BY <1>2 DEF Damage
<1> QED BY <1>1, <1>2 DEF Next

\* And, as long as nobody damages a file, the order of the copies.
LEMMA StepLeads == FilesInv /\ Next /\ ~damaged' => BackupLeads'
<1> SUFFICES ASSUME FilesInv, Next, ~damaged' PROVE BackupLeads'
  OBVIOUS
<1> USE DEF FilesInv, TypeOK, AckedIsEverywhere, Bounded, BackupLeads, Intact,
            Older, Selected, BackupWins
<1>1. CASE Step /\ UNCHANGED damaged
  <2> BackupLeads
    BY <1>1
  <2>1. CASE Change            BY <1>1, <2>1 DEF Change
  <2>2. CASE SaveBackup        BY <1>1, <2>2 DEF SaveBackup
  <2>3. CASE SavePrimary       BY <1>1, <2>3 DEF SavePrimary
  <2>4. CASE SaveMarker        BY <1>1, <2>4 DEF SaveMarker
  <2>5. CASE SaveRaises        BY <1>1, <2>5 DEF SaveRaises
  <2>6. CASE LoadFresh         BY <1>1, <2>6 DEF LoadFresh, NothingThere
  <2>7. CASE LoadSelects       BY <1>1, <2>7 DEF LoadSelects, CanLoad
  <2>8. CASE RepairBackup      BY <1>1, <2>8 DEF RepairBackup
  <2>9. CASE RepairPrimary     BY <1>1, <2>9 DEF RepairPrimary
  <2>10. CASE LoadRefuses
    BY <1>1, <2>10 DEF LoadRefuses, CanLoad, Ambiguous, NothingThere
  <2>11. CASE Crash            BY <1>1, <2>11 DEF Crash
  <2>12. CASE StartAgain       BY <1>1, <2>12 DEF StartAgain
  <2> QED BY <1>1, <2>1, <2>2, <2>3, <2>4, <2>5, <2>6, <2>7, <2>8, <2>9,
             <2>10, <2>11, <2>12 DEF Step
<1>2. CASE Damage              BY <1>2 DEF Damage
<1> QED BY <1>1, <1>2 DEF Next

LEMMA StepFilesInv == FilesInv /\ [Next]_vars => FilesInv'
<1> SUFFICES ASSUME FilesInv, [Next]_vars PROVE FilesInv'
  OBVIOUS
<1>1. CASE Next
  <2>1. ~damaged' => ~damaged
    BY <1>1 DEF Next, Damage
  <2> QED BY <1>1, <2>1, StepTypes, StepAcked, StepLeads DEF FilesInv
<1>2. CASE UNCHANGED vars
  BY <1>2 DEF vars, FilesInv, TypeOK, AckedIsEverywhere, BackupLeads, Bounded,
              Intact, Older, Selected, BackupWins
<1> QED BY <1>1, <1>2

\* The strengthened invariant of the files, for any number of changes.
THEOREM FilesInvHolds == Spec => []FilesInv
<1>1. Init => FilesInv                        BY InitFilesInv
<1>2. FilesInv /\ [Next]_vars => FilesInv'    BY StepFilesInv
<1> QED BY <1>1, <1>2, PTL DEF Spec

\* A running sender knows every change whose save returned (_load_state picks
\* a copy that has it, or refuses).
THEOREM AckedIsKept == Spec => []NothingAckedIsForgotten
<1>1. FilesInv => NothingAckedIsForgotten
  BY DEF FilesInv, AckedIsEverywhere, NothingAckedIsForgotten
<1> QED BY <1>1, FilesInvHolds, PTL

\* Either file of a healthy, idle sender is the ledger in memory.
THEOREM EitherFileIsEnough == Spec => []EitherFileSuffices
<1>1. FilesInv => EitherFileSuffices
  BY DEF FilesInv, AckedIsEverywhere, EitherFileSuffices
<1> QED BY <1>1, FilesInvHolds, PTL

\* Crashes and failed saves alone never make _load_state refuse.
THEOREM StartsWhenUndamaged == Spec => []NeverRefusesUndamaged
<1>1. FilesInv => NeverRefusesUndamaged
  BY DEF FilesInv, TypeOK, BackupLeads, NeverRefusesUndamaged
<1> QED BY <1>1, FilesInvHolds, PTL

-----------------------------------------------------------------------------
(* The refinement *)

Disk == Selected.ver

LEMMA InitStore == Init => Store!Init
<1> SUFFICES ASSUME Init PROVE Store!Init
  OBVIOUS
<1>1. FilesInv              BY InitFilesInv
<1>2. Disk \in 0..MaxVersions
  BY <1>1 DEF FilesInv, TypeOK, Disk, Selected, BackupWins
<1> QED BY <1>2 DEF Init, Store!Init, InSave, Disk

\* Every step that damages nothing is a step of the store, or none.
LEMMA StepStore ==
  FilesInv /\ FilesInv' /\ [Next]_vars =>
    [damaged' \/ Store!Next]_(Store!storeVars)
<1> SUFFICES ASSUME FilesInv, FilesInv', [Next]_vars, ~damaged'
             PROVE  Store!Next \/ UNCHANGED Store!storeVars
  OBVIOUS
<1> USE DEF InSave, Store!storeVars
<1>0. CASE UNCHANGED vars
  BY <1>0 DEF vars, Selected, BackupWins
<1>1. CASE Step /\ UNCHANGED damaged
  <2>0. TypeOK /\ TypeOK' /\ BackupLeads /\ BackupLeads'
    BY <1>1 DEF FilesInv
  <2> USE DEF TypeOK, BackupLeads, Selected, BackupWins
  <2>1. CASE Change
    BY <2>0, <2>1 DEF Change, Store!Next, Store!Change
  <2>2. CASE SaveBackup
    BY <2>0, <2>2 DEF SaveBackup, Store!Next, Store!Flush
  <2>3. CASE SavePrimary
    BY <2>0, <2>3 DEF SavePrimary
  <2>4. CASE SaveMarker
    BY <2>0, <2>4 DEF SaveMarker, Store!Next, Store!Return
  <2>5. CASE SaveRaises
    <3> USE <2>0, <2>5 DEF SaveRaises
    <3>1. /\ at \in InSave /\ at' = "up" /\ healthy' = FALSE /\ mem' = mem
      OBVIOUS
    <3>2. Selected' = Selected \/ Selected' = mem
      <4>1. CASE at = "saveBackup" /\ UNCHANGED <<primary, backup>>
        BY <4>1
      <4>2. CASE at = "saveBackup" /\ backup' = mem /\ primary' = primary
        BY <4>2
      <4>3. CASE at # "saveBackup"
        <5>1. backup = mem /\ backup' = backup
          BY <4>3
        <5>2. primary' = mem \/ primary' = primary
          BY <4>3
        <5> QED BY <5>1, <5>2, <4>3
      <4> QED BY <4>1, <4>2, <4>3
    <3> HIDE <2>0, <2>5 DEF SaveRaises, Selected
    <3>3. Running /\ Running'
      BY <3>1
    <3>4. Selected'.ver \in {Selected.ver, mem.ver}
      BY <3>2
    <3>5. (at \in InSave)' = FALSE
      BY <3>1
    <3>6. (IF at \in {"up"} \cup InSave THEN healthy ELSE TRUE)' = FALSE
      BY <3>1
    <3> HIDE DEF Running, InSave
    <3>7. Store!Return
      BY <3>1, <3>3, <3>4, <3>5, <3>6 DEF Store!Return
    <3> QED BY <3>7 DEF Store!Next
  <2>6. CASE LoadFresh
    BY <2>0, <2>6 DEF LoadFresh, NothingThere
  <2>7. CASE LoadSelects
    BY <2>0, <2>7 DEF LoadSelects
  <2>8. CASE RepairBackup
    BY <2>0, <2>8 DEF RepairBackup
  <2>9. CASE RepairPrimary
    BY <2>0, <2>9 DEF RepairPrimary
  <2>10. CASE LoadRefuses
    BY <2>0, <2>10 DEF LoadRefuses
  <2>11. CASE Crash
    <3> USE <2>0, <2>11 DEF Crash
    <3>1. Running /\ ~Running' /\ at' = "down"
      OBVIOUS
    <3>2. Selected'.ver = Selected.ver
      <4>1. CASE UNCHANGED primary
        BY <4>1
      <4>2. CASE at = "repairPrimary" /\ primary' = mem
        <5>1. backup = mem /\ backup' = backup /\ mem = Selected
          BY <4>2
        <5>2. Selected' = mem
          BY <4>2, <5>1
        <5> QED BY <5>1, <5>2
      <4> QED BY <4>1, <4>2
    <3> HIDE <2>0, <2>11 DEF Crash, Selected
    <3>3. Store!Restart
      BY <3>1, <3>2 DEF Store!Restart
    <3> QED BY <3>3 DEF Store!Next
  <2>12. CASE StartAgain
    BY <2>0, <2>12 DEF StartAgain
  <2> QED BY <1>1, <2>1, <2>2, <2>3, <2>4, <2>5, <2>6, <2>7, <2>8, <2>9,
             <2>10, <2>11, <2>12 DEF Step
<1>2. CASE Damage
  BY <1>2 DEF Damage
<1> QED BY <1>0, <1>1, <1>2 DEF Next

\* Until one is damaged, the files are one value that a save replaces or, if
\* it fails, may replace.
THEOREM FilesImplementStore == Spec => ImplementsStore
<1>1. Init => Store!Init  BY InitStore
<1>2. FilesInv /\ FilesInv' /\ [Next]_vars =>
        [damaged' \/ Store!Next]_(Store!storeVars)
  BY StepStore
<1> QED BY <1>1, <1>2, FilesInvHolds, PTL DEF Spec, ImplementsStore
=============================================================================
