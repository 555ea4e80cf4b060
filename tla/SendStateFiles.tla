--------------------------- MODULE SendStateFiles ---------------------------
(***************************************************************************)
(* The two files and the marker in which TextSender keeps its delivery     *)
(* ledger (_save_state, _load_state, atomic_write_json in                  *)
(* chat-api/chat_api.py): saves that fail or are cut short by a crash,     *)
(* files damaged from outside, and a start that repairs them or refuses.   *)
(*                                                                         *)
(* The content of a ledger is the number of the change that produced it;   *)
(* which requests it holds is the subject of ChatSender.                   *)
(***************************************************************************)
EXTENDS Naturals

CONSTANT MaxVersions   \* bound on the changes made to the ledger
ASSUME FileConstants == MaxVersions \in Nat \ {0}

Good(rev, ver) == [state |-> "good", rev |-> rev, ver |-> ver]
Missing        == [state |-> "missing", rev |-> 0, ver |-> 0]
Corrupt        == [state |-> "corrupt", rev |-> 0, ver |-> 0]

VARIABLES
    mem,              \* the ledger in memory, a Good record
    primary, backup,  \* send-state.json and its backup
    marker,           \* the "initialized" marker exists
    at,               \* where the process is: see Next
    healthy,          \* _state_load_health
    made,             \* the number of the latest change
    acked,            \* history: latest change whose save returned
    damaged           \* history: a file was damaged from outside

vars == <<mem, primary, backup, marker, at, healthy, made, acked, damaged>>

\* Nothing yet, or the files of a release without revisions, which wrote the
\* primary first and may have died before the backup.
Init ==
    /\ \/ primary = Missing /\ backup = Missing /\ marker = FALSE /\ made = 0
       \/ primary = Good(0, 1) /\ backup \in {Good(0, 0), Good(0, 1)}
          /\ marker \in BOOLEAN /\ made = 1
    /\ mem = Good(0, 0) /\ at = "down" /\ healthy = TRUE
    /\ acked = IF backup = Good(0, 1) THEN 1 ELSE 0
    /\ damaged = FALSE

Readable(copy) == copy.state = "good"

-----------------------------------------------------------------------------
(* _save_state: backup, primary, marker *)

\* Faulty variant: the revision is not advanced.
ChangeSameRevision ==
    /\ at = "up" /\ made < MaxVersions
    /\ made' = made + 1
    /\ mem' = Good(IF mem.rev = 0 THEN 1 ELSE mem.rev, made + 1)
    /\ at' = "saveBackup"
    /\ UNCHANGED <<primary, backup, marker, healthy, acked>>

\* An entry of the ledger is changed in memory and _save_state is called.
Change ==
    /\ at = "up" /\ made < MaxVersions
    /\ made' = made + 1
    /\ mem' = Good(mem.rev + 1, made + 1)
    /\ at' = "saveBackup"
    /\ UNCHANGED <<primary, backup, marker, healthy, acked>>

\* Faulty variant: the save returns with only the backup written.
SaveBackupOnly ==
    /\ at = "saveBackup"
    /\ backup' = mem
    /\ at' = "saveMarker"
    /\ UNCHANGED <<mem, primary, marker, healthy, made, acked>>

\* os.replace: the file is the old one or the new one, never part of each.
SaveBackup ==
    /\ at = "saveBackup"
    /\ backup' = mem
    /\ at' = "savePrimary"
    /\ UNCHANGED <<mem, primary, marker, healthy, made, acked>>

SavePrimary ==
    /\ at = "savePrimary"
    /\ primary' = mem
    /\ at' = "saveMarker"
    /\ UNCHANGED <<mem, backup, marker, healthy, made, acked>>

SaveMarker ==
    /\ at = "saveMarker"
    /\ marker' = TRUE /\ healthy' = TRUE
    /\ acked' = mem.ver
    /\ at' = "up"
    /\ UNCHANGED <<mem, primary, backup, made>>

\* Faulty variant: a failed save is not noticed.
SaveRaisesQuietly ==
    /\ at \in {"saveBackup", "savePrimary", "saveMarker"}
    /\ at' = "up"
    /\ UNCHANGED <<mem, primary, backup, marker, healthy, made, acked>>

\* A write raises, before or after its os.replace, or the chmod of the marker
\* that was written; the caller sees it, memory keeps the change.
SaveRaises ==
    /\ at \in {"saveBackup", "savePrimary", "saveMarker"}
    /\ \/ UNCHANGED <<primary, backup, marker>>
       \/ at = "saveBackup" /\ backup' = mem /\ UNCHANGED <<primary, marker>>
       \/ at = "savePrimary" /\ primary' = mem /\ UNCHANGED <<backup, marker>>
       \/ at = "saveMarker" /\ marker' = TRUE /\ UNCHANGED <<primary, backup>>
    /\ healthy' = FALSE
    /\ at' = "up"
    /\ UNCHANGED <<mem, made, acked>>

-----------------------------------------------------------------------------
(* _load_state *)

\* Faulty variant: a start goes by the primary, whatever it holds.
PrimaryAlways == primary

\* The copy a start goes by: the only readable one, or the higher revision,
\* or the primary for copies without revisions.
BackupWins ==
    \/ ~Readable(primary)
    \/ Readable(backup) /\ backup.rev > primary.rev
Selected == IF BackupWins THEN backup ELSE primary

Ambiguous ==
    /\ Readable(primary) /\ Readable(backup) /\ primary # backup
    /\ primary.rev = backup.rev /\ primary.rev # 0

NothingThere == primary = Missing /\ backup = Missing /\ ~marker

CanLoad == (Readable(primary) \/ Readable(backup)) /\ ~Ambiguous

LoadFresh ==
    /\ at = "down" /\ NothingThere
    /\ mem' = Good(0, 0) /\ healthy' = TRUE
    /\ at' = "up"
    /\ UNCHANGED <<primary, backup, marker, made, acked>>

LoadSelects ==
    /\ at = "down" /\ CanLoad
    /\ mem' = Selected
    /\ at' = "repairBackup"
    /\ UNCHANGED <<primary, backup, marker, healthy, made, acked>>

\* Copies that differ from the selected one are rewritten, backup first.
RepairBackup ==
    /\ at = "repairBackup"
    /\ backup' = mem
    /\ at' = "repairPrimary"
    /\ UNCHANGED <<mem, primary, marker, healthy, made, acked>>

RepairPrimary ==
    /\ at = "repairPrimary"
    /\ primary' = mem /\ marker' = TRUE /\ healthy' = TRUE
    /\ at' = "up"
    /\ UNCHANGED <<mem, backup, made, acked>>

\* Faulty variant: an unreadable ledger is replaced by an empty one.
LoadStartsOver ==
    /\ at = "down" /\ ~CanLoad /\ ~NothingThere
    /\ mem' = Good(0, 0)
    /\ at' = "repairBackup"
    /\ UNCHANGED <<primary, backup, marker, healthy, made, acked>>

\* Neither copy can be read, or they contradict each other: no start, and
\* nothing is written.
LoadRefuses ==
    /\ at = "down" /\ ~CanLoad /\ ~NothingThere
    /\ at' = "refused"
    /\ UNCHANGED <<mem, primary, backup, marker, healthy, made, acked>>

\* The service manager starts it again.
StartAgain ==
    /\ at = "refused"
    /\ at' = "down"
    /\ UNCHANGED <<mem, primary, backup, marker, healthy, made, acked>>

-----------------------------------------------------------------------------
(* Crashes and damage *)

Running == at \notin {"down", "refused"}

\* The process dies, or a repair raises and ends it, and is started again. A
\* save may have come as far as the marker without having returned, and a
\* repair as far as the primary without having set the marker.
Crash ==
    /\ Running
    /\ at' = "down"
    /\ \/ UNCHANGED <<primary, marker>>
       \/ at = "saveMarker" /\ marker' = TRUE /\ UNCHANGED primary
       \/ at = "repairPrimary" /\ primary' = mem /\ UNCHANGED marker
    /\ UNCHANGED <<mem, backup, healthy, made, acked>>

\* A data file is truncated or deleted while the service runs or is down. As
\* long as there is no marker, nothing tells a deleted ledger from none: the
\* marker is what the promises about damage begin with.
Damage ==
    /\ marker
    /\ \/ Readable(primary) /\ primary' \in {Missing, Corrupt}
          /\ UNCHANGED backup
       \/ Readable(backup) /\ backup' \in {Missing, Corrupt}
          /\ UNCHANGED primary
    /\ damaged' = TRUE
    /\ UNCHANGED <<mem, marker, at, healthy, made, acked>>

\* What the service and its manager do.
Step ==
    \/ Change \/ SaveBackup \/ SavePrimary \/ SaveMarker \/ SaveRaises
    \/ LoadFresh \/ LoadSelects \/ RepairBackup \/ RepairPrimary \/ LoadRefuses
    \/ Crash \/ StartAgain

Next == (Step /\ UNCHANGED damaged) \/ Damage

Spec == Init /\ [][Next]_vars

-----------------------------------------------------------------------------
(* Properties *)

Copies == [state : {"good", "missing", "corrupt"},
           rev : 0..MaxVersions, ver : 0..MaxVersions]

TypeOK ==
    /\ mem \in Copies /\ Readable(mem)
    /\ primary \in Copies /\ backup \in Copies
    /\ marker \in BOOLEAN /\ healthy \in BOOLEAN /\ damaged \in BOOLEAN
    /\ at \in {"down", "refused", "up", "saveBackup", "savePrimary",
               "saveMarker", "repairBackup", "repairPrimary"}
    /\ made \in 0..MaxVersions /\ acked \in 0..MaxVersions

\* A running sender knows every change whose save returned, whichever file
\* was damaged and wherever the process died: a request it pressed Return for
\* is in its ledger. If that cannot be had, it does not start.
NothingAckedIsForgotten == Running => mem.ver >= acked

\* Crashes and failed saves alone never leave two copies that contradict each
\* other, which would keep the service down until someone edits the files.
NeverRefusesUndamaged == at = "refused" => damaged

\* While the sender reports itself healthy and no save is under way, either
\* file alone is enough: what can be read of the two is the ledger in memory.
EitherFileSuffices ==
    at = "up" /\ healthy =>
        \A copy \in {primary, backup} : Readable(copy) => copy = mem

-----------------------------------------------------------------------------
(* The inductive invariant *)

Bounded(copy) == copy.rev <= made /\ copy.ver <= made
Intact(copy)  == copy = Missing \/ Readable(copy)

\* Whatever a start may go by has the changes whose save returned, and a start
\* from nothing means that there are none.
AckedIsEverywhere ==
    /\ Bounded(mem) /\ Bounded(primary) /\ Bounded(backup)
    /\ Running => mem.ver >= acked
    /\ \A copy \in {primary, backup} : Readable(copy) => copy.ver >= acked
    /\ ~marker /\ acked > 0 => Readable(primary)
    /\ ~marker => ~damaged
    /\ at = "up" /\ healthy =>
          \A copy \in {primary, backup} : Readable(copy) => copy = mem
    /\ at = "saveMarker" =>
          \A copy \in {primary, backup} : Readable(copy) => copy = mem
    /\ at \in {"savePrimary", "repairPrimary"} =>
          (Readable(backup) => backup = mem)

\* Undamaged, the primary is a copy of the backup or older, and both are
\* copies of the ledger in memory or older.
Older(copy, than) ==
    \/ copy = than
    \/ copy.rev < than.rev
    \/ copy = Good(0, 0) /\ than = Good(0, 1)

BackupLeads ==
    /\ Intact(primary) /\ Intact(backup)
    /\ Readable(primary) => Readable(backup)
    /\ Readable(primary) => \/ primary.rev < backup.rev
                            \/ Older(backup, primary) /\ backup.rev = primary.rev
    /\ marker => Readable(backup)
    /\ at # "refused"
    /\ Running => \A copy \in {primary, backup} :
                      Readable(copy) => Older(copy, mem)
    /\ at = "saveBackup" => \A copy \in {primary, backup} :
                               Readable(copy) => copy.rev < mem.rev
    /\ at \in {"savePrimary", "saveMarker", "repairPrimary"} => backup = mem
    /\ at = "savePrimary" => (Readable(primary) => primary.rev < mem.rev)
    /\ at = "saveMarker" => primary = mem
    /\ at \in {"repairBackup", "repairPrimary"} => mem = Selected

FilesInv == TypeOK /\ AckedIsEverywhere /\ (~damaged => BackupLeads)

-----------------------------------------------------------------------------
(* LedgerStore, with the value a start would load as the one on disk *)

InSave == {"saveBackup", "savePrimary", "saveMarker"}

Store == INSTANCE LedgerStore WITH
    Versions <- 0..MaxVersions,
    mem    <- IF Running THEN mem.ver ELSE Selected.ver,
    disk   <- Selected.ver,
    saving <- at \in InSave,
    ok     <- IF at \in {"up"} \cup InSave THEN healthy ELSE TRUE

\* Until one is damaged, the two files behave step by step as one file that a
\* save replaces or, if it fails, may replace: what ChatSender's SaveSucceeds
\* and SaveFails say.
ImplementsStore ==
    Store!Init /\ [][damaged' \/ Store!Next]_(Store!storeVars)
=============================================================================
