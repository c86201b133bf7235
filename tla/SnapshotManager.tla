--------------------------- MODULE SnapshotManager ---------------------------
(***************************************************************************)
(* libsnapshot's SnapshotManager (fs_mgr/libsnapshot/snapshot.cpp): the    *)
(* life of one Virtual A/B update from the source slot to the target slot, *)
(* through crashes and failed calls.  The persistent state is the files of *)
(* /metadata/ota, the COW images and the partitions in super; everything   *)
(* else is lost when the device goes down.  Every operation runs under the *)
(* exclusive flock on /metadata/ota, so one operation is in progress at a  *)
(* time; it is cut into the steps between which a crash tells a            *)
(* difference.                                                             *)
(***************************************************************************)
EXTENDS Naturals, FiniteSets

CONSTANTS
  Partitions,     \* the dynamic partitions of the update, all with snapshots
  Shrunk,         \* those the update makes smaller
  Drivers,        \* the snapshot drivers to consider
  MaxCrashes,     \* bound: crashes, and boots into recovery
  MaxFaults,      \* bound: calls to storage, kernel, daemon or HAL that fail
  MaxAcks         \* bound: callers between a failed check and its record

ASSUME PartitionsAssumption == Partitions # {} /\ Shrunk \subseteq Partitions
ASSUME DriversAssumption ==
  Drivers \subseteq {"dm-snapshot", "dm-snapshot-compressed", "userspace"}
ASSUME BoundsAssumption == MaxCrashes \in Nat /\ MaxFaults \in Nat /\ MaxAcks \in Nat

VARIABLES
  driver,         \* the driver this update uses
  state,          \* SnapshotUpdateStatus.state
  phase,          \* SnapshotUpdateStatus.merge_phase
  status,         \* SnapshotStatus.state of each partition, or "absent"
  boot_ind,       \* the boot indicator, which names the source slot
  rollback_ind,   \* the rollback indicator
  forward_ind,    \* allow-forward-merge
  base,           \* what super holds: the old, the new or partly merged data
  cow,            \* the COW of each partition: "absent", "empty" or "full"
  active,         \* the slot the bootloader tries
  successful,     \* the active slot is marked successful
  hal,            \* the merge status the boot control HAL reports
  slot,           \* the slot that is running, or "off"
  recovery,       \* it is recovery that is running
  dm,             \* the device of each target partition
  op,             \* the operation that holds the lock
  begin,          \* where a BeginUpdate in progress stands
  acks,           \* callers about to record a failed merge
  reset,          \* where a data wipe or a merge in recovery stands
  result,         \* what ProcessUpdateState returned in recovery
  waiting,        \* history: the update was written, then neither cancelled nor booted into
  aborted,        \* history: a CHECK failed
  crashes, faults

meta == <<state, phase, status, boot_ind, rollback_ind, forward_ind>>
disk == <<base, cow>>
boot == <<active, successful, hal>>
power == <<slot, recovery>>
client == <<begin, acks, reset, result>>
history == <<waiting, aborted>>
vars == <<driver, meta, disk, boot, power, dm, op, client, history, crashes, faults>>

UpdateStates == {"None", "Initiated", "Unverified", "Merging", "MergeNeedsReboot",
                 "MergeCompleted", "MergeFailed"}

Phases == {"NO_MERGE", "FIRST_PHASE", "SECOND_PHASE"}

(***************************************************************************)
(* op: where the operation stands (pc), the partitions still to visit      *)
(* (todo), those to remember (cur: the one in hand, the ones created, the  *)
(* mapped ones that could not be removed), the answers so far (seen),      *)
(* whether all went well (ok), who asked (why) and the status to write.    *)
(***************************************************************************)
Idle == [pc |-> "idle", todo |-> {}, cur |-> {}, seen |-> {}, ok |-> TRUE,
         why |-> "none", to |-> "None", phase |-> "NO_MERGE"]

IsIdle == op = Idle /\ slot # "off"

TypeOK ==
  /\ driver \in Drivers
  /\ state \in UpdateStates
  /\ phase \in Phases
  /\ status \in [Partitions -> {"absent", "CREATED", "MERGING", "MERGE_COMPLETED"}]
  /\ <<boot_ind, rollback_ind, forward_ind>> \in BOOLEAN \X BOOLEAN \X BOOLEAN
  /\ base \in [Partitions -> {"old", "mixed", "new"}]
  /\ cow \in [Partitions -> {"absent", "empty", "full"}]
  /\ active \in {"source", "target"}
  /\ successful \in BOOLEAN
  /\ hal \in {"NONE", "SNAPSHOTTED", "MERGING"}
  /\ slot \in {"off", "source", "target"}
  /\ recovery \in BOOLEAN
  /\ dm \in [Partitions -> {"none", "linear", "snapshot", "merging", "failed"}]
  /\ op.todo \subseteq Partitions /\ op.cur \subseteq Partitions
  /\ op.to \in UpdateStates /\ op.phase \in Phases
  /\ begin \in {"no", "cancelling", "polling", "ready"}
  /\ acks \in 0..MaxAcks
  /\ reset \in {"no", "wipe", "finish", "zapping", "zapped", "over"}
  /\ result \in UpdateStates \cup {"Cancelled", "none"}
  /\ <<waiting, aborted>> \in BOOLEAN \X BOOLEAN
  /\ crashes \in 0..MaxCrashes
  /\ faults \in 0..MaxFaults

Init ==
  /\ driver \in Drivers
  /\ state = "None" /\ phase = "NO_MERGE"
  /\ status = [p \in Partitions |-> "absent"]
  /\ boot_ind = FALSE /\ rollback_ind = FALSE /\ forward_ind = FALSE
  /\ base = [p \in Partitions |-> "old"]
  /\ cow = [p \in Partitions |-> "absent"]
  /\ active = "source" /\ successful = TRUE /\ hal = "NONE"
  /\ slot = "source" /\ recovery = FALSE
  /\ dm = [p \in Partitions |-> "none"]
  /\ op = Idle
  /\ begin = "no" /\ acks = 0 /\ reset = "no" /\ result = "none"
  /\ waiting = FALSE /\ aborted = FALSE
  /\ crashes = 0 /\ faults = 0

-----------------------------------------------------------------------------
(* Small definitions of the code. *)

\* GetCurrentSlot()
CurrentSlot ==
  IF ~boot_ind THEN "Unknown" ELSE IF slot = "source" THEN "Source" ELSE "Target"

\* ListSnapshots()
Snapshots == {p \in Partitions : status[p] # "absent"}

\* The snapshots whose name has the suffix of the running slot.
SnapshotsOfThisSlot == IF slot = "target" THEN Snapshots ELSE {}

\* A snapshot that must be mapped for its partition to be read.
Live(p) == status[p] \in {"CREATED", "MERGING"}

UpdateUsesUserSnapshots == driver = "userspace"

\* DecideMergePhase(); a snapshot of snapuserd whose partition shrank.
DecideMergePhase(p) ==
  IF driver # "dm-snapshot" /\ p \in Shrunk THEN "FIRST_PHASE" ELSE "SECOND_PHASE"

\* IsSnapshotDevice()
IsSnapshotDevice(p) == dm[p] \in {"snapshot", "merging", "failed"}

\* IsImageMapped()
IsImageMapped(p) == IsSnapshotDevice(p)

\* The merge is over, as dm-snapshot, the daemon, or its COW header after a boot, reports.
MergeDone(p) ==
  /\ base[p] = "new"
  /\ dm[p] = "merging" \/ (UpdateUsesUserSnapshots /\ dm[p] = "snapshot")

Fault == faults < MaxFaults /\ faults' = faults + 1

NoFault == UNCHANGED faults

-----------------------------------------------------------------------------
(* The end of an operation. *)

(***************************************************************************)
(* CheckMergeState() returns r to ProcessUpdateState(), which records a    *)
(* failure without the lock and polls again while r is Merging.            *)
(***************************************************************************)
Return(r) ==
  /\ op' = Idle
  /\ acks' = IF r = "MergeFailed" THEN acks + 1 ELSE acks
  /\ begin' = IF begin = "polling" /\ r # "Merging" THEN "ready" ELSE begin
  /\ result' = IF recovery /\ r # "Merging" THEN r ELSE "none"
  /\ UNCHANGED reset

(***************************************************************************)
(* RemoveAllUpdateState() is over, well or not, for each of its callers.   *)
(***************************************************************************)
Removed(ok) ==
  CASE op.why = "begin" ->
         /\ op' = Idle
         /\ begin' = IF ok THEN "ready" ELSE "no"
         /\ UNCHANGED <<acks, reset, result>>
    [] op.why = "cancel" -> op' = Idle /\ UNCHANGED client
    [] op.why = "success" -> Return("MergeCompleted")
    [] op.why = "again" -> Return("Cancelled")
    [] op.why = "cancelled" /\ ok /\ ~recovery ->
         \* CheckMergeState removes a second time what HandleCancelledUpdate removed
         /\ op' = [Idle EXCEPT !.pc = "remove", !.todo = Snapshots, !.why = "again"]
         /\ UNCHANGED client
    [] op.why = "cancelled" /\ ok /\ recovery -> Return("Cancelled")
    [] OTHER -> Return("Unverified")

-----------------------------------------------------------------------------
(* WriteUpdateState() and WriteSnapshotUpdateStatus(). *)

\* Mutant: a state is left to the default of the switch.
MergeStatusUnknown(s) == IF s = "MergeNeedsReboot" THEN "UNKNOWN" ELSE "NONE"

MergeStatus(s) ==
  CASE s = "Unverified" -> "SNAPSHOTTED"
    [] s \in {"Merging", "MergeFailed"} -> "MERGING"
    [] OTHER -> "NONE"

\* Mutant: the HAL always hears of the state after the file is written.
SetAfterWrite(s) == s = "Unverified"

SetBeforeWrite(s) == MergeStatus(s) # "NONE"

\* The operation goes on to write state s; why says what follows.
StartWrite(s, ph, why) ==
  [op EXCEPT !.pc = IF SetBeforeWrite(s) THEN "write_hal" ELSE "write_file",
             !.to = s, !.phase = ph, !.why = why]

\* WriteUpdateState(): the merge phase is kept except when an update begins or ends.
WriteUpdateState(s, why) ==
  StartWrite(s, IF s \in {"Initiated", "None"} THEN "NO_MERGE" ELSE phase, why)

\* What each caller does with the outcome of its write.
Written(ok) ==
  CASE op.why \in {"initiate", "second"} /\ ok ->
         /\ op' = [op EXCEPT !.pc = "switch",
                             !.todo = {p \in Snapshots : DecideMergePhase(p) = op.phase}]
         /\ UNCHANGED client
    [] op.why = "initiate" /\ ~ok ->
         /\ op' = Idle
         /\ result' = IF recovery THEN "MergeFailed" ELSE "none"
         /\ UNCHANGED <<begin, acks, reset>>
    [] op.why = "second" /\ ~ok -> Return("MergeFailed")
    [] op.why = "needs_reboot" -> Return("MergeNeedsReboot")
    [] op.why = "completed" -> Return("MergeCompleted")
    [] op.why = "zap" ->
         /\ op' = Idle /\ reset' = "zapped" /\ UNCHANGED <<begin, acks, result>>
    [] op.why = "create" ->
         /\ op' = IF ok THEN Idle ELSE [Idle EXCEPT !.pc = "undo", !.todo = op.cur]
         /\ UNCHANGED client
    [] op.why = "update" -> op' = Idle /\ UNCHANGED client
    [] OTHER -> Removed(ok)

WriteHal ==
  /\ op.pc = "write_hal"
  /\ \/ /\ hal' = MergeStatus(op.to)
        /\ NoFault
        /\ IF SetBeforeWrite(op.to)
           THEN op' = [op EXCEPT !.pc = "write_file"] /\ UNCHANGED client
           ELSE Written(TRUE)
     \/ Fault /\ Written(FALSE) /\ UNCHANGED hal
  /\ UNCHANGED <<driver, meta, disk, active, successful, power, dm, history, crashes>>

WriteFile ==
  /\ op.pc = "write_file"
  /\ \/ /\ state' = op.to /\ phase' = op.phase
        /\ NoFault
        /\ IF SetBeforeWrite(op.to)
           THEN Written(TRUE)
           ELSE op' = [op EXCEPT !.pc = "write_hal"] /\ UNCHANGED client
     \/ Fault /\ Written(FALSE) /\ UNCHANGED <<state, phase>>
  /\ waiting' = (waiting \/ (state' = "Unverified" /\ state # "Unverified"))
  /\ UNCHANGED <<driver, status, boot_ind, rollback_ind, forward_ind, disk, boot, power, dm,
                 aborted, crashes>>

-----------------------------------------------------------------------------
(* RemoveAllUpdateState(), RemoveAllSnapshots() and DeleteSnapshot(). *)

StartRemove(why) ==
  op' = [Idle EXCEPT !.pc = "remove", !.todo = Snapshots, !.why = why]

(***************************************************************************)
(* One step of DeleteSnapshot(p): the COW image goes before the status     *)
(* file.  Recovery deletes neither.                                        *)
(***************************************************************************)
DeleteSnapshotStep(p, next) ==
  IF recovery
  THEN op' = next /\ UNCHANGED <<cow, status>>
  ELSE IF cow[p] # "absent"
  THEN cow' = [cow EXCEPT ![p] = "absent"] /\ UNCHANGED <<op, status>>
  ELSE status' = [status EXCEPT ![p] = "absent"] /\ op' = next /\ UNCHANGED cow

\* Off the target slot everything is unmapped first; on it, what is mapped stays.
RemoveSnapshot(p) ==
  LET next == [op EXCEPT !.todo = @ \ {p}] IN
  /\ op.pc = "remove" /\ p \in op.todo
  /\ \/ /\ CurrentSlot = "Target" /\ IsSnapshotDevice(p)
        /\ op' = next /\ NoFault
        /\ UNCHANGED <<dm, cow, status>>
     \/ /\ CurrentSlot # "Target" \/ ~IsSnapshotDevice(p)
        /\ dm' = IF CurrentSlot # "Target" THEN [dm EXCEPT ![p] = "none"] ELSE dm
        /\ DeleteSnapshotStep(p, next) /\ NoFault
     \/ /\ Fault
        /\ op' = [next EXCEPT !.ok = FALSE, !.cur = IF IsImageMapped(p) THEN @ \cup {p} ELSE @]
        /\ UNCHANGED <<dm, cow, status>>
  /\ UNCHANGED <<driver, state, phase, boot_ind, rollback_ind, forward_ind, base, boot, power,
                 client, history, crashes>>

\* Mutant: images in use are removed too.
RemoveMappedImages == [p \in Partitions |-> "absent"]

\* ImageManager::RemoveAllImages(): it refuses mapped images, and all in recovery.
AfterRemoveAllImages ==
  IF recovery THEN cow ELSE [p \in Partitions |-> IF IsImageMapped(p) THEN cow[p] ELSE "absent"]

\* The precaution is left out when a partition that failed was still mapped then.
RemoveImages ==
  LET skip == ~op.ok /\ op.cur # {}
      gone == \A p \in Partitions : cow'[p] = "absent" IN
  /\ op.pc = "remove" /\ op.todo = {}
  /\ cow' = IF skip THEN cow ELSE AfterRemoveAllImages
  /\ IF op.ok /\ gone
     THEN op' = [op EXCEPT !.pc = "unlink_boot"] /\ UNCHANGED client
     ELSE Removed(FALSE)
  /\ UNCHANGED <<driver, meta, base, boot, power, dm, history, crashes, faults>>

\* The indicator files go one by one; a failure is ignored.
Unlink ==
  \/ /\ op.pc = "unlink_boot"
     /\ op' = [op EXCEPT !.pc = "unlink_rollback"]
     /\ \/ boot_ind' = FALSE /\ NoFault
        \/ Fault /\ UNCHANGED boot_ind
     /\ UNCHANGED <<rollback_ind, forward_ind>>
  \/ /\ op.pc = "unlink_rollback"
     /\ op' = [op EXCEPT !.pc = "unlink_forward"]
     /\ \/ rollback_ind' = FALSE /\ NoFault
        \/ Fault /\ UNCHANGED rollback_ind
     /\ UNCHANGED <<boot_ind, forward_ind>>
  \/ /\ op.pc = "unlink_forward"
     /\ op' = WriteUpdateState("None", op.why)
     /\ \/ forward_ind' = FALSE /\ NoFault
        \/ Fault /\ UNCHANGED forward_ind
     /\ UNCHANGED <<boot_ind, rollback_ind>>

UnlinkIndicator ==
  /\ Unlink
  /\ UNCHANGED <<driver, state, phase, status, disk, boot, power, dm, client, history, crashes>>

-----------------------------------------------------------------------------
(* BeginUpdate(), CancelUpdate() and TryCancelUpdate(). *)

(***************************************************************************)
(* TryCancelUpdate(): an update that was not booted into is removed; one   *)
(* that was must be merged.  Without an update, stale snapshots of the     *)
(* running slot are removed.                                               *)
(***************************************************************************)
TryCancelUpdate(why) ==
  LET needs_merge == /\ state \notin {"None", "Initiated"}
                     /\ state = "Unverified" => CurrentSlot = "Target" IN
  CASE needs_merge ->
         /\ begin' = IF why = "begin" THEN "polling" ELSE begin
         /\ UNCHANGED <<op, acks, reset, result>>
    [] state = "None" ->
         /\ op' = [Idle EXCEPT !.pc = "stale", !.why = why,
                     !.todo = {p \in SnapshotsOfThisSlot : dm[p] = "linear"}]
         /\ begin' = IF why = "begin" THEN "cancelling" ELSE begin
         /\ UNCHANGED <<acks, reset, result>>
    [] OTHER ->
         /\ StartRemove(why)
         /\ begin' = IF why = "begin" THEN "cancelling" ELSE begin
         /\ UNCHANGED <<acks, reset, result>>

BeginUpdate ==
  /\ IsIdle /\ ~recovery /\ begin = "no" /\ active = slot
  /\ TryCancelUpdate("begin")
  /\ waiting' = FALSE
  /\ UNCHANGED <<driver, meta, disk, boot, power, dm, aborted, crashes, faults>>

CancelUpdate ==
  /\ IsIdle /\ ~recovery /\ begin = "no" /\ active = slot
  /\ TryCancelUpdate("cancel")
  /\ waiting' = FALSE
  /\ UNCHANGED <<driver, meta, disk, boot, power, dm, aborted, crashes, faults>>

\* RemoveInvalidSnapshots(); what fails is logged.
RemoveInvalidSnapshot ==
  /\ op.pc = "stale"
  /\ \/ \E p \in op.todo :
          LET next == [op EXCEPT !.todo = @ \ {p}] IN
          /\ \/ DeleteSnapshotStep(p, next) /\ NoFault
             \/ Fault /\ op' = next /\ UNCHANGED <<cow, status>>
          /\ UNCHANGED client
     \/ op.todo = {} /\ Removed(TRUE) /\ NoFault /\ UNCHANGED <<cow, status>>
  /\ UNCHANGED <<driver, state, phase, boot_ind, rollback_ind, forward_ind, base, boot, power, dm,
                 history, crashes>>

(***************************************************************************)
(* The second half of BeginUpdate: the images that are not in use go       *)
(* before the state is read.  Only the first update is followed: on the    *)
(* target slot, with no update in progress, the next one would begin.      *)
(***************************************************************************)
BeginUpdateLocked ==
  /\ IsIdle /\ ~recovery /\ begin = "ready"
  /\ cow' = AfterRemoveAllImages
  /\ begin' = "no"
  /\ op' = IF state = "None" /\ slot = "source" THEN WriteUpdateState("Initiated", "update") ELSE op
  /\ UNCHANGED <<driver, meta, base, boot, power, dm, acks, reset, result, history, crashes, faults>>

-----------------------------------------------------------------------------
(* CreateUpdateSnapshots() and the writing of the update. *)

CreateUpdateSnapshots ==
  /\ IsIdle /\ ~recovery /\ slot = "source" /\ begin = "no"
  /\ state = "Initiated"
  /\ op' = [Idle EXCEPT !.pc = "create", !.todo = Partitions]
  /\ UNCHANGED <<driver, meta, disk, boot, power, dm, client, history, crashes, faults>>

(***************************************************************************)
(* CreateUpdateSnapshotsInternal(): the old snapshot of each partition is  *)
(* deleted and a status file written; then the COWs are created.  When a   *)
(* call fails, the last write of the state included, the snapshots made so *)
(* far are deleted (AutoDeleteSnapshot).                                   *)
(***************************************************************************)
CreateSnapshot(p) ==
  /\ op.pc = "create" /\ p \in op.todo
  /\ dm' = [dm EXCEPT ![p] = "none"]
  /\ \/ /\ cow[p] = "absent" /\ status[p] = "absent"
        /\ status' = [status EXCEPT ![p] = "CREATED"]
        /\ op' = [op EXCEPT !.todo = @ \ {p}, !.cur = @ \cup {p}]
        /\ NoFault /\ UNCHANGED cow
     \/ /\ cow[p] # "absent" \/ status[p] # "absent"
        /\ DeleteSnapshotStep(p, op) /\ NoFault
     \/ /\ Fault
        /\ op' = [op EXCEPT !.pc = "undo", !.todo = op.cur]
        /\ UNCHANGED <<cow, status>>
  /\ UNCHANGED <<driver, state, phase, boot_ind, rollback_ind, forward_ind, base, boot, power,
                 client, history, crashes>>

CreateCowImages ==
  /\ op.pc = "create" /\ op.todo = {}
  /\ \/ /\ cow' = [p \in Partitions |-> "empty"]
        /\ op' = WriteUpdateState("Initiated", "create")
        /\ NoFault
     \/ /\ Fault
        /\ \E made \in SUBSET Partitions :
             cow' = [p \in Partitions |-> IF p \in made THEN "empty" ELSE "absent"]
        /\ op' = [op EXCEPT !.pc = "undo", !.todo = op.cur]
  /\ UNCHANGED <<driver, meta, base, boot, power, dm, client, history, crashes>>

UndoCreate ==
  /\ op.pc = "undo"
  /\ \/ \E p \in op.todo : DeleteSnapshotStep(p, [op EXCEPT !.todo = @ \ {p}])
     \/ op.todo = {} /\ op' = Idle /\ UNCHANGED <<cow, status>>
  /\ UNCHANGED <<driver, state, phase, boot_ind, rollback_ind, forward_ind, base, boot, power, dm,
                 client, history, crashes, faults>>

\* MapUpdateSnapshot() or OpenSnapshotWriter(), and the writing by update_engine.
WriteSnapshot(p) ==
  /\ IsIdle /\ ~recovery /\ slot = "source" /\ begin = "no"
  /\ state = "Initiated" /\ status[p] = "CREATED" /\ cow[p] # "absent"
  /\ dm[p] = "none" \/ cow[p] = "empty"
  /\ dm' = [dm EXCEPT ![p] = "snapshot"]
  /\ cow' = [cow EXCEPT ![p] = "full"]
  /\ UNCHANGED <<driver, meta, base, boot, power, op, client, history, crashes, faults>>

\* MapAllSnapshots(); nothing is mapped on the target slot.
MapAllSnapshots ==
  /\ IsIdle /\ ~recovery /\ slot = "source" /\ begin = "no"
  /\ state = "Initiated" \/ (state = "Unverified" /\ CurrentSlot # "Target")
  /\ \A p \in Snapshots : cow[p] = "full"
  /\ dm' = [p \in Partitions |-> IF p \in Snapshots THEN "snapshot" ELSE dm[p]]
  /\ UNCHANGED <<driver, meta, disk, boot, power, op, client, history, crashes, faults>>

UnmapAllSnapshots ==
  /\ IsIdle /\ ~recovery /\ slot = "source" /\ begin = "no"
  /\ dm' = [p \in Partitions |-> IF p \in Snapshots THEN "none" ELSE dm[p]]
  /\ UNCHANGED <<driver, meta, disk, boot, power, op, client, history, crashes, faults>>

(***************************************************************************)
(* FinishedSnapshotWrites(wipe), called when every COW is written; a       *)
(* kernel snapshot must be mapped for its overflow to be looked at.  The   *)
(* order: forward indicator, rollback indicator, boot indicator, state.    *)
(***************************************************************************)
FinishedSnapshotWrites(wipe) ==
  /\ IsIdle /\ ~recovery /\ slot = "source" /\ begin = "no"
  /\ state = "Initiated"
  /\ Snapshots = Partitions /\ \A p \in Partitions : cow[p] = "full"
  /\ driver = "dm-snapshot" => \A p \in Snapshots : dm[p] = "snapshot"
  /\ \/ forward_ind' = wipe /\ op' = [Idle EXCEPT !.pc = "finish_rollback"] /\ NoFault
     \/ Fault /\ op' = Idle /\ UNCHANGED forward_ind
  /\ UNCHANGED <<driver, state, phase, status, boot_ind, rollback_ind, disk, boot, power, dm, client,
                 history, crashes>>

\* Mutant: the rollback indicator of an earlier attempt stays.
KeepRollbackIndicator ==
  /\ op.pc = "finish_rollback"
  /\ op' = [op EXCEPT !.pc = "finish_boot"]
  /\ UNCHANGED <<driver, meta, disk, boot, power, dm, client, history, crashes, faults>>

RemoveRollbackIndicator ==
  /\ op.pc = "finish_rollback"
  /\ \/ rollback_ind' = FALSE /\ op' = [op EXCEPT !.pc = "finish_boot"] /\ NoFault
     \/ Fault /\ op' = Idle /\ UNCHANGED rollback_ind
  /\ UNCHANGED <<driver, state, phase, status, boot_ind, forward_ind, disk, boot, power, dm, client,
                 history, crashes>>

WriteBootIndicator ==
  /\ op.pc = "finish_boot"
  /\ \/ boot_ind' = TRUE /\ op' = WriteUpdateState("Unverified", "update") /\ NoFault
     \/ Fault /\ op' = Idle /\ UNCHANGED boot_ind
  /\ UNCHANGED <<driver, state, phase, status, rollback_ind, forward_ind, disk, boot, power, dm,
                 client, history, crashes>>

-----------------------------------------------------------------------------
(* The merge. *)

(***************************************************************************)
(* InitiateMerge(): only on the target slot, with every snapshot mapped.   *)
(* When a partition shrank the snapshots of the first phase are merged     *)
(* alone.  Writing Merging is the point of no return.                      *)
(***************************************************************************)
CanInitiateMerge ==
  /\ state = "Unverified"
  /\ CurrentSlot = "Target"
  /\ \A p \in SnapshotsOfThisSlot : dm[p] # "none"

FirstMergePhase ==
  IF \E p \in Snapshots : DecideMergePhase(p) = "FIRST_PHASE" THEN "FIRST_PHASE" ELSE "SECOND_PHASE"

InitiateMerge ==
  /\ IsIdle /\ ~recovery /\ successful
  /\ CanInitiateMerge
  /\ op' = StartWrite("Merging", FirstMergePhase, "initiate")
  /\ UNCHANGED <<driver, meta, disk, boot, power, dm, client, history, crashes, faults>>

(***************************************************************************)
(* SwitchSnapshotToMerge(p): the device, or the daemon, starts to merge;   *)
(* then the status file says so.  A failure to write it is ignored.        *)
(***************************************************************************)
SwitchSnapshotToMerge(p) ==
  /\ op.pc = "switch" /\ p \in op.todo
  /\ \/ /\ dm[p] \in (IF UpdateUsesUserSnapshots THEN {"snapshot", "merging"} ELSE {"snapshot"})
        /\ dm' = [dm EXCEPT ![p] = "merging"]
        /\ op' = [op EXCEPT !.pc = "mark", !.todo = @ \ {p}, !.cur = {p}]
        /\ NoFault
     \/ /\ \/ Fault
           \/ ~UpdateUsesUserSnapshots /\ dm[p] # "snapshot" /\ NoFault
        /\ op' = [op EXCEPT !.ok = FALSE, !.todo = @ \ {p}]
        /\ UNCHANGED dm
  /\ UNCHANGED <<driver, meta, disk, boot, power, client, history, crashes>>

MarkMerging(p) ==
  /\ op.pc = "mark" /\ p \in op.cur
  /\ op' = [op EXCEPT !.pc = "switch", !.cur = {}]
  /\ \/ status' = [status EXCEPT ![p] = "MERGING"] /\ NoFault
     \/ Fault /\ UNCHANGED status
  /\ UNCHANGED <<driver, state, phase, boot_ind, rollback_ind, forward_ind, disk, boot, power, dm,
                 client, history, crashes>>

\* The end of InitiateMerge() and of MergeSecondPhaseSnapshots().
AllSwitched ==
  /\ op.pc = "switch" /\ op.todo = {}
  /\ \/ op.why = "initiate" /\ op.ok /\ op' = Idle /\ UNCHANGED client
     \/ op.why = "initiate" /\ ~op.ok /\ op' = WriteUpdateState("MergeFailed", "update") /\ UNCHANGED client
     \/ op.why = "second" /\ Return(IF op.ok THEN "Merging" ELSE "MergeFailed")
  /\ UNCHANGED <<driver, meta, disk, boot, power, dm, history, crashes, faults>>

(***************************************************************************)
(* CheckMergeState(), one iteration of ProcessUpdateState(), by            *)
(* update_engine, by BeginUpdate or in recovery.  HandleCancelledUpdate    *)
(* recognises a rollback: the source slot booted although the update was   *)
(* ready.                                                                  *)
(***************************************************************************)
IsCancelledUpdate ==
  /\ CurrentSlot # "Unknown"
  /\ \/ Snapshots = {}
     \/ CurrentSlot = "Source" /\ rollback_ind

AcknowledgeMergeSuccess ==
  IF recovery
  THEN op' = WriteUpdateState("MergeCompleted", "completed") /\ UNCHANGED client
  ELSE StartRemove("success") /\ UNCHANGED client

CheckMergeState ==
  /\ IsIdle /\ acks < MaxAcks /\ begin # "ready"
  /\ recovery => reset \in {"wipe", "finish"} /\ result = "none"
  /\ \/ state \in {"None", "Initiated"} /\ Return(state) /\ NoFault
     \/ state = "MergeCompleted" /\ AcknowledgeMergeSuccess /\ NoFault
     \/ /\ state = "Unverified"
        /\ IF IsCancelledUpdate THEN StartRemove("cancelled") /\ UNCHANGED client ELSE Return(state)
        /\ NoFault
     \/ /\ state \in {"Merging", "MergeNeedsReboot", "MergeFailed"}
        /\ op' = [Idle EXCEPT !.pc = "poll", !.todo = SnapshotsOfThisSlot]
        /\ NoFault /\ UNCHANGED client
     \/ Fault /\ Return("MergeFailed")   \* the lock, or the list of snapshots
  /\ UNCHANGED <<driver, meta, disk, boot, power, dm, history, crashes>>

(***************************************************************************)
(* CheckTargetMergeState(p): its answer is added to those seen, unless p   *)
(* has been merged, which must be recorded first.  A merge that a reboot   *)
(* interrupted is resumed here when the daemon does it.  Reading the       *)
(* status, asking the driver, resuming and recording may each fail.        *)
(***************************************************************************)
PollAnswer(p) ==
  IF dm[p] = "merging"
  THEN IF status[p] = "MERGE_COMPLETED" THEN "MergeFailed" ELSE "Merging"
  ELSE IF dm[p] = "snapshot" /\ DecideMergePhase(p) = "SECOND_PHASE" /\ phase = "FIRST_PHASE"
       THEN "None" ELSE "MergeFailed"

\* Mutant: an interrupted merge is not resumed.
CheckWithoutResume(p) ==
  /\ op.pc = "poll" /\ p \in op.todo
  /\ \/ /\ MergeDone(p)
        /\ status' = [status EXCEPT ![p] = "MERGE_COMPLETED"]
        /\ op' = [op EXCEPT !.pc = "collapse", !.cur = {p}]
     \/ /\ ~MergeDone(p)
        /\ op' = [op EXCEPT !.todo = @ \ {p}, !.seen = @ \cup {PollAnswer(p)}]
        /\ UNCHANGED status
  /\ UNCHANGED <<driver, state, phase, boot_ind, rollback_ind, forward_ind, disk, boot, power, dm,
                 client, history, crashes, faults>>

CheckTargetMergeState(p) ==
  LET resumes == /\ UpdateUsesUserSnapshots /\ dm[p] = "snapshot" /\ status[p] = "MERGING"
                 /\ ~MergeDone(p)
      saw(r) == [op EXCEPT !.todo = @ \ {p}, !.seen = @ \cup {r}] IN
  /\ op.pc = "poll" /\ p \in op.todo
  /\ \/ /\ ~IsSnapshotDevice(p) /\ status[p] = "MERGE_COMPLETED"
        /\ op' = [op EXCEPT !.pc = "delete", !.cur = {p}, !.why = "recheck"]
        /\ NoFault /\ UNCHANGED <<dm, status>>
     \/ /\ resumes
        /\ dm' = [dm EXCEPT ![p] = "merging"]
        /\ op' = saw("Merging")
        /\ NoFault /\ UNCHANGED status
     \/ /\ MergeDone(p)
        /\ status' = [status EXCEPT ![p] = "MERGE_COMPLETED"]
        /\ op' = [op EXCEPT !.pc = "collapse", !.cur = {p}]
        /\ NoFault /\ UNCHANGED dm
     \/ /\ IsSnapshotDevice(p) \/ status[p] # "MERGE_COMPLETED"
        /\ ~resumes /\ ~MergeDone(p)
        /\ op' = saw(PollAnswer(p)) /\ NoFault /\ UNCHANGED <<dm, status>>
     \/ Fault /\ op' = saw("MergeFailed") /\ UNCHANGED <<dm, status>>
  /\ UNCHANGED <<driver, state, phase, boot_ind, rollback_ind, forward_ind, disk, boot, power,
                 client, history, crashes>>

\* OnSnapshotMergeComplete(p): CollapseSnapshotDevice(), then DeleteSnapshot().
CollapseSnapshotDevice(p) ==
  /\ op.pc = "collapse" /\ p \in op.cur
  /\ \/ /\ dm' = [dm EXCEPT ![p] = "linear"] /\ NoFault
        /\ op' = [op EXCEPT !.pc = "delete", !.why = "merged"]
     \/ /\ Fault /\ UNCHANGED dm
        /\ op' = [op EXCEPT !.pc = "poll", !.todo = @ \ {p}, !.cur = {},
                            !.seen = @ \cup {"MergeNeedsReboot"}]
  /\ UNCHANGED <<driver, meta, disk, boot, power, client, history, crashes>>

DeleteMergedSnapshot(p) ==
  LET saw(r) == [op EXCEPT !.pc = "poll", !.todo = @ \ {p}, !.cur = {}, !.why = "none",
                           !.seen = @ \cup {r}] IN
  /\ op.pc = "delete" /\ p \in op.cur
  /\ \/ DeleteSnapshotStep(p, saw("MergeCompleted")) /\ NoFault
     \/ /\ Fault /\ UNCHANGED <<cow, status>>
        /\ op' = saw(IF op.why = "recheck" THEN "MergeCompleted" ELSE "MergeNeedsReboot")
  /\ UNCHANGED <<driver, state, phase, boot_ind, rollback_ind, forward_ind, base, boot, power, dm,
                 client, history, crashes>>

\* Mutant: a cleanup that needs a reboot is handled before the second phase.
ConcludeRebootFirst ==
  /\ op.pc = "poll" /\ op.todo = {}
  /\ \/ "Merging" \in op.seen /\ Return("Merging") /\ UNCHANGED aborted
     \/ /\ "Merging" \notin op.seen /\ "MergeFailed" \in op.seen
        /\ Return("MergeFailed") /\ UNCHANGED aborted
     \/ /\ op.seen \cap {"Merging", "MergeFailed"} = {} /\ "MergeNeedsReboot" \in op.seen
        /\ op' = WriteUpdateState("MergeNeedsReboot", "needs_reboot")
        /\ UNCHANGED <<client, aborted>>
     \/ /\ op.seen \subseteq {"MergeCompleted", "None"} /\ "None" \in op.seen
        /\ aborted' = (aborted \/ state \notin {"Merging", "MergeFailed"})
        /\ op' = StartWrite("Merging", "SECOND_PHASE", "second")
        /\ UNCHANGED client
     \/ op.seen \subseteq {"MergeCompleted"} /\ AcknowledgeMergeSuccess /\ UNCHANGED aborted
  /\ UNCHANGED <<driver, meta, disk, boot, power, dm, waiting, crashes, faults>>

(***************************************************************************)
(* All snapshots have answered.  As long as something merges nothing else  *)
(* counts; then a failure; then the second phase (with the CHECKs of       *)
(* MergeSecondPhaseSnapshots); then a cleanup that needs a reboot.         *)
(***************************************************************************)
ConcludeMergeState ==
  /\ op.pc = "poll" /\ op.todo = {}
  /\ \/ "Merging" \in op.seen /\ Return("Merging") /\ UNCHANGED aborted
     \/ /\ "Merging" \notin op.seen /\ "MergeFailed" \in op.seen
        /\ Return("MergeFailed") /\ UNCHANGED aborted
     \/ /\ "Merging" \notin op.seen /\ "MergeFailed" \notin op.seen /\ "None" \in op.seen
        /\ LET check == state \in {"Merging", "MergeFailed"} /\ phase = "FIRST_PHASE"
           IN  aborted' = (aborted \/ ~check)
        /\ op' = StartWrite("Merging", "SECOND_PHASE", "second")
        /\ UNCHANGED client
     \/ /\ op.seen \subseteq {"MergeCompleted", "MergeNeedsReboot"}
        /\ IF "MergeNeedsReboot" \in op.seen
           THEN op' = WriteUpdateState("MergeNeedsReboot", "needs_reboot") /\ UNCHANGED client
           ELSE AcknowledgeMergeSuccess
        /\ UNCHANGED aborted
  /\ UNCHANGED <<driver, meta, disk, boot, power, dm, waiting, crashes, faults>>

(***************************************************************************)
(* AcknowledgeMergeFailure(), under a lock of its own: another caller may  *)
(* have changed the state since the check.                                 *)
(***************************************************************************)
AcknowledgeMergeFailure ==
  /\ IsIdle /\ acks > 0
  /\ acks' = acks - 1
  /\ op' = IF state \in {"Merging", "MergeNeedsReboot"}
           THEN WriteUpdateState("MergeFailed", "update") ELSE op
  /\ UNCHANGED <<driver, meta, disk, boot, power, dm, begin, reset, result, history, crashes, faults>>

-----------------------------------------------------------------------------
(* Booting. *)

(***************************************************************************)
(* NeedSnapshotsInFirstStageMount(): snapshots are mapped on the target    *)
(* slot in these states.                                                   *)
(***************************************************************************)
NeedSnapshots == boot_ind /\ state \in {"Unverified", "Merging", "MergeFailed"}

\* Mutant: the phase is not looked at.
MapTargetAnyPhase(p) ==
  IF ~Live(p) THEN "linear"
  ELSE IF ~UpdateUsesUserSnapshots /\ state \in {"Merging", "MergeFailed"} THEN "merging"
       ELSE "snapshot"

\* Mutant: a failed merge is not taken up at the next boot.
MapTargetAfterFailure(p) ==
  IF ~Live(p) THEN "linear"
  ELSE IF ~UpdateUsesUserSnapshots /\ state = "Merging" /\ DecideMergePhase(p) = phase
       THEN "merging" ELSE "snapshot"

(***************************************************************************)
(* MapPartitionWithSnapshot() with MapSnapshot()'s choice of the mode.     *)
(* When a merge is completed the code looks into the optional it has just  *)
(* reset; whatever it reads there, both branches leave the optional empty. *)
(***************************************************************************)
MapTarget(p) ==
  IF ~Live(p) THEN "linear"
  ELSE IF /\ ~UpdateUsesUserSnapshots
          /\ \/ state \in {"Merging", "MergeFailed"} /\ DecideMergePhase(p) = phase
             \/ status[p] = "MERGING"
       THEN "merging" ELSE "snapshot"

\* What dm-verity accepts: the whole of the system the slot belongs to.
SourceComplete == \A p \in Partitions : base[p] = "old"

TargetComplete ==
  \A p \in Partitions : IF NeedSnapshots /\ Live(p) THEN cow[p] = "full" ELSE base[p] = "new"

BootSource ==
  /\ slot = "off" /\ active = "source" /\ SourceComplete
  /\ slot' = "source"
  /\ dm' = [p \in Partitions |-> "none"]
  /\ \/ rollback_ind' = (rollback_ind \/ boot_ind) /\ NoFault
     \/ Fault /\ boot_ind /\ UNCHANGED rollback_ind
  /\ UNCHANGED <<driver, state, phase, status, boot_ind, forward_ind, disk, boot, recovery, op, client,
                 history, crashes>>

BootTarget ==
  /\ slot = "off" /\ active = "target" /\ TargetComplete
  /\ slot' = "target"
  /\ dm' = [p \in Partitions |-> IF NeedSnapshots THEN MapTarget(p) ELSE "linear"]
  /\ UNCHANGED <<driver, meta, disk, boot, recovery, op, client, history, crashes, faults>>

(***************************************************************************)
(* External: unless a merge is going on, the bootloader gives up a target  *)
(* slot that cannot be mounted (the rollback after N boots that            *)
(* ProcessUpdateStateOnDataWipe counts on), and one that was not marked    *)
(* successful when the new system does not work.                           *)
(***************************************************************************)
FallBack ==
  /\ slot = "off" /\ active = "target" /\ hal # "MERGING"
  /\ \/ ~TargetComplete /\ NoFault
     \/ TargetComplete /\ ~successful /\ hal = "SNAPSHOTTED" /\ Fault
  /\ active' = "source" /\ successful' = TRUE
  /\ UNCHANGED <<driver, meta, disk, hal, power, dm, op, client, history, crashes>>

(***************************************************************************)
(* External: update_engine makes the target slot active once the update is *)
(* written, and the running slot active again before it cancels one.  The  *)
(* target slot comes up and is marked successful.                          *)
(***************************************************************************)
SetActiveBootSlot ==
  /\ IsIdle /\ ~recovery /\ slot = "source" /\ begin = "no"
  /\ \/ state = "Unverified" /\ waiting /\ active' = "target" /\ successful' = FALSE
     \/ active' = "source" /\ successful' = TRUE
  /\ UNCHANGED <<driver, meta, disk, hal, power, dm, op, client, history, crashes, faults>>

MarkBootSuccessful ==
  /\ slot = "target" /\ ~recovery /\ ~successful
  /\ successful' = TRUE
  /\ UNCHANGED <<driver, meta, disk, active, hal, power, dm, op, client, history, crashes, faults>>

\* The kernel, or the daemon, copies the COW into the base device.
MergeProgress(p) ==
  /\ dm[p] = "merging" /\ base[p] # "new" /\ cow[p] = "full"
  /\ base' = [base EXCEPT ![p] = IF @ = "old" THEN "mixed" ELSE "new"]
  /\ UNCHANGED <<driver, meta, cow, boot, power, dm, op, client, history, crashes, faults>>

\* External: the daemon gives a merge up after an I/O error.
MergeFails(p) ==
  /\ UpdateUsesUserSnapshots /\ dm[p] = "merging" /\ base[p] # "new"
  /\ Fault
  /\ dm' = [dm EXCEPT ![p] = "failed"]
  /\ UNCHANGED <<driver, meta, disk, boot, power, op, client, history, crashes>>

GoDown ==
  /\ slot' = "off" /\ recovery' = FALSE
  /\ dm' = [p \in Partitions |-> "none"]
  /\ op' = Idle
  /\ begin' = "no" /\ acks' = 0 /\ reset' = "no" /\ result' = "none"
  /\ waiting' = FALSE
  /\ UNCHANGED <<driver, meta, disk, boot, aborted, faults>>

Crash ==
  /\ slot # "off" /\ crashes < MaxCrashes
  /\ crashes' = crashes + 1
  /\ GoDown

\* A reboot into the other slot, out of recovery, or because a merge is stuck without one.
Reboot ==
  /\ IsIdle
  /\ \/ /\ ~recovery
        /\ \/ active # slot
           \/ state = "MergeNeedsReboot"
           \/ state = "MergeFailed" /\ \A p \in Partitions : dm[p] # "merging"
     \/ recovery /\ reset \in {"no", "over"}
  /\ GoDown
  /\ UNCHANGED crashes

-----------------------------------------------------------------------------
(* Recovery. *)

BootRecovery ==
  /\ slot = "off" /\ crashes < MaxCrashes
  /\ crashes' = crashes + 1
  /\ slot' = active /\ recovery' = TRUE
  /\ UNCHANGED <<driver, meta, disk, boot, dm, op, client, history, faults>>

(***************************************************************************)
(* HandleImminentDataWipe() and FinishMergeInRecovery() map the partitions *)
(* of the slot, whatever the state says, and process the update state.     *)
(***************************************************************************)
CreateLogicalAndSnapshotPartitions(why) ==
  /\ IsIdle /\ recovery /\ reset = "no"
  /\ IF \A p \in SnapshotsOfThisSlot : Live(p) => cow[p] # "absent"
     THEN /\ reset' = why
          /\ dm' = [p \in Partitions |-> IF slot = "target" THEN MapTarget(p) ELSE "none"]
     ELSE reset' = "over" /\ UNCHANGED dm
  /\ UNCHANGED <<driver, meta, disk, boot, power, op, begin, acks, result, history, crashes, faults>>

(***************************************************************************)
(* ProcessUpdateStateOnDataWipe() and the rest of HandleImminentDataWipe:  *)
(* a failed merge forbids the wipe; an update that is not merged yet is    *)
(* merged when it asked for the wipe, or else given up with its slot; that *)
(* SetSlotAsUnbootable() may fail is ignored.                              *)
(***************************************************************************)
DataWipeProcessed ==
  LET forward == result = "Unverified" /\ CurrentSlot = "Target" /\ forward_ind IN
  /\ IsIdle /\ recovery /\ reset = "wipe" /\ result # "none" /\ acks = 0
  /\ \/ /\ result = "MergeFailed"
        /\ reset' = "over"
        /\ NoFault /\ UNCHANGED <<active, successful, op, dm, result>>
     \/ /\ forward /\ CanInitiateMerge
        /\ op' = StartWrite("Merging", FirstMergePhase, "initiate")
        /\ result' = "none"
        /\ NoFault /\ UNCHANGED <<active, successful, dm, reset>>
     \/ /\ result # "MergeFailed" /\ ~forward
        /\ \/ /\ result = "Unverified" /\ CurrentSlot = "Target"
              /\ active' = "source" /\ successful' = TRUE /\ NoFault
           \/ /\ result = "Unverified" /\ CurrentSlot = "Target"
              /\ Fault /\ UNCHANGED <<active, successful>>
           \/ /\ result # "Unverified" \/ CurrentSlot # "Target"
              /\ NoFault /\ UNCHANGED <<active, successful>>
        /\ dm' = [p \in Partitions |-> "none"]
        /\ IF result = "None"
           THEN reset' = "zapped" /\ UNCHANGED op
           ELSE reset' = "zapping" /\ op' = WriteUpdateState("None", "zap")
        /\ UNCHANGED result
  /\ UNCHANGED <<driver, meta, disk, hal, power, begin, acks, history, crashes>>

\* External: the wipe of /data takes the COW images with it.
WipeData ==
  /\ IsIdle /\ recovery /\ reset = "zapped"
  /\ cow' = [p \in Partitions |-> "absent"]
  /\ reset' = "over"
  /\ UNCHANGED <<driver, meta, base, boot, power, dm, op, begin, acks, result, history, crashes, faults>>

FinishMergeInRecovery ==
  /\ IsIdle /\ recovery /\ reset = "finish" /\ result # "none" /\ acks = 0
  /\ dm' = IF result = "MergeCompleted" THEN [p \in Partitions |-> "none"] ELSE dm
  /\ reset' = "over"
  /\ UNCHANGED <<driver, meta, disk, boot, power, op, begin, acks, result, history, crashes, faults>>

-----------------------------------------------------------------------------
Steps ==
  \/ WriteHal \/ WriteFile
  \/ \E p \in Partitions : RemoveSnapshot(p)
  \/ RemoveImages \/ UnlinkIndicator \/ RemoveInvalidSnapshot
  \/ BeginUpdateLocked
  \/ \E p \in Partitions : CreateSnapshot(p)
  \/ CreateCowImages \/ UndoCreate
  \/ RemoveRollbackIndicator \/ WriteBootIndicator
  \/ \E p \in Partitions : SwitchSnapshotToMerge(p)
  \/ \E p \in Partitions : MarkMerging(p)
  \/ AllSwitched
  \/ \E p \in Partitions : CheckTargetMergeState(p)
  \/ \E p \in Partitions : CollapseSnapshotDevice(p)
  \/ \E p \in Partitions : DeleteMergedSnapshot(p)
  \/ ConcludeMergeState
  \/ AcknowledgeMergeFailure
  \/ DataWipeProcessed \/ WipeData \/ FinishMergeInRecovery

BootUp == BootSource \/ BootTarget

Next ==
  \/ Steps
  \/ BeginUpdate \/ CancelUpdate
  \/ CreateUpdateSnapshots
  \/ \E p \in Partitions : WriteSnapshot(p)
  \/ MapAllSnapshots \/ UnmapAllSnapshots
  \/ \E wipe \in BOOLEAN : FinishedSnapshotWrites(wipe)
  \/ SetActiveBootSlot \/ MarkBootSuccessful
  \/ InitiateMerge
  \/ CheckMergeState
  \/ \E p \in Partitions : MergeProgress(p)
  \/ \E p \in Partitions : MergeFails(p)
  \/ Crash \/ Reboot
  \/ BootUp \/ FallBack
  \/ BootRecovery
  \/ \E why \in {"wipe", "finish"} : CreateLogicalAndSnapshotPartitions(why)

(***************************************************************************)
(* Fairness: an operation that holds the lock goes on; the device boots;   *)
(* update_engine polls; merges advance; a device whose merge failed, or    *)
(* that was left in recovery, is rebooted some day.                        *)
(***************************************************************************)
Spec ==
  /\ Init /\ [][Next]_vars
  /\ WF_vars(Steps)
  /\ WF_vars(BootUp)
  /\ SF_vars(CheckMergeState)
  /\ \A p \in Partitions : SF_vars(MergeProgress(p))
  /\ SF_vars(Reboot)

-----------------------------------------------------------------------------
(* Properties. *)

BootableNow ==
  (IF SourceComplete THEN {"old"} ELSE {}) \cup (IF TargetComplete THEN {"new"} ELSE {})

RunningNow ==
  IF slot = "off" \/ recovery THEN "none" ELSE IF slot = "source" THEN "old" ELSE "new"

Atomic == INSTANCE AtomicUpdate WITH bootable <- BootableNow, running <- RunningNow

(***************************************************************************)
(* The update is atomic: in every state, also half-way through any         *)
(* operation, the storage holds a complete old or a complete new system;   *)
(* the new one is given up only while it does not run, and the old one is  *)
(* overwritten only while it does not run.  The refinement of              *)
(* AtomicUpdate by NeedSnapshotsInFirstStageMount, MapPartitionWithSnapshot *)
(* and everything that writes what they read.                              *)
(***************************************************************************)
IsAtomic == Atomic!AtomicSpec

(***************************************************************************)
(* The bootloader knows: as long as some partition is neither all old nor  *)
(* all new in super, the HAL reports MERGING (WriteSnapshotUpdateStatus    *)
(* sets it before the file) and the target slot is active, so the          *)
(* bootloader neither falls back nor lets /data and /metadata be wiped.    *)
(***************************************************************************)
BootloaderKnows ==
  (~SourceComplete /\ ~ \A p \in Partitions : base[p] = "new")
    => hal = "MERGING" /\ active = "target"

(***************************************************************************)
(* With snapuserd, no other partition is overwritten before the shrunk     *)
(* ones are merged: a copy operation of theirs may read blocks that the    *)
(* others will use (InitiateMerge, b/177935716), whatever is resumed by    *)
(* MapSnapshot or CheckTargetMergeState after a crash.                     *)
(***************************************************************************)
ShrunkFirst ==
  driver # "dm-snapshot" =>
    \A p \in Partitions \ Shrunk, q \in Shrunk : base[p] # "old" => base[q] = "new"

(***************************************************************************)
(* The CHECKs of MergeSecondPhaseSnapshots hold whenever it is reached.    *)
(***************************************************************************)
ChecksHold == ~aborted

(***************************************************************************)
(* CheckMergeState never takes an update that is only waiting for its      *)
(* first boot for a rollback: it removes an Unverified update only when    *)
(* the device went down since FinishedSnapshotWrites, which removes a      *)
(* rollback indicator left by an earlier attempt.                          *)
(***************************************************************************)
NoEarlyCancel ==
  [][ (op.why # "cancelled" /\ op'.why = "cancelled") => ~waiting ]_vars

(***************************************************************************)
(* A snapshot marked MERGING is merged: after every crash or failure the   *)
(* next boots resume it, in the kernel or by the daemon.                   *)
(***************************************************************************)
MergingResumes ==
  \A p \in Partitions : (status[p] = "MERGING") ~> (status[p] # "MERGING" /\ base[p] = "new")

(***************************************************************************)
(* A merge that was begun ends, and the update state is cleaned up.        *)
(***************************************************************************)
MergeFinishes == (state \in {"Merging", "MergeFailed"}) ~> (state \in {"None", "MergeCompleted"})

(***************************************************************************)
(* With a driver of the kernel a merge that was begun ends and the update  *)
(* state is cleaned up, through crashes and failed calls: MapSnapshot      *)
(* restarts the merge at each boot, also when its status file was not yet  *)
(* written.                                                                *)
(***************************************************************************)
KernelMergeFinishes ==
  (driver # "userspace" /\ state \in {"Merging", "MergeFailed"}) ~> state \in {"None", "MergeCompleted"}

=============================================================================
