------------------------ MODULE SnapshotManagerProofs ------------------------
(***************************************************************************)
(* Proofs about SnapshotManager for any partitions, drivers, crashes and     *)
(* failed calls: types, BootloaderKnows, ShrunkFirst, ChecksHold,            *)
(* NoEarlyCancel, and that the update implements AtomicUpdate.               *)
(***************************************************************************)
EXTENDS SnapshotManager, TLAPS

-----------------------------------------------------------------------------
(* The invariant *)

(* TypeOK in parts: the flags, the operation and the rest. *)
FlagsOK ==
  /\ boot_ind \in BOOLEAN /\ rollback_ind \in BOOLEAN /\ forward_ind \in BOOLEAN
  /\ successful \in BOOLEAN /\ recovery \in BOOLEAN
  /\ waiting \in BOOLEAN /\ aborted \in BOOLEAN

OpSteps == {"idle", "write_hal", "write_file", "remove", "unlink_boot", "unlink_rollback", "unlink_forward",
            "stale", "create", "undo", "finish_rollback", "finish_boot", "switch", "mark", "poll", "collapse",
            "delete"}

Callers == {"none", "begin", "cancel", "success", "again", "cancelled", "initiate", "second", "needs_reboot",
            "completed", "zap", "create", "update", "recheck", "merged"}

Answers == {"Merging", "MergeFailed", "MergeCompleted", "MergeNeedsReboot", "None"}

Operation == [pc : OpSteps, todo : SUBSET Partitions, cur : SUBSET Partitions, seen : SUBSET Answers,
              ok : BOOLEAN, why : Callers, to : UpdateStates, phase : Phases]

StorageOK ==
  /\ driver \in Drivers
  /\ state \in UpdateStates /\ phase \in Phases
  /\ status \in [Partitions -> {"absent", "CREATED", "MERGING", "MERGE_COMPLETED"}]
  /\ base \in [Partitions -> {"old", "mixed", "new"}]
  /\ cow \in [Partitions -> {"absent", "empty", "full"}]

DeviceOK ==
  /\ active \in {"source", "target"}
  /\ hal \in {"NONE", "SNAPSHOTTED", "MERGING"}
  /\ slot \in {"off", "source", "target"}
  /\ dm \in [Partitions -> {"none", "linear", "snapshot", "merging", "failed"}]

ClientOK ==
  /\ begin \in {"no", "cancelling", "polling", "ready"}
  /\ reset \in {"no", "wipe", "finish", "zapping", "zapped", "over"}
  /\ result \in UpdateStates \cup {"Cancelled", "none"}

AcksOK == acks \in 0..MaxAcks

BudgetsOK == crashes \in 0..MaxCrashes /\ faults \in 0..MaxFaults

AllNew == \A p \in Partitions : base[p] = "new"

(* The state says that a merge goes on. *)
Merge == state \in {"Merging", "MergeFailed"}

First(p) == DecideMergePhase(p) = "FIRST_PHASE"

(* Everything is merged and every snapshot recorded as such. *)
Over == AllNew /\ \A p \in Partitions : ~Live(p)

(* Every snapshot is there and written. *)
Given == \A p \in Partitions : status[p] = "CREATED" /\ cow[p] = "full"

(***************************************************************************)
(* A wipe of the data that could not give the target slot up has taken the   *)
(* state or the COWs of an update that was not merged; only recovery runs.   *)
(***************************************************************************)
Abandoned ==
  /\ SourceComplete /\ slot # "source" /\ (slot = "target" => recovery = TRUE)
  /\ \/ state = "None"
     \/ /\ state = "Unverified" /\ op = Idle /\ reset \in {"no", "over"}
        /\ \A p \in Partitions : status[p] = "CREATED" /\ cow[p] = "absent"

(* The wipe is on its way. *)
Dropped ==
  /\ SourceComplete /\ slot = "target" /\ recovery = TRUE
  /\ state = "None" \/ (state = "Unverified" /\ Given)

(***************************************************************************)
(* The target slot is active only while it is complete or the source slot    *)
(* is; this is why there is always something to boot, whatever step a crash  *)
(* interrupts.                                                               *)
(***************************************************************************)
TargetIntact == active = "target" => TargetComplete \/ Abandoned

(* While the state says that a merge goes on the bootloader holds on to the    *)
(* target slot, and first-stage init will map snapshots.                     *)
MergeGuarded ==
  Merge => hal = "MERGING" /\ active = "target" /\ (boot_ind = TRUE \/ Over) /\ slot # "source"

(* Once a block of the old system is overwritten the target is active and the  *)
(* state says so until all is merged.                                       *)
Committed ==
  ~SourceComplete =>
    /\ active = "target" /\ slot # "source" /\ hal # "SNAPSHOTTED"
    /\ Merge \/ (AllNew /\ state \in {"None", "MergeNeedsReboot", "MergeCompleted"})

(* The states after a merge, and what the status files say of each partition. *)
StatusTrue ==
  /\ state \in {"MergeNeedsReboot", "MergeCompleted"} => Over
  /\ \A p \in Partitions :
       /\ status[p] = "MERGING" => Merge
       /\ status[p] = "MERGE_COMPLETED" => base[p] = "new"
       /\ status[p] = "CREATED" /\ base[p] # "old" => Merge

(* In the first phase the other partitions are untouched; in the second the    *)
(* partitions of the first are done.                                        *)
PhaseOK(ph) ==
  /\ ph # "NO_MERGE"
  /\ ph = "FIRST_PHASE" => \A p \in Partitions : ~First(p) => base[p] = "old" /\ status[p] = "CREATED"
  /\ ph = "SECOND_PHASE" => \A p \in Partitions : First(p) => base[p] = "new" /\ ~Live(p)

PhasesKept == Merge \/ state = "MergeNeedsReboot" => PhaseOK(phase)

(* Devices merge only in a merge and in its phase, or have done so. *)
DevicesTrue ==
  /\ slot = "off" => \A p \in Partitions : dm[p] = "none"
  /\ slot = "source" => \A p \in Partitions : dm[p] \in {"none", "snapshot"}
  /\ \A p \in Partitions :
       dm[p] \in {"merging", "failed"} => base[p] = "new" \/ (Merge /\ DecideMergePhase(p) = phase)
  /\ slot = "target" /\ recovery = FALSE => \A p \in Partitions : Live(p) => IsSnapshotDevice(p)

(* Who is where: a device that is off does nothing, recovery has left the       *)
(* target slot only in a wipe, and the source slot runs with the target active  *)
(* only while an update waits for its first boot, whole and without a rollback. *)
SlotsTrue ==
  /\ slot = "off" => op = Idle /\ begin = "no" /\ acks = 0 /\ reset = "no" /\ result = "none" /\ recovery = FALSE
  /\ slot = "target" /\ active = "source" => recovery = TRUE /\ reset \in {"zapping", "zapped", "over"}
  /\ slot = "source" /\ recovery = TRUE => active = "source"
  /\ slot = "source" /\ active = "target" => waiting = TRUE
  /\ begin # "no" => recovery = FALSE /\ (slot = "source" => active = "source")
  /\ reset # "no" => recovery = TRUE
  /\ result # "none" => recovery = TRUE
  /\ waiting = TRUE =>
       /\ state = "Unverified" /\ slot = "source" /\ recovery = FALSE
       /\ boot_ind = TRUE /\ rollback_ind = FALSE /\ Given
       /\ op = Idle /\ begin = "no"

(* What ProcessUpdateState() told recovery is still true when it is used. *)
ResultTrue ==
  /\ reset = "wipe" /\ result \in {"None", "Initiated"} => state = result
  /\ reset = "wipe" /\ result = "Unverified" /\ active = "target" => state = "Unverified"
  /\ result \in {"MergeCompleted", "MergeNeedsReboot"} => Over
  /\ result = "Cancelled" => active = "source"
  /\ result # "Merging"
  /\ reset \in {"zapping", "zapped"} => result \notin {"none", "MergeFailed"}

(* The data are wiped only when nothing on them is needed any more. *)
WipesTrue == reset \in {"zapping", "zapped"} => Over \/ active = "source" \/ Dropped

(* In recovery, who may still have something to say. *)
RecoveryTrue ==
  recovery = TRUE =>
    /\ reset = "no" => op = Idle /\ acks = 0 /\ result = "none"
    /\ acks > 0 => result = "MergeFailed"
    /\ op # Idle /\ op.why \notin {"update", "zap"} => result = "none"
    /\ op # Idle /\ op.why = "update" => result \in {"none", "MergeFailed"}

(***************************************************************************)
(* An operation that is about to write a state may do so: what the state      *)
(* will say is true already.                                                *)
(***************************************************************************)
Writing == op.pc \in {"write_hal", "write_file"}

WritesTrue ==
  Writing =>
    /\ op.to = "Merging" =>
         /\ op.why \in {"initiate", "second"} /\ slot = "target" /\ active = "target" /\ (boot_ind = TRUE \/ Over)
         /\ state \in {"Unverified", "Merging", "MergeFailed"} /\ PhaseOK(op.phase)
         /\ op.cur = {} /\ (state = "Unverified" \/ (phase = "FIRST_PHASE" /\ op.phase = "SECOND_PHASE"))
         /\ \A p \in Partitions : DecideMergePhase(p) = op.phase => status[p] = "CREATED" /\ base[p] = "old"
    /\ op.to = "MergeFailed" =>
         state \in {"Merging", "MergeNeedsReboot"} /\ op.phase = phase /\ op.why = "update"
    /\ op.to = "Unverified" =>
         /\ slot = "source" /\ recovery = FALSE /\ state = "Initiated" /\ boot_ind = TRUE /\ rollback_ind = FALSE
         /\ Given /\ begin = "no" /\ op.why = "update"
    /\ op.to = "Initiated" =>
         /\ slot = "source" /\ recovery = FALSE /\ state \in {"None", "Initiated"}
         /\ op.why \in {"create", "update"}
    /\ op.to = "MergeNeedsReboot" => Over /\ op.why = "needs_reboot" /\ PhaseOK(op.phase)
    /\ op.to = "MergeCompleted" => Over /\ op.why = "completed"
    /\ op.to = "None" =>
         /\ Over \/ active = "source" \/ op.why = "zap"
         /\ op.why \in {"begin", "cancel", "success", "again", "cancelled", "zap"}
    /\ op.pc = "write_file" /\ op.to \in {"Merging", "MergeFailed"} => hal = "MERGING"
    /\ op.pc = "write_hal" /\ ~SetBeforeWrite(op.to) => state = op.to

(* What the other operations rely on between their steps. *)
RemovesTrue ==
  /\ op.pc \in {"remove", "unlink_boot", "unlink_rollback", "unlink_forward", "stale"} =>
       /\ Over \/ active = "source"
       /\ op.why \in {"begin", "cancel", "success", "again", "cancelled"}
  /\ op.why = "success" => Over
  /\ op.why \in {"cancelled", "again"} => active = "source"
  /\ op.why \in {"begin", "cancel"} => recovery = FALSE
  /\ op.why = "zap" => recovery = TRUE /\ reset = "zapping"

CreatesTrue ==
  /\ op.pc \in {"create", "undo"} \/ op.why = "create" =>
       slot = "source" /\ recovery = FALSE /\ active = "source" /\ state = "Initiated"
  /\ op.pc \in {"create", "undo", "finish_rollback", "finish_boot"} => op.why = "none"
  /\ op.pc \in {"finish_rollback", "finish_boot"} =>
       slot = "source" /\ recovery = FALSE /\ state = "Initiated" /\ Given /\ begin = "no"
  /\ op.pc = "finish_boot" => rollback_ind = FALSE

SwitchesTrue ==
  op.pc \in {"switch", "mark"} =>
    /\ state = "Merging" /\ op.phase = phase /\ op.why \in {"initiate", "second"}
    /\ \A p \in op.todo \cup op.cur : DecideMergePhase(p) = phase /\ Live(p)

(* A poll that has seen neither a merge nor a failure has found every partition *)
(* it visited done, or left for the second phase.                            *)
Polling == op.pc \in {"poll", "collapse", "delete"}

PollsTrue ==
  /\ Polling =>
       /\ state \in {"Merging", "MergeNeedsReboot", "MergeFailed"}
       /\ "None" \in op.seen => phase = "FIRST_PHASE" /\ Merge
       /\ op.seen \cap {"Merging", "MergeFailed"} = {} =>
            \A p \in Partitions \ op.todo : ~Live(p) \/ ("None" \in op.seen /\ ~First(p))
  /\ op.pc \in {"collapse", "delete"} => op.cur \subseteq op.todo /\ \A p \in op.cur : status[p] = "MERGE_COMPLETED"
  /\ Polling \/ op.why = "second" => acks < MaxAcks
  /\ op.pc = "poll" => op.cur = {}
  /\ op.pc \in {"poll", "collapse"} => op.why = "none"
  /\ op.pc = "delete" => op.why \in {"recheck", "merged"}
  /\ aborted = FALSE

Types == FlagsOK /\ op \in Operation /\ StorageOK /\ DeviceOK /\ ClientOK /\ AcksOK /\ BudgetsOK

Inv ==
  /\ Types
  /\ TargetIntact /\ MergeGuarded /\ Committed /\ StatusTrue /\ PhasesKept /\ DevicesTrue /\ SlotsTrue
  /\ ResultTrue /\ WipesTrue /\ RecoveryTrue /\ WritesTrue /\ RemovesTrue /\ CreatesTrue /\ SwitchesTrue /\ PollsTrue

-----------------------------------------------------------------------------
(* Types *)

LEMMA IdleType == Idle \in Operation
BY DEF Idle, Operation, OpSteps, Callers, UpdateStates, Phases

LEMMA IdleFields ==
  /\ Idle.pc = "idle" /\ Idle.todo = {} /\ Idle.cur = {} /\ Idle.seen = {} /\ Idle.why = "none"
  /\ Idle.to = "None" /\ Idle.phase = "NO_MERGE"
BY DEF Idle

(* Which states the HAL hears of before the file is written. *)
LEMMA BeforeWrite ==
  ASSUME NEW s \in UpdateStates
  PROVE  /\ SetBeforeWrite(s) <=> s \in {"Unverified", "Merging", "MergeFailed"}
         /\ MergeStatus(s) \in {"NONE", "SNAPSHOTTED", "MERGING"}
         /\ MergeStatus(s) = "MERGING" <=> s \in {"Merging", "MergeFailed"}
         /\ MergeStatus(s) = "SNAPSHOTTED" <=> s = "Unverified"
BY DEF SetBeforeWrite, MergeStatus, UpdateStates

(* An operation that starts from nothing. *)
OpIs(o, pc, todo, cur, seen, why) ==
  /\ o \in Operation
  /\ o.pc = pc /\ o.todo = todo /\ o.cur = cur /\ o.seen = seen /\ o.why = why

LEMMA StartFields ==
  ASSUME NEW pc \in OpSteps, NEW todo \in SUBSET Partitions, NEW why \in Callers
  PROVE  /\ OpIs([Idle EXCEPT !.pc = pc, !.todo = todo, !.why = why], pc, todo, {}, {}, why)
         /\ OpIs([Idle EXCEPT !.pc = pc, !.why = why, !.todo = todo], pc, todo, {}, {}, why)
         /\ OpIs([Idle EXCEPT !.pc = pc, !.todo = todo], pc, todo, {}, {}, "none")
         /\ OpIs([Idle EXCEPT !.pc = pc], pc, {}, {}, {}, "none")
<1> USE IdleType, IdleFields DEF OpIs, Operation
<1>1. OpIs([Idle EXCEPT !.pc = pc, !.todo = todo, !.why = why], pc, todo, {}, {}, why)
  OBVIOUS
<1>2. OpIs([Idle EXCEPT !.pc = pc, !.why = why, !.todo = todo], pc, todo, {}, {}, why)
  OBVIOUS
<1>3. OpIs([Idle EXCEPT !.pc = pc, !.todo = todo], pc, todo, {}, {}, "none")
  OBVIOUS
<1>4. OpIs([Idle EXCEPT !.pc = pc], pc, {}, {}, {}, "none")
  OBVIOUS
<1> QED
  BY <1>1, <1>2, <1>3, <1>4

LEMMA SnapshotSets ==
  Snapshots \subseteq Partitions /\ SnapshotsOfThisSlot \subseteq Partitions
BY DEF Snapshots, SnapshotsOfThisSlot

-----------------------------------------------------------------------------
(* What the steps do to the operation. *)

(* The operation goes on with its next step. *)
Goes(pc) ==
  /\ OpIs(op', pc, op.todo, op.cur, op.seen, op.why)
  /\ op'.to = op.to /\ op'.phase = op.phase

(* It goes on to write a state. *)
Writes(s, ph, why) ==
  /\ op' \in Operation
  /\ op'.pc = IF s \in {"Unverified", "Merging", "MergeFailed"} THEN "write_hal" ELSE "write_file"
  /\ op'.to = s /\ op'.phase = ph /\ op'.why = why /\ op'.cur = op.cur

(* It ends with the answer r, as Return() does. *)
Ends(r) ==
  /\ op' = Idle
  /\ acks' = IF r = "MergeFailed" THEN acks + 1 ELSE acks
  /\ begin' = begin \/ (begin' = "ready" /\ begin = "polling")
  /\ result' = IF recovery = TRUE /\ r # "Merging" THEN r ELSE "none"
  /\ reset' = reset

(* A removal ends. *)
EndsRemoval ==
  \/ /\ op.why = "begin" /\ op' = Idle
     /\ begin' \in {"ready", "no"} /\ UNCHANGED <<acks, reset, result>>
  \/ op.why = "cancel" /\ op' = Idle /\ UNCHANGED client
  \/ op.why = "success" /\ Ends("MergeCompleted")
  \/ op.why = "again" /\ Ends("Cancelled")
  \/ op.why = "cancelled" /\ recovery = FALSE /\ OpIs(op', "remove", Snapshots, {}, {}, "again") /\ UNCHANGED client
  \/ op.why = "cancelled" /\ (Ends("Cancelled") \/ Ends("Unverified"))

(* A write of a state ends; the merge goes on to switch devices. *)
EndsWrite ==
  \/ /\ op.why = "initiate" /\ op' = Idle
     /\ result' = IF recovery = TRUE THEN "MergeFailed" ELSE "none"
     /\ UNCHANGED <<begin, acks, reset>>
  \/ op.why = "second" /\ Ends("MergeFailed")
  \/ op.why = "needs_reboot" /\ Ends("MergeNeedsReboot")
  \/ op.why = "completed" /\ Ends("MergeCompleted")
  \/ op.why = "zap" /\ op' = Idle /\ reset' = "zapped" /\ UNCHANGED <<begin, acks, result>>
  \/ /\ op.why = "create" /\ UNCHANGED client
     /\ op' = Idle \/ OpIs(op', "undo", op.cur, {}, {}, "none")
  \/ op.why = "update" /\ op' = Idle /\ UNCHANGED client
  \/ EndsRemoval

GoesSwitching ==
  /\ op.why \in {"initiate", "second"}
  /\ OpIs(op', "switch", {p \in Snapshots : DecideMergePhase(p) = op.phase}, op.cur, op.seen, op.why)
  /\ op'.phase = op.phase
  /\ UNCHANGED client

LEMMA ReturnEnds ==
  ASSUME FlagsOK, NEW r, Return(r)
  PROVE  Ends(r)
BY DEF Return, Ends, FlagsOK

LEMMA RemovedEnds ==
  ASSUME FlagsOK, op.why \in {"begin", "cancel", "success", "again", "cancelled"}, NEW ok \in BOOLEAN, Removed(ok)
  PROVE  EndsRemoval
<1>0. "remove" \in OpSteps /\ "again" \in Callers
  BY DEF OpSteps, Callers
<1>1. CASE op.why = "begin"
  BY <1>1 DEF Removed, EndsRemoval
<1>2. CASE op.why = "cancel"
  BY <1>2 DEF Removed, EndsRemoval
<1>3. CASE op.why = "success"
  BY <1>3, ReturnEnds DEF Removed, EndsRemoval
<1>4. CASE op.why = "again"
  BY <1>4, ReturnEnds DEF Removed, EndsRemoval
<1>5. CASE op.why = "cancelled"
  <2>1. CASE ok /\ ~recovery
    <3>1. op' = [Idle EXCEPT !.pc = "remove", !.todo = Snapshots, !.why = "again"] /\ UNCHANGED client
      BY <1>5, <2>1 DEF Removed
    <3>2. OpIs(op', "remove", Snapshots, {}, {}, "again")
      BY <3>1, <1>0, StartFields, SnapshotSets
    <3>3. recovery = FALSE
      BY <2>1 DEF FlagsOK
    <3> QED
      BY <1>5, <3>1, <3>2, <3>3 DEF EndsRemoval
  <2>2. CASE ok /\ recovery
    BY <1>5, <2>2, ReturnEnds DEF Removed, EndsRemoval
  <2>3. CASE ~ok
    BY <1>5, <2>3, ReturnEnds DEF Removed, EndsRemoval
  <2> QED
    BY <2>1, <2>2, <2>3
<1> QED
  BY <1>1, <1>2, <1>3, <1>4, <1>5

LEMMA WrittenEnds ==
  ASSUME FlagsOK, op \in Operation, op.why \notin {"none", "recheck", "merged"}, NEW ok \in BOOLEAN, Written(ok)
  PROVE  EndsWrite \/ (ok /\ GoesSwitching)
<1>1. CASE op.why \in {"initiate", "second"} /\ ok
  <2>1. /\ op' = [op EXCEPT !.pc = "switch", !.todo = {p \in Snapshots : DecideMergePhase(p) = op.phase}]
        /\ UNCHANGED client
    BY <1>1 DEF Written
  <2> DEFINE todo == {p \in Snapshots : DecideMergePhase(p) = op.phase}
  <2>2. todo \in SUBSET Partitions
    BY SnapshotSets
  <2> HIDE DEF todo
  <2>3. op' = [op EXCEPT !.pc = "switch", !.todo = todo]
    BY <2>1 DEF todo
  <2>4. OpIs(op', "switch", todo, op.cur, op.seen, op.why) /\ op'.phase = op.phase
    BY <2>2, <2>3 DEF OpIs, Operation, OpSteps
  <2> QED
    BY <1>1, <2>1, <2>4 DEF GoesSwitching, todo
<1>2. CASE op.why = "initiate" /\ ~ok
  BY <1>2 DEF Written, EndsWrite, FlagsOK
<1>3. CASE op.why = "second" /\ ~ok
  BY <1>3, ReturnEnds DEF Written, EndsWrite
<1>4. CASE op.why = "needs_reboot"
  BY <1>4, ReturnEnds DEF Written, EndsWrite
<1>5. CASE op.why = "completed"
  BY <1>5, ReturnEnds DEF Written, EndsWrite
<1>6. CASE op.why = "zap"
  BY <1>6 DEF Written, EndsWrite
<1>7. CASE op.why = "update"
  BY <1>7 DEF Written, EndsWrite
<1>8. CASE op.why \in {"begin", "cancel", "success", "again", "cancelled"}
  <2>1. Removed(ok)
    BY <1>8 DEF Written
  <2> QED
    BY <1>8, <2>1, RemovedEnds DEF EndsWrite
<1>9. CASE op.why = "create"
  <2>1. "undo" \in OpSteps /\ op.cur \in SUBSET Partitions /\ "none" \in Callers
    BY DEF OpSteps, Operation, Callers
  <2>2. op' = [Idle EXCEPT !.pc = "undo", !.todo = op.cur] => OpIs(op', "undo", op.cur, {}, {}, "none")
    BY <2>1, StartFields
  <2>3. UNCHANGED client /\ (op' = Idle \/ op' = [Idle EXCEPT !.pc = "undo", !.todo = op.cur])
    BY <1>9, Zenon DEF Written
  <2> QED
    BY <1>9, <2>2, <2>3 DEF EndsWrite
<1> QED
  BY <1>1, <1>2, <1>3, <1>4, <1>5, <1>6, <1>7, <1>8, <1>9 DEF Operation, Callers

(* The same of an operation that starts to write. *)
LEMMA StartWriteDoes ==
  ASSUME op \in Operation, NEW s \in UpdateStates, NEW ph \in Phases, NEW why \in Callers,
         op' = StartWrite(s, ph, why)
  PROVE  Writes(s, ph, why)
BY BeforeWrite DEF StartWrite, Writes, Operation, OpSteps

LEMMA WriteUpdateStateDoes ==
  ASSUME op \in Operation, phase \in Phases, NEW s \in UpdateStates, NEW why \in Callers,
         op' = WriteUpdateState(s, why)
  PROVE  Writes(s, IF s \in {"Initiated", "None"} THEN "NO_MERGE" ELSE phase, why)
BY StartWriteDoes DEF WriteUpdateState, Phases

-----------------------------------------------------------------------------
(* What each step of an operation does. *)

(* The HAL is told, or not. *)
LEMMA WriteHalEffect ==
  ASSUME Types, WriteHal, op.why \notin {"none", "recheck", "merged"}
  PROVE  /\ op.pc = "write_hal"
         /\ \/ SetBeforeWrite(op.to) /\ hal' = MergeStatus(op.to) /\ Goes("write_file") /\ UNCHANGED client
            \/ ~SetBeforeWrite(op.to) /\ hal' = "NONE" /\ EndsWrite
            \/ ~SetBeforeWrite(op.to) /\ hal' = "NONE" /\ GoesSwitching
            \/ hal' = hal /\ EndsWrite
         /\ UNCHANGED <<driver, meta, disk, active, successful, power, dm, history, crashes>>
<1> USE DEF Types
<1>1. op.to \in UpdateStates
  BY DEF Operation
<1>2. CASE /\ hal' = MergeStatus(op.to) /\ SetBeforeWrite(op.to)
           /\ op' = [op EXCEPT !.pc = "write_file"] /\ UNCHANGED client
  <2>1. Goes("write_file")
    BY <1>2 DEF Goes, OpIs, Operation, OpSteps
  <2> QED
    BY <1>2, <2>1 DEF WriteHal
<1>3. CASE hal' = MergeStatus(op.to) /\ ~SetBeforeWrite(op.to) /\ Written(TRUE)
  BY <1>1, <1>3, WrittenEnds DEF WriteHal, SetBeforeWrite
<1>4. CASE Written(FALSE) /\ UNCHANGED hal
  BY <1>4, WrittenEnds DEF WriteHal
<1> QED
  BY <1>2, <1>3, <1>4, Zenon DEF WriteHal

(* The file is written, or not. *)
LEMMA WriteFileEffect ==
  ASSUME Types, WriteFile, op.why \notin {"none", "recheck", "merged"}
  PROVE  /\ op.pc = "write_file"
         /\ \/ state' = op.to /\ phase' = op.phase /\ SetBeforeWrite(op.to) /\ (EndsWrite \/ GoesSwitching)
            \/ /\ state' = op.to /\ phase' = op.phase /\ ~SetBeforeWrite(op.to)
               /\ Goes("write_hal") /\ UNCHANGED client
            \/ state' = state /\ phase' = phase /\ EndsWrite
         /\ waiting' = TRUE => waiting = TRUE \/ (state' = "Unverified" /\ state # "Unverified")
         /\ waiting = TRUE => waiting' = TRUE
         /\ UNCHANGED <<driver, status, boot_ind, rollback_ind, forward_ind, disk, boot, power, dm,
                        aborted, crashes>>
<1> USE DEF Types
<1>1. /\ op.pc = "write_file"
      /\ waiting' = TRUE => waiting = TRUE \/ (state' = "Unverified" /\ state # "Unverified")
      /\ waiting = TRUE => waiting' = TRUE
      /\ UNCHANGED <<driver, status, boot_ind, rollback_ind, forward_ind, disk, boot, power, dm,
                     aborted, crashes>>
  BY Zenon DEF WriteFile, FlagsOK
<1>2. CASE /\ state' = op.to /\ phase' = op.phase /\ ~SetBeforeWrite(op.to)
           /\ op' = [op EXCEPT !.pc = "write_hal"] /\ UNCHANGED client
  <2>1. Goes("write_hal")
    BY <1>2 DEF Goes, OpIs, Operation, OpSteps
  <2> QED
    BY <1>1, <1>2, <2>1
<1>3. CASE state' = op.to /\ phase' = op.phase /\ SetBeforeWrite(op.to) /\ Written(TRUE)
  BY <1>1, <1>3, WrittenEnds
<1>4. CASE Written(FALSE) /\ UNCHANGED <<state, phase>>
  BY <1>1, <1>4, WrittenEnds
<1> QED
  BY <1>2, <1>3, <1>4, Zenon DEF WriteFile

(* Snapshots are only taken away, and a device is unmapped. *)
Shrinks ==
  \A q \in Partitions : cow'[q] \in {cow[q], "absent"} /\ status'[q] \in {status[q], "absent"}

LEMMA DeleteStepDoes ==
  ASSUME Types, NEW p \in Partitions, NEW next, DeleteSnapshotStep(p, next)
  PROVE  Shrinks /\ (op' = next \/ UNCHANGED <<op, status>>)
BY DEF DeleteSnapshotStep, Shrinks, Types, StorageOK

(* One snapshot is removed. *)
LEMMA RemoveSnapshotEffect ==
  ASSUME Types, NEW p \in Partitions, RemoveSnapshot(p)
  PROVE  /\ op.pc = "remove"
         /\ op' \in Operation /\ op'.pc = "remove" /\ op'.why = op.why
         /\ Shrinks
         /\ dm' = dm \/ (CurrentSlot # "Target" /\ dm' = [dm EXCEPT ![p] = "none"])
         /\ UNCHANGED <<driver, state, phase, boot_ind, rollback_ind, forward_ind, base, boot, power,
                        client, history, crashes>>
<1> DEFINE next == [op EXCEPT !.todo = op.todo \ {p}]
<1>1. next \in Operation /\ next.pc = op.pc /\ next.why = op.why
  BY DEF Types, Operation
<1>2. LET n == [next EXCEPT !.ok = FALSE, !.cur = IF IsImageMapped(p) THEN @ \cup {p} ELSE @]
      IN  n \in Operation /\ n.pc = op.pc /\ n.why = op.why
  BY <1>1 DEF Operation
<1> HIDE DEF next
<1>3. /\ op.pc = "remove"
      /\ \/ op' = next /\ UNCHANGED <<dm, cow, status>>
         \/ /\ dm' = IF CurrentSlot # "Target" THEN [dm EXCEPT ![p] = "none"] ELSE dm
            /\ DeleteSnapshotStep(p, next)
         \/ /\ op' = [next EXCEPT !.ok = FALSE, !.cur = IF IsImageMapped(p) THEN @ \cup {p} ELSE @]
            /\ UNCHANGED <<dm, cow, status>>
      /\ UNCHANGED <<driver, state, phase, boot_ind, rollback_ind, forward_ind, base, boot, power,
                     client, history, crashes>>
  BY Zenon DEF RemoveSnapshot, next
<1>4. UNCHANGED <<cow, status>> => Shrinks
  BY DEF Shrinks
<1> QED
  BY <1>1, <1>2, <1>3, <1>4, DeleteStepDoes DEF Types

(* The images are removed. *)
LEMMA RemoveImagesEffect ==
  ASSUME Types, RemoveImages, op.why \in {"begin", "cancel", "success", "again", "cancelled"}
  PROVE  /\ op.pc = "remove"
         /\ Shrinks
         /\ (Goes("unlink_boot") /\ UNCHANGED client) \/ EndsRemoval
         /\ UNCHANGED <<driver, meta, base, boot, power, dm, history, crashes, faults>>
<1> USE DEF Types
<1>1. /\ op.pc = "remove"
      /\ cow' = cow \/ cow' = AfterRemoveAllImages
      /\ (op' = [op EXCEPT !.pc = "unlink_boot"] /\ UNCHANGED client) \/ Removed(FALSE)
      /\ UNCHANGED <<driver, meta, base, boot, power, dm, history, crashes, faults>>
  BY Zenon DEF RemoveImages
<1>2. Shrinks
  BY <1>1 DEF Shrinks, AfterRemoveAllImages, StorageOK, meta
<1>3. op' = [op EXCEPT !.pc = "unlink_boot"] => Goes("unlink_boot")
  BY DEF Goes, OpIs, Operation, OpSteps
<1> QED
  BY <1>1, <1>2, <1>3, RemovedEnds

(* An indicator goes. *)
LEMMA UnlinkIndicatorEffect ==
  ASSUME Types, UnlinkIndicator
  PROVE  /\ op.pc \in {"unlink_boot", "unlink_rollback", "unlink_forward"}
         /\ Goes("unlink_rollback") \/ Goes("unlink_forward") \/ Writes("None", "NO_MERGE", op.why)
         /\ boot_ind' \in {boot_ind, FALSE} /\ rollback_ind' \in {rollback_ind, FALSE}
         /\ UNCHANGED <<driver, state, phase, status, disk, boot, power, dm, client, history, crashes>>
<1> USE DEF Types
<1>1. /\ op.pc \in {"unlink_boot", "unlink_rollback", "unlink_forward"}
      /\ \/ op' = [op EXCEPT !.pc = "unlink_rollback"]
         \/ op' = [op EXCEPT !.pc = "unlink_forward"]
         \/ op' = WriteUpdateState("None", op.why)
      /\ boot_ind' \in {boot_ind, FALSE} /\ rollback_ind' \in {rollback_ind, FALSE}
      /\ UNCHANGED <<driver, state, phase, status, disk, boot, power, dm, client, history, crashes>>
  BY Zenon DEF UnlinkIndicator, Unlink
<1>2. op' = [op EXCEPT !.pc = "unlink_rollback"] => Goes("unlink_rollback")
  BY DEF Goes, OpIs, Operation, OpSteps
<1>3. op' = [op EXCEPT !.pc = "unlink_forward"] => Goes("unlink_forward")
  BY DEF Goes, OpIs, Operation, OpSteps
<1>4. op' = WriteUpdateState("None", op.why) => Writes("None", "NO_MERGE", op.why)
  BY WriteUpdateStateDoes DEF Operation, UpdateStates, StorageOK
<1> QED
  BY <1>1, <1>2, <1>3, <1>4

(* A stale snapshot is removed. *)
LEMMA RemoveInvalidSnapshotEffect ==
  ASSUME Types, RemoveInvalidSnapshot, op.why \in {"begin", "cancel", "success", "again", "cancelled"}
  PROVE  /\ op.pc = "stale"
         /\ \/ op' \in Operation /\ op'.pc = "stale" /\ op'.why = op.why /\ UNCHANGED client
            \/ EndsRemoval
         /\ Shrinks
         /\ UNCHANGED <<driver, state, phase, boot_ind, rollback_ind, forward_ind, base, boot, power, dm,
                        history, crashes>>
<1> USE DEF Types
<1>1. /\ op.pc = "stale"
      /\ UNCHANGED <<driver, state, phase, boot_ind, rollback_ind, forward_ind, base, boot, power, dm,
                     history, crashes>>
  BY Zenon DEF RemoveInvalidSnapshot
<1>2. UNCHANGED <<cow, status>> => Shrinks
  BY DEF Shrinks
<1>3. CASE Removed(TRUE) /\ UNCHANGED <<cow, status>>
  BY <1>1, <1>2, <1>3, RemovedEnds
<1>4. ASSUME NEW p \in op.todo,
             \/ DeleteSnapshotStep(p, [op EXCEPT !.todo = @ \ {p}])
             \/ op' = [op EXCEPT !.todo = @ \ {p}] /\ UNCHANGED <<cow, status>>,
             UNCHANGED client
      PROVE  /\ op' \in Operation /\ op'.pc = "stale" /\ op'.why = op.why /\ UNCHANGED client
             /\ Shrinks
  <2> DEFINE next == [op EXCEPT !.todo = @ \ {p}]
  <2>1. next \in Operation /\ next.pc = op.pc /\ next.why = op.why /\ p \in Partitions
    BY DEF Operation
  <2>2. DeleteSnapshotStep(p, next) \/ (op' = next /\ UNCHANGED <<cow, status>>)
    BY <1>4
  <2> HIDE DEF next
  <2> QED
    BY <2>1, <2>2, <1>1, <1>2, <1>4, DeleteStepDoes
<1> QED
  BY <1>1, <1>3, <1>4, Zenon DEF RemoveInvalidSnapshot

(* An update begins. *)
LEMMA BeginUpdateLockedEffect ==
  ASSUME Types, BeginUpdateLocked
  PROVE  /\ op = Idle /\ slot # "off" /\ recovery = FALSE /\ begin = "ready" /\ begin' = "no"
         /\ \A p \in Partitions : cow'[p] = IF IsImageMapped(p) THEN cow[p] ELSE "absent"
         /\ (state = "None" /\ slot = "source" /\ Writes("Initiated", "NO_MERGE", "update")) \/ op' = op
         /\ UNCHANGED <<driver, meta, base, boot, power, dm, acks, reset, result, history, crashes, faults>>
<1> USE DEF Types
<1>1. /\ op = Idle /\ slot # "off" /\ recovery = FALSE /\ begin = "ready" /\ begin' = "no"
      /\ cow' = [p \in Partitions |-> IF IsImageMapped(p) THEN cow[p] ELSE "absent"]
      /\ (state = "None" /\ slot = "source" /\ op' = WriteUpdateState("Initiated", "update")) \/ op' = op
      /\ UNCHANGED <<driver, meta, base, boot, power, dm, acks, reset, result, history, crashes, faults>>
  BY Zenon DEF BeginUpdateLocked, AfterRemoveAllImages, IsIdle, FlagsOK
<1>2. op' = WriteUpdateState("Initiated", "update") => Writes("Initiated", "NO_MERGE", "update")
  BY WriteUpdateStateDoes DEF Operation, UpdateStates, StorageOK, Callers
<1> QED
  BY <1>1, <1>2

(* A snapshot is created. *)
LEMMA CreateSnapshotEffect ==
  ASSUME Types, NEW p \in Partitions, CreateSnapshot(p)
  PROVE  /\ op.pc = "create"
         /\ op' \in Operation /\ op'.pc \in {"create", "undo"} /\ op'.why = op.why
         /\ dm' = [dm EXCEPT ![p] = "none"]
         /\ UNCHANGED <<driver, state, phase, boot_ind, rollback_ind, forward_ind, base, boot, power,
                        client, history, crashes>>
         /\ \A q \in Partitions : status'[q] \in {status[q], "absent", "CREATED"}
<1> USE DEF Types
<1>1. /\ op.pc = "create"
      /\ dm' = [dm EXCEPT ![p] = "none"]
      /\ \/ /\ status' = [status EXCEPT ![p] = "CREATED"]
            /\ op' = [op EXCEPT !.todo = @ \ {p}, !.cur = @ \cup {p}]
         \/ DeleteSnapshotStep(p, op)
         \/ op' = [op EXCEPT !.pc = "undo", !.todo = op.cur] /\ UNCHANGED <<cow, status>>
      /\ UNCHANGED <<driver, state, phase, boot_ind, rollback_ind, forward_ind, base, boot, power,
                     client, history, crashes>>
  BY Zenon DEF CreateSnapshot
<1>2. CASE /\ status' = [status EXCEPT ![p] = "CREATED"]
           /\ op' = [op EXCEPT !.todo = @ \ {p}, !.cur = @ \cup {p}]
  <2>1. op' \in Operation /\ op'.pc = op.pc /\ op'.why = op.why
    BY <1>2 DEF Operation
  <2>2. \A q \in Partitions : status'[q] \in {status[q], "CREATED"}
    BY <1>2 DEF StorageOK
  <2> QED
    BY <1>1, <2>1, <2>2
<1>3. CASE DeleteSnapshotStep(p, op)
  BY <1>1, <1>3, DeleteStepDoes DEF Shrinks
<1>4. CASE op' = [op EXCEPT !.pc = "undo", !.todo = op.cur] /\ UNCHANGED <<cow, status>>
  <2>1. op' \in Operation /\ op'.pc = "undo" /\ op'.why = op.why
    BY <1>4 DEF Operation, OpSteps
  <2> QED
    BY <1>1, <1>4, <2>1
<1> QED
  BY <1>1, <1>2, <1>3, <1>4

(* The COWs are created. *)
LEMMA CreateCowImagesEffect ==
  ASSUME Types, CreateCowImages
  PROVE  /\ op.pc = "create"
         /\ Writes("Initiated", "NO_MERGE", "create") \/ (op' \in Operation /\ op'.pc = "undo" /\ op'.why = op.why)
         /\ UNCHANGED <<driver, meta, base, boot, power, dm, client, history, crashes>>
<1> USE DEF Types
<1>1. /\ op.pc = "create"
      /\ op' = WriteUpdateState("Initiated", "create") \/ op' = [op EXCEPT !.pc = "undo", !.todo = op.cur]
      /\ UNCHANGED <<driver, meta, base, boot, power, dm, client, history, crashes>>
  BY Zenon DEF CreateCowImages
<1>2. op' = WriteUpdateState("Initiated", "create") => Writes("Initiated", "NO_MERGE", "create")
  BY WriteUpdateStateDoes DEF Operation, UpdateStates, StorageOK, Callers
<1>3. op' = [op EXCEPT !.pc = "undo", !.todo = op.cur] => op' \in Operation /\ op'.pc = "undo" /\ op'.why = op.why
  BY DEF Operation, OpSteps
<1> QED
  BY <1>1, <1>2, <1>3

(* What was created is deleted again. *)
LEMMA UndoCreateEffect ==
  ASSUME Types, UndoCreate
  PROVE  /\ op.pc = "undo"
         /\ op' = Idle \/ (op' \in Operation /\ op'.pc = "undo" /\ op'.why = op.why)
         /\ Shrinks
         /\ UNCHANGED <<driver, state, phase, boot_ind, rollback_ind, forward_ind, base, boot, power, dm,
                        client, history, crashes, faults>>
<1> USE DEF Types
<1>1. /\ op.pc = "undo"
      /\ UNCHANGED <<driver, state, phase, boot_ind, rollback_ind, forward_ind, base, boot, power, dm,
                     client, history, crashes, faults>>
  BY Zenon DEF UndoCreate
<1>2. CASE op' = Idle /\ UNCHANGED <<cow, status>>
  BY <1>1, <1>2 DEF Shrinks
<1>3. ASSUME NEW p \in op.todo, DeleteSnapshotStep(p, [op EXCEPT !.todo = @ \ {p}])
      PROVE  Shrinks /\ op' \in Operation /\ op'.pc = "undo" /\ op'.why = op.why
  <2> DEFINE next == [op EXCEPT !.todo = @ \ {p}]
  <2>1. next \in Operation /\ next.pc = op.pc /\ next.why = op.why /\ p \in Partitions
    BY DEF Operation
  <2>2. DeleteSnapshotStep(p, next)
    BY <1>3
  <2> HIDE DEF next
  <2> QED
    BY <1>1, <2>1, <2>2, DeleteStepDoes
<1> QED
  BY <1>1, <1>2, <1>3, Zenon DEF UndoCreate

(* The rollback indicator of an earlier attempt goes. *)
LEMMA RemoveRollbackIndicatorEffect ==
  ASSUME Types, RemoveRollbackIndicator
  PROVE  /\ op.pc = "finish_rollback"
         /\ (rollback_ind' = FALSE /\ Goes("finish_boot")) \/ (op' = Idle /\ rollback_ind' = rollback_ind)
         /\ UNCHANGED <<driver, state, phase, status, boot_ind, forward_ind, disk, boot, power, dm, client,
                        history, crashes>>
<1>1. op' = [op EXCEPT !.pc = "finish_boot"] => Goes("finish_boot")
  BY DEF Goes, OpIs, Operation, OpSteps, Types
<1> QED
  BY <1>1, Zenon DEF RemoveRollbackIndicator

(* The boot indicator is written. *)
LEMMA WriteBootIndicatorEffect ==
  ASSUME Types, WriteBootIndicator
  PROVE  /\ op.pc = "finish_boot"
         /\ (boot_ind' = TRUE /\ Writes("Unverified", phase, "update")) \/ (op' = Idle /\ boot_ind' = boot_ind)
         /\ UNCHANGED <<driver, state, phase, status, rollback_ind, forward_ind, disk, boot, power, dm,
                        client, history, crashes>>
<1>1. op' = WriteUpdateState("Unverified", "update") => Writes("Unverified", phase, "update")
  BY WriteUpdateStateDoes DEF Types, Operation, UpdateStates, StorageOK, Callers
<1> QED
  BY <1>1, Zenon DEF WriteBootIndicator

(* A device is switched to merge. *)
LEMMA SwitchSnapshotToMergeEffect ==
  ASSUME Types, NEW p \in Partitions, SwitchSnapshotToMerge(p)
  PROVE  /\ op.pc = "switch" /\ p \in op.todo
         /\ \/ /\ dm[p] \in {"snapshot", "merging"} /\ dm' = [dm EXCEPT ![p] = "merging"]
               /\ OpIs(op', "mark", op.todo \ {p}, {p}, op.seen, op.why) /\ op'.phase = op.phase
            \/ /\ dm' = dm
               /\ OpIs(op', "switch", op.todo \ {p}, op.cur, op.seen, op.why) /\ op'.phase = op.phase
         /\ UNCHANGED <<driver, meta, disk, boot, power, client, history, crashes>>
<1>1. op' = [op EXCEPT !.pc = "mark", !.todo = @ \ {p}, !.cur = {p}] =>
        OpIs(op', "mark", op.todo \ {p}, {p}, op.seen, op.why) /\ op'.phase = op.phase
  <2>1. op \in Operation /\ {p} \in SUBSET Partitions /\ op.todo \ {p} \in SUBSET Partitions
    BY DEF Types, Operation
  <2> QED
    BY <2>1 DEF OpIs, Operation, OpSteps
<1>2. op' = [op EXCEPT !.ok = FALSE, !.todo = @ \ {p}] =>
        OpIs(op', op.pc, op.todo \ {p}, op.cur, op.seen, op.why) /\ op'.phase = op.phase
  BY DEF Types, OpIs, Operation
<1>3. /\ op.pc = "switch" /\ p \in op.todo
      /\ \/ /\ dm[p] \in {"snapshot", "merging"} /\ dm' = [dm EXCEPT ![p] = "merging"]
            /\ op' = [op EXCEPT !.pc = "mark", !.todo = @ \ {p}, !.cur = {p}]
         \/ dm' = dm /\ op' = [op EXCEPT !.ok = FALSE, !.todo = @ \ {p}]
      /\ UNCHANGED <<driver, meta, disk, boot, power, client, history, crashes>>
  BY Zenon DEF SwitchSnapshotToMerge
<1> QED
  BY <1>1, <1>2, <1>3

(* Its status says so. *)
LEMMA MarkMergingEffect ==
  ASSUME Types, NEW p \in Partitions, MarkMerging(p)
  PROVE  /\ op.pc = "mark" /\ p \in op.cur
         /\ OpIs(op', "switch", op.todo, {}, op.seen, op.why) /\ op'.phase = op.phase
         /\ status' = status \/ status' = [status EXCEPT ![p] = "MERGING"]
         /\ UNCHANGED <<driver, state, phase, boot_ind, rollback_ind, forward_ind, disk, boot, power, dm,
                        client, history, crashes>>
<1>1. op' = [op EXCEPT !.pc = "switch", !.cur = {}] =>
        OpIs(op', "switch", op.todo, {}, op.seen, op.why) /\ op'.phase = op.phase
  BY DEF Types, OpIs, Operation, OpSteps
<1> QED
  BY <1>1, Zenon DEF MarkMerging

(* All devices are switched. *)
LEMMA AllSwitchedEffect ==
  ASSUME Types, AllSwitched
  PROVE  /\ op.pc = "switch"
         /\ \/ op.why = "initiate" /\ op' = Idle /\ UNCHANGED client
            \/ op.why = "initiate" /\ Writes("MergeFailed", phase, "update") /\ UNCHANGED client
            \/ op.why = "second" /\ (Ends("Merging") \/ Ends("MergeFailed"))
         /\ UNCHANGED <<driver, meta, disk, boot, power, dm, history, crashes, faults>>
<1>1. op' = WriteUpdateState("MergeFailed", "update") => Writes("MergeFailed", phase, "update")
  BY WriteUpdateStateDoes DEF Types, Operation, UpdateStates, StorageOK, Callers
<1>2. /\ op.pc = "switch"
      /\ \/ op.why = "initiate" /\ op' = Idle /\ UNCHANGED client
         \/ op.why = "initiate" /\ op' = WriteUpdateState("MergeFailed", "update") /\ UNCHANGED client
         \/ op.why = "second" /\ (Return("Merging") \/ Return("MergeFailed"))
      /\ UNCHANGED <<driver, meta, disk, boot, power, dm, history, crashes, faults>>
  BY Zenon DEF AllSwitched
<1> QED
  BY <1>1, <1>2, ReturnEnds DEF Types

(* A poll has the answer r of p. *)
Saw(p, r, cur, why) ==
  OpIs(op', "poll", op.todo \ {p}, cur, op.seen \cup {r}, why)

LEMMA PollAnswers ==
  ASSUME NEW p \in Partitions
  PROVE  /\ PollAnswer(p) \in {"MergeFailed", "Merging", "None"}
         /\ PollAnswer(p) = "None" => DecideMergePhase(p) = "SECOND_PHASE" /\ phase = "FIRST_PHASE"
BY DEF PollAnswer

(* One partition answers a poll. *)
LEMMA CheckTargetMergeStateEffect ==
  ASSUME Types, NEW p \in Partitions, CheckTargetMergeState(p)
  PROVE  /\ op.pc = "poll" /\ p \in op.todo
         /\ \/ /\ status[p] = "MERGE_COMPLETED" /\ OpIs(op', "delete", op.todo, {p}, op.seen, "recheck")
               /\ UNCHANGED <<dm, status>>
            \/ /\ status[p] = "MERGING" /\ dm[p] = "snapshot" /\ dm' = [dm EXCEPT ![p] = "merging"]
               /\ Saw(p, "Merging", op.cur, op.why) /\ UNCHANGED status
            \/ /\ base[p] = "new" /\ IsSnapshotDevice(p) /\ status' = [status EXCEPT ![p] = "MERGE_COMPLETED"]
               /\ OpIs(op', "collapse", op.todo, {p}, op.seen, op.why) /\ UNCHANGED dm
            \/ /\ \E r \in {"MergeFailed", PollAnswer(p)} : Saw(p, r, op.cur, op.why)
               /\ UNCHANGED <<dm, status>>
         /\ UNCHANGED <<driver, state, phase, boot_ind, rollback_ind, forward_ind, disk, boot, power,
                        client, history, crashes>>
<1> DEFINE saw(r) == [op EXCEPT !.todo = @ \ {p}, !.seen = @ \cup {r}]
<1>1. /\ op.pc = "poll" /\ p \in op.todo
      /\ \/ /\ status[p] = "MERGE_COMPLETED"
            /\ op' = [op EXCEPT !.pc = "delete", !.cur = {p}, !.why = "recheck"]
            /\ UNCHANGED <<dm, status>>
         \/ /\ status[p] = "MERGING" /\ dm[p] = "snapshot" /\ dm' = [dm EXCEPT ![p] = "merging"]
            /\ op' = saw("Merging") /\ UNCHANGED status
         \/ /\ MergeDone(p) /\ status' = [status EXCEPT ![p] = "MERGE_COMPLETED"]
            /\ op' = [op EXCEPT !.pc = "collapse", !.cur = {p}] /\ UNCHANGED dm
         \/ (op' = saw("MergeFailed") \/ op' = saw(PollAnswer(p))) /\ UNCHANGED <<dm, status>>
      /\ UNCHANGED <<driver, state, phase, boot_ind, rollback_ind, forward_ind, disk, boot, power,
                     client, history, crashes>>
  BY Zenon DEF CheckTargetMergeState
<1>2. ASSUME NEW r \in Answers, op' = saw(r)
      PROVE  Saw(p, r, op.cur, op.why)
  <2>1. op \in Operation /\ op.todo \ {p} \in SUBSET Partitions /\ op.seen \cup {r} \in SUBSET Answers
    BY DEF Types, Operation
  <2> QED
    BY <2>1, <1>1, <1>2 DEF Saw, OpIs, Operation
<1>3. op \in Operation /\ {p} \in SUBSET Partitions
  BY DEF Types
<1>4. op' = [op EXCEPT !.pc = "delete", !.cur = {p}, !.why = "recheck"] =>
        OpIs(op', "delete", op.todo, {p}, op.seen, "recheck")
  BY <1>3 DEF OpIs, Operation, OpSteps, Callers
<1>5. op' = [op EXCEPT !.pc = "collapse", !.cur = {p}] => OpIs(op', "collapse", op.todo, {p}, op.seen, op.why)
  BY <1>3 DEF OpIs, Operation, OpSteps
<1>6. MergeDone(p) => base[p] = "new" /\ IsSnapshotDevice(p)
  BY DEF MergeDone, IsSnapshotDevice
<1>7. "Merging" \in Answers /\ "MergeFailed" \in Answers /\ PollAnswer(p) \in Answers
  BY PollAnswers DEF Answers
<1> HIDE DEF saw
<1> QED
  BY <1>1, <1>2, <1>4, <1>5, <1>6, <1>7

(* The device of a merged partition is collapsed. *)
LEMMA CollapseSnapshotDeviceEffect ==
  ASSUME Types, NEW p \in Partitions, CollapseSnapshotDevice(p)
  PROVE  /\ op.pc = "collapse" /\ p \in op.cur
         /\ \/ dm' = [dm EXCEPT ![p] = "linear"] /\ OpIs(op', "delete", op.todo, op.cur, op.seen, "merged")
            \/ dm' = dm /\ Saw(p, "MergeNeedsReboot", {}, op.why)
         /\ UNCHANGED <<driver, meta, disk, boot, power, client, history, crashes>>
<1>1. op \in Operation /\ op.todo \ {p} \in SUBSET Partitions /\ op.seen \cup {"MergeNeedsReboot"} \in SUBSET Answers
  BY DEF Types, Operation, Answers
<1>2. op' = [op EXCEPT !.pc = "delete", !.why = "merged"] => OpIs(op', "delete", op.todo, op.cur, op.seen, "merged")
  BY <1>1 DEF OpIs, Operation, OpSteps, Callers
<1>3. op' = [op EXCEPT !.pc = "poll", !.todo = @ \ {p}, !.cur = {}, !.seen = @ \cup {"MergeNeedsReboot"}] =>
        Saw(p, "MergeNeedsReboot", {}, op.why)
  BY <1>1 DEF Saw, OpIs, Operation, OpSteps
<1> QED
  BY <1>2, <1>3, Zenon DEF CollapseSnapshotDevice

(* The snapshot of a merged partition is deleted. *)
LEMMA DeleteMergedSnapshotEffect ==
  ASSUME Types, NEW p \in Partitions, DeleteMergedSnapshot(p)
  PROVE  /\ op.pc = "delete" /\ p \in op.cur
         /\ \/ op' = op /\ status' = status
            \/ \E r \in {"MergeCompleted", "MergeNeedsReboot"} : Saw(p, r, {}, "none")
         /\ \A q \in Partitions : q # p => cow'[q] = cow[q] /\ status'[q] = status[q]
         /\ status'[p] \in {status[p], "absent"}
         /\ UNCHANGED <<driver, state, phase, boot_ind, rollback_ind, forward_ind, base, boot, power, dm,
                        client, history, crashes>>
<1> DEFINE saw(r) == [op EXCEPT !.pc = "poll", !.todo = @ \ {p}, !.cur = {}, !.why = "none", !.seen = @ \cup {r}]
<1>1. ASSUME NEW r \in Answers, op' = saw(r)
      PROVE  Saw(p, r, {}, "none")
  <2>1. op \in Operation /\ op.todo \ {p} \in SUBSET Partitions /\ op.seen \cup {r} \in SUBSET Answers
    BY DEF Types, Operation
  <2> QED
    BY <2>1, <1>1 DEF Saw, OpIs, Operation, OpSteps, Callers
<1>2. /\ op.pc = "delete" /\ p \in op.cur
      /\ \/ DeleteSnapshotStep(p, saw("MergeCompleted"))
         \/ UNCHANGED <<cow, status>> /\ (op' = saw("MergeCompleted") \/ op' = saw("MergeNeedsReboot"))
      /\ UNCHANGED <<driver, state, phase, boot_ind, rollback_ind, forward_ind, base, boot, power, dm,
                     client, history, crashes>>
  BY Zenon DEF DeleteMergedSnapshot
<1> HIDE DEF saw
<1>3. DeleteSnapshotStep(p, saw("MergeCompleted")) =>
        /\ op' = saw("MergeCompleted") \/ UNCHANGED <<op, status>>
        /\ \A q \in Partitions : q # p => cow'[q] = cow[q] /\ status'[q] = status[q]
        /\ status'[p] \in {status[p], "absent"}
  BY DEF DeleteSnapshotStep, Types, StorageOK
<1> QED
  BY <1>1, <1>2, <1>3 DEF Answers

(* A removal starts. *)
LEMMA StartRemoveDoes ==
  ASSUME NEW why \in Callers, StartRemove(why)
  PROVE  OpIs(op', "remove", Snapshots, {}, {}, why)
<1>1. "remove" \in OpSteps /\ Snapshots \in SUBSET Partitions
  BY SnapshotSets DEF OpSteps
<1>2. op' = [Idle EXCEPT !.pc = "remove", !.todo = Snapshots, !.why = why]
  BY DEF StartRemove
<1> QED
  BY <1>1, <1>2, StartFields

(* The merge is acknowledged. *)
Acknowledges ==
  \/ recovery = TRUE /\ Writes("MergeCompleted", phase, "completed")
  \/ recovery = FALSE /\ OpIs(op', "remove", Snapshots, {}, {}, "success")

LEMMA AcknowledgeDoes ==
  ASSUME Types, AcknowledgeMergeSuccess
  PROVE  Acknowledges /\ UNCHANGED client
<1>1. op' = WriteUpdateState("MergeCompleted", "completed") => Writes("MergeCompleted", phase, "completed")
  BY WriteUpdateStateDoes DEF Types, Operation, UpdateStates, StorageOK, Callers
<1>2. StartRemove("success") => OpIs(op', "remove", Snapshots, {}, {}, "success")
  BY StartRemoveDoes DEF Callers
<1> QED
  BY <1>1, <1>2, Zenon DEF AcknowledgeMergeSuccess, Acknowledges, Types, FlagsOK

(* All partitions have answered. *)
LEMMA ConcludeMergeStateEffect ==
  ASSUME Types, ConcludeMergeState
  PROVE  /\ op.pc = "poll" /\ op.todo = {}
         /\ \/ (Ends("Merging") \/ Ends("MergeFailed")) /\ UNCHANGED aborted
            \/ /\ op.seen \cap {"Merging", "MergeFailed"} = {} /\ "None" \in op.seen
               /\ Writes("Merging", "SECOND_PHASE", "second")
               /\ Merge /\ phase = "FIRST_PHASE" => UNCHANGED aborted
               /\ UNCHANGED client
            \/ /\ op.seen \cap {"Merging", "MergeFailed", "None"} = {}
               /\ Writes("MergeNeedsReboot", phase, "needs_reboot") \/ Acknowledges
               /\ UNCHANGED <<client, aborted>>
         /\ UNCHANGED <<driver, meta, disk, boot, power, dm, waiting, crashes, faults>>
<1>1. op.pc = "poll" /\ op.todo = {} /\ UNCHANGED <<driver, meta, disk, boot, power, dm, waiting, crashes, faults>>
  BY Zenon DEF ConcludeMergeState
<1>2. CASE Return("Merging") /\ UNCHANGED aborted
  BY <1>1, <1>2, ReturnEnds DEF Types
<1>3. CASE Return("MergeFailed") /\ UNCHANGED aborted
  BY <1>1, <1>3, ReturnEnds DEF Types
<1>4. CASE /\ "Merging" \notin op.seen /\ "MergeFailed" \notin op.seen /\ "None" \in op.seen
           /\ aborted' = (aborted \/ ~(state \in {"Merging", "MergeFailed"} /\ phase = "FIRST_PHASE"))
           /\ op' = StartWrite("Merging", "SECOND_PHASE", "second") /\ UNCHANGED client
  <2>1. Writes("Merging", "SECOND_PHASE", "second")
    BY <1>4, StartWriteDoes DEF Types, UpdateStates, Phases, Callers
  <2>2. Merge /\ phase = "FIRST_PHASE" => aborted' = aborted
    BY <1>4, Zenon DEF Merge, Types, FlagsOK
  <2>3. op.seen \cap {"Merging", "MergeFailed"} = {}
    BY <1>4
  <2> QED
    BY <1>1, <1>4, <2>1, <2>2, <2>3
<1>5. CASE /\ op.seen \subseteq {"MergeCompleted", "MergeNeedsReboot"}
           /\ \/ op' = WriteUpdateState("MergeNeedsReboot", "needs_reboot") /\ UNCHANGED client
              \/ AcknowledgeMergeSuccess
           /\ UNCHANGED aborted
  <2>1. op' = WriteUpdateState("MergeNeedsReboot", "needs_reboot") => Writes("MergeNeedsReboot", phase, "needs_reboot")
    BY WriteUpdateStateDoes DEF Types, UpdateStates, StorageOK, Callers
  <2>2. op.seen \cap {"Merging", "MergeFailed", "None"} = {}
    BY <1>5
  <2> QED
    BY <1>1, <1>5, <2>1, <2>2, AcknowledgeDoes
<1> QED
  BY <1>2, <1>3, <1>4, <1>5, Zenon DEF ConcludeMergeState

(* A failed merge is recorded. *)
LEMMA AcknowledgeMergeFailureEffect ==
  ASSUME Types, AcknowledgeMergeFailure
  PROVE  /\ op = Idle /\ slot # "off" /\ acks > 0 /\ acks' = acks - 1
         /\ (state \in {"Merging", "MergeNeedsReboot"} /\ Writes("MergeFailed", phase, "update")) \/ op' = op
         /\ UNCHANGED <<driver, meta, disk, boot, power, dm, begin, reset, result, history, crashes, faults>>
<1>1. op' = WriteUpdateState("MergeFailed", "update") => Writes("MergeFailed", phase, "update")
  BY WriteUpdateStateDoes DEF Types, Operation, UpdateStates, StorageOK, Callers
<1> QED
  BY <1>1, Zenon DEF AcknowledgeMergeFailure, IsIdle

(* A wipe of the data comes. *)
LEMMA DataWipeProcessedEffect ==
  ASSUME Types, DataWipeProcessed
  PROVE  /\ op = Idle /\ slot # "off" /\ recovery = TRUE /\ reset = "wipe" /\ result # "none" /\ acks = 0
         /\ \/ /\ result = "MergeFailed" /\ reset' = "over"
               /\ UNCHANGED <<active, successful, op, dm, result>>
            \/ /\ CanInitiateMerge /\ Writes("Merging", FirstMergePhase, "initiate") /\ result' = "none"
               /\ UNCHANGED <<active, successful, dm, reset>>
            \/ /\ result # "MergeFailed"
               /\ \/ active' = "source" /\ result = "Unverified" /\ CurrentSlot = "Target"
                  \/ active' = active
               /\ dm' = [p \in Partitions |-> "none"]
               /\ \/ result = "None" /\ reset' = "zapped" /\ op' = op
                  \/ result # "None" /\ reset' = "zapping" /\ Writes("None", "NO_MERGE", "zap")
               /\ UNCHANGED result
         /\ UNCHANGED <<driver, meta, disk, hal, power, begin, acks, history, crashes>>
<1>1. op' = StartWrite("Merging", FirstMergePhase, "initiate") => Writes("Merging", FirstMergePhase, "initiate")
  BY StartWriteDoes DEF Types, UpdateStates, Phases, FirstMergePhase, Callers
<1>2. op' = WriteUpdateState("None", "zap") => Writes("None", "NO_MERGE", "zap")
  BY WriteUpdateStateDoes DEF Types, UpdateStates, StorageOK, Callers
<1> QED
  BY <1>1, <1>2, Zenon DEF DataWipeProcessed, IsIdle, Types, FlagsOK

(* An update is cancelled, or must be merged. *)
LEMMA BeginUpdateEffect ==
  ASSUME Types, BeginUpdate
  PROVE  /\ op = Idle /\ slot # "off" /\ recovery = FALSE /\ begin = "no" /\ active = slot
         /\ \/ begin' \in {begin, "polling"} /\ op' = op
            \/ /\ begin' \in {begin, "cancelling"} /\ state = "None"
               /\ op' \in Operation /\ op'.pc = "stale" /\ op'.why = "begin"
            \/ /\ begin' \in {begin, "cancelling"}
               /\ state = "Initiated" \/ (state = "Unverified" /\ CurrentSlot # "Target")
               /\ OpIs(op', "remove", Snapshots, {}, {}, "begin")
         /\ waiting' = FALSE
         /\ UNCHANGED <<driver, meta, disk, boot, power, dm, acks, reset, result, aborted, crashes, faults>>
<1> DEFINE stale == {p \in SnapshotsOfThisSlot : dm[p] = "linear"}
<1>1. "stale" \in OpSteps /\ "begin" \in Callers /\ stale \in SUBSET Partitions
  BY SnapshotSets DEF OpSteps, Callers
<1>2. /\ op = Idle /\ slot # "off" /\ recovery = FALSE /\ begin = "no" /\ active = slot
      /\ TryCancelUpdate("begin")
      /\ waiting' = FALSE
      /\ UNCHANGED <<driver, meta, disk, boot, power, dm, aborted, crashes, faults>>
  BY Zenon DEF BeginUpdate, IsIdle, Types, FlagsOK
<1> HIDE DEF stale
<1>3. op' = [Idle EXCEPT !.pc = "stale", !.why = "begin", !.todo = stale] => OpIs(op', "stale", stale, {}, {}, "begin")
  BY <1>1, IdleType, IdleFields DEF OpIs, Operation
<1>4. StartRemove("begin") => OpIs(op', "remove", Snapshots, {}, {}, "begin")
  BY <1>1, StartRemoveDoes
<1>5. CASE state \notin {"None", "Initiated"} /\ (state = "Unverified" => CurrentSlot = "Target")
  BY <1>2, <1>5 DEF TryCancelUpdate
<1>6. CASE state = "None"
  <2>1. /\ op' = [Idle EXCEPT !.pc = "stale", !.why = "begin", !.todo = stale]
        /\ begin' \in {begin, "cancelling"} /\ UNCHANGED <<acks, reset, result>>
    BY <1>2, <1>6 DEF TryCancelUpdate, stale
  <2> QED
    BY <1>2, <1>3, <1>6, <2>1 DEF OpIs
<1>7. CASE state = "Initiated" \/ (state = "Unverified" /\ CurrentSlot # "Target")
  <2>1. StartRemove("begin") /\ begin' \in {begin, "cancelling"} /\ UNCHANGED <<acks, reset, result>>
    BY <1>2, <1>7 DEF TryCancelUpdate
  <2> QED
    BY <1>2, <1>4, <1>7, <2>1
<1> QED
  BY <1>5, <1>6, <1>7

(* An update is cancelled, or must be merged. *)
LEMMA CancelUpdateEffect ==
  ASSUME Types, CancelUpdate
  PROVE  /\ op = Idle /\ slot # "off" /\ recovery = FALSE /\ begin = "no" /\ active = slot
         /\ \/ begin' \in {begin, "polling"} /\ op' = op
            \/ /\ begin' \in {begin, "cancelling"} /\ state = "None"
               /\ op' \in Operation /\ op'.pc = "stale" /\ op'.why = "cancel"
            \/ /\ begin' \in {begin, "cancelling"}
               /\ state = "Initiated" \/ (state = "Unverified" /\ CurrentSlot # "Target")
               /\ OpIs(op', "remove", Snapshots, {}, {}, "cancel")
         /\ waiting' = FALSE
         /\ UNCHANGED <<driver, meta, disk, boot, power, dm, acks, reset, result, aborted, crashes, faults>>
<1> DEFINE stale == {p \in SnapshotsOfThisSlot : dm[p] = "linear"}
<1>1. "stale" \in OpSteps /\ "cancel" \in Callers /\ stale \in SUBSET Partitions
  BY SnapshotSets DEF OpSteps, Callers
<1>2. /\ op = Idle /\ slot # "off" /\ recovery = FALSE /\ begin = "no" /\ active = slot
      /\ TryCancelUpdate("cancel")
      /\ waiting' = FALSE
      /\ UNCHANGED <<driver, meta, disk, boot, power, dm, aborted, crashes, faults>>
  BY Zenon DEF CancelUpdate, IsIdle, Types, FlagsOK
<1> HIDE DEF stale
<1>3. op' = [Idle EXCEPT !.pc = "stale", !.why = "cancel", !.todo = stale] => OpIs(op', "stale", stale, {}, {}, "cancel")
  BY <1>1, IdleType, IdleFields DEF OpIs, Operation
<1>4. StartRemove("cancel") => OpIs(op', "remove", Snapshots, {}, {}, "cancel")
  BY <1>1, StartRemoveDoes
<1>5. CASE state \notin {"None", "Initiated"} /\ (state = "Unverified" => CurrentSlot = "Target")
  BY <1>2, <1>5 DEF TryCancelUpdate
<1>6. CASE state = "None"
  <2>1. /\ op' = [Idle EXCEPT !.pc = "stale", !.why = "cancel", !.todo = stale]
        /\ begin' \in {begin, "cancelling"} /\ UNCHANGED <<acks, reset, result>>
    BY <1>2, <1>6 DEF TryCancelUpdate, stale
  <2> QED
    BY <1>2, <1>3, <1>6, <2>1 DEF OpIs
<1>7. CASE state = "Initiated" \/ (state = "Unverified" /\ CurrentSlot # "Target")
  <2>1. StartRemove("cancel") /\ begin' \in {begin, "cancelling"} /\ UNCHANGED <<acks, reset, result>>
    BY <1>2, <1>7 DEF TryCancelUpdate
  <2> QED
    BY <1>2, <1>4, <1>7, <2>1
<1> QED
  BY <1>5, <1>6, <1>7

(* The snapshots of an update are created. *)
LEMMA CreateUpdateSnapshotsEffect ==
  ASSUME Types, CreateUpdateSnapshots
  PROVE  /\ op = Idle /\ slot = "source" /\ recovery = FALSE /\ begin = "no" /\ state = "Initiated"
         /\ OpIs(op', "create", Partitions, {}, {}, "none")
         /\ UNCHANGED <<driver, meta, disk, boot, power, dm, client, history, crashes, faults>>
<1>1. "create" \in OpSteps /\ Partitions \in SUBSET Partitions /\ "none" \in Callers
  BY DEF OpSteps, Callers
<1>2. op' = [Idle EXCEPT !.pc = "create", !.todo = Partitions] => OpIs(op', "create", Partitions, {}, {}, "none")
  BY <1>1, StartFields
<1> QED
  BY <1>2, Zenon DEF CreateUpdateSnapshots, IsIdle, Types, FlagsOK

(* The update is written. *)
LEMMA FinishedSnapshotWritesEffect ==
  ASSUME Types, NEW wipe \in BOOLEAN, FinishedSnapshotWrites(wipe)
  PROVE  /\ op = Idle /\ slot = "source" /\ recovery = FALSE /\ begin = "no" /\ state = "Initiated"
         /\ Snapshots = Partitions /\ \A p \in Partitions : cow[p] = "full"
         /\ op' = Idle \/ OpIs(op', "finish_rollback", {}, {}, {}, "none")
         /\ UNCHANGED <<driver, state, phase, status, boot_ind, rollback_ind, disk, boot, power, dm, client,
                        history, crashes>>
<1>1. "finish_rollback" \in OpSteps /\ {} \in SUBSET Partitions /\ "none" \in Callers
  BY DEF OpSteps, Callers
<1>2. op' = [Idle EXCEPT !.pc = "finish_rollback"] => OpIs(op', "finish_rollback", {}, {}, {}, "none")
  BY <1>1, StartFields
<1> QED
  BY <1>2, Zenon DEF FinishedSnapshotWrites, IsIdle, Types, FlagsOK

(* A merge is initiated. *)
LEMMA InitiateMergeEffect ==
  ASSUME Types, InitiateMerge
  PROVE  /\ op = Idle /\ slot # "off" /\ recovery = FALSE /\ CanInitiateMerge
         /\ Writes("Merging", FirstMergePhase, "initiate")
         /\ UNCHANGED <<driver, meta, disk, boot, power, dm, client, history, crashes, faults>>
<1>1. op' = StartWrite("Merging", FirstMergePhase, "initiate") => Writes("Merging", FirstMergePhase, "initiate")
  BY StartWriteDoes DEF Types, UpdateStates, Phases, FirstMergePhase, Callers
<1> QED
  BY <1>1, Zenon DEF InitiateMerge, IsIdle, Types, FlagsOK

(* The state of a merge is checked. *)
LEMMA CheckMergeStateEffect ==
  ASSUME Types, CheckMergeState
  PROVE  /\ op = Idle /\ slot # "off" /\ acks < MaxAcks
         /\ recovery = TRUE => reset \in {"wipe", "finish"} /\ result = "none"
         /\ \/ state \in {"None", "Initiated", "Unverified"} /\ Ends(state)
            \/ state = "MergeCompleted" /\ Acknowledges /\ UNCHANGED client
            \/ /\ state = "Unverified" /\ IsCancelledUpdate
               /\ OpIs(op', "remove", Snapshots, {}, {}, "cancelled") /\ UNCHANGED client
            \/ /\ state \in {"Merging", "MergeNeedsReboot", "MergeFailed"}
               /\ OpIs(op', "poll", SnapshotsOfThisSlot, {}, {}, "none") /\ UNCHANGED client
            \/ Ends("MergeFailed")
         /\ UNCHANGED <<driver, meta, disk, boot, power, dm, history, crashes>>
<1>1. "poll" \in OpSteps /\ SnapshotsOfThisSlot \in SUBSET Partitions /\ "none" \in Callers /\ "cancelled" \in Callers
  BY SnapshotSets DEF OpSteps, Callers
<1>2. op' = [Idle EXCEPT !.pc = "poll", !.todo = SnapshotsOfThisSlot] =>
        OpIs(op', "poll", SnapshotsOfThisSlot, {}, {}, "none")
  BY <1>1, StartFields
<1>3. StartRemove("cancelled") => OpIs(op', "remove", Snapshots, {}, {}, "cancelled")
  BY <1>1, StartRemoveDoes
<1>4. (Return(state) => Ends(state)) /\ (Return("MergeFailed") => Ends("MergeFailed"))
  BY ReturnEnds DEF Types
<1>5. AcknowledgeMergeSuccess => Acknowledges /\ UNCHANGED client
  BY AcknowledgeDoes
<1>6. /\ op = Idle /\ slot # "off" /\ acks < MaxAcks
      /\ recovery = TRUE => reset \in {"wipe", "finish"} /\ result = "none"
      /\ \/ state \in {"None", "Initiated"} /\ Return(state)
         \/ state = "MergeCompleted" /\ AcknowledgeMergeSuccess
         \/ /\ state = "Unverified"
            /\ \/ IsCancelledUpdate /\ StartRemove("cancelled") /\ UNCHANGED client
               \/ Return(state)
         \/ /\ state \in {"Merging", "MergeNeedsReboot", "MergeFailed"}
            /\ op' = [Idle EXCEPT !.pc = "poll", !.todo = SnapshotsOfThisSlot]
            /\ UNCHANGED client
         \/ Return("MergeFailed")
      /\ UNCHANGED <<driver, meta, disk, boot, power, dm, history, crashes>>
  BY Zenon DEF CheckMergeState, IsIdle
<1> QED
  BY <1>2, <1>3, <1>4, <1>5, <1>6

-----------------------------------------------------------------------------
(* Types *)

(* Every write has somebody who asked for it. *)
LEMMA ReasonsKnown ==
  ASSUME Inv, Writing
  PROVE  op.why \notin {"none", "recheck", "merged"}
BY DEF Inv, Types, WritesTrue, Writing, Operation, UpdateStates

(* Flags stay flags. *)
LEMMA StepFlags ==
  ASSUME FlagsOK, [Next]_vars
  PROVE  FlagsOK'
<1> USE DEF FlagsOK, meta, disk, boot, power, client, history
<1>1. CASE WriteHal
  BY <1>1, Zenon DEF WriteHal, Written, Removed, Return, MergeStatus, SetBeforeWrite
<1>2. CASE WriteFile
  BY <1>2, Zenon DEF WriteFile, Written, Removed, Return, SetBeforeWrite
<1>3. CASE \E p \in Partitions : RemoveSnapshot(p)
  BY <1>3, Zenon DEF RemoveSnapshot, DeleteSnapshotStep
<1>4. CASE RemoveImages
  BY <1>4, Zenon DEF RemoveImages, AfterRemoveAllImages, Removed, Return
<1>5. CASE UnlinkIndicator
  BY <1>5, Zenon DEF UnlinkIndicator, Unlink, WriteUpdateState, StartWrite
<1>6. CASE RemoveInvalidSnapshot
  BY <1>6, Zenon DEF RemoveInvalidSnapshot, DeleteSnapshotStep, Removed, Return
<1>7. CASE BeginUpdateLocked
  BY <1>7, Zenon DEF BeginUpdateLocked, AfterRemoveAllImages, WriteUpdateState, StartWrite
<1>8. CASE \E p \in Partitions : CreateSnapshot(p)
  BY <1>8, Zenon DEF CreateSnapshot, DeleteSnapshotStep
<1>9. CASE CreateCowImages
  BY <1>9, Zenon DEF CreateCowImages, WriteUpdateState, StartWrite
<1>10. CASE UndoCreate
  BY <1>10, Zenon DEF UndoCreate, DeleteSnapshotStep
<1>11. CASE RemoveRollbackIndicator
  BY <1>11, Zenon DEF RemoveRollbackIndicator
<1>12. CASE WriteBootIndicator
  BY <1>12, Zenon DEF WriteBootIndicator, WriteUpdateState, StartWrite
<1>13. CASE \E p \in Partitions : SwitchSnapshotToMerge(p)
  BY <1>13, Zenon DEF SwitchSnapshotToMerge
<1>14. CASE \E p \in Partitions : MarkMerging(p)
  BY <1>14, Zenon DEF MarkMerging
<1>15. CASE AllSwitched
  BY <1>15, Zenon DEF AllSwitched, Return, WriteUpdateState, StartWrite
<1>16. CASE \E p \in Partitions : CheckTargetMergeState(p)
  BY <1>16, Zenon DEF CheckTargetMergeState, PollAnswer
<1>17. CASE \E p \in Partitions : CollapseSnapshotDevice(p)
  BY <1>17, Zenon DEF CollapseSnapshotDevice
<1>18. CASE \E p \in Partitions : DeleteMergedSnapshot(p)
  BY <1>18, Zenon DEF DeleteMergedSnapshot, DeleteSnapshotStep
<1>19. CASE ConcludeMergeState
  BY <1>19, Zenon DEF ConcludeMergeState, Return, WriteUpdateState, StartWrite, AcknowledgeMergeSuccess, StartRemove
<1>20. CASE AcknowledgeMergeFailure
  BY <1>20, Zenon DEF AcknowledgeMergeFailure, WriteUpdateState, StartWrite
<1>21. CASE DataWipeProcessed
  BY <1>21, Zenon DEF DataWipeProcessed, WriteUpdateState, StartWrite, CanInitiateMerge, FirstMergePhase
<1>22. CASE WipeData
  BY <1>22, Zenon DEF WipeData
<1>23. CASE FinishMergeInRecovery
  BY <1>23, Zenon DEF FinishMergeInRecovery
<1>24. CASE BeginUpdate
  BY <1>24, Zenon DEF BeginUpdate, TryCancelUpdate, StartRemove
<1>25. CASE CancelUpdate
  BY <1>25, Zenon DEF CancelUpdate, TryCancelUpdate, StartRemove
<1>26. CASE CreateUpdateSnapshots
  BY <1>26, Zenon DEF CreateUpdateSnapshots
<1>27. CASE \E p \in Partitions : WriteSnapshot(p)
  BY <1>27, Zenon DEF WriteSnapshot
<1>28. CASE MapAllSnapshots
  BY <1>28, Zenon DEF MapAllSnapshots
<1>29. CASE UnmapAllSnapshots
  BY <1>29, Zenon DEF UnmapAllSnapshots
<1>30. CASE \E wipe \in BOOLEAN : FinishedSnapshotWrites(wipe)
  BY <1>30, Zenon DEF FinishedSnapshotWrites
<1>31. CASE SetActiveBootSlot
  BY <1>31, Zenon DEF SetActiveBootSlot
<1>32. CASE MarkBootSuccessful
  BY <1>32, Zenon DEF MarkBootSuccessful
<1>33. CASE InitiateMerge
  BY <1>33, Zenon DEF InitiateMerge, StartWrite, CanInitiateMerge, FirstMergePhase
<1>34. CASE CheckMergeState
  BY <1>34, Zenon DEF CheckMergeState, Return, WriteUpdateState, StartWrite, AcknowledgeMergeSuccess, StartRemove
<1>35. CASE \E p \in Partitions : MergeProgress(p)
  BY <1>35, Zenon DEF MergeProgress
<1>36. CASE \E p \in Partitions : MergeFails(p)
  BY <1>36, Zenon DEF MergeFails
<1>37. CASE Crash
  BY <1>37, Zenon DEF Crash, GoDown
<1>38. CASE Reboot
  BY <1>38, Zenon DEF Reboot, GoDown
<1>39. CASE BootSource
  BY <1>39, Zenon DEF BootSource
<1>40. CASE BootTarget
  BY <1>40, Zenon DEF BootTarget, MapTarget
<1>41. CASE FallBack
  BY <1>41, Zenon DEF FallBack
<1>42. CASE BootRecovery
  BY <1>42, Zenon DEF BootRecovery
<1>43. CASE \E why \in {"wipe", "finish"} : CreateLogicalAndSnapshotPartitions(why)
  BY <1>43, Zenon DEF CreateLogicalAndSnapshotPartitions, MapTarget
<1>44. CASE UNCHANGED vars
  BY <1>44, Zenon DEF vars
<1> QED
  BY <1>1, <1>2, <1>3, <1>4, <1>5, <1>6, <1>7, <1>8, <1>9, <1>10, <1>11,
     <1>12, <1>13, <1>14, <1>15, <1>16, <1>17, <1>18, <1>19, <1>20, <1>21, <1>22,
     <1>23, <1>24, <1>25, <1>26, <1>27, <1>28, <1>29, <1>30, <1>31, <1>32, <1>33,
     <1>34, <1>35, <1>36, <1>37, <1>38, <1>39, <1>40, <1>41, <1>42, <1>43, <1>44, Zenon
  DEF Next, Steps, BootUp

(* What is stored. *)
LEMMA StepStorage ==
  ASSUME op \in Operation, StorageOK, [Next]_vars
  PROVE  StorageOK'
<1> USE DEF StorageOK, Operation, UpdateStates, Phases, IsIdle, meta, disk, boot, power, client, history
<1>1. CASE WriteHal
  BY <1>1 DEF WriteHal, Written, Removed, Return, MergeStatus, SetBeforeWrite
<1>2. CASE WriteFile
  BY <1>2 DEF WriteFile, Written, Removed, Return, SetBeforeWrite
<1>3. CASE \E p \in Partitions : RemoveSnapshot(p)
  BY <1>3 DEF RemoveSnapshot, DeleteSnapshotStep
<1>4. CASE RemoveImages
  BY <1>4 DEF RemoveImages, AfterRemoveAllImages, Removed, Return
<1>5. CASE UnlinkIndicator
  BY <1>5 DEF UnlinkIndicator, Unlink, WriteUpdateState, StartWrite
<1>6. CASE RemoveInvalidSnapshot
  BY <1>6 DEF RemoveInvalidSnapshot, DeleteSnapshotStep, Removed, Return
<1>7. CASE BeginUpdateLocked
  BY <1>7 DEF BeginUpdateLocked, AfterRemoveAllImages, WriteUpdateState, StartWrite
<1>8. CASE \E p \in Partitions : CreateSnapshot(p)
  BY <1>8 DEF CreateSnapshot, DeleteSnapshotStep
<1>9. CASE CreateCowImages
  BY <1>9 DEF CreateCowImages, WriteUpdateState, StartWrite
<1>10. CASE UndoCreate
  BY <1>10 DEF UndoCreate, DeleteSnapshotStep
<1>11. CASE RemoveRollbackIndicator
  BY <1>11 DEF RemoveRollbackIndicator
<1>12. CASE WriteBootIndicator
  BY <1>12 DEF WriteBootIndicator, WriteUpdateState, StartWrite
<1>13. CASE \E p \in Partitions : SwitchSnapshotToMerge(p)
  BY <1>13 DEF SwitchSnapshotToMerge
<1>14. CASE \E p \in Partitions : MarkMerging(p)
  BY <1>14 DEF MarkMerging
<1>15. CASE AllSwitched
  BY <1>15 DEF AllSwitched, Return, WriteUpdateState, StartWrite
<1>16. CASE \E p \in Partitions : CheckTargetMergeState(p)
  BY <1>16 DEF CheckTargetMergeState, PollAnswer
<1>17. CASE \E p \in Partitions : CollapseSnapshotDevice(p)
  BY <1>17 DEF CollapseSnapshotDevice
<1>18. CASE \E p \in Partitions : DeleteMergedSnapshot(p)
  BY <1>18 DEF DeleteMergedSnapshot, DeleteSnapshotStep
<1>19. CASE ConcludeMergeState
  BY <1>19 DEF ConcludeMergeState, Return, WriteUpdateState, StartWrite, AcknowledgeMergeSuccess, StartRemove
<1>20. CASE AcknowledgeMergeFailure
  BY <1>20 DEF AcknowledgeMergeFailure, WriteUpdateState, StartWrite
<1>21. CASE DataWipeProcessed
  BY <1>21 DEF DataWipeProcessed, WriteUpdateState, StartWrite, CanInitiateMerge, FirstMergePhase
<1>22. CASE WipeData
  BY <1>22 DEF WipeData
<1>23. CASE FinishMergeInRecovery
  BY <1>23 DEF FinishMergeInRecovery
<1>24. CASE BeginUpdate
  BY <1>24 DEF BeginUpdate, TryCancelUpdate, StartRemove
<1>25. CASE CancelUpdate
  BY <1>25 DEF CancelUpdate, TryCancelUpdate, StartRemove
<1>26. CASE CreateUpdateSnapshots
  BY <1>26 DEF CreateUpdateSnapshots
<1>27. CASE \E p \in Partitions : WriteSnapshot(p)
  BY <1>27 DEF WriteSnapshot
<1>28. CASE MapAllSnapshots
  BY <1>28 DEF MapAllSnapshots
<1>29. CASE UnmapAllSnapshots
  BY <1>29 DEF UnmapAllSnapshots
<1>30. CASE \E wipe \in BOOLEAN : FinishedSnapshotWrites(wipe)
  BY <1>30 DEF FinishedSnapshotWrites
<1>31. CASE SetActiveBootSlot
  BY <1>31 DEF SetActiveBootSlot
<1>32. CASE MarkBootSuccessful
  BY <1>32 DEF MarkBootSuccessful
<1>33. CASE InitiateMerge
  BY <1>33 DEF InitiateMerge, StartWrite, CanInitiateMerge, FirstMergePhase
<1>34. CASE CheckMergeState
  BY <1>34 DEF CheckMergeState, Return, WriteUpdateState, StartWrite, AcknowledgeMergeSuccess, StartRemove
<1>35. CASE \E p \in Partitions : MergeProgress(p)
  BY <1>35 DEF MergeProgress
<1>36. CASE \E p \in Partitions : MergeFails(p)
  BY <1>36 DEF MergeFails
<1>37. CASE Crash
  BY <1>37 DEF Crash, GoDown
<1>38. CASE Reboot
  BY <1>38 DEF Reboot, GoDown
<1>39. CASE BootSource
  BY <1>39 DEF BootSource
<1>40. CASE BootTarget
  BY <1>40 DEF BootTarget, MapTarget
<1>41. CASE FallBack
  BY <1>41 DEF FallBack
<1>42. CASE BootRecovery
  BY <1>42 DEF BootRecovery
<1>43. CASE \E why \in {"wipe", "finish"} : CreateLogicalAndSnapshotPartitions(why)
  BY <1>43 DEF CreateLogicalAndSnapshotPartitions, MapTarget
<1>44. CASE UNCHANGED vars
  BY <1>44 DEF vars
<1> QED
  BY <1>1, <1>2, <1>3, <1>4, <1>5, <1>6, <1>7, <1>8, <1>9, <1>10, <1>11,
     <1>12, <1>13, <1>14, <1>15, <1>16, <1>17, <1>18, <1>19, <1>20, <1>21, <1>22,
     <1>23, <1>24, <1>25, <1>26, <1>27, <1>28, <1>29, <1>30, <1>31, <1>32, <1>33,
     <1>34, <1>35, <1>36, <1>37, <1>38, <1>39, <1>40, <1>41, <1>42, <1>43, <1>44, Zenon
  DEF Next, Steps, BootUp

(* The device. *)
LEMMA StepDevice ==
  ASSUME op \in Operation, StorageOK, DeviceOK, [Next]_vars
  PROVE  DeviceOK'
<1> USE DEF StorageOK, DeviceOK, Operation, IsIdle, Live, meta, disk, boot, power, client, history
<1>1. CASE WriteHal
  BY <1>1 DEF WriteHal, MergeStatus, SetBeforeWrite
<1>2. CASE WriteFile
  BY <1>2 DEF WriteFile, SetBeforeWrite
<1>3. CASE \E p \in Partitions : RemoveSnapshot(p)
  BY <1>3 DEF RemoveSnapshot, DeleteSnapshotStep
<1>4. CASE RemoveImages
  BY <1>4 DEF RemoveImages, AfterRemoveAllImages
<1>5. CASE UnlinkIndicator
  BY <1>5 DEF UnlinkIndicator, Unlink, WriteUpdateState, StartWrite
<1>6. CASE RemoveInvalidSnapshot
  BY <1>6 DEF RemoveInvalidSnapshot, DeleteSnapshotStep
<1>7. CASE BeginUpdateLocked
  BY <1>7 DEF BeginUpdateLocked, AfterRemoveAllImages, WriteUpdateState, StartWrite
<1>8. CASE \E p \in Partitions : CreateSnapshot(p)
  BY <1>8 DEF CreateSnapshot, DeleteSnapshotStep
<1>9. CASE CreateCowImages
  BY <1>9 DEF CreateCowImages, WriteUpdateState, StartWrite
<1>10. CASE UndoCreate
  BY <1>10 DEF UndoCreate, DeleteSnapshotStep
<1>11. CASE RemoveRollbackIndicator
  BY <1>11 DEF RemoveRollbackIndicator
<1>12. CASE WriteBootIndicator
  BY <1>12 DEF WriteBootIndicator, WriteUpdateState, StartWrite
<1>13. CASE \E p \in Partitions : SwitchSnapshotToMerge(p)
  BY <1>13 DEF SwitchSnapshotToMerge
<1>14. CASE \E p \in Partitions : MarkMerging(p)
  BY <1>14 DEF MarkMerging
<1>15. CASE AllSwitched
  BY <1>15 DEF AllSwitched, WriteUpdateState, StartWrite
<1>16. CASE \E p \in Partitions : CheckTargetMergeState(p)
  BY <1>16 DEF CheckTargetMergeState, PollAnswer
<1>17. CASE \E p \in Partitions : CollapseSnapshotDevice(p)
  BY <1>17 DEF CollapseSnapshotDevice
<1>18. CASE \E p \in Partitions : DeleteMergedSnapshot(p)
  BY <1>18 DEF DeleteMergedSnapshot, DeleteSnapshotStep
<1>19. CASE ConcludeMergeState
  BY <1>19 DEF ConcludeMergeState, WriteUpdateState, StartWrite, AcknowledgeMergeSuccess, StartRemove
<1>20. CASE AcknowledgeMergeFailure
  BY <1>20 DEF AcknowledgeMergeFailure, WriteUpdateState, StartWrite
<1>21. CASE DataWipeProcessed
  BY <1>21 DEF DataWipeProcessed, WriteUpdateState, StartWrite, CanInitiateMerge, FirstMergePhase
<1>22. CASE WipeData
  BY <1>22 DEF WipeData
<1>23. CASE FinishMergeInRecovery
  BY <1>23 DEF FinishMergeInRecovery
<1>24. CASE BeginUpdate
  BY <1>24 DEF BeginUpdate, TryCancelUpdate, StartRemove
<1>25. CASE CancelUpdate
  BY <1>25 DEF CancelUpdate, TryCancelUpdate, StartRemove
<1>26. CASE CreateUpdateSnapshots
  BY <1>26 DEF CreateUpdateSnapshots
<1>27. CASE \E p \in Partitions : WriteSnapshot(p)
  BY <1>27 DEF WriteSnapshot
<1>28. CASE MapAllSnapshots
  BY <1>28 DEF MapAllSnapshots
<1>29. CASE UnmapAllSnapshots
  BY <1>29 DEF UnmapAllSnapshots
<1>30. CASE \E wipe \in BOOLEAN : FinishedSnapshotWrites(wipe)
  BY <1>30 DEF FinishedSnapshotWrites
<1>31. CASE SetActiveBootSlot
  BY <1>31 DEF SetActiveBootSlot
<1>32. CASE MarkBootSuccessful
  BY <1>32 DEF MarkBootSuccessful
<1>33. CASE InitiateMerge
  BY <1>33 DEF InitiateMerge, StartWrite, CanInitiateMerge, FirstMergePhase
<1>34. CASE CheckMergeState
  BY <1>34 DEF CheckMergeState, WriteUpdateState, StartWrite, AcknowledgeMergeSuccess, StartRemove
<1>35. CASE \E p \in Partitions : MergeProgress(p)
  BY <1>35 DEF MergeProgress
<1>36. CASE \E p \in Partitions : MergeFails(p)
  BY <1>36 DEF MergeFails
<1>37. CASE Crash
  BY <1>37 DEF Crash, GoDown
<1>38. CASE Reboot
  BY <1>38 DEF Reboot, GoDown
<1>39. CASE BootSource
  BY <1>39 DEF BootSource
<1>40. CASE BootTarget
  BY <1>40 DEF BootTarget, MapTarget
<1>41. CASE FallBack
  BY <1>41 DEF FallBack
<1>42. CASE BootRecovery
  BY <1>42 DEF BootRecovery
<1>43. CASE \E why \in {"wipe", "finish"} : CreateLogicalAndSnapshotPartitions(why)
  BY <1>43 DEF CreateLogicalAndSnapshotPartitions, MapTarget
<1>44. CASE UNCHANGED vars
  BY <1>44 DEF vars
<1> QED
  BY <1>1, <1>2, <1>3, <1>4, <1>5, <1>6, <1>7, <1>8, <1>9, <1>10, <1>11,
     <1>12, <1>13, <1>14, <1>15, <1>16, <1>17, <1>18, <1>19, <1>20, <1>21, <1>22,
     <1>23, <1>24, <1>25, <1>26, <1>27, <1>28, <1>29, <1>30, <1>31, <1>32, <1>33,
     <1>34, <1>35, <1>36, <1>37, <1>38, <1>39, <1>40, <1>41, <1>42, <1>43, <1>44, Zenon
  DEF Next, Steps, BootUp

(* The operation stays one. *)
LEMMA StepOperation ==
  ASSUME Inv, [Next]_vars
  PROVE  (op \in Operation)'
<1>0. Types
  BY DEF Inv
<1>a. Writing => op.why \notin {"none", "recheck", "merged"}
  BY ReasonsKnown
<1>b. op.pc \in {"remove", "stale"} => op.why \in {"begin", "cancel", "success", "again", "cancelled"}
  BY DEF Inv, RemovesTrue
<1> USE <1>0, IdleType, IdleFields DEF Types, meta, disk, boot, power, client, history
<1>1. CASE WriteHal
  <2>1. Writing
    BY <1>1, Zenon DEF WriteHal, Writing
  <2> QED
    BY <1>1, <2>1, WriteHalEffect, <1>a DEF Goes, OpIs, EndsWrite, EndsRemoval, Ends, GoesSwitching
<1>2. CASE WriteFile
  <2>1. Writing
    BY <1>2, Zenon DEF WriteFile, Writing
  <2> QED
    BY <1>2, <2>1, WriteFileEffect, <1>a DEF Goes, OpIs, EndsWrite, EndsRemoval, Ends, GoesSwitching
<1>3. ASSUME NEW p \in Partitions, RemoveSnapshot(p)
      PROVE  (op \in Operation)'
  BY <1>3, RemoveSnapshotEffect DEF Shrinks
<1>4. CASE RemoveImages
  <2>1. op.pc \in {"remove", "stale"}
    BY <1>4, Zenon DEF RemoveImages
  <2> QED
    BY <1>4, <2>1, RemoveImagesEffect, <1>b DEF Goes, OpIs, EndsRemoval, Ends, Shrinks
<1>5. CASE UnlinkIndicator
  BY <1>5, UnlinkIndicatorEffect DEF Goes, OpIs, Writes
<1>6. CASE RemoveInvalidSnapshot
  <2>1. op.pc \in {"remove", "stale"}
    BY <1>6, Zenon DEF RemoveInvalidSnapshot
  <2> QED
    BY <1>6, <2>1, RemoveInvalidSnapshotEffect, <1>b DEF OpIs, EndsRemoval, Ends, Shrinks
<1>7. CASE BeginUpdateLocked
  BY <1>7, BeginUpdateLockedEffect DEF Writes
<1>8. ASSUME NEW p \in Partitions, CreateSnapshot(p)
      PROVE  (op \in Operation)'
  BY <1>8, CreateSnapshotEffect
<1>9. CASE CreateCowImages
  BY <1>9, CreateCowImagesEffect DEF Writes
<1>10. CASE UndoCreate
  BY <1>10, UndoCreateEffect DEF Shrinks
<1>11. CASE RemoveRollbackIndicator
  BY <1>11, RemoveRollbackIndicatorEffect DEF Goes, OpIs
<1>12. CASE WriteBootIndicator
  BY <1>12, WriteBootIndicatorEffect DEF Writes
<1>13. ASSUME NEW p \in Partitions, SwitchSnapshotToMerge(p)
      PROVE  (op \in Operation)'
  BY <1>13, SwitchSnapshotToMergeEffect DEF OpIs
<1>14. ASSUME NEW p \in Partitions, MarkMerging(p)
      PROVE  (op \in Operation)'
  BY <1>14, MarkMergingEffect DEF OpIs
<1>15. CASE AllSwitched
  BY <1>15, AllSwitchedEffect DEF Writes, Ends
<1>16. ASSUME NEW p \in Partitions, CheckTargetMergeState(p)
      PROVE  (op \in Operation)'
  BY <1>16, CheckTargetMergeStateEffect DEF Saw, OpIs
<1>17. ASSUME NEW p \in Partitions, CollapseSnapshotDevice(p)
      PROVE  (op \in Operation)'
  BY <1>17, CollapseSnapshotDeviceEffect DEF Saw, OpIs
<1>18. ASSUME NEW p \in Partitions, DeleteMergedSnapshot(p)
      PROVE  (op \in Operation)'
  BY <1>18, DeleteMergedSnapshotEffect DEF Saw, OpIs
<1>19. CASE ConcludeMergeState
  BY <1>19, ConcludeMergeStateEffect DEF Ends, Writes, Acknowledges, OpIs
<1>20. CASE AcknowledgeMergeFailure
  BY <1>20, AcknowledgeMergeFailureEffect DEF Writes
<1>21. CASE DataWipeProcessed
  BY <1>21, DataWipeProcessedEffect DEF Writes
<1>22. CASE WipeData
  BY <1>22 DEF WipeData, IsIdle
<1>23. CASE FinishMergeInRecovery
  BY <1>23 DEF FinishMergeInRecovery, IsIdle
<1>24. CASE BeginUpdate
  BY <1>24, BeginUpdateEffect DEF OpIs
<1>25. CASE CancelUpdate
  BY <1>25, CancelUpdateEffect DEF OpIs
<1>26. CASE CreateUpdateSnapshots
  BY <1>26, CreateUpdateSnapshotsEffect DEF OpIs
<1>27. ASSUME NEW p \in Partitions, WriteSnapshot(p)
      PROVE  (op \in Operation)'
  BY <1>27 DEF WriteSnapshot, IsIdle
<1>28. CASE MapAllSnapshots
  BY <1>28 DEF MapAllSnapshots, IsIdle
<1>29. CASE UnmapAllSnapshots
  BY <1>29 DEF UnmapAllSnapshots, IsIdle
<1>30. ASSUME NEW wipe \in BOOLEAN, FinishedSnapshotWrites(wipe)
      PROVE  (op \in Operation)'
  BY <1>30, FinishedSnapshotWritesEffect DEF OpIs
<1>31. CASE SetActiveBootSlot
  BY <1>31 DEF SetActiveBootSlot, IsIdle
<1>32. CASE MarkBootSuccessful
  BY <1>32 DEF MarkBootSuccessful, IsIdle
<1>33. CASE InitiateMerge
  BY <1>33, InitiateMergeEffect DEF Writes
<1>34. CASE CheckMergeState
  <2>1. op' = Idle \/ op' \in Operation
    BY <1>34, CheckMergeStateEffect, Zenon DEF Ends, Acknowledges, OpIs, Writes
  <2> QED
    BY <2>1
<1>35. ASSUME NEW p \in Partitions, MergeProgress(p)
      PROVE  (op \in Operation)'
  BY <1>35 DEF MergeProgress, IsIdle
<1>36. ASSUME NEW p \in Partitions, MergeFails(p)
      PROVE  (op \in Operation)'
  BY <1>36 DEF MergeFails, IsIdle
<1>37. CASE Crash
  BY <1>37 DEF Crash, IsIdle, GoDown
<1>38. CASE Reboot
  BY <1>38 DEF Reboot, IsIdle, GoDown
<1>39. CASE BootSource
  BY <1>39 DEF BootSource, IsIdle
<1>40. CASE BootTarget
  BY <1>40 DEF BootTarget, IsIdle
<1>41. CASE FallBack
  BY <1>41 DEF FallBack, IsIdle
<1>42. CASE BootRecovery
  BY <1>42 DEF BootRecovery, IsIdle
<1>43. ASSUME NEW why \in {"wipe", "finish"}, CreateLogicalAndSnapshotPartitions(why)
      PROVE  (op \in Operation)'
  BY <1>43 DEF CreateLogicalAndSnapshotPartitions, IsIdle
<1>44. CASE UNCHANGED vars
  BY <1>44 DEF vars
<1> QED
  BY <1>1, <1>2, <1>3, <1>4, <1>5, <1>6, <1>7, <1>8, <1>9, <1>10, <1>11,
     <1>12, <1>13, <1>14, <1>15, <1>16, <1>17, <1>18, <1>19, <1>20, <1>21, <1>22,
     <1>23, <1>24, <1>25, <1>26, <1>27, <1>28, <1>29, <1>30, <1>31, <1>32, <1>33,
     <1>34, <1>35, <1>36, <1>37, <1>38, <1>39, <1>40, <1>41, <1>42, <1>43, <1>44, Zenon
  DEF Next, Steps, BootUp

(* Who waits. *)
LEMMA StepClient ==
  ASSUME Inv, [Next]_vars
  PROVE  ClientOK'
<1>0. Types
  BY DEF Inv
<1>a. Writing => op.why \notin {"none", "recheck", "merged"}
  BY ReasonsKnown
<1>b. op.pc \in {"remove", "stale"} => op.why \in {"begin", "cancel", "success", "again", "cancelled"}
  BY DEF Inv, RemovesTrue
<1> USE <1>0, IdleType, IdleFields DEF Types, ClientOK, UpdateStates, meta, disk, boot, power, client, history
<1>1. CASE WriteHal
  <2>1. Writing
    BY <1>1, Zenon DEF WriteHal, Writing
  <2> QED
    BY <1>1, <2>1, WriteHalEffect, <1>a DEF Goes, OpIs, EndsWrite, EndsRemoval, Ends, GoesSwitching
<1>2. CASE WriteFile
  <2>1. Writing
    BY <1>2, Zenon DEF WriteFile, Writing
  <2> QED
    BY <1>2, <2>1, WriteFileEffect, <1>a DEF Goes, OpIs, EndsWrite, EndsRemoval, Ends, GoesSwitching
<1>3. ASSUME NEW p \in Partitions, RemoveSnapshot(p)
      PROVE  ClientOK'
  BY <1>3, RemoveSnapshotEffect DEF Shrinks
<1>4. CASE RemoveImages
  <2>1. op.pc \in {"remove", "stale"}
    BY <1>4, Zenon DEF RemoveImages
  <2> QED
    BY <1>4, <2>1, RemoveImagesEffect, <1>b DEF Goes, OpIs, EndsRemoval, Ends, Shrinks
<1>5. CASE UnlinkIndicator
  BY <1>5, UnlinkIndicatorEffect DEF Goes, OpIs, Writes
<1>6. CASE RemoveInvalidSnapshot
  <2>1. op.pc \in {"remove", "stale"}
    BY <1>6, Zenon DEF RemoveInvalidSnapshot
  <2> QED
    BY <1>6, <2>1, RemoveInvalidSnapshotEffect, <1>b DEF OpIs, EndsRemoval, Ends, Shrinks
<1>7. CASE BeginUpdateLocked
  BY <1>7, BeginUpdateLockedEffect DEF Writes
<1>8. ASSUME NEW p \in Partitions, CreateSnapshot(p)
      PROVE  ClientOK'
  BY <1>8, CreateSnapshotEffect
<1>9. CASE CreateCowImages
  BY <1>9, CreateCowImagesEffect DEF Writes
<1>10. CASE UndoCreate
  BY <1>10, UndoCreateEffect DEF Shrinks
<1>11. CASE RemoveRollbackIndicator
  BY <1>11, RemoveRollbackIndicatorEffect DEF Goes, OpIs
<1>12. CASE WriteBootIndicator
  BY <1>12, WriteBootIndicatorEffect DEF Writes
<1>13. ASSUME NEW p \in Partitions, SwitchSnapshotToMerge(p)
      PROVE  ClientOK'
  BY <1>13, SwitchSnapshotToMergeEffect DEF OpIs
<1>14. ASSUME NEW p \in Partitions, MarkMerging(p)
      PROVE  ClientOK'
  BY <1>14, MarkMergingEffect DEF OpIs
<1>15. CASE AllSwitched
  BY <1>15, AllSwitchedEffect DEF Writes, Ends
<1>16. ASSUME NEW p \in Partitions, CheckTargetMergeState(p)
      PROVE  ClientOK'
  BY <1>16, CheckTargetMergeStateEffect DEF Saw, OpIs
<1>17. ASSUME NEW p \in Partitions, CollapseSnapshotDevice(p)
      PROVE  ClientOK'
  BY <1>17, CollapseSnapshotDeviceEffect DEF Saw, OpIs
<1>18. ASSUME NEW p \in Partitions, DeleteMergedSnapshot(p)
      PROVE  ClientOK'
  BY <1>18, DeleteMergedSnapshotEffect DEF Saw, OpIs
<1>19. CASE ConcludeMergeState
  BY <1>19, ConcludeMergeStateEffect DEF Ends, Writes, Acknowledges, OpIs
<1>20. CASE AcknowledgeMergeFailure
  BY <1>20, AcknowledgeMergeFailureEffect DEF Writes
<1>21. CASE DataWipeProcessed
  BY <1>21, DataWipeProcessedEffect DEF Writes
<1>22. CASE WipeData
  BY <1>22 DEF WipeData, IsIdle
<1>23. CASE FinishMergeInRecovery
  BY <1>23 DEF FinishMergeInRecovery, IsIdle
<1>24. CASE BeginUpdate
  BY <1>24, BeginUpdateEffect DEF OpIs
<1>25. CASE CancelUpdate
  BY <1>25, CancelUpdateEffect DEF OpIs
<1>26. CASE CreateUpdateSnapshots
  BY <1>26, CreateUpdateSnapshotsEffect DEF OpIs
<1>27. ASSUME NEW p \in Partitions, WriteSnapshot(p)
      PROVE  ClientOK'
  BY <1>27 DEF WriteSnapshot, IsIdle
<1>28. CASE MapAllSnapshots
  BY <1>28 DEF MapAllSnapshots, IsIdle
<1>29. CASE UnmapAllSnapshots
  BY <1>29 DEF UnmapAllSnapshots, IsIdle
<1>30. ASSUME NEW wipe \in BOOLEAN, FinishedSnapshotWrites(wipe)
      PROVE  ClientOK'
  BY <1>30, FinishedSnapshotWritesEffect DEF OpIs
<1>31. CASE SetActiveBootSlot
  BY <1>31 DEF SetActiveBootSlot, IsIdle
<1>32. CASE MarkBootSuccessful
  BY <1>32 DEF MarkBootSuccessful, IsIdle
<1>33. CASE InitiateMerge
  BY <1>33, InitiateMergeEffect DEF Writes
<1>34. CASE CheckMergeState
  BY <1>34, CheckMergeStateEffect DEF Ends, Acknowledges, OpIs, Writes, StorageOK, UpdateStates
<1>35. ASSUME NEW p \in Partitions, MergeProgress(p)
      PROVE  ClientOK'
  BY <1>35 DEF MergeProgress, IsIdle
<1>36. ASSUME NEW p \in Partitions, MergeFails(p)
      PROVE  ClientOK'
  BY <1>36 DEF MergeFails, IsIdle
<1>37. CASE Crash
  BY <1>37 DEF Crash, IsIdle, GoDown
<1>38. CASE Reboot
  BY <1>38 DEF Reboot, IsIdle, GoDown
<1>39. CASE BootSource
  BY <1>39 DEF BootSource, IsIdle
<1>40. CASE BootTarget
  BY <1>40 DEF BootTarget, IsIdle
<1>41. CASE FallBack
  BY <1>41 DEF FallBack, IsIdle
<1>42. CASE BootRecovery
  BY <1>42 DEF BootRecovery, IsIdle
<1>43. ASSUME NEW why \in {"wipe", "finish"}, CreateLogicalAndSnapshotPartitions(why)
      PROVE  ClientOK'
  BY <1>43 DEF CreateLogicalAndSnapshotPartitions, IsIdle
<1>44. CASE UNCHANGED vars
  BY <1>44 DEF vars
<1> QED
  BY <1>1, <1>2, <1>3, <1>4, <1>5, <1>6, <1>7, <1>8, <1>9, <1>10, <1>11,
     <1>12, <1>13, <1>14, <1>15, <1>16, <1>17, <1>18, <1>19, <1>20, <1>21, <1>22,
     <1>23, <1>24, <1>25, <1>26, <1>27, <1>28, <1>29, <1>30, <1>31, <1>32, <1>33,
     <1>34, <1>35, <1>36, <1>37, <1>38, <1>39, <1>40, <1>41, <1>42, <1>43, <1>44, Zenon
  DEF Next, Steps, BootUp

(* Nobody records a failure too many. *)
LEMMA StepAcks ==
  ASSUME Inv, [Next]_vars
  PROVE  AcksOK'
<1>0. Types /\ PollsTrue
  BY DEF Inv
<1>a. Writing => op.why \notin {"none", "recheck", "merged"}
  BY ReasonsKnown
<1>b. op.pc \in {"remove", "stale"} => op.why \in {"begin", "cancel", "success", "again", "cancelled"}
  BY DEF Inv, RemovesTrue
<1> USE <1>0, IdleType, IdleFields, BoundsAssumption DEF Types, AcksOK, PollsTrue, Polling, meta, disk, boot, power, client, history
<1>1. CASE WriteHal
  <2>1. Writing
    BY <1>1, Zenon DEF WriteHal, Writing
  <2>2. acks' = acks \/ (acks' = acks + 1 /\ (op.pc = "poll" \/ op.why = "second"))
    BY <1>1, <1>a, <2>1, WriteHalEffect DEF EndsWrite, EndsRemoval, Ends, GoesSwitching
  <2> QED
    BY <2>2
<1>2. CASE WriteFile
  <2>1. Writing
    BY <1>2, Zenon DEF WriteFile, Writing
  <2>2. acks' = acks \/ (acks' = acks + 1 /\ (op.pc = "poll" \/ op.why = "second"))
    BY <1>2, <1>a, <2>1, WriteFileEffect DEF EndsWrite, EndsRemoval, Ends, GoesSwitching
  <2> QED
    BY <2>2
<1>3. ASSUME NEW p \in Partitions, RemoveSnapshot(p)
      PROVE  AcksOK'
  BY <1>3, RemoveSnapshotEffect DEF Shrinks
<1>4. CASE RemoveImages
  <2>1. op.pc \in {"remove", "stale"}
    BY <1>4, Zenon DEF RemoveImages
  <2> QED
    BY <1>4, <2>1, RemoveImagesEffect, <1>b DEF Goes, OpIs, EndsRemoval, Ends, Shrinks
<1>5. CASE UnlinkIndicator
  BY <1>5, UnlinkIndicatorEffect DEF Goes, OpIs, Writes
<1>6. CASE RemoveInvalidSnapshot
  <2>1. op.pc \in {"remove", "stale"}
    BY <1>6, Zenon DEF RemoveInvalidSnapshot
  <2> QED
    BY <1>6, <2>1, RemoveInvalidSnapshotEffect, <1>b DEF OpIs, EndsRemoval, Ends, Shrinks
<1>7. CASE BeginUpdateLocked
  BY <1>7, BeginUpdateLockedEffect DEF Writes
<1>8. ASSUME NEW p \in Partitions, CreateSnapshot(p)
      PROVE  AcksOK'
  BY <1>8, CreateSnapshotEffect
<1>9. CASE CreateCowImages
  BY <1>9, CreateCowImagesEffect DEF Writes
<1>10. CASE UndoCreate
  BY <1>10, UndoCreateEffect DEF Shrinks
<1>11. CASE RemoveRollbackIndicator
  BY <1>11, RemoveRollbackIndicatorEffect DEF Goes, OpIs
<1>12. CASE WriteBootIndicator
  BY <1>12, WriteBootIndicatorEffect DEF Writes
<1>13. ASSUME NEW p \in Partitions, SwitchSnapshotToMerge(p)
      PROVE  AcksOK'
  BY <1>13, SwitchSnapshotToMergeEffect DEF OpIs
<1>14. ASSUME NEW p \in Partitions, MarkMerging(p)
      PROVE  AcksOK'
  BY <1>14, MarkMergingEffect DEF OpIs
<1>15. CASE AllSwitched
  <2>2. acks' = acks \/ (acks' = acks + 1 /\ (op.pc = "poll" \/ op.why = "second"))
    BY <1>15, AllSwitchedEffect DEF Ends
  <2> QED
    BY <2>2
<1>16. ASSUME NEW p \in Partitions, CheckTargetMergeState(p)
      PROVE  AcksOK'
  BY <1>16, CheckTargetMergeStateEffect DEF Saw, OpIs
<1>17. ASSUME NEW p \in Partitions, CollapseSnapshotDevice(p)
      PROVE  AcksOK'
  BY <1>17, CollapseSnapshotDeviceEffect DEF Saw, OpIs
<1>18. ASSUME NEW p \in Partitions, DeleteMergedSnapshot(p)
      PROVE  AcksOK'
  BY <1>18, DeleteMergedSnapshotEffect DEF Saw, OpIs
<1>19. CASE ConcludeMergeState
  <2>2. acks' = acks \/ (acks' = acks + 1 /\ (op.pc = "poll" \/ op.why = "second"))
    BY <1>19, ConcludeMergeStateEffect DEF Ends
  <2> QED
    BY <2>2
<1>20. CASE AcknowledgeMergeFailure
  BY <1>20, AcknowledgeMergeFailureEffect DEF Writes
<1>21. CASE DataWipeProcessed
  BY <1>21, DataWipeProcessedEffect DEF Writes
<1>22. CASE WipeData
  BY <1>22 DEF WipeData, IsIdle
<1>23. CASE FinishMergeInRecovery
  BY <1>23 DEF FinishMergeInRecovery, IsIdle
<1>24. CASE BeginUpdate
  BY <1>24, BeginUpdateEffect DEF OpIs
<1>25. CASE CancelUpdate
  BY <1>25, CancelUpdateEffect DEF OpIs
<1>26. CASE CreateUpdateSnapshots
  BY <1>26, CreateUpdateSnapshotsEffect DEF OpIs
<1>27. ASSUME NEW p \in Partitions, WriteSnapshot(p)
      PROVE  AcksOK'
  BY <1>27 DEF WriteSnapshot, IsIdle
<1>28. CASE MapAllSnapshots
  BY <1>28 DEF MapAllSnapshots, IsIdle
<1>29. CASE UnmapAllSnapshots
  BY <1>29 DEF UnmapAllSnapshots, IsIdle
<1>30. ASSUME NEW wipe \in BOOLEAN, FinishedSnapshotWrites(wipe)
      PROVE  AcksOK'
  BY <1>30, FinishedSnapshotWritesEffect DEF OpIs
<1>31. CASE SetActiveBootSlot
  BY <1>31 DEF SetActiveBootSlot, IsIdle
<1>32. CASE MarkBootSuccessful
  BY <1>32 DEF MarkBootSuccessful, IsIdle
<1>33. CASE InitiateMerge
  BY <1>33, InitiateMergeEffect DEF Writes
<1>34. CASE CheckMergeState
  <2>1. acks < MaxAcks /\ acks' \in {acks, acks + 1}
    BY <1>34, CheckMergeStateEffect DEF Ends
  <2> QED
    BY <2>1, BoundsAssumption DEF AcksOK
<1>35. ASSUME NEW p \in Partitions, MergeProgress(p)
      PROVE  AcksOK'
  BY <1>35 DEF MergeProgress, IsIdle
<1>36. ASSUME NEW p \in Partitions, MergeFails(p)
      PROVE  AcksOK'
  BY <1>36 DEF MergeFails, IsIdle
<1>37. CASE Crash
  BY <1>37 DEF Crash, IsIdle, GoDown
<1>38. CASE Reboot
  BY <1>38 DEF Reboot, IsIdle, GoDown
<1>39. CASE BootSource
  BY <1>39 DEF BootSource, IsIdle
<1>40. CASE BootTarget
  BY <1>40 DEF BootTarget, IsIdle
<1>41. CASE FallBack
  BY <1>41 DEF FallBack, IsIdle
<1>42. CASE BootRecovery
  BY <1>42 DEF BootRecovery, IsIdle
<1>43. ASSUME NEW why \in {"wipe", "finish"}, CreateLogicalAndSnapshotPartitions(why)
      PROVE  AcksOK'
  BY <1>43 DEF CreateLogicalAndSnapshotPartitions, IsIdle
<1>44. CASE UNCHANGED vars
  BY <1>44 DEF vars
<1> QED
  BY <1>1, <1>2, <1>3, <1>4, <1>5, <1>6, <1>7, <1>8, <1>9, <1>10, <1>11,
     <1>12, <1>13, <1>14, <1>15, <1>16, <1>17, <1>18, <1>19, <1>20, <1>21, <1>22,
     <1>23, <1>24, <1>25, <1>26, <1>27, <1>28, <1>29, <1>30, <1>31, <1>32, <1>33,
     <1>34, <1>35, <1>36, <1>37, <1>38, <1>39, <1>40, <1>41, <1>42, <1>43, <1>44, Zenon
  DEF Next, Steps, BootUp

(* Crashes and failures are counted. *)
LEMMA StepBudgets ==
  ASSUME BudgetsOK, [Next]_vars
  PROVE  BudgetsOK'
<1> USE DEF BudgetsOK, Fault, NoFault, meta, disk, boot, power, client, history
<1>1. CASE WriteHal
  <2>1. crashes' = crashes /\ (faults' = faults \/ Fault)
    BY <1>1, Zenon DEF WriteHal
  <2> QED
    BY <2>1, BoundsAssumption
<1>2. CASE WriteFile
  <2>1. crashes' = crashes /\ (faults' = faults \/ Fault)
    BY <1>2, Zenon DEF WriteFile
  <2> QED
    BY <2>1, BoundsAssumption
<1>3. CASE \E p \in Partitions : RemoveSnapshot(p)
  BY <1>3, BoundsAssumption DEF RemoveSnapshot
<1>4. CASE RemoveImages
  BY <1>4, BoundsAssumption DEF RemoveImages
<1>5. CASE UnlinkIndicator
  BY <1>5, BoundsAssumption DEF UnlinkIndicator, Unlink
<1>6. CASE RemoveInvalidSnapshot
  <2>1. crashes' = crashes /\ (faults' = faults \/ Fault)
    BY <1>6, Zenon DEF RemoveInvalidSnapshot
  <2> QED
    BY <2>1, BoundsAssumption
<1>7. CASE BeginUpdateLocked
  BY <1>7, BoundsAssumption DEF BeginUpdateLocked
<1>8. CASE \E p \in Partitions : CreateSnapshot(p)
  BY <1>8, BoundsAssumption DEF CreateSnapshot
<1>9. CASE CreateCowImages
  BY <1>9, BoundsAssumption DEF CreateCowImages
<1>10. CASE UndoCreate
  BY <1>10, BoundsAssumption DEF UndoCreate
<1>11. CASE RemoveRollbackIndicator
  BY <1>11, BoundsAssumption DEF RemoveRollbackIndicator
<1>12. CASE WriteBootIndicator
  BY <1>12, BoundsAssumption DEF WriteBootIndicator
<1>13. CASE \E p \in Partitions : SwitchSnapshotToMerge(p)
  BY <1>13, BoundsAssumption DEF SwitchSnapshotToMerge
<1>14. CASE \E p \in Partitions : MarkMerging(p)
  BY <1>14, BoundsAssumption DEF MarkMerging
<1>15. CASE AllSwitched
  BY <1>15, BoundsAssumption DEF AllSwitched
<1>16. CASE \E p \in Partitions : CheckTargetMergeState(p)
  BY <1>16, BoundsAssumption DEF CheckTargetMergeState
<1>17. CASE \E p \in Partitions : CollapseSnapshotDevice(p)
  BY <1>17, BoundsAssumption DEF CollapseSnapshotDevice
<1>18. CASE \E p \in Partitions : DeleteMergedSnapshot(p)
  BY <1>18, BoundsAssumption DEF DeleteMergedSnapshot
<1>19. CASE ConcludeMergeState
  BY <1>19, BoundsAssumption DEF ConcludeMergeState
<1>20. CASE AcknowledgeMergeFailure
  BY <1>20, BoundsAssumption DEF AcknowledgeMergeFailure
<1>21. CASE DataWipeProcessed
  BY <1>21, BoundsAssumption DEF DataWipeProcessed
<1>22. CASE WipeData
  BY <1>22, BoundsAssumption DEF WipeData
<1>23. CASE FinishMergeInRecovery
  BY <1>23, BoundsAssumption DEF FinishMergeInRecovery
<1>24. CASE BeginUpdate
  BY <1>24, BoundsAssumption DEF BeginUpdate
<1>25. CASE CancelUpdate
  BY <1>25, BoundsAssumption DEF CancelUpdate
<1>26. CASE CreateUpdateSnapshots
  BY <1>26, BoundsAssumption DEF CreateUpdateSnapshots
<1>27. CASE \E p \in Partitions : WriteSnapshot(p)
  BY <1>27, BoundsAssumption DEF WriteSnapshot
<1>28. CASE MapAllSnapshots
  BY <1>28, BoundsAssumption DEF MapAllSnapshots
<1>29. CASE UnmapAllSnapshots
  BY <1>29, BoundsAssumption DEF UnmapAllSnapshots
<1>30. CASE \E wipe \in BOOLEAN : FinishedSnapshotWrites(wipe)
  BY <1>30, BoundsAssumption DEF FinishedSnapshotWrites
<1>31. CASE SetActiveBootSlot
  BY <1>31, BoundsAssumption DEF SetActiveBootSlot
<1>32. CASE MarkBootSuccessful
  BY <1>32, BoundsAssumption DEF MarkBootSuccessful
<1>33. CASE InitiateMerge
  BY <1>33, BoundsAssumption DEF InitiateMerge
<1>34. CASE CheckMergeState
  BY <1>34, BoundsAssumption DEF CheckMergeState
<1>35. CASE \E p \in Partitions : MergeProgress(p)
  BY <1>35, BoundsAssumption DEF MergeProgress
<1>36. CASE \E p \in Partitions : MergeFails(p)
  BY <1>36, BoundsAssumption DEF MergeFails
<1>37. CASE Crash
  BY <1>37, BoundsAssumption DEF Crash, GoDown
<1>38. CASE Reboot
  BY <1>38, BoundsAssumption DEF Reboot, GoDown
<1>39. CASE BootSource
  BY <1>39, BoundsAssumption DEF BootSource
<1>40. CASE BootTarget
  BY <1>40, BoundsAssumption DEF BootTarget
<1>41. CASE FallBack
  BY <1>41, BoundsAssumption DEF FallBack
<1>42. CASE BootRecovery
  BY <1>42, BoundsAssumption DEF BootRecovery
<1>43. CASE \E why \in {"wipe", "finish"} : CreateLogicalAndSnapshotPartitions(why)
  BY <1>43, BoundsAssumption DEF CreateLogicalAndSnapshotPartitions
<1>44. CASE UNCHANGED vars
  BY <1>44, BoundsAssumption DEF vars
<1> QED
  BY <1>1, <1>2, <1>3, <1>4, <1>5, <1>6, <1>7, <1>8, <1>9, <1>10, <1>11,
     <1>12, <1>13, <1>14, <1>15, <1>16, <1>17, <1>18, <1>19, <1>20, <1>21, <1>22,
     <1>23, <1>24, <1>25, <1>26, <1>27, <1>28, <1>29, <1>30, <1>31, <1>32, <1>33,
     <1>34, <1>35, <1>36, <1>37, <1>38, <1>39, <1>40, <1>41, <1>42, <1>43, <1>44, Zenon
  DEF Next, Steps, BootUp

-----------------------------------------------------------------------------
(* What the invariant says of a target slot that is active. *)

LEMMA PhaseKinds ==
  ASSUME NEW p \in Partitions
  PROVE  /\ DecideMergePhase(p) \in {"FIRST_PHASE", "SECOND_PHASE"}
         /\ First(p) <=> DecideMergePhase(p) = "FIRST_PHASE"
BY DEF DecideMergePhase, First

(* A merge that is over has overwritten the old system. *)
LEMMA OverCommitted ==
  ASSUME Inv, Over
  PROVE  active = "target" /\ slot # "source" /\ hal # "SNAPSHOTTED" /\ ~SourceComplete
BY PartitionsAssumption DEF Inv, Over, AllNew, Committed, SourceComplete

(* Without snapshots to map, an active target slot that is not given up is merged. *)
LEMMA PlainTarget ==
  ASSUME Inv, active = "target", ~NeedSnapshots, ~Merge, ~Abandoned
  PROVE  Over /\ state \notin {"Initiated", "Unverified"}
<1>1. AllNew
  BY DEF Inv, TargetIntact, TargetComplete, AllNew
<1>2. ~SourceComplete
  BY <1>1, PartitionsAssumption DEF AllNew, SourceComplete
<1>3. \A p \in Partitions : ~Live(p)
  BY <1>1 DEF Inv, StatusTrue, AllNew, Live
<1> QED
  BY <1>1, <1>2, <1>3 DEF Inv, Committed, Over

(* An active target slot that was neither merged nor given up has all its snapshots. *)
LEMMA WholeTarget ==
  ASSUME Inv, active = "target", state = "Unverified", ~Abandoned
  PROVE  SourceComplete /\ NeedSnapshots /\ Given
<1>1. SourceComplete
  BY DEF Inv, Committed, Merge
<1>2. NeedSnapshots
  BY PlainTarget DEF Merge
<1>3. \A p \in Partitions : Live(p) /\ cow[p] = "full"
  BY <1>1 DEF Inv, TargetIntact, TargetComplete, SourceComplete
<1>4. \A p \in Partitions : status[p] # "MERGING"
  BY DEF Inv, StatusTrue, Merge
<1> QED
  BY <1>1, <1>2, <1>3, <1>4 DEF Given, Live

(* A partition that is marked as merging belongs to the phase. *)
LEMMA MergingInPhase ==
  ASSUME Inv, NEW p \in Partitions, status[p] = "MERGING"
  PROVE  Merge /\ DecideMergePhase(p) = phase
<1>1. Merge /\ PhaseOK(phase) /\ phase \in Phases
  BY DEF Inv, Types, StorageOK, StatusTrue, PhasesKept
<1> QED
  BY <1>1, PhaseKinds DEF PhaseOK, Live, Phases

(* What a removal may take away. *)
LEMMA Removable ==
  ASSUME Inv, op.pc \in {"remove", "unlink_boot", "unlink_rollback", "unlink_forward", "stale"}, active = "target"
  PROVE  Over
BY DEF Inv, RemovesTrue

(* On the source slot an update is not merged, and what is written waits. *)
LEMMA OnSource ==
  ASSUME Inv, slot = "source"
  PROVE  /\ SourceComplete /\ ~Merge
         /\ active = "target" => waiting = TRUE /\ state = "Unverified" /\ op = Idle
BY DEF Inv, Committed, MergeGuarded, SlotsTrue

(* The driver of an update, and so the phase of a partition, does not change. *)
LEMMA SamePhase ==
  ASSUME [Next]_vars
  PROVE  /\ driver' = driver
         /\ \A p \in Partitions : DecideMergePhase(p)' = DecideMergePhase(p) /\ First(p)' = First(p)
<1>1. driver' = driver
    BY Zenon DEF Next, vars, Steps, BootUp, WriteHal, WriteFile, RemoveSnapshot, RemoveImages,
      UnlinkIndicator, RemoveInvalidSnapshot, BeginUpdateLocked, CreateSnapshot, CreateCowImages,
      UndoCreate, RemoveRollbackIndicator, WriteBootIndicator, SwitchSnapshotToMerge, MarkMerging,
      AllSwitched, CheckTargetMergeState, CollapseSnapshotDevice, DeleteMergedSnapshot,
      ConcludeMergeState, AcknowledgeMergeFailure, DataWipeProcessed, WipeData,
      FinishMergeInRecovery, BeginUpdate, CancelUpdate, CreateUpdateSnapshots, WriteSnapshot,
      MapAllSnapshots, UnmapAllSnapshots, FinishedSnapshotWrites, SetActiveBootSlot,
      MarkBootSuccessful, InitiateMerge, CheckMergeState, MergeProgress, MergeFails, Crash, Reboot,
      BootSource, BootTarget, FallBack, BootRecovery, CreateLogicalAndSnapshotPartitions, GoDown
<1> QED
  BY <1>1 DEF DecideMergePhase, First

(* Which states a write may record. *)
LEMMA WriteFileStates ==
  ASSUME Inv, WriteFile
  PROVE  /\ UNCHANGED <<driver, status, boot_ind, rollback_ind, forward_ind, disk, boot, power, dm, aborted>>
         /\ \/ state' = state /\ phase' = phase
            \/ /\ state' = "Merging" /\ hal = "MERGING" /\ slot = "target" /\ active = "target"
               /\ boot_ind = TRUE \/ Over
               /\ PhaseOK(phase') /\ (state = "Unverified" \/ (phase = "FIRST_PHASE" /\ phase' = "SECOND_PHASE"))
               /\ state \in {"Unverified", "Merging", "MergeFailed"}
            \/ /\ state' = "MergeFailed" /\ phase' = phase /\ hal = "MERGING"
               /\ state \in {"Merging", "MergeNeedsReboot"}
            \/ state' = "Unverified" /\ slot = "source"
            \/ state' = "Initiated" /\ slot = "source"
            \/ state' = "MergeNeedsReboot" /\ Over /\ PhaseOK(phase')
            \/ state' = "MergeCompleted" /\ Over
            \/ state' = "None" /\ (Over \/ active = "source" \/ Dropped)
<1>1. Writing /\ op.pc = "write_file"
  BY Zenon DEF WriteFile, Writing
<1>2. /\ UNCHANGED <<driver, status, boot_ind, rollback_ind, forward_ind, disk, boot, power, dm, aborted>>
      /\ (state' = op.to /\ phase' = op.phase) \/ (state' = state /\ phase' = phase)
  BY Zenon DEF WriteFile
<1>3. op.to \in UpdateStates
  BY DEF Inv, Types, Operation
<1>4. op.to = "None" => Over \/ active = "source" \/ Dropped
  BY <1>1 DEF Inv, WritesTrue, RemovesTrue, WipesTrue
<1> QED
  BY <1>1, <1>2, <1>3, <1>4 DEF Inv, WritesTrue, UpdateStates

-----------------------------------------------------------------------------
(* The target slot *)

(* What may happen on a device that is off or in recovery, between operations    *)
(* or in a write.                                                            *)
LEMMA QuietSteps ==
  ASSUME [Next]_vars, op.pc \in {"idle", "write_hal", "write_file"},
         slot = "off" \/ recovery = TRUE
  PROVE  \/ WriteHal \/ WriteFile \/ AcknowledgeMergeFailure \/ DataWipeProcessed \/ WipeData
         \/ FinishMergeInRecovery \/ CheckMergeState
         \/ \E p \in Partitions : MergeProgress(p) \/ MergeFails(p)
         \/ Crash \/ Reboot \/ BootSource \/ BootTarget \/ FallBack \/ BootRecovery
         \/ \E why \in {"wipe", "finish"} : CreateLogicalAndSnapshotPartitions(why)
         \/ UNCHANGED vars
<1>1. /\ ~ \E p \in Partitions : RemoveSnapshot(p)
      /\ ~ \E p \in Partitions : CreateSnapshot(p)
      /\ ~ \E p \in Partitions : SwitchSnapshotToMerge(p) \/ MarkMerging(p)
      /\ ~ \E p \in Partitions : CheckTargetMergeState(p)
      /\ ~ \E p \in Partitions : CollapseSnapshotDevice(p)
      /\ ~ \E p \in Partitions : DeleteMergedSnapshot(p)
  BY DEF RemoveSnapshot, CreateSnapshot, SwitchSnapshotToMerge, MarkMerging, CheckTargetMergeState,
    CollapseSnapshotDevice, DeleteMergedSnapshot
<1>2. ~RemoveImages /\ ~RemoveInvalidSnapshot /\ ~CreateCowImages /\ ~UndoCreate /\ ~AllSwitched
  BY DEF RemoveImages, RemoveInvalidSnapshot, CreateCowImages, UndoCreate, AllSwitched
<1>3. ~RemoveRollbackIndicator /\ ~WriteBootIndicator /\ ~ConcludeMergeState /\ ~UnlinkIndicator
  BY DEF RemoveRollbackIndicator, WriteBootIndicator, ConcludeMergeState, UnlinkIndicator, Unlink
<1>4. /\ ~BeginUpdateLocked /\ ~BeginUpdate /\ ~CancelUpdate /\ ~CreateUpdateSnapshots
      /\ ~SetActiveBootSlot /\ ~MarkBootSuccessful /\ ~InitiateMerge
      /\ ~MapAllSnapshots /\ ~UnmapAllSnapshots
      /\ ~ \E p \in Partitions : WriteSnapshot(p)
      /\ ~ \E wipe \in BOOLEAN : FinishedSnapshotWrites(wipe)
  BY DEF BeginUpdateLocked, BeginUpdate, CancelUpdate, CreateUpdateSnapshots, SetActiveBootSlot,
    MarkBootSuccessful, InitiateMerge, MapAllSnapshots, UnmapAllSnapshots, WriteSnapshot,
    FinishedSnapshotWrites, IsIdle
<1> QED
  BY <1>1, <1>2, <1>3, <1>4, Zenon DEF Next, Steps, BootUp

(* A target slot that was given up stays so until the bootloader leaves it. *)
LEMMA StepAbandoned ==
  ASSUME Inv, [Next]_vars, active = "target", Abandoned
  PROVE  TargetIntact'
<1>0. Types
  BY DEF Inv
<1>1. ~Merge /\ ~Over /\ slot # "source" /\ (slot = "target" => recovery = TRUE)
  BY OverCommitted DEF Abandoned, Merge
<1>2. \A p \in Partitions : dm[p] \notin {"merging", "failed"}
  BY <1>1 DEF Inv, DevicesTrue, Abandoned, SourceComplete
<1>a. slot = "off" \/ recovery = TRUE
  BY <1>0, <1>1 DEF Types, DeviceOK
<1>3. op.pc \in {"idle", "write_hal", "write_file"}
  BY <1>0, <1>1 DEF Types, Operation, OpSteps, Inv, RemovesTrue, CreatesTrue, SwitchesTrue, PollsTrue, Polling,
    Abandoned, Merge
<1>4. slot = "off" => op = Idle /\ reset = "no"
  BY DEF Inv, SlotsTrue
<1>5. ASSUME UNCHANGED <<base, state, status, cow>>, slot' # "source", slot' = "target" => recovery' = TRUE,
             state = "None" \/ (op' = Idle /\ reset' \in {"no", "over"})
      PROVE  Abandoned'
  BY <1>5 DEF Abandoned, SourceComplete
<1>6. state = "Unverified" =>
        /\ op = Idle /\ reset \in {"no", "over"}
        /\ \A p \in Partitions : status[p] = "CREATED" /\ cow[p] = "absent"
  BY DEF Abandoned
<1>7. state \in {"None", "Unverified"}
  BY DEF Abandoned
<1>8. Idle.pc = "idle" /\ "idle" \notin {"write_hal", "write_file"}
  BY IdleFields
<1> USE DEF TargetIntact, meta, disk, boot, power
<1>9. CASE WriteHal
  BY <1>1, <1>5, <1>6, <1>7, <1>8, <1>9 DEF WriteHal
<1>10. CASE WriteFile
  <2>1. state = "None" /\ UNCHANGED <<base, status, cow, slot, recovery>>
    BY <1>6, <1>7, <1>8, <1>10 DEF WriteFile
  <2>2. state' = "None"
    BY <1>1, <1>10, <2>1, WriteFileStates DEF Merge
  <2> QED
    BY <1>1, <1>5, <2>1, <2>2
<1>11. CASE AcknowledgeMergeFailure
  BY <1>0, <1>1, <1>5, <1>6, <1>7, <1>11, AcknowledgeMergeFailureEffect
<1>12. CASE DataWipeProcessed
  <2>1. reset = "wipe" /\ UNCHANGED <<base, state, status, cow, slot, recovery>>
    BY <1>0, <1>12, DataWipeProcessedEffect
  <2> QED
    BY <1>1, <1>5, <1>6, <1>7, <2>1
<1>13. CASE WipeData
  <2>1. state = "None"
    BY <1>6, <1>7, <1>13 DEF WipeData
  <2>2. UNCHANGED <<base, state, slot, recovery>>
    BY <1>13 DEF WipeData
  <2> QED
    BY <1>1, <2>1, <2>2 DEF Abandoned, SourceComplete
<1>14. CASE FinishMergeInRecovery
  BY <1>1, <1>5, <1>6, <1>7, <1>14 DEF FinishMergeInRecovery
<1>15. CASE CheckMergeState
  <2>1. /\ slot # "off" /\ (recovery = TRUE => reset \in {"wipe", "finish"})
        /\ UNCHANGED <<base, state, status, cow, slot, recovery>>
    BY <1>0, <1>15, CheckMergeStateEffect
  <2>2. state = "None"
    BY <1>a, <1>6, <1>7, <2>1
  <2> QED
    BY <1>1, <1>5, <2>1, <2>2
<1>16. ~ \E p \in Partitions : MergeProgress(p) \/ MergeFails(p)
  BY <1>2 DEF MergeProgress, MergeFails
<1>17. CASE Crash \/ Reboot
  BY <1>5, <1>17 DEF Crash, Reboot, GoDown
<1>18. CASE BootSource \/ FallBack
  BY <1>18 DEF BootSource, FallBack
<1>19. CASE BootTarget
  BY <1>19 DEF BootTarget, TargetComplete, NeedSnapshots, Live
<1>20. CASE BootRecovery
  BY <1>1, <1>4, <1>5, <1>20 DEF BootRecovery, client
<1>21. ASSUME NEW why \in {"wipe", "finish"}, CreateLogicalAndSnapshotPartitions(why)
       PROVE  TargetIntact'
  <2>1. UNCHANGED <<base, state, status, cow, slot, recovery, op>> /\ slot = "target"
    BY <1>0, <1>1, <1>21 DEF CreateLogicalAndSnapshotPartitions, IsIdle, DeviceOK, Types
  <2>2. state = "Unverified" => reset' = "over"
    <3>1. SUFFICES ASSUME state = "Unverified" PROVE reset' = "over"
      OBVIOUS
    <3>2. PICK p \in Partitions : status[p] = "CREATED" /\ cow[p] = "absent"
      BY <1>6, <3>1, PartitionsAssumption
    <3>3. p \in SnapshotsOfThisSlot /\ Live(p)
      BY <2>1, <3>2 DEF SnapshotsOfThisSlot, Snapshots, Live
    <3> QED
      BY <1>21, <3>2, <3>3, Zenon DEF CreateLogicalAndSnapshotPartitions
  <2> QED
    BY <1>1, <1>5, <1>6, <1>7, <2>1, <2>2
<1>22. CASE UNCHANGED vars
  BY <1>1, <1>5, <1>6, <1>7, <1>22 DEF vars, client
<1> QED
  BY <1>a, <1>3, <1>9, <1>10, <1>11, <1>12, <1>13, <1>14, <1>15, <1>16, <1>17, <1>18, <1>19, <1>20, <1>21,
     <1>22, QuietSteps

(* The active target slot stays complete, or is given up. *)
LEMMA StepTarget ==
  ASSUME Inv, [Next]_vars
  PROVE  TargetIntact'
<1>z. SUFFICES ASSUME active = "target" => TargetComplete PROVE TargetIntact'
  BY StepAbandoned DEF Inv, TargetIntact
<1>0. Types /\ (active = "target" => TargetComplete)
  BY <1>z DEF Inv
<1>a. Writing => op.why \notin {"none", "recheck", "merged"}
  BY ReasonsKnown
<1>b. op.pc \in {"remove", "stale"} => op.why \in {"begin", "cancel", "success", "again", "cancelled"}
  BY DEF Inv, RemovesTrue
<1>c. op.pc \in {"create", "undo", "finish_boot"} => slot = "source" /\ state = "Initiated"
  BY DEF Inv, CreatesTrue
<1> USE <1>0, IdleType, IdleFields DEF Types, TargetIntact, TargetComplete, NeedSnapshots, Live, meta, disk, boot, power, client, history
<1>1. CASE WriteHal
  <2>1. Writing
    BY <1>1, Zenon DEF WriteHal, Writing
  <2> QED
    BY <1>1, <2>1, WriteHalEffect, <1>a
<1>2. CASE WriteFile
  <2>1. op.pc = "write_file" /\ UNCHANGED <<status, boot_ind, cow, base, active>>
    BY <1>2, WriteFileStates, Zenon DEF WriteFile
  <2>2. Over => TargetIntact'
    BY <2>1 DEF Over, AllNew
  <2>3. CASE state' = state \/ (state' = "Merging" /\ state \in {"Unverified", "Merging", "MergeFailed"})
    BY <2>1, <2>3
  <2>4. CASE state' = "MergeFailed" /\ state \in {"Merging", "MergeNeedsReboot"}
    BY <2>1, <2>2, <2>4 DEF Inv, StatusTrue
  <2>5. CASE slot = "source"
    BY <2>1, <2>5, OnSource
  <2>6. CASE state' = "None" /\ Dropped
    <3>1. UNCHANGED <<slot, recovery>>
      BY <1>2, WriteFileStates
    <3> QED
      BY <2>1, <2>6, <3>1 DEF Dropped, Abandoned, SourceComplete
  <2> QED
    BY <1>2, <2>1, <2>2, <2>3, <2>4, <2>5, <2>6, WriteFileStates
<1>3. ASSUME NEW p \in Partitions, RemoveSnapshot(p)
      PROVE  TargetIntact'
  BY <1>3, RemoveSnapshotEffect, Removable, OverCommitted DEF Shrinks, Over, AllNew
<1>4. CASE RemoveImages
  <2>1. op.pc \in {"remove", "stale"}
    BY <1>4, Zenon DEF RemoveImages
  <2> QED
    BY <1>4, <2>1, RemoveImagesEffect, <1>b, Removable, OverCommitted DEF Shrinks, Over, AllNew
<1>5. CASE UnlinkIndicator
  BY <1>5, UnlinkIndicatorEffect, Removable, OverCommitted DEF Over, AllNew
<1>6. CASE RemoveInvalidSnapshot
  <2>1. op.pc \in {"remove", "stale"}
    BY <1>6, Zenon DEF RemoveInvalidSnapshot
  <2> QED
    BY <1>6, <2>1, RemoveInvalidSnapshotEffect, <1>b, Removable, OverCommitted DEF Shrinks, Over, AllNew
<1>7. CASE BeginUpdateLocked
  <2>1. active = "target" => slot = "target" /\ recovery = FALSE
    BY <1>7, BeginUpdateLockedEffect DEF Inv, SlotsTrue, DeviceOK
  <2>2. active = "target" => \A p \in Partitions : status[p] \in {"CREATED", "MERGING"} => cow'[p] = cow[p]
    BY <1>7, <2>1, BeginUpdateLockedEffect DEF Inv, DevicesTrue, IsImageMapped
  <2> QED
    BY <1>7, <2>2, BeginUpdateLockedEffect
<1>8. ASSUME NEW p \in Partitions, CreateSnapshot(p)
      PROVE  TargetIntact'
  BY <1>8, CreateSnapshotEffect, OnSource, <1>c
<1>9. CASE CreateCowImages
  BY <1>9, CreateCowImagesEffect, OnSource, <1>c
<1>10. CASE UndoCreate
  BY <1>10, UndoCreateEffect, OnSource, <1>c DEF Shrinks
<1>11. CASE RemoveRollbackIndicator
  BY <1>11, RemoveRollbackIndicatorEffect
<1>12. CASE WriteBootIndicator
  BY <1>12, WriteBootIndicatorEffect, OnSource, <1>c
<1>13. ASSUME NEW p \in Partitions, SwitchSnapshotToMerge(p)
      PROVE  TargetIntact'
  <2>1. UNCHANGED <<state, boot_ind, status, cow, base, active>>
    BY <1>13, SwitchSnapshotToMergeEffect
  <2> QED
    BY <2>1
<1>14. ASSUME NEW p \in Partitions, MarkMerging(p)
      PROVE  TargetIntact'
  <2>1. Live(p) /\ DecideMergePhase(p) = phase /\ state = "Merging"
    BY <1>14, MarkMergingEffect DEF Inv, SwitchesTrue
  <2>2. status' = status \/ status' = [status EXCEPT ![p] = "MERGING"]
    BY <1>14, MarkMergingEffect
  <2>3. UNCHANGED <<driver, state, phase, boot_ind, base, cow, active, hal, slot, recovery, dm>>
    BY <1>14, MarkMergingEffect
  <2> QED
    BY <2>1, <2>2, <2>3 DEF StorageOK
<1>15. CASE AllSwitched
  BY <1>15, AllSwitchedEffect
<1>16. ASSUME NEW p \in Partitions, CheckTargetMergeState(p)
      PROVE  TargetIntact'
  <2>1. status' = status \/ (base[p] = "new" /\ status' = [status EXCEPT ![p] = "MERGE_COMPLETED"])
    BY <1>16, CheckTargetMergeStateEffect
  <2>2. UNCHANGED <<driver, state, phase, boot_ind, base, cow, active, hal, slot, recovery>>
    BY <1>16, CheckTargetMergeStateEffect
  <2> QED
    BY <2>1, <2>2 DEF StorageOK
<1>17. ASSUME NEW p \in Partitions, CollapseSnapshotDevice(p)
      PROVE  TargetIntact'
  BY <1>17, CollapseSnapshotDeviceEffect
<1>18. ASSUME NEW p \in Partitions, DeleteMergedSnapshot(p)
      PROVE  TargetIntact'
  BY <1>18, DeleteMergedSnapshotEffect DEF Inv, PollsTrue
<1>19. CASE ConcludeMergeState
  BY <1>19, ConcludeMergeStateEffect
<1>20. CASE AcknowledgeMergeFailure
  BY <1>20, AcknowledgeMergeFailureEffect
<1>21. CASE DataWipeProcessed
  BY <1>21, DataWipeProcessedEffect
<1>22. CASE WipeData
  <2>1. /\ reset = "zapped" /\ op' = Idle /\ reset' = "over"
        /\ cow' = [p \in Partitions |-> "absent"]
        /\ UNCHANGED <<base, active, state, boot_ind, status, slot, recovery>>
    BY <1>22 DEF WipeData, IsIdle
  <2>2. CASE Over
    BY <2>1, <2>2 DEF Over, AllNew
  <2>3. CASE active = "source"
    BY <2>1, <2>3
  <2>4. CASE Dropped
    BY <2>1, <2>4 DEF Dropped, Abandoned, SourceComplete, Given
  <2> QED
    BY <2>1, <2>2, <2>3, <2>4 DEF Inv, WipesTrue
<1>23. CASE FinishMergeInRecovery
  BY <1>23 DEF FinishMergeInRecovery, IsIdle
<1>24. CASE BeginUpdate
  BY <1>24, BeginUpdateEffect
<1>25. CASE CancelUpdate
  BY <1>25, CancelUpdateEffect
<1>26. CASE CreateUpdateSnapshots
  BY <1>26, CreateUpdateSnapshotsEffect
<1>27. ASSUME NEW p \in Partitions, WriteSnapshot(p)
      PROVE  TargetIntact'
  BY <1>27, OnSource DEF WriteSnapshot, IsIdle
<1>28. CASE MapAllSnapshots
  BY <1>28 DEF MapAllSnapshots, IsIdle
<1>29. CASE UnmapAllSnapshots
  BY <1>29 DEF UnmapAllSnapshots, IsIdle
<1>30. ASSUME NEW wipe \in BOOLEAN, FinishedSnapshotWrites(wipe)
      PROVE  TargetIntact'
  BY <1>30, FinishedSnapshotWritesEffect
<1>31. CASE SetActiveBootSlot
  BY <1>31 DEF SetActiveBootSlot, IsIdle, Inv, SlotsTrue, Given
<1>32. CASE MarkBootSuccessful
  BY <1>32 DEF MarkBootSuccessful, IsIdle
<1>33. CASE InitiateMerge
  BY <1>33, InitiateMergeEffect
<1>34. CASE CheckMergeState
  BY <1>34, CheckMergeStateEffect
<1>35. ASSUME NEW p \in Partitions, MergeProgress(p)
      PROVE  TargetIntact'
  BY <1>35 DEF MergeProgress, IsIdle
<1>36. ASSUME NEW p \in Partitions, MergeFails(p)
      PROVE  TargetIntact'
  BY <1>36 DEF MergeFails, IsIdle
<1>37. CASE Crash
  BY <1>37 DEF Crash, IsIdle, GoDown
<1>38. CASE Reboot
  BY <1>38 DEF Reboot, IsIdle, GoDown
<1>39. CASE BootSource
  BY <1>39 DEF BootSource, IsIdle
<1>40. CASE BootTarget
  BY <1>40 DEF BootTarget, IsIdle
<1>41. CASE FallBack
  BY <1>41 DEF FallBack, IsIdle
<1>42. CASE BootRecovery
  BY <1>42 DEF BootRecovery, IsIdle
<1>43. ASSUME NEW why \in {"wipe", "finish"}, CreateLogicalAndSnapshotPartitions(why)
      PROVE  TargetIntact'
  BY <1>43 DEF CreateLogicalAndSnapshotPartitions, IsIdle
<1>44. CASE UNCHANGED vars
  BY <1>44 DEF vars
<1> QED
  BY <1>1, <1>2, <1>3, <1>4, <1>5, <1>6, <1>7, <1>8, <1>9, <1>10, <1>11,
     <1>12, <1>13, <1>14, <1>15, <1>16, <1>17, <1>18, <1>19, <1>20, <1>21, <1>22,
     <1>23, <1>24, <1>25, <1>26, <1>27, <1>28, <1>29, <1>30, <1>31, <1>32, <1>33,
     <1>34, <1>35, <1>36, <1>37, <1>38, <1>39, <1>40, <1>41, <1>42, <1>43, <1>44, Zenon
  DEF Next, Steps, BootUp

-----------------------------------------------------------------------------
(* The merge *)

(* The bootloader holds on to the target slot in a merge. *)
LEMMA StepGuard ==
  ASSUME Inv, [Next]_vars
  PROVE  MergeGuarded'
<1>0. Types /\ MergeGuarded
  BY DEF Inv
<1>a. Writing => op.why \notin {"none", "recheck", "merged"}
  BY ReasonsKnown
<1>b. op.pc \in {"remove", "stale"} => op.why \in {"begin", "cancel", "success", "again", "cancelled"}
  BY DEF Inv, RemovesTrue
<1> USE <1>0, IdleType, IdleFields DEF Types, MergeGuarded, Merge, Over, AllNew, Live, meta, disk, boot, power, client, history
<1>1. CASE WriteHal
  <2>1. Writing
    BY <1>1, Zenon DEF WriteHal, Writing
  <2>2. op.to \in UpdateStates
    BY DEF Types, Operation
  <2>3. /\ hal' = hal \/ (hal' = MergeStatus(op.to) /\ SetBeforeWrite(op.to)) \/ (hal' = "NONE" /\ ~SetBeforeWrite(op.to))
        /\ UNCHANGED <<state, phase, status, boot_ind, base, active, slot>>
        /\ op.pc = "write_hal"
    BY <1>1, <2>1, <1>a, WriteHalEffect
  <2> QED
    BY <2>1, <2>2, <2>3, BeforeWrite, OnSource DEF Inv, WritesTrue, UpdateStates
<1>2. CASE WriteFile
  BY <1>2, WriteFileStates, OverCommitted DEF Inv, StatusTrue
<1>3. ASSUME NEW p \in Partitions, RemoveSnapshot(p)
      PROVE  MergeGuarded'
  BY <1>3, RemoveSnapshotEffect, Removable, OverCommitted DEF Shrinks
<1>4. CASE RemoveImages
  <2>1. op.pc \in {"remove", "stale"}
    BY <1>4, Zenon DEF RemoveImages
  <2> QED
    BY <1>4, <2>1, RemoveImagesEffect, <1>b, Removable, OverCommitted DEF Shrinks
<1>5. CASE UnlinkIndicator
  BY <1>5, UnlinkIndicatorEffect, Removable, OverCommitted
<1>6. CASE RemoveInvalidSnapshot
  <2>1. op.pc \in {"remove", "stale"}
    BY <1>6, Zenon DEF RemoveInvalidSnapshot
  <2> QED
    BY <1>6, <2>1, RemoveInvalidSnapshotEffect, <1>b, Removable, OverCommitted DEF Shrinks
<1>7. CASE BeginUpdateLocked
  BY <1>7, BeginUpdateLockedEffect
<1>8. ASSUME NEW p \in Partitions, CreateSnapshot(p)
      PROVE  MergeGuarded'
  BY <1>8, CreateSnapshotEffect, OnSource DEF Inv, CreatesTrue
<1>9. CASE CreateCowImages
  BY <1>9, CreateCowImagesEffect
<1>10. CASE UndoCreate
  BY <1>10, UndoCreateEffect DEF Shrinks
<1>11. CASE RemoveRollbackIndicator
  BY <1>11, RemoveRollbackIndicatorEffect
<1>12. CASE WriteBootIndicator
  BY <1>12, WriteBootIndicatorEffect
<1>13. ASSUME NEW p \in Partitions, SwitchSnapshotToMerge(p)
      PROVE  MergeGuarded'
  BY <1>13, SwitchSnapshotToMergeEffect
<1>14. ASSUME NEW p \in Partitions, MarkMerging(p)
      PROVE  MergeGuarded'
  <2>1. Live(p) /\ DecideMergePhase(p) = phase /\ state = "Merging"
    BY <1>14, MarkMergingEffect DEF Inv, SwitchesTrue
  <2>2. status' = status \/ status' = [status EXCEPT ![p] = "MERGING"]
    BY <1>14, MarkMergingEffect
  <2>3. UNCHANGED <<driver, state, phase, boot_ind, base, cow, active, hal, slot, recovery, dm>>
    BY <1>14, MarkMergingEffect
  <2> QED
    BY <2>1, <2>2, <2>3 DEF StorageOK
<1>15. CASE AllSwitched
  BY <1>15, AllSwitchedEffect
<1>16. ASSUME NEW p \in Partitions, CheckTargetMergeState(p)
      PROVE  MergeGuarded'
  <2>1. status' = status \/ (base[p] = "new" /\ status' = [status EXCEPT ![p] = "MERGE_COMPLETED"])
    BY <1>16, CheckTargetMergeStateEffect
  <2>2. UNCHANGED <<driver, state, phase, boot_ind, base, cow, active, hal, slot, recovery>>
    BY <1>16, CheckTargetMergeStateEffect
  <2> QED
    BY <2>1, <2>2 DEF StorageOK
<1>17. ASSUME NEW p \in Partitions, CollapseSnapshotDevice(p)
      PROVE  MergeGuarded'
  BY <1>17, CollapseSnapshotDeviceEffect
<1>18. ASSUME NEW p \in Partitions, DeleteMergedSnapshot(p)
      PROVE  MergeGuarded'
  BY <1>18, DeleteMergedSnapshotEffect
<1>19. CASE ConcludeMergeState
  BY <1>19, ConcludeMergeStateEffect
<1>20. CASE AcknowledgeMergeFailure
  BY <1>20, AcknowledgeMergeFailureEffect
<1>21. CASE DataWipeProcessed
  BY <1>21, DataWipeProcessedEffect DEF Inv, ResultTrue
<1>22. CASE WipeData
  BY <1>22 DEF WipeData, IsIdle
<1>23. CASE FinishMergeInRecovery
  BY <1>23 DEF FinishMergeInRecovery, IsIdle
<1>24. CASE BeginUpdate
  BY <1>24, BeginUpdateEffect
<1>25. CASE CancelUpdate
  BY <1>25, CancelUpdateEffect
<1>26. CASE CreateUpdateSnapshots
  BY <1>26, CreateUpdateSnapshotsEffect
<1>27. ASSUME NEW p \in Partitions, WriteSnapshot(p)
      PROVE  MergeGuarded'
  BY <1>27 DEF WriteSnapshot, IsIdle
<1>28. CASE MapAllSnapshots
  BY <1>28 DEF MapAllSnapshots, IsIdle
<1>29. CASE UnmapAllSnapshots
  BY <1>29 DEF UnmapAllSnapshots, IsIdle
<1>30. ASSUME NEW wipe \in BOOLEAN, FinishedSnapshotWrites(wipe)
      PROVE  MergeGuarded'
  BY <1>30, FinishedSnapshotWritesEffect
<1>31. CASE SetActiveBootSlot
  BY <1>31, OnSource DEF SetActiveBootSlot, IsIdle
<1>32. CASE MarkBootSuccessful
  BY <1>32 DEF MarkBootSuccessful, IsIdle
<1>33. CASE InitiateMerge
  BY <1>33, InitiateMergeEffect
<1>34. CASE CheckMergeState
  BY <1>34, CheckMergeStateEffect
<1>35. ASSUME NEW p \in Partitions, MergeProgress(p)
      PROVE  MergeGuarded'
  BY <1>35 DEF MergeProgress, IsIdle
<1>36. ASSUME NEW p \in Partitions, MergeFails(p)
      PROVE  MergeGuarded'
  BY <1>36 DEF MergeFails, IsIdle
<1>37. CASE Crash
  BY <1>37 DEF Crash, IsIdle, GoDown
<1>38. CASE Reboot
  BY <1>38 DEF Reboot, IsIdle, GoDown
<1>39. CASE BootSource
  BY <1>39 DEF BootSource, IsIdle
<1>40. CASE BootTarget
  BY <1>40 DEF BootTarget, IsIdle
<1>41. CASE FallBack
  BY <1>41 DEF FallBack, IsIdle
<1>42. CASE BootRecovery
  BY <1>42 DEF BootRecovery, IsIdle
<1>43. ASSUME NEW why \in {"wipe", "finish"}, CreateLogicalAndSnapshotPartitions(why)
      PROVE  MergeGuarded'
  BY <1>43 DEF CreateLogicalAndSnapshotPartitions, IsIdle
<1>44. CASE UNCHANGED vars
  BY <1>44 DEF vars
<1> QED
  BY <1>1, <1>2, <1>3, <1>4, <1>5, <1>6, <1>7, <1>8, <1>9, <1>10, <1>11,
     <1>12, <1>13, <1>14, <1>15, <1>16, <1>17, <1>18, <1>19, <1>20, <1>21, <1>22,
     <1>23, <1>24, <1>25, <1>26, <1>27, <1>28, <1>29, <1>30, <1>31, <1>32, <1>33,
     <1>34, <1>35, <1>36, <1>37, <1>38, <1>39, <1>40, <1>41, <1>42, <1>43, <1>44, Zenon
  DEF Next, Steps, BootUp

(* The old system is overwritten only in a merge. *)
LEMMA StepCommit ==
  ASSUME Inv, [Next]_vars
  PROVE  Committed'
<1>0. Types /\ Committed
  BY DEF Inv
<1>a. Writing => op.why \notin {"none", "recheck", "merged"}
  BY ReasonsKnown
<1>b. op.pc \in {"remove", "stale"} => op.why \in {"begin", "cancel", "success", "again", "cancelled"}
  BY DEF Inv, RemovesTrue
<1> USE <1>0, IdleType, IdleFields DEF Types, Committed, SourceComplete, AllNew, Merge, meta, disk, boot, power, client, history
<1>1. CASE WriteHal
  <2>1. Writing
    BY <1>1, Zenon DEF WriteHal, Writing
  <2>2. op.to \in UpdateStates
    BY DEF Types, Operation
  <2>3. /\ hal' = hal \/ (hal' = MergeStatus(op.to) /\ SetBeforeWrite(op.to)) \/ (hal' = "NONE" /\ ~SetBeforeWrite(op.to))
        /\ UNCHANGED <<state, phase, status, boot_ind, base, active, slot>>
        /\ op.pc = "write_hal"
    BY <1>1, <2>1, <1>a, WriteHalEffect
  <2> QED
    BY <2>1, <2>2, <2>3, BeforeWrite, OnSource DEF Inv, WritesTrue, UpdateStates
<1>2. CASE WriteFile
  BY <1>2, WriteFileStates, OnSource, OverCommitted DEF Over, Dropped
<1>3. ASSUME NEW p \in Partitions, RemoveSnapshot(p)
      PROVE  Committed'
  BY <1>3, RemoveSnapshotEffect DEF Shrinks
<1>4. CASE RemoveImages
  <2>1. op.pc \in {"remove", "stale"}
    BY <1>4, Zenon DEF RemoveImages
  <2> QED
    BY <1>4, <2>1, RemoveImagesEffect, <1>b DEF Shrinks
<1>5. CASE UnlinkIndicator
  BY <1>5, UnlinkIndicatorEffect
<1>6. CASE RemoveInvalidSnapshot
  <2>1. op.pc \in {"remove", "stale"}
    BY <1>6, Zenon DEF RemoveInvalidSnapshot
  <2> QED
    BY <1>6, <2>1, RemoveInvalidSnapshotEffect, <1>b DEF Shrinks
<1>7. CASE BeginUpdateLocked
  BY <1>7, BeginUpdateLockedEffect
<1>8. ASSUME NEW p \in Partitions, CreateSnapshot(p)
      PROVE  Committed'
  BY <1>8, CreateSnapshotEffect
<1>9. CASE CreateCowImages
  BY <1>9, CreateCowImagesEffect
<1>10. CASE UndoCreate
  BY <1>10, UndoCreateEffect DEF Shrinks
<1>11. CASE RemoveRollbackIndicator
  BY <1>11, RemoveRollbackIndicatorEffect
<1>12. CASE WriteBootIndicator
  BY <1>12, WriteBootIndicatorEffect
<1>13. ASSUME NEW p \in Partitions, SwitchSnapshotToMerge(p)
      PROVE  Committed'
  BY <1>13, SwitchSnapshotToMergeEffect
<1>14. ASSUME NEW p \in Partitions, MarkMerging(p)
      PROVE  Committed'
  BY <1>14, MarkMergingEffect
<1>15. CASE AllSwitched
  BY <1>15, AllSwitchedEffect
<1>16. ASSUME NEW p \in Partitions, CheckTargetMergeState(p)
      PROVE  Committed'
  BY <1>16, CheckTargetMergeStateEffect
<1>17. ASSUME NEW p \in Partitions, CollapseSnapshotDevice(p)
      PROVE  Committed'
  BY <1>17, CollapseSnapshotDeviceEffect
<1>18. ASSUME NEW p \in Partitions, DeleteMergedSnapshot(p)
      PROVE  Committed'
  BY <1>18, DeleteMergedSnapshotEffect
<1>19. CASE ConcludeMergeState
  BY <1>19, ConcludeMergeStateEffect
<1>20. CASE AcknowledgeMergeFailure
  BY <1>20, AcknowledgeMergeFailureEffect
<1>21. CASE DataWipeProcessed
  BY <1>21, DataWipeProcessedEffect DEF Inv, ResultTrue
<1>22. CASE WipeData
  BY <1>22 DEF WipeData, IsIdle
<1>23. CASE FinishMergeInRecovery
  BY <1>23 DEF FinishMergeInRecovery, IsIdle
<1>24. CASE BeginUpdate
  BY <1>24, BeginUpdateEffect
<1>25. CASE CancelUpdate
  BY <1>25, CancelUpdateEffect
<1>26. CASE CreateUpdateSnapshots
  BY <1>26, CreateUpdateSnapshotsEffect
<1>27. ASSUME NEW p \in Partitions, WriteSnapshot(p)
      PROVE  Committed'
  BY <1>27 DEF WriteSnapshot, IsIdle
<1>28. CASE MapAllSnapshots
  BY <1>28 DEF MapAllSnapshots, IsIdle
<1>29. CASE UnmapAllSnapshots
  BY <1>29 DEF UnmapAllSnapshots, IsIdle
<1>30. ASSUME NEW wipe \in BOOLEAN, FinishedSnapshotWrites(wipe)
      PROVE  Committed'
  BY <1>30, FinishedSnapshotWritesEffect
<1>31. CASE SetActiveBootSlot
  BY <1>31, OnSource DEF SetActiveBootSlot, IsIdle
<1>32. CASE MarkBootSuccessful
  BY <1>32 DEF MarkBootSuccessful, IsIdle
<1>33. CASE InitiateMerge
  BY <1>33, InitiateMergeEffect
<1>34. CASE CheckMergeState
  BY <1>34, CheckMergeStateEffect
<1>35. ASSUME NEW p \in Partitions, MergeProgress(p)
      PROVE  Committed'
  BY <1>35 DEF MergeProgress, IsIdle, Inv, DevicesTrue, MergeGuarded
<1>36. ASSUME NEW p \in Partitions, MergeFails(p)
      PROVE  Committed'
  BY <1>36 DEF MergeFails, IsIdle
<1>37. CASE Crash
  BY <1>37 DEF Crash, IsIdle, GoDown
<1>38. CASE Reboot
  BY <1>38 DEF Reboot, IsIdle, GoDown
<1>39. CASE BootSource
  BY <1>39 DEF BootSource, IsIdle
<1>40. CASE BootTarget
  BY <1>40 DEF BootTarget, IsIdle
<1>41. CASE FallBack
  BY <1>41 DEF FallBack, IsIdle, Inv, TargetIntact, Abandoned, SourceComplete
<1>42. CASE BootRecovery
  BY <1>42 DEF BootRecovery, IsIdle
<1>43. ASSUME NEW why \in {"wipe", "finish"}, CreateLogicalAndSnapshotPartitions(why)
      PROVE  Committed'
  BY <1>43 DEF CreateLogicalAndSnapshotPartitions, IsIdle
<1>44. CASE UNCHANGED vars
  BY <1>44 DEF vars
<1> QED
  BY <1>1, <1>2, <1>3, <1>4, <1>5, <1>6, <1>7, <1>8, <1>9, <1>10, <1>11,
     <1>12, <1>13, <1>14, <1>15, <1>16, <1>17, <1>18, <1>19, <1>20, <1>21, <1>22,
     <1>23, <1>24, <1>25, <1>26, <1>27, <1>28, <1>29, <1>30, <1>31, <1>32, <1>33,
     <1>34, <1>35, <1>36, <1>37, <1>38, <1>39, <1>40, <1>41, <1>42, <1>43, <1>44, Zenon
  DEF Next, Steps, BootUp

(* The status files are true. *)
LEMMA StepStatus ==
  ASSUME Inv, [Next]_vars
  PROVE  StatusTrue'
<1>0. Types /\ StatusTrue /\ MergeGuarded /\ Committed
  BY DEF Inv
<1>a. Writing => op.why \notin {"none", "recheck", "merged"}
  BY ReasonsKnown
<1>b. op.pc \in {"remove", "stale"} => op.why \in {"begin", "cancel", "success", "again", "cancelled"}
  BY DEF Inv, RemovesTrue
<1> USE <1>0, IdleType, IdleFields DEF Types, StatusTrue, Over, AllNew, Merge, Live, meta, disk, boot, power, client, history
<1>1. CASE WriteHal
  <2>1. Writing
    BY <1>1, Zenon DEF WriteHal, Writing
  <2> QED
    BY <1>1, <2>1, WriteHalEffect, <1>a
<1>2. CASE WriteFile
  BY <1>2, WriteFileStates, OnSource DEF MergeGuarded, Committed, SourceComplete, Dropped
<1>3. ASSUME NEW p \in Partitions, RemoveSnapshot(p)
      PROVE  StatusTrue'
  BY <1>3, RemoveSnapshotEffect DEF Shrinks, StorageOK
<1>4. CASE RemoveImages
  <2>1. op.pc \in {"remove", "stale"}
    BY <1>4, Zenon DEF RemoveImages
  <2> QED
    BY <1>4, <2>1, RemoveImagesEffect, <1>b DEF Shrinks
<1>5. CASE UnlinkIndicator
  BY <1>5, UnlinkIndicatorEffect
<1>6. CASE RemoveInvalidSnapshot
  <2>1. op.pc \in {"remove", "stale"}
    BY <1>6, Zenon DEF RemoveInvalidSnapshot
  <2> QED
    BY <1>6, <2>1, RemoveInvalidSnapshotEffect, <1>b DEF Shrinks
<1>7. CASE BeginUpdateLocked
  BY <1>7, BeginUpdateLockedEffect
<1>8. ASSUME NEW p \in Partitions, CreateSnapshot(p)
      PROVE  StatusTrue'
  <2>1. slot = "source" /\ state = "Initiated" /\ SourceComplete
    BY <1>8, CreateSnapshotEffect, OnSource DEF Inv, CreatesTrue
  <2>2. state' = state /\ base' = base /\ \A q \in Partitions : status'[q] \in {status[q], "absent", "CREATED"}
    BY <1>8, CreateSnapshotEffect
  <2> QED
    BY <2>1, <2>2 DEF SourceComplete
<1>9. CASE CreateCowImages
  BY <1>9, CreateCowImagesEffect
<1>10. CASE UndoCreate
  BY <1>10, UndoCreateEffect DEF Shrinks
<1>11. CASE RemoveRollbackIndicator
  BY <1>11, RemoveRollbackIndicatorEffect
<1>12. CASE WriteBootIndicator
  BY <1>12, WriteBootIndicatorEffect
<1>13. ASSUME NEW p \in Partitions, SwitchSnapshotToMerge(p)
      PROVE  StatusTrue'
  BY <1>13, SwitchSnapshotToMergeEffect
<1>14. ASSUME NEW p \in Partitions, MarkMerging(p)
      PROVE  StatusTrue'
  <2>1. Live(p) /\ DecideMergePhase(p) = phase /\ state = "Merging"
    BY <1>14, MarkMergingEffect DEF Inv, SwitchesTrue
  <2>2. status' = status \/ status' = [status EXCEPT ![p] = "MERGING"]
    BY <1>14, MarkMergingEffect
  <2>3. UNCHANGED <<driver, state, phase, boot_ind, base, cow, active, hal, slot, recovery, dm>>
    BY <1>14, MarkMergingEffect
  <2> QED
    BY <2>1, <2>2, <2>3 DEF StorageOK
<1>15. CASE AllSwitched
  BY <1>15, AllSwitchedEffect
<1>16. ASSUME NEW p \in Partitions, CheckTargetMergeState(p)
      PROVE  StatusTrue'
  <2>1. status' = status \/ (base[p] = "new" /\ status' = [status EXCEPT ![p] = "MERGE_COMPLETED"])
    BY <1>16, CheckTargetMergeStateEffect
  <2>2. UNCHANGED <<driver, state, phase, boot_ind, base, cow, active, hal, slot, recovery>>
    BY <1>16, CheckTargetMergeStateEffect
  <2> QED
    BY <2>1, <2>2 DEF StorageOK
<1>17. ASSUME NEW p \in Partitions, CollapseSnapshotDevice(p)
      PROVE  StatusTrue'
  BY <1>17, CollapseSnapshotDeviceEffect
<1>18. ASSUME NEW p \in Partitions, DeleteMergedSnapshot(p)
      PROVE  StatusTrue'
  BY <1>18, DeleteMergedSnapshotEffect
<1>19. CASE ConcludeMergeState
  BY <1>19, ConcludeMergeStateEffect
<1>20. CASE AcknowledgeMergeFailure
  BY <1>20, AcknowledgeMergeFailureEffect
<1>21. CASE DataWipeProcessed
  BY <1>21, DataWipeProcessedEffect
<1>22. CASE WipeData
  BY <1>22 DEF WipeData, IsIdle
<1>23. CASE FinishMergeInRecovery
  BY <1>23 DEF FinishMergeInRecovery, IsIdle
<1>24. CASE BeginUpdate
  BY <1>24, BeginUpdateEffect
<1>25. CASE CancelUpdate
  BY <1>25, CancelUpdateEffect
<1>26. CASE CreateUpdateSnapshots
  BY <1>26, CreateUpdateSnapshotsEffect
<1>27. ASSUME NEW p \in Partitions, WriteSnapshot(p)
      PROVE  StatusTrue'
  BY <1>27 DEF WriteSnapshot, IsIdle
<1>28. CASE MapAllSnapshots
  BY <1>28 DEF MapAllSnapshots, IsIdle
<1>29. CASE UnmapAllSnapshots
  BY <1>29 DEF UnmapAllSnapshots, IsIdle
<1>30. ASSUME NEW wipe \in BOOLEAN, FinishedSnapshotWrites(wipe)
      PROVE  StatusTrue'
  BY <1>30, FinishedSnapshotWritesEffect
<1>31. CASE SetActiveBootSlot
  BY <1>31 DEF SetActiveBootSlot, IsIdle
<1>32. CASE MarkBootSuccessful
  BY <1>32 DEF MarkBootSuccessful, IsIdle
<1>33. CASE InitiateMerge
  BY <1>33, InitiateMergeEffect
<1>34. CASE CheckMergeState
  BY <1>34, CheckMergeStateEffect
<1>35. ASSUME NEW p \in Partitions, MergeProgress(p)
      PROVE  StatusTrue'
  BY <1>35 DEF MergeProgress, IsIdle, Inv, DevicesTrue
<1>36. ASSUME NEW p \in Partitions, MergeFails(p)
      PROVE  StatusTrue'
  BY <1>36 DEF MergeFails, IsIdle
<1>37. CASE Crash
  BY <1>37 DEF Crash, IsIdle, GoDown
<1>38. CASE Reboot
  BY <1>38 DEF Reboot, IsIdle, GoDown
<1>39. CASE BootSource
  BY <1>39 DEF BootSource, IsIdle
<1>40. CASE BootTarget
  BY <1>40 DEF BootTarget, IsIdle
<1>41. CASE FallBack
  BY <1>41 DEF FallBack, IsIdle
<1>42. CASE BootRecovery
  BY <1>42 DEF BootRecovery, IsIdle
<1>43. ASSUME NEW why \in {"wipe", "finish"}, CreateLogicalAndSnapshotPartitions(why)
      PROVE  StatusTrue'
  BY <1>43 DEF CreateLogicalAndSnapshotPartitions, IsIdle
<1>44. CASE UNCHANGED vars
  BY <1>44 DEF vars
<1> QED
  BY <1>1, <1>2, <1>3, <1>4, <1>5, <1>6, <1>7, <1>8, <1>9, <1>10, <1>11,
     <1>12, <1>13, <1>14, <1>15, <1>16, <1>17, <1>18, <1>19, <1>20, <1>21, <1>22,
     <1>23, <1>24, <1>25, <1>26, <1>27, <1>28, <1>29, <1>30, <1>31, <1>32, <1>33,
     <1>34, <1>35, <1>36, <1>37, <1>38, <1>39, <1>40, <1>41, <1>42, <1>43, <1>44, Zenon
  DEF Next, Steps, BootUp

(* The phases are kept apart. *)
LEMMA StepPhases ==
  ASSUME Inv, [Next]_vars
  PROVE  PhasesKept'
<1>0. Types /\ PhasesKept
  BY DEF Inv
<1>a. Writing => op.why \notin {"none", "recheck", "merged"}
  BY ReasonsKnown
<1>b. op.pc \in {"remove", "stale"} => op.why \in {"begin", "cancel", "success", "again", "cancelled"}
  BY DEF Inv, RemovesTrue
<1> USE <1>0, IdleType, IdleFields, PhaseKinds, SamePhase DEF Types, PhasesKept, PhaseOK, Merge, Live, meta, disk, boot, power, client, history
<1>1. CASE WriteHal
  <2>1. Writing
    BY <1>1, Zenon DEF WriteHal, Writing
  <2> QED
    BY <1>1, <2>1, WriteHalEffect, <1>a
<1>2. CASE WriteFile
  BY <1>2, WriteFileStates
<1>3. ASSUME NEW p \in Partitions, RemoveSnapshot(p)
      PROVE  PhasesKept'
  BY <1>3, RemoveSnapshotEffect DEF Shrinks, Inv, RemovesTrue, MergeGuarded, StatusTrue, Over, AllNew
<1>4. CASE RemoveImages
  <2>1. op.pc \in {"remove", "stale"}
    BY <1>4, Zenon DEF RemoveImages
  <2> QED
    BY <1>4, <2>1, RemoveImagesEffect, <1>b DEF Shrinks, Inv, RemovesTrue, MergeGuarded, StatusTrue, Over, AllNew
<1>5. CASE UnlinkIndicator
  BY <1>5, UnlinkIndicatorEffect DEF Inv, RemovesTrue, MergeGuarded, StatusTrue, Over, AllNew
<1>6. CASE RemoveInvalidSnapshot
  <2>1. op.pc \in {"remove", "stale"}
    BY <1>6, Zenon DEF RemoveInvalidSnapshot
  <2> QED
    BY <1>6, <2>1, RemoveInvalidSnapshotEffect, <1>b DEF Shrinks, Inv, RemovesTrue, MergeGuarded, StatusTrue, Over, AllNew
<1>7. CASE BeginUpdateLocked
  BY <1>7, BeginUpdateLockedEffect
<1>8. ASSUME NEW p \in Partitions, CreateSnapshot(p)
      PROVE  PhasesKept'
  BY <1>8, CreateSnapshotEffect DEF Inv, CreatesTrue
<1>9. CASE CreateCowImages
  BY <1>9, CreateCowImagesEffect
<1>10. CASE UndoCreate
  BY <1>10, UndoCreateEffect DEF Shrinks, Inv, CreatesTrue
<1>11. CASE RemoveRollbackIndicator
  BY <1>11, RemoveRollbackIndicatorEffect
<1>12. CASE WriteBootIndicator
  BY <1>12, WriteBootIndicatorEffect
<1>13. ASSUME NEW p \in Partitions, SwitchSnapshotToMerge(p)
      PROVE  PhasesKept'
  BY <1>13, SwitchSnapshotToMergeEffect
<1>14. ASSUME NEW p \in Partitions, MarkMerging(p)
      PROVE  PhasesKept'
  <2>1. Live(p) /\ DecideMergePhase(p) = phase /\ state = "Merging"
    BY <1>14, MarkMergingEffect DEF Inv, SwitchesTrue
  <2>2. status' = status \/ status' = [status EXCEPT ![p] = "MERGING"]
    BY <1>14, MarkMergingEffect
  <2>3. UNCHANGED <<driver, state, phase, boot_ind, base, cow, active, hal, slot, recovery, dm>>
    BY <1>14, MarkMergingEffect
  <2> QED
    BY <2>1, <2>2, <2>3 DEF StorageOK
<1>15. CASE AllSwitched
  BY <1>15, AllSwitchedEffect
<1>16. ASSUME NEW p \in Partitions, CheckTargetMergeState(p)
      PROVE  PhasesKept'
  <2>1. status' = status \/ (base[p] = "new" /\ status' = [status EXCEPT ![p] = "MERGE_COMPLETED"])
    BY <1>16, CheckTargetMergeStateEffect
  <2>2. UNCHANGED <<driver, state, phase, boot_ind, base, cow, active, hal, slot, recovery>>
    BY <1>16, CheckTargetMergeStateEffect
  <2> QED
    BY <2>1, <2>2 DEF StorageOK
<1>17. ASSUME NEW p \in Partitions, CollapseSnapshotDevice(p)
      PROVE  PhasesKept'
  BY <1>17, CollapseSnapshotDeviceEffect
<1>18. ASSUME NEW p \in Partitions, DeleteMergedSnapshot(p)
      PROVE  PhasesKept'
  BY <1>18, DeleteMergedSnapshotEffect DEF Inv, PollsTrue
<1>19. CASE ConcludeMergeState
  BY <1>19, ConcludeMergeStateEffect
<1>20. CASE AcknowledgeMergeFailure
  BY <1>20, AcknowledgeMergeFailureEffect
<1>21. CASE DataWipeProcessed
  BY <1>21, DataWipeProcessedEffect
<1>22. CASE WipeData
  BY <1>22 DEF WipeData, IsIdle
<1>23. CASE FinishMergeInRecovery
  BY <1>23 DEF FinishMergeInRecovery, IsIdle
<1>24. CASE BeginUpdate
  BY <1>24, BeginUpdateEffect
<1>25. CASE CancelUpdate
  BY <1>25, CancelUpdateEffect
<1>26. CASE CreateUpdateSnapshots
  BY <1>26, CreateUpdateSnapshotsEffect
<1>27. ASSUME NEW p \in Partitions, WriteSnapshot(p)
      PROVE  PhasesKept'
  BY <1>27 DEF WriteSnapshot, IsIdle
<1>28. CASE MapAllSnapshots
  BY <1>28 DEF MapAllSnapshots, IsIdle
<1>29. CASE UnmapAllSnapshots
  BY <1>29 DEF UnmapAllSnapshots, IsIdle
<1>30. ASSUME NEW wipe \in BOOLEAN, FinishedSnapshotWrites(wipe)
      PROVE  PhasesKept'
  BY <1>30, FinishedSnapshotWritesEffect
<1>31. CASE SetActiveBootSlot
  BY <1>31 DEF SetActiveBootSlot, IsIdle
<1>32. CASE MarkBootSuccessful
  BY <1>32 DEF MarkBootSuccessful, IsIdle
<1>33. CASE InitiateMerge
  BY <1>33, InitiateMergeEffect
<1>34. CASE CheckMergeState
  BY <1>34, CheckMergeStateEffect
<1>35. ASSUME NEW p \in Partitions, MergeProgress(p)
      PROVE  PhasesKept'
  BY <1>35 DEF MergeProgress, IsIdle, Inv, DevicesTrue
<1>36. ASSUME NEW p \in Partitions, MergeFails(p)
      PROVE  PhasesKept'
  BY <1>36 DEF MergeFails, IsIdle
<1>37. CASE Crash
  BY <1>37 DEF Crash, IsIdle, GoDown
<1>38. CASE Reboot
  BY <1>38 DEF Reboot, IsIdle, GoDown
<1>39. CASE BootSource
  BY <1>39 DEF BootSource, IsIdle
<1>40. CASE BootTarget
  BY <1>40 DEF BootTarget, IsIdle
<1>41. CASE FallBack
  BY <1>41 DEF FallBack, IsIdle
<1>42. CASE BootRecovery
  BY <1>42 DEF BootRecovery, IsIdle
<1>43. ASSUME NEW why \in {"wipe", "finish"}, CreateLogicalAndSnapshotPartitions(why)
      PROVE  PhasesKept'
  BY <1>43 DEF CreateLogicalAndSnapshotPartitions, IsIdle
<1>44. CASE UNCHANGED vars
  BY <1>44 DEF vars
<1> QED
  BY <1>1, <1>2, <1>3, <1>4, <1>5, <1>6, <1>7, <1>8, <1>9, <1>10, <1>11,
     <1>12, <1>13, <1>14, <1>15, <1>16, <1>17, <1>18, <1>19, <1>20, <1>21, <1>22,
     <1>23, <1>24, <1>25, <1>26, <1>27, <1>28, <1>29, <1>30, <1>31, <1>32, <1>33,
     <1>34, <1>35, <1>36, <1>37, <1>38, <1>39, <1>40, <1>41, <1>42, <1>43, <1>44, Zenon
  DEF Next, Steps, BootUp

-----------------------------------------------------------------------------
(* Devices and slots *)

(* Devices merge only in a merge and in its phase. *)
LEMMA StepDevices ==
  ASSUME Inv, [Next]_vars
  PROVE  DevicesTrue'
<1>0. Types /\ DevicesTrue
  BY DEF Inv
<1>a. Writing => op.why \notin {"none", "recheck", "merged"}
  BY ReasonsKnown
<1>b. op.pc \in {"remove", "stale"} => op.why \in {"begin", "cancel", "success", "again", "cancelled"}
  BY DEF Inv, RemovesTrue
<1> USE <1>0, IdleType, IdleFields, PhaseKinds, SamePhase DEF Types, DevicesTrue, IsSnapshotDevice, Live, Merge, meta, disk, boot, power, client, history
<1>1. CASE WriteHal
  <2>1. Writing
    BY <1>1, Zenon DEF WriteHal, Writing
  <2> QED
    BY <1>1, <2>1, WriteHalEffect, <1>a
<1>2. CASE WriteFile
  <2>1. UNCHANGED <<status, base, dm, slot, recovery>>
    BY <1>2, WriteFileStates
  <2>2. ASSUME NEW p \in Partitions, dm[p] \in {"merging", "failed"}, base[p] # "new"
        PROVE  Merge' /\ DecideMergePhase(p) = phase'
    <3>1. Merge /\ DecideMergePhase(p) = phase /\ slot # "source" /\ active = "target" /\ ~Over
      BY <2>2 DEF Inv, MergeGuarded, Over, AllNew
    <3>2. phase = "FIRST_PHASE" => ~PhaseOK("SECOND_PHASE")
      BY <2>2, <3>1 DEF PhaseOK
    <3> QED
      BY <1>2, <3>1, <3>2, WriteFileStates DEF Dropped, Merge
  <2> QED
    BY <2>1, <2>2
<1>3. ASSUME NEW p \in Partitions, RemoveSnapshot(p)
      PROVE  DevicesTrue'
  <2>1. /\ Shrinks /\ (dm' = dm \/ (CurrentSlot # "Target" /\ dm' = [dm EXCEPT ![p] = "none"]))
        /\ op.pc = "remove" /\ UNCHANGED <<state, phase, base, slot, recovery>>
    BY <1>3, RemoveSnapshotEffect
  <2>2. slot = "target" /\ recovery = FALSE => \A q \in Partitions : ~Live(q)
    BY <2>1, Removable DEF Inv, SlotsTrue, Over, DeviceOK
  <2>3. \A q \in Partitions : dm'[q] \in {dm[q], "none"} /\ status'[q] \in {status[q], "absent"}
    BY <2>1 DEF Shrinks, DeviceOK
  <2> QED
    BY <2>1, <2>2, <2>3
<1>4. CASE RemoveImages
  <2>1. op.pc \in {"remove", "stale"}
    BY <1>4, Zenon DEF RemoveImages
  <2> QED
    BY <1>4, <2>1, RemoveImagesEffect, <1>b DEF Shrinks
<1>5. CASE UnlinkIndicator
  BY <1>5, UnlinkIndicatorEffect
<1>6. CASE RemoveInvalidSnapshot
  <2>1. op.pc \in {"remove", "stale"}
    BY <1>6, Zenon DEF RemoveInvalidSnapshot
  <2> QED
    BY <1>6, <2>1, RemoveInvalidSnapshotEffect, <1>b DEF Shrinks
<1>7. CASE BeginUpdateLocked
  BY <1>7, BeginUpdateLockedEffect
<1>8. ASSUME NEW p \in Partitions, CreateSnapshot(p)
      PROVE  DevicesTrue'
  <2>1. slot = "source"
    BY <1>8, CreateSnapshotEffect DEF Inv, CreatesTrue
  <2>2. dm' = [dm EXCEPT ![p] = "none"] /\ UNCHANGED <<state, phase, base, slot, recovery>>
    BY <1>8, CreateSnapshotEffect
  <2>3. \A q \in Partitions : dm'[q] \in {dm[q], "none"}
    BY <2>2 DEF DeviceOK
  <2> QED
    BY <2>1, <2>2, <2>3
<1>9. CASE CreateCowImages
  BY <1>9, CreateCowImagesEffect
<1>10. CASE UndoCreate
  BY <1>10, UndoCreateEffect DEF Shrinks, Inv, CreatesTrue
<1>11. CASE RemoveRollbackIndicator
  BY <1>11, RemoveRollbackIndicatorEffect
<1>12. CASE WriteBootIndicator
  BY <1>12, WriteBootIndicatorEffect
<1>13. ASSUME NEW p \in Partitions, SwitchSnapshotToMerge(p)
      PROVE  DevicesTrue'
  <2>1. state = "Merging" /\ DecideMergePhase(p) = phase /\ slot # "source"
    BY <1>13, SwitchSnapshotToMergeEffect DEF Inv, SwitchesTrue, MergeGuarded
  <2>2. /\ dm' = dm \/ (dm[p] \in {"snapshot", "merging"} /\ dm' = [dm EXCEPT ![p] = "merging"])
        /\ UNCHANGED <<state, phase, status, base, slot, recovery>>
    BY <1>13, SwitchSnapshotToMergeEffect
  <2> QED
    BY <2>1, <2>2 DEF DeviceOK
<1>14. ASSUME NEW p \in Partitions, MarkMerging(p)
      PROVE  DevicesTrue'
  <2>1. Live(p) /\ DecideMergePhase(p) = phase /\ state = "Merging"
    BY <1>14, MarkMergingEffect DEF Inv, SwitchesTrue
  <2>2. status' = status \/ status' = [status EXCEPT ![p] = "MERGING"]
    BY <1>14, MarkMergingEffect
  <2>3. UNCHANGED <<driver, state, phase, boot_ind, base, cow, active, hal, slot, recovery, dm>>
    BY <1>14, MarkMergingEffect
  <2> QED
    BY <2>1, <2>2, <2>3 DEF StorageOK
<1>15. CASE AllSwitched
  BY <1>15, AllSwitchedEffect
<1>16. ASSUME NEW p \in Partitions, CheckTargetMergeState(p)
      PROVE  DevicesTrue'
  <2>1. \/ dm' = dm /\ status' = status
        \/ status[p] = "MERGING" /\ dm[p] = "snapshot" /\ dm' = [dm EXCEPT ![p] = "merging"] /\ status' = status
        \/ base[p] = "new" /\ status' = [status EXCEPT ![p] = "MERGE_COMPLETED"] /\ dm' = dm
    BY <1>16, CheckTargetMergeStateEffect
  <2>2. UNCHANGED <<state, phase, base, slot, recovery>>
    BY <1>16, CheckTargetMergeStateEffect
  <2>3. status[p] = "MERGING" => DecideMergePhase(p) = phase /\ slot # "source" /\ Merge
    BY MergingInPhase DEF Inv, MergeGuarded
  <2> QED
    BY <2>1, <2>2, <2>3 DEF StorageOK, DeviceOK
<1>17. ASSUME NEW p \in Partitions, CollapseSnapshotDevice(p)
      PROVE  DevicesTrue'
  <2>1. op.pc = "collapse" /\ p \in op.cur /\ UNCHANGED <<state, phase, status, base, slot, recovery>>
    BY <1>17, CollapseSnapshotDeviceEffect
  <2>2. ~Live(p) /\ state \in {"Merging", "MergeNeedsReboot", "MergeFailed"}
    BY <2>1 DEF Inv, PollsTrue, Polling
  <2>3. slot = "target"
    BY <2>1, <2>2, OverCommitted DEF Inv, StatusTrue, MergeGuarded, SlotsTrue, DeviceOK
  <2>4. dm' = dm \/ dm' = [dm EXCEPT ![p] = "linear"]
    BY <1>17, CollapseSnapshotDeviceEffect
  <2>5. \A q \in Partitions : dm'[q] = dm[q] \/ (q = p /\ dm'[q] = "linear")
    BY <2>4 DEF DeviceOK
  <2> QED
    BY <2>1, <2>2, <2>3, <2>5
<1>18. ASSUME NEW p \in Partitions, DeleteMergedSnapshot(p)
      PROVE  DevicesTrue'
  BY <1>18, DeleteMergedSnapshotEffect
<1>19. CASE ConcludeMergeState
  BY <1>19, ConcludeMergeStateEffect
<1>20. CASE AcknowledgeMergeFailure
  BY <1>20, AcknowledgeMergeFailureEffect
<1>21. CASE DataWipeProcessed
  BY <1>21, DataWipeProcessedEffect DEF FlagsOK, DeviceOK
<1>22. CASE WipeData
  BY <1>22 DEF WipeData, IsIdle
<1>23. CASE FinishMergeInRecovery
  BY <1>23 DEF FinishMergeInRecovery, IsIdle, FlagsOK, DeviceOK
<1>24. CASE BeginUpdate
  BY <1>24, BeginUpdateEffect
<1>25. CASE CancelUpdate
  BY <1>25, CancelUpdateEffect
<1>26. CASE CreateUpdateSnapshots
  BY <1>26, CreateUpdateSnapshotsEffect
<1>27. ASSUME NEW p \in Partitions, WriteSnapshot(p)
      PROVE  DevicesTrue'
  BY <1>27 DEF WriteSnapshot, IsIdle, FlagsOK, DeviceOK
<1>28. CASE MapAllSnapshots
  BY <1>28 DEF MapAllSnapshots, IsIdle, FlagsOK, DeviceOK
<1>29. CASE UnmapAllSnapshots
  BY <1>29 DEF UnmapAllSnapshots, IsIdle, FlagsOK, DeviceOK
<1>30. ASSUME NEW wipe \in BOOLEAN, FinishedSnapshotWrites(wipe)
      PROVE  DevicesTrue'
  BY <1>30, FinishedSnapshotWritesEffect
<1>31. CASE SetActiveBootSlot
  BY <1>31 DEF SetActiveBootSlot, IsIdle
<1>32. CASE MarkBootSuccessful
  BY <1>32 DEF MarkBootSuccessful, IsIdle
<1>33. CASE InitiateMerge
  BY <1>33, InitiateMergeEffect
<1>34. CASE CheckMergeState
  BY <1>34, CheckMergeStateEffect
<1>35. ASSUME NEW p \in Partitions, MergeProgress(p)
      PROVE  DevicesTrue'
  BY <1>35 DEF MergeProgress, IsIdle
<1>36. ASSUME NEW p \in Partitions, MergeFails(p)
      PROVE  DevicesTrue'
  BY <1>36 DEF MergeFails, IsIdle
<1>37. CASE Crash
  BY <1>37 DEF Crash, IsIdle, GoDown
<1>38. CASE Reboot
  BY <1>38 DEF Reboot, IsIdle, GoDown
<1>39. CASE BootSource
  BY <1>39 DEF BootSource, IsIdle
<1>40. CASE BootTarget
  <2>1. /\ dm' = [p \in Partitions |-> IF NeedSnapshots THEN MapTarget(p) ELSE "linear"]
        /\ slot' = "target" /\ UNCHANGED <<state, phase, status, base, recovery>> /\ active = "target"
        /\ TargetComplete
    BY <1>40, Zenon DEF BootTarget
  <2>2. ~NeedSnapshots => \A p \in Partitions : ~Live(p)
    <3>1. CASE Merge
      BY <3>1 DEF Inv, MergeGuarded, NeedSnapshots, Over
    <3>2. CASE ~Merge /\ ~NeedSnapshots
      <4>1. ~Abandoned
        BY <2>1, <3>2, PartitionsAssumption DEF Abandoned, SourceComplete, TargetComplete
      <4> QED
        BY <2>1, <3>2, <4>1, PlainTarget DEF Over
    <3> QED
      BY <3>1, <3>2
  <2>3. \A p \in Partitions : MapTarget(p) = "merging" => Merge /\ DecideMergePhase(p) = phase
    BY MergingInPhase DEF MapTarget
  <2>4. \A p \in Partitions : /\ MapTarget(p) # "failed"
                              /\ Live(p) => MapTarget(p) \in {"snapshot", "merging"}
    BY DEF MapTarget
  <2> QED
    BY <2>1, <2>2, <2>3, <2>4
<1>41. CASE FallBack
  BY <1>41 DEF FallBack, IsIdle
<1>42. CASE BootRecovery
  BY <1>42 DEF BootRecovery, IsIdle, FlagsOK, DeviceOK
<1>43. ASSUME NEW why \in {"wipe", "finish"}, CreateLogicalAndSnapshotPartitions(why)
      PROVE  DevicesTrue'
  <2>1. /\ dm' = dm \/ dm' = [p \in Partitions |-> IF slot = "target" THEN MapTarget(p) ELSE "none"]
        /\ recovery /\ UNCHANGED <<state, phase, status, base, recovery, slot>>
    BY <1>43, Zenon DEF CreateLogicalAndSnapshotPartitions
  <2>2. recovery = TRUE
    BY <2>1 DEF FlagsOK
  <2>3. \A p \in Partitions : MapTarget(p) = "merging" => Merge /\ DecideMergePhase(p) = phase
    BY MergingInPhase DEF MapTarget
  <2>4. \A p \in Partitions : MapTarget(p) # "failed"
    BY DEF MapTarget
  <2> QED
    BY <2>1, <2>2, <2>3, <2>4
<1>44. CASE UNCHANGED vars
  BY <1>44 DEF vars
<1> QED
  BY <1>1, <1>2, <1>3, <1>4, <1>5, <1>6, <1>7, <1>8, <1>9, <1>10, <1>11,
     <1>12, <1>13, <1>14, <1>15, <1>16, <1>17, <1>18, <1>19, <1>20, <1>21, <1>22,
     <1>23, <1>24, <1>25, <1>26, <1>27, <1>28, <1>29, <1>30, <1>31, <1>32, <1>33,
     <1>34, <1>35, <1>36, <1>37, <1>38, <1>39, <1>40, <1>41, <1>42, <1>43, <1>44, Zenon
  DEF Next, Steps, BootUp

(* How the end of an operation shows to those who wait for it. *)
Informs ==
  /\ begin' \in {begin, "no"} \/ (begin' = "ready" /\ (begin = "polling" \/ op.why = "begin"))
  /\ reset' = reset \/ (op.why = "zap" /\ reset' = "zapped")
  /\ result' \in {result, "none"} \/ recovery = TRUE
  /\ op.why = "zap" => result' = result

LEMMA EndsInform ==
  /\ EndsRemoval => Informs
  /\ EndsWrite => Informs
  /\ GoesSwitching => Informs
  /\ UNCHANGED client => Informs
<1>1. EndsRemoval => Informs
  BY DEF EndsRemoval, Ends, Informs, client
<1>2. EndsWrite => Informs
  BY <1>1 DEF EndsWrite, Ends, Informs, client
<1> QED
  BY <1>1, <1>2 DEF GoesSwitching, Informs, client

(* The step of an operation that leaves the slots as they are. *)
LEMMA BusySlots ==
  ASSUME Inv, op # Idle, Informs, UNCHANGED <<slot, recovery, active>>, waiting' = waiting
  PROVE  SlotsTrue'
<1>1. slot # "off" /\ waiting = FALSE
  BY DEF Inv, SlotsTrue, Types, FlagsOK
<1>2. slot = "source" => active = "source"
  BY <1>1 DEF Inv, SlotsTrue, Types, DeviceOK
<1>3. op.why = "begin" => recovery = FALSE
  BY DEF Inv, RemovesTrue
<1>4. op.why = "zap" => recovery = TRUE
  BY DEF Inv, RemovesTrue
<1> QED
  BY <1>1, <1>2, <1>3, <1>4 DEF Informs, Inv, SlotsTrue

(* Who is where. *)
LEMMA StepSlots ==
  ASSUME Inv, [Next]_vars
  PROVE  SlotsTrue'
<1>0. Types /\ SlotsTrue
  BY DEF Inv
<1>a. Writing => op.why \notin {"none", "recheck", "merged"}
  BY ReasonsKnown
<1>b. op.pc \in {"remove", "stale"} => op.why \in {"begin", "cancel", "success", "again", "cancelled"}
  BY DEF Inv, RemovesTrue
<1> USE <1>0, IdleType, IdleFields DEF Types, SlotsTrue, Given, meta, disk, boot, power, client, history
<1>1. CASE WriteHal
  <2>1. Writing
    BY <1>1, Zenon DEF WriteHal, Writing
  <2>2. op # Idle /\ waiting' = waiting /\ UNCHANGED <<slot, recovery, active>>
    BY <1>1, <2>1, WriteHalEffect, <1>a DEF Writing
  <2>3. Informs
    BY <1>1, <2>1, WriteHalEffect, <1>a, EndsInform
  <2> QED
    BY <2>2, <2>3, BusySlots
<1>2. CASE WriteFile
  <2>1. Writing
    BY <1>2, Zenon DEF WriteFile, Writing
  <2>2. op # Idle /\ op.pc = "write_file" /\ UNCHANGED <<slot, recovery, active>>
    BY <1>2, <2>1, WriteFileEffect, <1>a
  <2>3. Informs
    BY <1>2, <2>1, WriteFileEffect, <1>a, EndsInform
  <2>4. waiting = FALSE
    BY <2>2 DEF FlagsOK
  <2>5. waiting' = waiting \/ (waiting' = TRUE /\ state' = "Unverified" /\ state # "Unverified")
    <3>1. waiting' \in BOOLEAN
      BY StepFlags DEF FlagsOK
    <3> QED
      BY <1>2, <2>1, <2>4, <3>1, WriteFileEffect, <1>a
  <2>6. CASE waiting' = waiting
    BY <2>2, <2>3, <2>6, BusySlots
  <2>7. CASE waiting' = TRUE /\ state' = "Unverified" /\ state # "Unverified"
    <3>1. op.to = "Unverified" /\ op.to \in UpdateStates
      BY <1>2, <2>7, Zenon DEF WriteFile, Operation
    <3>2. /\ slot = "source" /\ recovery = FALSE /\ boot_ind = TRUE /\ rollback_ind = FALSE
          /\ Given /\ begin = "no" /\ op.why = "update"
      BY <2>1, <3>1 DEF Inv, WritesTrue
    <3>3. SetBeforeWrite(op.to)
      BY <3>1, BeforeWrite
    <3>4. EndsWrite \/ GoesSwitching
      BY <1>2, <2>1, <2>7, <3>3, WriteFileEffect, <1>a
    <3>5. op' = Idle /\ UNCHANGED <<begin, acks, reset, result>>
      BY <3>2, <3>4 DEF EndsWrite, GoesSwitching, EndsRemoval
    <3>6. UNCHANGED <<boot_ind, rollback_ind, status, cow>>
      BY <1>2, WriteFileStates
    <3> QED
      BY <2>2, <2>7, <3>2, <3>5, <3>6
  <2> QED
    BY <2>5, <2>6, <2>7
<1>3. ASSUME NEW p \in Partitions, RemoveSnapshot(p)
      PROVE  SlotsTrue'
  BY <1>3, RemoveSnapshotEffect DEF Shrinks
<1>4. CASE RemoveImages
  <2>1. op.pc \in {"remove", "stale"}
    BY <1>4, Zenon DEF RemoveImages, Writing
  <2>2. op # Idle /\ waiting' = waiting /\ UNCHANGED <<slot, recovery, active>>
    BY <1>4, <2>1, RemoveImagesEffect, <1>b DEF Writing
  <2>3. Informs
    BY <1>4, <2>1, RemoveImagesEffect, <1>b, EndsInform
  <2> QED
    BY <2>2, <2>3, BusySlots
<1>5. CASE UnlinkIndicator
  BY <1>5, UnlinkIndicatorEffect DEF Goes, OpIs, Writes
<1>6. CASE RemoveInvalidSnapshot
  <2>1. op.pc \in {"remove", "stale"}
    BY <1>6, Zenon DEF RemoveInvalidSnapshot, Writing
  <2>2. op # Idle /\ waiting' = waiting /\ UNCHANGED <<slot, recovery, active>>
    BY <1>6, <2>1, RemoveInvalidSnapshotEffect, <1>b DEF Writing
  <2>3. Informs
    BY <1>6, <2>1, RemoveInvalidSnapshotEffect, <1>b, EndsInform
  <2> QED
    BY <2>2, <2>3, BusySlots
<1>7. CASE BeginUpdateLocked
  BY <1>7, BeginUpdateLockedEffect DEF Writes
<1>8. ASSUME NEW p \in Partitions, CreateSnapshot(p)
      PROVE  SlotsTrue'
  BY <1>8, CreateSnapshotEffect
<1>9. CASE CreateCowImages
  BY <1>9, CreateCowImagesEffect DEF Writes
<1>10. CASE UndoCreate
  BY <1>10, UndoCreateEffect DEF Shrinks
<1>11. CASE RemoveRollbackIndicator
  BY <1>11, RemoveRollbackIndicatorEffect DEF Goes, OpIs
<1>12. CASE WriteBootIndicator
  BY <1>12, WriteBootIndicatorEffect DEF Writes
<1>13. ASSUME NEW p \in Partitions, SwitchSnapshotToMerge(p)
      PROVE  SlotsTrue'
  BY <1>13, SwitchSnapshotToMergeEffect DEF OpIs
<1>14. ASSUME NEW p \in Partitions, MarkMerging(p)
      PROVE  SlotsTrue'
  BY <1>14, MarkMergingEffect DEF OpIs
<1>15. CASE AllSwitched
  BY <1>15, AllSwitchedEffect DEF Writes, Ends
<1>16. ASSUME NEW p \in Partitions, CheckTargetMergeState(p)
      PROVE  SlotsTrue'
  BY <1>16, CheckTargetMergeStateEffect DEF Saw, OpIs
<1>17. ASSUME NEW p \in Partitions, CollapseSnapshotDevice(p)
      PROVE  SlotsTrue'
  BY <1>17, CollapseSnapshotDeviceEffect DEF Saw, OpIs
<1>18. ASSUME NEW p \in Partitions, DeleteMergedSnapshot(p)
      PROVE  SlotsTrue'
  BY <1>18, DeleteMergedSnapshotEffect DEF Saw, OpIs
<1>19. CASE ConcludeMergeState
  BY <1>19, ConcludeMergeStateEffect DEF Ends, Writes, Acknowledges, OpIs
<1>20. CASE AcknowledgeMergeFailure
  BY <1>20, AcknowledgeMergeFailureEffect DEF Writes
<1>21. CASE DataWipeProcessed
  BY <1>21, DataWipeProcessedEffect DEF Writes
<1>22. CASE WipeData
  BY <1>22 DEF WipeData, IsIdle, FlagsOK
<1>23. CASE FinishMergeInRecovery
  BY <1>23 DEF FinishMergeInRecovery, IsIdle, FlagsOK
<1>24. CASE BeginUpdate
  BY <1>24, BeginUpdateEffect DEF OpIs
<1>25. CASE CancelUpdate
  BY <1>25, CancelUpdateEffect DEF OpIs
<1>26. CASE CreateUpdateSnapshots
  BY <1>26, CreateUpdateSnapshotsEffect DEF OpIs
<1>27. ASSUME NEW p \in Partitions, WriteSnapshot(p)
      PROVE  SlotsTrue'
  BY <1>27 DEF WriteSnapshot, IsIdle, FlagsOK
<1>28. CASE MapAllSnapshots
  BY <1>28 DEF MapAllSnapshots, IsIdle, FlagsOK
<1>29. CASE UnmapAllSnapshots
  BY <1>29 DEF UnmapAllSnapshots, IsIdle, FlagsOK
<1>30. ASSUME NEW wipe \in BOOLEAN, FinishedSnapshotWrites(wipe)
      PROVE  SlotsTrue'
  BY <1>30, FinishedSnapshotWritesEffect DEF OpIs
<1>31. CASE SetActiveBootSlot
  BY <1>31 DEF SetActiveBootSlot, IsIdle, FlagsOK
<1>32. CASE MarkBootSuccessful
  BY <1>32 DEF MarkBootSuccessful, IsIdle
<1>33. CASE InitiateMerge
  BY <1>33, InitiateMergeEffect DEF Writes, CanInitiateMerge, CurrentSlot
<1>34. CASE CheckMergeState
  <2>1. slot # "off" /\ UNCHANGED <<slot, recovery, active, waiting, state, boot_ind, rollback_ind, status, cow>>
    BY <1>34, CheckMergeStateEffect
  <2>2. begin' = begin \/ (begin' = "ready" /\ begin = "polling")
    BY <1>34, CheckMergeStateEffect DEF Ends
  <2>3. reset' = reset /\ (result' \in {result, "none"} \/ recovery = TRUE)
    BY <1>34, CheckMergeStateEffect DEF Ends
  <2>4. waiting = TRUE => ~IsCancelledUpdate
    BY PartitionsAssumption DEF IsCancelledUpdate, CurrentSlot, Snapshots
  <2>5. waiting = TRUE => op' = Idle
    BY <1>34, <2>4, CheckMergeStateEffect DEF Ends
  <2> QED
    BY <2>1, <2>2, <2>3, <2>5
<1>35. ASSUME NEW p \in Partitions, MergeProgress(p)
      PROVE  SlotsTrue'
  BY <1>35 DEF MergeProgress, IsIdle, FlagsOK
<1>36. ASSUME NEW p \in Partitions, MergeFails(p)
      PROVE  SlotsTrue'
  BY <1>36 DEF MergeFails, IsIdle
<1>37. CASE Crash
  BY <1>37 DEF Crash, IsIdle, GoDown
<1>38. CASE Reboot
  BY <1>38 DEF Reboot, IsIdle, GoDown
<1>39. CASE BootSource
  BY <1>39 DEF BootSource, IsIdle, FlagsOK
<1>40. CASE BootTarget
  BY <1>40 DEF BootTarget, IsIdle, FlagsOK
<1>41. CASE FallBack
  BY <1>41 DEF FallBack, IsIdle, FlagsOK
<1>42. CASE BootRecovery
  <2>1. slot = "off" /\ slot' = active /\ recovery' = TRUE
    BY <1>42, Zenon DEF BootRecovery
  <2>2. UNCHANGED <<op, begin, acks, reset, result, waiting, active>>
    BY <1>42, Zenon DEF BootRecovery
  <2>3. waiting # TRUE /\ begin = "no" /\ active # "off"
    BY <2>1 DEF DeviceOK
  <2> QED
    BY <2>1, <2>2, <2>3
<1>43. ASSUME NEW why \in {"wipe", "finish"}, CreateLogicalAndSnapshotPartitions(why)
      PROVE  SlotsTrue'
  BY <1>43 DEF CreateLogicalAndSnapshotPartitions, IsIdle, FlagsOK
<1>44. CASE UNCHANGED vars
  BY <1>44 DEF vars
<1> QED
  BY <1>1, <1>2, <1>3, <1>4, <1>5, <1>6, <1>7, <1>8, <1>9, <1>10, <1>11,
     <1>12, <1>13, <1>14, <1>15, <1>16, <1>17, <1>18, <1>19, <1>20, <1>21, <1>22,
     <1>23, <1>24, <1>25, <1>26, <1>27, <1>28, <1>29, <1>30, <1>31, <1>32, <1>33,
     <1>34, <1>35, <1>36, <1>37, <1>38, <1>39, <1>40, <1>41, <1>42, <1>43, <1>44, Zenon
  DEF Next, Steps, BootUp

-----------------------------------------------------------------------------
(* What recovery was told *)

(* Only those that find everything merged ask for these writes. *)
LEMMA WhyOver ==
  ASSUME Inv, Writing, op.why \in {"needs_reboot", "completed"}
  PROVE  Over
BY DEF Inv, Types, Operation, UpdateStates, WritesTrue

(* What the end of an operation tells recovery. *)
Tells ==
  \/ result' \in {result, "none", "MergeFailed"}
  \/ result' \in {"MergeCompleted", "MergeNeedsReboot"} /\ Over
  \/ result' \in {"Cancelled", "Unverified"} /\ active = "source"

LEMMA EndsTell ==
  ASSUME Inv
  PROVE  /\ EndsRemoval => Tells
         /\ EndsWrite /\ Writing => Tells
         /\ GoesSwitching => Tells
         /\ UNCHANGED client => Tells
<1>1. op.why = "success" => Over
  BY DEF Inv, RemovesTrue
<1>2. op.why \in {"again", "cancelled"} => active = "source"
  BY DEF Inv, RemovesTrue
<1>3. EndsRemoval => Tells
  BY <1>1, <1>2 DEF EndsRemoval, Ends, Tells, client
<1>4. EndsWrite /\ Writing => Tells
  BY <1>3, WhyOver DEF EndsWrite, Ends, Tells, client
<1> QED
  BY <1>3, <1>4 DEF GoesSwitching, Tells, client

(* The step of an operation that tells the truth. *)
LEMMA BusyResult ==
  ASSUME Inv, op # Idle, Informs, Tells, active' = active, Over => Over'
  PROVE  ResultTrue'
<1>1. recovery = TRUE /\ op.why # "zap" => result \in {"none", "MergeFailed"}
  BY DEF Inv, RecoveryTrue
<1>2. op.why = "zap" => reset = "zapping"
  BY DEF Inv, RemovesTrue
<1>3. reset # "no" \/ result # "none" => recovery = TRUE
  BY DEF Inv, SlotsTrue
<1> QED
  BY <1>1, <1>2, <1>3 DEF Inv, ResultTrue, Informs, Tells

(* A merge that is over stays over. *)
LEMMA OverKept ==
  ASSUME Inv, Over, [Next]_vars
  PROVE  Over'
<1>0. Types /\ Over
  BY DEF Inv
<1>a. Writing => op.why \notin {"none", "recheck", "merged"}
  BY ReasonsKnown
<1>b. op.pc \in {"remove", "stale"} => op.why \in {"begin", "cancel", "success", "again", "cancelled"}
  BY DEF Inv, RemovesTrue
<1> USE <1>0, IdleType, IdleFields DEF Types, Over, AllNew, Live, meta, disk, boot, power, client, history
<1>1. CASE WriteHal
  <2>1. Writing
    BY <1>1, Zenon DEF WriteHal, Writing
  <2> QED
    BY <1>1, <2>1, WriteHalEffect, <1>a
<1>2. CASE WriteFile
  <2>1. Writing
    BY <1>2, Zenon DEF WriteFile, Writing
  <2> QED
    BY <1>2, <2>1, WriteFileEffect, <1>a
<1>3. ASSUME NEW p \in Partitions, RemoveSnapshot(p)
      PROVE  Over'
  BY <1>3, RemoveSnapshotEffect DEF Shrinks
<1>4. CASE RemoveImages
  <2>1. op.pc \in {"remove", "stale"}
    BY <1>4, Zenon DEF RemoveImages
  <2> QED
    BY <1>4, <2>1, RemoveImagesEffect, <1>b DEF Shrinks
<1>5. CASE UnlinkIndicator
  BY <1>5, UnlinkIndicatorEffect
<1>6. CASE RemoveInvalidSnapshot
  <2>1. op.pc \in {"remove", "stale"}
    BY <1>6, Zenon DEF RemoveInvalidSnapshot
  <2> QED
    BY <1>6, <2>1, RemoveInvalidSnapshotEffect, <1>b DEF Shrinks
<1>7. CASE BeginUpdateLocked
  BY <1>7, BeginUpdateLockedEffect
<1>8. ASSUME NEW p \in Partitions, CreateSnapshot(p)
      PROVE  Over'
  BY <1>8, CreateSnapshotEffect, OverCommitted DEF Inv, CreatesTrue
<1>9. CASE CreateCowImages
  BY <1>9, CreateCowImagesEffect
<1>10. CASE UndoCreate
  BY <1>10, UndoCreateEffect DEF Shrinks
<1>11. CASE RemoveRollbackIndicator
  BY <1>11, RemoveRollbackIndicatorEffect
<1>12. CASE WriteBootIndicator
  BY <1>12, WriteBootIndicatorEffect
<1>13. ASSUME NEW p \in Partitions, SwitchSnapshotToMerge(p)
      PROVE  Over'
  <2>1. UNCHANGED <<status, base>>
    BY <1>13, SwitchSnapshotToMergeEffect
  <2> QED
    BY <2>1
<1>14. ASSUME NEW p \in Partitions, MarkMerging(p)
      PROVE  Over'
  <2>1. Live(p)
    BY <1>14, MarkMergingEffect DEF Inv, SwitchesTrue
  <2> QED
    BY <2>1
<1>15. CASE AllSwitched
  BY <1>15, AllSwitchedEffect
<1>16. ASSUME NEW p \in Partitions, CheckTargetMergeState(p)
      PROVE  Over'
  <2>1. status' = status \/ (base[p] = "new" /\ status' = [status EXCEPT ![p] = "MERGE_COMPLETED"])
    BY <1>16, CheckTargetMergeStateEffect
  <2>2. UNCHANGED <<driver, state, phase, boot_ind, base, cow, active, hal, slot, recovery>>
    BY <1>16, CheckTargetMergeStateEffect
  <2> QED
    BY <2>1, <2>2 DEF StorageOK
<1>17. ASSUME NEW p \in Partitions, CollapseSnapshotDevice(p)
      PROVE  Over'
  BY <1>17, CollapseSnapshotDeviceEffect
<1>18. ASSUME NEW p \in Partitions, DeleteMergedSnapshot(p)
      PROVE  Over'
  BY <1>18, DeleteMergedSnapshotEffect
<1>19. CASE ConcludeMergeState
  BY <1>19, ConcludeMergeStateEffect
<1>20. CASE AcknowledgeMergeFailure
  BY <1>20, AcknowledgeMergeFailureEffect
<1>21. CASE DataWipeProcessed
  BY <1>21, DataWipeProcessedEffect
<1>22. CASE WipeData
  BY <1>22 DEF WipeData, IsIdle
<1>23. CASE FinishMergeInRecovery
  BY <1>23 DEF FinishMergeInRecovery, IsIdle
<1>24. CASE BeginUpdate
  BY <1>24, BeginUpdateEffect
<1>25. CASE CancelUpdate
  BY <1>25, CancelUpdateEffect
<1>26. CASE CreateUpdateSnapshots
  BY <1>26, CreateUpdateSnapshotsEffect
<1>27. ASSUME NEW p \in Partitions, WriteSnapshot(p)
      PROVE  Over'
  BY <1>27 DEF WriteSnapshot, IsIdle
<1>28. CASE MapAllSnapshots
  BY <1>28 DEF MapAllSnapshots, IsIdle
<1>29. CASE UnmapAllSnapshots
  BY <1>29 DEF UnmapAllSnapshots, IsIdle
<1>30. ASSUME NEW wipe \in BOOLEAN, FinishedSnapshotWrites(wipe)
      PROVE  Over'
  BY <1>30, FinishedSnapshotWritesEffect
<1>31. CASE SetActiveBootSlot
  BY <1>31 DEF SetActiveBootSlot, IsIdle
<1>32. CASE MarkBootSuccessful
  BY <1>32 DEF MarkBootSuccessful, IsIdle
<1>33. CASE InitiateMerge
  BY <1>33, InitiateMergeEffect
<1>34. CASE CheckMergeState
  BY <1>34, CheckMergeStateEffect
<1>35. ASSUME NEW p \in Partitions, MergeProgress(p)
      PROVE  Over'
  BY <1>35 DEF MergeProgress, IsIdle
<1>36. ASSUME NEW p \in Partitions, MergeFails(p)
      PROVE  Over'
  BY <1>36 DEF MergeFails, IsIdle
<1>37. CASE Crash
  BY <1>37 DEF Crash, IsIdle, GoDown
<1>38. CASE Reboot
  BY <1>38 DEF Reboot, IsIdle, GoDown
<1>39. CASE BootSource
  BY <1>39 DEF BootSource, IsIdle
<1>40. CASE BootTarget
  BY <1>40 DEF BootTarget, IsIdle
<1>41. CASE FallBack
  BY <1>41 DEF FallBack, IsIdle
<1>42. CASE BootRecovery
  BY <1>42 DEF BootRecovery, IsIdle
<1>43. ASSUME NEW why \in {"wipe", "finish"}, CreateLogicalAndSnapshotPartitions(why)
      PROVE  Over'
  BY <1>43 DEF CreateLogicalAndSnapshotPartitions, IsIdle
<1>44. CASE UNCHANGED vars
  BY <1>44 DEF vars
<1> QED
  BY <1>1, <1>2, <1>3, <1>4, <1>5, <1>6, <1>7, <1>8, <1>9, <1>10, <1>11,
     <1>12, <1>13, <1>14, <1>15, <1>16, <1>17, <1>18, <1>19, <1>20, <1>21, <1>22,
     <1>23, <1>24, <1>25, <1>26, <1>27, <1>28, <1>29, <1>30, <1>31, <1>32, <1>33,
     <1>34, <1>35, <1>36, <1>37, <1>38, <1>39, <1>40, <1>41, <1>42, <1>43, <1>44, Zenon
  DEF Next, Steps, BootUp

(* What is left of an operation that ends. *)
LEMMA EndsOp ==
  ASSUME EndsWrite \/ EndsRemoval
  PROVE  \/ op' = Idle
         \/ op.why = "create" /\ OpIs(op', "undo", op.cur, {}, {}, "none") /\ UNCHANGED client
         \/ /\ op.why = "cancelled" /\ recovery = FALSE /\ UNCHANGED client
            /\ OpIs(op', "remove", Snapshots, {}, {}, "again")
BY DEF EndsWrite, EndsRemoval, Ends

LEMMA OpSets ==
  ASSUME Inv
  PROVE  op.todo \subseteq Partitions /\ op.cur \subseteq Partitions
BY DEF Inv, Types, Operation

(* A poll that has seen nothing but merged partitions finds everything merged. *)
LEMMA PollOver ==
  ASSUME Inv, op.pc = "poll", op.todo = {}, op.seen \cap {"Merging", "MergeFailed", "None"} = {}
  PROVE  Over
<1>1. state \in {"Merging", "MergeNeedsReboot", "MergeFailed"}
  BY DEF Inv, PollsTrue, Polling
<1>2. op.seen \cap {"Merging", "MergeFailed"} = {} /\ "None" \notin op.seen
  OBVIOUS
<1>3. \A p \in Partitions : ~Live(p)
  BY <1>2 DEF Inv, PollsTrue, Polling
<1>4. CASE state = "MergeNeedsReboot"
  BY <1>4 DEF Inv, StatusTrue
<1>5. CASE Merge
  <2>1. ~Abandoned
    BY <1>5 DEF Abandoned, Merge
  <2>2. TargetComplete
    BY <1>5, <2>1 DEF Inv, MergeGuarded, TargetIntact
  <2> QED
    BY <1>3, <2>2 DEF TargetComplete, Over, AllNew
<1> QED
  BY <1>1, <1>4, <1>5 DEF Merge

(* A rollback is recognised only when the source slot is active again. *)
LEMMA CancelledOnSource ==
  ASSUME Inv, slot # "off", state = "Unverified", IsCancelledUpdate
  PROVE  active = "source"
<1>1. SUFFICES ASSUME active = "target" PROVE FALSE
  BY DEF Inv, Types, DeviceOK
<1>2. \A p \in Partitions : status[p] = "CREATED"
  BY <1>1, WholeTarget DEF Given, Abandoned
<1>3. Snapshots # {}
  BY <1>2, PartitionsAssumption DEF Snapshots
<1>4. CurrentSlot = "Source" /\ rollback_ind
  BY <1>3 DEF IsCancelledUpdate
<1>5. slot = "source"
  BY <1>4 DEF CurrentSlot
<1> QED
  BY <1>1, <1>4, <1>5 DEF Inv, SlotsTrue

(* An update is removed only when it is merged or was not booted into. *)
LEMMA CancelRemovable ==
  ASSUME Inv, active = slot, recovery = FALSE,
         state \in {"None", "Initiated"} \/ (state = "Unverified" /\ CurrentSlot # "Target")
  PROVE  Over \/ active = "source"
<1>1. SUFFICES ASSUME active = "target" PROVE Over
  BY DEF Inv, Types, DeviceOK
<1>2. ~NeedSnapshots /\ ~Merge /\ ~Abandoned
  BY <1>1 DEF NeedSnapshots, CurrentSlot, Merge, Abandoned
<1> QED
  BY <1>1, <1>2, PlainTarget

(* Those who start a merge write that it goes on. *)
LEMMA WhyMerging ==
  ASSUME Inv, Writing, op.why \in {"initiate", "second"}
  PROVE  op.to = "Merging" /\ SetBeforeWrite(op.to)
<1>1. op.to = "Merging"
  BY DEF Inv, Types, Operation, UpdateStates, WritesTrue
<1> QED
  BY <1>1, BeforeWrite DEF UpdateStates

(* What is written when an update was written completely. *)
LEMMA WrittenGiven ==
  ASSUME Inv, slot = "source", state = "Initiated", Snapshots = Partitions,
         \A p \in Partitions : cow[p] = "full"
  PROVE  Given
<1>1. SourceComplete
  BY OnSource
<1>2. \A p \in Partitions : status[p] \in {"CREATED", "MERGING", "MERGE_COMPLETED"}
  BY DEF Snapshots, Inv, Types, StorageOK
<1> QED
  BY <1>1, <1>2 DEF Given, Inv, StatusTrue, SourceComplete, Merge

(* While the data are being wiped nobody else has an operation. *)
LEMMA WipeQuiet ==
  ASSUME Inv, reset \in {"zapping", "zapped"}
  PROVE  /\ recovery = TRUE /\ acks = 0 /\ slot # "off"
         /\ op = Idle \/ op.why = "zap"
         /\ op.pc \in {"idle", "write_hal", "write_file"}
<1>1. recovery = TRUE /\ slot # "off"
  BY DEF Inv, SlotsTrue
<1>2. result \notin {"none", "MergeFailed"}
  BY DEF Inv, ResultTrue
<1>3. acks = 0
  BY <1>1, <1>2 DEF Inv, RecoveryTrue, Types, AcksOK
<1>4. op = Idle \/ op.why = "zap"
  BY <1>1, <1>2 DEF Inv, RecoveryTrue
<1>5. op.pc \in {"idle", "write_hal", "write_file"}
  BY <1>4, IdleFields DEF Inv, Types, Operation, OpSteps, RemovesTrue, CreatesTrue, SwitchesTrue, PollsTrue
<1> QED
  BY <1>1, <1>3, <1>4, <1>5

(* Only HandleImminentDataWipe starts to wipe. *)
LEMMA ResetsKept ==
  ASSUME Inv, [Next]_vars, reset' \in {"zapping", "zapped"}, ~DataWipeProcessed
  PROVE  reset \in {"zapping", "zapped"}
<1>1. op.why = "zap" => reset = "zapping"
  BY DEF Inv, RemovesTrue
<1>2. \A r : Return(r) => reset' = reset
  BY DEF Return
<1>3. \A ok : Removed(ok) => reset' = reset
  BY <1>2, Zenon DEF Removed, client
<1>4. \A ok : Written(ok) => reset' = reset \/ op.why = "zap"
  BY <1>2, <1>3, Zenon DEF Written, client
<1>5. \A why : TryCancelUpdate(why) => reset' = reset
  BY Zenon DEF TryCancelUpdate, StartRemove, client
<1>6. CASE WriteHal \/ WriteFile
  BY <1>1, <1>4, <1>6, Zenon DEF WriteHal, WriteFile, client
<1>7. CASE \/ \E p \in Partitions : RemoveSnapshot(p) \/ CreateSnapshot(p)
           \/ RemoveImages \/ UnlinkIndicator \/ RemoveInvalidSnapshot \/ BeginUpdateLocked
           \/ CreateCowImages \/ UndoCreate \/ RemoveRollbackIndicator \/ WriteBootIndicator
  BY <1>3, <1>7, Zenon DEF RemoveSnapshot, CreateSnapshot, RemoveImages, UnlinkIndicator, RemoveInvalidSnapshot,
    BeginUpdateLocked, CreateCowImages, UndoCreate, RemoveRollbackIndicator, WriteBootIndicator, client
<1>8. CASE \/ \E p \in Partitions : SwitchSnapshotToMerge(p) \/ MarkMerging(p) \/ CheckTargetMergeState(p)
           \/ \E p \in Partitions : CollapseSnapshotDevice(p) \/ DeleteMergedSnapshot(p)
           \/ AllSwitched \/ ConcludeMergeState \/ AcknowledgeMergeFailure
  BY <1>2, <1>8, Zenon DEF SwitchSnapshotToMerge, MarkMerging, CheckTargetMergeState, CollapseSnapshotDevice,
    DeleteMergedSnapshot, AllSwitched, ConcludeMergeState, AcknowledgeMergeFailure, AcknowledgeMergeSuccess, client
<1>9. CASE \/ BeginUpdate \/ CancelUpdate \/ CreateUpdateSnapshots
           \/ \E p \in Partitions : WriteSnapshot(p)
           \/ MapAllSnapshots \/ UnmapAllSnapshots
           \/ \E wipe \in BOOLEAN : FinishedSnapshotWrites(wipe)
           \/ SetActiveBootSlot \/ MarkBootSuccessful \/ InitiateMerge \/ CheckMergeState
  BY <1>2, <1>5, <1>9, Zenon DEF BeginUpdate, CancelUpdate, CreateUpdateSnapshots, WriteSnapshot,
    MapAllSnapshots, UnmapAllSnapshots, FinishedSnapshotWrites, SetActiveBootSlot, MarkBootSuccessful,
    InitiateMerge, CheckMergeState, AcknowledgeMergeSuccess, client
<1>10. CASE \/ \E p \in Partitions : MergeProgress(p) \/ MergeFails(p)
            \/ BootSource \/ BootTarget \/ FallBack \/ BootRecovery \/ UNCHANGED vars
  BY <1>10, Zenon DEF MergeProgress, MergeFails, BootSource, BootTarget, FallBack, BootRecovery, vars, client
<1>11. ~WipeData /\ ~FinishMergeInRecovery /\ ~Crash /\ ~Reboot
  BY DEF WipeData, FinishMergeInRecovery, Crash, Reboot, GoDown
<1>12. ~ \E why \in {"wipe", "finish"} : CreateLogicalAndSnapshotPartitions(why)
  BY DEF CreateLogicalAndSnapshotPartitions
<1> QED
  BY <1>6, <1>7, <1>8, <1>9, <1>10, <1>11, <1>12, Zenon DEF Next, Steps, BootUp

(* Nothing that is needed is wiped. *)
LEMMA StepWipes ==
  ASSUME Inv, [Next]_vars
  PROVE  WipesTrue'
<1>0. Types
  BY DEF Inv
<1> SUFFICES ASSUME reset' \in {"zapping", "zapped"} PROVE Over' \/ active' = "source" \/ Dropped'
  BY DEF WipesTrue
<1> USE DEF meta, disk, boot, power
<1>1. CASE DataWipeProcessed
  <2>1. /\ recovery = TRUE /\ slot # "off" /\ reset = "wipe" /\ result \notin {"none", "MergeFailed"}
        /\ active' \in {active, "source"} /\ op = Idle
        /\ UNCHANGED <<driver, state, status, base, cow, slot, recovery>>
    BY <1>0, <1>1, DataWipeProcessedEffect
  <2>2. SUFFICES ASSUME active = "target", ~Over PROVE Dropped
    BY <1>0, <2>1, OverKept DEF Dropped, Given, SourceComplete, Types, DeviceOK
  <2>3. result \in {"None", "Initiated", "Unverified"} /\ state = result
    BY <1>0, <2>1, <2>2 DEF Inv, Types, ClientOK, UpdateStates, ResultTrue
  <2>4. slot = "target"
    BY <1>0, <2>1, <2>2 DEF Inv, Types, DeviceOK, SlotsTrue
  <2>5. CASE Abandoned
    BY <2>1, <2>4, <2>5 DEF Abandoned, Dropped
  <2>6. CASE ~Abandoned
    <3>1. state = "Unverified"
      BY <2>2, <2>3, <2>6, PlainTarget DEF NeedSnapshots, Merge
    <3> QED
      BY <2>1, <2>2, <2>4, <2>6, <3>1, WholeTarget DEF Dropped
  <2> QED
    BY <2>5, <2>6
<1>2. CASE ~DataWipeProcessed
  <2>1. reset \in {"zapping", "zapped"}
    BY <1>2, ResetsKept
  <2>2. /\ recovery = TRUE /\ acks = 0 /\ slot # "off"
        /\ op.pc \in {"idle", "write_hal", "write_file"} /\ (op = Idle \/ op.why = "zap")
    BY <2>1, WipeQuiet
  <2>3. CASE Over
    BY <2>3, OverKept
  <2>4. ~Crash /\ ~Reboot /\ ~WipeData /\ ~ \E why \in {"wipe", "finish"} : CreateLogicalAndSnapshotPartitions(why)
    BY DEF Crash, Reboot, GoDown, WipeData, CreateLogicalAndSnapshotPartitions
  <2>5. ~BootSource /\ ~BootTarget /\ ~FallBack /\ ~BootRecovery
    BY <2>2 DEF BootSource, BootTarget, FallBack, BootRecovery
  <2>6. ~AcknowledgeMergeFailure /\ ~FinishMergeInRecovery /\ ~CheckMergeState
    <3>1. ~AcknowledgeMergeFailure
      BY <2>2 DEF AcknowledgeMergeFailure
    <3>2. ~FinishMergeInRecovery
      BY <2>1 DEF FinishMergeInRecovery
    <3>3. CheckMergeState => reset \in {"wipe", "finish"}
      BY <1>0, <2>2, CheckMergeStateEffect
    <3> QED
      BY <2>1, <3>1, <3>2, <3>3
  <2>7. \/ WriteHal \/ WriteFile \/ \E p \in Partitions : MergeProgress(p) \/ MergeFails(p)
        \/ UNCHANGED vars
    BY <1>2, <2>2, <2>4, <2>5, <2>6, QuietSteps
  <2>8. UNCHANGED <<active, slot, recovery, status, cow>>
    BY <2>7 DEF WriteHal, WriteFile, MergeProgress, MergeFails, vars
  <2>9. CASE Dropped /\ ~Over
    <3>1. ~Merge /\ SourceComplete
      BY <2>9 DEF Dropped, Merge
    <3>2. ~ \E p \in Partitions : MergeProgress(p) \/ MergeFails(p)
      BY <3>1 DEF MergeProgress, MergeFails, Inv, DevicesTrue, SourceComplete
    <3>3. base' = base
      BY <2>7, <3>2 DEF WriteHal, WriteFile, vars
    <3>4. state' \in {state, "None"}
      <4>1. WriteFile => op.why = "zap" /\ op.to = "None"
        BY <2>2, IdleFields DEF WriteFile, Inv, Types, Operation, UpdateStates, WritesTrue, Writing
      <4>2. WriteFile => state' \in {op.to, state}
        BY Zenon DEF WriteFile
      <4> QED
        BY <2>7, <3>2, <4>1, <4>2 DEF WriteHal, vars
    <3> QED
      BY <2>8, <2>9, <3>3, <3>4 DEF Dropped, SourceComplete, Given
  <2> QED
    BY <2>1, <2>3, <2>8, <2>9 DEF Inv, WipesTrue
<1> QED
  BY <1>1, <1>2

(* What recovery was told is true. *)
LEMMA StepResult ==
  ASSUME Inv, [Next]_vars
  PROVE  ResultTrue'
<1>0. Types /\ ResultTrue
  BY DEF Inv
<1>a. Writing => op.why \notin {"none", "recheck", "merged"}
  BY ReasonsKnown
<1>b. op.pc \in {"remove", "stale"} => op.why \in {"begin", "cancel", "success", "again", "cancelled"}
  BY DEF Inv, RemovesTrue
<1> USE <1>0, IdleType, IdleFields, OverKept DEF Types, ResultTrue, meta, disk, boot, power, client, history
<1>1. CASE WriteHal
  <2>1. Writing
    BY <1>1, Zenon DEF WriteHal, Writing
  <2>2. op # Idle /\ active' = active
    BY <1>1, <2>1, WriteHalEffect, <1>a DEF Writing
  <2>3. Informs /\ Tells
    BY <1>1, <2>1, WriteHalEffect, <1>a, EndsInform, EndsTell
  <2>4. Over => Over'
    BY <1>1, <2>1, WriteHalEffect, <1>a DEF Over, AllNew, Live
  <2> QED
    BY <2>2, <2>3, <2>4, BusyResult
<1>2. CASE WriteFile
  <2>1. Writing
    BY <1>2, Zenon DEF WriteFile, Writing
  <2>2. op # Idle /\ active' = active
    BY <1>2, <2>1, WriteFileEffect, <1>a DEF Writing
  <2>3. Informs /\ Tells
    BY <1>2, <2>1, WriteFileEffect, <1>a, EndsInform, EndsTell
  <2>4. Over => Over'
    BY <1>2, <2>1, WriteFileEffect, <1>a DEF Over, AllNew, Live
  <2> QED
    BY <2>2, <2>3, <2>4, BusyResult
<1>3. ASSUME NEW p \in Partitions, RemoveSnapshot(p)
      PROVE  ResultTrue'
  BY <1>3, RemoveSnapshotEffect DEF Shrinks
<1>4. CASE RemoveImages
  <2>1. op.pc \in {"remove", "stale"}
    BY <1>4, Zenon DEF RemoveImages, Writing
  <2>2. op # Idle /\ active' = active
    BY <1>4, <2>1, RemoveImagesEffect, <1>b DEF Writing
  <2>3. Informs /\ Tells
    BY <1>4, <2>1, RemoveImagesEffect, <1>b, EndsInform, EndsTell
  <2>4. Over => Over'
    BY <1>4, <2>1, RemoveImagesEffect, <1>b DEF Over, AllNew, Live, Shrinks
  <2> QED
    BY <2>2, <2>3, <2>4, BusyResult
<1>5. CASE UnlinkIndicator
  BY <1>5, UnlinkIndicatorEffect
<1>6. CASE RemoveInvalidSnapshot
  <2>1. op.pc \in {"remove", "stale"}
    BY <1>6, Zenon DEF RemoveInvalidSnapshot, Writing
  <2>2. op # Idle /\ active' = active
    BY <1>6, <2>1, RemoveInvalidSnapshotEffect, <1>b DEF Writing
  <2>3. Informs /\ Tells
    BY <1>6, <2>1, RemoveInvalidSnapshotEffect, <1>b, EndsInform, EndsTell
  <2>4. Over => Over'
    BY <1>6, <2>1, RemoveInvalidSnapshotEffect, <1>b DEF Over, AllNew, Live, Shrinks
  <2> QED
    BY <2>2, <2>3, <2>4, BusyResult
<1>7. CASE BeginUpdateLocked
  BY <1>7, BeginUpdateLockedEffect
<1>8. ASSUME NEW p \in Partitions, CreateSnapshot(p)
      PROVE  ResultTrue'
  BY <1>8, CreateSnapshotEffect DEF Inv, CreatesTrue, SlotsTrue
<1>9. CASE CreateCowImages
  BY <1>9, CreateCowImagesEffect
<1>10. CASE UndoCreate
  BY <1>10, UndoCreateEffect DEF Shrinks
<1>11. CASE RemoveRollbackIndicator
  BY <1>11, RemoveRollbackIndicatorEffect
<1>12. CASE WriteBootIndicator
  BY <1>12, WriteBootIndicatorEffect
<1>13. ASSUME NEW p \in Partitions, SwitchSnapshotToMerge(p)
      PROVE  ResultTrue'
  BY <1>13, SwitchSnapshotToMergeEffect
<1>14. ASSUME NEW p \in Partitions, MarkMerging(p)
      PROVE  ResultTrue'
  BY <1>14, MarkMergingEffect
<1>15. CASE AllSwitched
  <2>1. op # Idle /\ active' = active
    BY <1>15, AllSwitchedEffect
  <2>2. Informs /\ Tells
    BY <1>15, AllSwitchedEffect, EndsInform, EndsTell DEF Ends, Informs, Tells, Inv, SwitchesTrue
  <2> QED
    BY <2>1, <2>2, BusyResult, OverKept
<1>16. ASSUME NEW p \in Partitions, CheckTargetMergeState(p)
      PROVE  ResultTrue'
  <2>1. UNCHANGED <<state, active, reset, result>>
    BY <1>16, CheckTargetMergeStateEffect
  <2> QED
    BY <2>1
<1>17. ASSUME NEW p \in Partitions, CollapseSnapshotDevice(p)
      PROVE  ResultTrue'
  BY <1>17, CollapseSnapshotDeviceEffect
<1>18. ASSUME NEW p \in Partitions, DeleteMergedSnapshot(p)
      PROVE  ResultTrue'
  BY <1>18, DeleteMergedSnapshotEffect
<1>19. CASE ConcludeMergeState
  <2>1. op # Idle /\ active' = active
    BY <1>19, ConcludeMergeStateEffect
  <2>2. Informs /\ Tells
    BY <1>19, ConcludeMergeStateEffect, EndsInform, EndsTell DEF Ends, Informs, Tells, Inv, PollsTrue
  <2> QED
    BY <2>1, <2>2, BusyResult, OverKept
<1>20. CASE AcknowledgeMergeFailure
  BY <1>20, AcknowledgeMergeFailureEffect
<1>21. CASE DataWipeProcessed
  <2>1. UNCHANGED state /\ reset = "wipe" /\ active' \in {active, "source"} /\ result # "none"
    BY <1>21, DataWipeProcessedEffect
  <2>2. \/ reset' \in {reset, "over"} /\ result' \in {result, "none"} /\ active' = active
        \/ result # "MergeFailed" /\ result' = result /\ reset' \in {"zapping", "zapped"}
    BY <1>21, DataWipeProcessedEffect
  <2> QED
    BY <2>1, <2>2
<1>22. CASE WipeData
  BY <1>22 DEF WipeData, IsIdle
<1>23. CASE FinishMergeInRecovery
  BY <1>23 DEF FinishMergeInRecovery, IsIdle
<1>24. CASE BeginUpdate
  BY <1>24, BeginUpdateEffect
<1>25. CASE CancelUpdate
  BY <1>25, CancelUpdateEffect
<1>26. CASE CreateUpdateSnapshots
  BY <1>26, CreateUpdateSnapshotsEffect
<1>27. ASSUME NEW p \in Partitions, WriteSnapshot(p)
      PROVE  ResultTrue'
  BY <1>27 DEF WriteSnapshot, IsIdle
<1>28. CASE MapAllSnapshots
  BY <1>28 DEF MapAllSnapshots, IsIdle
<1>29. CASE UnmapAllSnapshots
  BY <1>29 DEF UnmapAllSnapshots, IsIdle
<1>30. ASSUME NEW wipe \in BOOLEAN, FinishedSnapshotWrites(wipe)
      PROVE  ResultTrue'
  BY <1>30, FinishedSnapshotWritesEffect
<1>31. CASE SetActiveBootSlot
  BY <1>31 DEF SetActiveBootSlot, IsIdle, Inv, SlotsTrue, FlagsOK
<1>32. CASE MarkBootSuccessful
  BY <1>32 DEF MarkBootSuccessful, IsIdle
<1>33. CASE InitiateMerge
  BY <1>33, InitiateMergeEffect
<1>34. CASE CheckMergeState
  <2>1. /\ recovery = TRUE => reset \in {"wipe", "finish"}
        /\ reset' = reset /\ UNCHANGED <<state, active>>
        /\ result' = result \/ result' = "none"
             \/ (recovery = TRUE /\ result' \in {"None", "Initiated", "Unverified", "MergeFailed"}
                                  /\ (result' # "MergeFailed" => result' = state))
    BY <1>34, CheckMergeStateEffect DEF Ends
  <2>2. recovery = FALSE \/ recovery = TRUE
    BY DEF Types, FlagsOK
  <2>3. recovery = FALSE => reset = "no" /\ result = "none"
    BY DEF Inv, SlotsTrue
  <2> QED
    BY <2>1, <2>2, <2>3
<1>35. ASSUME NEW p \in Partitions, MergeProgress(p)
      PROVE  ResultTrue'
  BY <1>35 DEF MergeProgress, IsIdle
<1>36. ASSUME NEW p \in Partitions, MergeFails(p)
      PROVE  ResultTrue'
  BY <1>36 DEF MergeFails, IsIdle
<1>37. CASE Crash
  BY <1>37 DEF Crash, IsIdle, GoDown
<1>38. CASE Reboot
  BY <1>38 DEF Reboot, IsIdle, GoDown
<1>39. CASE BootSource
  BY <1>39 DEF BootSource, IsIdle
<1>40. CASE BootTarget
  BY <1>40 DEF BootTarget, IsIdle
<1>41. CASE FallBack
  BY <1>41 DEF FallBack, IsIdle, Inv, SlotsTrue, FlagsOK
<1>42. CASE BootRecovery
  BY <1>42 DEF BootRecovery, IsIdle
<1>43. ASSUME NEW why \in {"wipe", "finish"}, CreateLogicalAndSnapshotPartitions(why)
      PROVE  ResultTrue'
  BY <1>43 DEF CreateLogicalAndSnapshotPartitions, IsIdle, Inv, RecoveryTrue, FlagsOK
<1>44. CASE UNCHANGED vars
  BY <1>44 DEF vars
<1> QED
  BY <1>1, <1>2, <1>3, <1>4, <1>5, <1>6, <1>7, <1>8, <1>9, <1>10, <1>11,
     <1>12, <1>13, <1>14, <1>15, <1>16, <1>17, <1>18, <1>19, <1>20, <1>21, <1>22,
     <1>23, <1>24, <1>25, <1>26, <1>27, <1>28, <1>29, <1>30, <1>31, <1>32, <1>33,
     <1>34, <1>35, <1>36, <1>37, <1>38, <1>39, <1>40, <1>41, <1>42, <1>43, <1>44, Zenon
  DEF Next, Steps, BootUp

(* Who may speak in recovery. *)
LEMMA StepRecovery ==
  ASSUME Inv, [Next]_vars
  PROVE  RecoveryTrue'
<1>0. Types /\ RecoveryTrue
  BY DEF Inv
<1>a. Writing => op.why \notin {"none", "recheck", "merged"}
  BY ReasonsKnown
<1>b. op.pc \in {"remove", "stale"} => op.why \in {"begin", "cancel", "success", "again", "cancelled"}
  BY DEF Inv, RemovesTrue
<1> USE <1>0, IdleType, IdleFields, BoundsAssumption DEF Types, RecoveryTrue, AcksOK, meta, disk, boot, power, client, history
<1>1. CASE WriteHal
  <2>1. Writing
    BY <1>1, Zenon DEF WriteHal, Writing
  <2> QED
    BY <1>1, <2>1, WriteHalEffect, <1>a DEF Goes, OpIs, EndsWrite, EndsRemoval, Ends, GoesSwitching
<1>2. CASE WriteFile
  <2>1. Writing
    BY <1>2, Zenon DEF WriteFile, Writing
  <2> QED
    BY <1>2, <2>1, WriteFileEffect, <1>a DEF Goes, OpIs, EndsWrite, EndsRemoval, Ends, GoesSwitching
<1>3. ASSUME NEW p \in Partitions, RemoveSnapshot(p)
      PROVE  RecoveryTrue'
  BY <1>3, RemoveSnapshotEffect DEF Shrinks
<1>4. CASE RemoveImages
  <2>1. op.pc \in {"remove", "stale"}
    BY <1>4, Zenon DEF RemoveImages
  <2> QED
    BY <1>4, <2>1, RemoveImagesEffect, <1>b DEF Goes, OpIs, EndsRemoval, Ends, Shrinks
<1>5. CASE UnlinkIndicator
  BY <1>5, UnlinkIndicatorEffect DEF Goes, OpIs, Writes
<1>6. CASE RemoveInvalidSnapshot
  <2>1. op.pc \in {"remove", "stale"}
    BY <1>6, Zenon DEF RemoveInvalidSnapshot
  <2> QED
    BY <1>6, <2>1, RemoveInvalidSnapshotEffect, <1>b DEF OpIs, EndsRemoval, Ends, Shrinks
<1>7. CASE BeginUpdateLocked
  BY <1>7, BeginUpdateLockedEffect DEF Writes
<1>8. ASSUME NEW p \in Partitions, CreateSnapshot(p)
      PROVE  RecoveryTrue'
  BY <1>8, CreateSnapshotEffect
<1>9. CASE CreateCowImages
  BY <1>9, CreateCowImagesEffect DEF Writes, Inv, CreatesTrue
<1>10. CASE UndoCreate
  BY <1>10, UndoCreateEffect DEF Shrinks
<1>11. CASE RemoveRollbackIndicator
  BY <1>11, RemoveRollbackIndicatorEffect DEF Goes, OpIs
<1>12. CASE WriteBootIndicator
  BY <1>12, WriteBootIndicatorEffect DEF Writes, Inv, CreatesTrue
<1>13. ASSUME NEW p \in Partitions, SwitchSnapshotToMerge(p)
      PROVE  RecoveryTrue'
  BY <1>13, SwitchSnapshotToMergeEffect DEF OpIs
<1>14. ASSUME NEW p \in Partitions, MarkMerging(p)
      PROVE  RecoveryTrue'
  BY <1>14, MarkMergingEffect DEF OpIs
<1>15. CASE AllSwitched
  BY <1>15, AllSwitchedEffect DEF Writes, Ends, Inv, SwitchesTrue
<1>16. ASSUME NEW p \in Partitions, CheckTargetMergeState(p)
      PROVE  RecoveryTrue'
  <2>1. op # Idle /\ UNCHANGED <<recovery, reset, acks, result>>
    BY <1>16, CheckTargetMergeStateEffect
  <2>2. op.why \notin {"update", "zap"}
    BY <1>16, CheckTargetMergeStateEffect DEF Inv, PollsTrue
  <2> QED
    BY <2>1, <2>2
<1>17. ASSUME NEW p \in Partitions, CollapseSnapshotDevice(p)
      PROVE  RecoveryTrue'
  <2>1. op # Idle /\ UNCHANGED <<recovery, reset, acks, result>>
    BY <1>17, CollapseSnapshotDeviceEffect
  <2>2. op.why \notin {"update", "zap"}
    BY <1>17, CollapseSnapshotDeviceEffect DEF Inv, PollsTrue
  <2> QED
    BY <2>1, <2>2
<1>18. ASSUME NEW p \in Partitions, DeleteMergedSnapshot(p)
      PROVE  RecoveryTrue'
  <2>1. op # Idle /\ UNCHANGED <<recovery, reset, acks, result>>
    BY <1>18, DeleteMergedSnapshotEffect
  <2>2. op.why \notin {"update", "zap"}
    BY <1>18, DeleteMergedSnapshotEffect DEF Inv, PollsTrue
  <2> QED
    BY <2>1, <2>2
<1>19. CASE ConcludeMergeState
  <2>1. op # Idle /\ op.why \notin {"update", "zap"} /\ UNCHANGED recovery
    BY <1>19, ConcludeMergeStateEffect DEF Inv, PollsTrue
  <2>2. \/ op' = Idle /\ acks' = acks + 1 /\ reset' = reset /\ (recovery = TRUE => result' = "MergeFailed")
        \/ op' = Idle /\ acks' = acks /\ reset' = reset /\ result' = "none"
        \/ UNCHANGED <<acks, reset, result>> /\ op'.why \notin {"update", "zap"}
    BY <1>19, ConcludeMergeStateEffect DEF Ends, Writes, Acknowledges, OpIs
  <2> QED
    BY <2>1, <2>2
<1>20. CASE AcknowledgeMergeFailure
  BY <1>20, AcknowledgeMergeFailureEffect DEF Writes
<1>21. CASE DataWipeProcessed
  BY <1>21, DataWipeProcessedEffect DEF Writes
<1>22. CASE WipeData
  BY <1>22 DEF WipeData, IsIdle
<1>23. CASE FinishMergeInRecovery
  BY <1>23 DEF FinishMergeInRecovery, IsIdle
<1>24. CASE BeginUpdate
  BY <1>24, BeginUpdateEffect DEF OpIs
<1>25. CASE CancelUpdate
  BY <1>25, CancelUpdateEffect DEF OpIs
<1>26. CASE CreateUpdateSnapshots
  BY <1>26, CreateUpdateSnapshotsEffect DEF OpIs
<1>27. ASSUME NEW p \in Partitions, WriteSnapshot(p)
      PROVE  RecoveryTrue'
  BY <1>27 DEF WriteSnapshot, IsIdle
<1>28. CASE MapAllSnapshots
  BY <1>28 DEF MapAllSnapshots, IsIdle
<1>29. CASE UnmapAllSnapshots
  BY <1>29 DEF UnmapAllSnapshots, IsIdle
<1>30. ASSUME NEW wipe \in BOOLEAN, FinishedSnapshotWrites(wipe)
      PROVE  RecoveryTrue'
  BY <1>30, FinishedSnapshotWritesEffect DEF OpIs
<1>31. CASE SetActiveBootSlot
  BY <1>31 DEF SetActiveBootSlot, IsIdle, FlagsOK
<1>32. CASE MarkBootSuccessful
  BY <1>32 DEF MarkBootSuccessful, IsIdle
<1>33. CASE InitiateMerge
  BY <1>33, InitiateMergeEffect DEF Writes
<1>34. CASE CheckMergeState
  BY <1>34, CheckMergeStateEffect DEF Ends, Acknowledges, OpIs, Writes
<1>35. ASSUME NEW p \in Partitions, MergeProgress(p)
      PROVE  RecoveryTrue'
  BY <1>35 DEF MergeProgress, IsIdle
<1>36. ASSUME NEW p \in Partitions, MergeFails(p)
      PROVE  RecoveryTrue'
  BY <1>36 DEF MergeFails, IsIdle
<1>37. CASE Crash
  BY <1>37 DEF Crash, IsIdle, GoDown
<1>38. CASE Reboot
  BY <1>38 DEF Reboot, IsIdle, GoDown
<1>39. CASE BootSource
  BY <1>39 DEF BootSource, IsIdle, FlagsOK
<1>40. CASE BootTarget
  BY <1>40 DEF BootTarget, IsIdle, FlagsOK
<1>41. CASE FallBack
  BY <1>41 DEF FallBack, IsIdle, FlagsOK
<1>42. CASE BootRecovery
  BY <1>42 DEF BootRecovery, IsIdle, Inv, SlotsTrue
<1>43. ASSUME NEW why \in {"wipe", "finish"}, CreateLogicalAndSnapshotPartitions(why)
      PROVE  RecoveryTrue'
  BY <1>43 DEF CreateLogicalAndSnapshotPartitions, IsIdle, FlagsOK
<1>44. CASE UNCHANGED vars
  BY <1>44 DEF vars
<1> QED
  BY <1>1, <1>2, <1>3, <1>4, <1>5, <1>6, <1>7, <1>8, <1>9, <1>10, <1>11,
     <1>12, <1>13, <1>14, <1>15, <1>16, <1>17, <1>18, <1>19, <1>20, <1>21, <1>22,
     <1>23, <1>24, <1>25, <1>26, <1>27, <1>28, <1>29, <1>30, <1>31, <1>32, <1>33,
     <1>34, <1>35, <1>36, <1>37, <1>38, <1>39, <1>40, <1>41, <1>42, <1>43, <1>44, Zenon
  DEF Next, Steps, BootUp

(* What a removal relies on. *)
LEMMA StepRemoves ==
  ASSUME Inv, [Next]_vars
  PROVE  RemovesTrue'
<1>0. Types /\ RemovesTrue
  BY DEF Inv
<1>a. Writing => op.why \notin {"none", "recheck", "merged"}
  BY ReasonsKnown
<1>b. op.pc \in {"remove", "stale"} => op.why \in {"begin", "cancel", "success", "again", "cancelled"}
  BY DEF Inv, RemovesTrue
<1> USE <1>0, IdleType, IdleFields, OverKept DEF Types, RemovesTrue, meta, disk, boot, power, client, history
<1>1. CASE WriteHal
  <2>1. Writing
    BY <1>1, Zenon DEF WriteHal, Writing
  <2> QED
    BY <1>1, <2>1, WriteHalEffect, <1>a, EndsOp DEF Goes, OpIs, GoesSwitching
<1>2. CASE WriteFile
  <2>1. Writing
    BY <1>2, Zenon DEF WriteFile, Writing
  <2> QED
    BY <1>2, <2>1, WriteFileEffect, <1>a, EndsOp DEF Goes, OpIs, GoesSwitching
<1>3. ASSUME NEW p \in Partitions, RemoveSnapshot(p)
      PROVE  RemovesTrue'
  BY <1>3, RemoveSnapshotEffect DEF Shrinks
<1>4. CASE RemoveImages
  <2>1. op.pc \in {"remove", "stale"}
    BY <1>4, Zenon DEF RemoveImages
  <2> QED
    BY <1>4, <2>1, RemoveImagesEffect, <1>b, EndsOp DEF Goes, OpIs, GoesSwitching
<1>5. CASE UnlinkIndicator
  BY <1>5, UnlinkIndicatorEffect DEF Goes, OpIs, Writes
<1>6. CASE RemoveInvalidSnapshot
  <2>1. op.pc \in {"remove", "stale"}
    BY <1>6, Zenon DEF RemoveInvalidSnapshot
  <2> QED
    BY <1>6, <2>1, RemoveInvalidSnapshotEffect, <1>b, EndsOp DEF Goes, OpIs, GoesSwitching
<1>7. CASE BeginUpdateLocked
  BY <1>7, BeginUpdateLockedEffect DEF Writes
<1>8. ASSUME NEW p \in Partitions, CreateSnapshot(p)
      PROVE  RemovesTrue'
  BY <1>8, CreateSnapshotEffect DEF Inv, CreatesTrue
<1>9. CASE CreateCowImages
  BY <1>9, CreateCowImagesEffect DEF Writes, Inv, CreatesTrue
<1>10. CASE UndoCreate
  BY <1>10, UndoCreateEffect DEF Shrinks, Inv, CreatesTrue
<1>11. CASE RemoveRollbackIndicator
  BY <1>11, RemoveRollbackIndicatorEffect DEF Goes, OpIs, Inv, CreatesTrue
<1>12. CASE WriteBootIndicator
  BY <1>12, WriteBootIndicatorEffect DEF Writes
<1>13. ASSUME NEW p \in Partitions, SwitchSnapshotToMerge(p)
      PROVE  RemovesTrue'
  BY <1>13, SwitchSnapshotToMergeEffect DEF OpIs, Inv, SwitchesTrue
<1>14. ASSUME NEW p \in Partitions, MarkMerging(p)
      PROVE  RemovesTrue'
  BY <1>14, MarkMergingEffect DEF OpIs, Inv, SwitchesTrue
<1>15. CASE AllSwitched
  BY <1>15, AllSwitchedEffect DEF Writes, Ends
<1>16. ASSUME NEW p \in Partitions, CheckTargetMergeState(p)
      PROVE  RemovesTrue'
  BY <1>16, CheckTargetMergeStateEffect DEF Saw, OpIs, Inv, PollsTrue
<1>17. ASSUME NEW p \in Partitions, CollapseSnapshotDevice(p)
      PROVE  RemovesTrue'
  BY <1>17, CollapseSnapshotDeviceEffect DEF Saw, OpIs, Inv, PollsTrue
<1>18. ASSUME NEW p \in Partitions, DeleteMergedSnapshot(p)
      PROVE  RemovesTrue'
  BY <1>18, DeleteMergedSnapshotEffect DEF Saw, OpIs, Inv, PollsTrue
<1>19. CASE ConcludeMergeState
  <2>1. \/ op' = Idle
        \/ op' \in Operation /\ op'.pc \in {"write_hal", "write_file"} /\ op'.why \in {"second", "needs_reboot", "completed"}
        \/ op'.pc = "remove" /\ op'.why = "success" /\ recovery = FALSE /\ Over
    BY <1>19, ConcludeMergeStateEffect, PollOver DEF Ends, Writes, Acknowledges, OpIs
  <2>2. UNCHANGED <<recovery, active>>
    BY <1>19, ConcludeMergeStateEffect
  <2> QED
    BY <2>1, <2>2
<1>20. CASE AcknowledgeMergeFailure
  BY <1>20, AcknowledgeMergeFailureEffect DEF Writes
<1>21. CASE DataWipeProcessed
  BY <1>21, DataWipeProcessedEffect DEF Writes
<1>22. CASE WipeData
  BY <1>22 DEF WipeData, IsIdle
<1>23. CASE FinishMergeInRecovery
  BY <1>23 DEF FinishMergeInRecovery, IsIdle
<1>24. CASE BeginUpdate
  BY <1>24, BeginUpdateEffect, CancelRemovable DEF OpIs
<1>25. CASE CancelUpdate
  BY <1>25, CancelUpdateEffect, CancelRemovable DEF OpIs
<1>26. CASE CreateUpdateSnapshots
  BY <1>26, CreateUpdateSnapshotsEffect DEF OpIs
<1>27. ASSUME NEW p \in Partitions, WriteSnapshot(p)
      PROVE  RemovesTrue'
  BY <1>27 DEF WriteSnapshot, IsIdle
<1>28. CASE MapAllSnapshots
  BY <1>28 DEF MapAllSnapshots, IsIdle
<1>29. CASE UnmapAllSnapshots
  BY <1>29 DEF UnmapAllSnapshots, IsIdle
<1>30. ASSUME NEW wipe \in BOOLEAN, FinishedSnapshotWrites(wipe)
      PROVE  RemovesTrue'
  BY <1>30, FinishedSnapshotWritesEffect DEF OpIs
<1>31. CASE SetActiveBootSlot
  BY <1>31 DEF SetActiveBootSlot, IsIdle
<1>32. CASE MarkBootSuccessful
  BY <1>32 DEF MarkBootSuccessful, IsIdle
<1>33. CASE InitiateMerge
  BY <1>33, InitiateMergeEffect DEF Writes
<1>34. CASE CheckMergeState
  <2>1. \/ op' = Idle
        \/ op' \in Operation /\ op'.pc \in {"write_hal", "write_file"} /\ op'.why = "completed"
        \/ op'.pc = "remove" /\ op'.why = "success" /\ state = "MergeCompleted" /\ recovery = FALSE
        \/ op'.pc = "remove" /\ op'.why = "cancelled" /\ state = "Unverified" /\ IsCancelledUpdate
        \/ op'.pc = "poll" /\ op'.why = "none"
    BY <1>34, CheckMergeStateEffect DEF Ends, Writes, Acknowledges, OpIs
  <2>2. slot # "off" /\ UNCHANGED <<recovery, active>>
    BY <1>34, CheckMergeStateEffect
  <2>3. state = "MergeCompleted" => Over
    BY DEF Inv, StatusTrue
  <2> QED
    BY <2>1, <2>2, <2>3, CancelledOnSource
<1>35. ASSUME NEW p \in Partitions, MergeProgress(p)
      PROVE  RemovesTrue'
  BY <1>35 DEF MergeProgress, IsIdle
<1>36. ASSUME NEW p \in Partitions, MergeFails(p)
      PROVE  RemovesTrue'
  BY <1>36 DEF MergeFails, IsIdle
<1>37. CASE Crash
  BY <1>37 DEF Crash, IsIdle, GoDown
<1>38. CASE Reboot
  BY <1>38 DEF Reboot, IsIdle, GoDown
<1>39. CASE BootSource
  BY <1>39 DEF BootSource, IsIdle
<1>40. CASE BootTarget
  BY <1>40 DEF BootTarget, IsIdle
<1>41. CASE FallBack
  BY <1>41 DEF FallBack, IsIdle
<1>42. CASE BootRecovery
  BY <1>42 DEF BootRecovery, IsIdle, Inv, SlotsTrue
<1>43. ASSUME NEW why \in {"wipe", "finish"}, CreateLogicalAndSnapshotPartitions(why)
      PROVE  RemovesTrue'
  BY <1>43 DEF CreateLogicalAndSnapshotPartitions, IsIdle
<1>44. CASE UNCHANGED vars
  BY <1>44 DEF vars
<1> QED
  BY <1>1, <1>2, <1>3, <1>4, <1>5, <1>6, <1>7, <1>8, <1>9, <1>10, <1>11,
     <1>12, <1>13, <1>14, <1>15, <1>16, <1>17, <1>18, <1>19, <1>20, <1>21, <1>22,
     <1>23, <1>24, <1>25, <1>26, <1>27, <1>28, <1>29, <1>30, <1>31, <1>32, <1>33,
     <1>34, <1>35, <1>36, <1>37, <1>38, <1>39, <1>40, <1>41, <1>42, <1>43, <1>44, Zenon
  DEF Next, Steps, BootUp

(* What the writing of an update relies on. *)
LEMMA StepCreates ==
  ASSUME Inv, [Next]_vars
  PROVE  CreatesTrue'
<1>0. Types /\ CreatesTrue
  BY DEF Inv
<1>a. Writing => op.why \notin {"none", "recheck", "merged"}
  BY ReasonsKnown
<1>b. op.pc \in {"remove", "stale"} => op.why \in {"begin", "cancel", "success", "again", "cancelled"}
  BY DEF Inv, RemovesTrue
<1> USE <1>0, IdleType, IdleFields DEF Types, CreatesTrue, Given, meta, disk, boot, power, client, history
<1>1. CASE WriteHal
  <2>1. Writing
    BY <1>1, Zenon DEF WriteHal, Writing
  <2> QED
    BY <1>1, <2>1, WriteHalEffect, <1>a, EndsOp DEF Goes, OpIs, GoesSwitching
<1>2. CASE WriteFile
  <2>1. Writing
    BY <1>2, Zenon DEF WriteFile, Writing
  <2>2. op.why = "create" => op.to = "Initiated"
    BY <2>1 DEF Inv, WritesTrue, Operation, UpdateStates
  <2>3. /\ UNCHANGED <<slot, recovery, active>> /\ state' \in {state, op.to}
        /\ \/ op' = Idle
           \/ op.why = "create" /\ op'.pc = "undo" /\ op'.why = "none"
           \/ op'.pc \in {"remove", "switch"} /\ op'.why \in {"again", "initiate", "second"}
           \/ op'.pc = "write_hal" /\ op'.why = op.why
    BY <1>2, <2>1, WriteFileEffect, <1>a, EndsOp DEF Goes, OpIs, GoesSwitching
  <2> QED
    BY <2>2, <2>3
<1>3. ASSUME NEW p \in Partitions, RemoveSnapshot(p)
      PROVE  CreatesTrue'
  BY <1>3, RemoveSnapshotEffect DEF Shrinks
<1>4. CASE RemoveImages
  <2>1. op.pc \in {"remove", "stale"}
    BY <1>4, Zenon DEF RemoveImages
  <2> QED
    BY <1>4, <2>1, RemoveImagesEffect, <1>b, EndsOp DEF Goes, OpIs, GoesSwitching
<1>5. CASE UnlinkIndicator
  BY <1>5, UnlinkIndicatorEffect DEF Goes, OpIs, Writes
<1>6. CASE RemoveInvalidSnapshot
  <2>1. op.pc \in {"remove", "stale"}
    BY <1>6, Zenon DEF RemoveInvalidSnapshot
  <2> QED
    BY <1>6, <2>1, RemoveInvalidSnapshotEffect, <1>b, EndsOp DEF Goes, OpIs, GoesSwitching
<1>7. CASE BeginUpdateLocked
  BY <1>7, BeginUpdateLockedEffect DEF Writes
<1>8. ASSUME NEW p \in Partitions, CreateSnapshot(p)
      PROVE  CreatesTrue'
  BY <1>8, CreateSnapshotEffect
<1>9. CASE CreateCowImages
  BY <1>9, CreateCowImagesEffect DEF Writes
<1>10. CASE UndoCreate
  BY <1>10, UndoCreateEffect DEF Shrinks
<1>11. CASE RemoveRollbackIndicator
  BY <1>11, RemoveRollbackIndicatorEffect DEF Goes, OpIs
<1>12. CASE WriteBootIndicator
  BY <1>12, WriteBootIndicatorEffect DEF Writes
<1>13. ASSUME NEW p \in Partitions, SwitchSnapshotToMerge(p)
      PROVE  CreatesTrue'
  BY <1>13, SwitchSnapshotToMergeEffect DEF OpIs
<1>14. ASSUME NEW p \in Partitions, MarkMerging(p)
      PROVE  CreatesTrue'
  BY <1>14, MarkMergingEffect DEF OpIs
<1>15. CASE AllSwitched
  BY <1>15, AllSwitchedEffect DEF Writes, Ends
<1>16. ASSUME NEW p \in Partitions, CheckTargetMergeState(p)
      PROVE  CreatesTrue'
  BY <1>16, CheckTargetMergeStateEffect DEF Saw, OpIs
<1>17. ASSUME NEW p \in Partitions, CollapseSnapshotDevice(p)
      PROVE  CreatesTrue'
  BY <1>17, CollapseSnapshotDeviceEffect DEF Saw, OpIs
<1>18. ASSUME NEW p \in Partitions, DeleteMergedSnapshot(p)
      PROVE  CreatesTrue'
  BY <1>18, DeleteMergedSnapshotEffect DEF Saw, OpIs
<1>19. CASE ConcludeMergeState
  BY <1>19, ConcludeMergeStateEffect DEF Ends, Writes, Acknowledges, OpIs
<1>20. CASE AcknowledgeMergeFailure
  BY <1>20, AcknowledgeMergeFailureEffect DEF Writes
<1>21. CASE DataWipeProcessed
  BY <1>21, DataWipeProcessedEffect DEF Writes
<1>22. CASE WipeData
  BY <1>22 DEF WipeData, IsIdle
<1>23. CASE FinishMergeInRecovery
  BY <1>23 DEF FinishMergeInRecovery, IsIdle
<1>24. CASE BeginUpdate
  BY <1>24, BeginUpdateEffect DEF OpIs
<1>25. CASE CancelUpdate
  BY <1>25, CancelUpdateEffect DEF OpIs
<1>26. CASE CreateUpdateSnapshots
  BY <1>26, CreateUpdateSnapshotsEffect, OnSource DEF OpIs, DeviceOK
<1>27. ASSUME NEW p \in Partitions, WriteSnapshot(p)
      PROVE  CreatesTrue'
  BY <1>27 DEF WriteSnapshot, IsIdle
<1>28. CASE MapAllSnapshots
  BY <1>28 DEF MapAllSnapshots, IsIdle
<1>29. CASE UnmapAllSnapshots
  BY <1>29 DEF UnmapAllSnapshots, IsIdle
<1>30. ASSUME NEW wipe \in BOOLEAN, FinishedSnapshotWrites(wipe)
      PROVE  CreatesTrue'
  BY <1>30, FinishedSnapshotWritesEffect, WrittenGiven DEF OpIs
<1>31. CASE SetActiveBootSlot
  BY <1>31 DEF SetActiveBootSlot, IsIdle
<1>32. CASE MarkBootSuccessful
  BY <1>32 DEF MarkBootSuccessful, IsIdle
<1>33. CASE InitiateMerge
  BY <1>33, InitiateMergeEffect DEF Writes
<1>34. CASE CheckMergeState
  BY <1>34, CheckMergeStateEffect DEF Ends, Acknowledges, OpIs, Writes
<1>35. ASSUME NEW p \in Partitions, MergeProgress(p)
      PROVE  CreatesTrue'
  BY <1>35 DEF MergeProgress, IsIdle
<1>36. ASSUME NEW p \in Partitions, MergeFails(p)
      PROVE  CreatesTrue'
  BY <1>36 DEF MergeFails, IsIdle
<1>37. CASE Crash
  BY <1>37 DEF Crash, IsIdle, GoDown
<1>38. CASE Reboot
  BY <1>38 DEF Reboot, IsIdle, GoDown
<1>39. CASE BootSource
  BY <1>39 DEF BootSource, IsIdle
<1>40. CASE BootTarget
  BY <1>40 DEF BootTarget, IsIdle
<1>41. CASE FallBack
  BY <1>41 DEF FallBack, IsIdle
<1>42. CASE BootRecovery
  BY <1>42 DEF BootRecovery, IsIdle
<1>43. ASSUME NEW why \in {"wipe", "finish"}, CreateLogicalAndSnapshotPartitions(why)
      PROVE  CreatesTrue'
  BY <1>43 DEF CreateLogicalAndSnapshotPartitions, IsIdle
<1>44. CASE UNCHANGED vars
  BY <1>44 DEF vars
<1> QED
  BY <1>1, <1>2, <1>3, <1>4, <1>5, <1>6, <1>7, <1>8, <1>9, <1>10, <1>11,
     <1>12, <1>13, <1>14, <1>15, <1>16, <1>17, <1>18, <1>19, <1>20, <1>21, <1>22,
     <1>23, <1>24, <1>25, <1>26, <1>27, <1>28, <1>29, <1>30, <1>31, <1>32, <1>33,
     <1>34, <1>35, <1>36, <1>37, <1>38, <1>39, <1>40, <1>41, <1>42, <1>43, <1>44, Zenon
  DEF Next, Steps, BootUp

(* What the switch to a merge relies on. *)
LEMMA StepSwitches ==
  ASSUME Inv, [Next]_vars
  PROVE  SwitchesTrue'
<1>0. Types /\ SwitchesTrue
  BY DEF Inv
<1>a. Writing => op.why \notin {"none", "recheck", "merged"}
  BY ReasonsKnown
<1>b. op.pc \in {"remove", "stale"} => op.why \in {"begin", "cancel", "success", "again", "cancelled"}
  BY DEF Inv, RemovesTrue
<1> USE <1>0, IdleType, IdleFields, SamePhase, OpSets DEF Types, SwitchesTrue, Live, meta, disk, boot, power, client, history
<1>1. CASE WriteHal
  <2>1. Writing
    BY <1>1, Zenon DEF WriteHal, Writing
  <2>2. op' = Idle \/ op'.pc \in {"write_file", "remove", "undo"}
    BY <1>1, <2>1, <1>a, WriteHalEffect, EndsOp, WhyMerging DEF Goes, OpIs, GoesSwitching
  <2> QED
    BY <2>2
<1>2. CASE WriteFile
  <2>1. Writing
    BY <1>2, Zenon DEF WriteFile, Writing
  <2>2. \/ op' = Idle \/ op'.pc \in {"write_hal", "remove", "undo"}
        \/ GoesSwitching /\ state' = op.to /\ phase' = op.phase
    BY <1>2, <2>1, <1>a, WriteFileEffect, EndsOp DEF Goes, OpIs
  <2>3. status' = status
    BY <1>2, WriteFileStates
  <2>4. CASE GoesSwitching /\ state' = op.to /\ phase' = op.phase
    <3>1. op.to = "Merging"
      BY <2>1, <2>4, WhyMerging DEF GoesSwitching
    <3>2. op.cur = {} /\ \A p \in Partitions : DecideMergePhase(p) = op.phase => status[p] = "CREATED"
      BY <2>1, <3>1 DEF Inv, WritesTrue
    <3>3. /\ op'.todo = {p \in Snapshots : DecideMergePhase(p) = op.phase} /\ op'.cur = op.cur
          /\ op'.phase = op.phase /\ op'.why = op.why /\ op.why \in {"initiate", "second"}
      BY <2>4 DEF GoesSwitching, OpIs
    <3>4. \A p \in op'.todo \cup op'.cur : p \in Partitions /\ DecideMergePhase(p) = op.phase
      BY <3>2, <3>3, SnapshotSets
    <3>5. \A p \in op'.todo \cup op'.cur : DecideMergePhase(p)' = phase' /\ status'[p] = "CREATED"
      BY <2>3, <2>4, <3>2, <3>4
    <3> QED
      BY <2>4, <3>1, <3>3, <3>5
  <2> QED
    BY <2>2, <2>4
<1>3. ASSUME NEW p \in Partitions, RemoveSnapshot(p)
      PROVE  SwitchesTrue'
  BY <1>3, RemoveSnapshotEffect DEF Shrinks
<1>4. CASE RemoveImages
  <2>1. op.pc \in {"remove", "stale"}
    BY <1>4, Zenon DEF RemoveImages
  <2> QED
    BY <1>4, <2>1, RemoveImagesEffect, <1>b, EndsOp DEF Goes, OpIs, GoesSwitching
<1>5. CASE UnlinkIndicator
  BY <1>5, UnlinkIndicatorEffect DEF Goes, OpIs, Writes
<1>6. CASE RemoveInvalidSnapshot
  <2>1. op.pc \in {"remove", "stale"}
    BY <1>6, Zenon DEF RemoveInvalidSnapshot
  <2> QED
    BY <1>6, <2>1, RemoveInvalidSnapshotEffect, <1>b, EndsOp DEF Goes, OpIs, GoesSwitching
<1>7. CASE BeginUpdateLocked
  BY <1>7, BeginUpdateLockedEffect DEF Writes
<1>8. ASSUME NEW p \in Partitions, CreateSnapshot(p)
      PROVE  SwitchesTrue'
  BY <1>8, CreateSnapshotEffect
<1>9. CASE CreateCowImages
  BY <1>9, CreateCowImagesEffect DEF Writes
<1>10. CASE UndoCreate
  BY <1>10, UndoCreateEffect DEF Shrinks
<1>11. CASE RemoveRollbackIndicator
  BY <1>11, RemoveRollbackIndicatorEffect DEF Goes, OpIs
<1>12. CASE WriteBootIndicator
  BY <1>12, WriteBootIndicatorEffect DEF Writes
<1>13. ASSUME NEW p \in Partitions, SwitchSnapshotToMerge(p)
      PROVE  SwitchesTrue'
  BY <1>13, SwitchSnapshotToMergeEffect DEF OpIs
<1>14. ASSUME NEW p \in Partitions, MarkMerging(p)
      PROVE  SwitchesTrue'
  <2>1. /\ OpIs(op', "switch", op.todo, {}, op.seen, op.why) /\ op'.phase = op.phase /\ op.pc = "mark"
        /\ status' = status \/ status' = [status EXCEPT ![p] = "MERGING"]
        /\ UNCHANGED <<state, phase>>
    BY <1>14, MarkMergingEffect
  <2>2. \A q \in Partitions : status'[q] = status[q] \/ status'[q] = "MERGING"
    BY <2>1 DEF StorageOK
  <2>3. \A q \in op.todo : q \in Partitions /\ DecideMergePhase(q) = phase /\ Live(q)
    BY <2>1
  <2> QED
    BY <2>1, <2>2, <2>3 DEF OpIs
<1>15. CASE AllSwitched
  BY <1>15, AllSwitchedEffect DEF Writes, Ends
<1>16. ASSUME NEW p \in Partitions, CheckTargetMergeState(p)
      PROVE  SwitchesTrue'
  BY <1>16, CheckTargetMergeStateEffect DEF Saw, OpIs
<1>17. ASSUME NEW p \in Partitions, CollapseSnapshotDevice(p)
      PROVE  SwitchesTrue'
  BY <1>17, CollapseSnapshotDeviceEffect DEF Saw, OpIs
<1>18. ASSUME NEW p \in Partitions, DeleteMergedSnapshot(p)
      PROVE  SwitchesTrue'
  BY <1>18, DeleteMergedSnapshotEffect DEF Saw, OpIs
<1>19. CASE ConcludeMergeState
  BY <1>19, ConcludeMergeStateEffect DEF Ends, Writes, Acknowledges, OpIs
<1>20. CASE AcknowledgeMergeFailure
  BY <1>20, AcknowledgeMergeFailureEffect DEF Writes
<1>21. CASE DataWipeProcessed
  BY <1>21, DataWipeProcessedEffect DEF Writes
<1>22. CASE WipeData
  BY <1>22 DEF WipeData, IsIdle
<1>23. CASE FinishMergeInRecovery
  BY <1>23 DEF FinishMergeInRecovery, IsIdle
<1>24. CASE BeginUpdate
  BY <1>24, BeginUpdateEffect DEF OpIs
<1>25. CASE CancelUpdate
  BY <1>25, CancelUpdateEffect DEF OpIs
<1>26. CASE CreateUpdateSnapshots
  BY <1>26, CreateUpdateSnapshotsEffect DEF OpIs
<1>27. ASSUME NEW p \in Partitions, WriteSnapshot(p)
      PROVE  SwitchesTrue'
  BY <1>27 DEF WriteSnapshot, IsIdle
<1>28. CASE MapAllSnapshots
  BY <1>28 DEF MapAllSnapshots, IsIdle
<1>29. CASE UnmapAllSnapshots
  BY <1>29 DEF UnmapAllSnapshots, IsIdle
<1>30. ASSUME NEW wipe \in BOOLEAN, FinishedSnapshotWrites(wipe)
      PROVE  SwitchesTrue'
  BY <1>30, FinishedSnapshotWritesEffect DEF OpIs
<1>31. CASE SetActiveBootSlot
  BY <1>31 DEF SetActiveBootSlot, IsIdle
<1>32. CASE MarkBootSuccessful
  BY <1>32 DEF MarkBootSuccessful, IsIdle
<1>33. CASE InitiateMerge
  BY <1>33, InitiateMergeEffect DEF Writes
<1>34. CASE CheckMergeState
  BY <1>34, CheckMergeStateEffect DEF Ends, Acknowledges, OpIs, Writes
<1>35. ASSUME NEW p \in Partitions, MergeProgress(p)
      PROVE  SwitchesTrue'
  BY <1>35 DEF MergeProgress, IsIdle
<1>36. ASSUME NEW p \in Partitions, MergeFails(p)
      PROVE  SwitchesTrue'
  BY <1>36 DEF MergeFails, IsIdle
<1>37. CASE Crash
  BY <1>37 DEF Crash, IsIdle, GoDown
<1>38. CASE Reboot
  BY <1>38 DEF Reboot, IsIdle, GoDown
<1>39. CASE BootSource
  BY <1>39 DEF BootSource, IsIdle
<1>40. CASE BootTarget
  BY <1>40 DEF BootTarget, IsIdle
<1>41. CASE FallBack
  BY <1>41 DEF FallBack, IsIdle
<1>42. CASE BootRecovery
  BY <1>42 DEF BootRecovery, IsIdle
<1>43. ASSUME NEW why \in {"wipe", "finish"}, CreateLogicalAndSnapshotPartitions(why)
      PROVE  SwitchesTrue'
  BY <1>43 DEF CreateLogicalAndSnapshotPartitions, IsIdle
<1>44. CASE UNCHANGED vars
  BY <1>44 DEF vars
<1> QED
  BY <1>1, <1>2, <1>3, <1>4, <1>5, <1>6, <1>7, <1>8, <1>9, <1>10, <1>11,
     <1>12, <1>13, <1>14, <1>15, <1>16, <1>17, <1>18, <1>19, <1>20, <1>21, <1>22,
     <1>23, <1>24, <1>25, <1>26, <1>27, <1>28, <1>29, <1>30, <1>31, <1>32, <1>33,
     <1>34, <1>35, <1>36, <1>37, <1>38, <1>39, <1>40, <1>41, <1>42, <1>43, <1>44, Zenon
  DEF Next, Steps, BootUp

(* What a poll has seen is true. *)
LEMMA StepPolls ==
  ASSUME Inv, [Next]_vars
  PROVE  PollsTrue'
<1>0. Types /\ PollsTrue
  BY DEF Inv
<1>a. Writing => op.why \notin {"none", "recheck", "merged"}
  BY ReasonsKnown
<1>b. op.pc \in {"remove", "stale"} => op.why \in {"begin", "cancel", "success", "again", "cancelled"}
  BY DEF Inv, RemovesTrue
<1> USE <1>0, IdleType, IdleFields, SamePhase, OpSets, BoundsAssumption DEF Types, PollsTrue, Polling, Live, Merge, meta, disk, boot, power, client, history
<1>1. CASE WriteHal
  <2>1. Writing
    BY <1>1, Zenon DEF WriteHal, Writing
  <2> QED
    BY <1>1, <2>1, WriteHalEffect, <1>a, EndsOp DEF Goes, OpIs, GoesSwitching
<1>2. CASE WriteFile
  <2>1. Writing
    BY <1>2, Zenon DEF WriteFile, Writing
  <2> QED
    BY <1>2, <2>1, WriteFileEffect, <1>a, EndsOp DEF Goes, OpIs, GoesSwitching
<1>3. ASSUME NEW p \in Partitions, RemoveSnapshot(p)
      PROVE  PollsTrue'
  BY <1>3, RemoveSnapshotEffect DEF Shrinks
<1>4. CASE RemoveImages
  <2>1. op.pc \in {"remove", "stale"}
    BY <1>4, Zenon DEF RemoveImages
  <2> QED
    BY <1>4, <2>1, RemoveImagesEffect, <1>b, EndsOp DEF Goes, OpIs, GoesSwitching
<1>5. CASE UnlinkIndicator
  BY <1>5, UnlinkIndicatorEffect DEF Goes, OpIs, Writes
<1>6. CASE RemoveInvalidSnapshot
  <2>1. op.pc \in {"remove", "stale"}
    BY <1>6, Zenon DEF RemoveInvalidSnapshot
  <2> QED
    BY <1>6, <2>1, RemoveInvalidSnapshotEffect, <1>b, EndsOp DEF Goes, OpIs, GoesSwitching
<1>7. CASE BeginUpdateLocked
  BY <1>7, BeginUpdateLockedEffect DEF Writes
<1>8. ASSUME NEW p \in Partitions, CreateSnapshot(p)
      PROVE  PollsTrue'
  BY <1>8, CreateSnapshotEffect
<1>9. CASE CreateCowImages
  BY <1>9, CreateCowImagesEffect DEF Writes
<1>10. CASE UndoCreate
  BY <1>10, UndoCreateEffect DEF Shrinks
<1>11. CASE RemoveRollbackIndicator
  BY <1>11, RemoveRollbackIndicatorEffect DEF Goes, OpIs
<1>12. CASE WriteBootIndicator
  BY <1>12, WriteBootIndicatorEffect DEF Writes
<1>13. ASSUME NEW p \in Partitions, SwitchSnapshotToMerge(p)
      PROVE  PollsTrue'
  BY <1>13, SwitchSnapshotToMergeEffect DEF OpIs
<1>14. ASSUME NEW p \in Partitions, MarkMerging(p)
      PROVE  PollsTrue'
  BY <1>14, MarkMergingEffect DEF OpIs
<1>15. CASE AllSwitched
  BY <1>15, AllSwitchedEffect DEF Writes, Ends
<1>16. ASSUME NEW p \in Partitions, CheckTargetMergeState(p)
      PROVE  PollsTrue'
  <2>1. /\ op.pc = "poll" /\ p \in op.todo /\ op.why = "none" /\ op.cur = {}
        /\ UNCHANGED <<state, phase, acks, aborted>>
    BY <1>16, CheckTargetMergeStateEffect
  <2>2. \A q \in Partitions : First(q)' = First(q)
    OBVIOUS
  <2>3. CASE OpIs(op', "delete", op.todo, {p}, op.seen, "recheck") /\ status[p] = "MERGE_COMPLETED" /\ status' = status
    BY <2>1, <2>2, <2>3 DEF OpIs
  <2>4. CASE OpIs(op', "collapse", op.todo, {p}, op.seen, op.why) /\ status' = [status EXCEPT ![p] = "MERGE_COMPLETED"]
    BY <2>1, <2>2, <2>4 DEF OpIs, StorageOK
  <2>5. ASSUME NEW r \in {"Merging", "MergeFailed"}, Saw(p, r, op.cur, op.why), status' = status
        PROVE  PollsTrue'
    BY <2>1, <2>2, <2>5 DEF Saw, OpIs
  <2>6. ASSUME PollAnswer(p) = "None", Saw(p, "None", op.cur, op.why), status' = status
        PROVE  PollsTrue'
    <3>1. DecideMergePhase(p) = "SECOND_PHASE" /\ phase = "FIRST_PHASE"
      BY <2>6, PollAnswers
    <3>2. ~First(p)
      BY <3>1 DEF First
    <3>3. state # "MergeNeedsReboot"
      BY <3>1, <3>2, PhaseKinds DEF Inv, StatusTrue, PhasesKept, PhaseOK, Over, AllNew
    <3> QED
      BY <2>1, <2>2, <2>6, <3>1, <3>2, <3>3 DEF Saw, OpIs
  <2>7. PollAnswer(p) \in {"MergeFailed", "Merging", "None"}
    BY PollAnswers
  <2> QED
    BY <1>16, <2>3, <2>4, <2>5, <2>6, <2>7, CheckTargetMergeStateEffect
<1>17. ASSUME NEW p \in Partitions, CollapseSnapshotDevice(p)
      PROVE  PollsTrue'
  BY <1>17, CollapseSnapshotDeviceEffect DEF Saw, OpIs
<1>18. ASSUME NEW p \in Partitions, DeleteMergedSnapshot(p)
      PROVE  PollsTrue'
  BY <1>18, DeleteMergedSnapshotEffect DEF Saw, OpIs
<1>19. CASE ConcludeMergeState
  BY <1>19, ConcludeMergeStateEffect DEF Ends, Writes, Acknowledges, OpIs
<1>20. CASE AcknowledgeMergeFailure
  BY <1>20, AcknowledgeMergeFailureEffect DEF Writes
<1>21. CASE DataWipeProcessed
  BY <1>21, DataWipeProcessedEffect DEF Writes
<1>22. CASE WipeData
  BY <1>22 DEF WipeData, IsIdle
<1>23. CASE FinishMergeInRecovery
  BY <1>23 DEF FinishMergeInRecovery, IsIdle
<1>24. CASE BeginUpdate
  BY <1>24, BeginUpdateEffect DEF OpIs
<1>25. CASE CancelUpdate
  BY <1>25, CancelUpdateEffect DEF OpIs
<1>26. CASE CreateUpdateSnapshots
  BY <1>26, CreateUpdateSnapshotsEffect DEF OpIs
<1>27. ASSUME NEW p \in Partitions, WriteSnapshot(p)
      PROVE  PollsTrue'
  BY <1>27 DEF WriteSnapshot, IsIdle
<1>28. CASE MapAllSnapshots
  BY <1>28 DEF MapAllSnapshots, IsIdle
<1>29. CASE UnmapAllSnapshots
  BY <1>29 DEF UnmapAllSnapshots, IsIdle
<1>30. ASSUME NEW wipe \in BOOLEAN, FinishedSnapshotWrites(wipe)
      PROVE  PollsTrue'
  BY <1>30, FinishedSnapshotWritesEffect DEF OpIs
<1>31. CASE SetActiveBootSlot
  BY <1>31 DEF SetActiveBootSlot, IsIdle
<1>32. CASE MarkBootSuccessful
  BY <1>32 DEF MarkBootSuccessful, IsIdle
<1>33. CASE InitiateMerge
  BY <1>33, InitiateMergeEffect DEF Writes
<1>34. CASE CheckMergeState
  <2>1. acks < MaxAcks /\ slot # "off" /\ UNCHANGED <<driver, meta, slot, aborted>>
    BY <1>34, CheckMergeStateEffect
  <2>2. CASE /\ state \in {"Merging", "MergeNeedsReboot", "MergeFailed"}
             /\ OpIs(op', "poll", SnapshotsOfThisSlot, {}, {}, "none") /\ UNCHANGED client
    <3>1. slot = "target"
      BY <2>1, <2>2, OverCommitted DEF Inv, StatusTrue, MergeGuarded, DeviceOK
    <3>2. \A p \in Partitions \ SnapshotsOfThisSlot : ~Live(p)
      BY <3>1 DEF SnapshotsOfThisSlot, Snapshots
    <3> QED
      BY <2>1, <2>2, <3>2 DEF OpIs
  <2>3. op' = Idle \/ (op'.pc \in {"remove", "write_file"} /\ op'.why # "second")
        \/ (OpIs(op', "poll", SnapshotsOfThisSlot, {}, {}, "none") /\ UNCHANGED client
            /\ state \in {"Merging", "MergeNeedsReboot", "MergeFailed"})
    BY <1>34, CheckMergeStateEffect DEF Ends, Acknowledges, OpIs, Writes
  <2> QED
    BY <2>1, <2>2, <2>3
<1>35. ASSUME NEW p \in Partitions, MergeProgress(p)
      PROVE  PollsTrue'
  BY <1>35 DEF MergeProgress, IsIdle
<1>36. ASSUME NEW p \in Partitions, MergeFails(p)
      PROVE  PollsTrue'
  BY <1>36 DEF MergeFails, IsIdle
<1>37. CASE Crash
  BY <1>37 DEF Crash, IsIdle, GoDown
<1>38. CASE Reboot
  BY <1>38 DEF Reboot, IsIdle, GoDown
<1>39. CASE BootSource
  BY <1>39 DEF BootSource, IsIdle
<1>40. CASE BootTarget
  BY <1>40 DEF BootTarget, IsIdle
<1>41. CASE FallBack
  BY <1>41 DEF FallBack, IsIdle
<1>42. CASE BootRecovery
  BY <1>42 DEF BootRecovery, IsIdle
<1>43. ASSUME NEW why \in {"wipe", "finish"}, CreateLogicalAndSnapshotPartitions(why)
      PROVE  PollsTrue'
  BY <1>43 DEF CreateLogicalAndSnapshotPartitions, IsIdle
<1>44. CASE UNCHANGED vars
  BY <1>44 DEF vars
<1> QED
  BY <1>1, <1>2, <1>3, <1>4, <1>5, <1>6, <1>7, <1>8, <1>9, <1>10, <1>11,
     <1>12, <1>13, <1>14, <1>15, <1>16, <1>17, <1>18, <1>19, <1>20, <1>21, <1>22,
     <1>23, <1>24, <1>25, <1>26, <1>27, <1>28, <1>29, <1>30, <1>31, <1>32, <1>33,
     <1>34, <1>35, <1>36, <1>37, <1>38, <1>39, <1>40, <1>41, <1>42, <1>43, <1>44, Zenon
  DEF Next, Steps, BootUp

-----------------------------------------------------------------------------
(* What is written *)

(* Nothing is written. *)
LEMMA NothingWritten ==
  ASSUME op' = Idle \/ op'.pc \notin {"write_hal", "write_file"}
  PROVE  WritesTrue'
BY IdleFields DEF WritesTrue, Writing

(* The write goes on, and what it relies on stays. *)
LEMMA WriteGoesOn ==
  ASSUME Inv, [Next]_vars, Writing, op'.to = op.to, op'.phase = op.phase, op'.why = op.why, op'.cur = op.cur,
         UNCHANGED <<state, phase, status, boot_ind, rollback_ind, base, cow, active, slot, recovery, begin>>,
         op'.pc = "write_file" /\ op.to \in {"Merging", "MergeFailed"} => hal' = "MERGING",
         op'.pc = "write_hal" /\ ~SetBeforeWrite(op.to) => state = op.to
  PROVE  WritesTrue'
<1>1. /\ PhaseOK(op.phase)' <=> PhaseOK(op.phase)
      /\ Given' <=> Given
      /\ Over' <=> Over
      /\ SetBeforeWrite(op.to)' <=> SetBeforeWrite(op.to)
      /\ \A p \in Partitions : DecideMergePhase(p)' = DecideMergePhase(p)
  BY SamePhase DEF PhaseOK, Given, Over, AllNew, Live, SetBeforeWrite, MergeStatus
<1>2. WritesTrue
  BY DEF Inv
<1> QED
  BY <1>1, <1>2 DEF WritesTrue, Writing

(* The first write of a merge: every snapshot is there, and nothing is merged. *)
LEMMA MergeMayStart ==
  ASSUME Inv, CanInitiateMerge, slot # "off", active = "target", recovery = FALSE \/ reset = "wipe"
  PROVE  /\ slot = "target" /\ boot_ind = TRUE /\ PhaseOK(FirstMergePhase)
         /\ \A p \in Partitions : status[p] = "CREATED" /\ base[p] = "old"
<1>1. state = "Unverified" /\ CurrentSlot = "Target"
  BY DEF CanInitiateMerge
<1>2. slot = "target" /\ boot_ind = TRUE
  BY <1>1, Zenon DEF CurrentSlot, Inv, Types, FlagsOK, DeviceOK
<1>3. \A p \in Partitions : status[p] = "CREATED" /\ base[p] = "old"
  BY <1>1, <1>2, WholeTarget DEF Given, SourceComplete, Abandoned
<1>4. Snapshots = Partitions
  BY <1>3 DEF Snapshots
<1>5. /\ FirstMergePhase \in {"FIRST_PHASE", "SECOND_PHASE"}
      /\ FirstMergePhase = "SECOND_PHASE" => \A p \in Partitions : ~First(p)
  BY <1>4, PhaseKinds DEF FirstMergePhase
<1> QED
  BY <1>2, <1>3, <1>5 DEF PhaseOK

(* The start of a merge, by update_engine or in recovery. *)
LEMMA MergeWritten ==
  ASSUME Inv, [Next]_vars, op = Idle, CanInitiateMerge, slot # "off", active = "target",
         recovery = FALSE \/ reset = "wipe",
         Writes("Merging", FirstMergePhase, "initiate"),
         UNCHANGED <<state, phase, status, boot_ind, base, cow, active, slot>>
  PROVE  WritesTrue'
<1>1. state = "Unverified"
  BY DEF CanInitiateMerge
<1>2. PhaseOK(op'.phase) /\ op'.pc = "write_hal" /\ op'.to = "Merging" /\ op'.why = "initiate" /\ op'.cur = {}
  BY MergeMayStart, IdleFields DEF Writes
<1>3. PhaseOK(op.phase)'
  BY <1>2, SamePhase DEF PhaseOK, Live
<1>4. SetBeforeWrite(op.to)'
  BY <1>2 DEF SetBeforeWrite, MergeStatus
<1> QED
  BY <1>1, <1>2, <1>3, <1>4, MergeMayStart DEF WritesTrue, Writing

(* What is about to be written is true. *)
LEMMA StepWrites ==
  ASSUME Inv, [Next]_vars
  PROVE  WritesTrue'
<1>0. Types /\ WritesTrue
  BY DEF Inv
<1>a. Writing => op.why \notin {"none", "recheck", "merged"}
  BY ReasonsKnown
<1>b. op.pc \in {"remove", "stale"} => op.why \in {"begin", "cancel", "success", "again", "cancelled"}
  BY DEF Inv, RemovesTrue
<1> USE <1>0, IdleType, IdleFields DEF Types, WritesTrue, Writing, meta, disk, boot, power, client, history
<1>1. CASE WriteHal
  <2>1. Writing /\ op.to \in UpdateStates
    BY <1>1, Zenon DEF WriteHal, Writing, Types, Operation, Inv
  <2>2. CASE SetBeforeWrite(op.to) /\ hal' = MergeStatus(op.to) /\ Goes("write_file") /\ UNCHANGED client
    <3>1. UNCHANGED <<state, phase, status, boot_ind, rollback_ind, base, cow, active, slot, recovery, begin>>
      BY <1>1, <2>1, <2>2, <1>a, WriteHalEffect
    <3>2. op.to \in {"Merging", "MergeFailed"} => hal' = "MERGING"
      BY <2>1, <2>2, BeforeWrite
    <3> QED
      BY <2>1, <2>2, <3>1, <3>2, WriteGoesOn DEF Goes, OpIs
  <2>3. CASE EndsWrite \/ GoesSwitching
    BY <2>3, EndsOp, NothingWritten DEF GoesSwitching, OpIs
  <2> QED
    BY <1>1, <2>1, <2>2, <2>3, <1>a, WriteHalEffect
<1>2. CASE WriteFile
  <2>1. Writing /\ op.to \in UpdateStates
    BY <1>2, Zenon DEF WriteFile, Writing, Types, Operation, Inv
  <2>2. CASE state' = op.to /\ phase' = op.phase /\ ~SetBeforeWrite(op.to) /\ Goes("write_hal") /\ UNCHANGED client
    <3>1. UNCHANGED <<status, boot_ind, rollback_ind, base, cow, active, slot, recovery, begin>>
      BY <1>2, <2>1, <2>2, <1>a, WriteFileEffect
    <3>2. op.to \in {"None", "Initiated", "MergeNeedsReboot", "MergeCompleted"}
      BY <2>1, <2>2, BeforeWrite DEF UpdateStates
    <3>3. op'.to = op.to /\ op'.phase = op.phase /\ op'.why = op.why /\ op'.pc = "write_hal"
      BY <2>2 DEF Goes, OpIs
    <3>4. (PhaseOK(op.phase)' <=> PhaseOK(op.phase)) /\ (Over' <=> Over)
      BY <3>1, <3>3, SamePhase DEF PhaseOK, Over, AllNew, Live
    <3> QED
      BY <2>1, <2>2, <3>1, <3>2, <3>3, <3>4 DEF WritesTrue, Inv
  <2>3. CASE EndsWrite \/ GoesSwitching
    BY <2>3, EndsOp, NothingWritten DEF GoesSwitching, OpIs
  <2> QED
    BY <1>2, <2>1, <2>2, <2>3, <1>a, WriteFileEffect
<1>3. ASSUME NEW p \in Partitions, RemoveSnapshot(p)
      PROVE  WritesTrue'
  BY <1>3, RemoveSnapshotEffect DEF Shrinks
<1>4. CASE RemoveImages
  <2>1. op.pc \in {"remove", "stale"}
    BY <1>4, Zenon DEF RemoveImages
  <2> QED
    BY <1>4, <2>1, RemoveImagesEffect, <1>b, EndsOp DEF Goes, OpIs, GoesSwitching
<1>5. CASE UnlinkIndicator
  <2>1. /\ op'.pc \in {"unlink_rollback", "unlink_forward", "write_file"}
        /\ op'.pc = "write_file" => op'.to = "None" /\ op'.why = op.why
        /\ op.pc \in {"unlink_boot", "unlink_rollback", "unlink_forward"}
        /\ UNCHANGED <<status, base, active>>
    BY <1>5, UnlinkIndicatorEffect DEF Goes, OpIs, Writes
  <2>2. /\ Over \/ active = "source"
        /\ op.why \in {"begin", "cancel", "success", "again", "cancelled"}
    BY <2>1 DEF Inv, RemovesTrue
  <2>3. Over => Over'
    BY <2>1, OverKept
  <2> QED
    BY <2>1, <2>2, <2>3 DEF WritesTrue, Writing
<1>6. CASE RemoveInvalidSnapshot
  <2>1. op.pc \in {"remove", "stale"}
    BY <1>6, Zenon DEF RemoveInvalidSnapshot
  <2> QED
    BY <1>6, <2>1, RemoveInvalidSnapshotEffect, <1>b, EndsOp DEF Goes, OpIs, GoesSwitching
<1>7. CASE BeginUpdateLocked
  BY <1>7, BeginUpdateLockedEffect DEF Writes
<1>8. ASSUME NEW p \in Partitions, CreateSnapshot(p)
      PROVE  WritesTrue'
  BY <1>8, CreateSnapshotEffect
<1>9. CASE CreateCowImages
  <2>1. /\ op.pc = "create" /\ UNCHANGED <<state, slot, recovery>>
        /\ op'.pc = "undo" \/ (op'.pc = "write_file" /\ op'.to = "Initiated" /\ op'.why = "create")
    BY <1>9, CreateCowImagesEffect DEF Writes
  <2>2. slot = "source" /\ recovery = FALSE /\ state = "Initiated"
    BY <2>1 DEF Inv, CreatesTrue
  <2> QED
    BY <2>1, <2>2 DEF WritesTrue, Writing
<1>10. CASE UndoCreate
  BY <1>10, UndoCreateEffect DEF Shrinks
<1>11. CASE RemoveRollbackIndicator
  BY <1>11, RemoveRollbackIndicatorEffect DEF Goes, OpIs
<1>12. CASE WriteBootIndicator
  <2>1. /\ op.pc = "finish_boot" /\ UNCHANGED <<state, slot, recovery, rollback_ind, status, cow, begin>>
        /\ \/ op' = Idle
           \/ boot_ind' = TRUE /\ op'.pc = "write_hal" /\ op'.to = "Unverified" /\ op'.why = "update"
    BY <1>12, WriteBootIndicatorEffect DEF Writes
  <2>2. slot = "source" /\ recovery = FALSE /\ state = "Initiated" /\ rollback_ind = FALSE /\ Given /\ begin = "no"
    BY <2>1 DEF Inv, CreatesTrue
  <2>3. Given'
    BY <2>1, <2>2 DEF Given
  <2>4. CASE op' = Idle
    BY <2>4, NothingWritten
  <2>5. CASE boot_ind' = TRUE /\ op'.pc = "write_hal" /\ op'.to = "Unverified" /\ op'.why = "update"
    <3>1. SetBeforeWrite(op.to)'
      BY <2>5 DEF SetBeforeWrite, MergeStatus
    <3> QED
      BY <2>1, <2>2, <2>3, <2>5, <3>1 DEF WritesTrue, Writing
  <2> QED
    BY <2>1, <2>4, <2>5
<1>13. ASSUME NEW p \in Partitions, SwitchSnapshotToMerge(p)
      PROVE  WritesTrue'
  BY <1>13, SwitchSnapshotToMergeEffect DEF OpIs
<1>14. ASSUME NEW p \in Partitions, MarkMerging(p)
      PROVE  WritesTrue'
  BY <1>14, MarkMergingEffect DEF OpIs
<1>15. CASE AllSwitched
  <2>1. /\ op.pc = "switch" /\ UNCHANGED <<state, phase>>
        /\ \/ op' = Idle
           \/ op'.pc = "write_hal" /\ op'.to = "MergeFailed" /\ op'.why = "update" /\ op'.phase = phase
    BY <1>15, AllSwitchedEffect DEF Writes, Ends
  <2>2. state = "Merging"
    BY <2>1 DEF Inv, SwitchesTrue
  <2>3. op'.to = "MergeFailed" => SetBeforeWrite(op.to)'
    BY DEF SetBeforeWrite, MergeStatus
  <2> QED
    BY <2>1, <2>2, <2>3, NothingWritten DEF WritesTrue, Writing
<1>16. ASSUME NEW p \in Partitions, CheckTargetMergeState(p)
      PROVE  WritesTrue'
  BY <1>16, CheckTargetMergeStateEffect DEF Saw, OpIs
<1>17. ASSUME NEW p \in Partitions, CollapseSnapshotDevice(p)
      PROVE  WritesTrue'
  BY <1>17, CollapseSnapshotDeviceEffect DEF Saw, OpIs
<1>18. ASSUME NEW p \in Partitions, DeleteMergedSnapshot(p)
      PROVE  WritesTrue'
  BY <1>18, DeleteMergedSnapshotEffect DEF Saw, OpIs
<1>19. CASE ConcludeMergeState
  <2>1. /\ op.pc = "poll" /\ op.todo = {} /\ op.cur = {}
        /\ UNCHANGED <<driver, state, phase, status, base, cow, active, slot, boot_ind>>
    BY <1>19, ConcludeMergeStateEffect DEF Inv, PollsTrue
  <2>2. CASE op' = Idle \/ op'.pc = "remove"
    BY <2>2, NothingWritten
  <2>3. CASE op.seen \cap {"Merging", "MergeFailed"} = {} /\ "None" \in op.seen /\ Writes("Merging", "SECOND_PHASE", "second")
    <3>1. /\ phase = "FIRST_PHASE" /\ Merge
          /\ \A p \in Partitions \ op.todo : ~Live(p) \/ ("None" \in op.seen /\ ~First(p))
      BY <2>1, <2>3 DEF Inv, PollsTrue, Polling
    <3>2. PhaseOK(phase) /\ active = "target" /\ (boot_ind = TRUE \/ Over) /\ slot # "source" /\ slot # "off"
      BY <2>1, <3>1, IdleFields DEF Inv, PhasesKept, MergeGuarded, SlotsTrue
    <3>3. \A p \in Partitions : ~First(p) => base[p] = "old" /\ status[p] = "CREATED"
      BY <3>1, <3>2 DEF PhaseOK
    <3>4. \A p \in Partitions : First(p) => ~Live(p)
      BY <2>1, <3>1
    <3>5. \A p \in Partitions : First(p) => base[p] = "new" /\ ~Live(p)
      BY <3>1, <3>2, <3>4 DEF Inv, TargetIntact, TargetComplete, Abandoned, Merge
    <3>6. PhaseOK("SECOND_PHASE")
      BY <3>5 DEF PhaseOK
    <3>7. /\ op'.pc = "write_hal" /\ op'.to = "Merging" /\ op'.why = "second" /\ op'.phase = "SECOND_PHASE" /\ op'.cur = {}
      BY <2>1, <2>3 DEF Writes
    <3>8. PhaseOK(op.phase)' /\ (Over => Over')
      BY <2>1, <3>6, <3>7, SamePhase DEF PhaseOK, Over, AllNew, Live
    <3>9. \A p \in Partitions : DecideMergePhase(p)' = "SECOND_PHASE" => status'[p] = "CREATED" /\ base'[p] = "old"
      BY <2>1, <3>3, PhaseKinds, SamePhase
    <3>10. SetBeforeWrite(op.to)'
      BY <3>7 DEF SetBeforeWrite, MergeStatus
    <3>11. slot = "target"
      BY <3>2 DEF Inv, Types, DeviceOK
    <3> QED
      BY <2>1, <3>1, <3>2, <3>7, <3>8, <3>9, <3>10, <3>11 DEF WritesTrue, Writing, Merge
  <2>4. CASE /\ op.seen \cap {"Merging", "MergeFailed", "None"} = {}
             /\ Writes("MergeNeedsReboot", phase, "needs_reboot") \/ Writes("MergeCompleted", phase, "completed")
    <3>1. Over /\ Over'
      BY <2>1, <2>4, PollOver, OverKept
    <3>2. PhaseOK(phase)
      BY <2>1 DEF Inv, PollsTrue, Polling, PhasesKept, Merge
    <3>3. /\ op'.pc = "write_file" /\ op'.phase = phase
          /\ (op'.to = "MergeNeedsReboot" /\ op'.why = "needs_reboot") \/ (op'.to = "MergeCompleted" /\ op'.why = "completed")
      BY <2>4 DEF Writes
    <3>4. PhaseOK(op.phase)'
      BY <2>1, <3>2, <3>3, SamePhase DEF PhaseOK, Live
    <3> QED
      BY <3>1, <3>3, <3>4 DEF WritesTrue, Writing
  <2> QED
    BY <1>19, <2>2, <2>3, <2>4, ConcludeMergeStateEffect DEF Ends, Acknowledges, OpIs
<1>20. CASE AcknowledgeMergeFailure
  <2>1. /\ op = Idle /\ UNCHANGED <<state, phase>>
        /\ \/ op' = Idle
           \/ /\ op'.pc = "write_hal" /\ op'.to = "MergeFailed" /\ op'.why = "update" /\ op'.phase = phase
              /\ state \in {"Merging", "MergeNeedsReboot"}
    BY <1>20, AcknowledgeMergeFailureEffect DEF Writes
  <2>3. op'.to = "MergeFailed" => SetBeforeWrite(op.to)'
    BY DEF SetBeforeWrite, MergeStatus
  <2> QED
    BY <2>1, <2>3, NothingWritten DEF WritesTrue, Writing
<1>21. CASE DataWipeProcessed
  <2>1. /\ op = Idle /\ slot # "off" /\ reset = "wipe" /\ recovery = TRUE /\ result # "none"
        /\ UNCHANGED <<state, phase, status, boot_ind, base, cow, slot>>
    BY <1>21, DataWipeProcessedEffect
  <2>2. CASE op' = op
    BY <2>1, <2>2, NothingWritten
  <2>3. CASE CanInitiateMerge /\ Writes("Merging", FirstMergePhase, "initiate") /\ active' = active
    <3>1. slot = "target"
      BY <2>1, <2>3, Zenon DEF CanInitiateMerge, CurrentSlot, Inv, Types, FlagsOK, DeviceOK
    <3>2. active = "target"
      BY <2>1, <3>1 DEF Inv, SlotsTrue, DeviceOK
    <3> QED
      BY <2>1, <2>3, <3>2, MergeWritten
  <2>4. CASE /\ result # "MergeFailed" /\ Writes("None", "NO_MERGE", "zap") /\ result' = result /\ reset' = "zapping"
    <3>1. op'.pc = "write_file" /\ op'.to = "None" /\ op'.why = "zap"
      BY <2>4 DEF Writes
    <3> QED
      BY <3>1 DEF WritesTrue, Writing
  <2> QED
    BY <1>21, <2>2, <2>3, <2>4, DataWipeProcessedEffect
<1>22. CASE WipeData
  BY <1>22 DEF WipeData, IsIdle
<1>23. CASE FinishMergeInRecovery
  BY <1>23 DEF FinishMergeInRecovery, IsIdle
<1>24. CASE BeginUpdate
  BY <1>24, BeginUpdateEffect DEF OpIs
<1>25. CASE CancelUpdate
  BY <1>25, CancelUpdateEffect DEF OpIs
<1>26. CASE CreateUpdateSnapshots
  BY <1>26, CreateUpdateSnapshotsEffect DEF OpIs
<1>27. ASSUME NEW p \in Partitions, WriteSnapshot(p)
      PROVE  WritesTrue'
  BY <1>27 DEF WriteSnapshot, IsIdle
<1>28. CASE MapAllSnapshots
  BY <1>28 DEF MapAllSnapshots, IsIdle
<1>29. CASE UnmapAllSnapshots
  BY <1>29 DEF UnmapAllSnapshots, IsIdle
<1>30. ASSUME NEW wipe \in BOOLEAN, FinishedSnapshotWrites(wipe)
      PROVE  WritesTrue'
  BY <1>30, FinishedSnapshotWritesEffect DEF OpIs
<1>31. CASE SetActiveBootSlot
  BY <1>31 DEF SetActiveBootSlot, IsIdle
<1>32. CASE MarkBootSuccessful
  <2>1. op' = op /\ UNCHANGED <<state, phase, status, boot_ind, rollback_ind, base, cow, active, slot, recovery, begin, hal>>
    BY <1>32 DEF MarkBootSuccessful
  <2> QED
    BY <2>1, NothingWritten, WriteGoesOn DEF Inv
<1>33. CASE InitiateMerge
  <2>1. /\ op = Idle /\ slot # "off" /\ recovery = FALSE /\ CanInitiateMerge
        /\ Writes("Merging", FirstMergePhase, "initiate")
        /\ UNCHANGED <<state, phase, status, boot_ind, base, cow, active, slot>>
    BY <1>33, InitiateMergeEffect
  <2>2. slot = "target"
    BY <2>1, Zenon DEF CanInitiateMerge, CurrentSlot, Inv, Types, FlagsOK, DeviceOK
  <2>3. active = "target"
    BY <2>1, <2>2 DEF Inv, SlotsTrue, DeviceOK
  <2> QED
    BY <2>1, <2>3, MergeWritten
<1>34. CASE CheckMergeState
  <2>1. /\ UNCHANGED <<status, base, active>>
        /\ \/ op' = Idle \/ op'.pc \in {"remove", "poll"}
           \/ op'.pc = "write_file" /\ op'.to = "MergeCompleted" /\ op'.why = "completed" /\ state = "MergeCompleted"
    BY <1>34, CheckMergeStateEffect DEF Ends, Acknowledges, OpIs, Writes
  <2>2. CASE op'.pc = "write_file" /\ op'.to = "MergeCompleted" /\ op'.why = "completed" /\ state = "MergeCompleted"
    <3>1. Over'
      BY <2>1, <2>2, OverKept DEF Inv, StatusTrue
    <3> QED
      BY <2>2, <3>1 DEF WritesTrue, Writing
  <2> QED
    BY <2>1, <2>2, NothingWritten
<1>35. ASSUME NEW p \in Partitions, MergeProgress(p)
      PROVE  WritesTrue'
  <2>1. /\ op' = op /\ dm[p] = "merging" /\ base[p] # "new"
        /\ UNCHANGED <<state, phase, status, boot_ind, rollback_ind, cow, active, slot, recovery, begin, hal>>
        /\ \A q \in Partitions : base'[q] = base[q] \/ (q = p /\ base[q] # "new")
    BY <1>35 DEF MergeProgress, Inv, StorageOK
  <2>2. Merge /\ DecideMergePhase(p) = phase /\ phase \in {"FIRST_PHASE", "SECOND_PHASE"}
    BY <2>1, PhaseKinds DEF Inv, DevicesTrue
  <2>3. CASE Writing /\ op.to = "Merging"
    <3>1. phase = "FIRST_PHASE" /\ op.phase = "SECOND_PHASE" /\ PhaseOK("SECOND_PHASE")
      BY <2>2, <2>3 DEF WritesTrue, Inv, Merge
    <3>2. First(p)
      BY <2>2, <3>1 DEF First
    <3> QED
      BY <2>1, <3>1, <3>2 DEF PhaseOK
  <2>4. CASE Writing /\ op.to # "Merging"
    <3>1. op.to # "MergeNeedsReboot" /\ ~Over
      BY <2>1, <2>4 DEF WritesTrue, Inv, Over, AllNew
    <3>2. (SetBeforeWrite(op.to)' <=> SetBeforeWrite(op.to)) /\ (Given' <=> Given)
      BY <2>1 DEF SetBeforeWrite, MergeStatus, Given
    <3> QED
      BY <2>1, <2>4, <3>1, <3>2 DEF WritesTrue, Inv, Writing
  <2>5. CASE ~Writing
    BY <2>1, <2>5 DEF WritesTrue, Writing
  <2> QED
    BY <2>3, <2>4, <2>5
<1>36. ASSUME NEW p \in Partitions, MergeFails(p)
      PROVE  WritesTrue'
  <2>1. op' = op /\ UNCHANGED <<state, phase, status, boot_ind, rollback_ind, base, cow, active, slot, recovery, begin, hal>>
    BY <1>36 DEF MergeFails
  <2> QED
    BY <2>1, NothingWritten, WriteGoesOn DEF Inv
<1>37. CASE Crash
  BY <1>37 DEF Crash, IsIdle, GoDown
<1>38. CASE Reboot
  BY <1>38 DEF Reboot, IsIdle, GoDown
<1>39. CASE BootSource
  <2>1. slot = "off" /\ op' = op
    BY <1>39 DEF BootSource
  <2> QED
    BY <2>1, NothingWritten DEF Inv, SlotsTrue
<1>40. CASE BootTarget
  <2>1. slot = "off" /\ op' = op
    BY <1>40 DEF BootTarget
  <2> QED
    BY <2>1, NothingWritten DEF Inv, SlotsTrue
<1>41. CASE FallBack
  <2>1. slot = "off" /\ op' = op
    BY <1>41 DEF FallBack
  <2> QED
    BY <2>1, NothingWritten DEF Inv, SlotsTrue
<1>42. CASE BootRecovery
  <2>1. slot = "off" /\ op' = op
    BY <1>42 DEF BootRecovery
  <2> QED
    BY <2>1, NothingWritten DEF Inv, SlotsTrue
<1>43. ASSUME NEW why \in {"wipe", "finish"}, CreateLogicalAndSnapshotPartitions(why)
      PROVE  WritesTrue'
  BY <1>43 DEF CreateLogicalAndSnapshotPartitions, IsIdle
<1>44. CASE UNCHANGED vars
  <2>1. op' = op /\ UNCHANGED <<state, phase, status, boot_ind, rollback_ind, base, cow, active, slot, recovery, begin, hal>>
    BY <1>44 DEF vars
  <2> QED
    BY <2>1, NothingWritten, WriteGoesOn DEF Inv
<1> QED
  BY <1>1, <1>2, <1>3, <1>4, <1>5, <1>6, <1>7, <1>8, <1>9, <1>10, <1>11,
     <1>12, <1>13, <1>14, <1>15, <1>16, <1>17, <1>18, <1>19, <1>20, <1>21, <1>22,
     <1>23, <1>24, <1>25, <1>26, <1>27, <1>28, <1>29, <1>30, <1>31, <1>32, <1>33,
     <1>34, <1>35, <1>36, <1>37, <1>38, <1>39, <1>40, <1>41, <1>42, <1>43, <1>44, Zenon
  DEF Next, Steps, BootUp

-----------------------------------------------------------------------------
(* The invariant holds. *)

LEMMA InitInv ==
  ASSUME Init
  PROVE  Inv
<1> USE DEF Init
<1>1. FlagsOK
  BY Zenon DEF FlagsOK
<1>2. op \in Operation /\ StorageOK /\ DeviceOK /\ ClientOK /\ AcksOK /\ BudgetsOK
  BY IdleType, BoundsAssumption
  DEF StorageOK, DeviceOK, ClientOK, AcksOK, BudgetsOK, UpdateStates, Phases
<1>3. op.pc = "idle" /\ op.why = "none"
  BY IdleFields
<1>4. SourceComplete /\ ~Merge
  BY DEF SourceComplete, Merge
<1>5. TargetIntact /\ MergeGuarded /\ Committed /\ PhasesKept
  BY <1>4 DEF TargetIntact, MergeGuarded, Committed, PhasesKept
<1>6. StatusTrue /\ DevicesTrue
  BY DEF StatusTrue, DevicesTrue
<1>7. SlotsTrue /\ RecoveryTrue
  BY Zenon DEF SlotsTrue, RecoveryTrue
<1>8. ResultTrue /\ WipesTrue
  BY DEF ResultTrue, WipesTrue
<1>9. WritesTrue /\ RemovesTrue /\ CreatesTrue /\ SwitchesTrue
  BY <1>3 DEF WritesTrue, Writing, RemovesTrue, CreatesTrue, SwitchesTrue
<1>10. aborted = FALSE
  BY Zenon
<1>11. PollsTrue
  BY <1>3, <1>10 DEF PollsTrue, Polling
<1> QED
  BY <1>1, <1>2, <1>5, <1>6, <1>7, <1>8, <1>9, <1>11 DEF Inv, Types

LEMMA StepInv ==
  ASSUME Inv, [Next]_vars
  PROVE  Inv'
<1>1. FlagsOK /\ op \in Operation /\ StorageOK /\ DeviceOK /\ BudgetsOK
  BY DEF Inv, Types
<1>2. FlagsOK'
  BY <1>1, StepFlags
<1>3. (op \in Operation)' /\ ClientOK' /\ AcksOK'
  BY StepOperation, StepClient, StepAcks
<1>4. StorageOK' /\ DeviceOK' /\ BudgetsOK'
  BY <1>1, StepStorage, StepDevice, StepBudgets
<1>5. TargetIntact' /\ MergeGuarded' /\ Committed' /\ StatusTrue' /\ PhasesKept'
  BY StepTarget, StepGuard, StepCommit, StepStatus, StepPhases
<1>6. DevicesTrue' /\ SlotsTrue' /\ ResultTrue' /\ WipesTrue' /\ RecoveryTrue'
  BY StepDevices, StepSlots, StepResult, StepWipes, StepRecovery
<1>7. WritesTrue' /\ RemovesTrue' /\ CreatesTrue' /\ SwitchesTrue' /\ PollsTrue'
  BY StepWrites, StepRemoves, StepCreates, StepSwitches, StepPolls
<1> QED
  BY <1>2, <1>3, <1>4, <1>5, <1>6, <1>7 DEF Inv, Types

LEMMA Invariance == Spec => []Inv
<1>1. Spec => Init /\ [][Next]_vars
  BY PTL DEF Spec
<1>2. Inv /\ [Next]_vars => Inv'
  BY StepInv
<1> QED
  BY <1>1, <1>2, InitInv, PTL

-----------------------------------------------------------------------------
(* What the invariant means *)

(* SnapshotManager never leaves its types. *)
THEOREM TypeCorrect == Spec => []TypeOK
<1>1. ASSUME Inv PROVE TypeOK
  <2>1. <<boot_ind, rollback_ind, forward_ind>> \in BOOLEAN \X BOOLEAN \X BOOLEAN
    BY <1>1, Zenon DEF Inv, Types, FlagsOK
  <2>2. <<waiting, aborted>> \in BOOLEAN \X BOOLEAN
    BY <1>1, Zenon DEF Inv, Types, FlagsOK
  <2>3. successful \in BOOLEAN /\ recovery \in BOOLEAN
    BY <1>1, Zenon DEF Inv, Types, FlagsOK
  <2>4. op.todo \subseteq Partitions /\ op.cur \subseteq Partitions /\ op.to \in UpdateStates /\ op.phase \in Phases
    BY <1>1 DEF Inv, Types, Operation
  <2>5. StorageOK /\ DeviceOK /\ ClientOK /\ AcksOK /\ BudgetsOK
    BY <1>1 DEF Inv, Types
  <2> QED
    BY <2>1, <2>2, <2>3, <2>4, <2>5, Zenon DEF TypeOK, StorageOK, DeviceOK, ClientOK, AcksOK, BudgetsOK
<1> QED
  BY <1>1, Invariance, PTL

(***************************************************************************)
(* As long as super is neither all old nor all new the HAL reports MERGING   *)
(* and the target slot is active: the order of WriteSnapshotUpdateStatus and *)
(* of its callers, through any crash and any failed call.                    *)
(***************************************************************************)
THEOREM BootloaderInformed == Spec => []BootloaderKnows
<1>1. ASSUME Inv PROVE BootloaderKnows
  BY <1>1 DEF Inv, Committed, MergeGuarded, AllNew, BootloaderKnows
<1> QED
  BY <1>1, Invariance, PTL

(***************************************************************************)
(* With snapuserd, the partitions that shrank are merged before any other    *)
(* is overwritten, whatever InitiateMerge, CheckTargetMergeState or           *)
(* MapSnapshot resumes.                                                      *)
(***************************************************************************)
THEOREM ShrunkMergedFirst == Spec => []ShrunkFirst
<1>1. ASSUME Inv PROVE ShrunkFirst
  <2>1. SUFFICES ASSUME driver # "dm-snapshot", NEW p \in Partitions \ Shrunk, NEW q \in Shrunk, base[p] # "old"
                 PROVE  base[q] = "new"
    BY DEF ShrunkFirst
  <2>2. q \in Partitions /\ First(q) /\ ~First(p)
    BY <2>1, PartitionsAssumption DEF First, DecideMergePhase
  <2>3. Merge \/ AllNew
    BY <1>1, <2>1 DEF Inv, Committed, SourceComplete
  <2>4. CASE Merge
    <3>1. PhaseOK(phase) /\ phase \in Phases
      BY <1>1, <2>4 DEF Inv, PhasesKept, Types, StorageOK
    <3> QED
      BY <2>1, <2>2, <3>1 DEF PhaseOK, Phases
  <2> QED
    BY <2>2, <2>3, <2>4 DEF AllNew
<1> QED
  BY <1>1, Invariance, PTL

(* The CHECKs of MergeSecondPhaseSnapshots hold whenever it is reached. *)
THEOREM ChecksNeverFail == Spec => []ChecksHold
<1>1. ASSUME Inv PROVE ChecksHold
  <2>1. aborted = FALSE
    BY <1>1 DEF Inv, PollsTrue
  <2> QED
    BY <2>1, Zenon DEF ChecksHold
<1> QED
  BY <1>1, Invariance, PTL

-----------------------------------------------------------------------------
(* Cancelling *)

(* An update that waits for its first boot is not taken for a rollback. *)
LEMMA WaitingNotCancelled ==
  ASSUME Inv, waiting = TRUE
  PROVE  op = Idle /\ ~IsCancelledUpdate
<1>1. /\ op = Idle /\ slot = "source" /\ boot_ind = TRUE /\ rollback_ind = FALSE /\ Given
  BY DEF Inv, SlotsTrue
<1>2. Snapshots # {}
  BY <1>1, PartitionsAssumption DEF Given, Snapshots
<1> QED
  BY <1>1, <1>2, Zenon DEF IsCancelledUpdate

LEMMA StepCancel ==
  ASSUME Inv, [Next]_vars, waiting = TRUE
  PROVE  op'.why # "cancelled"
<1>0. Types /\ op = Idle /\ ~IsCancelledUpdate
  BY WaitingNotCancelled DEF Inv
<1>a. op.pc = "idle" /\ op.why = "none"
  BY <1>0, IdleFields
<1> USE <1>0, <1>a, IdleFields
<1>1. CASE WriteHal
  BY <1>1, Zenon DEF WriteHal
<1>2. CASE WriteFile
  BY <1>2, Zenon DEF WriteFile
<1>3. ASSUME NEW p \in Partitions, RemoveSnapshot(p)
      PROVE  op'.why # "cancelled"
  BY <1>3, Zenon DEF RemoveSnapshot
<1>4. CASE RemoveImages
  BY <1>4, Zenon DEF RemoveImages
<1>5. CASE UnlinkIndicator
  BY <1>5, Zenon DEF UnlinkIndicator, Unlink
<1>6. CASE RemoveInvalidSnapshot
  BY <1>6, Zenon DEF RemoveInvalidSnapshot
<1>7. CASE BeginUpdateLocked
  BY <1>7, BeginUpdateLockedEffect DEF Writes
<1>8. ASSUME NEW p \in Partitions, CreateSnapshot(p)
      PROVE  op'.why # "cancelled"
  BY <1>8, Zenon DEF CreateSnapshot
<1>9. CASE CreateCowImages
  BY <1>9, Zenon DEF CreateCowImages
<1>10. CASE UndoCreate
  BY <1>10, Zenon DEF UndoCreate
<1>11. CASE RemoveRollbackIndicator
  BY <1>11, Zenon DEF RemoveRollbackIndicator
<1>12. CASE WriteBootIndicator
  BY <1>12, Zenon DEF WriteBootIndicator
<1>13. ASSUME NEW p \in Partitions, SwitchSnapshotToMerge(p)
      PROVE  op'.why # "cancelled"
  BY <1>13, Zenon DEF SwitchSnapshotToMerge
<1>14. ASSUME NEW p \in Partitions, MarkMerging(p)
      PROVE  op'.why # "cancelled"
  BY <1>14, Zenon DEF MarkMerging
<1>15. CASE AllSwitched
  BY <1>15, Zenon DEF AllSwitched
<1>16. ASSUME NEW p \in Partitions, CheckTargetMergeState(p)
      PROVE  op'.why # "cancelled"
  BY <1>16, Zenon DEF CheckTargetMergeState
<1>17. ASSUME NEW p \in Partitions, CollapseSnapshotDevice(p)
      PROVE  op'.why # "cancelled"
  BY <1>17, Zenon DEF CollapseSnapshotDevice
<1>18. ASSUME NEW p \in Partitions, DeleteMergedSnapshot(p)
      PROVE  op'.why # "cancelled"
  BY <1>18, Zenon DEF DeleteMergedSnapshot
<1>19. CASE ConcludeMergeState
  BY <1>19, Zenon DEF ConcludeMergeState
<1>20. CASE AcknowledgeMergeFailure
  BY <1>20, AcknowledgeMergeFailureEffect DEF Writes
<1>21. CASE DataWipeProcessed
  BY <1>21, DataWipeProcessedEffect DEF Writes
<1>22. CASE WipeData
  BY <1>22 DEF WipeData
<1>23. CASE FinishMergeInRecovery
  BY <1>23 DEF FinishMergeInRecovery
<1>24. CASE BeginUpdate
  BY <1>24, BeginUpdateEffect DEF OpIs
<1>25. CASE CancelUpdate
  BY <1>25, CancelUpdateEffect DEF OpIs
<1>26. CASE CreateUpdateSnapshots
  BY <1>26, CreateUpdateSnapshotsEffect DEF OpIs
<1>27. ASSUME NEW p \in Partitions, WriteSnapshot(p)
      PROVE  op'.why # "cancelled"
  BY <1>27 DEF WriteSnapshot
<1>28. CASE MapAllSnapshots
  BY <1>28 DEF MapAllSnapshots
<1>29. CASE UnmapAllSnapshots
  BY <1>29 DEF UnmapAllSnapshots
<1>30. ASSUME NEW wipe \in BOOLEAN, FinishedSnapshotWrites(wipe)
      PROVE  op'.why # "cancelled"
  BY <1>30, FinishedSnapshotWritesEffect DEF OpIs
<1>31. CASE SetActiveBootSlot
  BY <1>31 DEF SetActiveBootSlot
<1>32. CASE MarkBootSuccessful
  BY <1>32 DEF MarkBootSuccessful
<1>33. CASE InitiateMerge
  BY <1>33, InitiateMergeEffect DEF Writes
<1>34. CASE CheckMergeState
  BY <1>34, CheckMergeStateEffect DEF Ends, Acknowledges, OpIs, Writes
<1>35. ASSUME NEW p \in Partitions, MergeProgress(p)
      PROVE  op'.why # "cancelled"
  BY <1>35 DEF MergeProgress
<1>36. ASSUME NEW p \in Partitions, MergeFails(p)
      PROVE  op'.why # "cancelled"
  BY <1>36 DEF MergeFails
<1>37. CASE Crash
  BY <1>37 DEF Crash, GoDown
<1>38. CASE Reboot
  BY <1>38 DEF Reboot, GoDown
<1>39. CASE BootSource
  BY <1>39 DEF BootSource
<1>40. CASE BootTarget
  BY <1>40 DEF BootTarget
<1>41. CASE FallBack
  BY <1>41 DEF FallBack
<1>42. CASE BootRecovery
  BY <1>42 DEF BootRecovery
<1>43. ASSUME NEW why \in {"wipe", "finish"}, CreateLogicalAndSnapshotPartitions(why)
      PROVE  op'.why # "cancelled"
  BY <1>43 DEF CreateLogicalAndSnapshotPartitions
<1>44. CASE UNCHANGED vars
  BY <1>44 DEF vars
<1> QED
  BY <1>1, <1>2, <1>3, <1>4, <1>5, <1>6, <1>7, <1>8, <1>9, <1>10, <1>11,
     <1>12, <1>13, <1>14, <1>15, <1>16, <1>17, <1>18, <1>19, <1>20, <1>21, <1>22,
     <1>23, <1>24, <1>25, <1>26, <1>27, <1>28, <1>29, <1>30, <1>31, <1>32, <1>33,
     <1>34, <1>35, <1>36, <1>37, <1>38, <1>39, <1>40, <1>41, <1>42, <1>43, <1>44, Zenon
  DEF Next, Steps, BootUp

(***************************************************************************)
(* CheckMergeState never takes an update that only waits for its first boot  *)
(* for a rollback: FinishedSnapshotWrites has removed the indicator.         *)
(***************************************************************************)
THEOREM NeverCancelsEarly == Spec => NoEarlyCancel
<1>1. Inv /\ [Next]_vars => [(op.why # "cancelled" /\ op'.why = "cancelled") => ~waiting]_vars
  <2>1. SUFFICES ASSUME Inv, [Next]_vars, op.why # "cancelled", op'.why = "cancelled"
                 PROVE  ~waiting
    OBVIOUS
  <2>2. waiting \in BOOLEAN
    BY <2>1 DEF Inv, Types, FlagsOK
  <2>3. waiting # TRUE
    BY <2>1, StepCancel
  <2> QED
    BY <2>2, <2>3, Zenon
<1>2. Spec => [][Next]_vars
  BY PTL DEF Spec
<1> QED
  BY <1>1, <1>2, Invariance, PTL DEF NoEarlyCancel

-----------------------------------------------------------------------------
(* The update is atomic *)

(* What a step may do to the two systems: nothing but start or stop one; on a    *)
(* slot that stays, take the new one away, or bring it forth under the old one;  *)
(* or overwrite the old one in a merge.                                         *)
Turns ==
  /\ SourceComplete' <=> SourceComplete
  /\ TargetComplete' <=> TargetComplete
  /\ \/ RunningNow' \in {RunningNow, "none"}
     \/ RunningNow = "none" /\ RunningNow' = "old" /\ SourceComplete
     \/ RunningNow = "none" /\ RunningNow' = "new" /\ TargetComplete

Stays == UNCHANGED <<slot, recovery, active>>

Changes ==
  /\ Stays /\ (SourceComplete' <=> SourceComplete)
  /\ TargetComplete' => TargetComplete \/ RunningNow = "old"

Overwrites == Stays /\ (SourceComplete' => SourceComplete) /\ Merge /\ state' = state

LEMMA SameSystems ==
  /\ base' = base => (SourceComplete' <=> SourceComplete)
  /\ UNCHANGED <<state, boot_ind, status, cow, base>> => (TargetComplete' <=> TargetComplete)
  /\ UNCHANGED <<slot, recovery>> => RunningNow' = RunningNow
BY DEF SourceComplete, TargetComplete, NeedSnapshots, Live, RunningNow

(* An old system that is there and a state without snapshots: no new one. *)
LEMMA NothingNew ==
  /\ SourceComplete /\ TargetComplete => NeedSnapshots /\ \A p \in Partitions : Live(p) /\ cow[p] = "full"
  /\ SourceComplete => ~Over
BY PartitionsAssumption DEF SourceComplete, TargetComplete, Over, AllNew

LEMMA OldRuns == slot = "source" /\ recovery = FALSE => RunningNow = "old"
BY Zenon DEF RunningNow

(* Taking snapshots away makes no system complete. *)
LEMMA TakesAway ==
  ASSUME Inv, Stays, Shrinks, UNCHANGED <<state, base>>, boot_ind' \in {boot_ind, FALSE}
  PROVE  Changes
<1>1. SourceComplete' <=> SourceComplete
  BY SameSystems
<1>2. ASSUME TargetComplete', ~TargetComplete PROVE FALSE
  <2>1. SourceComplete /\ SourceComplete'
    BY <1>1, <1>2 DEF Inv, Committed, TargetIntact, Abandoned
  <2>2. NeedSnapshots' /\ \A p \in Partitions : Live(p)' /\ cow'[p] = "full"
    BY <1>2, <2>1, PartitionsAssumption DEF SourceComplete, TargetComplete
  <2>3. \A p \in Partitions : Live(p) /\ cow[p] = "full"
    BY <2>2 DEF Shrinks, Live
  <2>4. boot_ind' => boot_ind
    BY Zenon
  <2>5. NeedSnapshots
    BY <2>2, <2>4, Zenon DEF NeedSnapshots
  <2> QED
    BY <1>2, <2>3, <2>5 DEF TargetComplete
<1> QED
  BY <1>1, <1>2 DEF Changes

(* Neither does a step under an active target slot that is not given up. *)
LEMMA TargetThere ==
  ASSUME Inv, Stays, base' = base, active = "target", ~Abandoned
  PROVE  Changes
BY SameSystems DEF Inv, TargetIntact, Changes

LEMMA MergeThere ==
  ASSUME Inv, Merge \/ state = "MergeNeedsReboot"
  PROVE  active = "target" /\ ~Abandoned
BY OverCommitted DEF Inv, MergeGuarded, StatusTrue, Abandoned, Merge

LEMMA StepSystems ==
  ASSUME Inv, [Next]_vars
  PROVE  Turns \/ Changes \/ Overwrites
<1>0. Types
  BY DEF Inv
<1> USE <1>0
<1>1. CASE WriteHal
  <2>1. UNCHANGED <<state, boot_ind, status, cow, base, slot, recovery>>
    BY <1>1, Zenon DEF WriteHal, meta, disk, power, boot
  <2> QED
    BY <2>1, SameSystems DEF Turns
<1>2. CASE WriteFile
  <2>1. Stays /\ UNCHANGED <<status, boot_ind, cow, base>>
    BY <1>2, WriteFileStates DEF Stays, disk, boot, power
  <2>2. CASE state' = state
    BY <2>1, <2>2, SameSystems DEF Changes
  <2>3. CASE active = "target"
    <3>1. Abandoned => state = "None" /\ slot # "source" /\ ~Over
      BY <1>2, IdleFields, OverCommitted DEF WriteFile, Abandoned
    <3>2. Abandoned => state' = state
      BY <1>2, <3>1, WriteFileStates
    <3> QED
      BY <2>1, <2>2, <2>3, <3>2, TargetThere
  <2>4. CASE state' = "Unverified" /\ slot = "source" /\ state # "Unverified"
    <3>1. Writing /\ op.to = state'
      BY <1>2, <2>4, Zenon DEF WriteFile, Writing
    <3>2. recovery = FALSE
      BY <2>4, <3>1 DEF Inv, WritesTrue
    <3> QED
      BY <2>1, <2>4, <3>2, OldRuns, SameSystems DEF Changes
  <2>5. CASE active = "source" /\ state' \in {"None", "Initiated"}
    <3>1. SourceComplete
      BY <2>5 DEF Inv, Committed
    <3>2. ~TargetComplete'
      BY <2>1, <2>5, <3>1, PartitionsAssumption DEF SourceComplete, TargetComplete, NeedSnapshots
    <3> QED
      BY <2>1, <3>2, SameSystems DEF Changes
  <2>6. active \in {"source", "target"}
    BY DEF Types, DeviceOK
  <2>7. state \in {"Merging", "MergeNeedsReboot"} \/ Over => active = "target"
    BY OverCommitted, MergeThere DEF Merge
  <2>8. \/ state' = state \/ active = "target" \/ Over \/ state \in {"Merging", "MergeNeedsReboot"}
        \/ state' = "Unverified" /\ slot = "source"
        \/ state' \in {"None", "Initiated"}
    BY <1>2, WriteFileStates, Zenon
  <2> QED
    BY <2>2, <2>3, <2>4, <2>5, <2>6, <2>7, <2>8
<1>3. ASSUME NEW p \in Partitions, RemoveSnapshot(p)
      PROVE  Turns \/ Changes \/ Overwrites
  <2>1. Shrinks
    BY <1>3, RemoveSnapshotEffect
  <2>2. Stays /\ UNCHANGED <<state, base>> /\ boot_ind' \in {boot_ind, FALSE}
    BY <1>3, Zenon DEF RemoveSnapshot, Stays, meta, boot, power, client, Types, FlagsOK
  <2> QED
    BY <2>1, <2>2, TakesAway, Zenon
<1>4. CASE RemoveImages
  <2>0. op.why \in {"begin", "cancel", "success", "again", "cancelled"}
    BY <1>4, Zenon DEF RemoveImages, Inv, RemovesTrue
  <2>1. Shrinks
    BY <1>4, <2>0, RemoveImagesEffect
  <2>2. Stays /\ UNCHANGED <<state, base>> /\ boot_ind' \in {boot_ind, FALSE}
    BY <1>4, Zenon DEF RemoveImages, Stays, meta, boot, power, client, Types, FlagsOK
  <2> QED
    BY <2>1, <2>2, TakesAway, Zenon
<1>5. CASE UnlinkIndicator
  <2>1. Shrinks
    BY <1>5, SMT DEF UnlinkIndicator, Shrinks, disk
  <2>2. Stays /\ UNCHANGED <<state, base>> /\ boot_ind' \in {boot_ind, FALSE}
    BY <1>5, UnlinkIndicatorEffect, Zenon DEF disk, Stays, meta, boot, power, client, Types, FlagsOK
  <2> QED
    BY <2>1, <2>2, TakesAway, Zenon
<1>6. CASE RemoveInvalidSnapshot
  <2>0. op.why \in {"begin", "cancel", "success", "again", "cancelled"}
    BY <1>6, Zenon DEF RemoveInvalidSnapshot, Inv, RemovesTrue
  <2>1. Shrinks
    BY <1>6, <2>0, RemoveInvalidSnapshotEffect
  <2>2. Stays /\ UNCHANGED <<state, base>> /\ boot_ind' \in {boot_ind, FALSE}
    BY <1>6, Zenon DEF RemoveInvalidSnapshot, Stays, meta, boot, power, client, Types, FlagsOK
  <2> QED
    BY <2>1, <2>2, TakesAway, Zenon
<1>7. CASE BeginUpdateLocked
  <2>1. Shrinks
    BY <1>7, BeginUpdateLockedEffect DEF Shrinks, meta
  <2>2. Stays /\ UNCHANGED <<state, base>> /\ boot_ind' \in {boot_ind, FALSE}
    BY <1>7, Zenon DEF BeginUpdateLocked, Stays, meta, boot, power, client, Types, FlagsOK
  <2> QED
    BY <2>1, <2>2, TakesAway, Zenon
<1>8. ASSUME NEW p \in Partitions, CreateSnapshot(p)
      PROVE  Turns \/ Changes \/ Overwrites
  <2>1. slot = "source" /\ recovery = FALSE
    BY <1>8, Zenon DEF CreateSnapshot, Inv, CreatesTrue
  <2>2. Stays /\ base' = base
    BY <1>8, Zenon DEF CreateSnapshot, Stays, meta, disk, boot, power
  <2> QED
    BY <2>1, <2>2, OldRuns, SameSystems DEF Changes
<1>9. CASE CreateCowImages
  <2>1. slot = "source" /\ recovery = FALSE
    BY <1>9, Zenon DEF CreateCowImages, Inv, CreatesTrue
  <2>2. Stays /\ base' = base
    BY <1>9, Zenon DEF CreateCowImages, Stays, meta, disk, boot, power
  <2> QED
    BY <2>1, <2>2, OldRuns, SameSystems DEF Changes
<1>10. CASE UndoCreate
  <2>1. Shrinks
    BY <1>10, UndoCreateEffect
  <2>2. Stays /\ UNCHANGED <<state, base>> /\ boot_ind' \in {boot_ind, FALSE}
    BY <1>10, Zenon DEF UndoCreate, Stays, meta, boot, power, client, Types, FlagsOK
  <2> QED
    BY <2>1, <2>2, TakesAway, Zenon
<1>11. CASE RemoveRollbackIndicator
  <2>1. UNCHANGED <<state, boot_ind, status, cow, base, slot, recovery>>
    BY <1>11, Zenon DEF RemoveRollbackIndicator, meta, disk, power, boot
  <2> QED
    BY <2>1, SameSystems DEF Turns
<1>12. CASE WriteBootIndicator
  <2>1. slot = "source" /\ recovery = FALSE
    BY <1>12, Zenon DEF WriteBootIndicator, Inv, CreatesTrue
  <2>2. Stays /\ base' = base
    BY <1>12, Zenon DEF WriteBootIndicator, Stays, meta, disk, boot, power
  <2> QED
    BY <2>1, <2>2, OldRuns, SameSystems DEF Changes
<1>13. ASSUME NEW p \in Partitions, SwitchSnapshotToMerge(p)
      PROVE  Turns \/ Changes \/ Overwrites
  <2>1. UNCHANGED <<state, boot_ind, status, cow, base, slot, recovery>>
    BY <1>13, Zenon DEF SwitchSnapshotToMerge, meta, disk, power, boot
  <2> QED
    BY <2>1, SameSystems DEF Turns
<1>14. ASSUME NEW p \in Partitions, MarkMerging(p)
      PROVE  Turns \/ Changes \/ Overwrites
  <2>1. active = "target" /\ ~Abandoned
    BY <1>14, MergeThere, MarkMergingEffect DEF Inv, SwitchesTrue, Merge
  <2>2. Stays /\ base' = base
    BY <1>14, Zenon DEF MarkMerging, Stays, meta, disk, boot, power
  <2> QED
    BY <2>1, <2>2, TargetThere
<1>15. CASE AllSwitched
  <2>1. UNCHANGED <<state, boot_ind, status, cow, base, slot, recovery>>
    BY <1>15, Zenon DEF AllSwitched, meta, disk, power, boot
  <2> QED
    BY <2>1, SameSystems DEF Turns
<1>16. ASSUME NEW p \in Partitions, CheckTargetMergeState(p)
      PROVE  Turns \/ Changes \/ Overwrites
  <2>1. active = "target" /\ ~Abandoned
    BY <1>16, MergeThere, CheckTargetMergeStateEffect DEF Inv, PollsTrue, Polling, Merge
  <2>2. Stays /\ base' = base
    BY <1>16, Zenon DEF CheckTargetMergeState, Stays, meta, disk, boot, power
  <2> QED
    BY <2>1, <2>2, TargetThere
<1>17. ASSUME NEW p \in Partitions, CollapseSnapshotDevice(p)
      PROVE  Turns \/ Changes \/ Overwrites
  <2>1. UNCHANGED <<state, boot_ind, status, cow, base, slot, recovery>>
    BY <1>17, Zenon DEF CollapseSnapshotDevice, meta, disk, power, boot
  <2> QED
    BY <2>1, SameSystems DEF Turns
<1>18. ASSUME NEW p \in Partitions, DeleteMergedSnapshot(p)
      PROVE  Turns \/ Changes \/ Overwrites
  <2>1. active = "target" /\ ~Abandoned
    BY <1>18, MergeThere, DeleteMergedSnapshotEffect DEF Inv, PollsTrue, Polling, Merge
  <2>2. Stays /\ base' = base
    BY <1>18, Zenon DEF DeleteMergedSnapshot, Stays, meta, disk, boot, power
  <2> QED
    BY <2>1, <2>2, TargetThere
<1>19. CASE ConcludeMergeState
  <2>1. UNCHANGED <<state, boot_ind, status, cow, base, slot, recovery>>
    BY <1>19, Zenon DEF ConcludeMergeState, meta, disk, power, boot
  <2> QED
    BY <2>1, SameSystems DEF Turns
<1>20. CASE AcknowledgeMergeFailure
  <2>1. UNCHANGED <<state, boot_ind, status, cow, base, slot, recovery>>
    BY <1>20, Zenon DEF AcknowledgeMergeFailure, meta, disk, power, boot
  <2> QED
    BY <2>1, SameSystems DEF Turns
<1>21. CASE DataWipeProcessed
  <2>1. UNCHANGED <<state, boot_ind, status, cow, base, slot, recovery>>
    BY <1>21, Zenon DEF DataWipeProcessed, meta, disk, power, boot
  <2> QED
    BY <2>1, SameSystems DEF Turns
<1>22. CASE WipeData
  <2>1. Shrinks
    BY <1>22, SMT DEF WipeData, Shrinks, meta
  <2>2. Stays /\ UNCHANGED <<state, base>> /\ boot_ind' \in {boot_ind, FALSE}
    BY <1>22, Zenon DEF WipeData, Stays, meta, boot, power, client, Types, FlagsOK
  <2> QED
    BY <2>1, <2>2, TakesAway, Zenon
<1>23. CASE FinishMergeInRecovery
  <2>1. UNCHANGED <<state, boot_ind, status, cow, base, slot, recovery>>
    BY <1>23, Zenon DEF FinishMergeInRecovery, meta, disk, power, boot
  <2> QED
    BY <2>1, SameSystems DEF Turns
<1>24. CASE BeginUpdate
  <2>1. UNCHANGED <<state, boot_ind, status, cow, base, slot, recovery>>
    BY <1>24, Zenon DEF BeginUpdate, meta, disk, power, boot
  <2> QED
    BY <2>1, SameSystems DEF Turns
<1>25. CASE CancelUpdate
  <2>1. UNCHANGED <<state, boot_ind, status, cow, base, slot, recovery>>
    BY <1>25, Zenon DEF CancelUpdate, meta, disk, power, boot
  <2> QED
    BY <2>1, SameSystems DEF Turns
<1>26. CASE CreateUpdateSnapshots
  <2>1. UNCHANGED <<state, boot_ind, status, cow, base, slot, recovery>>
    BY <1>26, Zenon DEF CreateUpdateSnapshots, meta, disk, power, boot
  <2> QED
    BY <2>1, SameSystems DEF Turns
<1>27. ASSUME NEW p \in Partitions, WriteSnapshot(p)
      PROVE  Turns \/ Changes \/ Overwrites
  <2>1. slot = "source" /\ recovery = FALSE
    BY <1>27, Zenon DEF WriteSnapshot, Types, FlagsOK
  <2>2. Stays /\ base' = base
    BY <1>27, Zenon DEF WriteSnapshot, Stays, meta, disk, boot, power
  <2> QED
    BY <2>1, <2>2, OldRuns, SameSystems DEF Changes
<1>28. CASE MapAllSnapshots
  <2>1. UNCHANGED <<state, boot_ind, status, cow, base, slot, recovery>>
    BY <1>28, Zenon DEF MapAllSnapshots, meta, disk, power, boot
  <2> QED
    BY <2>1, SameSystems DEF Turns
<1>29. CASE UnmapAllSnapshots
  <2>1. UNCHANGED <<state, boot_ind, status, cow, base, slot, recovery>>
    BY <1>29, Zenon DEF UnmapAllSnapshots, meta, disk, power, boot
  <2> QED
    BY <2>1, SameSystems DEF Turns
<1>30. ASSUME NEW wipe \in BOOLEAN, FinishedSnapshotWrites(wipe)
      PROVE  Turns \/ Changes \/ Overwrites
  <2>1. UNCHANGED <<state, boot_ind, status, cow, base, slot, recovery>>
    BY <1>30, Zenon DEF FinishedSnapshotWrites, meta, disk, power, boot
  <2> QED
    BY <2>1, SameSystems DEF Turns
<1>31. CASE SetActiveBootSlot
  <2>1. UNCHANGED <<state, boot_ind, status, cow, base, slot, recovery>>
    BY <1>31, Zenon DEF SetActiveBootSlot, meta, disk, power, boot
  <2> QED
    BY <2>1, SameSystems DEF Turns
<1>32. CASE MarkBootSuccessful
  <2>1. UNCHANGED <<state, boot_ind, status, cow, base, slot, recovery>>
    BY <1>32, Zenon DEF MarkBootSuccessful, meta, disk, power, boot
  <2> QED
    BY <2>1, SameSystems DEF Turns
<1>33. CASE InitiateMerge
  <2>1. UNCHANGED <<state, boot_ind, status, cow, base, slot, recovery>>
    BY <1>33, Zenon DEF InitiateMerge, meta, disk, power, boot
  <2> QED
    BY <2>1, SameSystems DEF Turns
<1>34. CASE CheckMergeState
  <2>1. UNCHANGED <<state, boot_ind, status, cow, base, slot, recovery>>
    BY <1>34, Zenon DEF CheckMergeState, meta, disk, power, boot
  <2> QED
    BY <2>1, SameSystems DEF Turns
<1>35. ASSUME NEW p \in Partitions, MergeProgress(p)
      PROVE  Turns \/ Changes \/ Overwrites
  <2>1. Stays /\ dm[p] = "merging" /\ base[p] # "new" /\ state' = state
    BY <1>35, Zenon DEF MergeProgress, Stays, meta, boot, power
  <2>2. Merge
    BY <2>1 DEF Inv, DevicesTrue
  <2>3. SourceComplete' => SourceComplete
    BY <1>35 DEF MergeProgress, SourceComplete, Types, StorageOK
  <2> QED
    BY <2>1, <2>2, <2>3 DEF Overwrites
<1>36. ASSUME NEW p \in Partitions, MergeFails(p)
      PROVE  Turns \/ Changes \/ Overwrites
  <2>1. UNCHANGED <<state, boot_ind, status, cow, base, slot, recovery>>
    BY <1>36, Zenon DEF MergeFails, meta, disk, power, boot
  <2> QED
    BY <2>1, SameSystems DEF Turns
<1>37. CASE Crash
  <2>1. slot' = "off" /\ UNCHANGED <<state, boot_ind, status, cow, base>>
    BY <1>37, Zenon DEF Crash, GoDown, meta, disk
  <2>2. RunningNow' = "none"
    BY <2>1 DEF RunningNow
  <2> QED
    BY <2>1, <2>2, SameSystems DEF Turns
<1>38. CASE Reboot
  <2>1. slot' = "off" /\ UNCHANGED <<state, boot_ind, status, cow, base>>
    BY <1>38, Zenon DEF Reboot, GoDown, meta, disk
  <2>2. RunningNow' = "none"
    BY <2>1 DEF RunningNow
  <2> QED
    BY <2>1, <2>2, SameSystems DEF Turns
<1>39. CASE BootSource
  <2>1. slot = "off" /\ slot' = "source" /\ SourceComplete /\ UNCHANGED <<recovery, state, boot_ind, status, cow, base>>
    BY <1>39, Zenon DEF BootSource, meta, disk
  <2>2. recovery = FALSE
    BY <2>1 DEF Inv, SlotsTrue
  <2>3. RunningNow = "none" /\ RunningNow' = "old"
    BY <2>1, <2>2 DEF RunningNow
  <2> QED
    BY <2>1, <2>3, SameSystems DEF Turns
<1>40. CASE BootTarget
  <2>1. slot = "off" /\ slot' = "target" /\ TargetComplete /\ UNCHANGED <<recovery, state, boot_ind, status, cow, base>>
    BY <1>40, Zenon DEF BootTarget, meta, disk
  <2>2. recovery = FALSE
    BY <2>1 DEF Inv, SlotsTrue
  <2>3. RunningNow = "none" /\ RunningNow' = "new"
    BY <2>1, <2>2 DEF RunningNow
  <2> QED
    BY <2>1, <2>3, SameSystems DEF Turns
<1>41. CASE FallBack
  <2>1. UNCHANGED <<state, boot_ind, status, cow, base, slot, recovery>>
    BY <1>41, Zenon DEF FallBack, meta, disk, power, boot
  <2> QED
    BY <2>1, SameSystems DEF Turns
<1>42. CASE BootRecovery
  <2>1. slot = "off" /\ recovery' = TRUE /\ UNCHANGED <<state, boot_ind, status, cow, base>>
    BY <1>42, Zenon DEF BootRecovery, meta, disk
  <2>2. RunningNow = "none" /\ RunningNow' = "none"
    BY <2>1, Zenon DEF RunningNow
  <2> QED
    BY <2>1, <2>2, SameSystems DEF Turns
<1>43. ASSUME NEW why \in {"wipe", "finish"}, CreateLogicalAndSnapshotPartitions(why)
      PROVE  Turns \/ Changes \/ Overwrites
  <2>1. UNCHANGED <<state, boot_ind, status, cow, base, slot, recovery>>
    BY <1>43, Zenon DEF CreateLogicalAndSnapshotPartitions, meta, disk, power, boot
  <2> QED
    BY <2>1, SameSystems DEF Turns
<1>44. CASE UNCHANGED vars
  <2>1. UNCHANGED <<state, boot_ind, status, cow, base, slot, recovery>>
    BY <1>44, Zenon DEF vars, meta, disk, power, boot
  <2> QED
    BY <2>1, SameSystems DEF Turns
<1> QED
  BY <1>1, <1>2, <1>3, <1>4, <1>5, <1>6, <1>7, <1>8, <1>9, <1>10, <1>11,
     <1>12, <1>13, <1>14, <1>15, <1>16, <1>17, <1>18, <1>19, <1>20, <1>21, <1>22,
     <1>23, <1>24, <1>25, <1>26, <1>27, <1>28, <1>29, <1>30, <1>31, <1>32, <1>33,
     <1>34, <1>35, <1>36, <1>37, <1>38, <1>39, <1>40, <1>41, <1>42, <1>43, <1>44, Zenon
  DEF Next, Steps, BootUp

(* What the invariant makes of these steps: those of AtomicUpdate. *)
LEMMA StepAtomic ==
  ASSUME Inv, Inv', [Next]_vars
  PROVE  [Atomic!AtomicNext]_(Atomic!avars)
<1> DEFINE A == [Atomic!AtomicNext]_(Atomic!avars)
<1>1. /\ BootableNow = {v \in {"old", "new"} : (v = "old" /\ SourceComplete) \/ (v = "new" /\ TargetComplete)}
      /\ BootableNow' = {v \in {"old", "new"} : (v = "old" /\ SourceComplete') \/ (v = "new" /\ TargetComplete')}
  BY DEF BootableNow
<1>2. /\ RunningNow \in {"none", "old", "new"}
      /\ RunningNow = "old" => slot = "source" /\ recovery = FALSE
      /\ RunningNow = "new" => slot = "target" /\ recovery = FALSE
  BY Zenon DEF RunningNow, Inv, Types, FlagsOK, DeviceOK
<1>3. /\ ~SourceComplete => active = "target" /\ slot # "source"
      /\ ~SourceComplete \/ Merge => TargetComplete
      /\ slot = "target" /\ active = "source" => recovery = TRUE
      /\ Merge => active = "target" /\ slot # "source"
      /\ active \in {"source", "target"}
  BY DEF Inv, Committed, TargetIntact, SlotsTrue, MergeGuarded, Types, DeviceOK, Abandoned, Merge
<1>4. /\ ~SourceComplete' \/ Merge' => TargetComplete'
      /\ active' = "target" /\ ~TargetComplete' => SourceComplete' /\ slot' # "source" /\ (slot' = "target" => recovery' = TRUE)
  BY DEF Inv, Committed, TargetIntact, MergeGuarded, Abandoned, Merge
<1>5. CASE Turns
  <2>1. BootableNow' = BootableNow
    BY <1>1, <1>5 DEF Turns
  <2>2. CASE RunningNow' = RunningNow
    BY <2>1, <2>2 DEF Atomic!avars
  <2>3. CASE RunningNow' = "none" /\ RunningNow # "none"
    <3>1. Atomic!Stop
      BY <2>1, <2>3 DEF Atomic!Stop
    <3> QED
      BY <3>1 DEF Atomic!AtomicNext
  <2>4. CASE \E v \in {"old", "new"} : RunningNow = "none" /\ RunningNow' = v /\ v \in BootableNow
    <3>1. \E v \in {"old", "new"} : Atomic!Start(v)
      BY <2>1, <2>4 DEF Atomic!Start
    <3> QED
      BY <3>1 DEF Atomic!AtomicNext
  <2> QED
    BY <1>1, <1>5, <2>2, <2>3, <2>4 DEF Turns
<1>6. CASE Changes
  <2>1. RunningNow' = RunningNow /\ active' = active
    BY <1>6, SameSystems DEF Changes, Stays
  <2>2. CASE TargetComplete' <=> TargetComplete
    <3>1. BootableNow' = BootableNow
      BY <1>1, <1>6, <2>2 DEF Changes
    <3> QED
      BY <2>1, <3>1 DEF Atomic!avars
  <2>3. CASE TargetComplete /\ ~TargetComplete'
    <3>1. SourceComplete /\ SourceComplete'
      BY <1>4, <2>3, <1>6 DEF Changes
    <3>a. RunningNow # "new"
      BY <1>2, <1>3, <1>4, <2>1, <2>3, <1>6 DEF Changes, Stays
    <3>2. BootableNow = {"old", "new"} /\ BootableNow' = {"old"}
      BY <1>1, <2>3, <3>1
    <3>3. Atomic!Abandon
      BY <2>1, <3>a, <3>2 DEF Atomic!Abandon
    <3> QED
      BY <3>3 DEF Atomic!AtomicNext
  <2>4. CASE ~TargetComplete /\ TargetComplete'
    <3>1. SourceComplete /\ SourceComplete' /\ RunningNow = "old"
      BY <1>3, <1>6, <2>4 DEF Changes
    <3>2. BootableNow = {"old"} /\ BootableNow' = {"old", "new"}
      BY <1>1, <2>4, <3>1
    <3>3. Atomic!Prepare
      BY <2>1, <3>1, <3>2 DEF Atomic!Prepare
    <3> QED
      BY <3>3 DEF Atomic!AtomicNext
  <2> QED
    BY <2>2, <2>3, <2>4
<1>7. CASE Overwrites
  <2>1. /\ RunningNow' = RunningNow /\ RunningNow # "old"
        /\ TargetComplete /\ TargetComplete' /\ (SourceComplete' => SourceComplete)
    BY <1>2, <1>3, <1>4, <1>7, SameSystems DEF Overwrites, Stays, Merge
  <2>2. CASE SourceComplete' <=> SourceComplete
    <3>1. BootableNow' = BootableNow
      BY <1>1, <2>1, <2>2
    <3> QED
      BY <2>1, <3>1 DEF Atomic!avars
  <2>3. CASE SourceComplete /\ ~SourceComplete'
    <3>1. BootableNow = {"old", "new"} /\ BootableNow' = {"new"}
      BY <1>1, <2>1, <2>3
    <3>2. Atomic!Commit
      BY <2>1, <3>1 DEF Atomic!Commit
    <3> QED
      BY <3>2 DEF Atomic!AtomicNext
  <2> QED
    BY <2>1, <2>2, <2>3
<1> QED
  BY <1>5, <1>6, <1>7, StepSystems

(***************************************************************************)
(* Virtual A/B updates are atomic for any number of partitions, any driver,  *)
(* any crashes and any failed calls: SnapshotManager implements              *)
(* AtomicUpdate, so there is always a complete system to boot.               *)
(***************************************************************************)
THEOREM UpdateIsAtomic == Spec => IsAtomic
<1>1. Init => Atomic!AtomicInit
  <2>1. SUFFICES ASSUME Init PROVE Atomic!AtomicInit
    OBVIOUS
  <2>2. slot = "source" /\ recovery = FALSE /\ state = "None" /\ base = [p \in Partitions |-> "old"]
    BY <2>1, Zenon DEF Init
  <2>3. SourceComplete /\ ~TargetComplete
    BY <2>2, PartitionsAssumption DEF SourceComplete, TargetComplete, NeedSnapshots
  <2>4. RunningNow = "old"
    BY <2>2, OldRuns
  <2> QED
    BY <2>3, <2>4 DEF Atomic!AtomicInit, BootableNow
<1>2. Spec => Init /\ [][Next]_vars
  BY PTL DEF Spec
<1>3. Inv /\ Inv' /\ [Next]_vars => [Atomic!AtomicNext]_(Atomic!avars)
  BY StepAtomic
<1> QED
  BY <1>1, <1>2, <1>3, Invariance, PTL DEF IsAtomic, Atomic!AtomicSpec

=============================================================================
