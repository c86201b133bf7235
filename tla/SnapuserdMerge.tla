---------------------------- MODULE SnapuserdMerge ----------------------------
(***************************************************************************)
(* snapuserd's SnapshotHandler (fs_mgr/libsnapshot/snapuserd/              *)
(* user-space-merge) for one partition: the read-ahead thread, the merge   *)
(* thread and the read workers, while the daemon or the device may go down *)
(* at any step.  A merge copies blocks within one device, so a block may   *)
(* be overwritten while it is still the source of another: a window of     *)
(* copies is first saved in the scratch space of the COW device.           *)
(* Data: block b holds b at first; XOR differs from COPY only in what it   *)
(* computes from the block it read.                                        *)
(***************************************************************************)
EXTENDS Naturals, FiniteSets, Sequences

CONSTANTS
  Ops,          \* the COW operations in the order of the merge: [new, src]
  Cow,          \* the src of a REPLACE or ZERO operation: data kept in the COW
  WindowSize,   \* operations in one read-ahead window
  BatchSize,    \* REPLACE and ZERO operations merged between two commits
  Readers,      \* the read workers
  Iouring,      \* whether the kernel offers io_uring: a set of BOOLEANs
  FaultSites,   \* where a call may fail
  MaxFaults,    \* bound: calls that fail
  MaxCrashes    \* bound: times the device or the daemon goes down

IsOrderedOp(i) == Ops[i].src # Cow

(***************************************************************************)
(* External: what the writer of the COW guarantees.  Ordered operations    *)
(* come first, no block is written twice, and no operation reads a block   *)
(* that an earlier one wrote.                                              *)
(***************************************************************************)
ASSUME OpsAssumption ==
  /\ Ops \in Seq([new : Nat, src : Nat])
  /\ \A i, j \in DOMAIN Ops : i < j =>
       /\ Ops[i].new # Ops[j].new
       /\ Ops[j].src # Ops[i].new
       /\ IsOrderedOp(j) => IsOrderedOp(i)
ASSUME ReadersAssumption == IsFiniteSet(Readers)
ASSUME SizesAssumption ==
  /\ WindowSize \in Nat \ {0} /\ BatchSize \in Nat \ {0}
  /\ MaxFaults \in Nat /\ MaxCrashes \in Nat
  /\ Iouring \subseteq BOOLEAN

VARIABLES
  base,             \* the contents of the device, as its readers see them
  stored,           \* the same on storage
  head,             \* the mapped page: num_merge_ops, read_ahead_state is Done
  head_stored,
  scratch,          \* the mapped scratch space: operation and data of each slot
  scratch_stored,
  up,               \* the daemon runs
  first,            \* operations merged when it started
  io_state,         \* io_state_
  merge_initiated,  \* merge_initiated_
  resume_merge,     \* resume_merge_
  populate,         \* populate_data_from_cow_
  ra_started,       \* ra_thread_started_
  serving,          \* the read workers: "no", "waiting", "yes" or "over"
  group,            \* merge_blk_state_: the state of each window
  ios,              \* num_ios_in_progress of each window
  map,              \* read_ahead_buffer_map_: the slot of an operation, or 0
  window,           \* total_ra_blocks_merged_
  ra,               \* the read-ahead thread
  mt,               \* the merge thread
  reader,           \* what each read worker does
  crashes,          \* how often the daemon or the device went down
  faults            \* how many calls failed, and which of Marked did

device == <<base, stored>>
cowfile == <<head, head_stored, scratch, scratch_stored>>
handler == <<io_state, merge_initiated, resume_merge, populate, ra_started>>
groups == <<group, ios>>
buffer == <<map, window>>
power == <<up, first, serving, crashes>>
vars == <<device, cowfile, power, handler, groups, buffer, ra, mt, reader, faults>>

Indices == DOMAIN Ops
Blocks == {Ops[i].new : i \in Indices} \cup ({Ops[i].src : i \in Indices} \ {Cow})
Values == Blocks \cup {Cow}
Slots == 1..WindowSize
NoSlot == [op |-> 0, val |-> Cow]

\* What a block must hold after the update.
NewData(b) == IF \E i \in Indices : Ops[i].new = b
              THEN Ops[CHOOSE i \in Indices : Ops[i].new = b].src ELSE b

\* The window of operation i, counted from the first one that was not merged.
Group(i) == (i - first - 1) \div WindowSize + 1

\* The ordered operations the daemon found unmerged when it started.
OrderedOps(n) == {i \in Indices : i > n /\ IsOrderedOp(i)}

\* An iterator at position n stands at an ordered operation.
OrderedAt(n) == n \in Indices /\ IsOrderedOp(n)

IoStates == {"INVALID", "MERGE_READY", "MERGE_BEGIN", "MERGE_FAILED", "MERGE_COMPLETE",
             "IO_TERMINATED", "READ_AHEAD_FAILURE"}

GroupStates == {"PENDING", "RA_READY", "IN_PROGRESS", "COMPLETED", "FAILED"}

RaIdle == [pc |-> "end", next |-> 1, temp |-> << >>, async |-> FALSE, resumed |-> FALSE]
MergeIdle == [pc |-> "end", next |-> 1, idx |-> 1, done |-> 0, async |-> FALSE]
ReaderIdle == [pc |-> "idle", op |-> 0, val |-> Cow]

RaSteps == {"start", "reconstruct", "read", "wait", "copy", "fill", "sync", "mark", "sync_mark",
            "notify", "end"}
MergeSteps == {"begin", "window", "drain", "write", "fsync", "commit", "commit_state", "commit_sync",
               "completed", "notify", "replace", "flush", "check", "end"}
ReaderSteps == {"idle", "source", "base", "release", "release_error", "got", "error"}
Positions == 1..(Len(Ops) + 1)
RaType == [pc : RaSteps, next : Positions, temp : Seq([op : Indices, val : Values]),
           async : BOOLEAN, resumed : BOOLEAN]
MergeType == [pc : MergeSteps, next : Positions, idx : Positions, done : 0..Len(Ops), async : BOOLEAN]
ReaderType == [pc : ReaderSteps, op : Indices \cup {0}, val : Values]

\* The failures that properties tell from the others: of the msync in CommitMerge
\* and of the wait for the read-ahead thread.
Marked == {"commit", "timeout"}

TypeOK ==
  /\ base \in [Blocks -> Values] /\ stored \in [Blocks -> Values]
  /\ {head, head_stored} \subseteq [num : Nat, done : BOOLEAN]
  /\ {scratch, scratch_stored} \subseteq [Slots -> [op : Indices \cup {0}, val : Values]]
  /\ {up, merge_initiated, resume_merge, populate, ra_started} \subseteq BOOLEAN
  /\ first \in Nat
  /\ io_state \in IoStates
  /\ serving \in {"no", "waiting", "yes", "over"}
  /\ group \in [Indices -> GroupStates]
  /\ ios \in [Indices -> 0..Cardinality(Readers)]
  /\ map \in [Indices -> 0..WindowSize]
  /\ window \in 0..WindowSize
  /\ ra \in RaType /\ Len(ra.temp) <= WindowSize
  /\ mt \in MergeType
  /\ reader \in [Readers -> ReaderType]
  /\ crashes \in 0..MaxCrashes /\ faults \in [count : 0..MaxFaults, sites : SUBSET Marked]

Init ==
  /\ base = [b \in Blocks |-> b] /\ stored = base
  /\ head = [num |-> 0, done |-> FALSE] /\ head_stored = head
  /\ scratch = [k \in Slots |-> NoSlot] /\ scratch_stored = scratch
  /\ up = FALSE /\ first = 0
  /\ io_state = "INVALID" /\ merge_initiated = FALSE /\ resume_merge = FALSE
  /\ populate = FALSE /\ ra_started = FALSE /\ serving = "no"
  /\ group = [g \in Indices |-> "PENDING"]
  /\ ios = [g \in Indices |-> 0]
  /\ map = [i \in Indices |-> 0] /\ window = 0
  /\ ra = RaIdle /\ mt = MergeIdle
  /\ reader = [r \in Readers |-> ReaderIdle]
  /\ crashes = 0 /\ faults = [count |-> 0, sites |-> {}]

Fault(site) ==
  /\ site \in FaultSites /\ faults.count < MaxFaults
  /\ faults' = [count |-> faults.count + 1, sites |-> faults.sites \cup ({site} \cap Marked)]

NoFault == UNCHANGED faults

-----------------------------------------------------------------------------
(* Starting, serving and going down. *)

(***************************************************************************)
(* InitCowDevice() with ReadMetadata() and PrepareReadAhead(), then        *)
(* Start(): the read workers wait for the read-ahead thread when it has to *)
(* rebuild its buffer and the header shows merged operations.              *)
(***************************************************************************)
StartHandler ==
  LET ra_thread == OrderedOps(head.num) # {} IN
  /\ ~up /\ head.num <= Len(Ops)
  /\ up' = TRUE
  /\ first' = head.num
  /\ resume_merge' = (head.num > 0)
  /\ populate' = head.done
  /\ io_state' = "MERGE_READY"
  /\ serving' = IF ra_thread /\ resume_merge' /\ populate' THEN "waiting" ELSE "yes"
  /\ \E async \in Iouring :
       /\ ra' = [RaIdle EXCEPT !.pc = IF ra_thread THEN "start" ELSE "end",
                               !.next = head.num + 1, !.async = async, !.resumed = head.done]
       /\ mt' = [MergeIdle EXCEPT !.pc = "begin", !.next = head.num + 1, !.async = async]
  /\ UNCHANGED <<device, cowfile, merge_initiated, ra_started, groups, buffer, reader, crashes, faults>>

(***************************************************************************)
(* WaitForRaThreadToStart(): it gives up after three seconds.  That nobody *)
(* is notified when the flag is set only makes the wait longer.            *)
(***************************************************************************)
WaitForRaThreadToStart ==
  /\ serving = "waiting"
  /\ \/ ra_started /\ NoFault
     \/ ~ra_started /\ ra.pc = "end" /\ NoFault
     \/ ~ra_started /\ Fault("timeout")
  /\ serving' = "yes"
  /\ UNCHANGED <<device, cowfile, up, first, crashes, handler, groups, buffer, ra, mt, reader>>

(***************************************************************************)
(* InitiateMerge(), asked for by libsnapshot once in each boot.  Without a *)
(* read-ahead thread it begins the merge even if I/O is terminated.        *)
(***************************************************************************)
InitiateMerge ==
  /\ up /\ ~merge_initiated
  /\ merge_initiated' = TRUE
  /\ io_state' = IF OrderedOps(first) = {} THEN "MERGE_BEGIN" ELSE io_state
  /\ UNCHANGED <<device, cowfile, power, resume_merge, populate, ra_started, groups, buffer, ra, mt,
                 reader, faults>>

\* The workers end, because of an error or with the device: NotifyIOTerminated().
NotifyIOTerminated ==
  /\ up /\ serving = "yes"
  /\ \A r \in Readers : reader[r].pc \in {"idle", "error"}
  /\ \/ \E r \in Readers : reader[r].pc = "error" /\ NoFault
     \/ Fault("terminate")
  /\ serving' = "over"
  /\ io_state' = "IO_TERMINATED"
  /\ UNCHANGED <<device, cowfile, up, first, crashes, merge_initiated, resume_merge, populate, ra_started,
                 groups, buffer, ra, mt, reader>>

(***************************************************************************)
(* The daemon is gone.  What was not flushed may or may not be on storage, *)
(* block by block and page by page.                                        *)
(***************************************************************************)
Crash ==
  /\ up /\ crashes < MaxCrashes
  /\ crashes' = crashes + 1
  /\ \E kept \in SUBSET {b \in Blocks : base[b] # stored[b]} :
       stored' = [b \in Blocks |-> IF b \in kept THEN base[b] ELSE stored[b]]
  /\ head_stored' \in {head, head_stored}
  /\ \E kept \in SUBSET {k \in Slots : scratch[k] # scratch_stored[k]} :
       scratch_stored' = [k \in Slots |-> IF k \in kept THEN scratch[k] ELSE scratch_stored[k]]
  /\ base' = stored' /\ head' = head_stored' /\ scratch' = scratch_stored'
  /\ up' = FALSE /\ first' = 0
  /\ io_state' = "INVALID" /\ merge_initiated' = FALSE /\ resume_merge' = FALSE
  /\ populate' = FALSE /\ ra_started' = FALSE /\ serving' = "no"
  /\ group' = [g \in Indices |-> "PENDING"]
  /\ ios' = [g \in Indices |-> 0]
  /\ map' = [i \in Indices |-> 0] /\ window' = 0
  /\ ra' = RaIdle /\ mt' = MergeIdle
  /\ reader' = [r \in Readers |-> ReaderIdle]
  /\ UNCHANGED faults

-----------------------------------------------------------------------------
(* The read-ahead thread: RunThread(), ReadAheadIOStart(). *)

MoreToRead == OrderedAt(ra.next)

\* Returning false: the thread ends; failed says whether it tells the merge thread.
ReadAheadFails(failed) ==
  /\ ra' = [ra EXCEPT !.pc = "end"]
  /\ io_state' = IF failed THEN "READ_AHEAD_FAILURE" ELSE io_state

\* RunThread() begins; when its devices cannot be opened it ends without a word.
RaStart ==
  /\ ra.pc = "start"
  /\ \/ ra' = [ra EXCEPT !.pc = IF populate THEN "reconstruct" ELSE "read"] /\ NoFault
     \/ Fault("ra_open") /\ ra' = [ra EXCEPT !.pc = "end"]
  /\ UNCHANGED <<device, cowfile, power, handler, groups, buffer, mt, reader>>

(***************************************************************************)
(* ReconstructDataFromCow(): the map is rebuilt from the scratch space, up *)
(* to the end mark; every operation in it must be among the next to merge. *)
(***************************************************************************)
ReconstructDataFromCow ==
  LET used == {k \in Slots : \A j \in 1..k : scratch[j].op # 0}
      saved == {scratch[k].op : k \in used}
      following == {i \in OrderedOps(ra.next - 1) : \A j \in ra.next..i : j \in saved}
      slotOf(i) == CHOOSE k \in used : scratch[k].op = i
      all == following = saved \/ following = OrderedOps(ra.next - 1) IN
  /\ ra.pc = "reconstruct"
  /\ map' = [i \in Indices |-> IF i \in saved THEN slotOf(i) ELSE 0]
  /\ IF all
     THEN /\ window' = Cardinality(used)
          /\ populate' = FALSE
          /\ ra' = [ra EXCEPT !.pc = "sync",
                              !.next = IF following = {} THEN @ ELSE @ + window']
          /\ UNCHANGED io_state
     ELSE ReadAheadFails(TRUE) /\ UNCHANGED <<window, populate>>
  /\ UNCHANGED <<device, cowfile, power, merge_initiated, resume_merge, ra_started, groups, mt, reader,
                 faults>>

(***************************************************************************)
(* ReadAheadAsyncIO() or ReadAheadSyncIO(): the sources of the next window *)
(* are read into a buffer of the thread, while the merge thread writes the *)
(* window before it.  A failure of the first is retried with the second    *)
(* from the beginning of the window.  (The iterator would be left too far  *)
(* ahead only by an io_uring_get_sqe() that fails; it does not, the ring   *)
(* is submitted when pending_sqe says that it is full.)                    *)
(***************************************************************************)
RaRead ==
  /\ ra.pc = "read"
  /\ \/ /\ MoreToRead /\ Len(ra.temp) < WindowSize
        /\ ra' = [ra EXCEPT !.next = @ + 1,
                            !.temp = Append(@, [op |-> ra.next, val |-> base[Ops[ra.next].src]])]
        /\ NoFault /\ UNCHANGED io_state
     \/ /\ ~MoreToRead \/ Len(ra.temp) = WindowSize
        /\ ra' = [ra EXCEPT !.pc = IF ra.temp = << >> THEN "end" ELSE "wait"]
        /\ NoFault /\ UNCHANGED io_state
     \/ /\ MoreToRead /\ Len(ra.temp) < WindowSize /\ Fault("read")
        /\ IF ra.async
           THEN ra' = [ra EXCEPT !.async = FALSE, !.next = @ - Len(ra.temp), !.temp = << >>]
                /\ UNCHANGED io_state
           ELSE ReadAheadFails(TRUE)
  /\ UNCHANGED <<device, cowfile, power, merge_initiated, resume_merge, populate, ra_started, groups,
                 buffer, mt, reader>>

\* Mutant: the read-ahead thread looks only at what it waits for.
WaitForMergeReadyOnly ==
  /\ ra.pc = "wait" /\ io_state = "MERGE_READY"
  /\ ra' = [ra EXCEPT !.pc = "copy"]
  /\ UNCHANGED <<device, cowfile, power, handler, groups, buffer, mt, reader, faults>>

WaitForMergeReady ==
  /\ ra.pc = "wait"
  /\ \/ io_state = "MERGE_READY" /\ ra' = [ra EXCEPT !.pc = "copy"]
     \/ io_state \in {"MERGE_FAILED", "MERGE_COMPLETE", "IO_TERMINATED"} /\ ra' = [ra EXCEPT !.pc = "end"]
  /\ UNCHANGED <<device, cowfile, power, handler, groups, buffer, mt, reader, faults>>

\* The data are copied to the scratch space and the map is cleared, then filled.
CopyToScratch ==
  /\ ra.pc = "copy"
  /\ scratch' = [k \in Slots |-> IF k <= Len(ra.temp) THEN ra.temp[k] ELSE NoSlot]
  /\ map' = [i \in Indices |-> 0]
  /\ ra' = [ra EXCEPT !.pc = "fill"]
  /\ UNCHANGED <<device, head, head_stored, scratch_stored, power, handler, groups, window, mt, reader,
                 faults>>

FillMap ==
  /\ ra.pc = "fill"
  /\ map' = [i \in Indices |->
               IF \E k \in Slots : scratch[k].op = i THEN CHOOSE k \in Slots : scratch[k].op = i ELSE 0]
  /\ window' = Len(ra.temp)
  /\ ra' = [ra EXCEPT !.pc = "sync", !.temp = << >>]
  /\ UNCHANGED <<device, cowfile, power, handler, groups, mt, reader, faults>>

(***************************************************************************)
(* ReadAheadIOCompleted(): data first, then the state that vouches for     *)
(* them, then the merge thread may go on.                                  *)
(***************************************************************************)
SyncScratch ==
  /\ ra.pc = "sync"
  /\ \/ /\ head_stored' = head /\ scratch_stored' = scratch
        /\ ra' = [ra EXCEPT !.pc = "mark"] /\ NoFault /\ UNCHANGED io_state
     \/ Fault("ra_msync") /\ ReadAheadFails(TRUE) /\ UNCHANGED <<head_stored, scratch_stored>>
  /\ UNCHANGED <<device, head, scratch, power, merge_initiated, resume_merge, populate, ra_started,
                 groups, buffer, mt, reader>>

MarkDone ==
  /\ ra.pc = "mark"
  /\ head' = [head EXCEPT !.done = TRUE]
  /\ ra' = [ra EXCEPT !.pc = "sync_mark"]
  /\ UNCHANGED <<device, head_stored, scratch, scratch_stored, power, handler, groups, buffer, mt, reader,
                 faults>>

SyncMark ==
  /\ ra.pc = "sync_mark"
  /\ \/ head_stored' = head /\ ra' = [ra EXCEPT !.pc = "notify"] /\ NoFault /\ UNCHANGED io_state
     \/ Fault("ra_msync") /\ ReadAheadFails(TRUE) /\ UNCHANGED head_stored
  /\ UNCHANGED <<device, head, scratch, scratch_stored, power, merge_initiated, resume_merge, populate,
                 ra_started, groups, buffer, mt, reader>>

\* The end of ReadAheadIOCompleted(); a rebuilt window also lets the workers start.
NotifyMergeBegin ==
  /\ ra.pc = "notify"
  /\ io_state' = IF io_state \in {"IO_TERMINATED", "MERGE_FAILED"} THEN io_state ELSE "MERGE_BEGIN"
  /\ ra_started' = (ra_started \/ ra.resumed)
  /\ ra' = [ra EXCEPT !.pc = IF MoreToRead THEN "read" ELSE "end"]
  /\ UNCHANGED <<device, cowfile, power, merge_initiated, resume_merge, populate, groups, buffer, mt,
                 reader, faults>>

ReadAhead ==
  \/ RaStart \/ ReconstructDataFromCow \/ RaRead \/ WaitForMergeReady \/ CopyToScratch \/ FillMap
  \/ SyncScratch \/ MarkDone \/ SyncMark \/ NotifyMergeBegin

-----------------------------------------------------------------------------
(* The merge thread: Run(), Merge(). *)

IsMergeBeginError == io_state \in {"READ_AHEAD_FAILURE", "IO_TERMINATED"}

MergeBegins == merge_initiated /\ io_state = "MERGE_BEGIN"

(***************************************************************************)
(* Run(), launched after the wait for the read-ahead thread: an error in   *)
(* WaitForMergeBegin() ends the thread without a word; when Init() cannot  *)
(* open the devices, MergeFailed().                                        *)
(***************************************************************************)
MergeBegin ==
  /\ mt.pc = "begin" /\ serving # "waiting"
  /\ \/ /\ IsMergeBeginError
        /\ mt' = [mt EXCEPT !.pc = "end"] /\ NoFault /\ UNCHANGED io_state
     \/ /\ MergeBegins
        /\ mt' = [mt EXCEPT !.pc = "window"] /\ NoFault /\ UNCHANGED io_state
     \/ /\ MergeBegins /\ Fault("merge_open")
        /\ mt' = [mt EXCEPT !.pc = "end"] /\ io_state' = "MERGE_FAILED"
  /\ UNCHANGED <<device, cowfile, power, merge_initiated, resume_merge, populate, ra_started, groups,
                 buffer, ra, reader>>

(***************************************************************************)
(* A step of MergeOrderedOpsAsync() fails: AsyncMerge() goes back to the   *)
(* beginning of the window and MergeOrderedOps() merges it again.  A step  *)
(* of the latter fails: SetMergeFailed() and MergeFailed().                *)
(***************************************************************************)
OrderedMergeFails ==
  IF mt.async
  THEN /\ mt' = [mt EXCEPT !.async = FALSE, !.pc = "window", !.next = @ - mt.done, !.done = 0]
       /\ UNCHANGED <<io_state, group>>
  ELSE /\ mt' = [mt EXCEPT !.pc = "end"]
       /\ io_state' = "MERGE_FAILED"
       /\ group' = [group EXCEPT ![mt.idx] = "FAILED"]

\* Mutant: the window is merged although reads of its sources are under way.
SetMergeInProgressAtOnce ==
  /\ mt.pc = "window"
  /\ OrderedAt(mt.next)
  /\ ~IsMergeBeginError /\ MergeBegins
  /\ group' = [group EXCEPT ![mt.idx] = "IN_PROGRESS"]
  /\ mt' = [mt EXCEPT !.pc = "write", !.done = 0]
  /\ UNCHANGED <<device, cowfile, power, handler, ios, buffer, ra, reader, faults>>

\* WaitForMergeBegin(), and the first half of SetMergeInProgress().
MergeWindow ==
  /\ mt.pc = "window"
  /\ OrderedAt(mt.next)
  /\ \/ /\ IsMergeBeginError
        /\ mt' = [mt EXCEPT !.pc = "end"]
        /\ io_state' = "MERGE_FAILED"
        /\ group' = [group EXCEPT ![mt.idx] = "FAILED"]
     \/ /\ ~IsMergeBeginError /\ MergeBegins
        /\ IF group[mt.idx] = "IN_PROGRESS"
           THEN mt' = [mt EXCEPT !.pc = "write", !.done = 0] /\ UNCHANGED group
           ELSE mt' = [mt EXCEPT !.pc = "drain"] /\ group' = [group EXCEPT ![mt.idx] = "RA_READY"]
        /\ UNCHANGED io_state
  /\ UNCHANGED <<device, cowfile, power, merge_initiated, resume_merge, populate, ra_started, ios, buffer,
                 ra, reader, faults>>

\* The second half: reads of the sources are waited for.
SetMergeInProgress ==
  /\ mt.pc = "drain" /\ ios[mt.idx] = 0
  /\ group' = [group EXCEPT ![mt.idx] = "IN_PROGRESS"]
  /\ mt' = [mt EXCEPT !.pc = "write", !.done = 0]
  /\ UNCHANGED <<device, cowfile, power, handler, ios, buffer, ra, reader, faults>>

MergeWrite ==
  /\ mt.pc = "write"
  /\ \/ /\ mt.done < window
        /\ base' = [base EXCEPT ![Ops[mt.next].new] = scratch[mt.done + 1].val]
        /\ mt' = [mt EXCEPT !.next = @ + 1, !.done = @ + 1]
        /\ NoFault /\ UNCHANGED <<io_state, group>>
     \/ /\ mt.done = window
        /\ mt' = [mt EXCEPT !.pc = "fsync"]
        /\ NoFault /\ UNCHANGED <<base, io_state, group>>
     \/ mt.done < window /\ Fault("write") /\ OrderedMergeFails /\ UNCHANGED base
  /\ UNCHANGED <<stored, cowfile, power, merge_initiated, resume_merge, populate, ra_started, ios, buffer,
                 ra, reader>>

\* Mutant: the merged data are not flushed before the header counts them.
MergeFsyncSkipped ==
  /\ mt.pc = "fsync"
  /\ mt' = [mt EXCEPT !.pc = "commit"]
  /\ UNCHANGED <<device, cowfile, power, handler, groups, buffer, ra, reader, faults>>

MergeFsync ==
  /\ mt.pc = "fsync"
  /\ \/ stored' = base /\ mt' = [mt EXCEPT !.pc = "commit"] /\ NoFault /\ UNCHANGED <<io_state, group>>
     \/ Fault("write") /\ OrderedMergeFails /\ UNCHANGED stored
  /\ UNCHANGED <<base, cowfile, power, merge_initiated, resume_merge, populate, ra_started, ios, buffer,
                 ra, reader>>

(***************************************************************************)
(* CommitMerge(): two stores to the mapped page, then its msync().         *)
(***************************************************************************)
CommitCount ==
  /\ mt.pc = "commit"
  /\ head' = [head EXCEPT !.num = @ + mt.done]
  /\ mt' = [mt EXCEPT !.pc = "commit_state"]
  /\ UNCHANGED <<device, head_stored, scratch, scratch_stored, power, handler, groups, buffer, ra, reader,
                 faults>>

CommitState ==
  /\ mt.pc = "commit_state"
  /\ head' = [head EXCEPT !.done = @ /\ OrderedOps(first) = {}]
  /\ mt' = [mt EXCEPT !.pc = "commit_sync"]
  /\ UNCHANGED <<device, head_stored, scratch, scratch_stored, power, handler, groups, buffer, ra, reader,
                 faults>>

\* A step of MergeReplaceZeroOps() fails: MergeFailed().
ReplaceFails ==
  /\ mt' = [mt EXCEPT !.pc = "end"]
  /\ io_state' = "MERGE_FAILED"

CommitSync ==
  LET ordered == IsOrderedOp(mt.next - 1) IN
  /\ mt.pc = "commit_sync"
  /\ \/ /\ head_stored' = head
        /\ mt' = [mt EXCEPT !.done = 0, !.pc = IF ordered THEN "completed"
                                               ELSE IF mt.done = BatchSize THEN "check" ELSE "replace"]
        /\ NoFault /\ UNCHANGED <<io_state, group>>
     \/ /\ Fault("commit") /\ UNCHANGED head_stored
        /\ IF ordered
           THEN OrderedMergeFails
           ELSE ReplaceFails /\ UNCHANGED group
  /\ UNCHANGED <<device, head, scratch, scratch_stored, power, merge_initiated, resume_merge, populate,
                 ra_started, ios, buffer, ra, reader>>

\* Mutant: a merged window is not marked completed.
SetMergeCompletedForgotten ==
  /\ mt.pc = "completed"
  /\ mt' = [mt EXCEPT !.pc = "notify"]
  /\ UNCHANGED <<device, cowfile, power, handler, groups, buffer, ra, reader, faults>>

SetMergeCompleted ==
  /\ mt.pc = "completed"
  /\ group' = [group EXCEPT ![mt.idx] = "COMPLETED"]
  /\ mt' = [mt EXCEPT !.pc = "notify"]
  /\ UNCHANGED <<device, cowfile, power, handler, ios, buffer, ra, reader, faults>>

\* Mutant: the read-ahead thread is not told that the scratch space is free.
NotifyNobody ==
  /\ mt.pc = "notify"
  /\ mt' = [mt EXCEPT !.pc = "window", !.idx = @ + 1]
  /\ UNCHANGED <<device, cowfile, power, handler, groups, buffer, ra, reader, faults>>

NotifyRAForMergeReady ==
  /\ mt.pc = "notify"
  /\ io_state' = IF IsMergeBeginError THEN io_state ELSE "MERGE_READY"
  /\ mt' = [mt EXCEPT !.pc = "window", !.idx = @ + 1]
  /\ UNCHANGED <<device, cowfile, power, merge_initiated, resume_merge, populate, ra_started, groups, buffer,
                 ra, reader, faults>>

\* No ordered operation is left.
MergeOrderedOver ==
  /\ mt.pc = "window"
  /\ ~OrderedAt(mt.next)
  /\ mt' = [mt EXCEPT !.pc = "replace", !.done = 0]
  /\ UNCHANGED <<device, cowfile, power, handler, groups, buffer, ra, reader, faults>>

(***************************************************************************)
(* MergeReplaceZeroOps(): they depend on nothing, and are flushed and      *)
(* counted in batches; at the end MergeCompleted().                        *)
(***************************************************************************)
MergeReplaceZeroOps ==
  /\ mt.pc = "replace"
  /\ \/ /\ mt.next <= Len(Ops)
        /\ base' = [base EXCEPT ![Ops[mt.next].new] = Cow]
        /\ mt' = [mt EXCEPT !.next = @ + 1, !.done = @ + 1,
                            !.pc = IF mt.done + 1 = BatchSize THEN "flush" ELSE "check"]
        /\ NoFault /\ UNCHANGED io_state
     \/ /\ mt.next > Len(Ops) /\ mt.done > 0
        /\ mt' = [mt EXCEPT !.pc = "flush"]
        /\ NoFault /\ UNCHANGED <<base, io_state>>
     \/ /\ mt.next > Len(Ops) /\ mt.done = 0
        /\ mt' = [mt EXCEPT !.pc = "end"] /\ io_state' = "MERGE_COMPLETE"
        /\ NoFault /\ UNCHANGED base
     \/ mt.next <= Len(Ops) /\ Fault("write") /\ ReplaceFails /\ UNCHANGED base
  /\ UNCHANGED <<stored, cowfile, power, merge_initiated, resume_merge, populate, ra_started, groups, buffer,
                 ra, reader>>

\* The batch is flushed; after a full one, or a single write, the state is looked at.
ReplaceFlush ==
  /\ mt.pc = "flush"
  /\ \/ stored' = base /\ mt' = [mt EXCEPT !.pc = "commit"] /\ NoFault /\ UNCHANGED io_state
     \/ Fault("write") /\ ReplaceFails /\ UNCHANGED stored
  /\ UNCHANGED <<base, cowfile, power, merge_initiated, resume_merge, populate, ra_started, groups, buffer,
                 ra, reader>>

ReplaceCheck ==
  /\ mt.pc = "check"
  /\ IF io_state = "IO_TERMINATED" THEN ReplaceFails
     ELSE mt' = [mt EXCEPT !.pc = "replace"] /\ UNCHANGED io_state
  /\ UNCHANGED <<device, cowfile, power, merge_initiated, resume_merge, populate, ra_started, groups, buffer,
                 ra, reader, faults>>

Merge ==
  \/ MergeBegin \/ MergeWindow \/ SetMergeInProgress \/ MergeWrite \/ MergeFsync
  \/ CommitCount \/ CommitState \/ CommitSync \/ SetMergeCompleted \/ NotifyRAForMergeReady
  \/ MergeOrderedOver \/ MergeReplaceZeroOps \/ ReplaceFlush \/ ReplaceCheck

-----------------------------------------------------------------------------
(* The read workers: ProcessOrderedOp(). *)

(***************************************************************************)
(* ProcessMergingBlock() for the block of operation i, under the lock of   *)
(* its window.  The map is not under that lock: while the read-ahead       *)
(* thread fills it, a look may or may not find the block.                  *)
(***************************************************************************)
Found(r, i, k) == reader' = [reader EXCEPT ![r] = [pc |-> "got", op |-> i, val |-> scratch[k].val]]

GetRABuffer(i) ==
  (IF map[i] # 0 THEN {map[i]} ELSE {}) \cup
  (IF ra.pc = "fill" THEN {k \in Slots : scratch[k].op = i} ELSE {})

\* Mutant: a resumed merge does not look into the buffer.
ProcessMergingBlockNoResume(r, i) ==
  /\ serving = "yes" /\ reader[r].pc = "idle" /\ group[Group(i)] = "PENDING"
  /\ ios' = [ios EXCEPT ![Group(i)] = @ + 1]
  /\ reader' = [reader EXCEPT ![r] = [pc |-> "source", op |-> i, val |-> Cow]]
  /\ UNCHANGED <<device, cowfile, power, handler, group, buffer, ra, mt, faults>>

ProcessMergingBlock(r, i) ==
  LET g == Group(i)
      goes(pc) == reader' = [reader EXCEPT ![r] = [pc |-> pc, op |-> i, val |-> Cow]] IN
  /\ serving = "yes" /\ reader[r].pc = "idle"
  /\ \/ /\ group[g] = "PENDING" /\ resume_merge
        /\ \E k \in GetRABuffer(i) : Found(r, i, k)
        /\ UNCHANGED ios
     \/ /\ group[g] = "PENDING"
        /\ ~resume_merge \/ map[i] = 0
        /\ ios' = [ios EXCEPT ![g] = @ + 1] /\ goes("source")
     \/ group[g] = "COMPLETED" /\ goes("base") /\ UNCHANGED ios
     \/ group[g] = "FAILED" /\ goes("error") /\ UNCHANGED ios
     \/ /\ group[g] \in {"RA_READY", "IN_PROGRESS"}
        /\ IF map[i] # 0 THEN Found(r, i, map[i]) ELSE goes("error")
        /\ UNCHANGED ios
  /\ UNCHANGED <<device, cowfile, power, handler, group, buffer, ra, mt, faults>>

\* Mutant: a read of the base device is counted off its window too.
ReadFromDeviceCounted(r) ==
  /\ reader[r].pc \in {"source", "base"}
  /\ reader' = [reader EXCEPT ![r].pc = "release",
                              ![r].val = base[Ops[reader[r].op].src]]
  /\ UNCHANGED <<device, cowfile, power, handler, groups, buffer, ra, mt, faults>>

\* ReadFromSourceDevice(), or ReadDataFromBaseDevice() after the merge.
ReadFromDevice(r) ==
  LET i == reader[r].op IN
  /\ reader[r].pc \in {"source", "base"}
  /\ \/ /\ reader' = [reader EXCEPT ![r].pc = IF @ = "source" THEN "release" ELSE "got",
                                    ![r].val = base[IF reader[r].pc = "source" THEN Ops[i].src ELSE Ops[i].new]]
        /\ NoFault
     \/ Fault("read") /\ reader' = [reader EXCEPT ![r].pc = IF @ = "source" THEN "release_error" ELSE "error"]
  /\ UNCHANGED <<device, cowfile, power, handler, groups, buffer, ra, mt>>

NotifyIOCompletion(r) ==
  /\ reader[r].pc \in {"release", "release_error"}
  /\ ios' = [ios EXCEPT ![Group(reader[r].op)] = @ - 1]
  /\ reader' = [reader EXCEPT ![r].pc = IF @ = "release" THEN "got" ELSE "error"]
  /\ UNCHANGED <<device, cowfile, power, handler, group, buffer, ra, mt, faults>>

\* The answer is sent; a worker that had an error serves no more.
Answer(r) ==
  /\ reader[r].pc = "got"
  /\ reader' = [reader EXCEPT ![r] = ReaderIdle]
  /\ UNCHANGED <<device, cowfile, power, handler, groups, buffer, ra, mt, faults>>

Serve(r) == ReadFromDevice(r) \/ NotifyIOCompletion(r) \/ Answer(r)

-----------------------------------------------------------------------------
Next ==
  \/ StartHandler \/ WaitForRaThreadToStart \/ InitiateMerge \/ NotifyIOTerminated \/ Crash
  \/ ReadAhead \/ Merge
  \/ \E r \in Readers : Serve(r) \/ \E i \in OrderedOps(first) : ProcessMergingBlock(r, i)

(***************************************************************************)
(* Fairness: the threads run; the daemon is started and asked to merge.    *)
(***************************************************************************)
Spec ==
  /\ Init /\ [][Next]_vars
  /\ WF_vars(StartHandler) /\ WF_vars(WaitForRaThreadToStart) /\ WF_vars(InitiateMerge)
  /\ WF_vars(ReadAhead) /\ WF_vars(Merge)
  /\ \A r \in Readers : WF_vars(Serve(r))

-----------------------------------------------------------------------------
(* Properties. *)

(***************************************************************************)
(* A block that is read while the merge goes on, or before it is resumed   *)
(* after a crash, has its new contents: ProcessMergingBlock chooses among  *)
(* source, buffer and base device.                                         *)
(***************************************************************************)
ReadsNew == \A r \in Readers : reader[r].pc = "got" => reader[r].val = Ops[reader[r].op].src

(***************************************************************************)
(* The same, as far as the code provides for it.  After a crash within a   *)
(* window three cases are left out: in the very first window resume_merge_ *)
(* is not set; a read-ahead thread that cannot rebuild the buffer ends;    *)
(* and one that is slow is waited for three seconds and no longer.         *)
(***************************************************************************)
ReadsNewWhenResumed ==
  (ra.resumed => resume_merge /\ ra_started) /\ "timeout" \notin faults.sites => ReadsNew

(***************************************************************************)
(* Whenever the daemon is down, what it left on storage suffices to finish *)
(* the update: the operations the header counts are merged, those in a     *)
(* valid scratch space have their data there, and the sources of the       *)
(* others are untouched (CommitMerge, ReadAheadIOCompleted).  Left out is  *)
(* what follows a commit whose msync failed: the count it added stays in   *)
(* the page, and the fallback to synchronous I/O adds to it again.         *)
(***************************************************************************)
CrashKeepsNewData ==
  ~up /\ "commit" \notin faults.sites => \A i \in Indices :
    /\ i <= head.num => base[Ops[i].new] = Ops[i].src
    /\ i > head.num /\ IsOrderedOp(i) =>
         IF head.done /\ \E k \in Slots : scratch[k].op = i
         THEN \A k \in Slots : scratch[k].op = i => scratch[k].val = Ops[i].src
         ELSE base[Ops[i].src] = Ops[i].src

(***************************************************************************)
(* The CHECKs of SetMergeInProgress and SetMergeCompleted hold: a window   *)
(* is pending or in progress when its merge begins, and nobody reads its   *)
(* sources while it is merged.                                             *)
(***************************************************************************)
ChecksHold ==
  /\ mt.pc = "window" /\ OrderedAt(mt.next) => group[mt.idx] \in {"PENDING", "IN_PROGRESS"}
  /\ mt.pc = "completed" => group[mt.idx] = "IN_PROGRESS" /\ ios[mt.idx] = 0

(***************************************************************************)
(* A read fails only because a call failed: a window that is about to be   *)
(* merged or being merged is in the buffer (GROUP_INVALID never happens).  *)
(***************************************************************************)
ReadsSucceed == (\E r \in Readers : reader[r].pc = "error") => faults.count > 0

(***************************************************************************)
(* The page with num_merge_ops and the read-ahead state went to storage    *)
(* between the two stores of CommitMerge, and the device went down.        *)
(***************************************************************************)
TornHeader == head.done /\ \E k \in Slots : scratch[k].op \in 1..head.num

Merged == head_stored.num = Len(Ops) /\ stored = [b \in Blocks |-> NewData(b)]

(***************************************************************************)
(* Unless a call fails, the merge is finished after any crashes, except    *)
(* after one that tore the header.                                         *)
(***************************************************************************)
MergeFinishes == <>(Merged \/ faults.count > 0 \/ (~up /\ TornHeader))

(***************************************************************************)
(* Once the workers are gone both threads end, whatever else went wrong:   *)
(* Start() joins them, and the deletion of the device waits for it.        *)
(***************************************************************************)
ThreadsEnd == (serving = "over") ~> (~up \/ (ra.pc = "end" /\ mt.pc = "end"))

=============================================================================
