------------------------- MODULE SnapuserdMergeInvariant ------------------------
(***************************************************************************)
(* Proofs about SnapuserdMerge, for every COW, window size, number of      *)
(* workers, of crashes and of failing calls.  First part: the inductive    *)
(* invariant, and the steps of all but the merge thread.                   *)
(***************************************************************************)
EXTENDS SnapuserdMerge, FiniteSetTheorems, TLAPS

-----------------------------------------------------------------------------
(* Windows. *)

\* The first operation of the window, or of the batch, that is being merged.
MtStart == mt.next - mt.done

\* How many windows of this session are merged.
WindowsDone == IF mt.pc \in {"completed", "notify"} THEN mt.idx ELSE mt.idx - 1

\* Every ordered operation of the window that begins at a is among the first n.
Covers(n, a) == \A i \in Indices : IsOrderedOp(i) /\ i < a + WindowSize => i <= n

\* The w operations from a on are a window: a full one, or the last one.
IsWindow(a, w) ==
  /\ w \in 1..WindowSize /\ a \in Indices
  /\ OrderedAt(a + w - 1)
  /\ w = WindowSize \/ ~OrderedAt(a + w)

\* They are what the scratch space holds.
Saved(a, w) == \A k \in Slots : scratch[k].op = IF k <= w THEN a + k - 1 ELSE 0

\* They are found in the read-ahead buffer.
Mapped(a, w) == \A i \in Indices : a <= i /\ i < a + w => map[i] # 0

\* The source of operation i has not been overwritten.
Intact(i) == base[Ops[i].src] = Ops[i].src /\ stored[Ops[i].src] = Ops[i].src

\* A header that counts the operations before a, or at least a whole window more.
Counts(h, a) == h.num = a - 1 \/ Covers(h.num, a)

\* The merge thread works at a window of ordered operations, or at a batch of others.
AtWindow ==
  /\ mt.pc \in {"drain", "write", "fsync", "commit", "commit_state", "commit_sync"}
  /\ OrderedAt(MtStart)
AtBatch ==
  \/ mt.pc \in {"replace", "flush", "check"}
  \/ mt.pc \in {"commit", "commit_state", "commit_sync"} /\ ~OrderedAt(MtStart)

\* It goes back to a window after a failure of io_uring.
Redoes == mt.pc = "window" /\ \E g \in Indices : g = mt.idx /\ group[g] = "IN_PROGRESS"

\* The read-ahead thread owns the scratch space.
RaOwns == ra.pc \in {"start", "reconstruct", "copy", "fill", "sync", "mark", "sync_mark", "notify"}

\* The first operation the read-ahead thread has not handed over.
RaBegin == ra.next - Len(ra.temp)

\* The workers whose reads of the sources of window g are counted.
Counted(g) == {r \in Readers : /\ reader[r].pc \in {"source", "release", "release_error"}
                               /\ Group(reader[r].op) = g}

(* What the failures of several steps have in common: the read-ahead thread gives up; the *)
(* merge thread goes back to the beginning of its window, or fails in it or in a batch;   *)
(* or it cannot open its devices.                                                         *)
RaGivesUp(site) ==
  /\ Fault(site) /\ ra.pc # "end" /\ ra' = [ra EXCEPT !.pc = "end"]
  /\ io_state' = io_state \/ io_state' = "READ_AHEAD_FAILURE"
  /\ UNCHANGED <<device, cowfile, power, merge_initiated, resume_merge, populate, ra_started, groups,
                 buffer, mt, reader>>
WindowRedone(site) ==
  /\ Fault(site) /\ OrderedAt(MtStart) /\ mt.pc \in {"write", "fsync", "commit_sync"}
  /\ mt.pc = "commit_sync" => site = "commit"
  /\ mt' = [mt EXCEPT !.async = FALSE, !.pc = "window", !.next = @ - mt.done, !.done = 0]
  /\ UNCHANGED <<device, cowfile, power, handler, groups, buffer, ra, reader>>
WindowFails(site) ==
  /\ Fault(site) /\ OrderedAt(MtStart) /\ mt.pc \in {"write", "fsync", "commit_sync"}
  /\ mt.pc = "commit_sync" => site = "commit"
  /\ mt' = [mt EXCEPT !.pc = "end"] /\ io_state' = "MERGE_FAILED"
  /\ group' = [group EXCEPT ![mt.idx] = "FAILED"]
  /\ UNCHANGED <<device, cowfile, power, merge_initiated, resume_merge, populate, ra_started, ios,
                 buffer, ra, reader>>
BatchFails(site) ==
  /\ Fault(site) /\ ~OrderedAt(MtStart) /\ mt.pc \in {"replace", "flush", "commit_sync"}
  /\ mt.pc = "commit_sync" => site = "commit"
  /\ mt' = [mt EXCEPT !.pc = "end"] /\ io_state' = "MERGE_FAILED"
  /\ UNCHANGED <<device, cowfile, power, merge_initiated, resume_merge, populate, ra_started, groups,
                 buffer, ra, reader>>
NotOpened ==
  /\ Fault("merge_open") /\ mt.pc = "begin" /\ MergeBegins
  /\ mt' = [mt EXCEPT !.pc = "end"] /\ io_state' = "MERGE_FAILED"
  /\ UNCHANGED <<device, cowfile, power, merge_initiated, resume_merge, populate, ra_started, groups,
                 buffer, ra, reader>>

(* The map is rebuilt: the scratch space holds the window that comes next; or it does not. *)
Rebuilt ==
  /\ ra.pc = "reconstruct" /\ ra' = [ra EXCEPT !.pc = "sync", !.next = ra.next + window']
  /\ populate' = FALSE /\ IsWindow(mt.next, window') /\ Saved(mt.next, window')
  /\ map' = [i \in Indices |-> IF mt.next <= i /\ i < mt.next + window' THEN i - mt.next + 1 ELSE 0]
  /\ UNCHANGED <<device, cowfile, power, io_state, merge_initiated, resume_merge, ra_started, groups, mt,
                 reader, faults>>
NotRebuilt ==
  /\ ra.pc = "reconstruct" /\ ra' = [ra EXCEPT !.pc = "end"] /\ io_state' = "READ_AHEAD_FAILURE"
  /\ map' \in [Indices -> 0..WindowSize] /\ \A i \in Indices : map'[i] # 0 => scratch[map'[i]].op = i
  /\ UNCHANGED <<device, cowfile, power, merge_initiated, resume_merge, populate, ra_started, groups,
                 window, mt, reader, faults>>

-----------------------------------------------------------------------------
(* The inductive invariant, first part: whose turn it is. *)

\* The window at MtStart is saved, mapped and vouched for.
Loaded ==
  /\ IsWindow(MtStart, window) /\ Saved(MtStart, window) /\ Mapped(MtStart, window)
  /\ ra.pc \in {"read", "wait", "end"}
  /\ ra.pc # "end" => RaBegin = MtStart + window
  /\ \A h \in {head, head_stored} : (h.num = MtStart - 1 /\ h.done) \/ Covers(h.num, MtStart)

\* While the merge thread works at a window, or may begin to, the window is loaded.
WindowLoaded ==
  AtWindow \/ (io_state = "MERGE_BEGIN" /\ mt.pc \in {"begin", "window"} /\ OrderedAt(mt.next))
    => Loaded

\* Nobody tells the read-ahead thread that the scratch space is free before it is.
MergeBusy ==
  AtWindow \/ mt.pc \in {"completed", "notify"} \/ Redoes
    => io_state \notin {"MERGE_READY", "MERGE_FAILED", "MERGE_COMPLETE"}

\* After a window the header counts it and vouches for nothing.
WindowMerged ==
  mt.pc \in {"completed", "notify"} =>
    /\ ra.pc \in {"read", "wait", "end"}
    /\ ra.pc # "end" => RaBegin = mt.next
    /\ ~head.done /\ head_stored = head /\ Counts(head, mt.next)

\* How much of a window or a batch is merged.
DoneTrue ==
  /\ AtWindow => mt.done <= window
  /\ AtWindow /\ mt.pc \in {"fsync", "commit", "commit_state", "commit_sync"} => mt.done = window
  /\ mt.pc \in {"commit_state", "commit_sync"} => Counts(head, mt.next)
  /\ AtWindow /\ mt.pc = "commit_sync" => ~head.done
  /\ mt.pc \in {"begin", "window", "drain", "completed", "notify"} => mt.done = 0
  /\ mt.pc \in {"flush", "commit", "commit_state", "commit_sync"} => mt.done > 0
  /\ mt.done < mt.next
  /\ mt.pc \in {"drain", "write", "fsync"} => AtWindow

\* While the read-ahead thread owns the scratch space the merge thread waits or has ended.
RaAlone ==
  RaOwns =>
    /\ mt.pc \in {"begin", "window", "end"} /\ mt.done = 0 /\ ~Redoes
    /\ io_state # "MERGE_BEGIN"
    /\ head.num = head_stored.num /\ Counts(head, mt.next)
    /\ OrderedAt(mt.next)

\* It may take the scratch space only when the merge thread is done with it.
RaMayTake ==
  io_state = "MERGE_READY" /\ ra.pc \in {"read", "wait"} =>
    /\ mt.pc \in {"begin", "window"} /\ ~Redoes
    /\ RaBegin = mt.next
    /\ ~head.done /\ head_stored = head /\ Counts(head, mt.next)

\* At first it has only what the header says.
RaBegins ==
  /\ ra.pc \in {"start", "reconstruct"} =>
       /\ mt.pc \in {"begin", "end"}
       /\ ra.next = first + 1 /\ mt.next = first + 1 /\ mt.idx = 1
       /\ populate = head.done /\ ra.resumed = head.done
       /\ head_stored = head /\ first = head.num
       /\ ra_started = FALSE
  /\ ra.pc = "reconstruct" => head.done

\* It writes to the scratch space only while no header vouches for it.
RaCopies ==
  /\ ra.pc \in {"copy", "fill"} => RaBegin = mt.next /\ ~head.done /\ head_stored = head
  /\ ra.pc = "fill" => Saved(mt.next, Len(ra.temp))

\* It vouches for it only after it has synced it.
RaSyncs ==
  /\ ra.pc \in {"sync", "mark", "sync_mark", "notify"} =>
       /\ IsWindow(mt.next, window) /\ Saved(mt.next, window) /\ Mapped(mt.next, window)
       /\ RaBegin = mt.next + window
  /\ ra.pc \in {"mark", "sync_mark", "notify"} => scratch_stored = scratch
  /\ ra.pc \in {"sync_mark", "notify"} => head.done
  /\ ra.pc = "notify" => head_stored = head

\* What it has read.
Fetched ==
  /\ ra.pc \in {"read", "wait", "copy", "fill"} => OrderedAt(RaBegin)
  /\ ra.pc \in {"wait", "copy", "fill"} => IsWindow(RaBegin, Len(ra.temp))
  /\ ra.pc \in {"start", "reconstruct", "sync", "mark", "sync_mark", "notify"} => ra.temp = << >>
  /\ RaBegin >= 1
  /\ \A k \in 1..Len(ra.temp) :
       /\ ra.temp[k].op = RaBegin + k - 1 /\ IsOrderedOp(RaBegin + k - 1)
       /\ ra.temp[k].val = Ops[RaBegin + k - 1].src

\* How the threads end.
Ended ==
  /\ up /\ mt.pc = "end" /\ OrderedOps(first) # {} =>
       io_state \in {"MERGE_FAILED", "MERGE_COMPLETE", "IO_TERMINATED", "READ_AHEAD_FAILURE"}
  /\ io_state \in {"READ_AHEAD_FAILURE", "MERGE_COMPLETE"} => ra.pc = "end"
  /\ OrderedOps(first) = {} => io_state # "READ_AHEAD_FAILURE" /\ ra.pc = "end"
  /\ serving # "over" => io_state # "IO_TERMINATED"
  /\ ~merge_initiated => mt.pc \in {"begin", "end"} /\ io_state \notin {"MERGE_FAILED", "MERGE_COMPLETE"}

\* Operations that are not ordered are merged when the ordered ones are.
BatchTurn ==
  AtBatch \/ (up /\ mt.pc \in {"begin", "window"} /\ ~OrderedAt(mt.next)) =>
    /\ ra.pc = "end"
    /\ \A h \in {head, head_stored} : \A i \in Indices : IsOrderedOp(i) => i <= h.num
    /\ ~OrderedAt(MtStart) /\ ~OrderedAt(mt.next)

\* What is left while the daemon does not run.
Down ==
  /\ ~up => /\ ra = RaIdle /\ mt = MergeIdle /\ first = 0 /\ io_state = "INVALID" /\ serving = "no"
            /\ ~merge_initiated /\ ~resume_merge /\ ~populate /\ ~ra_started
            /\ head_stored = head /\ scratch_stored = scratch /\ stored = base
            /\ group = [g \in Indices |-> "PENDING"] /\ map = [i \in Indices |-> 0]
            /\ ios = [g \in Indices |-> 0]
  /\ up /\ mt.pc = "begin" => mt.next = first + 1 /\ mt.idx = 1
  /\ up => first <= Len(Ops)

-----------------------------------------------------------------------------
(* Second part: the windows and their readers. *)

\* The windows are counted as Group counts them.
Aligned ==
  /\ OrderedAt(MtStart) => MtStart = first + 1 + WindowsDone * WindowSize
  /\ ~OrderedAt(MtStart) => \A i \in OrderedOps(first) : Group(i) <= WindowsDone
  /\ WindowsDone + first + 1 <= MtStart

\* The state of each window.
GroupsTrue ==
  \A g \in Indices :
    /\ g < mt.idx => group[g] = "COMPLETED"
    /\ g > mt.idx => group[g] = "PENDING"
    /\ g = mt.idx =>
         /\ mt.pc = "begin" \/ AtBatch => group[g] = "PENDING"
         /\ mt.pc = "window" => group[g] = "PENDING" \/ (group[g] = "IN_PROGRESS" /\ OrderedAt(mt.next))
         /\ mt.pc = "drain" => group[g] = "RA_READY"
         /\ mt.pc \in {"write", "fsync", "completed"} => group[g] = "IN_PROGRESS"
         /\ AtWindow /\ mt.pc # "drain" => group[g] = "IN_PROGRESS"
         /\ mt.pc = "notify" => group[g] = "COMPLETED"
         /\ mt.pc = "end" => group[g] \in {"PENDING", "FAILED"}

\* The workers that serve read ordered operations.
ReadersServe ==
  /\ \A r \in Readers : reader[r].pc # "idle" => reader[r].op \in OrderedOps(first)
  /\ serving \in {"no", "waiting"} => \A r \in Readers : reader[r].pc = "idle"

\* Their reads are counted.
IosCounted == \A g \in Indices : ios[g] = Cardinality(Counted(g))

\* Nobody reads a source that is being overwritten.
Drained ==
  \A r \in Readers :
    /\ reader[r].pc \in {"source", "release", "release_error"} =>
         group[Group(reader[r].op)] \notin {"IN_PROGRESS", "COMPLETED"}
    /\ reader[r].pc = "base" => group[Group(reader[r].op)] = "COMPLETED"

\* A window that is about to be merged or being merged is in the buffer.
MapReady ==
  /\ \A i \in OrderedOps(first) : group[Group(i)] \in {"RA_READY", "IN_PROGRESS"} => map[i] # 0
  /\ \A i \in Indices : map[i] # 0 => scratch[map[i]].op = i

\* Without a failing call there are no errors.
Faultless ==
  faults.count = 0 =>
    /\ \A g \in Indices : group[g] # "FAILED"
    /\ \A r \in Readers : reader[r].pc \notin {"error", "release_error"}
    /\ io_state \notin {"IO_TERMINATED", "MERGE_FAILED"}
    /\ io_state = "READ_AHEAD_FAILURE" => mt.pc \in {"begin", "end"}

-----------------------------------------------------------------------------
(* Third part: the data. *)

\* Every slot, in memory and on storage, holds an operation and what it writes.
SlotsTrue ==
  \A k \in Slots :
    /\ scratch[k].op # 0 => IsOrderedOp(scratch[k].op) /\ scratch[k].val = Ops[scratch[k].op].src
    /\ scratch_stored[k].op # 0 =>
         IsOrderedOp(scratch_stored[k].op) /\ scratch_stored[k].val = Ops[scratch_stored[k].op].src

\* A header that vouches for the scratch space is right.
Vouches(h) ==
  h.done => /\ scratch_stored = scratch
            /\ \E a \in Indices, w \in Slots : IsWindow(a, w) /\ Saved(a, w) /\ Counts(h, a)
Vouched == Vouches(head) /\ Vouches(head_stored)

\* What a header does not count can still be merged.
Recovers(h) ==
  \A i \in Indices : i > h.num /\ IsOrderedOp(i) =>
    Intact(i) \/ (h.done /\ \E k \in Slots : scratch[k].op = i)
Recoverable == Recovers(head) /\ Recovers(head_stored)

\* What it counts is merged.
MergedUpTo(n) ==
  \A i \in Indices : i <= n => base[Ops[i].new] = Ops[i].src /\ stored[Ops[i].new] = Ops[i].src
CountedMerged ==
  "commit" \notin faults.sites =>
    /\ MergedUpTo(head.num) /\ head_stored.num <= head.num
    /\ up => head.num = IF mt.pc \in {"commit_state", "commit_sync"} THEN mt.next - 1 ELSE MtStart - 1

\* What was merged in this session.
SessionMerged ==
  /\ up => \A i \in Indices : first < i /\ i < mt.next => base[Ops[i].new] = Ops[i].src
  /\ mt.pc \in {"commit", "commit_state", "commit_sync"} => stored = base

\* The sources of what the read-ahead thread still has to read.
RaSources ==
  ra.pc # "end" =>
    \/ ra.pc \in {"start", "reconstruct"} /\ ra.resumed
    \/ \A i \in Indices : i >= RaBegin /\ IsOrderedOp(i) => Intact(i)

\* The sources of the windows that are not being merged.
ReadSources ==
  up => \A i \in OrderedOps(first) :
    group[Group(i)] \in {"PENDING", "RA_READY"} => Intact(i) \/ (ra.resumed /\ i <= first + WindowSize)

\* In a resumed session the first window is the one in the scratch space.
ResumedFirst ==
  ra.resumed /\ mt.idx = 1 =>
    /\ ra.pc \notin {"copy", "fill"}
    /\ ra.pc \in {"read", "wait"} => io_state # "MERGE_READY"

\* It is in the buffer when the workers serve.
ResumedMapped ==
  ra.resumed /\ (ra.pc \in {"sync", "mark", "sync_mark", "notify"} \/ ra_started) =>
    \A i \in OrderedOps(first) :
      i <= first + WindowSize /\ group[Group(i)] \in {"PENDING", "RA_READY"} => map[i] # 0

\* The workers wait for it.
ResumedServed ==
  /\ ra.resumed /\ resume_merge /\ OrderedOps(first) # {} /\ serving # "waiting"
     /\ "timeout" \notin faults.sites => ra_started \/ ra.pc = "end"

\* What the condition of ReadsNewWhenResumed says of a read in progress.
ReadsTrue ==
  (ra.resumed => resume_merge /\ ra_started) /\ "timeout" \notin faults.sites =>
    \A r \in Readers :
      /\ reader[r].pc \in {"got", "release"} => reader[r].val = Ops[reader[r].op].src
      /\ reader[r].pc = "source" => Intact(reader[r].op)

Inv ==
  /\ TypeOK
  /\ WindowLoaded /\ MergeBusy /\ WindowMerged /\ DoneTrue
  /\ RaAlone /\ RaMayTake /\ RaBegins /\ RaCopies /\ RaSyncs /\ Fetched
  /\ Ended /\ BatchTurn /\ Down
  /\ Aligned /\ GroupsTrue /\ ReadersServe /\ IosCounted /\ Drained /\ MapReady /\ Faultless
  /\ SlotsTrue /\ Vouched /\ Recoverable /\ CountedMerged /\ SessionMerged
  /\ RaSources /\ ReadSources /\ ResumedFirst /\ ResumedMapped /\ ResumedServed /\ ReadsTrue

-----------------------------------------------------------------------------
(* Facts about the operations. *)

(* The operations are numbered from 1. *)
LEMMA Numbers == Len(Ops) \in Nat /\ Indices = 1..Len(Ops) /\ WindowSize \in Nat \ {0}
BY OpsAssumption, SizesAssumption DEF Indices

(* The ordered operations come first, no block is written twice, and no source is written *)
(* before it is read: what the writer of the COW guarantees.                              *)
LEMMA OrderedFirst ==
  /\ \A i, j \in Indices : i <= j /\ IsOrderedOp(j) => IsOrderedOp(i)
  /\ \A i, j \in Indices : i # j => Ops[i].new # Ops[j].new
  /\ \A i, j \in Indices : i < j => Ops[j].src # Ops[i].new
<1>1. \A i, j \in Indices : i < j => /\ Ops[i].new # Ops[j].new
                                     /\ Ops[j].src # Ops[i].new
                                     /\ IsOrderedOp(j) => IsOrderedOp(i)
  BY OpsAssumption DEF Indices
<1> QED  BY <1>1, Numbers

(* Every block an operation reads or writes is a block of the device. *)
LEMMA OpsTyped ==
  /\ Cow \in Values
  /\ \A b \in Blocks : b \in Values
  /\ \A i \in Indices : /\ Ops[i].new \in Blocks /\ Ops[i].src \in Values
                        /\ IsOrderedOp(i) => Ops[i].src \in Blocks
                        /\ ~IsOrderedOp(i) => Ops[i].src = Cow
<1>1. \A i \in Indices : Ops[i].new \in Blocks
  BY DEF Blocks
<1>2. \A i \in Indices : IsOrderedOp(i) => Ops[i].src \in Blocks
  BY DEF Blocks, IsOrderedOp
<1>3. \A i \in Indices : ~IsOrderedOp(i) => Ops[i].src = Cow
  BY DEF IsOrderedOp
<1>4. Cow \in Values /\ \A b \in Blocks : b \in Values
  BY DEF Values
<1> QED  BY <1>1, <1>2, <1>3, <1>4

(* Multiples of the window size and \div. *)
LEMMA DivLess ==
  ASSUME NEW n \in Nat, NEW q \in Nat, NEW s \in Nat \ {0}
  PROVE  n \div s \in Nat /\ n \div s <= n /\ (n \div s < q <=> n < q * s)
<1> DEFINE d == n \div s  m == n % s
<1>1. d \in Int /\ m \in 0..(s - 1) /\ n = s * d + m
  OBVIOUS
<1>2. d \in Nat
  BY <1>1
<1> HIDE DEF d, m
<1>3. d <= n
  <2>1. s * d >= d  BY <1>1, <1>2
  <2> QED  BY <1>1, <1>2, <2>1
<1>4. ASSUME d < q PROVE n < q * s
  <2>1. q = d + 1 + (q - d - 1) /\ q - d - 1 \in Nat  BY <1>4, <1>2
  <2>2. q * s = d * s + s + (q - d - 1) * s  BY <2>1, <1>2
  <2>3. (q - d - 1) * s >= 0  BY <2>1
  <2>4. d * s = s * d  BY <1>2
  <2>5. q * s \in Int /\ d * s \in Int /\ (q - d - 1) * s \in Int  BY <1>2
  <2> QED  BY <2>2, <2>3, <2>4, <2>5, <1>1
<1>5. ASSUME ~(d < q) PROVE ~(n < q * s)
  <2>1. d = q + (d - q) /\ d - q \in Nat  BY <1>5, <1>2
  <2>2. s * d = q * s + s * (d - q)  BY <2>1, <1>2
  <2>3. s * (d - q) >= 0  BY <2>1
  <2>5. q * s \in Int /\ s * d \in Int /\ s * (d - q) \in Int  BY <1>2
  <2> QED  BY <2>2, <2>3, <2>5, <1>1
<1> QED  BY <1>2, <1>3, <1>4, <1>5 DEF d

(* The window of an operation that is not merged. *)
LEMMA GroupIs ==
  ASSUME first \in Nat, NEW i \in OrderedOps(first)
  PROVE  /\ Group(i) \in Indices
         /\ \A q \in Nat : Group(i) <= q <=> i < first + 1 + q * WindowSize
<1>1. i - first - 1 \in Nat /\ i \in Nat
  BY Numbers DEF OrderedOps
<1>2. ASSUME NEW q \in Nat PROVE Group(i) <= q <=> i < first + 1 + q * WindowSize
  <2>1. (i - first - 1) \div WindowSize \in Nat
        /\ ((i - first - 1) \div WindowSize < q <=> i - first - 1 < q * WindowSize)
    BY <1>1, Numbers, DivLess
  <2>2. q * WindowSize \in Int  BY Numbers
  <2> QED  BY <2>1, <2>2, <1>1 DEF Group
<1>3. Group(i) \in Indices
  <2>1. (i - first - 1) \div WindowSize \in Nat /\ (i - first - 1) \div WindowSize <= i - first - 1
    BY <1>1, Numbers, DivLess
  <2> QED  BY <2>1, <1>1, Numbers DEF Group, OrderedOps
<1> QED  BY <1>2, <1>3

(* The windows that are merged, and the next one. *)
LEMMA WindowIs ==
  ASSUME TypeOK, Aligned, NEW i \in OrderedOps(first)
  PROVE  /\ Group(i) \in Indices
         /\ Group(i) <= WindowsDone <=> i < MtStart
         /\ OrderedAt(MtStart) => (Group(i) <= WindowsDone + 1 <=> i < MtStart + WindowSize)
<1>1. WindowsDone \in Nat /\ first \in Nat /\ MtStart \in Int /\ i \in Indices /\ IsOrderedOp(i)
  BY SMTT(30), Numbers DEF TypeOK, MergeType, Positions, WindowsDone, MtStart, OrderedOps
<1>2. Group(i) \in Indices /\ \A q \in Nat : Group(i) <= q <=> i < first + 1 + q * WindowSize
  BY <1>1, GroupIs
<1>3. CASE OrderedAt(MtStart)
  <2>1. MtStart = first + 1 + WindowsDone * WindowSize  BY <1>3 DEF Aligned
  <2>2. (WindowsDone + 1) * WindowSize = WindowsDone * WindowSize + WindowSize
        /\ WindowsDone * WindowSize \in Int
    BY <1>1, Numbers
  <2>3. Group(i) <= WindowsDone <=> i < MtStart  BY <1>2, <1>1, <2>1
  <2>4. Group(i) <= WindowsDone + 1 <=> i < first + 1 + (WindowsDone + 1) * WindowSize  BY <1>2, <1>1
  <2>5. Group(i) <= WindowsDone + 1 <=> i < MtStart + WindowSize
    BY <2>1, <2>2, <2>4, <1>1, Numbers
  <2> QED  BY <1>2, <2>3, <2>5
<1>4. CASE ~OrderedAt(MtStart)
  <2>1. Group(i) <= WindowsDone  BY <1>4 DEF Aligned
  <2>2. MtStart >= 1  BY <1>1 DEF Aligned
  <2>3. i < MtStart  BY <1>1, <1>4, <2>2, OrderedFirst, Numbers DEF OrderedAt
  <2> QED  BY <1>2, <1>4, <2>1, <2>3
<1> QED  BY <1>3, <1>4

(* A header that counts a whole window covers it. *)
LEMMA WindowCovered ==
  ASSUME NEW a, NEW w, IsWindow(a, w), NEW n \in Nat, n >= a + w - 1
  PROVE  Covers(n, a)
BY Numbers, OrderedFirst DEF IsWindow, Covers, OrderedAt

-----------------------------------------------------------------------------
(* The types of what the proofs look at, without the records around it. *)
Fields ==
  /\ ra.next \in Nat /\ ra.next <= Len(Ops) + 1 /\ Len(ra.temp) \in Nat /\ Len(ra.temp) <= WindowSize
  /\ ra.resumed \in BOOLEAN
  /\ mt.next \in Nat /\ mt.next > 0 /\ mt.next <= Len(Ops) + 1 /\ mt.idx \in Nat /\ mt.idx > 0
  /\ mt.idx <= Len(Ops) + 1
  /\ mt.done \in Nat
  /\ head.num \in Nat /\ head_stored.num \in Nat /\ head.done \in BOOLEAN /\ head_stored.done \in BOOLEAN
  /\ first \in Nat /\ window \in Nat /\ window <= WindowSize /\ faults.count \in Nat
Flags ==
  /\ up \in BOOLEAN /\ merge_initiated \in BOOLEAN /\ resume_merge \in BOOLEAN
  /\ populate \in BOOLEAN /\ ra_started \in BOOLEAN
Cells ==
  /\ \A i \in Indices : map[i] \in Nat /\ map[i] <= WindowSize
  /\ \A k \in 1..WindowSize : scratch[k].op \in Nat /\ scratch[k].op <= Len(Ops)
  /\ \A k \in 1..WindowSize : scratch_stored[k].op \in Nat /\ scratch_stored[k].op <= Len(Ops)

LEMMA FieldsTyped == TypeOK => Fields /\ Flags /\ Cells
<1> SUFFICES ASSUME TypeOK PROVE Fields /\ Flags /\ Cells  OBVIOUS
<1>1. /\ ra.next \in Nat /\ ra.next <= Len(Ops) + 1 /\ Len(ra.temp) \in Nat /\ Len(ra.temp) <= WindowSize
      /\ ra.resumed \in BOOLEAN
  BY Numbers DEF TypeOK, RaType, Positions
<1>2. /\ mt.next \in Nat /\ mt.next > 0 /\ mt.next <= Len(Ops) + 1 /\ mt.idx \in Nat /\ mt.idx > 0
      /\ mt.idx <= Len(Ops) + 1 /\ mt.done \in Nat
  BY Numbers DEF TypeOK, MergeType, Positions
<1>3. /\ head.num \in Nat /\ head_stored.num \in Nat /\ head.done \in BOOLEAN /\ head_stored.done \in BOOLEAN
  BY DEF TypeOK
<1>4. Cells
  <2>1. \A i \in Indices : map[i] \in Nat /\ map[i] <= WindowSize
    BY Numbers DEF TypeOK
  <2>2. \A k \in 1..WindowSize : scratch[k].op \in Nat /\ scratch[k].op <= Len(Ops)
    BY Numbers DEF TypeOK, Slots
  <2>3. \A k \in 1..WindowSize : scratch_stored[k].op \in Nat /\ scratch_stored[k].op <= Len(Ops)
    BY Numbers DEF TypeOK, Slots
  <2> QED  BY <2>1, <2>2, <2>3 DEF Cells
<1>5. /\ first \in Nat /\ window \in Nat /\ window <= WindowSize /\ faults.count \in Nat
  BY Numbers, SizesAssumption DEF TypeOK
<1>6. Flags
  BY DEF TypeOK, Flags
<1> QED  BY <1>1, <1>2, <1>3, <1>4, <1>5, <1>6 DEF Fields

LEMMA FieldsTypedNext == TypeOK' => Fields' /\ Flags' /\ Cells'
BY FieldsTyped, PTL

(* What an assignment to a part of a variable leaves behind. *)
LEMMA FaultIs ==
  ASSUME TypeOK, NEW site, Fault(site)
  PROVE  /\ faults' \in [count : 0..MaxFaults, sites : SUBSET Marked]
         /\ faults'.count = faults.count + 1
         /\ \A s : s \in faults.sites => s \in faults'.sites
         /\ site \in Marked => site \in faults'.sites
<1>1. faults \in [count : 0..MaxFaults, sites : SUBSET Marked] /\ MaxFaults \in Nat
  BY SizesAssumption DEF TypeOK
<1>2. faults.count + 1 \in 0..MaxFaults
  BY <1>1 DEF Fault
<1>3. faults.sites \cup ({site} \cap Marked) \in SUBSET Marked
  BY <1>1
<1>4. faults' = [count |-> faults.count + 1, sites |-> faults.sites \cup ({site} \cap Marked)]
  BY DEF Fault
<1> QED  BY <1>1, <1>2, <1>3, <1>4

LEMMA GroupSet ==
  ASSUME TypeOK, NEW g, NEW s \in GroupStates, group' = [group EXCEPT ![g] = s]
  PROVE  /\ group' \in [Indices -> GroupStates]
         /\ \A h \in Indices : group'[h] = IF h = g THEN s ELSE group[h]
BY DEF TypeOK

LEMMA ReaderSet ==
  ASSUME TypeOK, NEW r \in Readers, NEW d \in ReaderType, reader' = [reader EXCEPT ![r] = d]
  PROVE  /\ reader' \in [Readers -> ReaderType]
         /\ reader'[r] = d
         /\ \A q \in Readers : q # r => reader'[q] = reader[q]
BY DEF TypeOK

LEMMA BaseSet ==
  ASSUME TypeOK, NEW b \in Blocks, NEW v \in Values, base' = [base EXCEPT ![b] = v]
  PROVE  /\ base' \in [Blocks -> Values]
         /\ \A c \in Blocks : base'[c] = IF c = b THEN v ELSE base[c]
BY DEF TypeOK

(* The windows stay aligned as long as no more of them are merged. *)
LEMMA AlignedKept ==
  ASSUME Aligned, first' = first, WindowsDone' = WindowsDone, MtStart' = MtStart
  PROVE  Aligned'
BY DEF Aligned, OrderedAt, OrderedOps, Group

LEMMA OrderedIs == \A n, i : i \in OrderedOps(n) <=> i \in Indices /\ i > n /\ IsOrderedOp(i)
BY DEF OrderedOps

LEMMA ReaderStep ==
  ASSUME TypeOK, NEW r \in Readers, NEW p \in ReaderSteps, reader' = [reader EXCEPT ![r].pc = p]
  PROVE  /\ reader' \in [Readers -> ReaderType]
         /\ \A q \in Readers : q # r => reader'[q] = reader[q]
         /\ reader'[r].pc = p /\ reader'[r].op = reader[r].op /\ reader'[r].val = reader[r].val
<1>1. reader[r] \in ReaderType  BY DEF TypeOK
<1>2. [reader[r] EXCEPT !.pc = p] \in ReaderType  BY <1>1 DEF ReaderType
<1>3. reader' = [reader EXCEPT ![r] = [reader[r] EXCEPT !.pc = p]]  OBVIOUS
<1>4. /\ reader' \in [Readers -> ReaderType] /\ reader'[r] = [reader[r] EXCEPT !.pc = p]
      /\ \A q \in Readers : q # r => reader'[q] = reader[q]
  BY <1>2, <1>3 DEF TypeOK
<1> QED  BY <1>1, <1>4 DEF ReaderType

\* Worker r has read v.
HasRead(r, p, v) == reader' = [reader EXCEPT ![r].pc = p, ![r].val = v]

LEMMA ReaderReads ==
  ASSUME TypeOK, NEW r \in Readers, NEW p \in ReaderSteps, NEW v \in Values, HasRead(r, p, v)
  PROVE  /\ reader' \in [Readers -> ReaderType]
         /\ \A q \in Readers : q # r => reader'[q] = reader[q]
         /\ reader'[r].pc = p /\ reader'[r].op = reader[r].op /\ reader'[r].val = v
<1> DEFINE d == [pc |-> p, op |-> reader[r].op, val |-> v]
<1>1. reader[r] \in ReaderType  BY DEF TypeOK
<1>2. d \in ReaderType  BY <1>1 DEF ReaderType
<1>3. /\ reader' \in [Readers -> ReaderType] /\ reader'[r] = d
      /\ \A q \in Readers : q # r => reader'[q] = reader[q]
  <2>1. reader' = [[reader EXCEPT ![r].pc = p] EXCEPT ![r].val = v]  BY DEF HasRead
  <2> DEFINE e == [reader[r] EXCEPT !.pc = p]
  <2>4. e \in ReaderType /\ e.pc = p /\ e.op = reader[r].op  BY <1>1 DEF ReaderType
  <2> HIDE DEF e
  <2>5. [e EXCEPT !.val = v] = [pc |-> e.pc, op |-> e.op, val |-> v]  BY <2>4 DEF ReaderType
  <2>2. [[reader[r] EXCEPT !.pc = p] EXCEPT !.val = v] = d  BY <2>4, <2>5 DEF e
  <2>3. reader' = [reader EXCEPT ![r] = d]  BY <2>1, <2>2, <1>1 DEF TypeOK, ReaderType
  <2> QED  BY <1>2, <2>3 DEF TypeOK
<1> QED  BY <1>3

(* The reads that are counted. *)
LEMMA CountedKept ==
  ASSUME first' = first, NEW r \in Readers, \A q \in Readers : q # r => reader'[q] = reader[q],
         reader[r].pc \in {"source", "release", "release_error"}
           <=> reader'[r].pc \in {"source", "release", "release_error"},
         reader'[r].pc \in {"source", "release", "release_error"} => reader'[r].op = reader[r].op
  PROVE  \A g : Counted(g)' = Counted(g)
BY DEF Counted, Group

LEMMA CountedMore ==
  ASSUME first' = first, NEW r \in Readers, \A q \in Readers : q # r => reader'[q] = reader[q],
         reader[r].pc \notin {"source", "release", "release_error"},
         reader'[r].pc \in {"source", "release", "release_error"}
  PROVE  \A g : Cardinality(Counted(g)') =
                  IF g = Group(reader'[r].op) THEN Cardinality(Counted(g)) + 1 ELSE Cardinality(Counted(g))
<1> SUFFICES ASSUME NEW g
             PROVE  Cardinality(Counted(g)') =
                      IF g = Group(reader'[r].op) THEN Cardinality(Counted(g)) + 1 ELSE Cardinality(Counted(g))
  OBVIOUS
<1>1. IsFiniteSet(Counted(g))
  BY ReadersAssumption, FS_Subset DEF Counted
<1>2. CASE g = Group(reader'[r].op)
  <2>1. Counted(g)' = Counted(g) \cup {r} /\ r \notin Counted(g)
    BY <1>2 DEF Counted, Group
  <2>2. Cardinality(Counted(g) \cup {r}) = Cardinality(Counted(g)) + 1
    BY <1>1, <2>1, FS_AddElement
  <2> QED  BY <1>2, <2>1, <2>2
<1>3. CASE g # Group(reader'[r].op)
  <2>1. Counted(g)' = Counted(g)
    BY <1>3 DEF Counted, Group
  <2> QED  BY <1>3, <2>1
<1> QED  BY <1>2, <1>3

LEMMA CountedLess ==
  ASSUME first' = first, NEW r \in Readers, \A q \in Readers : q # r => reader'[q] = reader[q],
         reader[r].pc \in {"source", "release", "release_error"},
         reader'[r].pc \notin {"source", "release", "release_error"}
  PROVE  \A g : Cardinality(Counted(g)') =
                  IF g = Group(reader[r].op) THEN Cardinality(Counted(g)) - 1 ELSE Cardinality(Counted(g))
<1> SUFFICES ASSUME NEW g
             PROVE  Cardinality(Counted(g)') =
                      IF g = Group(reader[r].op) THEN Cardinality(Counted(g)) - 1 ELSE Cardinality(Counted(g))
  OBVIOUS
<1>1. IsFiniteSet(Counted(g))
  BY ReadersAssumption, FS_Subset DEF Counted
<1>2. CASE g = Group(reader[r].op)
  <2>1. Counted(g)' = Counted(g) \ {r} /\ r \in Counted(g)
    BY <1>2 DEF Counted, Group
  <2> QED  BY <1>1, <1>2, <2>1, FS_RemoveElement
<1>3. CASE g # Group(reader[r].op)
  <2>1. Counted(g)' = Counted(g)
    BY <1>3 DEF Counted, Group
  <2> QED  BY <1>3, <2>1
<1> QED  BY <1>2, <1>3

LEMMA CountedBounded == \A g : Cardinality(Counted(g)) \in 0..Cardinality(Readers)
<1> SUFFICES ASSUME NEW g PROVE Cardinality(Counted(g)) \in 0..Cardinality(Readers)  OBVIOUS
<1>1. Counted(g) \subseteq Readers  BY DEF Counted
<1>2. IsFiniteSet(Counted(g)) /\ Cardinality(Counted(g)) <= Cardinality(Readers)
  BY <1>1, ReadersAssumption, FS_Subset
<1> QED  BY <1>2, ReadersAssumption, FS_CardinalityType

LEMMA CountedBoundedNext == \A g : Cardinality(Counted(g)') \in 0..Cardinality(Readers)
<1>1. (\A g : Cardinality(Counted(g)) \in 0..Cardinality(Readers))'  BY CountedBounded, PTL
<1> QED  BY <1>1


LEMMA SeqElement == ASSUME NEW S, NEW s \in Seq(S), NEW k \in 1..Len(s) PROVE s[k] \in S
OBVIOUS

(* GroupIs in the next state. *)
LEMMA GroupIsNext ==
  first' \in Nat => \A i \in OrderedOps(first)' : /\ Group(i)' \in Indices
                                                  /\ \A q \in Nat : Group(i)' <= q <=> i < first' + 1 + q * WindowSize
<1>1. first \in Nat => \A i \in OrderedOps(first) : /\ Group(i) \in Indices
                                                    /\ \A q \in Nat : Group(i) <= q <=> i < first + 1 + q * WindowSize
  BY GroupIs
<1>2. (first \in Nat => \A i \in OrderedOps(first) : /\ Group(i) \in Indices
                                                     /\ \A q \in Nat : Group(i) <= q <=> i < first + 1 + q * WindowSize)'
  BY <1>1, PTL
<1> QED  BY <1>2 DEF Indices

(* Nobody reads: no read is counted. *)
LEMMA NobodyCounted ==
  ASSUME \A r \in Readers : reader'[r].pc = "idle"
  PROVE  \A g : Cardinality(Counted(g)') = 0
<1> SUFFICES ASSUME NEW g PROVE Cardinality(Counted(g)') = 0  OBVIOUS
<1>1. Counted(g)' = {}  BY DEF Counted
<1> QED  BY <1>1, FS_EmptySet

-----------------------------------------------------------------------------
(* Each part of the invariant depends on few variables. *)

LEMMA WindowLoadedFrame == ASSUME WindowLoaded, UNCHANGED << head, head_stored, scratch, io_state,
        map, window, ra, mt>> PROVE WindowLoaded'
BY DEF WindowLoaded, AtWindow, OrderedAt, Loaded, MtStart, IsWindow, Saved, Mapped, RaBegin, Covers,
        Slots

LEMMA MergeBusyFrame == ASSUME MergeBusy, UNCHANGED << io_state, group, mt>> PROVE MergeBusy'
BY DEF MergeBusy, AtWindow, Redoes, OrderedAt, MtStart

LEMMA WindowMergedFrame == ASSUME WindowMerged, UNCHANGED << head, head_stored, ra, mt>> PROVE WindowMerged'
BY DEF WindowMerged, RaBegin, Counts, Covers

LEMMA DoneTrueFrame == ASSUME DoneTrue, UNCHANGED << head, window, mt>> PROVE DoneTrue'
BY DEF DoneTrue, AtWindow, Counts, OrderedAt, MtStart, Covers

LEMMA RaAloneFrame == ASSUME RaAlone, UNCHANGED << head, head_stored, io_state, group, ra, mt>> PROVE RaAlone'
BY DEF RaAlone, RaOwns, Redoes, Counts, OrderedAt, Covers

LEMMA RaMayTakeFrame == ASSUME RaMayTake, UNCHANGED << head, head_stored, io_state, group, ra, mt>> PROVE RaMayTake'
BY DEF RaMayTake, Redoes, RaBegin, Counts, Covers

LEMMA RaBeginsFrame == ASSUME RaBegins, UNCHANGED << head, head_stored, first, populate, ra_started,
        ra, mt>> PROVE RaBegins'
BY DEF RaBegins

LEMMA RaCopiesFrame == ASSUME RaCopies, UNCHANGED << head, head_stored, scratch, ra, mt>> PROVE RaCopies'
BY DEF RaCopies, RaBegin, Saved, Slots

LEMMA RaSyncsFrame == ASSUME RaSyncs, UNCHANGED << head, head_stored, scratch, scratch_stored, map,
        window, ra, mt>> PROVE RaSyncs'
BY DEF RaSyncs, IsWindow, Saved, Mapped, RaBegin, OrderedAt, Slots

LEMMA FetchedFrame == ASSUME Fetched, UNCHANGED << ra>> PROVE Fetched'
BY DEF Fetched, OrderedAt, RaBegin, IsWindow

LEMMA EndedFrame == ASSUME Ended, UNCHANGED << up, first, io_state, merge_initiated, serving, ra, mt>> PROVE Ended'
BY DEF Ended, OrderedOps

LEMMA BatchTurnFrame == ASSUME BatchTurn, UNCHANGED << head, head_stored, up, ra, mt>> PROVE BatchTurn'
BY DEF BatchTurn, AtBatch, OrderedAt, MtStart

LEMMA DownFrame == ASSUME Down, UNCHANGED << base, stored, head, head_stored, scratch,
        scratch_stored, up, first, io_state, merge_initiated, resume_merge, populate, ra_started,
        serving, group, ios, map, ra, mt>> PROVE Down'
BY DEF Down, RaIdle, MergeIdle

LEMMA AlignedFrame == ASSUME Aligned, UNCHANGED << first, mt>> PROVE Aligned'
BY DEF Aligned, OrderedAt, MtStart, WindowsDone, OrderedOps, Group

LEMMA GroupsTrueFrame == ASSUME GroupsTrue, UNCHANGED << group, mt>> PROVE GroupsTrue'
BY DEF GroupsTrue, AtBatch, OrderedAt, AtWindow, MtStart

LEMMA ReadersServeFrame == ASSUME ReadersServe, UNCHANGED << first, serving, reader>> PROVE ReadersServe'
BY DEF ReadersServe, OrderedOps

LEMMA IosCountedFrame == ASSUME IosCounted, UNCHANGED << first, ios, reader>> PROVE IosCounted'
BY DEF IosCounted, Counted, Group

LEMMA DrainedFrame == ASSUME Drained, UNCHANGED << first, group, reader>> PROVE Drained'
BY DEF Drained, Group

LEMMA MapReadyFrame == ASSUME MapReady, UNCHANGED << scratch, first, group, map>> PROVE MapReady'
BY DEF MapReady, OrderedOps, Group

LEMMA FaultlessFrame == ASSUME Faultless, UNCHANGED << io_state, group, mt, reader, faults>> PROVE Faultless'
BY DEF Faultless

LEMMA SlotsTrueFrame == ASSUME SlotsTrue, UNCHANGED << scratch, scratch_stored>> PROVE SlotsTrue'
BY DEF SlotsTrue, Slots

LEMMA VouchedFrame == ASSUME Vouched, UNCHANGED << head, head_stored, scratch, scratch_stored>> PROVE Vouched'
BY DEF Vouched, Vouches, Slots, IsWindow, Saved, Counts, OrderedAt, Covers

LEMMA RecoverableFrame == ASSUME Recoverable, UNCHANGED << base, stored, head, head_stored, scratch>> PROVE Recoverable'
BY DEF Recoverable, Recovers, Intact, Slots

LEMMA CountedMergedFrame == ASSUME CountedMerged, UNCHANGED << base, stored, head, head_stored, up,
        mt, faults>> PROVE CountedMerged'
BY DEF CountedMerged, MergedUpTo, MtStart

LEMMA SessionMergedFrame == ASSUME SessionMerged, UNCHANGED << base, stored, up, first, mt>> PROVE SessionMerged'
BY DEF SessionMerged

LEMMA RaSourcesFrame == ASSUME RaSources, UNCHANGED << base, stored, ra>> PROVE RaSources'
BY DEF RaSources, RaBegin, Intact

LEMMA ReadSourcesFrame == ASSUME ReadSources, UNCHANGED << base, stored, up, first, group, ra>> PROVE ReadSources'
BY DEF ReadSources, OrderedOps, Group, Intact

LEMMA ResumedFirstFrame == ASSUME ResumedFirst, UNCHANGED << io_state, ra, mt>> PROVE ResumedFirst'
BY DEF ResumedFirst

LEMMA ResumedMappedFrame == ASSUME ResumedMapped, UNCHANGED << first, ra_started, group, map, ra>> PROVE ResumedMapped'
BY DEF ResumedMapped, OrderedOps, Group

LEMMA ResumedServedFrame == ASSUME ResumedServed, UNCHANGED << first, resume_merge, ra_started,
        serving, ra, faults>> PROVE ResumedServed'
BY DEF ResumedServed, OrderedOps

LEMMA ReadsTrueFrame == ASSUME ReadsTrue, UNCHANGED << base, stored, resume_merge, ra_started, ra,
        reader, faults>> PROVE ReadsTrue'
BY DEF ReadsTrue, Intact

-----------------------------------------------------------------------------
(* Every step keeps the invariant. *)

USE DEF device, cowfile, handler, groups, buffer, power, Fields, Slots, Marked, AtWindow, OrderedAt,
        Redoes, RaBegin, Counts, RaOwns, AtBatch, MtStart, RaIdle, MergeIdle, WindowsDone, Vouches,
        Recovers, NoFault, ReaderIdle, MoreToRead, ReadAheadFails, NoSlot, IsMergeBeginError,
        MergeBegins, OrderedMergeFails, ReplaceFails, GetRABuffer, Found

(* Whether a step of a commit belongs to a window or to a batch. *)
LEMMA PhaseIs ==
  ASSUME Inv
  PROVE  /\ mt.pc \in {"write", "fsync", "drain"} => OrderedAt(MtStart)
         /\ mt.pc \in {"replace", "flush", "check"} => ~OrderedAt(MtStart)
         /\ mt.pc = "commit_sync" => (IsOrderedOp(mt.next - 1) <=> OrderedAt(MtStart))
<1>0. Fields  BY FieldsTyped DEF Inv
<1> USE Numbers
<1>1. mt.pc \in {"write", "fsync", "drain"} => OrderedAt(MtStart)
  BY <1>0 DEF Inv, DoneTrue
<1>2. mt.pc \in {"replace", "flush", "check"} => ~OrderedAt(MtStart)
  BY <1>0 DEF Inv, BatchTurn
<1>3. ASSUME mt.pc = "commit_sync", OrderedAt(MtStart) PROVE IsOrderedOp(mt.next - 1)
  BY <1>0, <1>3 DEF Inv, WindowLoaded, DoneTrue, Loaded, IsWindow
<1>4. ASSUME mt.pc = "commit_sync", ~OrderedAt(MtStart) PROVE ~IsOrderedOp(mt.next - 1)
  <2>1. mt.done < mt.next /\ mt.done > 0  BY <1>4 DEF Inv, DoneTrue
  <2>3. mt.next \in Nat /\ mt.done \in Nat /\ mt.next <= Len(Ops) + 1  BY <1>0
  <2>2. MtStart \in Indices /\ mt.next - 1 \in Indices /\ MtStart <= mt.next - 1
    BY <2>1, <2>3
  <2> QED  BY <2>2, <1>4, OrderedFirst
<1> QED  BY <1>1, <1>2, <1>3, <1>4

(* The windows of the operations that are not merged. *)
LEMMA GroupsIn ==
  ASSUME Inv
  PROVE  \A i \in OrderedOps(first) :
           /\ Group(i) \in Indices
           /\ Group(i) <= WindowsDone <=> i < MtStart
           /\ OrderedAt(MtStart) => (Group(i) <= WindowsDone + 1 <=> i < MtStart + WindowSize)
BY WindowIs DEF Inv

(* The window that is being merged has a number. *)
LEMMA IndexIn ==
  ASSUME Inv, mt.pc \in {"completed", "notify"} \/ OrderedAt(MtStart)
  PROVE  mt.idx \in Indices
<1>1. Fields  BY FieldsTyped DEF Inv
<1>2. WindowsDone + first + 1 <= MtStart  BY DEF Inv, Aligned
<1>3. mt.idx \in Nat /\ mt.idx > 0 /\ first \in Nat /\ mt.next \in Nat /\ mt.done \in Nat
      /\ mt.next <= Len(Ops) + 1
  BY <1>1
<1>4. CASE OrderedAt(MtStart)
  <2>1. MtStart <= Len(Ops)  BY <1>4, Numbers
  <2> QED  BY SMTT(30), <2>1, <1>2, <1>3, Numbers
<1>5. CASE mt.pc \in {"completed", "notify"}
  <2>1. WindowsDone = mt.idx  BY <1>5
  <2> QED  BY <2>1, <1>2, <1>3, Numbers
<1> QED  BY <1>4, <1>5

(* The operations of the window that is being merged. *)
LEMMA InWindow ==
  ASSUME Inv, OrderedAt(MtStart), IsWindow(MtStart, window), mt.pc \notin {"completed", "notify"}
  PROVE  \A i \in OrderedOps(first) : Group(i) = mt.idx <=> MtStart <= i /\ i < MtStart + window
<1> SUFFICES ASSUME NEW i \in OrderedOps(first)
             PROVE  Group(i) = mt.idx <=> MtStart <= i /\ i < MtStart + window
  OBVIOUS
<1>1. Fields  BY FieldsTyped DEF Inv
<1>2. mt.idx \in Nat /\ mt.next \in Nat /\ mt.done \in Nat  BY <1>1
<1>3. WindowsDone = mt.idx - 1  OBVIOUS
<1>4. i \in Indices /\ IsOrderedOp(i)  BY DEF OrderedOps
<1>5. /\ Group(i) \in Nat /\ i \in Nat /\ window \in 1..WindowSize
      /\ Group(i) <= mt.idx - 1 <=> i < MtStart
      /\ Group(i) <= mt.idx - 1 + 1 <=> i < MtStart + WindowSize
  BY <1>3, <1>4, GroupsIn, Numbers DEF IsWindow
<1>6. ASSUME i < MtStart + WindowSize PROVE i < MtStart + window
  <2>1. CASE window = WindowSize  BY <1>6, <2>1
  <2>2. CASE ~OrderedAt(MtStart + window)
    <3>1. ASSUME MtStart + window <= i PROVE FALSE
      <4>1. MtStart \in Indices  OBVIOUS
      <4>2. MtStart + window \in Indices  BY <4>1, <3>1, <1>5, <1>4, <1>2, Numbers
      <4> QED  BY <4>2, <3>1, <1>4, <2>2, OrderedFirst
    <3> QED  BY <3>1, <1>5, <1>2, Numbers
  <2> QED  BY <2>1, <2>2 DEF IsWindow
<1> QED  BY SMTT(30), <1>2, <1>5, <1>6, Numbers

(* Nobody reads the sources of a window whose count is zero. *)
LEMMA NobodyReads ==
  ASSUME Inv, NEW g \in Indices, ios[g] = 0
  PROVE  \A r \in Readers : reader[r].pc \in {"source", "release", "release_error"} => Group(reader[r].op) # g
<1>1. IsFiniteSet(Counted(g))
  BY ReadersAssumption, FS_Subset DEF Counted
<1>2. Cardinality(Counted(g)) = 0  BY DEF Inv, IosCounted
<1>3. Counted(g) = {}  BY <1>1, <1>2, FS_EmptySet
<1> QED  BY <1>3 DEF Counted

(* A header that counts the operations before one that is not ordered counts all ordered ones. *)
LEMMA CountsAll ==
  ASSUME NEW h, h.num \in Nat, NEW a \in 1..(Len(Ops) + 1), Counts(h, a), ~OrderedAt(a)
  PROVE  \A i \in Indices : IsOrderedOp(i) => i <= h.num
<1> SUFFICES ASSUME NEW i \in Indices, IsOrderedOp(i) PROVE i <= h.num  OBVIOUS
<1>1. ASSUME a <= i PROVE FALSE
  <2>1. a \in Indices /\ i \in Nat  BY <1>1, Numbers
  <2> QED  BY <2>1, <1>1, OrderedFirst
<1>2. i < a  BY <1>1, Numbers
<1> QED  BY <1>2, Numbers DEF Counts, Covers

(* What a header covers it also covers when it counts more. *)
LEMMA CoversMore ==
  ASSUME NEW n \in Nat, NEW m \in Nat, n <= m, NEW a, Covers(n, a)
  PROVE  Covers(m, a)
BY Numbers DEF Covers

LEMMA CoversNext ==
  ASSUME NEW n \in Nat, NEW a \in Nat, NEW w \in Nat, Covers(n, a)
  PROVE  Covers(n + w, a + w)
<1> SUFFICES ASSUME NEW i \in Indices, IsOrderedOp(i), i < a + w + WindowSize PROVE i <= n + w
  BY DEF Covers
<1>0. i \in Nat  BY Numbers
<1>1. CASE i - w >= 1
  <2>1. i - w \in Indices /\ i - w <= i  BY <1>0, <1>1, Numbers
  <2>2. IsOrderedOp(i - w)  BY <2>1, OrderedFirst
  <2>3. i - w < a + WindowSize  BY <1>0, Numbers
  <2>4. i - w <= n  BY <2>1, <2>2, <2>3 DEF Covers
  <2> QED  BY <2>4, <1>0
<1>2. CASE ~(i - w >= 1)  BY <1>0, <1>2
<1> QED  BY <1>1, <1>2

(* The count of CommitMerge is right, or too high after a failure of its msync. *)
LEMMA CountTrue ==
  ASSUME Inv, mt.pc = "commit", NEW n, n = head.num + mt.done
  PROVE  /\ n \in Nat /\ n >= head.num /\ (n = mt.next - 1 \/ Covers(n, mt.next))
         /\ OrderedAt(MtStart) => Covers(n, MtStart)
         /\ ~OrderedAt(MtStart) => \A i \in Indices : IsOrderedOp(i) => i <= head.num
<1>0. Fields  BY FieldsTyped DEF Inv
<1>1. mt.next \in Nat /\ mt.done \in Nat /\ head.num \in Nat /\ mt.done < mt.next
  BY <1>0 DEF Inv, DoneTrue
<1>2. n \in Nat /\ n >= head.num /\ MtStart \in Nat /\ mt.next = MtStart + mt.done  BY <1>1
<1>3. CASE OrderedAt(MtStart)
  <2>1. mt.done = window /\ Loaded  BY <1>3 DEF Inv, DoneTrue, WindowLoaded
  <2>2. IsWindow(MtStart, window) /\ (head.num = MtStart - 1 \/ Covers(head.num, MtStart))
    BY <2>1 DEF Loaded
  <2>3. CASE head.num = MtStart - 1
    <3>1. n = mt.next - 1 /\ n >= MtStart + window - 1  BY <2>1, <2>3, <1>1, <1>2
    <3>2. Covers(n, MtStart)  BY <3>1, <1>2, <2>2, WindowCovered
    <3> QED  BY <1>2, <1>3, <3>1, <3>2
  <2>4. CASE Covers(head.num, MtStart)
    <3>1. Covers(n, MtStart)  BY <2>4, <1>1, <1>2, CoversMore
    <3>2. Covers(n, mt.next)
      <4>1. Covers(head.num + mt.done, MtStart + mt.done)  BY <2>4, <1>1, <1>2, CoversNext
      <4> QED  BY <4>1, <1>2
    <3> QED  BY <1>2, <1>3, <3>1, <3>2
  <2> QED  BY <2>2, <2>3, <2>4
<1>4. CASE ~OrderedAt(MtStart)
  <2>1. \A i \in Indices : IsOrderedOp(i) => i <= head.num  BY <1>4 DEF Inv, BatchTurn
  <2>2. Covers(n, mt.next)  BY <2>1, <1>1, <1>2, Numbers DEF Covers
  <2> QED  BY <1>2, <1>4, <2>1, <2>2
<1> QED  BY <1>3, <1>4

(* Once it is counted, what is not counted is not in the scratch space. *)
LEMMA StateTrue ==
  ASSUME Inv, mt.pc = "commit_state"
  PROVE  /\ OrderedAt(MtStart) => Covers(head.num, MtStart) /\ OrderedOps(first) # {}
         /\ \A i \in Indices : i > head.num /\ IsOrderedOp(i) => Intact(i)
<1>0. Fields  BY FieldsTyped DEF Inv
<1>1. mt.next \in Nat /\ mt.done \in Nat /\ head.num \in Nat /\ first \in Nat /\ mt.idx \in Nat /\ mt.idx > 0
      /\ mt.done < mt.next
  BY <1>0 DEF Inv, DoneTrue
<1>2. Counts(head, mt.next)  BY DEF Inv, DoneTrue
<1>3. CASE OrderedAt(MtStart)
  <2>1. mt.done = window /\ Loaded  BY <1>3 DEF Inv, DoneTrue, WindowLoaded
  <2>2. IsWindow(MtStart, window) /\ Saved(MtStart, window) /\ MtStart \in Nat /\ window \in 1..WindowSize
    BY <2>1, <1>1 DEF Loaded, IsWindow
  <2>3. Covers(head.num, MtStart)
    <3>1. CASE head.num = mt.next - 1
      <4>1. head.num >= MtStart + window - 1  BY <3>1, <2>1, <1>1
      <4> QED  BY <4>1, <2>2, <1>1, WindowCovered
    <3>2. CASE Covers(head.num, mt.next)
      <4>1. \A i \in Indices : i < MtStart + WindowSize => i < mt.next + WindowSize  BY <1>1, Numbers
      <4> QED  BY <3>2, <4>1 DEF Covers
    <3> QED  BY <3>1, <3>2, <1>2
  <2>4. MtStart \in OrderedOps(first)
    <3>1. WindowsDone + first + 1 <= MtStart  BY DEF Inv, Aligned
    <3>2. MtStart > first  BY <3>1, <1>1
    <3> QED  BY <1>3, <3>2, OrderedIs
  <2>5. ASSUME NEW i \in Indices, i > head.num, IsOrderedOp(i) PROVE Intact(i)
    <3>1. ~\E k \in Slots : scratch[k].op = i
      <4>1. i \in Nat /\ i > 0  BY Numbers
      <4>2. ~(i < MtStart + WindowSize)  BY <2>3, <2>5, <4>1, <1>1 DEF Covers
      <4>3. \A k \in Slots : scratch[k].op = (IF k <= window THEN MtStart + k - 1 ELSE 0)
        BY <2>2 DEF Saved
      <4> QED  BY SMTT(30), <4>1, <4>2, <4>3, <2>2, Numbers
    <3> QED  BY <2>5, <3>1 DEF Inv, Recoverable
  <2> QED  BY <2>3, <2>4, <2>5
<1>4. CASE ~OrderedAt(MtStart)
  <2>1. \A i \in Indices : IsOrderedOp(i) => i <= head.num  BY <1>4 DEF Inv, BatchTurn
  <2> QED  BY <1>1, <1>4, <2>1, Numbers
<1> QED  BY <1>3, <1>4

(* No window is being merged while the read-ahead thread owns the scratch space. *)
LEMMA RaQuiet ==
  ASSUME Inv, RaOwns
  PROVE  \A g \in Indices : group[g] \notin {"RA_READY", "IN_PROGRESS"}
<1> SUFFICES ASSUME NEW g \in Indices PROVE group[g] \notin {"RA_READY", "IN_PROGRESS"}  OBVIOUS
<1>1. mt.pc \in {"begin", "window", "end"} /\ ~Redoes  BY DEF Inv, RaAlone
<1>2. mt.idx \in Nat /\ g \in Nat  BY FieldsTyped, Numbers DEF Inv
<1>3. CASE g < mt.idx  BY <1>3 DEF Inv, GroupsTrue
<1>4. CASE g > mt.idx  BY <1>4 DEF Inv, GroupsTrue
<1>5. CASE g = mt.idx  BY <1>5, <1>1 DEF Inv, GroupsTrue
<1> QED  BY <1>2, <1>3, <1>4, <1>5

(* When it writes to the scratch space in a resumed session, the first window is merged. *)
LEMMA ResumedOver ==
  ASSUME Inv, ra.pc \in {"copy", "fill"}, ra.resumed, NEW i \in OrderedOps(first), i <= first + WindowSize
  PROVE  group[Group(i)] = "COMPLETED"
<1>1. mt.idx \in Nat /\ mt.idx > 0 /\ first \in Nat  BY FieldsTyped DEF Inv
<1>2. mt.idx > 1  BY <1>1 DEF Inv, ResumedFirst
<1>3. Group(i) \in Indices /\ (Group(i) <= 1 <=> i < first + 1 + 1 * WindowSize)  BY <1>1, GroupIs
<1>4. i \in Nat  BY OrderedIs, Numbers
<1>5. Group(i) < mt.idx
  <2>1. 1 * WindowSize = WindowSize  BY Numbers
  <2>2. i < first + 1 + 1 * WindowSize  BY <1>1, <1>4, <2>1, Numbers
  <2>3. Group(i) \in Nat /\ Group(i) <= 1  BY <1>3, <2>2, Numbers
  <2> HIDE DEF Group
  <2> QED  BY <2>3, <1>1, <1>2
<1> QED  BY <1>3, <1>5 DEF Inv, GroupsTrue

(* The operations found in a scratch space that holds a window. *)
LEMMA SlotsUsed ==
  ASSUME NEW a \in Indices, NEW w \in Slots, Saved(a, w)
  PROVE  /\ {k \in Slots : \A j \in 1..k : scratch[j].op # 0} = 1..w
         /\ {scratch[k].op : k \in 1..w} = a..(a + w - 1)
         /\ \A k \in 1..w : k \in Slots /\ scratch[k].op = a + k - 1
<1>0. a \in Nat /\ a > 0 /\ w \in 1..WindowSize  BY Numbers
<1>1. \A k \in 1..w : k \in Slots /\ scratch[k].op = a + k - 1  BY <1>0, Numbers DEF Saved
<1>2. \A k \in Slots : ~(k <= w) => scratch[k].op = 0  BY DEF Saved
<1>3. {k \in Slots : \A j \in 1..k : scratch[j].op # 0} = 1..w
  <2>1. ASSUME NEW k \in Slots, \A j \in 1..k : scratch[j].op # 0 PROVE k \in 1..w
    <3>1. k \in 1..k  BY Numbers
    <3> QED  BY <3>1, <2>1, <1>2, <1>0, Numbers
  <2>2. ASSUME NEW k \in 1..w, NEW j \in 1..k PROVE k \in Slots /\ scratch[j].op # 0
    <3>1. j \in 1..w  BY <1>0
    <3> QED  BY <3>1, <1>0, <1>1
  <2> QED  BY <2>1, <2>2
<1>4. {scratch[k].op : k \in 1..w} = a..(a + w - 1)
  <2>1. ASSUME NEW i \in a..(a + w - 1) PROVE \E k \in 1..w : scratch[k].op = i
    <3>1. i - a + 1 \in 1..w /\ a + (i - a + 1) - 1 = i  BY <1>0
    <3> QED  BY <3>1, <1>1
  <2>2. ASSUME NEW k \in 1..w PROVE scratch[k].op \in a..(a + w - 1)
    BY <1>0, <1>1
  <2> QED  BY <2>1, <2>2
<1> QED  BY <1>1, <1>3, <1>4

(* The window in the scratch space is found when the header counts what comes before it. *)
LEMMA Reconstructed ==
  ASSUME Inv, ReconstructDataFromCow
  PROVE  Rebuilt \/ NotRebuilt
<1> DEFINE used == {k \in Slots : \A j \in 1..k : scratch[j].op # 0}
           saved == {scratch[k].op : k \in used}
           following == {i \in OrderedOps(ra.next - 1) : \A j \in ra.next..i : j \in saved}
           slotOf(i) == CHOOSE k \in used : scratch[k].op = i
           all == following = saved \/ following = OrderedOps(ra.next - 1)
<1>1. /\ ra.pc = "reconstruct"
      /\ map' = [i \in Indices |-> IF i \in saved THEN slotOf(i) ELSE 0]
      /\ all => /\ window' = Cardinality(used) /\ populate' = FALSE
                /\ ra' = [ra EXCEPT !.pc = "sync", !.next = IF following = {} THEN @ ELSE @ + window']
                /\ UNCHANGED io_state
      /\ ~all => /\ ra' = [ra EXCEPT !.pc = "end"] /\ io_state' = "READ_AHEAD_FAILURE"
                 /\ UNCHANGED <<window, populate>>
      /\ UNCHANGED <<device, cowfile, power, merge_initiated, resume_merge, ra_started, groups, mt, reader,
                     faults>>
  BY DEF ReconstructDataFromCow
<1>2. /\ head.done /\ ra.next = mt.next /\ mt.next = first + 1 /\ first = head.num /\ OrderedAt(mt.next)
  BY <1>1 DEF Inv, RaBegins, RaAlone
<1>3. first \in Nat /\ mt.next \in Nat  BY FieldsTyped DEF Inv
<1>4. PICK a \in Indices, w \in Slots : IsWindow(a, w) /\ Saved(a, w) /\ Counts(head, a)
  BY <1>2 DEF Inv, Vouched
<1>0. a \in Nat /\ a > 0 /\ w \in 1..WindowSize  BY Numbers
<1>5. used = 1..w /\ saved = a..(a + w - 1) /\ \A k \in 1..w : k \in Slots /\ scratch[k].op = a + k - 1
  <2>1. used = 1..w /\ {scratch[k].op : k \in 1..w} = a..(a + w - 1)
        /\ \A k \in 1..w : k \in Slots /\ scratch[k].op = a + k - 1
    BY <1>4, SlotsUsed
  <2> QED  BY <2>1
<1>6. \A i \in saved : slotOf(i) = i - a + 1
  <2> SUFFICES ASSUME NEW i \in saved PROVE slotOf(i) = i - a + 1  OBVIOUS
  <2>0. i \in a..(a + w - 1)  BY <1>5
  <2>1. i - a + 1 \in used /\ scratch[i - a + 1].op = i
    <3>1. i - a + 1 \in 1..w /\ a + (i - a + 1) - 1 = i  BY <2>0, <1>0
    <3> QED  BY <3>1, <1>5
  <2>2. \A k \in used : scratch[k].op = i => k = i - a + 1
    <3> SUFFICES ASSUME NEW k \in 1..w, scratch[k].op = i PROVE k = i - a + 1  BY <1>5
    <3>1. a + k - 1 = i  BY <1>5
    <3> QED  BY <3>1, <2>0, <1>0
  <2> QED  BY <2>1, <2>2
<1>7. a + w - 1 \in Indices /\ \A i \in a..(a + w - 1) : i \in Indices /\ IsOrderedOp(i)
  <2>1. OrderedAt(a + w - 1)  BY <1>4 DEF IsWindow
  <2>2. ASSUME NEW i \in a..(a + w - 1) PROVE i \in Indices /\ i <= a + w - 1
    BY <2>1, <1>0, Numbers
  <2> QED  BY <2>1, <2>2, OrderedFirst
<1>8. /\ map' = [i \in Indices |-> IF i \in saved THEN slotOf(i) ELSE 0]
      /\ following = {i \in OrderedOps(head.num) : \A j \in ra.next..i : j \in saved}
      /\ all <=> (following = saved \/ following = OrderedOps(head.num))
  <2>1. ra.next - 1 = head.num  BY <1>2, <1>3
  <2> QED  BY <1>1, <2>1
<1> HIDE DEF used, saved, following, slotOf, all
<1>9. CASE head.num = a - 1
  <2>1. mt.next = a  BY <1>9, <1>2, <1>3, <1>0
  <2>2. following = saved
    <3>1. ASSUME NEW i \in saved PROVE i \in following
      <4>1. i \in a..(a + w - 1)  BY <1>5
      <4>2. i \in OrderedOps(head.num)  BY <4>1, <1>7, <1>9, <1>0, OrderedIs
      <4>3. \A j \in ra.next..i : j \in saved  BY <4>1, <1>0, <1>2, <1>5, <2>1
      <4> QED  BY <4>2, <4>3, <1>8
    <3>2. ASSUME NEW i \in following PROVE i \in saved
      <4>1. i \in OrderedOps(head.num) /\ \A j \in ra.next..i : j \in saved  BY <1>8
      <4>2. i \in Nat /\ i > a - 1  BY <4>1, <1>9, OrderedIs, Numbers
      <4>3. i \in ra.next..i  BY <4>2, <1>0, <1>2, <2>1
      <4> QED  BY <4>1, <4>3
    <3> QED  BY <3>1, <3>2
  <2>3. window' = w
    <3>1. Cardinality(1..w) = w  BY <1>0, FS_Interval
    <3> QED  BY <3>1, <2>2, <1>1, <1>5, <1>8
  <2>4. following # {}
    <3>1. a \in saved  BY <1>0, <1>5
    <3> QED  BY <3>1, <2>2
  <2>5. ra' = [ra EXCEPT !.pc = "sync", !.next = ra.next + window']  BY <2>2, <2>4, <1>1, <1>8
  <2>6. map' = [i \in Indices |-> IF mt.next <= i /\ i < mt.next + window' THEN i - mt.next + 1 ELSE 0]
    <3>1. \A i \in Indices : i \in saved <=> mt.next <= i /\ i < mt.next + window'
      BY <2>1, <2>3, <1>5, <1>0, Numbers
    <3>2. \A i \in saved : slotOf(i) = i - mt.next + 1  BY <1>6, <2>1
    <3> QED  BY <3>1, <3>2, <1>8
  <2> QED  BY <1>1, <1>4, <1>8, <2>1, <2>2, <2>3, <2>5, <2>6 DEF Rebuilt
<1>10. CASE Covers(head.num, a)
  <2>1. \A i \in saved : i <= head.num
    <3> SUFFICES ASSUME NEW i \in a..(a + w - 1) PROVE i <= head.num  BY <1>5
    <3>1. i \in Indices /\ IsOrderedOp(i) /\ i < a + WindowSize  BY <1>7, <1>0, Numbers
    <3> QED  BY <3>1, <1>10 DEF Covers
  <2>2. following = {}
    <3> SUFFICES ASSUME NEW i \in following PROVE FALSE  OBVIOUS
    <3>1. i \in OrderedOps(head.num) /\ \A j \in ra.next..i : j \in saved  BY <1>8
    <3>2. i \in Nat /\ i > head.num  BY <3>1, OrderedIs, Numbers
    <3>3. ra.next \in ra.next..i  BY <3>2, <1>2, <1>3
    <3> QED  BY <3>1, <3>3, <2>1, <1>2, <1>3
  <2>3. mt.next \in OrderedOps(head.num)  BY <1>2, <1>3, OrderedIs
  <2>4. a \in saved  BY <1>0, <1>5
  <2>5. ~all  BY <1>8, <2>2, <2>3, <2>4
  <2>6. ASSUME NEW i \in Indices
        PROVE  map'[i] \in 0..WindowSize /\ (map'[i] # 0 => scratch[map'[i]].op = i)
    <3>1. map'[i] = IF i \in saved THEN slotOf(i) ELSE 0  BY <1>8
    <3>2. CASE i \in saved
      <4>1. map'[i] = i - a + 1 /\ i \in a..(a + w - 1)  BY <3>1, <3>2, <1>5, <1>6
      <4>2. i - a + 1 \in 1..w /\ a + (i - a + 1) - 1 = i  BY <4>1, <1>0
      <4>3. scratch[i - a + 1].op = i  BY <4>2, <1>5
      <4> QED  BY <4>1, <4>2, <4>3, <1>0, Numbers
    <3>3. CASE i \notin saved  BY <3>1, <3>3, Numbers
    <3> QED  BY <3>2, <3>3
  <2>7. map' \in [Indices -> 0..WindowSize]  BY <2>6, <1>8
  <2> QED  BY <1>1, <2>5, <2>6, <2>7 DEF NotRebuilt
<1> QED  BY <1>4, <1>9, <1>10

(* The next operation of a window is the one in the next slot. *)
LEMMA WriteTrue ==
  ASSUME Inv, mt.pc = "write", mt.done < window
  PROVE  /\ OrderedAt(MtStart) /\ Loaded /\ OrderedAt(mt.next)
         /\ scratch[mt.done + 1].val = Ops[mt.next].src
<1>0. Fields  BY FieldsTyped DEF Inv
<1>1. mt.next \in Nat /\ mt.done \in Nat /\ window \in Nat /\ mt.done < mt.next
  BY <1>0 DEF Inv, DoneTrue
<1>2. OrderedAt(MtStart) /\ Loaded  BY PhaseIs DEF Inv, WindowLoaded
<1>3. IsWindow(MtStart, window) /\ Saved(MtStart, window)  BY <1>2 DEF Loaded
<1>4. window \in 1..WindowSize /\ OrderedAt(MtStart + window - 1) /\ MtStart \in Nat
  BY <1>1, <1>3 DEF IsWindow
<1>5. mt.done + 1 \in Slots /\ mt.done + 1 <= window  BY <1>1, <1>4, Numbers
<1>6. scratch[mt.done + 1].op = MtStart + (mt.done + 1) - 1  BY <1>3, <1>5 DEF Saved
<1>7. MtStart + (mt.done + 1) - 1 = mt.next  BY <1>1
<1>8. mt.next \in Indices  BY <1>1, <1>4, Numbers
<1>9. scratch[mt.done + 1].op # 0  BY <1>6, <1>7, <1>8, Numbers
<1>10. IsOrderedOp(mt.next) /\ scratch[mt.done + 1].val = Ops[mt.next].src
  BY <1>5, <1>6, <1>7, <1>9 DEF Inv, SlotsTrue
<1> QED  BY <1>2, <1>8, <1>10

(* In a batch nothing ordered is left, and every window is merged. *)
LEMMA ReplaceTrue ==
  ASSUME Inv, AtBatch
  PROVE  /\ ra.pc = "end" /\ ~OrderedAt(MtStart) /\ ~OrderedAt(mt.next)
         /\ \A i \in Indices : IsOrderedOp(i) => i <= head.num /\ i <= head_stored.num
         /\ \A i \in OrderedOps(first) : Group(i) <= WindowsDone /\ group[Group(i)] = "COMPLETED"
<1>1. /\ ra.pc = "end" /\ ~OrderedAt(MtStart) /\ ~OrderedAt(mt.next)
      /\ \A i \in Indices : IsOrderedOp(i) => i <= head.num /\ i <= head_stored.num
  BY DEF Inv, BatchTurn
<1>2. ASSUME NEW i \in OrderedOps(first) PROVE Group(i) <= WindowsDone /\ group[Group(i)] = "COMPLETED"
  <2>1. Group(i) <= WindowsDone /\ Group(i) \in Indices  BY <1>1, GroupsIn DEF Inv, Aligned
  <2>2. WindowsDone = mt.idx - 1  OBVIOUS
  <2>3. mt.idx \in Nat  BY FieldsTyped DEF Inv
  <2>4. Group(i) < mt.idx  BY <2>1, <2>2, <2>3, Numbers
  <2> QED  BY <2>1, <2>4 DEF Inv, GroupsTrue
<1> QED  BY <1>1, <1>2

(* What the merge of one operation leaves as it was. *)
LEMMA Overwritten ==
  ASSUME mt.next \in Indices, stored' = stored,
         \A b \in Blocks : base'[b] = IF b = Ops[mt.next].new THEN Ops[mt.next].src ELSE base[b]
  PROVE  /\ \A i \in Indices : i > mt.next /\ IsOrderedOp(i) /\ Intact(i) => Intact(i)'
         /\ \A n : MergedUpTo(n) => MergedUpTo(n)'
         /\ \A i \in Indices : base[Ops[i].new] = Ops[i].src => base'[Ops[i].new] = Ops[i].src
         /\ base'[Ops[mt.next].new] = Ops[mt.next].src
<1>1. \A i \in Indices : base[Ops[i].new] = Ops[i].src => base'[Ops[i].new] = Ops[i].src
  BY OrderedFirst, OpsTyped
<1>2. base'[Ops[mt.next].new] = Ops[mt.next].src  BY OpsTyped
<1>3. ASSUME NEW i \in Indices, i > mt.next, IsOrderedOp(i), Intact(i) PROVE Intact(i)'
  <2>1. Ops[i].src # Ops[mt.next].new /\ Ops[i].src \in Blocks
    BY <1>3, OrderedFirst, OpsTyped, Numbers
  <2> QED  BY <1>3, <2>1 DEF Intact
<1>4. ASSUME NEW n, MergedUpTo(n) PROVE MergedUpTo(n)'
  BY <1>1, <1>4 DEF MergedUpTo
<1> QED  BY <1>1, <1>2, <1>3, <1>4

(* The operations of the windows that are neither merged nor being merged come later. *)
LEMMA PastWindow ==
  ASSUME Inv, mt.pc = "write", NEW i \in OrderedOps(first),
         group[Group(i)] \notin {"IN_PROGRESS", "COMPLETED"}
  PROVE  i >= MtStart + window
<1>0. Fields  BY FieldsTyped DEF Inv
<1>1. mt.next \in Nat /\ mt.done \in Nat /\ mt.idx \in Nat /\ window \in Nat /\ window <= WindowSize
  BY <1>0
<1>2. OrderedAt(MtStart) /\ WindowsDone = mt.idx - 1  BY PhaseIs
<1>3. Group(i) \in Indices /\ (Group(i) <= WindowsDone + 1 <=> i < MtStart + WindowSize)
  BY <1>2, GroupsIn
<1>4. ~(Group(i) < mt.idx) /\ Group(i) # mt.idx  BY <1>3 DEF Inv, GroupsTrue
<1>5. Group(i) \in Nat /\ i \in Nat  BY <1>3, OrderedIs, Numbers
<1>6. ~(i < MtStart + WindowSize)  BY <1>1, <1>2, <1>3, <1>4, <1>5
<1> QED  BY <1>1, <1>5, <1>6, Numbers


(* What a header does not count is intact, or it is in the window that comes next. *)
LEMMA StartSources ==
  ASSUME Inv, NEW i \in OrderedOps(head.num)
  PROVE  Intact(i) \/ (head.done /\ i <= head.num + WindowSize)
<1> SUFFICES ASSUME ~Intact(i) PROVE head.done /\ i <= head.num + WindowSize  OBVIOUS
<1>0. i \in Indices /\ i > head.num /\ IsOrderedOp(i) /\ i \in Nat /\ i > 0  BY OrderedIs, Numbers
<1>1. head.num \in Nat  BY FieldsTyped DEF Inv
<1>2. head.done /\ \E k \in Slots : scratch[k].op = i  BY <1>0 DEF Inv, Recoverable
<1>3. PICK k \in Slots : scratch[k].op = i  BY <1>2
<1>4. PICK a \in Indices, w \in Slots : IsWindow(a, w) /\ Saved(a, w) /\ Counts(head, a)
  BY <1>2 DEF Inv, Vouched
<1>5. a \in Nat /\ w \in 1..WindowSize /\ k \in 1..WindowSize  BY Numbers
<1>6. scratch[k].op = IF k <= w THEN a + k - 1 ELSE 0  BY <1>4 DEF Saved
<1>7. i = a + k - 1  BY <1>0, <1>3, <1>6
<1>8. ~Covers(head.num, a)
  <2>1. i < a + WindowSize  BY <1>5, <1>7, Numbers
  <2> QED  BY <2>1, <1>0, <1>1 DEF Covers
<1>9. head.num = a - 1  BY <1>4, <1>8
<1> QED  BY <1>2, <1>1, <1>5, <1>7, <1>9, Numbers
-----------------------------------------------------------------------------
(* The handler and the read workers. *)

(* A start finds what the invariant says of storage, and counts windows from the header on. *)
LEMMA StartHandlerKeeps == ASSUME Inv, StartHandler PROVE Inv'
<1>1. CASE OrderedOps(head.num) # {}
  <2>1. UNCHANGED << base, stored, head, head_stored, scratch, scratch_stored, merge_initiated,
        ra_started, group, ios, map, window, reader, crashes, faults>>
    BY SMT, <1>1 DEF StartHandler
  <2>2. /\ ~up
        /\ head.num <= Len(Ops)
        /\ up' = TRUE
        /\ first' = head.num
        /\ resume_merge' = (head.num > 0)
        /\ populate' = head.done
        /\ io_state' = "MERGE_READY"
        /\ merge_initiated = FALSE
        /\ ra_started = FALSE
        /\ ra'.next = head.num + 1
        /\ ra'.temp = << >>
        /\ ra'.resumed = head.done
        /\ mt'.pc = "begin"
        /\ mt'.next = head.num + 1
        /\ mt'.idx = 1
        /\ mt'.done = 0
        /\ \A r \in Readers : reader[r].pc = "idle"
        /\ \A g \in Indices : group[g] = "PENDING"
        /\ \A i \in Indices : map[i] = 0
        /\ head_stored = head
        /\ scratch_stored = scratch
        /\ stored = base
        /\ ra'.pc = "start"
        /\ serving' = IF head.num > 0 /\ head.done THEN "waiting" ELSE "yes"
    <3>1. /\ ~up
          /\ head.num <= Len(Ops)
          /\ up' = TRUE
          /\ first' = head.num
          /\ resume_merge' = (head.num > 0)
          /\ populate' = head.done
          /\ io_state' = "MERGE_READY"
          /\ merge_initiated = FALSE
          /\ ra_started = FALSE
      BY SMT, <1>1 DEF Inv, StartHandler, TypeOK, Down, ReadersServe
    <3>2. /\ ra'.next = head.num + 1
          /\ ra'.temp = << >>
          /\ ra'.resumed = head.done
      BY SMT, <1>1 DEF Inv, StartHandler, TypeOK, RaType, Down, ReadersServe
    <3>3. /\ mt'.pc = "begin"
          /\ mt'.next = head.num + 1
          /\ mt'.idx = 1
          /\ mt'.done = 0
      BY SMT, <1>1 DEF Inv, StartHandler, TypeOK, MergeType
    <3>4. /\ \A r \in Readers : reader[r].pc = "idle"
          /\ \A g \in Indices : group[g] = "PENDING"
          /\ \A i \in Indices : map[i] = 0
          /\ head_stored = head
          /\ scratch_stored = scratch
          /\ stored = base
      BY SMT, <1>1 DEF Inv, StartHandler, TypeOK, Down, ReadersServe
    <3>5. ra'.pc = "start"
      BY SMT, <1>1 DEF Inv, StartHandler, TypeOK, RaType, Down, ReadersServe
    <3>6. serving' = IF head.num > 0 /\ head.done THEN "waiting" ELSE "yes"
      BY SMT, <1>1 DEF Inv, StartHandler, TypeOK, Down, ReadersServe
    <3> QED  BY <3>1, <3>2, <3>3, <3>4, <3>5, <3>6
  <2>3. TypeOK'
    <3>1. up' \in BOOLEAN
      BY SMT, <1>1, <2>2, Numbers, OpsTyped DEF Inv, TypeOK, StartHandler
    <3>2. first' \in Nat
      BY SMT, <1>1, <2>2, Numbers, OpsTyped DEF Inv, TypeOK, StartHandler
    <3>3. io_state' \in IoStates
      BY SMT, <1>1, <2>2, Numbers, OpsTyped DEF Inv, TypeOK, StartHandler, IoStates
    <3>4. resume_merge' \in BOOLEAN
      BY SMT, <1>1, <2>2, Numbers, OpsTyped DEF Inv, TypeOK, StartHandler
    <3>5. populate' \in BOOLEAN
      BY SMT, <1>1, <2>2, Numbers, OpsTyped DEF Inv, TypeOK, StartHandler
    <3>6. serving' \in {"no", "waiting", "yes", "over"}
      BY SMT, <1>1, <2>2, Numbers, OpsTyped DEF Inv, TypeOK, StartHandler
    <3>7. ra' \in RaType /\ Len(ra'.temp) <= WindowSize
      <4>1. PICK async \in Iouring :
              ra' = [RaIdle EXCEPT !.pc = IF OrderedOps(head.num) # {} THEN "start" ELSE "end",
                                   !.next = head.num + 1, !.async = async, !.resumed = head.done]
        BY DEF StartHandler
      <4>2. ra' = [pc |-> "start", next |-> head.num + 1, temp |-> << >>, async |-> async, resumed |-> head.done]
        BY <4>1, <1>1 DEF RaIdle
      <4>3. head.num \in Nat /\ head.done \in BOOLEAN /\ async \in BOOLEAN  BY SizesAssumption, FieldsTyped DEF Inv
      <4>4. head.num + 1 \in Positions  BY <4>3, <2>2, Numbers DEF Positions
      <4>5. << >> \in Seq([op : Indices, val : Values])  OBVIOUS
      <4>6. ra' \in RaType  BY <4>2, <4>3, <4>4, <4>5 DEF RaType, RaSteps
      <4>7. Len(ra'.temp) = 0  BY <2>2
      <4> QED  BY <4>6, <4>7, Numbers
    <3>8. mt' \in MergeType
      <4>1. PICK async \in Iouring :
              mt' = [MergeIdle EXCEPT !.pc = "begin", !.next = head.num + 1, !.async = async]
        BY DEF StartHandler
      <4>2. mt' = [pc |-> "begin", next |-> head.num + 1, idx |-> 1, done |-> 0, async |-> async]
        BY <4>1 DEF MergeIdle
      <4>3. head.num \in Nat /\ async \in BOOLEAN  BY SizesAssumption, FieldsTyped DEF Inv
      <4>4. head.num + 1 \in Positions /\ 1 \in Positions /\ 0 \in 0..Len(Ops)
        BY <4>3, <2>2, Numbers DEF Positions
      <4> QED  BY <4>2, <4>3, <4>4 DEF MergeType, MergeSteps
    <3> QED  BY <2>1, <3>1, <3>2, <3>3, <3>4, <3>5, <3>6, <3>7, <3>8 DEF Inv, TypeOK
  <2>4. Fields /\ Fields' /\ Flags /\ Flags' /\ Cells /\ Cells'
    BY <2>3, FieldsTyped, FieldsTypedNext DEF Inv
  <2>5. \A a, w : Saved(a, w)' <=> Saved(a, w)
    BY <2>1 DEF Saved
  <2>6. \A a, w : Mapped(a, w)' <=> Mapped(a, w)
    BY <2>1 DEF Mapped
  <2>7. \A j : Intact(j)' <=> Intact(j)
    BY <2>1 DEF Intact
  <2>8. \A j : MergedUpTo(j)' <=> MergedUpTo(j)
    BY <2>1 DEF MergedUpTo
  <2>9. SlotsTrue' /\ Vouched' /\ Recoverable'
    BY <2>1, SlotsTrueFrame, VouchedFrame, RecoverableFrame DEF Inv
  <2>10. head.num \in Nat /\ head.num <= Len(Ops) /\ head.done \in BOOLEAN
    BY <2>2, <2>4
  <2>11. mt'.next = head.num + 1 /\ mt'.done = 0 /\ mt'.idx = 1 /\ mt'.pc = "begin" /\ ra'.next = head.num + 1
    BY <2>2
  <2>12. Len(ra'.temp) = 0
    BY <2>2
  <2>13. MtStart' = head.num + 1 /\ WindowsDone' = 0 /\ RaBegin' = head.num + 1
    BY <2>10, <2>11, <2>12
  <2>14. OrderedAt(head.num + 1)
    BY <1>1, <2>10, OrderedIs, OrderedFirst, Numbers
  <2>15. WindowLoaded'
    BY SMT, <2>1, <2>2, <2>5, <2>6 DEF Inv, WindowLoaded, Loaded
  <2>16. MergeBusy'
    BY SMT, <2>1, <2>2 DEF Inv, MergeBusy, DoneTrue, RaAlone, RaMayTake, GroupsTrue
  <2>17. WindowMerged'
    BY SMT, <2>1, <2>2 DEF Inv, WindowMerged, DoneTrue, WindowLoaded, RaAlone
  <2>18. DoneTrue'
    <3>1. mt'.done < mt'.next  BY <2>10, <2>11
    <3> QED  BY <2>11, <3>1 DEF DoneTrue
  <2>19. RaAlone'
    <3>1. head.num = mt'.next - 1  BY <2>10, <2>11
    <3> QED  BY <2>1, <2>2, <2>11, <2>14, <3>1 DEF RaAlone
  <2>20. RaMayTake'
    BY SMT, <2>1, <2>2 DEF Inv, RaMayTake, WindowMerged, RaAlone, RaBegins, DoneTrue, Fetched,
        MergeBusy
  <2>21. RaBegins'
    BY SMT, <2>1, <2>2 DEF Inv, RaBegins, RaAlone, Down, Flags
  <2>22. RaCopies'
    BY SMT, <2>1, <2>2, <2>5 DEF Inv, RaCopies, RaMayTake, RaAlone, Fetched
  <2>23. RaSyncs'
    BY SMT, <2>1, <2>2, <2>5, <2>6 DEF Inv, RaSyncs, RaAlone, RaCopies, Fetched
  <2>24. Fetched'
    <3>1. RaBegin' >= 1  BY <2>13, <2>10
    <3>2. 1..Len(ra'.temp) = {}  BY <2>12
    <3> QED  BY <2>2, <3>1, <3>2 DEF Fetched
  <2>25. Ended'
    BY <1>1, <2>1, <2>2 DEF Ended, OrderedOps
  <2>26. BatchTurn'
    BY <2>1, <2>2, <2>11, <2>13, <2>14 DEF BatchTurn
  <2>27. Down'
    BY SMT, <2>1, <2>2 DEF Inv, Down, Flags
  <2>28. Aligned'
    <3>1. 0 * WindowSize = 0  BY Numbers
    <3>2. head.num + 1 = head.num + 1 + 0 * WindowSize  BY <3>1, <2>10
    <3>3. first' = head.num /\ 0 + head.num + 1 <= head.num + 1  BY <2>2, <2>10
    <3>4. ~OrderedAt(head.num + 1) => OrderedOps(first)' = {}
      BY <1>1, <2>2, <2>14 DEF OrderedOps
    <3> QED  BY <2>13, <3>2, <3>3, <3>4 DEF Aligned
  <2>29. GroupsTrue'
    <3>1. \A g \in Indices : group'[g] = "PENDING" /\ ~(g < mt'.idx)  BY <2>1, <2>2, <2>11, Numbers
    <3> QED  BY <2>11, <3>1 DEF GroupsTrue
  <2>30. ReadersServe'
    BY SMT, <2>1, <2>2 DEF Inv, ReadersServe
  <2>31. IosCounted'
    <3>1. \A g \in Indices : ios'[g] = 0  BY <2>1, <2>2 DEF Inv, Down
    <3> QED  BY <2>1, <2>2, <3>1, NobodyCounted DEF IosCounted
  <2>32. Drained'
    BY SMT, <2>1, <2>2 DEF Inv, Drained, GroupsTrue, ReadersServe
  <2>33. MapReady'
    <3>1. \A i \in OrderedOps(first)' : Group(i)' \in Indices  BY <2>2, <2>10, GroupIsNext
    <3> QED  BY <2>1, <2>2, <3>1 DEF MapReady
  <2>34. Faultless'
    BY SMT, <2>1, <2>2 DEF Inv, Faultless, RaAlone, GroupsTrue, MapReady
  <2>35. CountedMerged'
    <3>1. head.num = MtStart' - 1  BY <2>13, <2>10
    <3> QED  BY <2>1, <2>2, <2>11, <2>8, <3>1 DEF Inv, CountedMerged
  <2>36. SessionMerged'
    <3>1. ~\E i \in Indices : first' < i /\ i < mt'.next  BY <2>2, <2>10, <2>11, Numbers
    <3> QED  BY <2>11, <3>1 DEF SessionMerged
  <2>37. RaSources'
    <3>1. ASSUME ~head.done, NEW i \in Indices, i >= head.num + 1, IsOrderedOp(i) PROVE Intact(i)
      <4>1. i > head.num  BY <3>1, <2>10, Numbers
      <4> QED  BY <4>1, <3>1 DEF Inv, Recoverable
    <3> QED  BY <2>2, <2>7, <2>13, <3>1 DEF RaSources
  <2>38. ReadSources'
    <3>1. ASSUME NEW i \in OrderedOps(head.num)
          PROVE  Intact(i) \/ (head.done /\ i <= head.num + WindowSize)
      BY StartSources DEF Inv
    <3>2. OrderedOps(first)' = OrderedOps(head.num)  BY <2>2 DEF OrderedOps
    <3> QED  BY <2>2, <2>7, <3>1, <3>2 DEF ReadSources
  <2>39. ResumedFirst'
    BY SMT, <2>1, <2>2 DEF Inv, ResumedFirst, RaAlone
  <2>40. ResumedMapped'
    BY SMT, <2>1, <2>2 DEF Inv, ResumedMapped, ResumedFirst, GroupsTrue
  <2>41. ResumedServed'
    BY <2>1, <2>2 DEF ResumedServed
  <2>42. ReadsTrue'
    BY SMT, <2>1, <2>2, <2>7, GroupsIn, OrderedIs DEF Inv, ReadsTrue, ReadersServe
  <2> QED  BY <2>9, <2>3, <2>15, <2>16, <2>17, <2>18, <2>19, <2>20, <2>21, <2>22, <2>23, <2>24,
        <2>25, <2>26, <2>27, <2>28, <2>29, <2>30, <2>31, <2>32, <2>33, <2>34, <2>35, <2>36, <2>37,
        <2>38, <2>39, <2>40, <2>41, <2>42 DEF Inv
<1>2. CASE OrderedOps(head.num) = {}
  <2>1. UNCHANGED << base, stored, head, head_stored, scratch, scratch_stored, merge_initiated,
        ra_started, group, ios, map, window, reader, crashes, faults>>
    BY SMT, <1>2 DEF StartHandler
  <2>2. /\ ~up
        /\ head.num <= Len(Ops)
        /\ up' = TRUE
        /\ first' = head.num
        /\ resume_merge' = (head.num > 0)
        /\ populate' = head.done
        /\ io_state' = "MERGE_READY"
        /\ merge_initiated = FALSE
        /\ ra_started = FALSE
        /\ ra'.next = head.num + 1
        /\ ra'.temp = << >>
        /\ ra'.resumed = head.done
        /\ mt'.pc = "begin"
        /\ mt'.next = head.num + 1
        /\ mt'.idx = 1
        /\ mt'.done = 0
        /\ \A r \in Readers : reader[r].pc = "idle"
        /\ \A g \in Indices : group[g] = "PENDING"
        /\ \A i \in Indices : map[i] = 0
        /\ head_stored = head
        /\ scratch_stored = scratch
        /\ stored = base
        /\ ra'.pc = "end"
        /\ serving' = "yes"
    <3>1. /\ ~up
          /\ head.num <= Len(Ops)
          /\ up' = TRUE
          /\ first' = head.num
          /\ resume_merge' = (head.num > 0)
          /\ populate' = head.done
          /\ io_state' = "MERGE_READY"
          /\ merge_initiated = FALSE
          /\ ra_started = FALSE
      BY SMT, <1>2 DEF Inv, StartHandler, TypeOK, Down, ReadersServe
    <3>2. /\ ra'.next = head.num + 1
          /\ ra'.temp = << >>
          /\ ra'.resumed = head.done
      BY SMT, <1>2 DEF Inv, StartHandler, TypeOK, RaType, Down, ReadersServe
    <3>3. /\ mt'.pc = "begin"
          /\ mt'.next = head.num + 1
          /\ mt'.idx = 1
          /\ mt'.done = 0
      BY SMT, <1>2 DEF Inv, StartHandler, TypeOK, MergeType
    <3>4. /\ \A r \in Readers : reader[r].pc = "idle"
          /\ \A g \in Indices : group[g] = "PENDING"
          /\ \A i \in Indices : map[i] = 0
          /\ head_stored = head
          /\ scratch_stored = scratch
          /\ stored = base
      BY SMT, <1>2 DEF Inv, StartHandler, TypeOK, Down, ReadersServe
    <3>5. ra'.pc = "end"
      BY SMT, <1>2 DEF Inv, StartHandler, TypeOK, RaType, Down, ReadersServe
    <3>6. serving' = "yes"
      BY SMT, <1>2 DEF Inv, StartHandler, TypeOK, Down, ReadersServe
    <3> QED  BY <3>1, <3>2, <3>3, <3>4, <3>5, <3>6
  <2>3. TypeOK'
    <3>1. up' \in BOOLEAN
      BY SMT, <1>2, <2>2, Numbers, OpsTyped DEF Inv, TypeOK, StartHandler
    <3>2. first' \in Nat
      BY SMT, <1>2, <2>2, Numbers, OpsTyped DEF Inv, TypeOK, StartHandler
    <3>3. io_state' \in IoStates
      BY SMT, <1>2, <2>2, Numbers, OpsTyped DEF Inv, TypeOK, StartHandler, IoStates
    <3>4. resume_merge' \in BOOLEAN
      BY SMT, <1>2, <2>2, Numbers, OpsTyped DEF Inv, TypeOK, StartHandler
    <3>5. populate' \in BOOLEAN
      BY SMT, <1>2, <2>2, Numbers, OpsTyped DEF Inv, TypeOK, StartHandler
    <3>6. serving' \in {"no", "waiting", "yes", "over"}
      BY SMT, <1>2, <2>2, Numbers, OpsTyped DEF Inv, TypeOK, StartHandler
    <3>7. ra' \in RaType /\ Len(ra'.temp) <= WindowSize
      <4>1. PICK async \in Iouring :
              ra' = [RaIdle EXCEPT !.pc = IF OrderedOps(head.num) # {} THEN "start" ELSE "end",
                                   !.next = head.num + 1, !.async = async, !.resumed = head.done]
        BY DEF StartHandler
      <4>2. ra' = [pc |-> "end", next |-> head.num + 1, temp |-> << >>, async |-> async, resumed |-> head.done]
        BY <4>1, <1>2 DEF RaIdle
      <4>3. head.num \in Nat /\ head.done \in BOOLEAN /\ async \in BOOLEAN  BY SizesAssumption, FieldsTyped DEF Inv
      <4>4. head.num + 1 \in Positions  BY <4>3, <2>2, Numbers DEF Positions
      <4>5. << >> \in Seq([op : Indices, val : Values])  OBVIOUS
      <4>6. ra' \in RaType  BY <4>2, <4>3, <4>4, <4>5 DEF RaType, RaSteps
      <4>7. Len(ra'.temp) = 0  BY <2>2
      <4> QED  BY <4>6, <4>7, Numbers
    <3>8. mt' \in MergeType
      <4>1. PICK async \in Iouring :
              mt' = [MergeIdle EXCEPT !.pc = "begin", !.next = head.num + 1, !.async = async]
        BY DEF StartHandler
      <4>2. mt' = [pc |-> "begin", next |-> head.num + 1, idx |-> 1, done |-> 0, async |-> async]
        BY <4>1 DEF MergeIdle
      <4>3. head.num \in Nat /\ async \in BOOLEAN  BY SizesAssumption, FieldsTyped DEF Inv
      <4>4. head.num + 1 \in Positions /\ 1 \in Positions /\ 0 \in 0..Len(Ops)
        BY <4>3, <2>2, Numbers DEF Positions
      <4> QED  BY <4>2, <4>3, <4>4 DEF MergeType, MergeSteps
    <3> QED  BY <2>1, <3>1, <3>2, <3>3, <3>4, <3>5, <3>6, <3>7, <3>8 DEF Inv, TypeOK
  <2>4. Fields /\ Fields' /\ Flags /\ Flags' /\ Cells /\ Cells'
    BY <2>3, FieldsTyped, FieldsTypedNext DEF Inv
  <2>5. \A a, w : Saved(a, w)' <=> Saved(a, w)
    BY <2>1 DEF Saved
  <2>6. \A a, w : Mapped(a, w)' <=> Mapped(a, w)
    BY <2>1 DEF Mapped
  <2>7. \A j : Intact(j)' <=> Intact(j)
    BY <2>1 DEF Intact
  <2>8. \A j : MergedUpTo(j)' <=> MergedUpTo(j)
    BY <2>1 DEF MergedUpTo
  <2>9. SlotsTrue' /\ Vouched' /\ Recoverable'
    BY <2>1, SlotsTrueFrame, VouchedFrame, RecoverableFrame DEF Inv
  <2>10. head.num \in Nat /\ head.num <= Len(Ops) /\ head.done \in BOOLEAN
    BY <2>2, <2>4
  <2>11. mt'.next = head.num + 1 /\ mt'.done = 0 /\ mt'.idx = 1 /\ mt'.pc = "begin" /\ ra'.next = head.num + 1
    BY <2>2
  <2>12. Len(ra'.temp) = 0
    BY <2>2
  <2>13. MtStart' = head.num + 1 /\ WindowsDone' = 0 /\ RaBegin' = head.num + 1
    BY <2>10, <2>11, <2>12
  <2>14. \A i \in Indices : IsOrderedOp(i) => ~(i > head.num)
    BY <1>2, OrderedIs
  <2>15. ~OrderedAt(head.num + 1) /\ \A i \in Indices : IsOrderedOp(i) => i <= head.num
    BY <2>14, <2>10, Numbers
  <2>16. WindowLoaded'
    BY SMT, <2>1, <2>2, <2>5, <2>6 DEF Inv, WindowLoaded, Loaded
  <2>17. MergeBusy'
    BY SMT, <2>1, <2>2 DEF Inv, MergeBusy, DoneTrue, RaAlone, RaMayTake, GroupsTrue
  <2>18. WindowMerged'
    BY SMT, <2>1, <2>2 DEF Inv, WindowMerged, DoneTrue, WindowLoaded, RaAlone
  <2>19. DoneTrue'
    <3>1. mt'.done < mt'.next  BY <2>10, <2>11
    <3> QED  BY <2>11, <3>1 DEF DoneTrue
  <2>20. RaAlone'
    <3>1. head.num = mt'.next - 1  BY <2>10, <2>11
    <3> QED  BY <2>1, <2>2, <2>11, <2>15, <3>1 DEF RaAlone
  <2>21. RaMayTake'
    BY SMT, <2>1, <2>2 DEF Inv, RaMayTake, WindowMerged, RaAlone, RaBegins, DoneTrue, Fetched,
        MergeBusy
  <2>22. RaBegins'
    BY SMT, <2>1, <2>2 DEF Inv, RaBegins, RaAlone, Down, Flags
  <2>23. RaCopies'
    BY SMT, <2>1, <2>2, <2>5 DEF Inv, RaCopies, RaMayTake, RaAlone, Fetched
  <2>24. RaSyncs'
    BY SMT, <2>1, <2>2, <2>5, <2>6 DEF Inv, RaSyncs, RaAlone, RaCopies, Fetched
  <2>25. Fetched'
    <3>1. RaBegin' >= 1  BY <2>13, <2>10
    <3>2. 1..Len(ra'.temp) = {}  BY <2>12
    <3> QED  BY <2>2, <3>1, <3>2 DEF Fetched
  <2>26. Ended'
    BY <1>2, <2>1, <2>2 DEF Ended, OrderedOps
  <2>27. BatchTurn'
    BY <2>1, <2>2, <2>11, <2>13, <2>15 DEF BatchTurn
  <2>28. Down'
    BY SMT, <2>1, <2>2 DEF Inv, Down, Flags
  <2>29. Aligned'
    <3>1. 0 * WindowSize = 0  BY Numbers
    <3>2. head.num + 1 = head.num + 1 + 0 * WindowSize  BY <3>1, <2>10
    <3>3. first' = head.num /\ 0 + head.num + 1 <= head.num + 1  BY <2>2, <2>10
    <3>4. ~OrderedAt(head.num + 1) => OrderedOps(first)' = {}
      BY <1>2, <2>2, <2>15 DEF OrderedOps
    <3> QED  BY <2>13, <3>2, <3>3, <3>4 DEF Aligned
  <2>30. GroupsTrue'
    <3>1. \A g \in Indices : group'[g] = "PENDING" /\ ~(g < mt'.idx)  BY <2>1, <2>2, <2>11, Numbers
    <3> QED  BY <2>11, <3>1 DEF GroupsTrue
  <2>31. ReadersServe'
    BY SMT, <2>1, <2>2 DEF Inv, ReadersServe
  <2>32. IosCounted'
    <3>1. \A g \in Indices : ios'[g] = 0  BY <2>1, <2>2 DEF Inv, Down
    <3> QED  BY <2>1, <2>2, <3>1, NobodyCounted DEF IosCounted
  <2>33. Drained'
    BY SMT, <2>1, <2>2 DEF Inv, Drained, GroupsTrue, ReadersServe
  <2>34. MapReady'
    <3>1. \A i \in OrderedOps(first)' : Group(i)' \in Indices  BY <2>2, <2>10, GroupIsNext
    <3> QED  BY <2>1, <2>2, <3>1 DEF MapReady
  <2>35. Faultless'
    BY SMT, <2>1, <2>2 DEF Inv, Faultless, RaAlone, GroupsTrue, MapReady
  <2>36. CountedMerged'
    <3>1. head.num = MtStart' - 1  BY <2>13, <2>10
    <3> QED  BY <2>1, <2>2, <2>11, <2>8, <3>1 DEF Inv, CountedMerged
  <2>37. SessionMerged'
    <3>1. ~\E i \in Indices : first' < i /\ i < mt'.next  BY <2>2, <2>10, <2>11, Numbers
    <3> QED  BY <2>11, <3>1 DEF SessionMerged
  <2>38. RaSources'
    <3>1. ASSUME ~head.done, NEW i \in Indices, i >= head.num + 1, IsOrderedOp(i) PROVE Intact(i)
      <4>1. i > head.num  BY <3>1, <2>10, Numbers
      <4> QED  BY <4>1, <3>1 DEF Inv, Recoverable
    <3> QED  BY <2>2, <2>7, <2>13, <3>1 DEF RaSources
  <2>39. ReadSources'
    <3>1. ASSUME NEW i \in OrderedOps(head.num)
          PROVE  Intact(i) \/ (head.done /\ i <= head.num + WindowSize)
      BY StartSources DEF Inv
    <3>2. OrderedOps(first)' = OrderedOps(head.num)  BY <2>2 DEF OrderedOps
    <3> QED  BY <2>2, <2>7, <3>1, <3>2 DEF ReadSources
  <2>40. ResumedFirst'
    BY SMT, <2>1, <2>2 DEF Inv, ResumedFirst, RaAlone
  <2>41. ResumedMapped'
    BY SMT, <2>1, <2>2 DEF Inv, ResumedMapped, ResumedFirst, GroupsTrue
  <2>42. ResumedServed'
    BY <2>1, <2>2 DEF ResumedServed
  <2>43. ReadsTrue'
    BY SMT, <2>1, <2>2, <2>7, GroupsIn, OrderedIs DEF Inv, ReadsTrue, ReadersServe
  <2> QED  BY <2>9, <2>3, <2>16, <2>17, <2>18, <2>19, <2>20, <2>21, <2>22, <2>23, <2>24, <2>25,
        <2>26, <2>27, <2>28, <2>29, <2>30, <2>31, <2>32, <2>33, <2>34, <2>35, <2>36, <2>37, <2>38,
        <2>39, <2>40, <2>41, <2>42, <2>43 DEF Inv
<1> QED  BY SMT, <1>1, <1>2 DEF StartHandler

(* The workers serve when a resumed window is in the buffer, or a timeout is on record. *)
LEMMA WaitForRaThreadToStartKeeps == ASSUME Inv, WaitForRaThreadToStart PROVE Inv'
<1>1. CASE (ra_started \/ ra.pc = "end") /\ NoFault
  <2>1. UNCHANGED << base, stored, head, head_stored, scratch, scratch_stored, up, first, io_state,
        merge_initiated, resume_merge, populate, ra_started, group, ios, map, window, ra, mt,
        reader, crashes, faults>>
    BY SMT, <1>1 DEF WaitForRaThreadToStart
  <2>2. /\ serving = "waiting"
        /\ ra_started \/ ra.pc = "end"
        /\ serving' = "yes"
    <3>1. /\ serving = "waiting"
          /\ ra_started \/ ra.pc = "end"
          /\ serving' = "yes"
      BY SMT, <1>1 DEF Inv, WaitForRaThreadToStart, TypeOK
    <3> QED  BY <3>1
  <2>3. TypeOK'
    <3>1. serving' \in {"no", "waiting", "yes", "over"}
      BY SMT, <1>1, <2>2, Numbers, OpsTyped DEF Inv, TypeOK, WaitForRaThreadToStart
    <3> QED  BY <2>1, <3>1 DEF Inv, TypeOK
  <2>4. Fields /\ Fields' /\ Flags /\ Flags' /\ Cells /\ Cells'
    BY <2>3, FieldsTyped, FieldsTypedNext DEF Inv
  <2>5. \A j : Group(j)' = Group(j)
    BY <2>1 DEF Group
  <2>6. \A a, w : Saved(a, w)' <=> Saved(a, w)
    BY <2>1 DEF Saved
  <2>7. \A a, w : Mapped(a, w)' <=> Mapped(a, w)
    BY <2>1 DEF Mapped
  <2>8. \A j : Intact(j)' <=> Intact(j)
    BY <2>1 DEF Intact
  <2>9. \A j : MergedUpTo(j)' <=> MergedUpTo(j)
    BY <2>1 DEF MergedUpTo
  <2>10.
        WindowLoaded' /\ MergeBusy' /\ WindowMerged' /\ DoneTrue' /\ RaAlone' /\ RaMayTake' /\ RaBegins' /\ RaCopies' /\ RaSyncs' /\ Fetched' /\ BatchTurn' /\ Aligned' /\ GroupsTrue' /\ IosCounted' /\ Drained' /\ MapReady' /\ Faultless' /\ SlotsTrue' /\ Vouched' /\ Recoverable' /\ CountedMerged' /\ SessionMerged' /\ RaSources' /\ ReadSources' /\ ResumedFirst' /\ ResumedMapped' /\ ReadsTrue'
    BY <2>1, WindowLoadedFrame, MergeBusyFrame, WindowMergedFrame, DoneTrueFrame, RaAloneFrame,
        RaMayTakeFrame, RaBeginsFrame, RaCopiesFrame, RaSyncsFrame, FetchedFrame, BatchTurnFrame,
        AlignedFrame, GroupsTrueFrame, IosCountedFrame, DrainedFrame, MapReadyFrame, FaultlessFrame,
        SlotsTrueFrame, VouchedFrame, RecoverableFrame, CountedMergedFrame, SessionMergedFrame,
        RaSourcesFrame, ReadSourcesFrame, ResumedFirstFrame, ResumedMappedFrame, ReadsTrueFrame DEF Inv
  <2>11. Ended'
    BY SMT, <2>1, <2>2 DEF Inv, Ended, RaAlone, MergeBusy, Flags
  <2>12. Down'
    BY SMT, <2>1, <2>2 DEF Inv, Down, Flags
  <2>13. ReadersServe'
    BY SMT, <2>1, <2>2 DEF Inv, ReadersServe
  <2>14. ResumedServed'
    BY SMT, <2>1, <2>2 DEF Inv, ResumedServed, Flags
  <2> QED  BY <2>10, <2>3, <2>11, <2>12, <2>13, <2>14 DEF Inv
<1>2. CASE Fault("timeout")
  <2>1. UNCHANGED << base, stored, head, head_stored, scratch, scratch_stored, up, first, io_state,
        merge_initiated, resume_merge, populate, ra_started, group, ios, map, window, ra, mt,
        reader, crashes>>
    BY SMT, <1>2 DEF WaitForRaThreadToStart
  <2>2. /\ serving = "waiting"
        /\ serving' = "yes"
        /\ "timeout" \in faults'.sites
        /\ faults' \in [count : 0..MaxFaults, sites : SUBSET Marked]
        /\ faults'.count = faults.count + 1
        /\ "commit" \in faults.sites => "commit" \in faults'.sites
        /\ "timeout" \in faults.sites => "timeout" \in faults'.sites
    <3>1. /\ serving = "waiting"
          /\ serving' = "yes"
      BY SMT, <1>2 DEF Inv, WaitForRaThreadToStart, TypeOK
    <3>2. /\ "timeout" \in faults'.sites
          /\ faults' \in [count : 0..MaxFaults, sites : SUBSET Marked]
          /\ faults'.count = faults.count + 1
          /\ "commit" \in faults.sites => "commit" \in faults'.sites
          /\ "timeout" \in faults.sites => "timeout" \in faults'.sites
      BY SMT, <1>2, FaultIs DEF Inv, WaitForRaThreadToStart, Marked
    <3> QED  BY <3>1, <3>2
  <2>3. TypeOK'
    <3>1. serving' \in {"no", "waiting", "yes", "over"}
      BY SMT, <1>2, <2>2, Numbers, OpsTyped DEF Inv, TypeOK, WaitForRaThreadToStart
    <3>2. faults' \in [count : 0..MaxFaults, sites : SUBSET Marked]
      BY <2>2
    <3> QED  BY <2>1, <3>1, <3>2 DEF Inv, TypeOK
  <2>4. Fields /\ Fields' /\ Flags /\ Flags' /\ Cells /\ Cells'
    BY <2>3, FieldsTyped, FieldsTypedNext DEF Inv
  <2>5. \A j : Group(j)' = Group(j)
    BY <2>1 DEF Group
  <2>6. \A a, w : Saved(a, w)' <=> Saved(a, w)
    BY <2>1 DEF Saved
  <2>7. \A a, w : Mapped(a, w)' <=> Mapped(a, w)
    BY <2>1 DEF Mapped
  <2>8. \A j : Intact(j)' <=> Intact(j)
    BY <2>1 DEF Intact
  <2>9. \A j : MergedUpTo(j)' <=> MergedUpTo(j)
    BY <2>1 DEF MergedUpTo
  <2>10.
        WindowLoaded' /\ MergeBusy' /\ WindowMerged' /\ DoneTrue' /\ RaAlone' /\ RaMayTake' /\ RaBegins' /\ RaCopies' /\ RaSyncs' /\ Fetched' /\ BatchTurn' /\ Aligned' /\ GroupsTrue' /\ IosCounted' /\ Drained' /\ MapReady' /\ SlotsTrue' /\ Vouched' /\ Recoverable' /\ SessionMerged' /\ RaSources' /\ ReadSources' /\ ResumedFirst' /\ ResumedMapped'
    BY <2>1, WindowLoadedFrame, MergeBusyFrame, WindowMergedFrame, DoneTrueFrame, RaAloneFrame,
        RaMayTakeFrame, RaBeginsFrame, RaCopiesFrame, RaSyncsFrame, FetchedFrame, BatchTurnFrame,
        AlignedFrame, GroupsTrueFrame, IosCountedFrame, DrainedFrame, MapReadyFrame, SlotsTrueFrame,
        VouchedFrame, RecoverableFrame, SessionMergedFrame, RaSourcesFrame, ReadSourcesFrame,
        ResumedFirstFrame, ResumedMappedFrame DEF Inv
  <2>11. Ended'
    BY SMT, <2>1, <2>2 DEF Inv, Ended, RaAlone, MergeBusy, Flags
  <2>12. Down'
    BY SMT, <2>1, <2>2 DEF Inv, Down, Flags
  <2>13. ReadersServe'
    BY SMT, <2>1, <2>2 DEF Inv, ReadersServe
  <2>14. Faultless'
    BY SMT, <2>1, <2>2, <2>4, Numbers DEF Inv, Faultless, RaAlone, GroupsTrue, MapReady
  <2>15. CountedMerged'
    BY SMT, <2>1, <2>2, <2>9 DEF Inv, CountedMerged
  <2>16. ResumedServed'
    BY SMT, <2>1, <2>2 DEF Inv, ResumedServed, Flags
  <2>17. ReadsTrue'
    BY SMT, <2>1, <2>2, <2>5, <2>8, GroupsIn, OrderedIs DEF Inv, ReadsTrue, ReadersServe
  <2> QED  BY <2>10, <2>3, <2>11, <2>12, <2>13, <2>14, <2>15, <2>16, <2>17 DEF Inv
<1> QED  BY SMT, <1>1, <1>2 DEF WaitForRaThreadToStart

(* The merge begins at once only when there is nothing for the read-ahead thread to do. *)
LEMMA InitiateMergeKeeps == ASSUME Inv, InitiateMerge PROVE Inv'
<1>1. CASE OrderedOps(first) = {}
  <2>1. UNCHANGED << base, stored, head, head_stored, scratch, scratch_stored, up, first,
        resume_merge, populate, ra_started, serving, group, ios, map, window, ra, mt, reader,
        crashes, faults>>
    BY SMT, <1>1 DEF InitiateMerge
  <2>2. /\ OrderedOps(first) = {}
        /\ up
        /\ ~merge_initiated
        /\ merge_initiated' = TRUE
        /\ io_state' = "MERGE_BEGIN"
    <3>1. /\ OrderedOps(first) = {}
          /\ up
          /\ ~merge_initiated
            /\ merge_initiated' = TRUE
          /\ io_state' = "MERGE_BEGIN"
      BY SMT, <1>1 DEF Inv, InitiateMerge, TypeOK
    <3> QED  BY <3>1
  <2>3. TypeOK'
    <3>1. io_state' \in IoStates
      BY SMT, <1>1, <2>2, Numbers, OpsTyped DEF Inv, TypeOK, InitiateMerge, IoStates
    <3>2. merge_initiated' \in BOOLEAN
      BY SMT, <1>1, <2>2, Numbers, OpsTyped DEF Inv, TypeOK, InitiateMerge
    <3> QED  BY <2>1, <3>1, <3>2 DEF Inv, TypeOK
  <2>4. Fields /\ Fields' /\ Flags /\ Flags' /\ Cells /\ Cells'
    BY <2>3, FieldsTyped, FieldsTypedNext DEF Inv
  <2>5. \A j : Group(j)' = Group(j)
    BY <2>1 DEF Group
  <2>6. \A a, w : Saved(a, w)' <=> Saved(a, w)
    BY <2>1 DEF Saved
  <2>7. \A a, w : Mapped(a, w)' <=> Mapped(a, w)
    BY <2>1 DEF Mapped
  <2>8. \A j : Intact(j)' <=> Intact(j)
    BY <2>1 DEF Intact
  <2>9. \A j : MergedUpTo(j)' <=> MergedUpTo(j)
    BY <2>1 DEF MergedUpTo
  <2>10.
        WindowMerged' /\ DoneTrue' /\ RaBegins' /\ RaCopies' /\ RaSyncs' /\ Fetched' /\ BatchTurn' /\ Aligned' /\ GroupsTrue' /\ ReadersServe' /\ IosCounted' /\ Drained' /\ MapReady' /\ SlotsTrue' /\ Vouched' /\ Recoverable' /\ CountedMerged' /\ SessionMerged' /\ RaSources' /\ ReadSources' /\ ResumedMapped' /\ ResumedServed' /\ ReadsTrue'
    BY <2>1, WindowMergedFrame, DoneTrueFrame, RaBeginsFrame, RaCopiesFrame, RaSyncsFrame,
        FetchedFrame, BatchTurnFrame, AlignedFrame, GroupsTrueFrame, ReadersServeFrame,
        IosCountedFrame, DrainedFrame, MapReadyFrame, SlotsTrueFrame, VouchedFrame,
        RecoverableFrame, CountedMergedFrame, SessionMergedFrame, RaSourcesFrame, ReadSourcesFrame,
        ResumedMappedFrame, ResumedServedFrame, ReadsTrueFrame DEF Inv
  <2>11. WindowLoaded'
    <3>1. mt.pc \in {"begin", "end"}  BY <2>2 DEF Inv, Ended
    <3>2. mt.pc = "begin" => mt.next = first + 1  BY <2>2 DEF Inv, Down
    <3>3. first \in Nat  BY <2>4
    <3>4. ~OrderedAt(first + 1)  BY <2>2, <3>3 DEF OrderedOps
    <3> QED  BY <2>1, <3>1, <3>2, <3>4 DEF WindowLoaded
  <2>12. MergeBusy'
    BY SMT, <2>1, <2>2 DEF Inv, MergeBusy, DoneTrue, RaAlone, RaMayTake, GroupsTrue
  <2>13. RaAlone'
    BY SMT, <2>1, <2>2, <2>4, Numbers DEF Inv, RaAlone, Ended, Down, Flags
  <2>14. RaMayTake'
    BY SMT, <2>1, <2>2 DEF Inv, RaMayTake, WindowMerged, RaAlone, RaBegins, DoneTrue, Fetched,
        MergeBusy
  <2>15. Ended'
    BY SMT, <2>1, <2>2, <2>4, Numbers DEF Inv, Ended, Down, Flags
  <2>16. Down'
    BY SMT, <2>1, <2>2 DEF Inv, Down, Flags
  <2>17. Faultless'
    BY SMT, <2>1, <2>2 DEF Inv, Faultless, RaAlone, GroupsTrue, MapReady
  <2>18. ResumedFirst'
    BY SMT, <2>1, <2>2 DEF Inv, ResumedFirst, RaAlone
  <2> QED  BY <2>10, <2>3, <2>11, <2>12, <2>13, <2>14, <2>15, <2>16, <2>17, <2>18 DEF Inv
<1>2. CASE OrderedOps(first) # {}
  <2>1. UNCHANGED << base, stored, head, head_stored, scratch, scratch_stored, up, first, io_state,
        resume_merge, populate, ra_started, serving, group, ios, map, window, ra, mt, reader,
        crashes, faults>>
    BY SMT, <1>2 DEF InitiateMerge
  <2>2. /\ OrderedOps(first) # {}
        /\ up
        /\ ~merge_initiated
        /\ merge_initiated' = TRUE
    <3>1. /\ OrderedOps(first) # {}
          /\ up
          /\ ~merge_initiated
            /\ merge_initiated' = TRUE
      BY SMT, <1>2 DEF Inv, InitiateMerge, TypeOK
    <3> QED  BY <3>1
  <2>3. TypeOK'
    <3>1. merge_initiated' \in BOOLEAN
      BY SMT, <1>2, <2>2, Numbers, OpsTyped DEF Inv, TypeOK, InitiateMerge
    <3> QED  BY <2>1, <3>1 DEF Inv, TypeOK
  <2>4. Fields /\ Fields' /\ Flags /\ Flags' /\ Cells /\ Cells'
    BY <2>3, FieldsTyped, FieldsTypedNext DEF Inv
  <2>5. \A j : Group(j)' = Group(j)
    BY <2>1 DEF Group
  <2>6. \A a, w : Saved(a, w)' <=> Saved(a, w)
    BY <2>1 DEF Saved
  <2>7. \A a, w : Mapped(a, w)' <=> Mapped(a, w)
    BY <2>1 DEF Mapped
  <2>8. \A j : Intact(j)' <=> Intact(j)
    BY <2>1 DEF Intact
  <2>9. \A j : MergedUpTo(j)' <=> MergedUpTo(j)
    BY <2>1 DEF MergedUpTo
  <2>10.
        WindowLoaded' /\ MergeBusy' /\ WindowMerged' /\ DoneTrue' /\ RaAlone' /\ RaMayTake' /\ RaBegins' /\ RaCopies' /\ RaSyncs' /\ Fetched' /\ BatchTurn' /\ Aligned' /\ GroupsTrue' /\ ReadersServe' /\ IosCounted' /\ Drained' /\ MapReady' /\ Faultless' /\ SlotsTrue' /\ Vouched' /\ Recoverable' /\ CountedMerged' /\ SessionMerged' /\ RaSources' /\ ReadSources' /\ ResumedFirst' /\ ResumedMapped' /\ ResumedServed' /\ ReadsTrue'
    BY <2>1, WindowLoadedFrame, MergeBusyFrame, WindowMergedFrame, DoneTrueFrame, RaAloneFrame,
        RaMayTakeFrame, RaBeginsFrame, RaCopiesFrame, RaSyncsFrame, FetchedFrame, BatchTurnFrame,
        AlignedFrame, GroupsTrueFrame, ReadersServeFrame, IosCountedFrame, DrainedFrame,
        MapReadyFrame, FaultlessFrame, SlotsTrueFrame, VouchedFrame, RecoverableFrame,
        CountedMergedFrame, SessionMergedFrame, RaSourcesFrame, ReadSourcesFrame, ResumedFirstFrame,
        ResumedMappedFrame, ResumedServedFrame, ReadsTrueFrame DEF Inv
  <2>11. Ended'
    BY SMT, <2>1, <2>2 DEF Inv, Ended, RaAlone, MergeBusy, Flags
  <2>12. Down'
    BY SMT, <2>1, <2>2 DEF Inv, Down, Flags
  <2> QED  BY <2>10, <2>3, <2>11, <2>12 DEF Inv
<1> QED  BY SMT, <1>1, <1>2 DEF InitiateMerge

(* The workers end: the state says so, and a failing call is on record. *)
LEMMA NotifyIOTerminatedKeeps == ASSUME Inv, NotifyIOTerminated PROVE Inv'
<1>1. CASE \E r \in Readers : reader[r].pc = "error" /\ NoFault
  <2>1. UNCHANGED << base, stored, head, head_stored, scratch, scratch_stored, up, first,
        merge_initiated, resume_merge, populate, ra_started, group, ios, map, window, ra, mt,
        reader, crashes, faults>>
    BY SMT, <1>1 DEF NotifyIOTerminated
  <2>2. /\ up
        /\ serving = "yes"
        /\ serving' = "over"
        /\ io_state' = "IO_TERMINATED"
        /\ \E r \in Readers : reader[r].pc = "error"
    <3>1. /\ up
          /\ serving = "yes"
          /\ serving' = "over"
          /\ io_state' = "IO_TERMINATED"
          /\ \E r \in Readers : reader[r].pc = "error"
      BY SMT, <1>1 DEF Inv, NotifyIOTerminated, TypeOK
    <3> QED  BY <3>1
  <2>3. TypeOK'
    <3>1. io_state' \in IoStates
      BY SMT, <1>1, <2>2, Numbers, OpsTyped DEF Inv, TypeOK, NotifyIOTerminated, IoStates
    <3>2. serving' \in {"no", "waiting", "yes", "over"}
      BY SMT, <1>1, <2>2, Numbers, OpsTyped DEF Inv, TypeOK, NotifyIOTerminated
    <3> QED  BY <2>1, <3>1, <3>2 DEF Inv, TypeOK
  <2>4. Fields /\ Fields' /\ Flags /\ Flags' /\ Cells /\ Cells'
    BY <2>3, FieldsTyped, FieldsTypedNext DEF Inv
  <2>5. \A j : Group(j)' = Group(j)
    BY <2>1 DEF Group
  <2>6. \A a, w : Saved(a, w)' <=> Saved(a, w)
    BY <2>1 DEF Saved
  <2>7. \A a, w : Mapped(a, w)' <=> Mapped(a, w)
    BY <2>1 DEF Mapped
  <2>8. \A j : Intact(j)' <=> Intact(j)
    BY <2>1 DEF Intact
  <2>9. \A j : MergedUpTo(j)' <=> MergedUpTo(j)
    BY <2>1 DEF MergedUpTo
  <2>10.
        WindowMerged' /\ DoneTrue' /\ RaBegins' /\ RaCopies' /\ RaSyncs' /\ Fetched' /\ BatchTurn' /\ Aligned' /\ GroupsTrue' /\ IosCounted' /\ Drained' /\ MapReady' /\ SlotsTrue' /\ Vouched' /\ Recoverable' /\ CountedMerged' /\ SessionMerged' /\ RaSources' /\ ReadSources' /\ ResumedMapped' /\ ReadsTrue'
    BY <2>1, WindowMergedFrame, DoneTrueFrame, RaBeginsFrame, RaCopiesFrame, RaSyncsFrame,
        FetchedFrame, BatchTurnFrame, AlignedFrame, GroupsTrueFrame, IosCountedFrame, DrainedFrame,
        MapReadyFrame, SlotsTrueFrame, VouchedFrame, RecoverableFrame, CountedMergedFrame,
        SessionMergedFrame, RaSourcesFrame, ReadSourcesFrame, ResumedMappedFrame, ReadsTrueFrame DEF Inv
  <2>11. WindowLoaded'
    BY SMT, <2>1, <2>2, <2>6, <2>7 DEF Inv, WindowLoaded, Loaded
  <2>12. MergeBusy'
    BY SMT, <2>1, <2>2 DEF Inv, MergeBusy, DoneTrue, RaAlone, RaMayTake, GroupsTrue
  <2>13. RaAlone'
    BY SMT, <2>1, <2>2 DEF Inv, RaAlone, RaMayTake, DoneTrue, Fetched, Ended
  <2>14. RaMayTake'
    BY SMT, <2>1, <2>2 DEF Inv, RaMayTake, WindowMerged, RaAlone, RaBegins, DoneTrue, Fetched,
        MergeBusy
  <2>15. Ended'
    BY SMT, <2>1, <2>2 DEF Inv, Ended, RaAlone, MergeBusy, Flags
  <2>16. Down'
    BY SMT, <2>1, <2>2 DEF Inv, Down, Flags
  <2>17. ReadersServe'
    BY SMT, <2>1, <2>2 DEF Inv, ReadersServe
  <2>18. Faultless'
    BY SMT, <2>1, <2>2 DEF Inv, Faultless, RaAlone, GroupsTrue, MapReady
  <2>19. ResumedFirst'
    BY SMT, <2>1, <2>2 DEF Inv, ResumedFirst, RaAlone
  <2>20. ResumedServed'
    BY SMT, <2>1, <2>2 DEF Inv, ResumedServed, Flags
  <2> QED  BY <2>10, <2>3, <2>11, <2>12, <2>13, <2>14, <2>15, <2>16, <2>17, <2>18, <2>19, <2>20 DEF Inv
<1>2. CASE Fault("terminate")
  <2>1. UNCHANGED << base, stored, head, head_stored, scratch, scratch_stored, up, first,
        merge_initiated, resume_merge, populate, ra_started, group, ios, map, window, ra, mt,
        reader, crashes>>
    BY SMT, <1>2 DEF NotifyIOTerminated
  <2>2. /\ up
        /\ serving = "yes"
        /\ serving' = "over"
        /\ io_state' = "IO_TERMINATED"
        /\ faults' \in [count : 0..MaxFaults, sites : SUBSET Marked]
        /\ faults'.count = faults.count + 1
        /\ "commit" \in faults.sites => "commit" \in faults'.sites
        /\ "timeout" \in faults.sites => "timeout" \in faults'.sites
    <3>1. /\ up
          /\ serving = "yes"
          /\ serving' = "over"
          /\ io_state' = "IO_TERMINATED"
      BY SMT, <1>2 DEF Inv, NotifyIOTerminated, TypeOK
    <3>2. /\ faults' \in [count : 0..MaxFaults, sites : SUBSET Marked]
          /\ faults'.count = faults.count + 1
          /\ "commit" \in faults.sites => "commit" \in faults'.sites
          /\ "timeout" \in faults.sites => "timeout" \in faults'.sites
      BY SMT, <1>2, FaultIs DEF Inv, NotifyIOTerminated, Marked
    <3> QED  BY <3>1, <3>2
  <2>3. TypeOK'
    <3>1. io_state' \in IoStates
      BY SMT, <1>2, <2>2, Numbers, OpsTyped DEF Inv, TypeOK, NotifyIOTerminated, IoStates
    <3>2. serving' \in {"no", "waiting", "yes", "over"}
      BY SMT, <1>2, <2>2, Numbers, OpsTyped DEF Inv, TypeOK, NotifyIOTerminated
    <3>3. faults' \in [count : 0..MaxFaults, sites : SUBSET Marked]
      BY <2>2
    <3> QED  BY <2>1, <3>1, <3>2, <3>3 DEF Inv, TypeOK
  <2>4. Fields /\ Fields' /\ Flags /\ Flags' /\ Cells /\ Cells'
    BY <2>3, FieldsTyped, FieldsTypedNext DEF Inv
  <2>5. \A j : Group(j)' = Group(j)
    BY <2>1 DEF Group
  <2>6. \A a, w : Saved(a, w)' <=> Saved(a, w)
    BY <2>1 DEF Saved
  <2>7. \A a, w : Mapped(a, w)' <=> Mapped(a, w)
    BY <2>1 DEF Mapped
  <2>8. \A j : Intact(j)' <=> Intact(j)
    BY <2>1 DEF Intact
  <2>9. \A j : MergedUpTo(j)' <=> MergedUpTo(j)
    BY <2>1 DEF MergedUpTo
  <2>10.
        WindowMerged' /\ DoneTrue' /\ RaBegins' /\ RaCopies' /\ RaSyncs' /\ Fetched' /\ BatchTurn' /\ Aligned' /\ GroupsTrue' /\ IosCounted' /\ Drained' /\ MapReady' /\ SlotsTrue' /\ Vouched' /\ Recoverable' /\ SessionMerged' /\ RaSources' /\ ReadSources' /\ ResumedMapped'
    BY <2>1, WindowMergedFrame, DoneTrueFrame, RaBeginsFrame, RaCopiesFrame, RaSyncsFrame,
        FetchedFrame, BatchTurnFrame, AlignedFrame, GroupsTrueFrame, IosCountedFrame, DrainedFrame,
        MapReadyFrame, SlotsTrueFrame, VouchedFrame, RecoverableFrame, SessionMergedFrame,
        RaSourcesFrame, ReadSourcesFrame, ResumedMappedFrame DEF Inv
  <2>11. WindowLoaded'
    BY SMT, <2>1, <2>2, <2>6, <2>7 DEF Inv, WindowLoaded, Loaded
  <2>12. MergeBusy'
    BY SMT, <2>1, <2>2 DEF Inv, MergeBusy, DoneTrue, RaAlone, RaMayTake, GroupsTrue
  <2>13. RaAlone'
    BY SMT, <2>1, <2>2 DEF Inv, RaAlone, RaMayTake, DoneTrue, Fetched, Ended
  <2>14. RaMayTake'
    BY SMT, <2>1, <2>2 DEF Inv, RaMayTake, WindowMerged, RaAlone, RaBegins, DoneTrue, Fetched,
        MergeBusy
  <2>15. Ended'
    BY SMT, <2>1, <2>2 DEF Inv, Ended, RaAlone, MergeBusy, Flags
  <2>16. Down'
    BY SMT, <2>1, <2>2 DEF Inv, Down, Flags
  <2>17. ReadersServe'
    BY SMT, <2>1, <2>2 DEF Inv, ReadersServe
  <2>18. Faultless'
    BY SMT, <2>1, <2>2, <2>4, Numbers DEF Inv, Faultless, RaAlone, GroupsTrue, MapReady
  <2>19. CountedMerged'
    BY SMT, <2>1, <2>2, <2>9 DEF Inv, CountedMerged
  <2>20. ResumedFirst'
    BY SMT, <2>1, <2>2 DEF Inv, ResumedFirst, RaAlone
  <2>21. ResumedServed'
    BY SMT, <2>1, <2>2 DEF Inv, ResumedServed, Flags
  <2>22. ReadsTrue'
    BY SMT, <2>1, <2>2, <2>5, <2>8, GroupsIn, OrderedIs DEF Inv, ReadsTrue, ReadersServe
  <2> QED  BY <2>10, <2>3, <2>11, <2>12, <2>13, <2>14, <2>15, <2>16, <2>17, <2>18, <2>19, <2>20,
        <2>21, <2>22 DEF Inv
<1> QED  BY SMT, <1>1, <1>2 DEF NotifyIOTerminated

(* After a crash each block, slot and header is the one in memory or the one on storage: the *)
(* invariant speaks of both.                                                                 *)
LEMMA CrashKeeps == ASSUME Inv, Crash PROVE Inv'
<1>1. UNCHANGED << faults>>
  BY SMT DEF Crash
<1>2. /\ up
      /\ up' = FALSE
      /\ first' = 0
      /\ io_state' = "INVALID"
      /\ merge_initiated' = FALSE
      /\ resume_merge' = FALSE
      /\ populate' = FALSE
      /\ ra_started' = FALSE
      /\ serving' = "no"
      /\ group' = [g \in Indices |-> "PENDING"]
      /\ ios' = [g \in Indices |-> 0]
      /\ map' = [i \in Indices |-> 0]
      /\ window' = 0
      /\ ra' = RaIdle
      /\ mt' = MergeIdle
      /\ \A r \in Readers : reader'[r].pc = "idle"
      /\ base' = stored' /\ head' = head_stored' /\ scratch' = scratch_stored'
      /\ head' = head \/ head' = head_stored
      /\ \A b \in Blocks : base'[b] = base[b] \/ base'[b] = stored[b]
      /\ \A k \in 1..WindowSize : scratch'[k] = scratch[k] \/ scratch'[k] = scratch_stored[k]
      /\ scratch = scratch_stored => scratch' = scratch
  <2>1. /\ up
        /\ up' = FALSE
        /\ first' = 0
        /\ io_state' = "INVALID"
        /\ merge_initiated' = FALSE
        /\ resume_merge' = FALSE
        /\ populate' = FALSE
        /\ ra_started' = FALSE
        /\ serving' = "no"
    BY SMT DEF Inv, Crash, TypeOK
  <2>2. group' = [g \in Indices |-> "PENDING"]
    BY SMT, GroupSet DEF Inv, Crash, GroupStates
  <2>3. /\ ios' = [g \in Indices |-> 0]
        /\ map' = [i \in Indices |-> 0]
        /\ window' = 0
        /\ ra' = RaIdle
        /\ mt' = MergeIdle
    BY SMT DEF Inv, Crash, TypeOK
  <2>4. \A r \in Readers : reader'[r].pc = "idle"
    BY SMT, ReaderSet, OpsTyped DEF Inv, Crash, TypeOK, ReaderType, ReaderSteps
  <2>5. /\ base' = stored' /\ head' = head_stored' /\ scratch' = scratch_stored'
        /\ head' = head \/ head' = head_stored
    BY SMT DEF Inv, Crash, TypeOK
  <2>6. \A b \in Blocks : base'[b] = base[b] \/ base'[b] = stored[b]
    BY SMT, BaseSet, OpsTyped DEF Inv, Crash, TypeOK
  <2>7. /\ \A k \in 1..WindowSize : scratch'[k] = scratch[k] \/ scratch'[k] = scratch_stored[k]
        /\ scratch = scratch_stored => scratch' = scratch
    BY SMT DEF Inv, Crash, TypeOK
  <2> QED  BY <2>1, <2>2, <2>3, <2>4, <2>5, <2>6, <2>7
<1>3. TypeOK'
  <2>1. base' \in [Blocks -> Values]
    BY SMT, <1>2, Numbers, OpsTyped DEF Inv, TypeOK, Crash
  <2>2. stored' \in [Blocks -> Values]
    BY SMT, <1>2, Numbers, OpsTyped DEF Inv, TypeOK, Crash
  <2>3. head' \in [num : Nat, done : BOOLEAN]
    BY SMT, <1>2, Numbers, OpsTyped DEF Inv, TypeOK, Crash
  <2>4. head_stored' \in [num : Nat, done : BOOLEAN]
    BY SMT, <1>2, Numbers, OpsTyped DEF Inv, TypeOK, Crash
  <2>5. scratch' \in [Slots -> [op : Indices \cup {0}, val : Values]]
    BY SMT, <1>2, Numbers, OpsTyped DEF Inv, TypeOK, Crash
  <2>6. scratch_stored' \in [Slots -> [op : Indices \cup {0}, val : Values]]
    BY SMT, <1>2, Numbers, OpsTyped DEF Inv, TypeOK, Crash
  <2>7. up' \in BOOLEAN
    BY <1>2
  <2>8. first' \in Nat
    BY SMT, <1>2, Numbers, OpsTyped DEF Inv, TypeOK, Crash
  <2>9. io_state' \in IoStates
    BY SMT, <1>2, Numbers, OpsTyped DEF Inv, TypeOK, Crash, IoStates
  <2>10. merge_initiated' \in BOOLEAN
    BY <1>2
  <2>11. resume_merge' \in BOOLEAN
    BY <1>2
  <2>12. populate' \in BOOLEAN
    BY <1>2
  <2>13. ra_started' \in BOOLEAN
    BY <1>2
  <2>14. serving' \in {"no", "waiting", "yes", "over"}
    BY SMT, <1>2, Numbers, OpsTyped DEF Inv, TypeOK, Crash
  <2>15. group' \in [Indices -> GroupStates]
    BY SMT, <1>2, Numbers, OpsTyped DEF Inv, TypeOK, Crash, GroupStates
  <2>16. ios' \in [Indices -> 0..Cardinality(Readers)]
    <3>1. Cardinality(Readers) \in Nat  BY ReadersAssumption, FS_CardinalityType
    <3> QED  BY <3>1, <1>2
  <2>17. map' \in [Indices -> 0..WindowSize]
    BY SMT, <1>2, Numbers, OpsTyped DEF Inv, TypeOK, Crash
  <2>18. window' \in 0..WindowSize
    BY SMT, <1>2, Numbers, OpsTyped DEF Inv, TypeOK, Crash
  <2>19. ra' \in RaType /\ Len(ra'.temp) <= WindowSize
    BY SMT, <1>2, Numbers, OpsTyped DEF Inv, TypeOK, Crash, RaType, RaSteps, Positions
  <2>20. mt' \in MergeType
    BY SMT, <1>2, Numbers, OpsTyped DEF Inv, TypeOK, Crash, MergeType, MergeSteps, Positions
  <2>21. reader' \in [Readers -> ReaderType]
    BY SMT, <1>2, Numbers, OpsTyped DEF Inv, TypeOK, Crash, ReaderType, ReaderSteps
  <2>22. crashes' \in 0..MaxCrashes
    BY SMT, <1>2, Numbers, OpsTyped, SizesAssumption DEF Inv, TypeOK, Crash
  <2> QED  BY <1>1, <2>1, <2>2, <2>3, <2>4, <2>5, <2>6, <2>7, <2>8, <2>9, <2>10, <2>11, <2>12,
        <2>13, <2>14, <2>15, <2>16, <2>17, <2>18, <2>19, <2>20, <2>21, <2>22 DEF Inv, TypeOK
<1>4. Fields /\ Fields' /\ Flags /\ Flags' /\ Cells /\ Cells'
  BY <1>3, FieldsTyped, FieldsTypedNext DEF Inv
<1>5. /\ mt'.pc = "end" /\ mt'.next = 1 /\ mt'.idx = 1 /\ mt'.done = 0
        /\ ra'.pc = "end" /\ ra'.resumed = FALSE
  BY <1>2 DEF MergeIdle, RaIdle
<1>6. WindowLoaded'
  BY SMT, <1>1, <1>2 DEF Inv, WindowLoaded, Loaded
<1>7. MergeBusy'
  BY SMT, <1>1, <1>2 DEF Inv, MergeBusy, DoneTrue, RaAlone, RaMayTake, GroupsTrue
<1>8. WindowMerged'
  BY SMT, <1>1, <1>2 DEF Inv, WindowMerged, DoneTrue, WindowLoaded, RaAlone
<1>9. DoneTrue'
  BY SMT, <1>1, <1>2 DEF Inv, DoneTrue, WindowLoaded, BatchTurn
<1>10. RaAlone'
  BY SMT, <1>1, <1>2 DEF Inv, RaAlone, RaMayTake, DoneTrue, Fetched, Ended
<1>11. RaMayTake'
  BY SMT, <1>1, <1>2 DEF Inv, RaMayTake, WindowMerged, RaAlone, RaBegins, DoneTrue, Fetched,
        MergeBusy
<1>12. RaBegins'
  BY SMT, <1>1, <1>2 DEF Inv, RaBegins, RaAlone, Down, Flags
<1>13. RaCopies'
  BY SMT, <1>1, <1>2 DEF Inv, RaCopies, RaMayTake, RaAlone, Fetched
<1>14. RaSyncs'
  BY SMT, <1>1, <1>2 DEF Inv, RaSyncs, RaAlone, RaCopies, Fetched
<1>15. Fetched'
  BY SMT, <1>1, <1>2 DEF Inv, Fetched, RaSyncs, RaBegins
<1>16. Ended'
  BY SMT, <1>1, <1>2 DEF Inv, Ended, RaAlone, MergeBusy, Flags
<1>17. BatchTurn'
  BY SMT, <1>1, <1>2 DEF Inv, BatchTurn, WindowMerged, DoneTrue, Fetched, RaAlone, WindowLoaded
<1>18. Down'
  BY SMT, <1>1, <1>2 DEF Inv, Down, Flags
<1>19. Aligned'
  <2>1. MtStart' = 1 /\ WindowsDone' = 0 /\ first' = 0  BY <1>2, <1>5
  <2>2. 0 * WindowSize = 0  BY Numbers
  <2>3. ~OrderedAt(1) => OrderedOps(first)' = {}
    <3> SUFFICES ASSUME ~OrderedAt(1), NEW i \in OrderedOps(first)' PROVE FALSE  OBVIOUS
    <3>1. i \in Indices /\ IsOrderedOp(i)  BY DEF OrderedOps
    <3>2. 1 \in Indices /\ 1 <= i  BY <3>1, Numbers
    <3> QED  BY <3>1, <3>2, OrderedFirst
  <2> QED  BY <2>1, <2>2, <2>3 DEF Aligned
<1>20. GroupsTrue'
  <2>1. \A g \in Indices : group'[g] = "PENDING" /\ ~(g < mt'.idx)  BY <1>2, <1>5, Numbers
  <2> QED  BY <1>5, <2>1 DEF GroupsTrue
<1>21. ReadersServe'
  BY SMT, <1>1, <1>2 DEF Inv, ReadersServe
<1>22. IosCounted'
  BY <1>2, NobodyCounted DEF IosCounted
<1>23. Drained'
  BY SMT, <1>1, <1>2 DEF Inv, Drained, GroupsTrue, ReadersServe
<1>24. MapReady'
  <2>1. \A i \in OrderedOps(first)' : Group(i)' \in Indices  BY <1>2, GroupIsNext
  <2> QED  BY <1>2, <2>1 DEF MapReady
<1>25. Faultless'
  BY SMT, <1>1, <1>2 DEF Inv, Faultless, RaAlone, GroupsTrue, MapReady
<1>26. SlotsTrue'
  BY SMT, <1>1, <1>2 DEF Inv, SlotsTrue, Fetched, Cells
<1>27. Vouched'
  <2>1. ASSUME head'.done
        PROVE  /\ scratch_stored = scratch
               /\ \E a \in Indices, w \in Slots : IsWindow(a, w) /\ Saved(a, w) /\ Counts(head', a)
    BY <1>2, <2>1 DEF Inv, Vouched
  <2>2. head'.done => scratch' = scratch  BY <1>2, <2>1
  <2>3. Vouches(head)'  BY <1>2, <2>1, <2>2 DEF IsWindow, Saved
  <2> QED  BY <1>2, <2>3 DEF Vouched
<1>28. Recoverable'
  <2>1. ASSUME NEW i \in Indices, IsOrderedOp(i), Intact(i) PROVE Intact(i)'
    <3>1. Ops[i].src \in Blocks  BY <2>1, OpsTyped
    <3> QED  BY <3>1, <2>1, <1>2 DEF Intact
  <2>2. head'.done => scratch' = scratch  BY <1>2 DEF Inv, Vouched
  <2>3. Recovers(head')
    BY <1>2 DEF Inv, Recoverable
  <2>4. Recovers(head)'  BY <2>1, <2>2, <2>3
  <2> QED  BY <1>2, <2>4 DEF Recoverable
<1>29. CountedMerged'
  <2> SUFFICES ASSUME "commit" \notin faults.sites PROVE MergedUpTo(head.num)' /\ head_stored'.num <= head'.num
    BY <1>1, <1>2 DEF CountedMerged
  <2>0. head.num \in Nat /\ head_stored.num \in Nat /\ head_stored'.num = head'.num /\ head'.num \in Nat
    BY <1>2, <1>4
  <2>1. MergedUpTo(head.num) /\ head'.num <= head.num
    BY <1>2, <2>0 DEF Inv, CountedMerged
  <2>2. ASSUME NEW i \in Indices, i <= head'.num PROVE base'[Ops[i].new] = Ops[i].src
    <3>1. i <= head.num  BY <2>0, <2>1, <2>2, Numbers
    <3>2. base[Ops[i].new] = Ops[i].src /\ stored[Ops[i].new] = Ops[i].src  BY <3>1, <2>1 DEF MergedUpTo
    <3>3. Ops[i].new \in Blocks  BY OpsTyped
    <3> QED  BY <1>2, <3>2, <3>3
  <2>3. stored' = base'  BY <1>2
  <2> QED  BY <2>0, <2>2, <2>3 DEF MergedUpTo
<1>30. SessionMerged'
  BY SMT, <1>1, <1>2 DEF Inv, SessionMerged, DoneTrue
<1>31. RaSources'
  BY SMT, <1>1, <1>2 DEF Inv, RaSources, WindowLoaded, Fetched
<1>32. ReadSources'
  BY SMT, <1>1, <1>2 DEF Inv, ReadSources, GroupsTrue, WindowLoaded
<1>33. ResumedFirst'
  BY SMT, <1>1, <1>2 DEF Inv, ResumedFirst, RaAlone
<1>34. ResumedMapped'
  BY SMT, <1>1, <1>2 DEF Inv, ResumedMapped, ResumedFirst, GroupsTrue
<1>35. ResumedServed'
  BY SMT, <1>1, <1>2 DEF Inv, ResumedServed, Flags
<1>36. ReadsTrue'
  BY SMT, <1>1, <1>2, GroupsIn, OrderedIs DEF Inv, ReadsTrue, ReadersServe
<1> QED  BY <1>3, <1>6, <1>7, <1>8, <1>9, <1>10, <1>11, <1>12, <1>13, <1>14, <1>15, <1>16, <1>17,
        <1>18, <1>19, <1>20, <1>21, <1>22, <1>23, <1>24, <1>25, <1>26, <1>27, <1>28, <1>29, <1>30,
        <1>31, <1>32, <1>33, <1>34, <1>35, <1>36 DEF Inv

(* A worker takes a block from where the state of its window says it is. *)
LEMMA ProcessMergingBlockKeeps == ASSUME NEW r \in Readers, NEW i \in OrderedOps(first), Inv, ProcessMergingBlock(r, i) PROVE Inv'
<1>1. CASE \E k \in Slots : scratch[k].op = i /\ Found(r, i, k) /\ UNCHANGED ios
  <2>1. UNCHANGED << base, stored, head, head_stored, scratch, scratch_stored, up, first, io_state,
        merge_initiated, resume_merge, populate, ra_started, serving, group, ios, map, window, ra,
        mt, crashes, faults>>
    BY SMT, <1>1 DEF ProcessMergingBlock
  <2>2. /\ serving = "yes"
        /\ reader[r].pc = "idle"
        /\ i \in OrderedOps(first)
        /\ reader' \in [Readers -> ReaderType]
        /\ \A q \in Readers : q # r => reader'[q] = reader[q]
        /\ reader'[r].pc = "got"
        /\ reader'[r].op = i
        /\ reader'[r].val = Ops[i].src
    <3>1. /\ serving = "yes"
          /\ reader[r].pc = "idle"
          /\ i \in OrderedOps(first)
      BY SMT, <1>1 DEF Inv, ProcessMergingBlock, TypeOK
    <3>2. /\ reader' \in [Readers -> ReaderType]
          /\ \A q \in Readers : q # r => reader'[q] = reader[q]
          /\ reader'[r].pc = "got"
          /\ reader'[r].op = i
          /\ reader'[r].val = Ops[i].src
      <4>1. PICK k \in Slots : scratch[k].op = i /\ reader' = [reader EXCEPT ![r] = [pc |-> "got", op |-> i, val |-> scratch[k].val]]
        BY <1>1
      <4>2. i \in Indices /\ IsOrderedOp(i) /\ i # 0  BY Numbers DEF OrderedOps
      <4>3. scratch[k].val = Ops[i].src  BY <4>1, <4>2 DEF Inv, SlotsTrue
      <4>4. [pc |-> "got", op |-> i, val |-> Ops[i].src] \in ReaderType
        BY <4>2, OpsTyped DEF ReaderType, ReaderSteps
      <4> QED  BY <4>1, <4>3, <4>4, ReaderSet DEF Inv
    <3> QED  BY <3>1, <3>2
  <2>3. TypeOK'
    <3>1. reader' \in [Readers -> ReaderType]
      BY <2>2
    <3> QED  BY <2>1, <3>1 DEF Inv, TypeOK
  <2>4. Fields /\ Fields' /\ Flags /\ Flags' /\ Cells /\ Cells'
    BY <2>3, FieldsTyped, FieldsTypedNext DEF Inv
  <2>5. \A j : Group(j)' = Group(j)
    BY <2>1 DEF Group
  <2>6. \A a, w : Saved(a, w)' <=> Saved(a, w)
    BY <2>1 DEF Saved
  <2>7. \A a, w : Mapped(a, w)' <=> Mapped(a, w)
    BY <2>1 DEF Mapped
  <2>8. \A j : Intact(j)' <=> Intact(j)
    BY <2>1 DEF Intact
  <2>9. \A j : MergedUpTo(j)' <=> MergedUpTo(j)
    BY <2>1 DEF MergedUpTo
  <2>10.
        WindowLoaded' /\ MergeBusy' /\ WindowMerged' /\ DoneTrue' /\ RaAlone' /\ RaMayTake' /\ RaBegins' /\ RaCopies' /\ RaSyncs' /\ Fetched' /\ Ended' /\ BatchTurn' /\ Down' /\ Aligned' /\ GroupsTrue' /\ MapReady' /\ SlotsTrue' /\ Vouched' /\ Recoverable' /\ CountedMerged' /\ SessionMerged' /\ RaSources' /\ ReadSources' /\ ResumedFirst' /\ ResumedMapped' /\ ResumedServed'
    BY <2>1, WindowLoadedFrame, MergeBusyFrame, WindowMergedFrame, DoneTrueFrame, RaAloneFrame,
        RaMayTakeFrame, RaBeginsFrame, RaCopiesFrame, RaSyncsFrame, FetchedFrame, EndedFrame,
        BatchTurnFrame, DownFrame, AlignedFrame, GroupsTrueFrame, MapReadyFrame, SlotsTrueFrame,
        VouchedFrame, RecoverableFrame, CountedMergedFrame, SessionMergedFrame, RaSourcesFrame,
        ReadSourcesFrame, ResumedFirstFrame, ResumedMappedFrame, ResumedServedFrame DEF Inv
  <2>11. ReadersServe'
    BY SMT, <2>1, <2>2 DEF Inv, ReadersServe
  <2>12. IosCounted'
    <3>1. \A g : Counted(g)' = Counted(g)  BY <2>1, <2>2, CountedKept
    <3> QED  BY <2>1, <3>1 DEF Inv, IosCounted
  <2>13. Drained'
    BY SMT, <2>1, <2>2, <2>5 DEF Inv, Drained, GroupsTrue, ReadersServe
  <2>14. Faultless'
    BY SMT, <2>1, <2>2 DEF Inv, Faultless, RaAlone, GroupsTrue, MapReady
  <2>15. ReadsTrue'
    BY SMT, <2>1, <2>2, <2>5, <2>8, GroupsIn, OrderedIs DEF Inv, ReadsTrue, ReadersServe
  <2> QED  BY <2>10, <2>3, <2>11, <2>12, <2>13, <2>14, <2>15 DEF Inv
<1>2. CASE /\ group[Group(i)] = "PENDING" /\ (~resume_merge \/ map[i] = 0)
           /\ ios' = [ios EXCEPT ![Group(i)] = @ + 1]
           /\ reader' = [reader EXCEPT ![r] = [pc |-> "source", op |-> i, val |-> Cow]]
  <2>1. UNCHANGED << base, stored, head, head_stored, scratch, scratch_stored, up, first, io_state,
        merge_initiated, resume_merge, populate, ra_started, serving, group, map, window, ra, mt,
        crashes, faults>>
    BY SMT, <1>2 DEF ProcessMergingBlock
  <2>2. /\ serving = "yes"
        /\ reader[r].pc = "idle"
        /\ i \in OrderedOps(first)
        /\ group[Group(i)] = "PENDING"
        /\ ~resume_merge \/ map[i] = 0
        /\ reader' \in [Readers -> ReaderType]
        /\ \A q \in Readers : q # r => reader'[q] = reader[q]
        /\ reader'[r].pc = "source"
        /\ reader'[r].op = i
        /\ reader'[r].val = Cow
        /\ \A g \in Indices : ios'[g] = IF g = Group(i) THEN ios[g] + 1 ELSE ios[g]
    <3>1. /\ serving = "yes"
          /\ reader[r].pc = "idle"
          /\ i \in OrderedOps(first)
          /\ group[Group(i)] = "PENDING"
          /\ ~resume_merge \/ map[i] = 0
      BY SMT, <1>2 DEF Inv, ProcessMergingBlock, TypeOK
    <3>2. /\ reader' \in [Readers -> ReaderType]
          /\ \A q \in Readers : q # r => reader'[q] = reader[q]
          /\ reader'[r].pc = "source"
          /\ reader'[r].op = i
          /\ reader'[r].val = Cow
      <4>1. reader' = [reader EXCEPT ![r] = [pc |-> "source", op |-> i, val |-> Cow]]
        BY <1>2 DEF ProcessMergingBlock, ReaderIdle
      <4>2. [pc |-> "source", op |-> i, val |-> Cow] \in ReaderType
        BY OpsTyped DEF ReaderType, ReaderSteps, OrderedOps
      <4> QED  BY <4>1, <4>2, ReaderSet DEF Inv
    <3>3. \A g \in Indices : ios'[g] = IF g = Group(i) THEN ios[g] + 1 ELSE ios[g]
      BY SMT, <1>2 DEF Inv, ProcessMergingBlock, TypeOK
    <3> QED  BY <3>1, <3>2, <3>3
  <2>3. TypeOK'
    <3>1. ios' \in [Indices -> 0..Cardinality(Readers)]
      <4>1. \A g \in Indices : ios'[g] = Cardinality(Counted(g)')
        BY <2>1, <2>2, CountedMore DEF Inv, IosCounted
      <4>2. ios' = [g \in Indices |-> ios'[g]]
        BY <1>2 DEF Inv, TypeOK, ProcessMergingBlock
      <4> QED  BY <4>1, <4>2, CountedBoundedNext
    <3>2. reader' \in [Readers -> ReaderType]
      BY <2>2
    <3> QED  BY <2>1, <3>1, <3>2 DEF Inv, TypeOK
  <2>4. Fields /\ Fields' /\ Flags /\ Flags' /\ Cells /\ Cells'
    BY <2>3, FieldsTyped, FieldsTypedNext DEF Inv
  <2>5. \A j : Group(j)' = Group(j)
    BY <2>1 DEF Group
  <2>6. \A a, w : Saved(a, w)' <=> Saved(a, w)
    BY <2>1 DEF Saved
  <2>7. \A a, w : Mapped(a, w)' <=> Mapped(a, w)
    BY <2>1 DEF Mapped
  <2>8. \A j : Intact(j)' <=> Intact(j)
    BY <2>1 DEF Intact
  <2>9. \A j : MergedUpTo(j)' <=> MergedUpTo(j)
    BY <2>1 DEF MergedUpTo
  <2>10.
        WindowLoaded' /\ MergeBusy' /\ WindowMerged' /\ DoneTrue' /\ RaAlone' /\ RaMayTake' /\ RaBegins' /\ RaCopies' /\ RaSyncs' /\ Fetched' /\ Ended' /\ BatchTurn' /\ Aligned' /\ GroupsTrue' /\ MapReady' /\ SlotsTrue' /\ Vouched' /\ Recoverable' /\ CountedMerged' /\ SessionMerged' /\ RaSources' /\ ReadSources' /\ ResumedFirst' /\ ResumedMapped' /\ ResumedServed'
    BY <2>1, WindowLoadedFrame, MergeBusyFrame, WindowMergedFrame, DoneTrueFrame, RaAloneFrame,
        RaMayTakeFrame, RaBeginsFrame, RaCopiesFrame, RaSyncsFrame, FetchedFrame, EndedFrame,
        BatchTurnFrame, AlignedFrame, GroupsTrueFrame, MapReadyFrame, SlotsTrueFrame, VouchedFrame,
        RecoverableFrame, CountedMergedFrame, SessionMergedFrame, RaSourcesFrame, ReadSourcesFrame,
        ResumedFirstFrame, ResumedMappedFrame, ResumedServedFrame DEF Inv
  <2>11. Down'
    BY SMT, <2>1, <2>2 DEF Inv, Down, Flags
  <2>12. ReadersServe'
    BY SMT, <2>1, <2>2 DEF Inv, ReadersServe
  <2>13. IosCounted'
    <3>1. \A g \in Indices : ios'[g] = Cardinality(Counted(g)')
      BY <2>1, <2>2, CountedMore DEF Inv, IosCounted
    <3> QED  BY <3>1 DEF IosCounted
  <2>14. Drained'
    BY SMT, <2>1, <2>2, <2>5 DEF Inv, Drained, GroupsTrue, ReadersServe
  <2>15. Faultless'
    BY SMT, <2>1, <2>2 DEF Inv, Faultless, RaAlone, GroupsTrue, MapReady
  <2>16. ReadsTrue'
    <3>1. up  BY <2>2 DEF Inv, Down
    <3>2. (ra.resumed => resume_merge /\ ra_started) => Intact(i)
      BY <2>2, <3>1 DEF Inv, ReadSources, ResumedMapped
    <3> QED  BY <2>1, <2>2, <2>8, <3>2 DEF Inv, ReadsTrue
  <2> QED  BY <2>10, <2>3, <2>11, <2>12, <2>13, <2>14, <2>15, <2>16 DEF Inv
<1>3. CASE /\ group[Group(i)] = "COMPLETED"
           /\ reader' = [reader EXCEPT ![r] = [pc |-> "base", op |-> i, val |-> Cow]] /\ UNCHANGED ios
  <2>1. UNCHANGED << base, stored, head, head_stored, scratch, scratch_stored, up, first, io_state,
        merge_initiated, resume_merge, populate, ra_started, serving, group, ios, map, window, ra,
        mt, crashes, faults>>
    BY SMT, <1>3 DEF ProcessMergingBlock
  <2>2. /\ serving = "yes"
        /\ reader[r].pc = "idle"
        /\ i \in OrderedOps(first)
        /\ group[Group(i)] = "COMPLETED"
        /\ reader' \in [Readers -> ReaderType]
        /\ \A q \in Readers : q # r => reader'[q] = reader[q]
        /\ reader'[r].pc = "base"
        /\ reader'[r].op = i
        /\ reader'[r].val = Cow
    <3>1. /\ serving = "yes"
          /\ reader[r].pc = "idle"
          /\ i \in OrderedOps(first)
          /\ group[Group(i)] = "COMPLETED"
      BY SMT, <1>3 DEF Inv, ProcessMergingBlock, TypeOK
    <3>2. /\ reader' \in [Readers -> ReaderType]
          /\ \A q \in Readers : q # r => reader'[q] = reader[q]
          /\ reader'[r].pc = "base"
          /\ reader'[r].op = i
          /\ reader'[r].val = Cow
      <4>1. reader' = [reader EXCEPT ![r] = [pc |-> "base", op |-> i, val |-> Cow]]
        BY <1>3 DEF ProcessMergingBlock, ReaderIdle
      <4>2. [pc |-> "base", op |-> i, val |-> Cow] \in ReaderType
        BY OpsTyped DEF ReaderType, ReaderSteps, OrderedOps
      <4> QED  BY <4>1, <4>2, ReaderSet DEF Inv
    <3> QED  BY <3>1, <3>2
  <2>3. TypeOK'
    <3>1. reader' \in [Readers -> ReaderType]
      BY <2>2
    <3> QED  BY <2>1, <3>1 DEF Inv, TypeOK
  <2>4. Fields /\ Fields' /\ Flags /\ Flags' /\ Cells /\ Cells'
    BY <2>3, FieldsTyped, FieldsTypedNext DEF Inv
  <2>5. \A j : Group(j)' = Group(j)
    BY <2>1 DEF Group
  <2>6. \A a, w : Saved(a, w)' <=> Saved(a, w)
    BY <2>1 DEF Saved
  <2>7. \A a, w : Mapped(a, w)' <=> Mapped(a, w)
    BY <2>1 DEF Mapped
  <2>8. \A j : Intact(j)' <=> Intact(j)
    BY <2>1 DEF Intact
  <2>9. \A j : MergedUpTo(j)' <=> MergedUpTo(j)
    BY <2>1 DEF MergedUpTo
  <2>10.
        WindowLoaded' /\ MergeBusy' /\ WindowMerged' /\ DoneTrue' /\ RaAlone' /\ RaMayTake' /\ RaBegins' /\ RaCopies' /\ RaSyncs' /\ Fetched' /\ Ended' /\ BatchTurn' /\ Down' /\ Aligned' /\ GroupsTrue' /\ MapReady' /\ SlotsTrue' /\ Vouched' /\ Recoverable' /\ CountedMerged' /\ SessionMerged' /\ RaSources' /\ ReadSources' /\ ResumedFirst' /\ ResumedMapped' /\ ResumedServed'
    BY <2>1, WindowLoadedFrame, MergeBusyFrame, WindowMergedFrame, DoneTrueFrame, RaAloneFrame,
        RaMayTakeFrame, RaBeginsFrame, RaCopiesFrame, RaSyncsFrame, FetchedFrame, EndedFrame,
        BatchTurnFrame, DownFrame, AlignedFrame, GroupsTrueFrame, MapReadyFrame, SlotsTrueFrame,
        VouchedFrame, RecoverableFrame, CountedMergedFrame, SessionMergedFrame, RaSourcesFrame,
        ReadSourcesFrame, ResumedFirstFrame, ResumedMappedFrame, ResumedServedFrame DEF Inv
  <2>11. ReadersServe'
    BY SMT, <2>1, <2>2 DEF Inv, ReadersServe
  <2>12. IosCounted'
    <3>1. \A g : Counted(g)' = Counted(g)  BY <2>1, <2>2, CountedKept
    <3> QED  BY <2>1, <3>1 DEF Inv, IosCounted
  <2>13. Drained'
    BY SMT, <2>1, <2>2, <2>5 DEF Inv, Drained, GroupsTrue, ReadersServe
  <2>14. Faultless'
    BY SMT, <2>1, <2>2 DEF Inv, Faultless, RaAlone, GroupsTrue, MapReady
  <2>15. ReadsTrue'
    BY SMT, <2>1, <2>2, <2>5, <2>8, GroupsIn, OrderedIs DEF Inv, ReadsTrue, ReadersServe
  <2> QED  BY <2>10, <2>3, <2>11, <2>12, <2>13, <2>14, <2>15 DEF Inv
<1>4. CASE /\ group[Group(i)] = "FAILED" \/ (group[Group(i)] \in {"RA_READY", "IN_PROGRESS"} /\ map[i] = 0)
           /\ reader' = [reader EXCEPT ![r] = [pc |-> "error", op |-> i, val |-> Cow]] /\ UNCHANGED ios
  <2>1. UNCHANGED << base, stored, head, head_stored, scratch, scratch_stored, up, first, io_state,
        merge_initiated, resume_merge, populate, ra_started, serving, group, ios, map, window, ra,
        mt, crashes, faults>>
    BY SMT, <1>4 DEF ProcessMergingBlock
  <2>2. /\ serving = "yes"
        /\ reader[r].pc = "idle"
        /\ i \in OrderedOps(first)
        /\ group[Group(i)] = "FAILED" \/ (group[Group(i)] \in {"RA_READY", "IN_PROGRESS"} /\ map[i] = 0)
        /\ reader' \in [Readers -> ReaderType]
        /\ \A q \in Readers : q # r => reader'[q] = reader[q]
        /\ reader'[r].pc = "error"
        /\ reader'[r].op = i
        /\ reader'[r].val = Cow
    <3>1. /\ serving = "yes"
          /\ reader[r].pc = "idle"
          /\ i \in OrderedOps(first)
          /\ group[Group(i)] = "FAILED" \/ (group[Group(i)] \in {"RA_READY", "IN_PROGRESS"} /\ map[i] = 0)
      BY SMT, <1>4 DEF Inv, ProcessMergingBlock, TypeOK
    <3>2. /\ reader' \in [Readers -> ReaderType]
          /\ \A q \in Readers : q # r => reader'[q] = reader[q]
          /\ reader'[r].pc = "error"
          /\ reader'[r].op = i
          /\ reader'[r].val = Cow
      <4>1. reader' = [reader EXCEPT ![r] = [pc |-> "error", op |-> i, val |-> Cow]]
        BY <1>4 DEF ProcessMergingBlock, ReaderIdle
      <4>2. [pc |-> "error", op |-> i, val |-> Cow] \in ReaderType
        BY OpsTyped DEF ReaderType, ReaderSteps, OrderedOps
      <4> QED  BY <4>1, <4>2, ReaderSet DEF Inv
    <3> QED  BY <3>1, <3>2
  <2>3. TypeOK'
    <3>1. reader' \in [Readers -> ReaderType]
      BY <2>2
    <3> QED  BY <2>1, <3>1 DEF Inv, TypeOK
  <2>4. Fields /\ Fields' /\ Flags /\ Flags' /\ Cells /\ Cells'
    BY <2>3, FieldsTyped, FieldsTypedNext DEF Inv
  <2>5. \A j : Group(j)' = Group(j)
    BY <2>1 DEF Group
  <2>6. \A a, w : Saved(a, w)' <=> Saved(a, w)
    BY <2>1 DEF Saved
  <2>7. \A a, w : Mapped(a, w)' <=> Mapped(a, w)
    BY <2>1 DEF Mapped
  <2>8. \A j : Intact(j)' <=> Intact(j)
    BY <2>1 DEF Intact
  <2>9. \A j : MergedUpTo(j)' <=> MergedUpTo(j)
    BY <2>1 DEF MergedUpTo
  <2>10.
        WindowLoaded' /\ MergeBusy' /\ WindowMerged' /\ DoneTrue' /\ RaAlone' /\ RaMayTake' /\ RaBegins' /\ RaCopies' /\ RaSyncs' /\ Fetched' /\ Ended' /\ BatchTurn' /\ Down' /\ Aligned' /\ GroupsTrue' /\ MapReady' /\ SlotsTrue' /\ Vouched' /\ Recoverable' /\ CountedMerged' /\ SessionMerged' /\ RaSources' /\ ReadSources' /\ ResumedFirst' /\ ResumedMapped' /\ ResumedServed'
    BY <2>1, WindowLoadedFrame, MergeBusyFrame, WindowMergedFrame, DoneTrueFrame, RaAloneFrame,
        RaMayTakeFrame, RaBeginsFrame, RaCopiesFrame, RaSyncsFrame, FetchedFrame, EndedFrame,
        BatchTurnFrame, DownFrame, AlignedFrame, GroupsTrueFrame, MapReadyFrame, SlotsTrueFrame,
        VouchedFrame, RecoverableFrame, CountedMergedFrame, SessionMergedFrame, RaSourcesFrame,
        ReadSourcesFrame, ResumedFirstFrame, ResumedMappedFrame, ResumedServedFrame DEF Inv
  <2>11. ReadersServe'
    BY SMT, <2>1, <2>2 DEF Inv, ReadersServe
  <2>12. IosCounted'
    <3>1. \A g : Counted(g)' = Counted(g)  BY <2>1, <2>2, CountedKept
    <3> QED  BY <2>1, <3>1 DEF Inv, IosCounted
  <2>13. Drained'
    BY SMT, <2>1, <2>2, <2>5 DEF Inv, Drained, GroupsTrue, ReadersServe
  <2>14. Faultless'
    <3>1. Group(i) \in Indices  BY GroupsIn
    <3>2. faults.count # 0  BY <2>2, <3>1 DEF Inv, Faultless, MapReady
    <3> QED  BY <2>1, <3>2 DEF Faultless
  <2>15. ReadsTrue'
    BY SMT, <2>1, <2>2, <2>5, <2>8, GroupsIn, OrderedIs DEF Inv, ReadsTrue, ReadersServe
  <2> QED  BY <2>10, <2>3, <2>11, <2>12, <2>13, <2>14, <2>15 DEF Inv
<1>5. ASSUME NEW k \in GetRABuffer(i), Found(r, i, k), UNCHANGED ios PROVE Inv'
  <2>1. i \in Indices  BY DEF OrderedOps
  <2>2. k \in Slots /\ scratch[k].op = i
    BY <1>5, <2>1, FieldsTyped, Numbers DEF Inv, MapReady, Cells
  <2> QED  BY <2>2, <1>5, <1>1
<1>6. ASSUME map[i] # 0, Found(r, i, map[i]), UNCHANGED ios PROVE Inv'
  BY <1>5, <1>6
<1> QED  BY <1>2, <1>3, <1>4, <1>5, <1>6 DEF ProcessMergingBlock

(* A source that is read is intact, and a block of a merged window holds the new data. *)
LEMMA ReadFromDeviceKeeps == ASSUME NEW r \in Readers, Inv, ReadFromDevice(r) PROVE Inv'
<1>1. CASE /\ reader[r].pc = "source" /\ NoFault
           /\ reader' = [reader EXCEPT ![r].pc = "release", ![r].val = base[Ops[reader[r].op].src]]
  <2>1. UNCHANGED << base, stored, head, head_stored, scratch, scratch_stored, up, first, io_state,
        merge_initiated, resume_merge, populate, ra_started, serving, group, ios, map, window, ra,
        mt, crashes, faults>>
    BY SMT, <1>1 DEF ReadFromDevice
  <2>2. /\ reader[r].pc = "source"
        /\ reader' \in [Readers -> ReaderType]
        /\ \A q \in Readers : q # r => reader'[q] = reader[q]
        /\ reader'[r].pc = "release"
        /\ reader'[r].op = reader[r].op
        /\ reader'[r].val = base[Ops[reader[r].op].src]
    <3>1. reader[r].pc = "source"
      BY SMT, <1>1 DEF Inv, ReadFromDevice, TypeOK
    <3>2. /\ reader' \in [Readers -> ReaderType]
          /\ \A q \in Readers : q # r => reader'[q] = reader[q]
          /\ reader'[r].pc = "release"
          /\ reader'[r].op = reader[r].op
          /\ reader'[r].val = base[Ops[reader[r].op].src]
      <4>1. HasRead(r, "release", base[Ops[reader[r].op].src])
        BY <1>1 DEF HasRead
      <4>2. "release" \in ReaderSteps  BY DEF ReaderSteps
      <4>3. reader[r].op \in OrderedOps(first)
        BY <1>1 DEF Inv, ReadersServe
      <4>4. base[Ops[reader[r].op].src] \in Values
        BY <4>3, OpsTyped DEF Inv, TypeOK, OrderedOps
      <4> QED  BY <4>1, <4>2, <4>4, ReaderReads DEF Inv
    <3> QED  BY <3>1, <3>2
  <2>3. TypeOK'
    <3>1. reader' \in [Readers -> ReaderType]
      BY <2>2
    <3> QED  BY <2>1, <3>1 DEF Inv, TypeOK
  <2>4. Fields /\ Fields' /\ Flags /\ Flags' /\ Cells /\ Cells'
    BY <2>3, FieldsTyped, FieldsTypedNext DEF Inv
  <2>5. \A j : Group(j)' = Group(j)
    BY <2>1 DEF Group
  <2>6. \A a, w : Saved(a, w)' <=> Saved(a, w)
    BY <2>1 DEF Saved
  <2>7. \A a, w : Mapped(a, w)' <=> Mapped(a, w)
    BY <2>1 DEF Mapped
  <2>8. \A j : Intact(j)' <=> Intact(j)
    BY <2>1 DEF Intact
  <2>9. \A j : MergedUpTo(j)' <=> MergedUpTo(j)
    BY <2>1 DEF MergedUpTo
  <2>10.
        WindowLoaded' /\ MergeBusy' /\ WindowMerged' /\ DoneTrue' /\ RaAlone' /\ RaMayTake' /\ RaBegins' /\ RaCopies' /\ RaSyncs' /\ Fetched' /\ Ended' /\ BatchTurn' /\ Down' /\ Aligned' /\ GroupsTrue' /\ MapReady' /\ SlotsTrue' /\ Vouched' /\ Recoverable' /\ CountedMerged' /\ SessionMerged' /\ RaSources' /\ ReadSources' /\ ResumedFirst' /\ ResumedMapped' /\ ResumedServed'
    BY <2>1, WindowLoadedFrame, MergeBusyFrame, WindowMergedFrame, DoneTrueFrame, RaAloneFrame,
        RaMayTakeFrame, RaBeginsFrame, RaCopiesFrame, RaSyncsFrame, FetchedFrame, EndedFrame,
        BatchTurnFrame, DownFrame, AlignedFrame, GroupsTrueFrame, MapReadyFrame, SlotsTrueFrame,
        VouchedFrame, RecoverableFrame, CountedMergedFrame, SessionMergedFrame, RaSourcesFrame,
        ReadSourcesFrame, ResumedFirstFrame, ResumedMappedFrame, ResumedServedFrame DEF Inv
  <2>11. ReadersServe'
    BY SMT, <2>1, <2>2 DEF Inv, ReadersServe
  <2>12. IosCounted'
    <3>1. \A g : Counted(g)' = Counted(g)  BY <2>1, <2>2, CountedKept
    <3> QED  BY <2>1, <3>1 DEF Inv, IosCounted
  <2>13. Drained'
    BY SMT, <2>1, <2>2, <2>5 DEF Inv, Drained, GroupsTrue, ReadersServe
  <2>14. Faultless'
    BY SMT, <2>1, <2>2 DEF Inv, Faultless, RaAlone, GroupsTrue, MapReady
  <2>15. ReadsTrue'
    BY SMT, <2>1, <2>2, <2>5, <2>8, GroupsIn, OrderedIs DEF Inv, ReadsTrue, Intact
  <2> QED  BY <2>10, <2>3, <2>11, <2>12, <2>13, <2>14, <2>15 DEF Inv
<1>2. CASE /\ reader[r].pc = "base" /\ NoFault
           /\ reader' = [reader EXCEPT ![r].pc = "got", ![r].val = base[Ops[reader[r].op].new]]
  <2>1. UNCHANGED << base, stored, head, head_stored, scratch, scratch_stored, up, first, io_state,
        merge_initiated, resume_merge, populate, ra_started, serving, group, ios, map, window, ra,
        mt, crashes, faults>>
    BY SMT, <1>2 DEF ReadFromDevice
  <2>2. /\ reader[r].pc = "base"
        /\ reader' \in [Readers -> ReaderType]
        /\ \A q \in Readers : q # r => reader'[q] = reader[q]
        /\ reader'[r].pc = "got"
        /\ reader'[r].op = reader[r].op
        /\ reader'[r].val = base[Ops[reader[r].op].new]
    <3>1. reader[r].pc = "base"
      BY SMT, <1>2 DEF Inv, ReadFromDevice, TypeOK
    <3>2. /\ reader' \in [Readers -> ReaderType]
          /\ \A q \in Readers : q # r => reader'[q] = reader[q]
          /\ reader'[r].pc = "got"
          /\ reader'[r].op = reader[r].op
          /\ reader'[r].val = base[Ops[reader[r].op].new]
      <4>1. HasRead(r, "got", base[Ops[reader[r].op].new])
        BY <1>2 DEF HasRead
      <4>2. "got" \in ReaderSteps  BY DEF ReaderSteps
      <4>3. reader[r].op \in OrderedOps(first)
        BY <1>2 DEF Inv, ReadersServe
      <4>4. base[Ops[reader[r].op].new] \in Values
        BY <4>3, OpsTyped DEF Inv, TypeOK, OrderedOps
      <4> QED  BY <4>1, <4>2, <4>4, ReaderReads DEF Inv
    <3> QED  BY <3>1, <3>2
  <2>3. TypeOK'
    <3>1. reader' \in [Readers -> ReaderType]
      BY <2>2
    <3> QED  BY <2>1, <3>1 DEF Inv, TypeOK
  <2>4. Fields /\ Fields' /\ Flags /\ Flags' /\ Cells /\ Cells'
    BY <2>3, FieldsTyped, FieldsTypedNext DEF Inv
  <2>5. \A j : Group(j)' = Group(j)
    BY <2>1 DEF Group
  <2>6. \A a, w : Saved(a, w)' <=> Saved(a, w)
    BY <2>1 DEF Saved
  <2>7. \A a, w : Mapped(a, w)' <=> Mapped(a, w)
    BY <2>1 DEF Mapped
  <2>8. \A j : Intact(j)' <=> Intact(j)
    BY <2>1 DEF Intact
  <2>9. \A j : MergedUpTo(j)' <=> MergedUpTo(j)
    BY <2>1 DEF MergedUpTo
  <2>10.
        WindowLoaded' /\ MergeBusy' /\ WindowMerged' /\ DoneTrue' /\ RaAlone' /\ RaMayTake' /\ RaBegins' /\ RaCopies' /\ RaSyncs' /\ Fetched' /\ Ended' /\ BatchTurn' /\ Down' /\ Aligned' /\ GroupsTrue' /\ MapReady' /\ SlotsTrue' /\ Vouched' /\ Recoverable' /\ CountedMerged' /\ SessionMerged' /\ RaSources' /\ ReadSources' /\ ResumedFirst' /\ ResumedMapped' /\ ResumedServed'
    BY <2>1, WindowLoadedFrame, MergeBusyFrame, WindowMergedFrame, DoneTrueFrame, RaAloneFrame,
        RaMayTakeFrame, RaBeginsFrame, RaCopiesFrame, RaSyncsFrame, FetchedFrame, EndedFrame,
        BatchTurnFrame, DownFrame, AlignedFrame, GroupsTrueFrame, MapReadyFrame, SlotsTrueFrame,
        VouchedFrame, RecoverableFrame, CountedMergedFrame, SessionMergedFrame, RaSourcesFrame,
        ReadSourcesFrame, ResumedFirstFrame, ResumedMappedFrame, ResumedServedFrame DEF Inv
  <2>11. ReadersServe'
    BY SMT, <2>1, <2>2 DEF Inv, ReadersServe
  <2>12. IosCounted'
    <3>1. \A g : Counted(g)' = Counted(g)  BY <2>1, <2>2, CountedKept
    <3> QED  BY <2>1, <3>1 DEF Inv, IosCounted
  <2>13. Drained'
    BY SMT, <2>1, <2>2, <2>5 DEF Inv, Drained, GroupsTrue, ReadersServe
  <2>14. Faultless'
    BY SMT, <2>1, <2>2 DEF Inv, Faultless, RaAlone, GroupsTrue, MapReady
  <2>15. ReadsTrue'
    <3> DEFINE i == reader[r].op
    <3>1. i \in OrderedOps(first) /\ up  BY <2>2 DEF Inv, ReadersServe, Down
    <3>2. Group(i) \in Indices /\ (Group(i) <= WindowsDone <=> i < MtStart)  BY <3>1, GroupsIn
    <3>3. group[Group(i)] = "COMPLETED"  BY <2>2 DEF Inv, Drained
    <3>4. mt.idx \in Nat /\ mt.next \in Nat /\ mt.done \in Nat  BY <2>4
    <3>5. Group(i) <= mt.idx /\ (Group(i) = mt.idx => mt.pc = "notify")
      <4>1. Group(i) \in Nat  BY <3>2, Numbers
      <4>2. ASSUME Group(i) > mt.idx PROVE FALSE
        BY <4>2, <3>2, <3>3 DEF Inv, GroupsTrue
      <4>3. ASSUME Group(i) = mt.idx, mt.pc # "notify" PROVE FALSE
        <5>1. mt.pc \in MergeSteps  BY DEF Inv, TypeOK, MergeType
        <5>2. mt.idx \in Indices /\ group[mt.idx] = "COMPLETED"  BY <3>2, <3>3, <4>3
        <5>3. ~AtBatch /\ ~(AtWindow /\ mt.pc # "drain")
          BY <5>2 DEF Inv, GroupsTrue
        <5>4. mt.pc \notin {"commit", "commit_state", "commit_sync", "replace", "flush", "check"}
          BY <5>3
        <5>5. mt.pc \in {"begin", "window", "drain", "write", "fsync", "completed", "end"}
          BY <5>1, <5>4, <4>3 DEF MergeSteps
        <5> QED  BY <5>5, <5>2 DEF Inv, GroupsTrue
      <4> QED  BY <4>1, <4>2, <4>3, <3>4
    <3>6. Group(i) <= WindowsDone  BY <3>2, <3>4, <3>5, Numbers
    <3>7. i \in Indices /\ first < i /\ i < mt.next  BY <3>1, <3>2, <3>4, <3>6, Numbers, OrderedIs
    <3>8. base[Ops[i].new] = Ops[i].src  BY <3>1, <3>7 DEF Inv, SessionMerged
    <3> QED  BY <2>1, <2>2, <2>8, <3>8 DEF Inv, ReadsTrue
  <2> QED  BY <2>10, <2>3, <2>11, <2>12, <2>13, <2>14, <2>15 DEF Inv
<1>3. CASE /\ reader[r].pc = "source" /\ Fault("read")
           /\ reader' = [reader EXCEPT ![r].pc = "release_error"]
  <2>1. UNCHANGED << base, stored, head, head_stored, scratch, scratch_stored, up, first, io_state,
        merge_initiated, resume_merge, populate, ra_started, serving, group, ios, map, window, ra,
        mt, crashes>>
    BY SMT, <1>3 DEF ReadFromDevice
  <2>2. /\ reader[r].pc = "source"
        /\ reader' \in [Readers -> ReaderType]
        /\ \A q \in Readers : q # r => reader'[q] = reader[q]
        /\ reader'[r].pc = "release_error"
        /\ reader'[r].op = reader[r].op
        /\ reader'[r].val = reader[r].val
        /\ faults' \in [count : 0..MaxFaults, sites : SUBSET Marked]
        /\ faults'.count = faults.count + 1
        /\ "commit" \in faults.sites => "commit" \in faults'.sites
        /\ "timeout" \in faults.sites => "timeout" \in faults'.sites
    <3>1. reader[r].pc = "source"
      BY SMT, <1>3 DEF Inv, ReadFromDevice, TypeOK
    <3>2. /\ reader' \in [Readers -> ReaderType]
          /\ \A q \in Readers : q # r => reader'[q] = reader[q]
          /\ reader'[r].pc = "release_error"
          /\ reader'[r].op = reader[r].op
          /\ reader'[r].val = reader[r].val
      <4>1. reader' = [reader EXCEPT ![r].pc = "release_error"]
        BY <1>3 DEF ReadFromDevice
      <4>2. ("release_error") \in ReaderSteps  BY DEF ReaderSteps
      <4> QED  BY <4>1, <4>2, ReaderStep DEF Inv
    <3>3. /\ faults' \in [count : 0..MaxFaults, sites : SUBSET Marked]
          /\ faults'.count = faults.count + 1
          /\ "commit" \in faults.sites => "commit" \in faults'.sites
          /\ "timeout" \in faults.sites => "timeout" \in faults'.sites
      BY SMT, <1>3, FaultIs DEF Inv, ReadFromDevice, Marked
    <3> QED  BY <3>1, <3>2, <3>3
  <2>3. TypeOK'
    <3>1. reader' \in [Readers -> ReaderType]
      BY <2>2
    <3>2. faults' \in [count : 0..MaxFaults, sites : SUBSET Marked]
      BY <2>2
    <3> QED  BY <2>1, <3>1, <3>2 DEF Inv, TypeOK
  <2>4. Fields /\ Fields' /\ Flags /\ Flags' /\ Cells /\ Cells'
    BY <2>3, FieldsTyped, FieldsTypedNext DEF Inv
  <2>5. \A j : Group(j)' = Group(j)
    BY <2>1 DEF Group
  <2>6. \A a, w : Saved(a, w)' <=> Saved(a, w)
    BY <2>1 DEF Saved
  <2>7. \A a, w : Mapped(a, w)' <=> Mapped(a, w)
    BY <2>1 DEF Mapped
  <2>8. \A j : Intact(j)' <=> Intact(j)
    BY <2>1 DEF Intact
  <2>9. \A j : MergedUpTo(j)' <=> MergedUpTo(j)
    BY <2>1 DEF MergedUpTo
  <2>10.
        WindowLoaded' /\ MergeBusy' /\ WindowMerged' /\ DoneTrue' /\ RaAlone' /\ RaMayTake' /\ RaBegins' /\ RaCopies' /\ RaSyncs' /\ Fetched' /\ Ended' /\ BatchTurn' /\ Down' /\ Aligned' /\ GroupsTrue' /\ MapReady' /\ SlotsTrue' /\ Vouched' /\ Recoverable' /\ SessionMerged' /\ RaSources' /\ ReadSources' /\ ResumedFirst' /\ ResumedMapped'
    BY <2>1, WindowLoadedFrame, MergeBusyFrame, WindowMergedFrame, DoneTrueFrame, RaAloneFrame,
        RaMayTakeFrame, RaBeginsFrame, RaCopiesFrame, RaSyncsFrame, FetchedFrame, EndedFrame,
        BatchTurnFrame, DownFrame, AlignedFrame, GroupsTrueFrame, MapReadyFrame, SlotsTrueFrame,
        VouchedFrame, RecoverableFrame, SessionMergedFrame, RaSourcesFrame, ReadSourcesFrame,
        ResumedFirstFrame, ResumedMappedFrame DEF Inv
  <2>11. ReadersServe'
    BY SMT, <2>1, <2>2 DEF Inv, ReadersServe
  <2>12. IosCounted'
    <3>1. \A g : Counted(g)' = Counted(g)  BY <2>1, <2>2, CountedKept
    <3> QED  BY <2>1, <3>1 DEF Inv, IosCounted
  <2>13. Drained'
    BY SMT, <2>1, <2>2, <2>5 DEF Inv, Drained, GroupsTrue, ReadersServe
  <2>14. Faultless'
    BY SMT, <2>1, <2>2, <2>4, Numbers DEF Inv, Faultless, RaAlone, GroupsTrue, MapReady
  <2>15. CountedMerged'
    BY SMT, <2>1, <2>2, <2>9 DEF Inv, CountedMerged
  <2>16. ResumedServed'
    BY SMT, <2>1, <2>2 DEF Inv, ResumedServed, Flags
  <2>17. ReadsTrue'
    BY SMT, <2>1, <2>2, <2>5, <2>8, GroupsIn, OrderedIs DEF Inv, ReadsTrue, ReadersServe
  <2> QED  BY <2>10, <2>3, <2>11, <2>12, <2>13, <2>14, <2>15, <2>16, <2>17 DEF Inv
<1>4. CASE /\ reader[r].pc = "base" /\ Fault("read")
           /\ reader' = [reader EXCEPT ![r].pc = "error"]
  <2>1. UNCHANGED << base, stored, head, head_stored, scratch, scratch_stored, up, first, io_state,
        merge_initiated, resume_merge, populate, ra_started, serving, group, ios, map, window, ra,
        mt, crashes>>
    BY SMT, <1>4 DEF ReadFromDevice
  <2>2. /\ reader[r].pc = "base"
        /\ reader' \in [Readers -> ReaderType]
        /\ \A q \in Readers : q # r => reader'[q] = reader[q]
        /\ reader'[r].pc = "error"
        /\ reader'[r].op = reader[r].op
        /\ reader'[r].val = reader[r].val
        /\ faults' \in [count : 0..MaxFaults, sites : SUBSET Marked]
        /\ faults'.count = faults.count + 1
        /\ "commit" \in faults.sites => "commit" \in faults'.sites
        /\ "timeout" \in faults.sites => "timeout" \in faults'.sites
    <3>1. reader[r].pc = "base"
      BY SMT, <1>4 DEF Inv, ReadFromDevice, TypeOK
    <3>2. /\ reader' \in [Readers -> ReaderType]
          /\ \A q \in Readers : q # r => reader'[q] = reader[q]
          /\ reader'[r].pc = "error"
          /\ reader'[r].op = reader[r].op
          /\ reader'[r].val = reader[r].val
      <4>1. reader' = [reader EXCEPT ![r].pc = "error"]
        BY <1>4 DEF ReadFromDevice
      <4>2. ("error") \in ReaderSteps  BY DEF ReaderSteps
      <4> QED  BY <4>1, <4>2, ReaderStep DEF Inv
    <3>3. /\ faults' \in [count : 0..MaxFaults, sites : SUBSET Marked]
          /\ faults'.count = faults.count + 1
          /\ "commit" \in faults.sites => "commit" \in faults'.sites
          /\ "timeout" \in faults.sites => "timeout" \in faults'.sites
      BY SMT, <1>4, FaultIs DEF Inv, ReadFromDevice, Marked
    <3> QED  BY <3>1, <3>2, <3>3
  <2>3. TypeOK'
    <3>1. reader' \in [Readers -> ReaderType]
      BY <2>2
    <3>2. faults' \in [count : 0..MaxFaults, sites : SUBSET Marked]
      BY <2>2
    <3> QED  BY <2>1, <3>1, <3>2 DEF Inv, TypeOK
  <2>4. Fields /\ Fields' /\ Flags /\ Flags' /\ Cells /\ Cells'
    BY <2>3, FieldsTyped, FieldsTypedNext DEF Inv
  <2>5. \A j : Group(j)' = Group(j)
    BY <2>1 DEF Group
  <2>6. \A a, w : Saved(a, w)' <=> Saved(a, w)
    BY <2>1 DEF Saved
  <2>7. \A a, w : Mapped(a, w)' <=> Mapped(a, w)
    BY <2>1 DEF Mapped
  <2>8. \A j : Intact(j)' <=> Intact(j)
    BY <2>1 DEF Intact
  <2>9. \A j : MergedUpTo(j)' <=> MergedUpTo(j)
    BY <2>1 DEF MergedUpTo
  <2>10.
        WindowLoaded' /\ MergeBusy' /\ WindowMerged' /\ DoneTrue' /\ RaAlone' /\ RaMayTake' /\ RaBegins' /\ RaCopies' /\ RaSyncs' /\ Fetched' /\ Ended' /\ BatchTurn' /\ Down' /\ Aligned' /\ GroupsTrue' /\ MapReady' /\ SlotsTrue' /\ Vouched' /\ Recoverable' /\ SessionMerged' /\ RaSources' /\ ReadSources' /\ ResumedFirst' /\ ResumedMapped'
    BY <2>1, WindowLoadedFrame, MergeBusyFrame, WindowMergedFrame, DoneTrueFrame, RaAloneFrame,
        RaMayTakeFrame, RaBeginsFrame, RaCopiesFrame, RaSyncsFrame, FetchedFrame, EndedFrame,
        BatchTurnFrame, DownFrame, AlignedFrame, GroupsTrueFrame, MapReadyFrame, SlotsTrueFrame,
        VouchedFrame, RecoverableFrame, SessionMergedFrame, RaSourcesFrame, ReadSourcesFrame,
        ResumedFirstFrame, ResumedMappedFrame DEF Inv
  <2>11. ReadersServe'
    BY SMT, <2>1, <2>2 DEF Inv, ReadersServe
  <2>12. IosCounted'
    <3>1. \A g : Counted(g)' = Counted(g)  BY <2>1, <2>2, CountedKept
    <3> QED  BY <2>1, <3>1 DEF Inv, IosCounted
  <2>13. Drained'
    BY SMT, <2>1, <2>2, <2>5 DEF Inv, Drained, GroupsTrue, ReadersServe
  <2>14. Faultless'
    BY SMT, <2>1, <2>2, <2>4, Numbers DEF Inv, Faultless, RaAlone, GroupsTrue, MapReady
  <2>15. CountedMerged'
    BY SMT, <2>1, <2>2, <2>9 DEF Inv, CountedMerged
  <2>16. ResumedServed'
    BY SMT, <2>1, <2>2 DEF Inv, ResumedServed, Flags
  <2>17. ReadsTrue'
    BY SMT, <2>1, <2>2, <2>5, <2>8, GroupsIn, OrderedIs DEF Inv, ReadsTrue, ReadersServe
  <2> QED  BY <2>10, <2>3, <2>11, <2>12, <2>13, <2>14, <2>15, <2>16, <2>17 DEF Inv
<1>5. CASE reader[r].pc = "source"  BY <1>5, <1>1, <1>3 DEF ReadFromDevice
<1>6. CASE reader[r].pc = "base"  BY <1>6, <1>2, <1>4 DEF ReadFromDevice
<1> QED  BY <1>5, <1>6 DEF ReadFromDevice

(* A read is counted off its window. *)
LEMMA NotifyIOCompletionKeeps == ASSUME NEW r \in Readers, Inv, NotifyIOCompletion(r) PROVE Inv'
<1>1. UNCHANGED << base, stored, head, head_stored, scratch, scratch_stored, up, first, io_state,
        merge_initiated, resume_merge, populate, ra_started, serving, group, map, window, ra, mt,
        crashes, faults>>
  BY SMT DEF NotifyIOCompletion
<1>2. /\ reader[r].pc \in {"release", "release_error"}
      /\ reader' \in [Readers -> ReaderType]
      /\ \A q \in Readers : q # r => reader'[q] = reader[q]
      /\ reader'[r].pc = IF reader[r].pc = "release" THEN "got" ELSE "error"
      /\ reader'[r].op = reader[r].op
      /\ reader'[r].val = reader[r].val
      /\ \A g \in Indices : ios'[g] = IF g = Group(reader[r].op) THEN ios[g] - 1 ELSE ios[g]
  <2>1. reader[r].pc \in {"release", "release_error"}
    BY SMT DEF Inv, NotifyIOCompletion, TypeOK
  <2>2. /\ reader' \in [Readers -> ReaderType]
        /\ \A q \in Readers : q # r => reader'[q] = reader[q]
        /\ reader'[r].pc = IF reader[r].pc = "release" THEN "got" ELSE "error"
        /\ reader'[r].op = reader[r].op
        /\ reader'[r].val = reader[r].val
    <3>1. reader' = [reader EXCEPT ![r].pc = IF reader[r].pc = "release" THEN "got" ELSE "error"]
      BY DEF NotifyIOCompletion
    <3>2. (IF reader[r].pc = "release" THEN "got" ELSE "error") \in ReaderSteps  BY DEF ReaderSteps
    <3> QED  BY <3>1, <3>2, ReaderStep DEF Inv
  <2>3. \A g \in Indices : ios'[g] = IF g = Group(reader[r].op) THEN ios[g] - 1 ELSE ios[g]
    BY SMT DEF Inv, NotifyIOCompletion, TypeOK
  <2> QED  BY <2>1, <2>2, <2>3
<1>3. TypeOK'
  <2>1. ios' \in [Indices -> 0..Cardinality(Readers)]
    <3>1. \A g \in Indices : ios'[g] = Cardinality(Counted(g)')
      BY <1>1, <1>2, CountedLess DEF Inv, IosCounted
    <3>2. ios' = [g \in Indices |-> ios'[g]]
      BY DEF Inv, TypeOK, NotifyIOCompletion
    <3> QED  BY <3>1, <3>2, CountedBoundedNext
  <2>2. reader' \in [Readers -> ReaderType]
    BY <1>2
  <2> QED  BY <1>1, <2>1, <2>2 DEF Inv, TypeOK
<1>4. Fields /\ Fields' /\ Flags /\ Flags' /\ Cells /\ Cells'
  BY <1>3, FieldsTyped, FieldsTypedNext DEF Inv
<1>5. \A j : Group(j)' = Group(j)
  BY <1>1 DEF Group
<1>6. \A a, w : Saved(a, w)' <=> Saved(a, w)
  BY <1>1 DEF Saved
<1>7. \A a, w : Mapped(a, w)' <=> Mapped(a, w)
  BY <1>1 DEF Mapped
<1>8. \A j : Intact(j)' <=> Intact(j)
  BY <1>1 DEF Intact
<1>9. \A j : MergedUpTo(j)' <=> MergedUpTo(j)
  BY <1>1 DEF MergedUpTo
<1>10.
        WindowLoaded' /\ MergeBusy' /\ WindowMerged' /\ DoneTrue' /\ RaAlone' /\ RaMayTake' /\ RaBegins' /\ RaCopies' /\ RaSyncs' /\ Fetched' /\ Ended' /\ BatchTurn' /\ Aligned' /\ GroupsTrue' /\ MapReady' /\ SlotsTrue' /\ Vouched' /\ Recoverable' /\ CountedMerged' /\ SessionMerged' /\ RaSources' /\ ReadSources' /\ ResumedFirst' /\ ResumedMapped' /\ ResumedServed'
  BY <1>1, WindowLoadedFrame, MergeBusyFrame, WindowMergedFrame, DoneTrueFrame, RaAloneFrame,
        RaMayTakeFrame, RaBeginsFrame, RaCopiesFrame, RaSyncsFrame, FetchedFrame, EndedFrame,
        BatchTurnFrame, AlignedFrame, GroupsTrueFrame, MapReadyFrame, SlotsTrueFrame, VouchedFrame,
        RecoverableFrame, CountedMergedFrame, SessionMergedFrame, RaSourcesFrame, ReadSourcesFrame,
        ResumedFirstFrame, ResumedMappedFrame, ResumedServedFrame DEF Inv
<1>11. Down'
  BY SMT, <1>1, <1>2, <1>4, Numbers DEF Inv, Down, ReadersServe, Flags
<1>12. ReadersServe'
  BY SMT, <1>1, <1>2 DEF Inv, ReadersServe
<1>13. IosCounted'
  <2>1. \A g \in Indices : ios'[g] = Cardinality(Counted(g)')
    BY <1>1, <1>2, CountedLess DEF Inv, IosCounted
  <2> QED  BY <2>1 DEF IosCounted
<1>14. Drained'
  BY SMT, <1>1, <1>2, <1>5 DEF Inv, Drained, GroupsTrue, ReadersServe
<1>15. Faultless'
  BY SMT, <1>1, <1>2 DEF Inv, Faultless, RaAlone, GroupsTrue, MapReady
<1>16. ReadsTrue'
  BY SMT, <1>1, <1>2, <1>5, <1>8, GroupsIn, OrderedIs DEF Inv, ReadsTrue, ReadersServe
<1> QED  BY <1>10, <1>3, <1>11, <1>12, <1>13, <1>14, <1>15, <1>16 DEF Inv

(* A worker that answered reads nothing. *)
LEMMA AnswerKeeps == ASSUME NEW r \in Readers, Inv, Answer(r) PROVE Inv'
<1>1. UNCHANGED << base, stored, head, head_stored, scratch, scratch_stored, up, first, io_state,
        merge_initiated, resume_merge, populate, ra_started, serving, group, ios, map, window, ra,
        mt, crashes, faults>>
  BY SMT DEF Answer
<1>2. /\ reader[r].pc = "got"
      /\ reader' \in [Readers -> ReaderType]
      /\ \A q \in Readers : q # r => reader'[q] = reader[q]
      /\ reader'[r].pc = "idle"
      /\ reader'[r].op = 0
      /\ reader'[r].val = Cow
  <2>1. reader[r].pc = "got"
    BY SMT DEF Inv, Answer, TypeOK
  <2>2. /\ reader' \in [Readers -> ReaderType]
        /\ \A q \in Readers : q # r => reader'[q] = reader[q]
        /\ reader'[r].pc = "idle"
        /\ reader'[r].op = 0
        /\ reader'[r].val = Cow
    <3>1. reader' = [reader EXCEPT ![r] = [pc |-> "idle", op |-> 0, val |-> Cow]]
      BY DEF Answer, ReaderIdle
    <3>2. [pc |-> "idle", op |-> 0, val |-> Cow] \in ReaderType
      BY OpsTyped DEF ReaderType, ReaderSteps, OrderedOps
    <3> QED  BY <3>1, <3>2, ReaderSet DEF Inv
  <2> QED  BY <2>1, <2>2
<1>3. TypeOK'
  <2>1. reader' \in [Readers -> ReaderType]
    BY <1>2
  <2> QED  BY <1>1, <2>1 DEF Inv, TypeOK
<1>4. Fields /\ Fields' /\ Flags /\ Flags' /\ Cells /\ Cells'
  BY <1>3, FieldsTyped, FieldsTypedNext DEF Inv
<1>5. \A j : Group(j)' = Group(j)
  BY <1>1 DEF Group
<1>6. \A a, w : Saved(a, w)' <=> Saved(a, w)
  BY <1>1 DEF Saved
<1>7. \A a, w : Mapped(a, w)' <=> Mapped(a, w)
  BY <1>1 DEF Mapped
<1>8. \A j : Intact(j)' <=> Intact(j)
  BY <1>1 DEF Intact
<1>9. \A j : MergedUpTo(j)' <=> MergedUpTo(j)
  BY <1>1 DEF MergedUpTo
<1>10.
        WindowLoaded' /\ MergeBusy' /\ WindowMerged' /\ DoneTrue' /\ RaAlone' /\ RaMayTake' /\ RaBegins' /\ RaCopies' /\ RaSyncs' /\ Fetched' /\ Ended' /\ BatchTurn' /\ Down' /\ Aligned' /\ GroupsTrue' /\ MapReady' /\ SlotsTrue' /\ Vouched' /\ Recoverable' /\ CountedMerged' /\ SessionMerged' /\ RaSources' /\ ReadSources' /\ ResumedFirst' /\ ResumedMapped' /\ ResumedServed'
  BY <1>1, WindowLoadedFrame, MergeBusyFrame, WindowMergedFrame, DoneTrueFrame, RaAloneFrame,
        RaMayTakeFrame, RaBeginsFrame, RaCopiesFrame, RaSyncsFrame, FetchedFrame, EndedFrame,
        BatchTurnFrame, DownFrame, AlignedFrame, GroupsTrueFrame, MapReadyFrame, SlotsTrueFrame,
        VouchedFrame, RecoverableFrame, CountedMergedFrame, SessionMergedFrame, RaSourcesFrame,
        ReadSourcesFrame, ResumedFirstFrame, ResumedMappedFrame, ResumedServedFrame DEF Inv
<1>11. ReadersServe'
  BY SMT, <1>1, <1>2 DEF Inv, ReadersServe
<1>12. IosCounted'
  <2>1. \A g : Counted(g)' = Counted(g)  BY <1>1, <1>2, CountedKept
  <2> QED  BY <1>1, <2>1 DEF Inv, IosCounted
<1>13. Drained'
  BY SMT, <1>1, <1>2, <1>5 DEF Inv, Drained, GroupsTrue, ReadersServe
<1>14. Faultless'
  BY SMT, <1>1, <1>2 DEF Inv, Faultless, RaAlone, GroupsTrue, MapReady
<1>15. ReadsTrue'
  BY SMT, <1>1, <1>2, <1>5, <1>8, GroupsIn, OrderedIs DEF Inv, ReadsTrue, ReadersServe
<1> QED  BY <1>10, <1>3, <1>11, <1>12, <1>13, <1>14, <1>15 DEF Inv

-----------------------------------------------------------------------------
(* The read-ahead thread. *)

(* The read-ahead thread gives up: the scratch space and what it vouches for stay as they are. *)
LEMMA RaGivesUpKeeps == ASSUME NEW site, Inv, RaGivesUp(site) PROVE Inv'
<1>1. UNCHANGED << base, stored, head, head_stored, scratch, scratch_stored, up, first,
        merge_initiated, resume_merge, populate, ra_started, serving, group, ios, map, window, mt,
        reader, crashes>>
  BY SMT DEF RaGivesUp
<1>2. /\ ra.pc # "end"
      /\ ra'.pc = "end"
      /\ ra'.next = ra.next
      /\ ra'.temp = ra.temp
      /\ ra'.resumed = ra.resumed
      /\ io_state' = io_state \/ io_state' = "READ_AHEAD_FAILURE"
      /\ faults' \in [count : 0..MaxFaults, sites : SUBSET Marked]
      /\ faults'.count = faults.count + 1
      /\ "commit" \in faults.sites => "commit" \in faults'.sites
      /\ "timeout" \in faults.sites => "timeout" \in faults'.sites
  <2>1. ra.pc # "end"
    BY SMT DEF Inv, RaGivesUp, TypeOK
  <2>2. /\ ra'.pc = "end"
        /\ ra'.next = ra.next
        /\ ra'.temp = ra.temp
        /\ ra'.resumed = ra.resumed
    BY SMT DEF Inv, RaGivesUp, TypeOK, RaType
  <2>3. io_state' = io_state \/ io_state' = "READ_AHEAD_FAILURE"
    BY SMT DEF Inv, RaGivesUp, TypeOK
  <2>4. /\ faults' \in [count : 0..MaxFaults, sites : SUBSET Marked]
        /\ faults'.count = faults.count + 1
        /\ "commit" \in faults.sites => "commit" \in faults'.sites
        /\ "timeout" \in faults.sites => "timeout" \in faults'.sites
    BY SMT, FaultIs DEF Inv, RaGivesUp, Marked
  <2> QED  BY <2>1, <2>2, <2>3, <2>4
<1>3. TypeOK'
  <2>1. io_state' \in IoStates
    BY SMT, <1>2, Numbers, OpsTyped DEF Inv, TypeOK, RaGivesUp, IoStates
  <2>2. ra' \in RaType /\ Len(ra'.temp) <= WindowSize
    <3>1. ra \in RaType /\ Len(ra.temp) <= WindowSize
      BY DEF Inv, TypeOK
    <3>2. ra' = [ra EXCEPT !.pc = "end"]
      BY Numbers DEF RaGivesUp
    <3>3. "end" \in RaSteps
      BY SMT, <1>2, Numbers DEF MergeSteps, RaSteps
    <3>4. ra' \in RaType  BY Zenon, <3>1, <3>2, <3>3 DEF RaType
    <3> QED  BY <3>1, <3>4, <1>2, Numbers
  <2>3. faults' \in [count : 0..MaxFaults, sites : SUBSET Marked]
    BY <1>2
  <2> QED  BY <1>1, <2>1, <2>2, <2>3 DEF Inv, TypeOK
<1>4. Fields /\ Fields' /\ Flags /\ Flags' /\ Cells /\ Cells'
  BY <1>3, FieldsTyped, FieldsTypedNext DEF Inv
<1>5. \A j : Group(j)' = Group(j)
  BY <1>1 DEF Group
<1>6. \A a, w : Saved(a, w)' <=> Saved(a, w)
  BY <1>1 DEF Saved
<1>7. \A a, w : Mapped(a, w)' <=> Mapped(a, w)
  BY <1>1 DEF Mapped
<1>8. \A j : Intact(j)' <=> Intact(j)
  BY <1>1 DEF Intact
<1>9. \A j : MergedUpTo(j)' <=> MergedUpTo(j)
  BY <1>1 DEF MergedUpTo
<1>10.
        DoneTrue' /\ Aligned' /\ GroupsTrue' /\ ReadersServe' /\ IosCounted' /\ Drained' /\ MapReady' /\ SlotsTrue' /\ Vouched' /\ Recoverable' /\ SessionMerged'
  BY <1>1, DoneTrueFrame, AlignedFrame, GroupsTrueFrame, ReadersServeFrame, IosCountedFrame,
        DrainedFrame, MapReadyFrame, SlotsTrueFrame, VouchedFrame, RecoverableFrame,
        SessionMergedFrame DEF Inv
<1>11. WindowLoaded'
  BY SMT, <1>1, <1>2, <1>6, <1>7 DEF Inv, WindowLoaded, Loaded
<1>12. MergeBusy'
  BY SMT, <1>1, <1>2 DEF Inv, MergeBusy, DoneTrue, RaAlone, RaMayTake, GroupsTrue
<1>13. WindowMerged'
  BY SMT, <1>1, <1>2 DEF Inv, WindowMerged, DoneTrue, WindowLoaded, RaAlone
<1>14. RaAlone'
  BY SMT, <1>1, <1>2 DEF Inv, RaAlone, RaMayTake, DoneTrue, Fetched, Ended
<1>15. RaMayTake'
  BY SMT, <1>1, <1>2 DEF Inv, RaMayTake, WindowMerged, RaAlone, RaBegins, DoneTrue, Fetched,
        MergeBusy
<1>16. RaBegins'
  BY SMT, <1>1, <1>2 DEF Inv, RaBegins, RaAlone, Down, Flags
<1>17. RaCopies'
  BY SMT, <1>1, <1>2, <1>6 DEF Inv, RaCopies, RaMayTake, RaAlone, Fetched
<1>18. RaSyncs'
  BY SMT, <1>1, <1>2, <1>6, <1>7 DEF Inv, RaSyncs, RaAlone, RaCopies, Fetched
<1>19. Fetched'
  BY SMT, <1>1, <1>2 DEF Inv, Fetched, RaSyncs, RaBegins
<1>20. Ended'
  BY SMT, <1>1, <1>2 DEF Inv, Ended, RaAlone, MergeBusy, Flags
<1>21. BatchTurn'
  BY SMT, <1>1, <1>2 DEF Inv, BatchTurn, WindowMerged, DoneTrue, Fetched, RaAlone, WindowLoaded
<1>22. Down'
  BY SMT, <1>1, <1>2 DEF Inv, Down, Flags
<1>23. Faultless'
  BY SMT, <1>1, <1>2, <1>4, Numbers DEF Inv, Faultless, RaAlone, GroupsTrue, MapReady
<1>24. CountedMerged'
  BY SMT, <1>1, <1>2, <1>9 DEF Inv, CountedMerged
<1>25. RaSources'
  BY SMT, <1>1, <1>2, <1>8 DEF Inv, RaSources, WindowLoaded, Fetched
<1>26. ReadSources'
  BY SMT, <1>1, <1>2, <1>5, <1>8 DEF Inv, ReadSources, GroupsTrue, WindowLoaded
<1>27. ResumedFirst'
  BY SMT, <1>1, <1>2 DEF Inv, ResumedFirst, RaAlone
<1>28. ResumedMapped'
  BY SMT, <1>1, <1>2, <1>5 DEF Inv, ResumedMapped, ResumedFirst, GroupsTrue
<1>29. ResumedServed'
  BY SMT, <1>1, <1>2 DEF Inv, ResumedServed, Flags
<1>30. ReadsTrue'
  BY SMT, <1>1, <1>2, <1>5, <1>8, GroupsIn, OrderedIs DEF Inv, ReadsTrue, ReadersServe
<1> QED  BY <1>10, <1>3, <1>11, <1>12, <1>13, <1>14, <1>15, <1>16, <1>17, <1>18, <1>19, <1>20,
        <1>21, <1>22, <1>23, <1>24, <1>25, <1>26, <1>27, <1>28, <1>29, <1>30 DEF Inv

(* The read-ahead thread rebuilds the map exactly when the header vouches for the scratch *)
(* space.                                                                                 *)
LEMMA RaStartKeeps == ASSUME Inv, RaStart PROVE Inv'
<1>1. CASE ra' = [ra EXCEPT !.pc = IF populate THEN "reconstruct" ELSE "read"] /\ NoFault
  <2>1. UNCHANGED << base, stored, head, head_stored, scratch, scratch_stored, up, first, io_state,
        merge_initiated, resume_merge, populate, ra_started, serving, group, ios, map, window, mt,
        reader, crashes, faults>>
    BY SMT, <1>1 DEF RaStart
  <2>2. /\ ra.pc = "start"
        /\ ra'.pc = IF populate THEN "reconstruct" ELSE "read"
        /\ ra'.next = ra.next
        /\ ra'.temp = ra.temp
        /\ ra'.resumed = ra.resumed
    <3>1. ra.pc = "start"
      BY SMT, <1>1 DEF Inv, RaStart, TypeOK
    <3>2. /\ ra'.pc = IF populate THEN "reconstruct" ELSE "read"
          /\ ra'.next = ra.next
          /\ ra'.temp = ra.temp
          /\ ra'.resumed = ra.resumed
      BY SMT, <1>1 DEF Inv, RaStart, TypeOK, RaType
    <3> QED  BY <3>1, <3>2
  <2>3. TypeOK'
    <3>1. ra' \in RaType /\ Len(ra'.temp) <= WindowSize
      <4>1. ra \in RaType /\ Len(ra.temp) <= WindowSize
        BY DEF Inv, TypeOK
      <4>2. ra' = [ra EXCEPT !.pc = IF populate THEN "reconstruct" ELSE "read"]
        BY <1>1, Numbers DEF RaStart
      <4>3. (IF populate THEN "reconstruct" ELSE "read") \in RaSteps
        BY SMT, <1>1, <2>2, Numbers DEF MergeSteps, RaSteps
      <4>4. ra' \in RaType  BY Zenon, <4>1, <4>2, <4>3 DEF RaType
      <4> QED  BY <4>1, <4>4, <2>2, Numbers
    <3> QED  BY <2>1, <3>1 DEF Inv, TypeOK
  <2>4. Fields /\ Fields' /\ Flags /\ Flags' /\ Cells /\ Cells'
    BY <2>3, FieldsTyped, FieldsTypedNext DEF Inv
  <2>5. \A j : Group(j)' = Group(j)
    BY <2>1 DEF Group
  <2>6. \A a, w : Saved(a, w)' <=> Saved(a, w)
    BY <2>1 DEF Saved
  <2>7. \A a, w : Mapped(a, w)' <=> Mapped(a, w)
    BY <2>1 DEF Mapped
  <2>8. \A j : Intact(j)' <=> Intact(j)
    BY <2>1 DEF Intact
  <2>9. \A j : MergedUpTo(j)' <=> MergedUpTo(j)
    BY <2>1 DEF MergedUpTo
  <2>10.
        MergeBusy' /\ DoneTrue' /\ Aligned' /\ GroupsTrue' /\ ReadersServe' /\ IosCounted' /\ Drained' /\ MapReady' /\ Faultless' /\ SlotsTrue' /\ Vouched' /\ Recoverable' /\ CountedMerged' /\ SessionMerged'
    BY <2>1, MergeBusyFrame, DoneTrueFrame, AlignedFrame, GroupsTrueFrame, ReadersServeFrame,
        IosCountedFrame, DrainedFrame, MapReadyFrame, FaultlessFrame, SlotsTrueFrame, VouchedFrame,
        RecoverableFrame, CountedMergedFrame, SessionMergedFrame DEF Inv
  <2>11. RaBegin = ra.next /\ RaBegin' = ra.next
    BY SMTT(30), <2>2, <2>4 DEF Inv, Fetched
  <2>12. ra.resumed => populate
    BY <2>2 DEF Inv, RaBegins
  <2>13. WindowLoaded'
    BY SMT, <2>1, <2>2, <2>6, <2>7 DEF Inv, WindowLoaded, Loaded
  <2>14. WindowMerged'
    BY SMT, <2>1, <2>2 DEF Inv, WindowMerged, DoneTrue, WindowLoaded, RaAlone
  <2>15. RaAlone'
    BY SMT, <2>1, <2>2 DEF Inv, RaAlone, RaMayTake, DoneTrue, Fetched, Ended
  <2>16. RaMayTake'
    BY SMT, <2>1, <2>2, <2>4, <2>11, Numbers DEF Inv, RaMayTake, RaBegins, RaAlone, Ended, Down,
        Flags
  <2>17. RaBegins'
    BY SMT, <2>1, <2>2 DEF Inv, RaBegins, RaAlone, Down, Flags
  <2>18. RaCopies'
    BY SMT, <2>1, <2>2, <2>6 DEF Inv, RaCopies, RaMayTake, RaAlone, Fetched
  <2>19. RaSyncs'
    BY SMT, <2>1, <2>2, <2>6, <2>7, <2>11 DEF Inv, RaSyncs, RaAlone, RaCopies, Fetched
  <2>20. Fetched'
    BY SMT, <2>1, <2>2, <2>4, <2>11, Numbers DEF Inv, Fetched, Fetched, RaBegins, RaAlone
  <2>21. Ended'
    BY SMT, <2>1, <2>2 DEF Inv, Ended, RaAlone, MergeBusy, Flags
  <2>22. BatchTurn'
    BY SMT, <2>1, <2>2 DEF Inv, BatchTurn, WindowMerged, DoneTrue, Fetched, RaAlone, WindowLoaded
  <2>23. Down'
    BY SMT, <2>1, <2>2 DEF Inv, Down, Flags
  <2>24. RaSources'
    BY SMT, <2>1, <2>2, <2>4, <2>8, <2>11, Numbers DEF Inv, RaSources, RaBegins, Flags
  <2>25. ReadSources'
    BY SMT, <2>1, <2>2, <2>5, <2>8 DEF Inv, ReadSources, GroupsTrue, WindowLoaded
  <2>26. ResumedFirst'
    BY SMT, <2>1, <2>2, <2>4, <2>12, Numbers DEF Inv, ResumedFirst
  <2>27. ResumedMapped'
    BY SMT, <2>1, <2>2, <2>5 DEF Inv, ResumedMapped, ResumedFirst, GroupsTrue
  <2>28. ResumedServed'
    BY SMT, <2>1, <2>2 DEF Inv, ResumedServed, Flags
  <2>29. ReadsTrue'
    BY SMT, <2>1, <2>2, <2>5, <2>8, GroupsIn, OrderedIs DEF Inv, ReadsTrue, ReadersServe
  <2> QED  BY <2>10, <2>3, <2>13, <2>14, <2>15, <2>16, <2>17, <2>18, <2>19, <2>20, <2>21, <2>22,
        <2>23, <2>24, <2>25, <2>26, <2>27, <2>28, <2>29 DEF Inv
<1>2. CASE Fault("ra_open") /\ ra' = [ra EXCEPT !.pc = "end"]
  <2>1. RaGivesUp("ra_open")
    BY SMT, <1>2 DEF Inv, RaStart, RaGivesUp
  <2> QED  BY <2>1, RaGivesUpKeeps
<1> QED  BY SMT, <1>1, <1>2 DEF RaStart

(* The rebuilt window is the next one to merge, and what comes after it is intact. *)
LEMMA RebuiltKeeps == ASSUME Inv, Rebuilt PROVE Inv'
<1>1. UNCHANGED << base, stored, head, head_stored, scratch, scratch_stored, up, first, io_state,
        merge_initiated, resume_merge, ra_started, serving, group, ios, mt, reader, crashes, faults>>
  BY SMT DEF Rebuilt
<1>2. /\ ra.pc = "reconstruct"
      /\ ra'.pc = "sync"
      /\ ra'.next = mt.next + window'
      /\ ra'.temp = ra.temp
      /\ ra'.resumed = ra.resumed
      /\ populate' = FALSE
      /\ IsWindow(mt.next, window')
      /\ Saved(mt.next, window')
      /\ window' \in 1..WindowSize
      /\ \A i \in Indices : map'[i] = IF mt.next <= i /\ i < mt.next + window' THEN i - mt.next + 1 ELSE 0
  <2>1. ra.pc = "reconstruct" /\ ra.next = mt.next  BY DEF Rebuilt, Inv, RaBegins
  <2>2. ra'.pc = "sync" /\ ra'.next = ra.next + window' /\ ra'.temp = ra.temp /\ ra'.resumed = ra.resumed
    BY DEF Rebuilt, Inv, TypeOK, RaType
  <2>3. populate' = FALSE /\ IsWindow(mt.next, window') /\ Saved(mt.next, window')  BY DEF Rebuilt
  <2>4. window' \in 1..WindowSize  BY <2>3 DEF IsWindow
  <2>5. \A i \in Indices : map'[i] = IF mt.next <= i /\ i < mt.next + window' THEN i - mt.next + 1 ELSE 0
    BY DEF Rebuilt
  <2> QED  BY <2>1, <2>2, <2>3, <2>4, <2>5
<1>3. TypeOK'
  <2>1. populate' \in BOOLEAN
    BY <1>2
  <2>2. map' \in [Indices -> 0..WindowSize]
    <3>1. mt.next \in Nat /\ mt.next > 0  BY FieldsTyped DEF Inv
    <3>2. ASSUME NEW i \in Indices
          PROVE  (IF mt.next <= i /\ i < mt.next + window' THEN i - mt.next + 1 ELSE 0) \in 0..WindowSize
      <4>1. i \in Nat /\ window' \in 1..WindowSize  BY <1>2, Numbers
      <4> QED  BY <3>1, <4>1, Numbers
    <3> QED  BY <3>2 DEF Rebuilt
  <2>3. window' \in 0..WindowSize
    BY <1>2, Numbers
  <2>4. ra' \in RaType /\ Len(ra'.temp) <= WindowSize
    <3>1. ra \in RaType /\ Len(ra.temp) <= WindowSize  BY DEF Inv, TypeOK
    <3>2. ra' = [ra EXCEPT !.pc = "sync", !.next = ra.next + window']  BY DEF Rebuilt
    <3>3. ra.next + window' \in Positions
      <4>1. OrderedAt(mt.next + window' - 1) /\ window' \in 1..WindowSize  BY <1>2 DEF IsWindow
      <4>2. ra.next = mt.next  BY <1>2 DEF Inv, RaBegins
      <4>3. mt.next \in Nat  BY FieldsTyped DEF Inv
      <4> QED  BY <4>1, <4>2, <4>3, Numbers DEF Positions
    <3>4. "sync" \in RaSteps  BY DEF RaSteps
    <3>5. ra' \in RaType  BY Zenon, <3>1, <3>2, <3>3, <3>4 DEF RaType
    <3> QED  BY <3>1, <3>5, <1>2
  <2> QED  BY <1>1, <2>1, <2>2, <2>3, <2>4 DEF Inv, TypeOK
<1>4. Fields /\ Fields' /\ Flags /\ Flags' /\ Cells /\ Cells'
  BY <1>3, FieldsTyped, FieldsTypedNext DEF Inv
<1>5. \A j : Group(j)' = Group(j)
  BY <1>1 DEF Group
<1>6. \A a, w : Saved(a, w)' <=> Saved(a, w)
  BY <1>1 DEF Saved
<1>7. \A j : Intact(j)' <=> Intact(j)
  BY <1>1 DEF Intact
<1>8. \A j : MergedUpTo(j)' <=> MergedUpTo(j)
  BY <1>1 DEF MergedUpTo
<1>9.
        MergeBusy' /\ Aligned' /\ GroupsTrue' /\ ReadersServe' /\ IosCounted' /\ Drained' /\ Faultless' /\ SlotsTrue' /\ Vouched' /\ Recoverable' /\ CountedMerged' /\ SessionMerged'
  BY <1>1, MergeBusyFrame, AlignedFrame, GroupsTrueFrame, ReadersServeFrame, IosCountedFrame,
        DrainedFrame, FaultlessFrame, SlotsTrueFrame, VouchedFrame, RecoverableFrame,
        CountedMergedFrame, SessionMergedFrame DEF Inv
<1>10. /\ mt.pc \in {"begin", "end"} /\ mt.done = 0 /\ io_state # "MERGE_BEGIN"
        /\ mt.next = first + 1 /\ first = head.num /\ ra.temp = << >>
        /\ ra_started = FALSE /\ head_stored = head
  BY <1>2 DEF Inv, RaAlone, RaBegins, Fetched
<1>11. \A g \in Indices : group[g] \notin {"RA_READY", "IN_PROGRESS"}
  BY <1>2, RaQuiet
<1>12. mt.next \in Nat /\ mt.next > 0 /\ first \in Nat /\ window' \in Nat /\ window' <= WindowSize
  BY <1>4
<1>13. RaBegin' = mt.next + window'
  BY <1>2, <1>10, <1>12
<1>14. WindowLoaded'
  BY <1>1, <1>10 DEF WindowLoaded
<1>15. WindowMerged'
  BY SMT, <1>1, <1>2 DEF Inv, WindowMerged, DoneTrue, WindowLoaded, RaAlone
<1>16. DoneTrue'
  BY <1>1, <1>10 DEF Inv, DoneTrue
<1>17. RaAlone'
  BY SMT, <1>1, <1>2 DEF Inv, RaAlone, RaMayTake, DoneTrue, Fetched, Ended
<1>18. RaMayTake'
  BY SMT, <1>1, <1>2 DEF Inv, RaMayTake, WindowMerged, RaAlone, RaBegins, DoneTrue, Fetched,
        MergeBusy
<1>19. RaBegins'
  BY SMT, <1>1, <1>2 DEF Inv, RaBegins, RaAlone, Down, Flags
<1>20. RaCopies'
  BY SMT, <1>1, <1>2, <1>6 DEF Inv, RaCopies, RaMayTake, RaAlone, Fetched
<1>21. RaSyncs'
  <2>1. IsWindow(mt.next, window)' /\ Saved(mt.next, window)'
    BY <1>1, <1>2, <1>6 DEF IsWindow
  <2>2. Mapped(mt.next, window)'
    <3>1. \A i \in Indices : mt.next <= i /\ i < mt.next + window' => map'[i] # 0
      BY <1>2, <1>12, Numbers
    <3> QED  BY <3>1, <1>1 DEF Mapped
  <2> QED  BY <1>1, <1>2, <1>13, <2>1, <2>2 DEF RaSyncs
<1>22. Fetched'
  <2>1. RaBegin' >= 1  BY <1>13, <1>12
  <2>2. ra'.temp = << >>  BY <1>2, <1>10
  <2>3. Len(ra'.temp) = 0  BY <2>2
  <2>4. 1..Len(ra'.temp) = {}  BY <2>3
  <2> QED  BY <1>2, <2>1, <2>2, <2>4 DEF Fetched
<1>23. Ended'
  BY SMT, <1>1, <1>2 DEF Inv, Ended, RaAlone, MergeBusy, Flags
<1>24. BatchTurn'
  BY SMT, <1>1, <1>2 DEF Inv, BatchTurn, WindowMerged, DoneTrue, Fetched, RaAlone, WindowLoaded
<1>25. Down'
  BY SMT, <1>1, <1>2 DEF Inv, Down, Flags
<1>26. MapReady'
  <2>1. \A i \in OrderedOps(first) : Group(i) \in Indices  BY GroupsIn
  <2>2. ASSUME NEW i \in Indices, map'[i] # 0 PROVE scratch[map'[i]].op = i
    <3>1. map'[i] = i - mt.next + 1 /\ mt.next <= i /\ i < mt.next + window'  BY <1>2, <2>2
    <3>2. i \in Nat  BY Numbers
    <3>4. mt.next \in Nat /\ window' \in Nat /\ window' <= WindowSize /\ WindowSize \in Nat
      BY <1>12, Numbers
    <3>3. i - mt.next + 1 \in Slots /\ i - mt.next + 1 <= window' /\ mt.next + (i - mt.next + 1) - 1 = i
      BY <3>1, <3>2, <3>4
    <3> QED  BY <3>1, <3>3, <1>2 DEF Saved
  <2> QED  BY <1>1, <1>5, <1>11, <2>1, <2>2 DEF MapReady
<1>27. RaSources'
  <2> SUFFICES ASSUME NEW i \in Indices, i >= mt.next + window', IsOrderedOp(i) PROVE Intact(i)
    BY <1>1, <1>7, <1>13 DEF RaSources
  <2>0. i \in Nat  BY Numbers
  <2>1. i > head.num  BY <2>0, <1>10, <1>12
  <2>2. \A k \in Slots : scratch[k].op = IF k <= window' THEN mt.next + k - 1 ELSE 0  BY <1>2 DEF Saved
  <2>3. ASSUME NEW k \in Slots PROVE scratch[k].op # i
    <3>1. k \in Nat  BY Numbers
    <3>2. CASE k <= window'  BY <3>1, <3>2, <2>0, <2>2, <1>12
    <3>3. CASE ~(k <= window')  BY <3>3, <2>0, <2>2, <1>12
    <3> QED  BY <3>2, <3>3
  <2> QED  BY <2>1, <2>3 DEF Inv, Recoverable
<1>28. ReadSources'
  BY SMT, <1>1, <1>2, <1>5, <1>7 DEF Inv, ReadSources, GroupsTrue, WindowLoaded
<1>29. ResumedFirst'
  BY SMT, <1>1, <1>2 DEF Inv, ResumedFirst, RaAlone
<1>30. ResumedMapped'
  <2>1. ASSUME NEW i \in OrderedOps(first), i <= first + WindowSize PROVE map'[i] # 0
    <3>0. i \in Indices /\ i > first /\ IsOrderedOp(i) /\ i \in Nat  BY OrderedIs, Numbers
    <3>1. i < mt.next + window'
      <4>1. CASE window' = WindowSize  BY <4>1, <3>0, <2>1, <1>10, <1>12, Numbers
      <4>2. CASE ~OrderedAt(mt.next + window')
        <5>1. ASSUME mt.next + window' <= i PROVE FALSE
          <6>1. mt.next + window' \in Indices  BY <5>1, <3>0, <1>12, Numbers
          <6> QED  BY <6>1, <5>1, <4>2, <3>0, OrderedFirst
        <5> QED  BY <5>1, <3>0, <1>12
      <4> QED  BY <4>1, <4>2, <1>2 DEF IsWindow
    <3> QED  BY <3>0, <3>1, <1>2, <1>10, <1>12
  <2> QED  BY <1>1, <1>5, <2>1 DEF ResumedMapped
<1>31. ResumedServed'
  BY SMT, <1>1, <1>2 DEF Inv, ResumedServed, Flags
<1>32. ReadsTrue'
  BY SMT, <1>1, <1>2, <1>5, <1>7, GroupsIn, OrderedIs DEF Inv, ReadsTrue, ReadersServe
<1> QED  BY <1>9, <1>3, <1>14, <1>15, <1>16, <1>17, <1>18, <1>19, <1>20, <1>21, <1>22, <1>23, <1>24,
        <1>25, <1>26, <1>27, <1>28, <1>29, <1>30, <1>31, <1>32 DEF Inv

(* A map that was only read in part finds nothing wrong. *)
LEMMA NotRebuiltKeeps == ASSUME Inv, NotRebuilt PROVE Inv'
<1>1. UNCHANGED << base, stored, head, head_stored, scratch, scratch_stored, up, first,
        merge_initiated, resume_merge, populate, ra_started, serving, group, ios, window, mt,
        reader, crashes, faults>>
  BY SMT DEF NotRebuilt
<1>2. /\ ra.pc = "reconstruct"
      /\ ra'.pc = "end"
      /\ ra'.next = ra.next
      /\ ra'.temp = ra.temp
      /\ ra'.resumed = ra.resumed
      /\ io_state' = "READ_AHEAD_FAILURE"
      /\ \A i \in Indices : map'[i] # 0 => scratch[map'[i]].op = i
  <2>1. ra.pc = "reconstruct"
    BY SMT DEF Inv, NotRebuilt, TypeOK
  <2>2. /\ ra'.pc = "end"
        /\ ra'.next = ra.next
        /\ ra'.temp = ra.temp
        /\ ra'.resumed = ra.resumed
    BY SMT DEF Inv, NotRebuilt, TypeOK, RaType
  <2>3. /\ io_state' = "READ_AHEAD_FAILURE"
        /\ \A i \in Indices : map'[i] # 0 => scratch[map'[i]].op = i
    BY SMT DEF Inv, NotRebuilt, TypeOK
  <2> QED  BY <2>1, <2>2, <2>3
<1>3. TypeOK'
  <2>1. io_state' \in IoStates
    BY SMT, <1>2, Numbers, OpsTyped DEF Inv, TypeOK, NotRebuilt, IoStates
  <2>2. map' \in [Indices -> 0..WindowSize]
    BY DEF NotRebuilt
  <2>3. ra' \in RaType /\ Len(ra'.temp) <= WindowSize
    <3>1. ra \in RaType /\ Len(ra.temp) <= WindowSize
      BY DEF Inv, TypeOK
    <3>2. ra' = [ra EXCEPT !.pc = "end"]
      BY Numbers DEF NotRebuilt
    <3>3. "end" \in RaSteps
      BY SMT, <1>2, Numbers DEF MergeSteps, RaSteps
    <3>4. ra' \in RaType  BY Zenon, <3>1, <3>2, <3>3 DEF RaType
    <3> QED  BY <3>1, <3>4, <1>2, Numbers
  <2> QED  BY <1>1, <2>1, <2>2, <2>3 DEF Inv, TypeOK
<1>4. Fields /\ Fields' /\ Flags /\ Flags' /\ Cells /\ Cells'
  BY <1>3, FieldsTyped, FieldsTypedNext DEF Inv
<1>5. \A j : Group(j)' = Group(j)
  BY <1>1 DEF Group
<1>6. \A a, w : Saved(a, w)' <=> Saved(a, w)
  BY <1>1 DEF Saved
<1>7. \A j : Intact(j)' <=> Intact(j)
  BY <1>1 DEF Intact
<1>8. \A j : MergedUpTo(j)' <=> MergedUpTo(j)
  BY <1>1 DEF MergedUpTo
<1>9.
        DoneTrue' /\ Aligned' /\ GroupsTrue' /\ ReadersServe' /\ IosCounted' /\ Drained' /\ SlotsTrue' /\ Vouched' /\ Recoverable' /\ CountedMerged' /\ SessionMerged'
  BY <1>1, DoneTrueFrame, AlignedFrame, GroupsTrueFrame, ReadersServeFrame, IosCountedFrame,
        DrainedFrame, SlotsTrueFrame, VouchedFrame, RecoverableFrame, CountedMergedFrame,
        SessionMergedFrame DEF Inv
<1>10. /\ mt.pc \in {"begin", "end"} /\ mt.done = 0 /\ io_state # "MERGE_BEGIN"
        /\ mt.next = first + 1 /\ first = head.num /\ ra.temp = << >>
        /\ ra_started = FALSE /\ head_stored = head
  BY <1>2 DEF Inv, RaAlone, RaBegins, Fetched
<1>11. \A g \in Indices : group[g] \notin {"RA_READY", "IN_PROGRESS"}
  BY <1>2, RaQuiet
<1>12. WindowLoaded'
  BY <1>1, <1>2, <1>10 DEF WindowLoaded
<1>13. MergeBusy'
  BY SMT, <1>1, <1>2 DEF Inv, MergeBusy, DoneTrue, RaAlone, RaMayTake, GroupsTrue
<1>14. WindowMerged'
  BY SMT, <1>1, <1>2 DEF Inv, WindowMerged, DoneTrue, WindowLoaded, RaAlone
<1>15. RaAlone'
  BY SMT, <1>1, <1>2 DEF Inv, RaAlone, RaMayTake, DoneTrue, Fetched, Ended
<1>16. RaMayTake'
  BY SMT, <1>1, <1>2 DEF Inv, RaMayTake, WindowMerged, RaAlone, RaBegins, DoneTrue, Fetched,
        MergeBusy
<1>17. RaBegins'
  BY SMT, <1>1, <1>2 DEF Inv, RaBegins, RaAlone, Down, Flags
<1>18. RaCopies'
  BY SMT, <1>1, <1>2, <1>6 DEF Inv, RaCopies, RaMayTake, RaAlone, Fetched
<1>19. RaSyncs'
  BY SMT, <1>1, <1>2, <1>6 DEF Inv, RaSyncs, RaAlone, RaCopies, Fetched
<1>20. Fetched'
  BY SMT, <1>1, <1>2 DEF Inv, Fetched, RaSyncs, RaBegins
<1>21. Ended'
  BY SMT, <1>1, <1>2 DEF Inv, Ended, RaAlone, MergeBusy, Flags
<1>22. BatchTurn'
  BY SMT, <1>1, <1>2 DEF Inv, BatchTurn, WindowMerged, DoneTrue, Fetched, RaAlone, WindowLoaded
<1>23. Down'
  BY SMT, <1>1, <1>2 DEF Inv, Down, Flags
<1>24. MapReady'
  <2>1. \A i \in OrderedOps(first) : Group(i) \in Indices  BY GroupsIn
  <2> QED  BY <1>1, <1>2, <1>5, <1>11, <2>1 DEF MapReady
<1>25. Faultless'
  BY <1>1, <1>2, <1>10 DEF Inv, Faultless
<1>26. RaSources'
  BY SMT, <1>1, <1>2, <1>7 DEF Inv, RaSources, WindowLoaded, Fetched
<1>27. ReadSources'
  BY SMT, <1>1, <1>2, <1>5, <1>7 DEF Inv, ReadSources, GroupsTrue, WindowLoaded
<1>28. ResumedFirst'
  BY SMT, <1>1, <1>2 DEF Inv, ResumedFirst, RaAlone
<1>29. ResumedMapped'
  BY <1>1, <1>2, <1>10 DEF ResumedMapped
<1>30. ResumedServed'
  BY SMT, <1>1, <1>2 DEF Inv, ResumedServed, Flags
<1>31. ReadsTrue'
  BY SMT, <1>1, <1>2, <1>5, <1>7, GroupsIn, OrderedIs DEF Inv, ReadsTrue, ReadersServe
<1> QED  BY <1>9, <1>3, <1>12, <1>13, <1>14, <1>15, <1>16, <1>17, <1>18, <1>19, <1>20, <1>21, <1>22,
        <1>23, <1>24, <1>25, <1>26, <1>27, <1>28, <1>29, <1>30, <1>31 DEF Inv

(* The scratch space holds the window that comes next, or the thread gives up. *)
LEMMA ReconstructDataFromCowKeeps == ASSUME Inv, ReconstructDataFromCow PROVE Inv'
BY Reconstructed, RebuiltKeeps, NotRebuiltKeeps

(* What it reads is intact, since the window before it is still being merged or not yet begun. *)
LEMMA RaReadKeeps == ASSUME Inv, RaRead PROVE Inv'
<1>1. CASE /\ MoreToRead /\ Len(ra.temp) < WindowSize
           /\ ra' = [ra EXCEPT !.next = @ + 1,
                               !.temp = Append(@, [op |-> ra.next, val |-> base[Ops[ra.next].src]])]
           /\ NoFault /\ UNCHANGED io_state
  <2>1. UNCHANGED << base, stored, head, head_stored, scratch, scratch_stored, up, first, io_state,
        merge_initiated, resume_merge, populate, ra_started, serving, group, ios, map, window, mt,
        reader, crashes, faults>>
    BY SMT, <1>1 DEF RaRead
  <2>2. /\ ra.pc = "read"
        /\ OrderedAt(ra.next)
        /\ Len(ra.temp) < WindowSize
        /\ ra'.pc = "read"
        /\ ra'.next = ra.next + 1
        /\ ra'.resumed = ra.resumed
        /\ Len(ra'.temp) = Len(ra.temp) + 1
        /\ \A k \in 1..Len(ra.temp) : ra'.temp[k] = ra.temp[k]
        /\ ra'.temp[Len(ra.temp) + 1].op = ra.next
        /\ ra'.temp[Len(ra.temp) + 1].val = base[Ops[ra.next].src]
    <3> DEFINE e == [op |-> ra.next, val |-> base[Ops[ra.next].src]]
    <3>1. ra.pc = "read" /\ OrderedAt(ra.next) /\ Len(ra.temp) < WindowSize
      BY <1>1 DEF RaRead
    <3>2. ra \in RaType /\ ra' = [ra EXCEPT !.next = ra.next + 1, !.temp = Append(ra.temp, e)]
      BY <1>1 DEF Inv, TypeOK
    <3>3. ra'.pc = ra.pc /\ ra'.next = ra.next + 1 /\ ra'.resumed = ra.resumed /\ ra'.temp = Append(ra.temp, e)
      BY <3>2 DEF RaType
    <3>4. ra.temp \in Seq([op : Indices, val : Values])
      BY <3>2 DEF RaType
    <3>5. e \in [op : Indices, val : Values] /\ e.op = ra.next /\ e.val = base[Ops[ra.next].src]
      BY <3>1, OpsTyped DEF Inv, TypeOK
    <3> HIDE DEF e
    <3>6. /\ Len(ra'.temp) = Len(ra.temp) + 1 /\ ra'.temp[Len(ra.temp) + 1] = e
          /\ \A k \in 1..Len(ra.temp) : ra'.temp[k] = ra.temp[k]
      BY <3>3, <3>4, <3>5
    <3> QED  BY <3>1, <3>3, <3>5, <3>6
  <2>3. TypeOK'
    <3>1. ra' \in RaType /\ Len(ra'.temp) <= WindowSize
      <4>1. ra \in RaType /\ Len(ra.temp) <= WindowSize
        BY DEF Inv, TypeOK
      <4>2. ra' = [ra EXCEPT !.next = ra.next + 1, !.temp = Append(ra.temp, [op |-> ra.next, val |-> base[Ops[ra.next].src]])]
        BY <1>1, Numbers DEF RaRead
      <4>3. ra.next + 1 \in Positions
          BY <2>2, Numbers DEF Positions
      <4>4. Append(ra.temp, [op |-> ra.next, val |-> base[Ops[ra.next].src]]) \in Seq([op : Indices, val : Values])
        BY SMTT(30), <1>1, <2>2, Numbers, OpsTyped DEF Inv, TypeOK, Positions, MergeType, RaType,
        OrderedAt
      <4>5. ra' \in RaType  BY Zenon, <4>1, <4>2, <4>3, <4>4 DEF RaType
      <4> QED  BY <4>1, <4>5, <2>2, Numbers
    <3> QED  BY <2>1, <3>1 DEF Inv, TypeOK
  <2>4. Fields /\ Fields' /\ Flags /\ Flags' /\ Cells /\ Cells'
    BY <2>3, FieldsTyped, FieldsTypedNext DEF Inv
  <2>5. \A j : Group(j)' = Group(j)
    BY <2>1 DEF Group
  <2>6. \A a, w : Saved(a, w)' <=> Saved(a, w)
    BY <2>1 DEF Saved
  <2>7. \A a, w : Mapped(a, w)' <=> Mapped(a, w)
    BY <2>1 DEF Mapped
  <2>8. \A j : Intact(j)' <=> Intact(j)
    BY <2>1 DEF Intact
  <2>9. \A j : MergedUpTo(j)' <=> MergedUpTo(j)
    BY <2>1 DEF MergedUpTo
  <2>10.
        MergeBusy' /\ DoneTrue' /\ Aligned' /\ GroupsTrue' /\ ReadersServe' /\ IosCounted' /\ Drained' /\ MapReady' /\ Faultless' /\ SlotsTrue' /\ Vouched' /\ Recoverable' /\ CountedMerged' /\ SessionMerged'
    BY <2>1, MergeBusyFrame, DoneTrueFrame, AlignedFrame, GroupsTrueFrame, ReadersServeFrame,
        IosCountedFrame, DrainedFrame, MapReadyFrame, FaultlessFrame, SlotsTrueFrame, VouchedFrame,
        RecoverableFrame, CountedMergedFrame, SessionMergedFrame DEF Inv
  <2>11. ra.next \in Nat /\ Len(ra.temp) \in Nat
    BY <2>4
  <2>12. ra'.next = ra.next + 1 /\ Len(ra'.temp) = Len(ra.temp) + 1
    BY <2>2
  <2>13. RaBegin' = RaBegin
    BY <2>12, <2>11
  <2>14. WindowLoaded'
    BY SMT, <2>1, <2>2, <2>6, <2>7, <2>13 DEF Inv, WindowLoaded, Loaded
  <2>15. WindowMerged'
    BY SMT, <2>1, <2>2, <2>13 DEF Inv, WindowMerged, DoneTrue, WindowLoaded, RaAlone
  <2>16. RaAlone'
    BY SMT, <2>1, <2>2 DEF Inv, RaAlone, RaMayTake, DoneTrue, Fetched, Ended
  <2>17. RaMayTake'
    BY SMT, <2>1, <2>2, <2>13 DEF Inv, RaMayTake, WindowMerged, RaAlone, RaBegins, DoneTrue,
        Fetched, MergeBusy
  <2>18. RaBegins'
    BY SMT, <2>1, <2>2 DEF Inv, RaBegins, RaAlone, Down, Flags
  <2>19. RaCopies'
    BY SMT, <2>1, <2>2, <2>6, <2>13 DEF Inv, RaCopies, RaMayTake, RaAlone, Fetched
  <2>20. RaSyncs'
    BY SMT, <2>1, <2>2, <2>6, <2>7, <2>13 DEF Inv, RaSyncs, RaAlone, RaCopies, Fetched
  <2>21. Fetched'
    <3>1. /\ OrderedAt(RaBegin) /\ RaBegin >= 1
          /\ \A k \in 1..Len(ra.temp) :
               /\ ra.temp[k].op = RaBegin + k - 1 /\ IsOrderedOp(RaBegin + k - 1)
               /\ ra.temp[k].val = Ops[RaBegin + k - 1].src
      BY <2>2 DEF Inv, Fetched
    <3>0. ra.next \in Nat /\ Len(ra.temp) \in Nat  BY <2>4
    <3>3. ra.next = RaBegin + Len(ra.temp) /\ RaBegin \in Nat
      BY <3>0, <3>1
    <3>2. base[Ops[ra.next].src] = Ops[ra.next].src
      <4>1. \A i \in Indices : i >= RaBegin /\ IsOrderedOp(i) => Intact(i)
        BY <2>2 DEF Inv, RaSources
      <4>2. Intact(ra.next)  BY <4>1, <3>0, <2>2
      <4> QED  BY <4>2 DEF Intact
    <3>4. ASSUME NEW k \in 1..(Len(ra.temp) + 1)
          PROVE  /\ ra'.temp[k].op = RaBegin + k - 1 /\ IsOrderedOp(RaBegin + k - 1)
                 /\ ra'.temp[k].val = Ops[RaBegin + k - 1].src
      <4>1. CASE k \in 1..Len(ra.temp)  BY <4>1, <3>1, <2>2
      <4>2. CASE k = Len(ra.temp) + 1
        <5>1. RaBegin + k - 1 = ra.next  BY <4>2, <3>3, <3>0
        <5> QED  BY <5>1, <4>2, <3>2, <2>2
      <4> QED  BY <4>1, <4>2, <3>0
    <3>7. ra'.next = ra.next + 1 /\ Len(ra'.temp) = Len(ra.temp) + 1  BY <2>2
    <3>5. RaBegin' = RaBegin  BY <3>7, <3>0
    <3> QED  BY <2>2, <3>1, <3>4, <3>5 DEF Fetched
  <2>22. Ended'
    BY SMT, <2>1, <2>2 DEF Inv, Ended, RaAlone, MergeBusy, Flags
  <2>23. BatchTurn'
    BY SMT, <2>1, <2>2 DEF Inv, BatchTurn, WindowMerged, DoneTrue, Fetched, RaAlone, WindowLoaded
  <2>24. Down'
    BY SMT, <2>1, <2>2 DEF Inv, Down, Flags
  <2>25. RaSources'
    BY SMT, <2>1, <2>2, <2>4, <2>8, <2>13, Numbers DEF Inv, RaSources, WindowLoaded, Fetched
  <2>26. ReadSources'
    BY SMT, <2>1, <2>2, <2>5, <2>8 DEF Inv, ReadSources, GroupsTrue, WindowLoaded
  <2>27. ResumedFirst'
    BY SMT, <2>1, <2>2 DEF Inv, ResumedFirst, RaAlone
  <2>28. ResumedMapped'
    BY SMT, <2>1, <2>2, <2>5 DEF Inv, ResumedMapped, ResumedFirst, GroupsTrue
  <2>29. ResumedServed'
    BY SMT, <2>1, <2>2 DEF Inv, ResumedServed, Flags
  <2>30. ReadsTrue'
    BY SMT, <2>1, <2>2, <2>5, <2>8, GroupsIn, OrderedIs DEF Inv, ReadsTrue, ReadersServe
  <2> QED  BY <2>10, <2>3, <2>14, <2>15, <2>16, <2>17, <2>18, <2>19, <2>20, <2>21, <2>22, <2>23,
        <2>24, <2>25, <2>26, <2>27, <2>28, <2>29, <2>30 DEF Inv
<1>2. CASE /\ ~MoreToRead \/ Len(ra.temp) = WindowSize
           /\ ra' = [ra EXCEPT !.pc = IF ra.temp = << >> THEN "end" ELSE "wait"]
           /\ NoFault /\ UNCHANGED io_state
  <2>1. UNCHANGED << base, stored, head, head_stored, scratch, scratch_stored, up, first, io_state,
        merge_initiated, resume_merge, populate, ra_started, serving, group, ios, map, window, mt,
        reader, crashes, faults>>
    BY SMT, <1>2 DEF RaRead
  <2>2. /\ ra.pc = "read"
        /\ ~OrderedAt(ra.next) \/ Len(ra.temp) = WindowSize
        /\ ra'.pc = "wait"
        /\ ra'.next = ra.next
        /\ ra'.temp = ra.temp
        /\ ra'.resumed = ra.resumed
        /\ Len(ra.temp) > 0
        /\ ra.temp # << >>
    <3>1. ra.pc = "read" /\ (~OrderedAt(ra.next) \/ Len(ra.temp) = WindowSize)
      BY <1>2 DEF RaRead
    <3>2. ra.temp # << >>
      <4>1. OrderedAt(ra.next - Len(ra.temp))  BY <3>1 DEF Inv, Fetched
      <4>2. ra.next \in Nat  BY FieldsTyped DEF Inv
      <4> QED  BY <3>1, <4>1, <4>2, Numbers
    <3>3. ra \in RaType /\ ra' = [ra EXCEPT !.pc = "wait"]
      BY <1>2, <3>2 DEF Inv, TypeOK
    <3>4. ra'.pc = "wait" /\ ra'.next = ra.next /\ ra'.temp = ra.temp /\ ra'.resumed = ra.resumed
      BY <3>3 DEF RaType
    <3>5. Len(ra.temp) > 0
      BY <3>2, <3>3 DEF RaType
    <3> QED  BY <3>1, <3>2, <3>4, <3>5
  <2>3. TypeOK'
    <3>1. ra' \in RaType /\ Len(ra'.temp) <= WindowSize
      <4>1. ra \in RaType /\ Len(ra.temp) <= WindowSize
        BY DEF Inv, TypeOK
      <4>2. ra' = [ra EXCEPT !.pc = "wait"]
          BY <1>2, <2>2
      <4>3. "wait" \in RaSteps
        BY SMT, <1>2, <2>2, Numbers DEF MergeSteps, RaSteps
      <4>4. ra' \in RaType  BY Zenon, <4>1, <4>2, <4>3 DEF RaType
      <4> QED  BY <4>1, <4>4, <2>2, Numbers
    <3> QED  BY <2>1, <3>1 DEF Inv, TypeOK
  <2>4. Fields /\ Fields' /\ Flags /\ Flags' /\ Cells /\ Cells'
    BY <2>3, FieldsTyped, FieldsTypedNext DEF Inv
  <2>5. \A j : Group(j)' = Group(j)
    BY <2>1 DEF Group
  <2>6. \A a, w : Saved(a, w)' <=> Saved(a, w)
    BY <2>1 DEF Saved
  <2>7. \A a, w : Mapped(a, w)' <=> Mapped(a, w)
    BY <2>1 DEF Mapped
  <2>8. \A j : Intact(j)' <=> Intact(j)
    BY <2>1 DEF Intact
  <2>9. \A j : MergedUpTo(j)' <=> MergedUpTo(j)
    BY <2>1 DEF MergedUpTo
  <2>10.
        MergeBusy' /\ DoneTrue' /\ Aligned' /\ GroupsTrue' /\ ReadersServe' /\ IosCounted' /\ Drained' /\ MapReady' /\ Faultless' /\ SlotsTrue' /\ Vouched' /\ Recoverable' /\ CountedMerged' /\ SessionMerged'
    BY <2>1, MergeBusyFrame, DoneTrueFrame, AlignedFrame, GroupsTrueFrame, ReadersServeFrame,
        IosCountedFrame, DrainedFrame, MapReadyFrame, FaultlessFrame, SlotsTrueFrame, VouchedFrame,
        RecoverableFrame, CountedMergedFrame, SessionMergedFrame DEF Inv
  <2>11. WindowLoaded'
    BY SMT, <2>1, <2>2, <2>6, <2>7 DEF Inv, WindowLoaded, Loaded
  <2>12. WindowMerged'
    BY SMT, <2>1, <2>2 DEF Inv, WindowMerged, DoneTrue, WindowLoaded, RaAlone
  <2>13. RaAlone'
    BY SMT, <2>1, <2>2 DEF Inv, RaAlone, RaMayTake, DoneTrue, Fetched, Ended
  <2>14. RaMayTake'
    BY SMT, <2>1, <2>2 DEF Inv, RaMayTake, WindowMerged, RaAlone, RaBegins, DoneTrue, Fetched,
        MergeBusy
  <2>15. RaBegins'
    BY SMT, <2>1, <2>2 DEF Inv, RaBegins, RaAlone, Down, Flags
  <2>16. RaCopies'
    BY SMT, <2>1, <2>2, <2>6 DEF Inv, RaCopies, RaMayTake, RaAlone, Fetched
  <2>17. RaSyncs'
    BY SMT, <2>1, <2>2, <2>6, <2>7 DEF Inv, RaSyncs, RaAlone, RaCopies, Fetched
  <2>18. Fetched'
    <3>1. /\ OrderedAt(RaBegin) /\ RaBegin >= 1
          /\ \A k \in 1..Len(ra.temp) :
               /\ ra.temp[k].op = RaBegin + k - 1 /\ IsOrderedOp(RaBegin + k - 1)
               /\ ra.temp[k].val = Ops[RaBegin + k - 1].src
      BY <2>2 DEF Inv, Fetched
    <3>0. /\ ra.next \in Nat /\ Len(ra.temp) \in Nat /\ Len(ra.temp) <= WindowSize
          /\ ra.next <= Len(Ops) + 1 /\ Len(ra.temp) > 0
      BY <2>2, <2>4
    <3>8. RaBegin >= 1  BY <3>1
    <3>2. ra.next = RaBegin + Len(ra.temp) /\ RaBegin \in Nat
      BY <3>0, <3>8
    <3>3. OrderedAt(RaBegin + Len(ra.temp) - 1)
      BY <3>1, <3>2, <3>0, Numbers
    <3>6. ~OrderedAt(RaBegin + Len(ra.temp)) \/ Len(ra.temp) = WindowSize
      BY <3>2, <2>2
    <3>4. IsWindow(RaBegin, Len(ra.temp))
      BY <3>1, <3>2, <3>3, <3>6, <3>0, Numbers DEF IsWindow
    <3>5. RaBegin' = RaBegin /\ ra'.temp = ra.temp  BY <2>2
    <3> QED  BY <2>2, <3>1, <3>4, <3>5 DEF Fetched
  <2>19. Ended'
    BY SMT, <2>1, <2>2 DEF Inv, Ended, RaAlone, MergeBusy, Flags
  <2>20. BatchTurn'
    BY SMT, <2>1, <2>2 DEF Inv, BatchTurn, WindowMerged, DoneTrue, Fetched, RaAlone, WindowLoaded
  <2>21. Down'
    BY SMT, <2>1, <2>2 DEF Inv, Down, Flags
  <2>22. RaSources'
    BY SMT, <2>1, <2>2, <2>8 DEF Inv, RaSources, WindowLoaded, Fetched
  <2>23. ReadSources'
    BY SMT, <2>1, <2>2, <2>5, <2>8 DEF Inv, ReadSources, GroupsTrue, WindowLoaded
  <2>24. ResumedFirst'
    BY SMT, <2>1, <2>2 DEF Inv, ResumedFirst, RaAlone
  <2>25. ResumedMapped'
    BY SMT, <2>1, <2>2, <2>5 DEF Inv, ResumedMapped, ResumedFirst, GroupsTrue
  <2>26. ResumedServed'
    BY SMT, <2>1, <2>2 DEF Inv, ResumedServed, Flags
  <2>27. ReadsTrue'
    BY SMT, <2>1, <2>2, <2>5, <2>8, GroupsIn, OrderedIs DEF Inv, ReadsTrue, ReadersServe
  <2> QED  BY <2>10, <2>3, <2>11, <2>12, <2>13, <2>14, <2>15, <2>16, <2>17, <2>18, <2>19, <2>20,
        <2>21, <2>22, <2>23, <2>24, <2>25, <2>26, <2>27 DEF Inv
<1>3. CASE /\ Fault("read") /\ ra.async
           /\ ra' = [ra EXCEPT !.async = FALSE, !.next = @ - Len(ra.temp), !.temp = << >>]
           /\ UNCHANGED io_state
  <2>1. UNCHANGED << base, stored, head, head_stored, scratch, scratch_stored, up, first, io_state,
        merge_initiated, resume_merge, populate, ra_started, serving, group, ios, map, window, mt,
        reader, crashes>>
    BY SMT, <1>3 DEF RaRead
  <2>2. /\ ra.pc = "read"
        /\ ra'.pc = ra.pc
        /\ ra'.next = ra.next - Len(ra.temp)
        /\ ra'.temp = << >>
        /\ ra'.resumed = ra.resumed
        /\ faults' \in [count : 0..MaxFaults, sites : SUBSET Marked]
        /\ faults'.count = faults.count + 1
        /\ "commit" \in faults.sites => "commit" \in faults'.sites
        /\ "timeout" \in faults.sites => "timeout" \in faults'.sites
    <3>1. ra.pc = "read"
      BY SMT, <1>3 DEF Inv, RaRead, TypeOK
    <3>2. /\ ra'.pc = ra.pc
          /\ ra'.next = ra.next - Len(ra.temp)
          /\ ra'.temp = << >>
          /\ ra'.resumed = ra.resumed
      BY SMT, <1>3 DEF Inv, RaRead, TypeOK, RaType
    <3>3. /\ faults' \in [count : 0..MaxFaults, sites : SUBSET Marked]
          /\ faults'.count = faults.count + 1
          /\ "commit" \in faults.sites => "commit" \in faults'.sites
          /\ "timeout" \in faults.sites => "timeout" \in faults'.sites
      BY SMT, <1>3, FaultIs DEF Inv, RaRead, Marked
    <3> QED  BY <3>1, <3>2, <3>3
  <2>3. TypeOK'
    <3>1. ra' \in RaType /\ Len(ra'.temp) <= WindowSize
      <4>1. ra \in RaType /\ Len(ra.temp) <= WindowSize
        BY DEF Inv, TypeOK
      <4>2. ra' = [ra EXCEPT !.async = FALSE, !.next = ra.next - Len(ra.temp), !.temp = << >>]
        BY <1>3, Numbers DEF RaRead
      <4>3. FALSE \in BOOLEAN
        BY SMT, <1>3, <2>2, Numbers DEF Inv, TypeOK, Positions, MergeType, RaType
      <4>4. ra.next - Len(ra.temp) \in Positions
          <5>1. Fields  BY FieldsTyped DEF Inv
          <5>2. RaBegin >= 1  BY DEF Inv, Fetched
          <5> QED  BY <5>1, <5>2 DEF Positions
      <4>5. << >> \in Seq([op : Indices, val : Values])
        BY SMT, <1>3, <2>2, Numbers DEF Inv, TypeOK, Positions, MergeType, RaType
      <4>6. ra' \in RaType  BY Zenon, <4>1, <4>2, <4>3, <4>4, <4>5 DEF RaType
      <4> QED  BY <4>1, <4>6, <2>2, Numbers
    <3>2. faults' \in [count : 0..MaxFaults, sites : SUBSET Marked]
      BY <2>2
    <3> QED  BY <2>1, <3>1, <3>2 DEF Inv, TypeOK
  <2>4. Fields /\ Fields' /\ Flags /\ Flags' /\ Cells /\ Cells'
    BY <2>3, FieldsTyped, FieldsTypedNext DEF Inv
  <2>5. \A j : Group(j)' = Group(j)
    BY <2>1 DEF Group
  <2>6. \A a, w : Saved(a, w)' <=> Saved(a, w)
    BY <2>1 DEF Saved
  <2>7. \A a, w : Mapped(a, w)' <=> Mapped(a, w)
    BY <2>1 DEF Mapped
  <2>8. \A j : Intact(j)' <=> Intact(j)
    BY <2>1 DEF Intact
  <2>9. \A j : MergedUpTo(j)' <=> MergedUpTo(j)
    BY <2>1 DEF MergedUpTo
  <2>10.
        MergeBusy' /\ DoneTrue' /\ Aligned' /\ GroupsTrue' /\ ReadersServe' /\ IosCounted' /\ Drained' /\ MapReady' /\ SlotsTrue' /\ Vouched' /\ Recoverable' /\ SessionMerged'
    BY <2>1, MergeBusyFrame, DoneTrueFrame, AlignedFrame, GroupsTrueFrame, ReadersServeFrame,
        IosCountedFrame, DrainedFrame, MapReadyFrame, SlotsTrueFrame, VouchedFrame,
        RecoverableFrame, SessionMergedFrame DEF Inv
  <2>11. ra.next \in Nat /\ Len(ra.temp) \in Nat
    BY <2>4
  <2>12. RaBegin' = RaBegin
    BY <2>2, <2>11
  <2>13. WindowLoaded'
    BY SMT, <2>1, <2>2, <2>4, <2>6, <2>7, <2>12, Numbers DEF Inv, WindowLoaded, Loaded
  <2>14. WindowMerged'
    BY SMT, <2>1, <2>2, <2>4, <2>12, Numbers DEF Inv, WindowMerged, DoneTrue, WindowLoaded, RaAlone
  <2>15. RaAlone'
    BY SMT, <2>1, <2>2 DEF Inv, RaAlone, RaMayTake, DoneTrue, Fetched, Ended
  <2>16. RaMayTake'
    BY SMT, <2>1, <2>2, <2>4, <2>12, Numbers DEF Inv, RaMayTake, WindowMerged, RaAlone, RaBegins,
        DoneTrue, Fetched, MergeBusy
  <2>17. RaBegins'
    BY SMT, <2>1, <2>2 DEF Inv, RaBegins, RaAlone, Down, Flags
  <2>18. RaCopies'
    BY SMT, <2>1, <2>2, <2>6, <2>12 DEF Inv, RaCopies, RaMayTake, RaAlone, Fetched
  <2>19. RaSyncs'
    BY SMT, <2>1, <2>2, <2>6, <2>7, <2>12 DEF Inv, RaSyncs, RaAlone, RaCopies, Fetched
  <2>20. Fetched'
    BY SMT, <2>1, <2>2, <2>4, <2>12, Numbers DEF Inv, Fetched, RaSyncs, RaBegins
  <2>21. Ended'
    BY SMT, <2>1, <2>2 DEF Inv, Ended, RaAlone, MergeBusy, Flags
  <2>22. BatchTurn'
    BY SMT, <2>1, <2>2 DEF Inv, BatchTurn, WindowMerged, DoneTrue, Fetched, RaAlone, WindowLoaded
  <2>23. Down'
    BY SMT, <2>1, <2>2 DEF Inv, Down, Flags
  <2>24. Faultless'
    BY SMT, <2>1, <2>2, <2>4, Numbers DEF Inv, Faultless, RaAlone, GroupsTrue, MapReady
  <2>25. CountedMerged'
    BY SMT, <2>1, <2>2, <2>9 DEF Inv, CountedMerged
  <2>26. RaSources'
    BY SMT, <2>1, <2>2, <2>4, <2>8, <2>12, Numbers DEF Inv, RaSources, WindowLoaded, Fetched
  <2>27. ReadSources'
    BY SMT, <2>1, <2>2, <2>5, <2>8 DEF Inv, ReadSources, GroupsTrue, WindowLoaded
  <2>28. ResumedFirst'
    BY SMT, <2>1, <2>2 DEF Inv, ResumedFirst, RaAlone
  <2>29. ResumedMapped'
    BY SMT, <2>1, <2>2, <2>5 DEF Inv, ResumedMapped, ResumedFirst, GroupsTrue
  <2>30. ResumedServed'
    BY SMT, <2>1, <2>2 DEF Inv, ResumedServed, Flags
  <2>31. ReadsTrue'
    BY SMT, <2>1, <2>2, <2>5, <2>8, GroupsIn, OrderedIs DEF Inv, ReadsTrue, ReadersServe
  <2> QED  BY <2>10, <2>3, <2>13, <2>14, <2>15, <2>16, <2>17, <2>18, <2>19, <2>20, <2>21, <2>22,
        <2>23, <2>24, <2>25, <2>26, <2>27, <2>28, <2>29, <2>30, <2>31 DEF Inv
<1>4. CASE Fault("read") /\ ReadAheadFails(TRUE)
  <2>1. RaGivesUp("read")
    BY SMT, <1>4 DEF Inv, RaRead, RaGivesUp
  <2> QED  BY <2>1, RaGivesUpKeeps
<1> QED  BY SMT, <1>1, <1>2, <1>3, <1>4 DEF RaRead

(* It is told that the scratch space is free only when no header vouches for it any more. *)
LEMMA WaitForMergeReadyKeeps == ASSUME Inv, WaitForMergeReady PROVE Inv'
<1>1. CASE io_state = "MERGE_READY" /\ ra' = [ra EXCEPT !.pc = "copy"]
  <2>1. UNCHANGED << base, stored, head, head_stored, scratch, scratch_stored, up, first, io_state,
        merge_initiated, resume_merge, populate, ra_started, serving, group, ios, map, window, mt,
        reader, crashes, faults>>
    BY SMT, <1>1 DEF WaitForMergeReady
  <2>2. /\ ra.pc = "wait"
        /\ io_state = "MERGE_READY"
        /\ ra'.pc = "copy"
        /\ ra'.next = ra.next
        /\ ra'.temp = ra.temp
        /\ ra'.resumed = ra.resumed
    <3>1. /\ ra.pc = "wait"
          /\ io_state = "MERGE_READY"
      BY SMT, <1>1 DEF Inv, WaitForMergeReady, TypeOK
    <3>2. /\ ra'.pc = "copy"
          /\ ra'.next = ra.next
          /\ ra'.temp = ra.temp
          /\ ra'.resumed = ra.resumed
      BY SMT, <1>1 DEF Inv, WaitForMergeReady, TypeOK, RaType
    <3> QED  BY <3>1, <3>2
  <2>3. TypeOK'
    <3>1. ra' \in RaType /\ Len(ra'.temp) <= WindowSize
      <4>1. ra \in RaType /\ Len(ra.temp) <= WindowSize
        BY DEF Inv, TypeOK
      <4>2. ra' = [ra EXCEPT !.pc = "copy"]
        BY <1>1, Numbers DEF WaitForMergeReady
      <4>3. "copy" \in RaSteps
        BY SMT, <1>1, <2>2, Numbers DEF MergeSteps, RaSteps
      <4>4. ra' \in RaType  BY Zenon, <4>1, <4>2, <4>3 DEF RaType
      <4> QED  BY <4>1, <4>4, <2>2, Numbers
    <3> QED  BY <2>1, <3>1 DEF Inv, TypeOK
  <2>4. Fields /\ Fields' /\ Flags /\ Flags' /\ Cells /\ Cells'
    BY <2>3, FieldsTyped, FieldsTypedNext DEF Inv
  <2>5. \A j : Group(j)' = Group(j)
    BY <2>1 DEF Group
  <2>6. \A a, w : Saved(a, w)' <=> Saved(a, w)
    BY <2>1 DEF Saved
  <2>7. \A a, w : Mapped(a, w)' <=> Mapped(a, w)
    BY <2>1 DEF Mapped
  <2>8. \A j : Intact(j)' <=> Intact(j)
    BY <2>1 DEF Intact
  <2>9. \A j : MergedUpTo(j)' <=> MergedUpTo(j)
    BY <2>1 DEF MergedUpTo
  <2>10.
        MergeBusy' /\ DoneTrue' /\ Aligned' /\ GroupsTrue' /\ ReadersServe' /\ IosCounted' /\ Drained' /\ MapReady' /\ Faultless' /\ SlotsTrue' /\ Vouched' /\ Recoverable' /\ CountedMerged' /\ SessionMerged'
    BY <2>1, MergeBusyFrame, DoneTrueFrame, AlignedFrame, GroupsTrueFrame, ReadersServeFrame,
        IosCountedFrame, DrainedFrame, MapReadyFrame, FaultlessFrame, SlotsTrueFrame, VouchedFrame,
        RecoverableFrame, CountedMergedFrame, SessionMergedFrame DEF Inv
  <2>11. WindowLoaded'
    BY SMT, <2>1, <2>2, <2>6, <2>7 DEF Inv, WindowLoaded, MergeBusy
  <2>12. WindowMerged'
    BY SMT, <2>1, <2>2, <2>4, Numbers DEF Inv, WindowMerged, MergeBusy
  <2>13. RaAlone'
    BY SMT, <2>1, <2>2 DEF Inv, RaAlone, RaMayTake, DoneTrue, Fetched, Ended
  <2>14. RaMayTake'
    BY SMT, <2>1, <2>2 DEF Inv, RaMayTake, WindowMerged, RaAlone, RaBegins, DoneTrue, Fetched,
        MergeBusy
  <2>15. RaBegins'
    BY SMT, <2>1, <2>2 DEF Inv, RaBegins, RaAlone, Down, Flags
  <2>16. RaCopies'
    BY SMT, <2>1, <2>2, <2>6 DEF Inv, RaCopies, RaMayTake, RaAlone, Fetched
  <2>17. RaSyncs'
    BY SMT, <2>1, <2>2, <2>6, <2>7 DEF Inv, RaSyncs, RaAlone, RaCopies, Fetched
  <2>18. Fetched'
    BY SMT, <2>1, <2>2 DEF Inv, Fetched, RaSyncs, RaBegins
  <2>19. Ended'
    BY SMT, <2>1, <2>2 DEF Inv, Ended, RaAlone, MergeBusy, Flags
  <2>20. BatchTurn'
    BY SMT, <2>1, <2>2 DEF Inv, BatchTurn, WindowMerged, DoneTrue, Fetched, RaAlone, WindowLoaded
  <2>21. Down'
    BY SMT, <2>1, <2>2 DEF Inv, Down, Flags
  <2>22. RaSources'
    BY SMT, <2>1, <2>2, <2>8 DEF Inv, RaSources, WindowLoaded, Fetched
  <2>23. ReadSources'
    BY SMT, <2>1, <2>2, <2>5, <2>8 DEF Inv, ReadSources, GroupsTrue, WindowLoaded
  <2>24. ResumedFirst'
    BY SMT, <2>1, <2>2 DEF Inv, ResumedFirst, RaAlone
  <2>25. ResumedMapped'
    BY SMT, <2>1, <2>2, <2>5 DEF Inv, ResumedMapped, ResumedFirst, GroupsTrue
  <2>26. ResumedServed'
    BY SMT, <2>1, <2>2 DEF Inv, ResumedServed, Flags
  <2>27. ReadsTrue'
    BY SMT, <2>1, <2>2, <2>5, <2>8, GroupsIn, OrderedIs DEF Inv, ReadsTrue, ReadersServe
  <2> QED  BY <2>10, <2>3, <2>11, <2>12, <2>13, <2>14, <2>15, <2>16, <2>17, <2>18, <2>19, <2>20,
        <2>21, <2>22, <2>23, <2>24, <2>25, <2>26, <2>27 DEF Inv
<1>2. CASE ra' = [ra EXCEPT !.pc = "end"]
  <2>1. UNCHANGED << base, stored, head, head_stored, scratch, scratch_stored, up, first, io_state,
        merge_initiated, resume_merge, populate, ra_started, serving, group, ios, map, window, mt,
        reader, crashes, faults>>
    BY SMT, <1>2 DEF WaitForMergeReady
  <2>2. /\ ra.pc = "wait"
        /\ ra'.pc = "end"
        /\ ra'.next = ra.next
        /\ ra'.temp = ra.temp
        /\ ra'.resumed = ra.resumed
    <3>1. ra.pc = "wait"
      BY SMT, <1>2 DEF Inv, WaitForMergeReady, TypeOK
    <3>2. /\ ra'.pc = "end"
          /\ ra'.next = ra.next
          /\ ra'.temp = ra.temp
          /\ ra'.resumed = ra.resumed
      BY SMT, <1>2 DEF Inv, WaitForMergeReady, TypeOK, RaType
    <3> QED  BY <3>1, <3>2
  <2>3. TypeOK'
    <3>1. ra' \in RaType /\ Len(ra'.temp) <= WindowSize
      <4>1. ra \in RaType /\ Len(ra.temp) <= WindowSize
        BY DEF Inv, TypeOK
      <4>2. ra' = [ra EXCEPT !.pc = "end"]
        BY <1>2, Numbers DEF WaitForMergeReady
      <4>3. "end" \in RaSteps
        BY SMT, <1>2, <2>2, Numbers DEF MergeSteps, RaSteps
      <4>4. ra' \in RaType  BY Zenon, <4>1, <4>2, <4>3 DEF RaType
      <4> QED  BY <4>1, <4>4, <2>2, Numbers
    <3> QED  BY <2>1, <3>1 DEF Inv, TypeOK
  <2>4. Fields /\ Fields' /\ Flags /\ Flags' /\ Cells /\ Cells'
    BY <2>3, FieldsTyped, FieldsTypedNext DEF Inv
  <2>5. \A j : Group(j)' = Group(j)
    BY <2>1 DEF Group
  <2>6. \A a, w : Saved(a, w)' <=> Saved(a, w)
    BY <2>1 DEF Saved
  <2>7. \A a, w : Mapped(a, w)' <=> Mapped(a, w)
    BY <2>1 DEF Mapped
  <2>8. \A j : Intact(j)' <=> Intact(j)
    BY <2>1 DEF Intact
  <2>9. \A j : MergedUpTo(j)' <=> MergedUpTo(j)
    BY <2>1 DEF MergedUpTo
  <2>10.
        MergeBusy' /\ DoneTrue' /\ Aligned' /\ GroupsTrue' /\ ReadersServe' /\ IosCounted' /\ Drained' /\ MapReady' /\ Faultless' /\ SlotsTrue' /\ Vouched' /\ Recoverable' /\ CountedMerged' /\ SessionMerged'
    BY <2>1, MergeBusyFrame, DoneTrueFrame, AlignedFrame, GroupsTrueFrame, ReadersServeFrame,
        IosCountedFrame, DrainedFrame, MapReadyFrame, FaultlessFrame, SlotsTrueFrame, VouchedFrame,
        RecoverableFrame, CountedMergedFrame, SessionMergedFrame DEF Inv
  <2>11. WindowLoaded'
    BY SMT, <2>1, <2>2, <2>6, <2>7 DEF Inv, WindowLoaded, Loaded
  <2>12. WindowMerged'
    BY SMT, <2>1, <2>2 DEF Inv, WindowMerged, DoneTrue, WindowLoaded, RaAlone
  <2>13. RaAlone'
    BY SMT, <2>1, <2>2 DEF Inv, RaAlone, RaMayTake, DoneTrue, Fetched, Ended
  <2>14. RaMayTake'
    BY SMT, <2>1, <2>2 DEF Inv, RaMayTake, WindowMerged, RaAlone, RaBegins, DoneTrue, Fetched,
        MergeBusy
  <2>15. RaBegins'
    BY SMT, <2>1, <2>2 DEF Inv, RaBegins, RaAlone, Down, Flags
  <2>16. RaCopies'
    BY SMT, <2>1, <2>2, <2>6 DEF Inv, RaCopies, RaMayTake, RaAlone, Fetched
  <2>17. RaSyncs'
    BY SMT, <2>1, <2>2, <2>6, <2>7 DEF Inv, RaSyncs, RaAlone, RaCopies, Fetched
  <2>18. Fetched'
    BY SMT, <2>1, <2>2 DEF Inv, Fetched, RaSyncs, RaBegins
  <2>19. Ended'
    BY SMT, <2>1, <2>2 DEF Inv, Ended, RaAlone, MergeBusy, Flags
  <2>20. BatchTurn'
    BY SMT, <2>1, <2>2 DEF Inv, BatchTurn, WindowMerged, DoneTrue, Fetched, RaAlone, WindowLoaded
  <2>21. Down'
    BY SMT, <2>1, <2>2 DEF Inv, Down, Flags
  <2>22. RaSources'
    BY SMT, <2>1, <2>2, <2>8 DEF Inv, RaSources, WindowLoaded, Fetched
  <2>23. ReadSources'
    BY SMT, <2>1, <2>2, <2>5, <2>8 DEF Inv, ReadSources, GroupsTrue, WindowLoaded
  <2>24. ResumedFirst'
    BY SMT, <2>1, <2>2 DEF Inv, ResumedFirst, RaAlone
  <2>25. ResumedMapped'
    BY SMT, <2>1, <2>2, <2>5 DEF Inv, ResumedMapped, ResumedFirst, GroupsTrue
  <2>26. ResumedServed'
    BY SMT, <2>1, <2>2 DEF Inv, ResumedServed, Flags
  <2>27. ReadsTrue'
    BY SMT, <2>1, <2>2, <2>5, <2>8, GroupsIn, OrderedIs DEF Inv, ReadsTrue, ReadersServe
  <2> QED  BY <2>10, <2>3, <2>11, <2>12, <2>13, <2>14, <2>15, <2>16, <2>17, <2>18, <2>19, <2>20,
        <2>21, <2>22, <2>23, <2>24, <2>25, <2>26, <2>27 DEF Inv
<1> QED  BY SMT, <1>1, <1>2 DEF WaitForMergeReady

(* It overwrites the scratch space while all that is not merged is intact. *)
LEMMA CopyToScratchKeeps == ASSUME Inv, CopyToScratch PROVE Inv'
<1>1. UNCHANGED << base, stored, head, head_stored, scratch_stored, up, first, io_state,
        merge_initiated, resume_merge, populate, ra_started, serving, group, ios, window, mt,
        reader, crashes, faults>>
  BY SMT DEF CopyToScratch
<1>2. /\ ra.pc = "copy"
      /\ ra'.pc = "fill"
      /\ ra'.next = ra.next
      /\ ra'.temp = ra.temp
      /\ ra'.resumed = ra.resumed
      /\ \A i \in Indices : map'[i] = 0
      /\ \A k \in 1..WindowSize : scratch'[k] = IF k <= Len(ra.temp) THEN ra.temp[k] ELSE NoSlot
  <2>1. ra.pc = "copy"
    BY SMT DEF Inv, CopyToScratch, TypeOK
  <2>2. /\ ra'.pc = "fill"
        /\ ra'.next = ra.next
        /\ ra'.temp = ra.temp
        /\ ra'.resumed = ra.resumed
    BY SMT DEF Inv, CopyToScratch, TypeOK, RaType
  <2>3. /\ \A i \in Indices : map'[i] = 0
        /\ \A k \in 1..WindowSize : scratch'[k] = IF k <= Len(ra.temp) THEN ra.temp[k] ELSE NoSlot
    BY SMT DEF Inv, CopyToScratch, TypeOK
  <2> QED  BY <2>1, <2>2, <2>3
<1>3. TypeOK'
  <2>1. scratch' \in [Slots -> [op : Indices \cup {0}, val : Values]]
    <3>1. ra.temp \in Seq([op : Indices, val : Values])  BY DEF Inv, TypeOK, RaType
    <3>2. ASSUME NEW k \in Slots
          PROVE  (IF k <= Len(ra.temp) THEN ra.temp[k] ELSE NoSlot) \in [op : Indices \cup {0}, val : Values]
      <4>1. CASE k <= Len(ra.temp)
        <5>1. k \in 1..Len(ra.temp)  BY <4>1, <3>1, Numbers
        <5>2. ra.temp[k] \in [op : Indices, val : Values]  BY <5>1, <3>1, SeqElement
        <5> QED  BY <5>2, <4>1
      <4>2. CASE ~(k <= Len(ra.temp))  BY <4>2, OpsTyped
      <4> QED  BY <4>1, <4>2
    <3>3. scratch' = [k \in Slots |-> IF k <= Len(ra.temp) THEN ra.temp[k] ELSE NoSlot]
      BY DEF CopyToScratch
    <3> QED  BY <3>2, <3>3
  <2>2. map' \in [Indices -> 0..WindowSize]
    BY SMT, <1>2, Numbers, OpsTyped DEF Inv, TypeOK, CopyToScratch
  <2>3. ra' \in RaType /\ Len(ra'.temp) <= WindowSize
    <3>1. ra \in RaType /\ Len(ra.temp) <= WindowSize
      BY DEF Inv, TypeOK
    <3>2. ra' = [ra EXCEPT !.pc = "fill"]
      BY Numbers DEF CopyToScratch
    <3>3. "fill" \in RaSteps
      BY SMT, <1>2, Numbers DEF MergeSteps, RaSteps
    <3>4. ra' \in RaType  BY Zenon, <3>1, <3>2, <3>3 DEF RaType
    <3> QED  BY <3>1, <3>4, <1>2, Numbers
  <2> QED  BY <1>1, <2>1, <2>2, <2>3 DEF Inv, TypeOK
<1>4. Fields /\ Fields' /\ Flags /\ Flags' /\ Cells /\ Cells'
  BY <1>3, FieldsTyped, FieldsTypedNext DEF Inv
<1>5. \A j : Group(j)' = Group(j)
  BY <1>1 DEF Group
<1>6. \A j : Intact(j)' <=> Intact(j)
  BY <1>1 DEF Intact
<1>7. \A j : MergedUpTo(j)' <=> MergedUpTo(j)
  BY <1>1 DEF MergedUpTo
<1>8.
        MergeBusy' /\ DoneTrue' /\ Aligned' /\ GroupsTrue' /\ ReadersServe' /\ IosCounted' /\ Drained' /\ Faultless' /\ CountedMerged' /\ SessionMerged'
  BY <1>1, MergeBusyFrame, DoneTrueFrame, AlignedFrame, GroupsTrueFrame, ReadersServeFrame,
        IosCountedFrame, DrainedFrame, FaultlessFrame, CountedMergedFrame, SessionMergedFrame DEF Inv
<1>9. \A g \in Indices : group[g] \notin {"RA_READY", "IN_PROGRESS"}
  BY <1>2, RaQuiet
<1>10. WindowLoaded'
  BY SMT, <1>1, <1>2 DEF Inv, WindowLoaded, Loaded
<1>11. WindowMerged'
  BY SMT, <1>1, <1>2 DEF Inv, WindowMerged, DoneTrue, WindowLoaded, RaAlone
<1>12. RaAlone'
  BY SMT, <1>1, <1>2 DEF Inv, RaAlone, RaMayTake, DoneTrue, Fetched, Ended
<1>13. RaMayTake'
  BY SMT, <1>1, <1>2 DEF Inv, RaMayTake, WindowMerged, RaAlone, RaBegins, DoneTrue, Fetched,
        MergeBusy
<1>14. RaBegins'
  BY SMT, <1>1, <1>2 DEF Inv, RaBegins, RaAlone, Down, Flags
<1>15. RaCopies'
  <2>1. RaBegin = mt.next /\ ~head.done /\ head_stored = head  BY <1>2 DEF Inv, RaCopies
  <2>2. RaBegin' = RaBegin /\ Len(ra'.temp) = Len(ra.temp)  BY <1>2
  <2>3. ASSUME NEW k \in 1..WindowSize
        PROVE  scratch'[k].op = IF k <= Len(ra.temp) THEN mt.next + k - 1 ELSE 0
    <3>1. Len(ra.temp) \in Nat  BY <1>4
    <3>2. CASE k <= Len(ra.temp)
      <4>1. k \in 1..Len(ra.temp)  BY <3>1, <3>2, Numbers
      <4>2. ra.temp[k].op = RaBegin + k - 1  BY <4>1 DEF Inv, Fetched
      <4>3. scratch'[k] = ra.temp[k]  BY <1>2, <3>2
      <4> QED  BY <4>2, <4>3, <3>2, <2>1
    <3>3. CASE ~(k <= Len(ra.temp))  BY <1>2, <3>3
    <3> QED  BY <3>2, <3>3
  <2>4. Saved(mt.next, Len(ra.temp))'  BY <1>1, <2>2, <2>3 DEF Saved
  <2> QED  BY <1>1, <1>2, <2>1, <2>2, <2>4 DEF RaCopies
<1>16. RaSyncs'
  BY SMT, <1>1, <1>2 DEF Inv, RaSyncs, RaAlone, RaCopies, Fetched
<1>17. Fetched'
  BY SMT, <1>1, <1>2 DEF Inv, Fetched, RaSyncs, RaBegins
<1>18. Ended'
  BY SMT, <1>1, <1>2 DEF Inv, Ended, RaAlone, MergeBusy, Flags
<1>19. BatchTurn'
  BY SMT, <1>1, <1>2 DEF Inv, BatchTurn, WindowMerged, DoneTrue, Fetched, RaAlone, WindowLoaded
<1>20. Down'
  BY SMT, <1>1, <1>2 DEF Inv, Down, Flags
<1>21. MapReady'
  <2>1. \A i \in OrderedOps(first) : Group(i) \in Indices  BY GroupsIn
  <2> QED  BY <1>1, <1>2, <1>5, <1>9, <2>1 DEF MapReady
<1>22. SlotsTrue'
  BY SMT, <1>1, <1>2 DEF Inv, SlotsTrue, Fetched, Cells
<1>23. Vouched'
  BY SMT, <1>1, <1>2 DEF Inv, Vouched, RaSyncs, RaCopies, RaAlone, Cells
<1>24. Recoverable'
  <2>1. ~head.done /\ head_stored = head  BY <1>2 DEF Inv, RaCopies
  <2> QED  BY <1>1, <1>6, <2>1 DEF Inv, Recoverable
<1>25. RaSources'
  BY SMT, <1>1, <1>2, <1>6 DEF Inv, RaSources, WindowLoaded, Fetched
<1>26. ReadSources'
  BY SMT, <1>1, <1>2, <1>5, <1>6 DEF Inv, ReadSources, GroupsTrue, WindowLoaded
<1>27. ResumedFirst'
  BY SMT, <1>1, <1>2 DEF Inv, ResumedFirst, RaAlone
<1>28. ResumedMapped'
  <2>1. ASSUME ra.resumed, NEW i \in OrderedOps(first), i <= first + WindowSize
        PROVE  group[Group(i)] = "COMPLETED"
    BY <1>2, <2>1, ResumedOver
  <2> QED  BY <1>1, <1>2, <1>5, <2>1 DEF ResumedMapped
<1>29. ResumedServed'
  BY SMT, <1>1, <1>2 DEF Inv, ResumedServed, Flags
<1>30. ReadsTrue'
  BY SMT, <1>1, <1>2, <1>5, <1>6, GroupsIn, OrderedIs DEF Inv, ReadsTrue, ReadersServe
<1> QED  BY <1>8, <1>3, <1>10, <1>11, <1>12, <1>13, <1>14, <1>15, <1>16, <1>17, <1>18, <1>19, <1>20,
        <1>21, <1>22, <1>23, <1>24, <1>25, <1>26, <1>27, <1>28, <1>29, <1>30 DEF Inv

(* The map finds the operations of the window, and no others. *)
LEMMA FillMapKeeps == ASSUME Inv, FillMap PROVE Inv'
<1>1. UNCHANGED << base, stored, head, head_stored, scratch, scratch_stored, up, first, io_state,
        merge_initiated, resume_merge, populate, ra_started, serving, group, ios, mt, reader,
        crashes, faults>>
  BY SMT DEF FillMap
<1>2. /\ ra.pc = "fill"
      /\ ra'.pc = "sync"
      /\ ra'.next = ra.next
      /\ ra'.temp = << >>
      /\ ra'.resumed = ra.resumed
      /\ window' = Len(ra.temp)
      /\ \A i \in Indices : IF mt.next <= i /\ i < mt.next + window' THEN map'[i] \in 1..WindowSize /\ scratch[map'[i]].op = i ELSE map'[i] = 0
  <2>1. ra.pc = "fill" /\ window' = Len(ra.temp)  BY DEF FillMap
  <2>2. ra'.pc = "sync" /\ ra'.next = ra.next /\ ra'.temp = << >> /\ ra'.resumed = ra.resumed
    BY DEF FillMap, Inv, TypeOK, RaType
  <2>3. Saved(mt.next, Len(ra.temp))  BY <2>1 DEF Inv, RaCopies
  <2>4. mt.next \in Nat /\ mt.next > 0 /\ Len(ra.temp) \in Nat /\ Len(ra.temp) <= WindowSize
    BY FieldsTyped DEF Inv
  <2>5. ASSUME NEW i \in Indices
        PROVE  IF mt.next <= i /\ i < mt.next + window'
               THEN map'[i] \in 1..WindowSize /\ scratch[map'[i]].op = i ELSE map'[i] = 0
    <3>0. i \in Nat /\ i > 0  BY Numbers
    <3>1. map'[i] = IF \E k \in Slots : scratch[k].op = i THEN CHOOSE k \in Slots : scratch[k].op = i ELSE 0
      BY DEF FillMap
    <3>2. CASE mt.next <= i /\ i < mt.next + Len(ra.temp)
      <4>1. i - mt.next + 1 \in Slots /\ i - mt.next + 1 <= Len(ra.temp)  BY <3>0, <3>2, <2>4, Numbers
      <4>2. scratch[i - mt.next + 1].op = mt.next + (i - mt.next + 1) - 1  BY <4>1, <2>3 DEF Saved
      <4>3. mt.next + (i - mt.next + 1) - 1 = i  BY <3>0, <2>4
      <4>4. map'[i] \in Slots /\ scratch[map'[i]].op = i  BY <3>1, <4>1, <4>2, <4>3
      <4> QED  BY <4>4, <3>2, <2>1
    <3>3. CASE ~(mt.next <= i /\ i < mt.next + Len(ra.temp))
      <4>1. \A k \in Slots : scratch[k].op # i  BY SMTT(30), <3>0, <3>3, <2>3, <2>4, Numbers DEF Saved
      <4> QED  BY <4>1, <3>1, <3>3, <2>1
    <3> QED  BY <3>2, <3>3
  <2> QED  BY <2>1, <2>2, <2>5
<1>3. TypeOK'
  <2>1. map' \in [Indices -> 0..WindowSize]
    BY SMTT(30), <1>2, Numbers, OpsTyped DEF Inv, TypeOK, FillMap
  <2>2. window' \in 0..WindowSize
    BY SMT, <1>2, Numbers, OpsTyped DEF Inv, TypeOK, FillMap
  <2>3. ra' \in RaType /\ Len(ra'.temp) <= WindowSize
    <3>1. ra \in RaType /\ Len(ra.temp) <= WindowSize
      BY DEF Inv, TypeOK
    <3>2. ra' = [ra EXCEPT !.pc = "sync", !.temp = << >>]
      BY Numbers DEF FillMap
    <3>3. "sync" \in RaSteps
      BY SMT, <1>2, Numbers DEF MergeSteps, RaSteps
    <3>4. << >> \in Seq([op : Indices, val : Values])
      BY SMT, <1>2, Numbers DEF Inv, TypeOK, Positions, MergeType, RaType
    <3>5. ra' \in RaType  BY Zenon, <3>1, <3>2, <3>3, <3>4 DEF RaType
    <3> QED  BY <3>1, <3>5, <1>2, Numbers
  <2> QED  BY <1>1, <2>1, <2>2, <2>3 DEF Inv, TypeOK
<1>4. Fields /\ Fields' /\ Flags /\ Flags' /\ Cells /\ Cells'
  BY <1>3, FieldsTyped, FieldsTypedNext DEF Inv
<1>5. \A j : Group(j)' = Group(j)
  BY <1>1 DEF Group
<1>6. \A a, w : Saved(a, w)' <=> Saved(a, w)
  BY <1>1 DEF Saved
<1>7. \A j : Intact(j)' <=> Intact(j)
  BY <1>1 DEF Intact
<1>8. \A j : MergedUpTo(j)' <=> MergedUpTo(j)
  BY <1>1 DEF MergedUpTo
<1>9.
        MergeBusy' /\ Aligned' /\ GroupsTrue' /\ ReadersServe' /\ IosCounted' /\ Drained' /\ Faultless' /\ SlotsTrue' /\ Vouched' /\ Recoverable' /\ CountedMerged' /\ SessionMerged'
  BY <1>1, MergeBusyFrame, AlignedFrame, GroupsTrueFrame, ReadersServeFrame, IosCountedFrame,
        DrainedFrame, FaultlessFrame, SlotsTrueFrame, VouchedFrame, RecoverableFrame,
        CountedMergedFrame, SessionMergedFrame DEF Inv
<1>10. \A g \in Indices : group[g] \notin {"RA_READY", "IN_PROGRESS"}
  BY <1>2, RaQuiet
<1>11. WindowLoaded'
  BY SMT, <1>1, <1>2, <1>6 DEF Inv, WindowLoaded, Loaded
<1>12. WindowMerged'
  BY SMT, <1>1, <1>2 DEF Inv, WindowMerged, DoneTrue, WindowLoaded, RaAlone
<1>13. DoneTrue'
  BY SMT, <1>1, <1>2 DEF Inv, DoneTrue, RaAlone
<1>14. RaAlone'
  BY SMT, <1>1, <1>2 DEF Inv, RaAlone, RaMayTake, DoneTrue, Fetched, Ended
<1>15. RaMayTake'
  BY SMT, <1>1, <1>2 DEF Inv, RaMayTake, WindowMerged, RaAlone, RaBegins, DoneTrue, Fetched,
        MergeBusy
<1>16. RaBegins'
  BY SMT, <1>1, <1>2 DEF Inv, RaBegins, RaAlone, Down, Flags
<1>17. RaCopies'
  BY SMT, <1>1, <1>2, <1>6 DEF Inv, RaCopies, RaMayTake, RaAlone, Fetched
<1>18. RaSyncs'
  <2>1. RaBegin = mt.next /\ Saved(mt.next, Len(ra.temp))  BY <1>2 DEF Inv, RaCopies
  <2>2. IsWindow(mt.next, Len(ra.temp))  BY <1>2, <2>1 DEF Inv, Fetched
  <2>3. ra.next \in Nat /\ Len(ra.temp) \in Nat  BY <1>4
  <2>4. RaBegin' = ra.next /\ ra.next = mt.next + Len(ra.temp)  BY <1>2, <2>1, <2>3
  <2>5. IsWindow(mt.next, window)' /\ Saved(mt.next, window)'
    BY <1>1, <1>2, <1>6, <2>1, <2>2 DEF IsWindow
  <2>6. Mapped(mt.next, window)'
    <3>1. \A i \in Indices : mt.next <= i /\ i < mt.next + window' => map'[i] # 0
      BY <1>2, Numbers
    <3> QED  BY <3>1, <1>1 DEF Mapped
  <2> QED  BY <1>1, <1>2, <2>4, <2>5, <2>6 DEF RaSyncs
<1>19. Fetched'
  BY SMTT(30), <1>1, <1>2, <1>4, Numbers DEF Inv, Fetched, RaSyncs, RaBegins
<1>20. Ended'
  BY SMT, <1>1, <1>2 DEF Inv, Ended, RaAlone, MergeBusy, Flags
<1>21. BatchTurn'
  BY SMT, <1>1, <1>2 DEF Inv, BatchTurn, WindowMerged, DoneTrue, Fetched, RaAlone, WindowLoaded
<1>22. Down'
  BY SMT, <1>1, <1>2 DEF Inv, Down, Flags
<1>23. MapReady'
  <2>1. \A i \in OrderedOps(first) : Group(i) \in Indices  BY GroupsIn
  <2> QED  BY <1>1, <1>2, <1>5, <1>10, <2>1 DEF MapReady
<1>24. RaSources'
  BY SMT, <1>1, <1>2, <1>4, <1>7, Numbers DEF Inv, RaSources, WindowLoaded, Fetched
<1>25. ReadSources'
  BY SMT, <1>1, <1>2, <1>5, <1>7 DEF Inv, ReadSources, GroupsTrue, WindowLoaded
<1>26. ResumedFirst'
  BY SMT, <1>1, <1>2 DEF Inv, ResumedFirst, RaAlone
<1>27. ResumedMapped'
  <2>1. ASSUME ra.resumed, NEW i \in OrderedOps(first), i <= first + WindowSize
        PROVE  group[Group(i)] = "COMPLETED"
    BY <1>2, <2>1, ResumedOver
  <2> QED  BY <1>1, <1>2, <1>5, <2>1 DEF ResumedMapped
<1>28. ResumedServed'
  BY SMT, <1>1, <1>2 DEF Inv, ResumedServed, Flags
<1>29. ReadsTrue'
  BY SMT, <1>1, <1>2, <1>5, <1>7, GroupsIn, OrderedIs DEF Inv, ReadsTrue, ReadersServe
<1> QED  BY <1>9, <1>3, <1>11, <1>12, <1>13, <1>14, <1>15, <1>16, <1>17, <1>18, <1>19, <1>20, <1>21,
        <1>22, <1>23, <1>24, <1>25, <1>26, <1>27, <1>28, <1>29 DEF Inv

(* The scratch space is on storage before it is vouched for. *)
LEMMA SyncScratchKeeps == ASSUME Inv, SyncScratch PROVE Inv'
<1>1. CASE /\ head_stored' = head /\ scratch_stored' = scratch
           /\ ra' = [ra EXCEPT !.pc = "mark"] /\ NoFault /\ UNCHANGED io_state
  <2>1. UNCHANGED << base, stored, head, scratch, up, first, io_state, merge_initiated, resume_merge,
        populate, ra_started, serving, group, ios, map, window, mt, reader, crashes, faults>>
    BY SMT, <1>1 DEF SyncScratch
  <2>2. /\ ra.pc = "sync"
        /\ head_stored' = head
        /\ scratch_stored' = scratch
        /\ ra'.pc = "mark"
        /\ ra'.next = ra.next
        /\ ra'.temp = ra.temp
        /\ ra'.resumed = ra.resumed
    <3>1. /\ ra.pc = "sync"
          /\ head_stored' = head
          /\ scratch_stored' = scratch
      BY SMT, <1>1 DEF Inv, SyncScratch, TypeOK
    <3>2. /\ ra'.pc = "mark"
          /\ ra'.next = ra.next
          /\ ra'.temp = ra.temp
          /\ ra'.resumed = ra.resumed
      BY SMT, <1>1 DEF Inv, SyncScratch, TypeOK, RaType
    <3> QED  BY <3>1, <3>2
  <2>3. TypeOK'
    <3>1. head_stored' \in [num : Nat, done : BOOLEAN]
      BY SMT, <1>1, <2>2, Numbers, OpsTyped DEF Inv, TypeOK, SyncScratch
    <3>2. scratch_stored' \in [Slots -> [op : Indices \cup {0}, val : Values]]
      BY SMT, <1>1, <2>2, Numbers, OpsTyped DEF Inv, TypeOK, SyncScratch
    <3>3. ra' \in RaType /\ Len(ra'.temp) <= WindowSize
      <4>1. ra \in RaType /\ Len(ra.temp) <= WindowSize
        BY DEF Inv, TypeOK
      <4>2. ra' = [ra EXCEPT !.pc = "mark"]
        BY <1>1, Numbers DEF SyncScratch
      <4>3. "mark" \in RaSteps
        BY SMT, <1>1, <2>2, Numbers DEF MergeSteps, RaSteps
      <4>4. ra' \in RaType  BY Zenon, <4>1, <4>2, <4>3 DEF RaType
      <4> QED  BY <4>1, <4>4, <2>2, Numbers
    <3> QED  BY <2>1, <3>1, <3>2, <3>3 DEF Inv, TypeOK
  <2>4. Fields /\ Fields' /\ Flags /\ Flags' /\ Cells /\ Cells'
    BY <2>3, FieldsTyped, FieldsTypedNext DEF Inv
  <2>5. \A j : Group(j)' = Group(j)
    BY <2>1 DEF Group
  <2>6. \A a, w : Saved(a, w)' <=> Saved(a, w)
    BY <2>1 DEF Saved
  <2>7. \A a, w : Mapped(a, w)' <=> Mapped(a, w)
    BY <2>1 DEF Mapped
  <2>8. \A j : Intact(j)' <=> Intact(j)
    BY <2>1 DEF Intact
  <2>9. \A j : MergedUpTo(j)' <=> MergedUpTo(j)
    BY <2>1 DEF MergedUpTo
  <2>10.
        MergeBusy' /\ DoneTrue' /\ Aligned' /\ GroupsTrue' /\ ReadersServe' /\ IosCounted' /\ Drained' /\ MapReady' /\ Faultless' /\ SessionMerged'
    BY <2>1, MergeBusyFrame, DoneTrueFrame, AlignedFrame, GroupsTrueFrame, ReadersServeFrame,
        IosCountedFrame, DrainedFrame, MapReadyFrame, FaultlessFrame, SessionMergedFrame DEF Inv
  <2>11. WindowLoaded'
    BY SMT, <2>1, <2>2, <2>6, <2>7 DEF Inv, WindowLoaded, Loaded
  <2>12. WindowMerged'
    BY SMT, <2>1, <2>2 DEF Inv, WindowMerged, DoneTrue, WindowLoaded, RaAlone
  <2>13. RaAlone'
    BY SMT, <2>1, <2>2 DEF Inv, RaAlone, RaMayTake, DoneTrue, Fetched, Ended
  <2>14. RaMayTake'
    BY SMT, <2>1, <2>2 DEF Inv, RaMayTake, WindowMerged, RaAlone, RaBegins, DoneTrue, Fetched,
        MergeBusy
  <2>15. RaBegins'
    BY SMT, <2>1, <2>2 DEF Inv, RaBegins, RaAlone, Down, Flags
  <2>16. RaCopies'
    BY SMT, <2>1, <2>2, <2>6 DEF Inv, RaCopies, RaMayTake, RaAlone, Fetched
  <2>17. RaSyncs'
    BY SMT, <2>1, <2>2, <2>6, <2>7 DEF Inv, RaSyncs, RaAlone, RaCopies, Fetched
  <2>18. Fetched'
    BY SMT, <2>1, <2>2 DEF Inv, Fetched, RaSyncs, RaBegins
  <2>19. Ended'
    BY SMT, <2>1, <2>2 DEF Inv, Ended, RaAlone, MergeBusy, Flags
  <2>20. BatchTurn'
    BY SMT, <2>1, <2>2 DEF Inv, BatchTurn, WindowMerged, DoneTrue, Fetched, RaAlone, WindowLoaded
  <2>21. Down'
    BY SMT, <2>1, <2>2 DEF Inv, Down, Flags
  <2>22. SlotsTrue'
    BY SMT, <2>1, <2>2 DEF Inv, SlotsTrue, Fetched, Cells
  <2>23. Vouched'
    BY SMT, <2>1, <2>2, <2>6 DEF Inv, Vouched, RaSyncs, RaCopies, RaAlone, Cells
  <2>24. Recoverable'
    BY SMT, <2>1, <2>2, <2>8 DEF Inv, Recoverable, WindowLoaded, DoneTrue, Cells
  <2>25. CountedMerged'
    BY SMT, <2>1, <2>2, <2>4, <2>9, Numbers DEF Inv, CountedMerged
  <2>26. RaSources'
    BY SMT, <2>1, <2>2, <2>8 DEF Inv, RaSources, WindowLoaded, Fetched
  <2>27. ReadSources'
    BY SMT, <2>1, <2>2, <2>5, <2>8 DEF Inv, ReadSources, GroupsTrue, WindowLoaded
  <2>28. ResumedFirst'
    BY SMT, <2>1, <2>2 DEF Inv, ResumedFirst, RaAlone
  <2>29. ResumedMapped'
    BY SMT, <2>1, <2>2, <2>5 DEF Inv, ResumedMapped, ResumedFirst, GroupsTrue
  <2>30. ResumedServed'
    BY SMT, <2>1, <2>2 DEF Inv, ResumedServed, Flags
  <2>31. ReadsTrue'
    BY SMT, <2>1, <2>2, <2>5, <2>8, GroupsIn, OrderedIs DEF Inv, ReadsTrue, ReadersServe
  <2> QED  BY <2>10, <2>3, <2>11, <2>12, <2>13, <2>14, <2>15, <2>16, <2>17, <2>18, <2>19, <2>20,
        <2>21, <2>22, <2>23, <2>24, <2>25, <2>26, <2>27, <2>28, <2>29, <2>30, <2>31 DEF Inv
<1>2. CASE Fault("ra_msync") /\ ReadAheadFails(TRUE) /\ UNCHANGED <<head_stored, scratch_stored>>
  <2>1. RaGivesUp("ra_msync")
    BY SMT, <1>2 DEF Inv, SyncScratch, RaGivesUp
  <2> QED  BY <2>1, RaGivesUpKeeps
<1> QED  BY SMT, <1>1, <1>2 DEF SyncScratch

(* The header vouches for a scratch space that holds the next window. *)
LEMMA MarkDoneKeeps == ASSUME Inv, MarkDone PROVE Inv'
<1>1. UNCHANGED << base, stored, head_stored, scratch, scratch_stored, up, first, io_state,
        merge_initiated, resume_merge, populate, ra_started, serving, group, ios, map, window, mt,
        reader, crashes, faults>>
  BY SMT DEF MarkDone
<1>2. /\ ra.pc = "mark"
      /\ head'.num = head.num
      /\ head'.done = TRUE
      /\ ra'.pc = "sync_mark"
      /\ ra'.next = ra.next
      /\ ra'.temp = ra.temp
      /\ ra'.resumed = ra.resumed
  <2>1. /\ ra.pc = "mark"
        /\ head'.num = head.num
        /\ head'.done = TRUE
    BY SMT DEF Inv, MarkDone, TypeOK
  <2>2. /\ ra'.pc = "sync_mark"
        /\ ra'.next = ra.next
        /\ ra'.temp = ra.temp
        /\ ra'.resumed = ra.resumed
    BY SMT DEF Inv, MarkDone, TypeOK, RaType
  <2> QED  BY <2>1, <2>2
<1>3. TypeOK'
  <2>1. head' \in [num : Nat, done : BOOLEAN]
    BY DEF Inv, TypeOK, MarkDone
  <2>2. ra' \in RaType /\ Len(ra'.temp) <= WindowSize
    <3>1. ra \in RaType /\ Len(ra.temp) <= WindowSize
      BY DEF Inv, TypeOK
    <3>2. ra' = [ra EXCEPT !.pc = "sync_mark"]
      BY Numbers DEF MarkDone
    <3>3. "sync_mark" \in RaSteps
      BY SMT, <1>2, Numbers DEF MergeSteps, RaSteps
    <3>4. ra' \in RaType  BY Zenon, <3>1, <3>2, <3>3 DEF RaType
    <3> QED  BY <3>1, <3>4, <1>2, Numbers
  <2> QED  BY <1>1, <2>1, <2>2 DEF Inv, TypeOK
<1>4. Fields /\ Fields' /\ Flags /\ Flags' /\ Cells /\ Cells'
  BY <1>3, FieldsTyped, FieldsTypedNext DEF Inv
<1>5. \A j : Group(j)' = Group(j)
  BY <1>1 DEF Group
<1>6. \A a, w : Saved(a, w)' <=> Saved(a, w)
  BY <1>1 DEF Saved
<1>7. \A a, w : Mapped(a, w)' <=> Mapped(a, w)
  BY <1>1 DEF Mapped
<1>8. \A j : Intact(j)' <=> Intact(j)
  BY <1>1 DEF Intact
<1>9. \A j : MergedUpTo(j)' <=> MergedUpTo(j)
  BY <1>1 DEF MergedUpTo
<1>10.
        MergeBusy' /\ Aligned' /\ GroupsTrue' /\ ReadersServe' /\ IosCounted' /\ Drained' /\ MapReady' /\ Faultless' /\ SlotsTrue' /\ SessionMerged'
  BY <1>1, MergeBusyFrame, AlignedFrame, GroupsTrueFrame, ReadersServeFrame, IosCountedFrame,
        DrainedFrame, MapReadyFrame, FaultlessFrame, SlotsTrueFrame, SessionMergedFrame DEF Inv
<1>11. WindowLoaded'
  BY SMT, <1>1, <1>2, <1>6, <1>7 DEF Inv, WindowLoaded, Loaded
<1>12. WindowMerged'
  BY SMT, <1>1, <1>2 DEF Inv, WindowMerged, DoneTrue, WindowLoaded, RaAlone
<1>13. DoneTrue'
  BY SMT, <1>1, <1>2 DEF Inv, DoneTrue, RaAlone
<1>14. RaAlone'
  BY SMT, <1>1, <1>2 DEF Inv, RaAlone, RaMayTake, DoneTrue, Fetched, Ended
<1>15. RaMayTake'
  BY SMT, <1>1, <1>2 DEF Inv, RaMayTake, WindowMerged, RaAlone, RaBegins, DoneTrue, Fetched,
        MergeBusy
<1>16. RaBegins'
  BY SMT, <1>1, <1>2 DEF Inv, RaBegins, RaAlone, Down, Flags
<1>17. RaCopies'
  BY SMT, <1>1, <1>2, <1>6 DEF Inv, RaCopies, RaMayTake, RaAlone, Fetched
<1>18. RaSyncs'
  BY SMT, <1>1, <1>2, <1>6, <1>7 DEF Inv, RaSyncs, RaAlone, RaCopies, Fetched
<1>19. Fetched'
  BY SMT, <1>1, <1>2 DEF Inv, Fetched, RaSyncs, RaBegins
<1>20. Ended'
  BY SMT, <1>1, <1>2 DEF Inv, Ended, RaAlone, MergeBusy, Flags
<1>21. BatchTurn'
  BY SMT, <1>1, <1>2 DEF Inv, BatchTurn, WindowMerged, DoneTrue, Fetched, RaAlone, WindowLoaded
<1>22. Down'
  BY SMT, <1>1, <1>2 DEF Inv, Down, Flags
<1>23. Vouched'
  <2>1. /\ scratch_stored = scratch /\ IsWindow(mt.next, window) /\ Saved(mt.next, window)
        /\ Counts(head, mt.next)
    BY <1>2 DEF Inv, RaSyncs, RaAlone
  <2>2. Counts(head', mt.next)  BY <2>1, <1>2
  <2>3. Vouches(head)'
    BY <1>1, <2>1, <2>2 DEF Vouches, Saved, IsWindow, Slots
  <2>4. Vouches(head_stored)'
    BY <1>1 DEF Inv, Vouched, Vouches, Saved
  <2> QED  BY <2>3, <2>4 DEF Vouched
<1>24. Recoverable'
  BY SMT, <1>1, <1>2, <1>8 DEF Inv, Recoverable, WindowLoaded, DoneTrue, Cells
<1>25. CountedMerged'
  BY SMT, <1>1, <1>2, <1>9 DEF Inv, CountedMerged
<1>26. RaSources'
  BY SMT, <1>1, <1>2, <1>8 DEF Inv, RaSources, WindowLoaded, Fetched
<1>27. ReadSources'
  BY SMT, <1>1, <1>2, <1>5, <1>8 DEF Inv, ReadSources, GroupsTrue, WindowLoaded
<1>28. ResumedFirst'
  BY SMT, <1>1, <1>2 DEF Inv, ResumedFirst, RaAlone
<1>29. ResumedMapped'
  BY SMT, <1>1, <1>2, <1>5 DEF Inv, ResumedMapped, ResumedFirst, GroupsTrue
<1>30. ResumedServed'
  BY SMT, <1>1, <1>2 DEF Inv, ResumedServed, Flags
<1>31. ReadsTrue'
  BY SMT, <1>1, <1>2, <1>5, <1>8, GroupsIn, OrderedIs DEF Inv, ReadsTrue, ReadersServe
<1> QED  BY <1>10, <1>3, <1>11, <1>12, <1>13, <1>14, <1>15, <1>16, <1>17, <1>18, <1>19, <1>20,
        <1>21, <1>22, <1>23, <1>24, <1>25, <1>26, <1>27, <1>28, <1>29, <1>30, <1>31 DEF Inv

(* The header on storage vouches for the same. *)
LEMMA SyncMarkKeeps == ASSUME Inv, SyncMark PROVE Inv'
<1>1. CASE head_stored' = head /\ ra' = [ra EXCEPT !.pc = "notify"] /\ NoFault /\ UNCHANGED io_state
  <2>1. UNCHANGED << base, stored, head, scratch, scratch_stored, up, first, io_state,
        merge_initiated, resume_merge, populate, ra_started, serving, group, ios, map, window, mt,
        reader, crashes, faults>>
    BY SMT, <1>1 DEF SyncMark
  <2>2. /\ ra.pc = "sync_mark"
        /\ head_stored' = head
        /\ ra'.pc = "notify"
        /\ ra'.next = ra.next
        /\ ra'.temp = ra.temp
        /\ ra'.resumed = ra.resumed
    <3>1. /\ ra.pc = "sync_mark"
          /\ head_stored' = head
      BY SMT, <1>1 DEF Inv, SyncMark, TypeOK
    <3>2. /\ ra'.pc = "notify"
          /\ ra'.next = ra.next
          /\ ra'.temp = ra.temp
          /\ ra'.resumed = ra.resumed
      BY SMT, <1>1 DEF Inv, SyncMark, TypeOK, RaType
    <3> QED  BY <3>1, <3>2
  <2>3. TypeOK'
    <3>1. head_stored' \in [num : Nat, done : BOOLEAN]
      BY SMT, <1>1, <2>2, Numbers, OpsTyped DEF Inv, TypeOK, SyncMark
    <3>2. ra' \in RaType /\ Len(ra'.temp) <= WindowSize
      <4>1. ra \in RaType /\ Len(ra.temp) <= WindowSize
        BY DEF Inv, TypeOK
      <4>2. ra' = [ra EXCEPT !.pc = "notify"]
        BY <1>1, Numbers DEF SyncMark
      <4>3. "notify" \in RaSteps
        BY SMT, <1>1, <2>2, Numbers DEF MergeSteps, RaSteps
      <4>4. ra' \in RaType  BY Zenon, <4>1, <4>2, <4>3 DEF RaType
      <4> QED  BY <4>1, <4>4, <2>2, Numbers
    <3> QED  BY <2>1, <3>1, <3>2 DEF Inv, TypeOK
  <2>4. Fields /\ Fields' /\ Flags /\ Flags' /\ Cells /\ Cells'
    BY <2>3, FieldsTyped, FieldsTypedNext DEF Inv
  <2>5. \A j : Group(j)' = Group(j)
    BY <2>1 DEF Group
  <2>6. \A a, w : Saved(a, w)' <=> Saved(a, w)
    BY <2>1 DEF Saved
  <2>7. \A a, w : Mapped(a, w)' <=> Mapped(a, w)
    BY <2>1 DEF Mapped
  <2>8. \A j : Intact(j)' <=> Intact(j)
    BY <2>1 DEF Intact
  <2>9. \A j : MergedUpTo(j)' <=> MergedUpTo(j)
    BY <2>1 DEF MergedUpTo
  <2>10.
        MergeBusy' /\ DoneTrue' /\ Aligned' /\ GroupsTrue' /\ ReadersServe' /\ IosCounted' /\ Drained' /\ MapReady' /\ Faultless' /\ SlotsTrue' /\ SessionMerged'
    BY <2>1, MergeBusyFrame, DoneTrueFrame, AlignedFrame, GroupsTrueFrame, ReadersServeFrame,
        IosCountedFrame, DrainedFrame, MapReadyFrame, FaultlessFrame, SlotsTrueFrame,
        SessionMergedFrame DEF Inv
  <2>11. WindowLoaded'
    BY SMT, <2>1, <2>2, <2>6, <2>7 DEF Inv, WindowLoaded, Loaded
  <2>12. WindowMerged'
    BY SMT, <2>1, <2>2 DEF Inv, WindowMerged, DoneTrue, WindowLoaded, RaAlone
  <2>13. RaAlone'
    BY SMT, <2>1, <2>2 DEF Inv, RaAlone, RaMayTake, DoneTrue, Fetched, Ended
  <2>14. RaMayTake'
    BY SMT, <2>1, <2>2 DEF Inv, RaMayTake, WindowMerged, RaAlone, RaBegins, DoneTrue, Fetched,
        MergeBusy
  <2>15. RaBegins'
    BY SMT, <2>1, <2>2 DEF Inv, RaBegins, RaAlone, Down, Flags
  <2>16. RaCopies'
    BY SMT, <2>1, <2>2, <2>6 DEF Inv, RaCopies, RaMayTake, RaAlone, Fetched
  <2>17. RaSyncs'
    BY SMT, <2>1, <2>2, <2>6, <2>7 DEF Inv, RaSyncs, RaAlone, RaCopies, Fetched
  <2>18. Fetched'
    BY SMT, <2>1, <2>2 DEF Inv, Fetched, RaSyncs, RaBegins
  <2>19. Ended'
    BY SMT, <2>1, <2>2 DEF Inv, Ended, RaAlone, MergeBusy, Flags
  <2>20. BatchTurn'
    BY SMT, <2>1, <2>2 DEF Inv, BatchTurn, WindowMerged, DoneTrue, Fetched, RaAlone, WindowLoaded
  <2>21. Down'
    BY SMT, <2>1, <2>2 DEF Inv, Down, Flags
  <2>22. Vouched'
    BY SMT, <2>1, <2>2, <2>6 DEF Inv, Vouched, RaSyncs, RaCopies, RaAlone, Cells
  <2>23. Recoverable'
    BY SMT, <2>1, <2>2, <2>8 DEF Inv, Recoverable, WindowLoaded, DoneTrue, Cells
  <2>24. CountedMerged'
    BY SMT, <2>1, <2>2, <2>4, <2>9, Numbers DEF Inv, CountedMerged
  <2>25. RaSources'
    BY SMT, <2>1, <2>2, <2>8 DEF Inv, RaSources, WindowLoaded, Fetched
  <2>26. ReadSources'
    BY SMT, <2>1, <2>2, <2>5, <2>8 DEF Inv, ReadSources, GroupsTrue, WindowLoaded
  <2>27. ResumedFirst'
    BY SMT, <2>1, <2>2 DEF Inv, ResumedFirst, RaAlone
  <2>28. ResumedMapped'
    BY SMT, <2>1, <2>2, <2>5 DEF Inv, ResumedMapped, ResumedFirst, GroupsTrue
  <2>29. ResumedServed'
    BY SMT, <2>1, <2>2 DEF Inv, ResumedServed, Flags
  <2>30. ReadsTrue'
    BY SMT, <2>1, <2>2, <2>5, <2>8, GroupsIn, OrderedIs DEF Inv, ReadsTrue, ReadersServe
  <2> QED  BY <2>10, <2>3, <2>11, <2>12, <2>13, <2>14, <2>15, <2>16, <2>17, <2>18, <2>19, <2>20,
        <2>21, <2>22, <2>23, <2>24, <2>25, <2>26, <2>27, <2>28, <2>29, <2>30 DEF Inv
<1>2. CASE Fault("ra_msync") /\ ReadAheadFails(TRUE) /\ UNCHANGED <<head_stored>>
  <2>1. RaGivesUp("ra_msync")
    BY SMT, <1>2 DEF Inv, SyncMark, RaGivesUp
  <2> QED  BY <2>1, RaGivesUpKeeps
<1> QED  BY SMT, <1>1, <1>2 DEF SyncMark

(* The merge thread is told of a window that is saved, mapped and vouched for. *)
LEMMA NotifyMergeBeginKeeps == ASSUME Inv, NotifyMergeBegin PROVE Inv'
<1>1. UNCHANGED << base, stored, head, head_stored, scratch, scratch_stored, up, first,
        merge_initiated, resume_merge, populate, serving, group, ios, map, window, mt, reader,
        crashes, faults>>
  BY SMT DEF NotifyMergeBegin
<1>2. /\ ra.pc = "notify"
      /\ io_state' = IF io_state \in {"IO_TERMINATED", "MERGE_FAILED"} THEN io_state ELSE "MERGE_BEGIN"
      /\ ra_started' = (ra_started \/ ra.resumed)
      /\ ra'.pc = IF OrderedAt(ra.next) THEN "read" ELSE "end"
      /\ ra'.next = ra.next
      /\ ra'.temp = ra.temp
      /\ ra'.resumed = ra.resumed
  <2>1. /\ ra.pc = "notify"
        /\ io_state' = IF io_state \in {"IO_TERMINATED", "MERGE_FAILED"} THEN io_state ELSE "MERGE_BEGIN"
        /\ ra_started' = (ra_started \/ ra.resumed)
    BY SMT DEF Inv, NotifyMergeBegin, TypeOK
  <2>2. /\ ra'.pc = IF OrderedAt(ra.next) THEN "read" ELSE "end"
        /\ ra'.next = ra.next
        /\ ra'.temp = ra.temp
        /\ ra'.resumed = ra.resumed
    BY SMT DEF Inv, NotifyMergeBegin, TypeOK, RaType
  <2> QED  BY <2>1, <2>2
<1>3. TypeOK'
  <2>1. io_state' \in IoStates
    BY SMT, <1>2, Numbers, OpsTyped DEF Inv, TypeOK, NotifyMergeBegin, IoStates
  <2>2. ra_started' \in BOOLEAN
    BY SMT, <1>2, Numbers, OpsTyped DEF Inv, TypeOK, NotifyMergeBegin
  <2>3. ra' \in RaType /\ Len(ra'.temp) <= WindowSize
    <3>1. ra \in RaType /\ Len(ra.temp) <= WindowSize
      BY DEF Inv, TypeOK
    <3>2. ra' = [ra EXCEPT !.pc = IF OrderedAt(ra.next) THEN "read" ELSE "end"]
      BY Numbers DEF NotifyMergeBegin
    <3>3. (IF OrderedAt(ra.next) THEN "read" ELSE "end") \in RaSteps
      BY SMT, <1>2, Numbers DEF MergeSteps, RaSteps
    <3>4. ra' \in RaType  BY Zenon, <3>1, <3>2, <3>3 DEF RaType
    <3> QED  BY <3>1, <3>4, <1>2, Numbers
  <2> QED  BY <1>1, <2>1, <2>2, <2>3 DEF Inv, TypeOK
<1>4. Fields /\ Fields' /\ Flags /\ Flags' /\ Cells /\ Cells'
  BY <1>3, FieldsTyped, FieldsTypedNext DEF Inv
<1>5. \A j : Group(j)' = Group(j)
  BY <1>1 DEF Group
<1>6. \A a, w : Saved(a, w)' <=> Saved(a, w)
  BY <1>1 DEF Saved
<1>7. \A a, w : Mapped(a, w)' <=> Mapped(a, w)
  BY <1>1 DEF Mapped
<1>8. \A j : Intact(j)' <=> Intact(j)
  BY <1>1 DEF Intact
<1>9. \A j : MergedUpTo(j)' <=> MergedUpTo(j)
  BY <1>1 DEF MergedUpTo
<1>10.
        DoneTrue' /\ Aligned' /\ GroupsTrue' /\ ReadersServe' /\ IosCounted' /\ Drained' /\ MapReady' /\ SlotsTrue' /\ Vouched' /\ Recoverable' /\ CountedMerged' /\ SessionMerged'
  BY <1>1, DoneTrueFrame, AlignedFrame, GroupsTrueFrame, ReadersServeFrame, IosCountedFrame,
        DrainedFrame, MapReadyFrame, SlotsTrueFrame, VouchedFrame, RecoverableFrame,
        CountedMergedFrame, SessionMergedFrame DEF Inv
<1>11. MtStart' = mt.next
  BY <1>1, <1>4, <1>2 DEF Inv, RaAlone
<1>12. WindowLoaded'
  BY SMT, <1>1, <1>2, <1>4, <1>6, <1>7, <1>11, Numbers DEF Inv, WindowLoaded, Loaded, RaSyncs,
        RaAlone
<1>13. MergeBusy'
  BY SMT, <1>1, <1>2 DEF Inv, MergeBusy, DoneTrue, RaAlone, RaMayTake, GroupsTrue
<1>14. WindowMerged'
  BY SMT, <1>1, <1>2 DEF Inv, WindowMerged, DoneTrue, WindowLoaded, RaAlone
<1>15. RaAlone'
  BY SMT, <1>1, <1>2 DEF Inv, RaAlone, RaMayTake, DoneTrue, Fetched, Ended
<1>16. RaMayTake'
  BY SMT, <1>1, <1>2 DEF Inv, RaMayTake, WindowMerged, RaAlone, RaBegins, DoneTrue, Fetched,
        MergeBusy
<1>17. RaBegins'
  BY SMT, <1>1, <1>2 DEF Inv, RaBegins, RaAlone, Down, Flags
<1>18. RaCopies'
  BY SMT, <1>1, <1>2, <1>6 DEF Inv, RaCopies, RaMayTake, RaAlone, Fetched
<1>19. RaSyncs'
  BY SMT, <1>1, <1>2, <1>6, <1>7 DEF Inv, RaSyncs, RaAlone, RaCopies, Fetched
<1>20. Fetched'
  BY SMT, <1>1, <1>2, <1>4, Numbers DEF Inv, Fetched, RaSyncs, RaBegins
<1>21. Ended'
  BY SMT, <1>1, <1>2 DEF Inv, Ended, RaAlone, MergeBusy, Flags
<1>22. BatchTurn'
  BY SMT, <1>1, <1>2 DEF Inv, BatchTurn, WindowMerged, DoneTrue, Fetched, RaAlone, WindowLoaded
<1>23. Down'
  BY SMT, <1>1, <1>2 DEF Inv, Down, Flags
<1>24. Faultless'
  BY SMT, <1>1, <1>2 DEF Inv, Faultless, RaAlone, GroupsTrue, MapReady
<1>25. RaSources'
  BY SMT, <1>1, <1>2, <1>8 DEF Inv, RaSources, WindowLoaded, Fetched
<1>26. ReadSources'
  BY SMT, <1>1, <1>2, <1>5, <1>8 DEF Inv, ReadSources, GroupsTrue, WindowLoaded
<1>27. ResumedFirst'
  BY SMT, <1>1, <1>2 DEF Inv, ResumedFirst, RaAlone
<1>28. ResumedMapped'
  BY SMT, <1>1, <1>2, <1>5 DEF Inv, ResumedMapped, ResumedFirst, GroupsTrue
<1>29. ResumedServed'
  BY SMT, <1>1, <1>2, <1>4, Numbers DEF Inv, ResumedServed, Flags
<1>30. ReadsTrue'
  BY SMT, <1>1, <1>2, <1>5, <1>8, GroupsIn, OrderedIs DEF Inv, ReadsTrue, ResumedServed,
        ReadersServe, Ended, Flags
<1> QED  BY <1>10, <1>3, <1>12, <1>13, <1>14, <1>15, <1>16, <1>17, <1>18, <1>19, <1>20, <1>21,
        <1>22, <1>23, <1>24, <1>25, <1>26, <1>27, <1>28, <1>29, <1>30 DEF Inv

=============================================================================
