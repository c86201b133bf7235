------------------------- MODULE SnapuserdMergeProofs -------------------------
(***************************************************************************)
(* Proofs about SnapuserdMerge, second part: the steps of the merge thread *)
(* keep the invariant of SnapuserdMergeInvariant, and the theorems follow. *)
(***************************************************************************)
EXTENDS SnapuserdMergeInvariant

USE DEF device, cowfile, handler, groups, buffer, power, Fields, Slots, Marked, AtWindow, OrderedAt,
        Redoes, RaBegin, Counts, RaOwns, AtBatch, MtStart, RaIdle, MergeIdle, WindowsDone, Vouches,
        Recovers, NoFault, ReaderIdle, MoreToRead, ReadAheadFails, NoSlot, IsMergeBeginError,
        MergeBegins, OrderedMergeFails, ReplaceFails, GetRABuffer, Found

-----------------------------------------------------------------------------
(* The merge thread. *)

(* Synchronous I/O merges the window again from its beginning: it is still loaded. *)
LEMMA WindowRedoneKeeps == ASSUME NEW site, Inv, WindowRedone(site) PROVE Inv'
<1>1. UNCHANGED << base, stored, head, head_stored, scratch, scratch_stored, up, first, io_state,
        merge_initiated, resume_merge, populate, ra_started, serving, group, ios, map, window, ra,
        reader, crashes>>
  BY SMT DEF WindowRedone
<1>2. /\ mt.pc \in {"write", "fsync", "commit_sync"}
      /\ OrderedAt(MtStart)
      /\ mt'.pc = "window"
      /\ mt'.next = mt.next - mt.done
      /\ mt'.idx = mt.idx
      /\ mt'.done = 0
      /\ mt'.async = FALSE
      /\ faults' \in [count : 0..MaxFaults, sites : SUBSET Marked]
      /\ faults'.count = faults.count + 1
      /\ "commit" \in faults.sites => "commit" \in faults'.sites
      /\ "timeout" \in faults.sites => "timeout" \in faults'.sites
      /\ mt.pc = "commit_sync" => "commit" \in faults'.sites
  <2>1. /\ mt.pc \in {"write", "fsync", "commit_sync"}
        /\ OrderedAt(MtStart)
    BY SMT DEF Inv, WindowRedone, TypeOK
  <2>2. /\ mt'.pc = "window"
        /\ mt'.next = mt.next - mt.done
        /\ mt'.idx = mt.idx
        /\ mt'.done = 0
        /\ mt'.async = FALSE
    BY SMT DEF Inv, WindowRedone, TypeOK, MergeType
  <2>3. /\ faults' \in [count : 0..MaxFaults, sites : SUBSET Marked]
        /\ faults'.count = faults.count + 1
        /\ "commit" \in faults.sites => "commit" \in faults'.sites
        /\ "timeout" \in faults.sites => "timeout" \in faults'.sites
        /\ mt.pc = "commit_sync" => "commit" \in faults'.sites
    BY SMT, FaultIs DEF Inv, WindowRedone, Marked
  <2> QED  BY <2>1, <2>2, <2>3
<1>3. TypeOK'
  <2>1. mt' \in MergeType
    <3>1. mt \in MergeType
      BY DEF Inv, TypeOK
    <3>2. mt' = [mt EXCEPT !.async = FALSE, !.pc = "window", !.next = mt.next - mt.done, !.done = 0]
      BY Numbers DEF WindowRedone
    <3>3. FALSE \in BOOLEAN
      BY SMT, <1>2, Numbers DEF Inv, TypeOK, Positions, MergeType, RaType
    <3>4. "window" \in MergeSteps
      BY SMT, <1>2, Numbers DEF MergeSteps, RaSteps
    <3>5. mt.next - mt.done \in Positions
      BY SMT, <1>2, Numbers DEF Inv, TypeOK, Positions, MergeType, RaType
    <3>6. 0 \in 0..Len(Ops)
      BY SMT, <1>2, Numbers DEF Inv, TypeOK, Positions, MergeType, RaType
    <3> QED  BY Zenon, <3>1, <3>2, <3>3, <3>4, <3>5, <3>6 DEF MergeType
  <2>2. faults' \in [count : 0..MaxFaults, sites : SUBSET Marked]
    BY <1>2
  <2> QED  BY <1>1, <2>1, <2>2 DEF Inv, TypeOK
<1>4. Fields /\ Fields' /\ Flags /\ Flags' /\ Cells /\ Cells'
  BY <1>3, FieldsTyped, FieldsTypedNext DEF Inv
<1>5. \A j : Group(j)' = Group(j)
  BY <1>1 DEF Group
<1>6. \A a, w : Saved(a, w)' <=> Saved(a, w)
  BY <1>1 DEF Saved
<1>7. \A a, w : Mapped(a, w)' <=> Mapped(a, w)
  BY <1>1 DEF Mapped
<1>8. \A j : Intact(j)' <=> Intact(j)
  BY <1>1 DEF Intact
<1>9. \A j : MergedUpTo(j)' <=> MergedUpTo(j)
  BY <1>1 DEF MergedUpTo
<1>10.
        Fetched' /\ ReadersServe' /\ IosCounted' /\ Drained' /\ MapReady' /\ SlotsTrue' /\ Vouched' /\ Recoverable' /\ RaSources' /\ ReadSources' /\ ResumedMapped'
  BY <1>1, FetchedFrame, ReadersServeFrame, IosCountedFrame, DrainedFrame, MapReadyFrame,
        SlotsTrueFrame, VouchedFrame, RecoverableFrame, RaSourcesFrame, ReadSourcesFrame,
        ResumedMappedFrame DEF Inv
<1>11. MtStart' = MtStart
  BY <1>2, <1>4
<1>12. WindowLoaded'
  BY SMT, <1>1, <1>2, <1>6, <1>7, <1>11 DEF Inv, WindowLoaded, Loaded
<1>13. MergeBusy'
  BY SMT, <1>1, <1>2, <1>11 DEF Inv, MergeBusy, DoneTrue, RaAlone, RaMayTake, GroupsTrue
<1>14. WindowMerged'
  BY SMT, <1>1, <1>2 DEF Inv, WindowMerged, DoneTrue, WindowLoaded, RaAlone
<1>15. DoneTrue'
  BY SMT, <1>1, <1>2, <1>4, <1>11, Numbers DEF Inv, DoneTrue, WindowLoaded, BatchTurn
<1>16. RaAlone'
  BY SMT, <1>1, <1>2, <1>11 DEF Inv, RaAlone, RaMayTake, DoneTrue, Fetched, Ended
<1>17. RaMayTake'
  BY SMT, <1>1, <1>2 DEF Inv, RaMayTake, WindowMerged, RaAlone, RaBegins, DoneTrue, Fetched,
        MergeBusy
<1>18. RaBegins'
  BY SMT, <1>1, <1>2 DEF Inv, RaBegins, RaAlone, Down, Flags
<1>19. RaCopies'
  BY SMT, <1>1, <1>2, <1>6 DEF Inv, RaCopies, RaMayTake, RaAlone, Fetched
<1>20. RaSyncs'
  BY SMT, <1>1, <1>2, <1>6, <1>7 DEF Inv, RaSyncs, RaAlone, RaCopies, Fetched
<1>21. Ended'
  BY SMT, <1>1, <1>2 DEF Inv, Ended, RaAlone, MergeBusy, Flags
<1>22. BatchTurn'
  BY SMT, <1>1, <1>2, <1>11 DEF Inv, BatchTurn, WindowMerged, DoneTrue, Fetched, RaAlone,
        WindowLoaded
<1>23. Down'
  BY SMT, <1>1, <1>2 DEF Inv, Down, Flags
<1>24. Aligned'
  <2>1. WindowsDone' = WindowsDone /\ MtStart' = MtStart
    BY SMTT(30), <1>1, <1>2, <1>4, <1>11, Numbers
  <2> QED  BY <2>1, <1>1, AlignedKept DEF Inv
<1>25. GroupsTrue'
  BY SMT, <1>1, <1>2, <1>11 DEF Inv, GroupsTrue
<1>26. Faultless'
  BY SMT, <1>1, <1>2, <1>4, Numbers DEF Inv, Faultless, RaAlone, GroupsTrue, MapReady
<1>27. CountedMerged'
  BY SMT, <1>1, <1>2, <1>9, <1>11 DEF Inv, CountedMerged
<1>28. SessionMerged'
  <2>1. mt.next \in Nat /\ mt.done \in Nat  BY <1>4
  <2>2. \A i \in Indices : i < mt'.next => i < mt.next  BY <1>2, <2>1, Numbers
  <2> QED  BY <1>1, <1>2, <2>2 DEF Inv, SessionMerged
<1>29. ResumedFirst'
  BY SMT, <1>1, <1>2 DEF Inv, ResumedFirst, RaAlone
<1>30. ResumedServed'
  BY SMT, <1>1, <1>2 DEF Inv, ResumedServed, Flags
<1>31. ReadsTrue'
  BY SMT, <1>1, <1>2, <1>5, <1>8, GroupsIn, OrderedIs DEF Inv, ReadsTrue, ReadersServe
<1> QED  BY <1>10, <1>3, <1>12, <1>13, <1>14, <1>15, <1>16, <1>17, <1>18, <1>19, <1>20, <1>21,
        <1>22, <1>23, <1>24, <1>25, <1>26, <1>27, <1>28, <1>29, <1>30, <1>31 DEF Inv

(* A window that fails blocks its readers; what was overwritten is in the scratch space. *)
LEMMA WindowFailsKeeps == ASSUME NEW site, Inv, WindowFails(site) PROVE Inv'
<1>1. UNCHANGED << base, stored, head, head_stored, scratch, scratch_stored, up, first,
        merge_initiated, resume_merge, populate, ra_started, serving, ios, map, window, ra, reader,
        crashes>>
  BY SMT DEF WindowFails
<1>2. /\ mt.pc \in {"write", "fsync", "commit_sync"}
      /\ OrderedAt(MtStart)
      /\ io_state' = "MERGE_FAILED"
      /\ group' \in [Indices -> GroupStates]
      /\ \A g \in Indices : group'[g] = IF g = mt.idx THEN "FAILED" ELSE group[g]
      /\ mt'.pc = "end"
      /\ mt'.next = mt.next
      /\ mt'.idx = mt.idx
      /\ mt'.done = mt.done
      /\ mt'.async = mt.async
      /\ faults' \in [count : 0..MaxFaults, sites : SUBSET Marked]
      /\ faults'.count = faults.count + 1
      /\ "commit" \in faults.sites => "commit" \in faults'.sites
      /\ "timeout" \in faults.sites => "timeout" \in faults'.sites
      /\ mt.pc = "commit_sync" => "commit" \in faults'.sites
  <2>1. /\ mt.pc \in {"write", "fsync", "commit_sync"}
        /\ OrderedAt(MtStart)
        /\ io_state' = "MERGE_FAILED"
    BY SMT DEF Inv, WindowFails, TypeOK
  <2>2. /\ group' \in [Indices -> GroupStates]
        /\ \A g \in Indices : group'[g] = IF g = mt.idx THEN "FAILED" ELSE group[g]
    <3>1. group' = [group EXCEPT ![mt.idx] = "FAILED"]  BY DEF WindowFails
    <3>2. "FAILED" \in GroupStates  BY DEF GroupStates
    <3> QED  BY Zenon, <3>1, <3>2, GroupSet DEF Inv
  <2>3. /\ mt'.pc = "end"
        /\ mt'.next = mt.next
        /\ mt'.idx = mt.idx
        /\ mt'.done = mt.done
        /\ mt'.async = mt.async
    BY SMT DEF Inv, WindowFails, TypeOK, MergeType
  <2>4. /\ faults' \in [count : 0..MaxFaults, sites : SUBSET Marked]
        /\ faults'.count = faults.count + 1
        /\ "commit" \in faults.sites => "commit" \in faults'.sites
        /\ "timeout" \in faults.sites => "timeout" \in faults'.sites
        /\ mt.pc = "commit_sync" => "commit" \in faults'.sites
    BY SMT, FaultIs DEF Inv, WindowFails, Marked
  <2> QED  BY <2>1, <2>2, <2>3, <2>4
<1>3. TypeOK'
  <2>1. io_state' \in IoStates
    BY SMT, <1>2, Numbers, OpsTyped DEF Inv, TypeOK, WindowFails, IoStates
  <2>2. group' \in [Indices -> GroupStates]
    BY <1>2
  <2>3. mt' \in MergeType
    <3>1. mt \in MergeType
      BY DEF Inv, TypeOK
    <3>2. mt' = [mt EXCEPT !.pc = "end"]
      BY Numbers DEF WindowFails
    <3>3. "end" \in MergeSteps
      BY SMT, <1>2, Numbers DEF MergeSteps, RaSteps
    <3> QED  BY Zenon, <3>1, <3>2, <3>3 DEF MergeType
  <2>4. faults' \in [count : 0..MaxFaults, sites : SUBSET Marked]
    BY <1>2
  <2> QED  BY <1>1, <2>1, <2>2, <2>3, <2>4 DEF Inv, TypeOK
<1>4. Fields /\ Fields' /\ Flags /\ Flags' /\ Cells /\ Cells'
  BY <1>3, FieldsTyped, FieldsTypedNext DEF Inv
<1>5. \A j : Group(j)' = Group(j)
  BY <1>1 DEF Group
<1>6. \A j \in OrderedOps(first) : /\ Group(j) \in Indices
                              /\ group'[Group(j)'] = IF Group(j) = mt.idx THEN "FAILED" ELSE group[Group(j)]
  BY <1>2, <1>5, GroupsIn
<1>7. \A a, w : Saved(a, w)' <=> Saved(a, w)
  BY <1>1 DEF Saved
<1>8. \A a, w : Mapped(a, w)' <=> Mapped(a, w)
  BY <1>1 DEF Mapped
<1>9. \A j : Intact(j)' <=> Intact(j)
  BY <1>1 DEF Intact
<1>10. \A j : MergedUpTo(j)' <=> MergedUpTo(j)
  BY <1>1 DEF MergedUpTo
<1>11. Fetched' /\ ReadersServe' /\ IosCounted' /\ SlotsTrue' /\ Vouched' /\ Recoverable' /\ RaSources'
  BY <1>1, FetchedFrame, ReadersServeFrame, IosCountedFrame, SlotsTrueFrame, VouchedFrame,
        RecoverableFrame, RaSourcesFrame DEF Inv
<1>12. WindowLoaded'
  BY SMT, <1>1, <1>2, <1>7, <1>8 DEF Inv, WindowLoaded, Loaded
<1>13. MergeBusy'
  BY SMT, <1>1, <1>2 DEF Inv, MergeBusy, DoneTrue, RaAlone, RaMayTake, GroupsTrue
<1>14. WindowMerged'
  BY SMT, <1>1, <1>2 DEF Inv, WindowMerged, DoneTrue, WindowLoaded, RaAlone
<1>15. DoneTrue'
  BY SMT, <1>1, <1>2 DEF Inv, DoneTrue, WindowLoaded, BatchTurn
<1>16. RaAlone'
  BY SMT, <1>1, <1>2 DEF Inv, RaAlone, RaMayTake, DoneTrue, Fetched, Ended
<1>17. RaMayTake'
  BY SMT, <1>1, <1>2 DEF Inv, RaMayTake, WindowMerged, RaAlone, RaBegins, DoneTrue, Fetched,
        MergeBusy
<1>18. RaBegins'
  BY SMT, <1>1, <1>2 DEF Inv, RaBegins, RaAlone, Down, Flags
<1>19. RaCopies'
  BY SMT, <1>1, <1>2, <1>7 DEF Inv, RaCopies, RaMayTake, RaAlone, Fetched
<1>20. RaSyncs'
  BY SMT, <1>1, <1>2, <1>7, <1>8 DEF Inv, RaSyncs, RaAlone, RaCopies, Fetched
<1>21. Ended'
  BY SMT, <1>1, <1>2 DEF Inv, Ended, RaAlone, MergeBusy, Flags
<1>22. BatchTurn'
  BY SMT, <1>1, <1>2 DEF Inv, BatchTurn, WindowMerged, DoneTrue, Fetched, RaAlone, WindowLoaded
<1>23. Down'
  BY SMT, <1>1, <1>2 DEF Inv, Down, Flags
<1>24. Aligned'
  <2>1. WindowsDone' = WindowsDone /\ MtStart' = MtStart
    BY SMT, <1>1, <1>2, <1>4, Numbers
  <2> QED  BY <2>1, <1>1, AlignedKept DEF Inv
<1>25. GroupsTrue'
  BY SMT, <1>1, <1>2 DEF Inv, GroupsTrue
<1>26. Drained'
  BY SMT, <1>1, <1>2, <1>5, <1>6 DEF Inv, Drained, GroupsTrue, ReadersServe
<1>27. MapReady'
  BY SMT, <1>1, <1>2, <1>5, <1>6 DEF Inv, MapReady, Cells
<1>28. Faultless'
  BY SMT, <1>1, <1>2, <1>4, Numbers DEF Inv, Faultless, RaAlone, GroupsTrue, MapReady
<1>29. CountedMerged'
  BY SMT, <1>1, <1>2, <1>10 DEF Inv, CountedMerged
<1>30. SessionMerged'
  BY SMT, <1>1, <1>2 DEF Inv, SessionMerged, DoneTrue
<1>31. ReadSources'
  BY SMT, <1>1, <1>2, <1>5, <1>6, <1>9 DEF Inv, ReadSources, GroupsTrue, WindowLoaded
<1>32. ResumedFirst'
  BY SMT, <1>1, <1>2 DEF Inv, ResumedFirst, RaAlone
<1>33. ResumedMapped'
  BY SMT, <1>1, <1>2, <1>5, <1>6 DEF Inv, ResumedMapped, ResumedFirst, GroupsTrue
<1>34. ResumedServed'
  BY SMT, <1>1, <1>2 DEF Inv, ResumedServed, Flags
<1>35. ReadsTrue'
  BY SMT, <1>1, <1>2, <1>5, <1>6, <1>9, GroupsIn, OrderedIs DEF Inv, ReadsTrue, ReadersServe
<1> QED  BY <1>11, <1>3, <1>12, <1>13, <1>14, <1>15, <1>16, <1>17, <1>18, <1>19, <1>20, <1>21,
        <1>22, <1>23, <1>24, <1>25, <1>26, <1>27, <1>28, <1>29, <1>30, <1>31, <1>32, <1>33, <1>34,
        <1>35 DEF Inv

(* A batch that fails leaves no ordered operation behind. *)
LEMMA BatchFailsKeeps == ASSUME NEW site, Inv, BatchFails(site) PROVE Inv'
<1>1. UNCHANGED << base, stored, head, head_stored, scratch, scratch_stored, up, first,
        merge_initiated, resume_merge, populate, ra_started, serving, group, ios, map, window, ra,
        reader, crashes>>
  BY SMT DEF BatchFails
<1>2. /\ mt.pc \in {"replace", "flush", "commit_sync"}
      /\ ~OrderedAt(MtStart)
      /\ io_state' = "MERGE_FAILED"
      /\ mt'.pc = "end"
      /\ mt'.next = mt.next
      /\ mt'.idx = mt.idx
      /\ mt'.done = mt.done
      /\ mt'.async = mt.async
      /\ faults' \in [count : 0..MaxFaults, sites : SUBSET Marked]
      /\ faults'.count = faults.count + 1
      /\ "commit" \in faults.sites => "commit" \in faults'.sites
      /\ "timeout" \in faults.sites => "timeout" \in faults'.sites
      /\ mt.pc = "commit_sync" => "commit" \in faults'.sites
  <2>1. /\ mt.pc \in {"replace", "flush", "commit_sync"}
        /\ ~OrderedAt(MtStart)
        /\ io_state' = "MERGE_FAILED"
    BY SMT DEF Inv, BatchFails, TypeOK
  <2>2. /\ mt'.pc = "end"
        /\ mt'.next = mt.next
        /\ mt'.idx = mt.idx
        /\ mt'.done = mt.done
        /\ mt'.async = mt.async
    BY SMT DEF Inv, BatchFails, TypeOK, MergeType
  <2>3. /\ faults' \in [count : 0..MaxFaults, sites : SUBSET Marked]
        /\ faults'.count = faults.count + 1
        /\ "commit" \in faults.sites => "commit" \in faults'.sites
        /\ "timeout" \in faults.sites => "timeout" \in faults'.sites
        /\ mt.pc = "commit_sync" => "commit" \in faults'.sites
    BY SMT, FaultIs DEF Inv, BatchFails, Marked
  <2> QED  BY <2>1, <2>2, <2>3
<1>3. TypeOK'
  <2>1. io_state' \in IoStates
    BY SMT, <1>2, Numbers, OpsTyped DEF Inv, TypeOK, BatchFails, IoStates
  <2>2. mt' \in MergeType
    <3>1. mt \in MergeType
      BY DEF Inv, TypeOK
    <3>2. mt' = [mt EXCEPT !.pc = "end"]
      BY Numbers DEF BatchFails
    <3>3. "end" \in MergeSteps
      BY SMT, <1>2, Numbers DEF MergeSteps, RaSteps
    <3> QED  BY Zenon, <3>1, <3>2, <3>3 DEF MergeType
  <2>3. faults' \in [count : 0..MaxFaults, sites : SUBSET Marked]
    BY <1>2
  <2> QED  BY <1>1, <2>1, <2>2, <2>3 DEF Inv, TypeOK
<1>4. Fields /\ Fields' /\ Flags /\ Flags' /\ Cells /\ Cells'
  BY <1>3, FieldsTyped, FieldsTypedNext DEF Inv
<1>5. \A j : Group(j)' = Group(j)
  BY <1>1 DEF Group
<1>6. \A a, w : Saved(a, w)' <=> Saved(a, w)
  BY <1>1 DEF Saved
<1>7. \A a, w : Mapped(a, w)' <=> Mapped(a, w)
  BY <1>1 DEF Mapped
<1>8. \A j : Intact(j)' <=> Intact(j)
  BY <1>1 DEF Intact
<1>9. \A j : MergedUpTo(j)' <=> MergedUpTo(j)
  BY <1>1 DEF MergedUpTo
<1>10.
        Fetched' /\ ReadersServe' /\ IosCounted' /\ Drained' /\ MapReady' /\ SlotsTrue' /\ Vouched' /\ Recoverable' /\ RaSources' /\ ReadSources' /\ ResumedMapped'
  BY <1>1, FetchedFrame, ReadersServeFrame, IosCountedFrame, DrainedFrame, MapReadyFrame,
        SlotsTrueFrame, VouchedFrame, RecoverableFrame, RaSourcesFrame, ReadSourcesFrame,
        ResumedMappedFrame DEF Inv
<1>11. WindowLoaded'
  BY SMT, <1>1, <1>2, <1>6, <1>7 DEF Inv, WindowLoaded, Loaded
<1>12. MergeBusy'
  BY SMT, <1>1, <1>2 DEF Inv, MergeBusy, DoneTrue, RaAlone, RaMayTake, GroupsTrue
<1>13. WindowMerged'
  BY SMT, <1>1, <1>2 DEF Inv, WindowMerged, DoneTrue, WindowLoaded, RaAlone
<1>14. DoneTrue'
  BY SMT, <1>1, <1>2 DEF Inv, DoneTrue, WindowLoaded, BatchTurn
<1>15. RaAlone'
  BY SMT, <1>1, <1>2 DEF Inv, RaAlone, RaMayTake, DoneTrue, Fetched, Ended
<1>16. RaMayTake'
  BY SMT, <1>1, <1>2 DEF Inv, RaMayTake, WindowMerged, RaAlone, RaBegins, DoneTrue, Fetched,
        MergeBusy
<1>17. RaBegins'
  BY SMT, <1>1, <1>2 DEF Inv, RaBegins, RaAlone, Down, Flags
<1>18. RaCopies'
  BY SMT, <1>1, <1>2, <1>6 DEF Inv, RaCopies, RaMayTake, RaAlone, Fetched
<1>19. RaSyncs'
  BY SMT, <1>1, <1>2, <1>6, <1>7 DEF Inv, RaSyncs, RaAlone, RaCopies, Fetched
<1>20. Ended'
  BY SMT, <1>1, <1>2 DEF Inv, Ended, RaAlone, MergeBusy, Flags
<1>21. BatchTurn'
  BY SMT, <1>1, <1>2 DEF Inv, BatchTurn, WindowMerged, DoneTrue, Fetched, RaAlone, WindowLoaded
<1>22. Down'
  BY SMT, <1>1, <1>2 DEF Inv, Down, Flags
<1>23. Aligned'
  <2>1. WindowsDone' = WindowsDone /\ MtStart' = MtStart
    BY SMTT(30), <1>1, <1>2, <1>4, Numbers
  <2> QED  BY <2>1, <1>1, AlignedKept DEF Inv
<1>24. GroupsTrue'
  BY SMT, <1>1, <1>2 DEF Inv, GroupsTrue
<1>25. Faultless'
  BY SMT, <1>1, <1>2, <1>4, Numbers DEF Inv, Faultless, RaAlone, GroupsTrue, MapReady
<1>26. CountedMerged'
  BY SMT, <1>1, <1>2, <1>9 DEF Inv, CountedMerged
<1>27. SessionMerged'
  BY SMT, <1>1, <1>2 DEF Inv, SessionMerged, DoneTrue
<1>28. ResumedFirst'
  BY SMT, <1>1, <1>2 DEF Inv, ResumedFirst, RaAlone
<1>29. ResumedServed'
  BY SMT, <1>1, <1>2 DEF Inv, ResumedServed, Flags
<1>30. ReadsTrue'
  BY SMT, <1>1, <1>2, <1>5, <1>8, GroupsIn, OrderedIs DEF Inv, ReadsTrue, ReadersServe
<1> QED  BY <1>10, <1>3, <1>11, <1>12, <1>13, <1>14, <1>15, <1>16, <1>17, <1>18, <1>19, <1>20,
        <1>21, <1>22, <1>23, <1>24, <1>25, <1>26, <1>27, <1>28, <1>29, <1>30 DEF Inv

(* A merge thread that cannot open its devices fails before it has touched a window. *)
LEMMA NotOpenedKeeps == ASSUME Inv, NotOpened PROVE Inv'
<1>1. UNCHANGED << base, stored, head, head_stored, scratch, scratch_stored, up, first,
        merge_initiated, resume_merge, populate, ra_started, serving, group, ios, map, window, ra,
        reader, crashes>>
  BY SMT DEF NotOpened
<1>2. /\ mt.pc = "begin" /\ merge_initiated
      /\ io_state = "MERGE_BEGIN"
      /\ io_state' = "MERGE_FAILED"
      /\ mt'.pc = "end"
      /\ mt'.next = mt.next
      /\ mt'.idx = mt.idx
      /\ mt'.done = mt.done
      /\ mt'.async = mt.async
      /\ faults' \in [count : 0..MaxFaults, sites : SUBSET Marked]
      /\ faults'.count = faults.count + 1
      /\ "commit" \in faults.sites => "commit" \in faults'.sites
      /\ "timeout" \in faults.sites => "timeout" \in faults'.sites
  <2>1. /\ mt.pc = "begin" /\ merge_initiated
        /\ io_state = "MERGE_BEGIN"
        /\ io_state' = "MERGE_FAILED"
    BY SMT DEF Inv, NotOpened, MergeBegins, TypeOK
  <2>2. /\ mt'.pc = "end"
        /\ mt'.next = mt.next
        /\ mt'.idx = mt.idx
        /\ mt'.done = mt.done
        /\ mt'.async = mt.async
    BY SMT DEF Inv, NotOpened, TypeOK, MergeType
  <2>3. /\ faults' \in [count : 0..MaxFaults, sites : SUBSET Marked]
        /\ faults'.count = faults.count + 1
        /\ "commit" \in faults.sites => "commit" \in faults'.sites
        /\ "timeout" \in faults.sites => "timeout" \in faults'.sites
    BY SMT, FaultIs DEF Inv, NotOpened, Marked
  <2> QED  BY <2>1, <2>2, <2>3
<1>3. TypeOK'
  <2>1. io_state' \in IoStates
    BY SMT, <1>2, Numbers, OpsTyped DEF Inv, TypeOK, NotOpened, IoStates
  <2>2. mt' \in MergeType
    <3>1. mt \in MergeType
      BY DEF Inv, TypeOK
    <3>2. mt' = [mt EXCEPT !.pc = "end"]
      BY Numbers DEF NotOpened
    <3>3. "end" \in MergeSteps
      BY SMT, <1>2, Numbers DEF MergeSteps, RaSteps
    <3> QED  BY Zenon, <3>1, <3>2, <3>3 DEF MergeType
  <2>3. faults' \in [count : 0..MaxFaults, sites : SUBSET Marked]
    BY <1>2
  <2> QED  BY <1>1, <2>1, <2>2, <2>3 DEF Inv, TypeOK
<1>4. Fields /\ Fields' /\ Flags /\ Flags' /\ Cells /\ Cells'
  BY <1>3, FieldsTyped, FieldsTypedNext DEF Inv
<1>5. \A j : Group(j)' = Group(j)
  BY <1>1 DEF Group
<1>6. \A a, w : Saved(a, w)' <=> Saved(a, w)
  BY <1>1 DEF Saved
<1>7. \A a, w : Mapped(a, w)' <=> Mapped(a, w)
  BY <1>1 DEF Mapped
<1>8. \A j : Intact(j)' <=> Intact(j)
  BY <1>1 DEF Intact
<1>9. \A j : MergedUpTo(j)' <=> MergedUpTo(j)
  BY <1>1 DEF MergedUpTo
<1>10.
        Fetched' /\ ReadersServe' /\ IosCounted' /\ Drained' /\ MapReady' /\ SlotsTrue' /\ Vouched' /\ Recoverable' /\ RaSources' /\ ReadSources' /\ ResumedMapped'
  BY <1>1, FetchedFrame, ReadersServeFrame, IosCountedFrame, DrainedFrame, MapReadyFrame,
        SlotsTrueFrame, VouchedFrame, RecoverableFrame, RaSourcesFrame, ReadSourcesFrame,
        ResumedMappedFrame DEF Inv
<1>11. WindowLoaded'
  BY SMT, <1>1, <1>2, <1>6, <1>7 DEF Inv, WindowLoaded, Loaded
<1>12. MergeBusy'
  BY SMT, <1>1, <1>2 DEF Inv, MergeBusy, DoneTrue, RaAlone, RaMayTake, GroupsTrue
<1>13. WindowMerged'
  BY SMT, <1>1, <1>2 DEF Inv, WindowMerged, DoneTrue, WindowLoaded, RaAlone
<1>14. DoneTrue'
  BY SMT, <1>1, <1>2 DEF Inv, DoneTrue, WindowLoaded, BatchTurn
<1>15. RaAlone'
  BY SMT, <1>1, <1>2 DEF Inv, RaAlone, RaMayTake, DoneTrue, Fetched, Ended
<1>16. RaMayTake'
  BY SMT, <1>1, <1>2 DEF Inv, RaMayTake, WindowMerged, RaAlone, RaBegins, DoneTrue, Fetched,
        MergeBusy
<1>17. RaBegins'
  BY SMT, <1>1, <1>2 DEF Inv, RaBegins, RaAlone, Down, Flags
<1>18. RaCopies'
  BY SMT, <1>1, <1>2, <1>6 DEF Inv, RaCopies, RaMayTake, RaAlone, Fetched
<1>19. RaSyncs'
  BY SMT, <1>1, <1>2, <1>6, <1>7 DEF Inv, RaSyncs, RaAlone, RaCopies, Fetched
<1>20. Ended'
  BY SMT, <1>1, <1>2 DEF Inv, Ended, RaAlone, MergeBusy, Flags
<1>21. BatchTurn'
  BY SMT, <1>1, <1>2 DEF Inv, BatchTurn, WindowMerged, DoneTrue, Fetched, RaAlone, WindowLoaded
<1>22. Down'
  BY SMT, <1>1, <1>2 DEF Inv, Down, Flags
<1>23. Aligned'
  <2>1. WindowsDone' = WindowsDone /\ MtStart' = MtStart
    BY SMTT(30), <1>1, <1>2, <1>4, Numbers
  <2> QED  BY <2>1, <1>1, AlignedKept DEF Inv
<1>24. GroupsTrue'
  BY SMT, <1>1, <1>2 DEF Inv, GroupsTrue
<1>25. Faultless'
  BY SMT, <1>1, <1>2, <1>4, Numbers DEF Inv, Faultless, RaAlone, GroupsTrue, MapReady
<1>26. CountedMerged'
  BY SMT, <1>1, <1>2, <1>9 DEF Inv, CountedMerged
<1>27. SessionMerged'
  BY SMT, <1>1, <1>2 DEF Inv, SessionMerged, DoneTrue
<1>28. ResumedFirst'
  BY SMT, <1>1, <1>2 DEF Inv, ResumedFirst, RaAlone
<1>29. ResumedServed'
  BY SMT, <1>1, <1>2 DEF Inv, ResumedServed, Flags
<1>30. ReadsTrue'
  BY SMT, <1>1, <1>2, <1>5, <1>8, GroupsIn, OrderedIs DEF Inv, ReadsTrue, ReadersServe
<1> QED  BY <1>10, <1>3, <1>11, <1>12, <1>13, <1>14, <1>15, <1>16, <1>17, <1>18, <1>19, <1>20,
        <1>21, <1>22, <1>23, <1>24, <1>25, <1>26, <1>27, <1>28, <1>29, <1>30 DEF Inv

(* The merge thread begins only when it was asked to and the first window is loaded. *)
LEMMA MergeBeginKeeps == ASSUME Inv, MergeBegin PROVE Inv'
<1>0. CASE NotOpened
  BY <1>0, NotOpenedKeeps
<1>1. CASE IsMergeBeginError /\ mt' = [mt EXCEPT !.pc = "end"] /\ UNCHANGED <<io_state, faults>>
  <2>1. UNCHANGED << base, stored, head, head_stored, scratch, scratch_stored, up, first, io_state,
        merge_initiated, resume_merge, populate, ra_started, serving, group, ios, map, window, ra,
        reader, crashes, faults>>
    BY SMT, <1>1 DEF MergeBegin
  <2>2. /\ mt.pc = "begin"
        /\ io_state \in {"READ_AHEAD_FAILURE", "IO_TERMINATED"}
        /\ mt'.pc = "end"
        /\ mt'.next = mt.next
        /\ mt'.idx = mt.idx
        /\ mt'.done = mt.done
        /\ mt'.async = mt.async
    <3>1. /\ mt.pc = "begin"
          /\ io_state \in {"READ_AHEAD_FAILURE", "IO_TERMINATED"}
      BY SMT, <1>1 DEF Inv, MergeBegin, TypeOK
    <3>2. /\ mt'.pc = "end"
          /\ mt'.next = mt.next
          /\ mt'.idx = mt.idx
          /\ mt'.done = mt.done
          /\ mt'.async = mt.async
      BY SMT, <1>1 DEF Inv, MergeBegin, TypeOK, MergeType
    <3> QED  BY <3>1, <3>2
  <2>3. TypeOK'
    <3>1. mt' \in MergeType
      <4>1. mt \in MergeType
        BY DEF Inv, TypeOK
      <4>2. mt' = [mt EXCEPT !.pc = "end"]
        BY <1>1, Numbers DEF MergeBegin
      <4>3. "end" \in MergeSteps
        BY SMT, <1>1, <2>2, Numbers DEF MergeSteps, RaSteps
      <4> QED  BY Zenon, <4>1, <4>2, <4>3 DEF MergeType
    <3> QED  BY <2>1, <3>1 DEF Inv, TypeOK
  <2>4. Fields /\ Fields' /\ Flags /\ Flags' /\ Cells /\ Cells'
    BY <2>3, FieldsTyped, FieldsTypedNext DEF Inv
  <2>5. \A j : Group(j)' = Group(j)
    BY <2>1 DEF Group
  <2>6. \A a, w : Saved(a, w)' <=> Saved(a, w)
    BY <2>1 DEF Saved
  <2>7. \A a, w : Mapped(a, w)' <=> Mapped(a, w)
    BY <2>1 DEF Mapped
  <2>8. \A j : Intact(j)' <=> Intact(j)
    BY <2>1 DEF Intact
  <2>9. \A j : MergedUpTo(j)' <=> MergedUpTo(j)
    BY <2>1 DEF MergedUpTo
  <2>10.
        Fetched' /\ ReadersServe' /\ IosCounted' /\ Drained' /\ MapReady' /\ SlotsTrue' /\ Vouched' /\ Recoverable' /\ RaSources' /\ ReadSources' /\ ResumedMapped' /\ ResumedServed' /\ ReadsTrue'
    BY <2>1, FetchedFrame, ReadersServeFrame, IosCountedFrame, DrainedFrame, MapReadyFrame,
        SlotsTrueFrame, VouchedFrame, RecoverableFrame, RaSourcesFrame, ReadSourcesFrame,
        ResumedMappedFrame, ResumedServedFrame, ReadsTrueFrame DEF Inv
  <2>11. WindowLoaded'
    BY SMT, <2>1, <2>2, <2>6, <2>7 DEF Inv, WindowLoaded, Loaded
  <2>12. MergeBusy'
    BY SMT, <2>1, <2>2 DEF Inv, MergeBusy, DoneTrue, RaAlone, RaMayTake, GroupsTrue
  <2>13. WindowMerged'
    BY SMT, <2>1, <2>2 DEF Inv, WindowMerged, DoneTrue, WindowLoaded, RaAlone
  <2>14. DoneTrue'
    BY SMT, <2>1, <2>2 DEF Inv, DoneTrue, WindowLoaded, BatchTurn
  <2>15. RaAlone'
    BY SMT, <2>1, <2>2 DEF Inv, RaAlone, RaMayTake, DoneTrue, Fetched, Ended
  <2>16. RaMayTake'
    BY SMT, <2>1, <2>2 DEF Inv, RaMayTake, WindowMerged, RaAlone, RaBegins, DoneTrue, Fetched,
        MergeBusy
  <2>17. RaBegins'
    BY SMT, <2>1, <2>2 DEF Inv, RaBegins, RaAlone, Down, Flags
  <2>18. RaCopies'
    BY SMT, <2>1, <2>2, <2>6 DEF Inv, RaCopies, RaMayTake, RaAlone, Fetched
  <2>19. RaSyncs'
    BY SMT, <2>1, <2>2, <2>6, <2>7 DEF Inv, RaSyncs, RaAlone, RaCopies, Fetched
  <2>20. Ended'
    BY SMT, <2>1, <2>2 DEF Inv, Ended, RaAlone, MergeBusy, Flags
  <2>21. BatchTurn'
    BY SMT, <2>1, <2>2 DEF Inv, BatchTurn, WindowMerged, DoneTrue, Fetched, RaAlone, WindowLoaded
  <2>22. Down'
    BY SMT, <2>1, <2>2 DEF Inv, Down, Flags
  <2>23. Aligned'
    <3>1. WindowsDone' = WindowsDone /\ MtStart' = MtStart
      BY SMT, <2>1, <2>2, <2>4, Numbers
    <3> QED  BY <3>1, <2>1, AlignedKept DEF Inv
  <2>24. GroupsTrue'
    BY SMT, <2>1, <2>2 DEF Inv, GroupsTrue
  <2>25. Faultless'
    BY SMT, <2>1, <2>2 DEF Inv, Faultless, RaAlone, GroupsTrue, MapReady
  <2>26. CountedMerged'
    BY SMT, <2>1, <2>2, <2>9 DEF Inv, CountedMerged
  <2>27. SessionMerged'
    BY SMT, <2>1, <2>2 DEF Inv, SessionMerged, DoneTrue
  <2>28. ResumedFirst'
    BY SMT, <2>1, <2>2 DEF Inv, ResumedFirst, RaAlone
  <2> QED  BY <2>10, <2>3, <2>11, <2>12, <2>13, <2>14, <2>15, <2>16, <2>17, <2>18, <2>19, <2>20,
        <2>21, <2>22, <2>23, <2>24, <2>25, <2>26, <2>27, <2>28 DEF Inv
<1>2. CASE MergeBegins /\ mt' = [mt EXCEPT !.pc = "window"] /\ UNCHANGED <<io_state, faults>>
  <2>1. UNCHANGED << base, stored, head, head_stored, scratch, scratch_stored, up, first, io_state,
        merge_initiated, resume_merge, populate, ra_started, serving, group, ios, map, window, ra,
        reader, crashes, faults>>
    BY SMT, <1>2 DEF MergeBegin
  <2>2. /\ mt.pc = "begin"
        /\ merge_initiated
        /\ io_state = "MERGE_BEGIN"
        /\ mt'.pc = "window"
        /\ mt'.next = mt.next
        /\ mt'.idx = mt.idx
        /\ mt'.done = mt.done
        /\ mt'.async = mt.async
    <3>1. /\ mt.pc = "begin"
          /\ merge_initiated
          /\ io_state = "MERGE_BEGIN"
      BY SMT, <1>2 DEF Inv, MergeBegin, TypeOK
    <3>2. /\ mt'.pc = "window"
          /\ mt'.next = mt.next
          /\ mt'.idx = mt.idx
          /\ mt'.done = mt.done
          /\ mt'.async = mt.async
      BY SMT, <1>2 DEF Inv, MergeBegin, TypeOK, MergeType
    <3> QED  BY <3>1, <3>2
  <2>3. TypeOK'
    <3>1. mt' \in MergeType
      <4>1. mt \in MergeType
        BY DEF Inv, TypeOK
      <4>2. mt' = [mt EXCEPT !.pc = "window"]
        BY <1>2, Numbers DEF MergeBegin
      <4>3. "window" \in MergeSteps
        BY SMT, <1>2, <2>2, Numbers DEF MergeSteps, RaSteps
      <4> QED  BY Zenon, <4>1, <4>2, <4>3 DEF MergeType
    <3> QED  BY <2>1, <3>1 DEF Inv, TypeOK
  <2>4. Fields /\ Fields' /\ Flags /\ Flags' /\ Cells /\ Cells'
    BY <2>3, FieldsTyped, FieldsTypedNext DEF Inv
  <2>5. \A j : Group(j)' = Group(j)
    BY <2>1 DEF Group
  <2>6. \A a, w : Saved(a, w)' <=> Saved(a, w)
    BY <2>1 DEF Saved
  <2>7. \A a, w : Mapped(a, w)' <=> Mapped(a, w)
    BY <2>1 DEF Mapped
  <2>8. \A j : Intact(j)' <=> Intact(j)
    BY <2>1 DEF Intact
  <2>9. \A j : MergedUpTo(j)' <=> MergedUpTo(j)
    BY <2>1 DEF MergedUpTo
  <2>10.
        Fetched' /\ ReadersServe' /\ IosCounted' /\ Drained' /\ MapReady' /\ SlotsTrue' /\ Vouched' /\ Recoverable' /\ RaSources' /\ ReadSources' /\ ResumedMapped' /\ ResumedServed' /\ ReadsTrue'
    BY <2>1, FetchedFrame, ReadersServeFrame, IosCountedFrame, DrainedFrame, MapReadyFrame,
        SlotsTrueFrame, VouchedFrame, RecoverableFrame, RaSourcesFrame, ReadSourcesFrame,
        ResumedMappedFrame, ResumedServedFrame, ReadsTrueFrame DEF Inv
  <2>11. WindowLoaded'
    BY SMT, <2>1, <2>2, <2>6, <2>7 DEF Inv, WindowLoaded, Loaded
  <2>12. MergeBusy'
    BY SMT, <2>1, <2>2 DEF Inv, MergeBusy, DoneTrue, RaAlone, RaMayTake, GroupsTrue
  <2>13. WindowMerged'
    BY SMT, <2>1, <2>2 DEF Inv, WindowMerged, DoneTrue, WindowLoaded, RaAlone
  <2>14. DoneTrue'
    BY SMT, <2>1, <2>2 DEF Inv, DoneTrue, WindowLoaded, BatchTurn
  <2>15. RaAlone'
    BY SMT, <2>1, <2>2 DEF Inv, RaAlone, RaMayTake, DoneTrue, Fetched, Ended
  <2>16. RaMayTake'
    BY SMT, <2>1, <2>2 DEF Inv, RaMayTake, WindowMerged, RaAlone, RaBegins, DoneTrue, Fetched,
        MergeBusy
  <2>17. RaBegins'
    BY SMT, <2>1, <2>2 DEF Inv, RaBegins, RaAlone, Down, Flags
  <2>18. RaCopies'
    BY SMT, <2>1, <2>2, <2>6 DEF Inv, RaCopies, RaMayTake, RaAlone, Fetched
  <2>19. RaSyncs'
    BY SMT, <2>1, <2>2, <2>6, <2>7 DEF Inv, RaSyncs, RaAlone, RaCopies, Fetched
  <2>20. Ended'
    BY SMT, <2>1, <2>2 DEF Inv, Ended, RaAlone, MergeBusy, Flags
  <2>21. BatchTurn'
    BY SMT, <2>1, <2>2 DEF Inv, BatchTurn, WindowMerged, DoneTrue, Fetched, RaAlone, WindowLoaded
  <2>22. Down'
    BY SMT, <2>1, <2>2 DEF Inv, Down, Flags
  <2>23. Aligned'
    <3>1. WindowsDone' = WindowsDone /\ MtStart' = MtStart
      BY SMT, <2>1, <2>2, <2>4, Numbers
    <3> QED  BY <3>1, <2>1, AlignedKept DEF Inv
  <2>24. GroupsTrue'
    BY SMT, <2>1, <2>2 DEF Inv, GroupsTrue
  <2>25. Faultless'
    BY SMT, <2>1, <2>2 DEF Inv, Faultless, RaAlone, GroupsTrue, MapReady
  <2>26. CountedMerged'
    BY SMT, <2>1, <2>2, <2>9 DEF Inv, CountedMerged
  <2>27. SessionMerged'
    BY SMT, <2>1, <2>2 DEF Inv, SessionMerged, DoneTrue
  <2>28. ResumedFirst'
    BY SMT, <2>1, <2>2 DEF Inv, ResumedFirst, RaAlone
  <2> QED  BY <2>10, <2>3, <2>11, <2>12, <2>13, <2>14, <2>15, <2>16, <2>17, <2>18, <2>19, <2>20,
        <2>21, <2>22, <2>23, <2>24, <2>25, <2>26, <2>27, <2>28 DEF Inv
<1> QED  BY <1>0, <1>1, <1>2 DEF MergeBegin, NotOpened, NoFault

(* A window is announced to the readers when it is in the buffer. *)
LEMMA MergeWindowKeeps == ASSUME Inv, MergeWindow PROVE Inv'
<1>1. CASE /\ IsMergeBeginError
           /\ mt' = [mt EXCEPT !.pc = "end"]
           /\ io_state' = "MERGE_FAILED"
           /\ group' = [group EXCEPT ![mt.idx] = "FAILED"]
  <2>1. UNCHANGED << base, stored, head, head_stored, scratch, scratch_stored, up, first,
        merge_initiated, resume_merge, populate, ra_started, serving, ios, map, window, ra, reader,
        crashes, faults>>
    BY SMT, <1>1 DEF MergeWindow
  <2>2. /\ mt.pc = "window"
        /\ OrderedAt(mt.next)
        /\ io_state \in {"READ_AHEAD_FAILURE", "IO_TERMINATED"}
        /\ io_state' = "MERGE_FAILED"
        /\ group' \in [Indices -> GroupStates]
        /\ \A g \in Indices : group'[g] = IF g = mt.idx THEN "FAILED" ELSE group[g]
        /\ mt'.pc = "end"
        /\ mt'.next = mt.next
        /\ mt'.idx = mt.idx
        /\ mt'.done = mt.done
        /\ mt'.async = mt.async
    <3>1. /\ mt.pc = "window"
          /\ OrderedAt(mt.next)
          /\ io_state \in {"READ_AHEAD_FAILURE", "IO_TERMINATED"}
          /\ io_state' = "MERGE_FAILED"
      BY SMT, <1>1 DEF Inv, MergeWindow, TypeOK
    <3>2. /\ group' \in [Indices -> GroupStates]
          /\ \A g \in Indices : group'[g] = IF g = mt.idx THEN "FAILED" ELSE group[g]
      <4>1. group' = [group EXCEPT ![mt.idx] = "FAILED"]  BY <1>1 DEF MergeWindow
      <4>2. "FAILED" \in GroupStates  BY DEF GroupStates
      <4> QED  BY Zenon, <4>1, <4>2, GroupSet DEF Inv
    <3>3. /\ mt'.pc = "end"
          /\ mt'.next = mt.next
          /\ mt'.idx = mt.idx
          /\ mt'.done = mt.done
          /\ mt'.async = mt.async
      BY SMT, <1>1 DEF Inv, MergeWindow, TypeOK, MergeType
    <3> QED  BY <3>1, <3>2, <3>3
  <2>3. TypeOK'
    <3>1. io_state' \in IoStates
      BY SMT, <1>1, <2>2, Numbers, OpsTyped DEF Inv, TypeOK, MergeWindow, IoStates
    <3>2. group' \in [Indices -> GroupStates]
      BY <2>2
    <3>3. mt' \in MergeType
      <4>1. mt \in MergeType
        BY DEF Inv, TypeOK
      <4>2. mt' = [mt EXCEPT !.pc = "end"]
        BY <1>1, Numbers DEF MergeWindow
      <4>3. "end" \in MergeSteps
        BY SMT, <1>1, <2>2, Numbers DEF MergeSteps, RaSteps
      <4> QED  BY Zenon, <4>1, <4>2, <4>3 DEF MergeType
    <3> QED  BY <2>1, <3>1, <3>2, <3>3 DEF Inv, TypeOK
  <2>4. Fields /\ Fields' /\ Flags /\ Flags' /\ Cells /\ Cells'
    BY <2>3, FieldsTyped, FieldsTypedNext DEF Inv
  <2>5. \A j : Group(j)' = Group(j)
    BY <2>1 DEF Group
  <2>6. \A j \in OrderedOps(first) : /\ Group(j) \in Indices
                                /\ group'[Group(j)'] = IF Group(j) = mt.idx THEN "FAILED" ELSE group[Group(j)]
    BY <2>2, <2>5, GroupsIn
  <2>7. \A a, w : Saved(a, w)' <=> Saved(a, w)
    BY <2>1 DEF Saved
  <2>8. \A a, w : Mapped(a, w)' <=> Mapped(a, w)
    BY <2>1 DEF Mapped
  <2>9. \A j : Intact(j)' <=> Intact(j)
    BY <2>1 DEF Intact
  <2>10. \A j : MergedUpTo(j)' <=> MergedUpTo(j)
    BY <2>1 DEF MergedUpTo
  <2>11.
        Fetched' /\ ReadersServe' /\ IosCounted' /\ SlotsTrue' /\ Vouched' /\ Recoverable' /\ RaSources' /\ ResumedServed' /\ ReadsTrue'
    BY <2>1, FetchedFrame, ReadersServeFrame, IosCountedFrame, SlotsTrueFrame, VouchedFrame,
        RecoverableFrame, RaSourcesFrame, ResumedServedFrame, ReadsTrueFrame DEF Inv
  <2>12. WindowLoaded'
    BY SMT, <2>1, <2>2, <2>7, <2>8 DEF Inv, WindowLoaded, Loaded
  <2>13. MergeBusy'
    BY SMT, <2>1, <2>2 DEF Inv, MergeBusy, DoneTrue, RaAlone, RaMayTake, GroupsTrue
  <2>14. WindowMerged'
    BY SMT, <2>1, <2>2 DEF Inv, WindowMerged, DoneTrue, WindowLoaded, RaAlone
  <2>15. DoneTrue'
    BY SMT, <2>1, <2>2 DEF Inv, DoneTrue, WindowLoaded, BatchTurn
  <2>16. RaAlone'
    BY SMT, <2>1, <2>2 DEF Inv, RaAlone, RaMayTake, DoneTrue, Fetched, Ended
  <2>17. RaMayTake'
    BY SMT, <2>1, <2>2 DEF Inv, RaMayTake, WindowMerged, RaAlone, RaBegins, DoneTrue, Fetched,
        MergeBusy
  <2>18. RaBegins'
    BY SMT, <2>1, <2>2 DEF Inv, RaBegins, RaAlone, Down, Flags
  <2>19. RaCopies'
    BY SMT, <2>1, <2>2, <2>7 DEF Inv, RaCopies, RaMayTake, RaAlone, Fetched
  <2>20. RaSyncs'
    BY SMT, <2>1, <2>2, <2>7, <2>8 DEF Inv, RaSyncs, RaAlone, RaCopies, Fetched
  <2>21. Ended'
    BY SMT, <2>1, <2>2 DEF Inv, Ended, RaAlone, MergeBusy, Flags
  <2>22. BatchTurn'
    BY SMT, <2>1, <2>2 DEF Inv, BatchTurn, WindowMerged, DoneTrue, Fetched, RaAlone, WindowLoaded
  <2>23. Down'
    BY SMT, <2>1, <2>2 DEF Inv, Down, Flags
  <2>24. Aligned'
    <3>1. WindowsDone' = WindowsDone /\ MtStart' = MtStart
      BY SMT, <2>1, <2>2, <2>4, Numbers
    <3> QED  BY <3>1, <2>1, AlignedKept DEF Inv
  <2>25. GroupsTrue'
    BY SMT, <2>1, <2>2 DEF Inv, GroupsTrue
  <2>26. Drained'
    BY SMT, <2>1, <2>2, <2>5, <2>6 DEF Inv, Drained, GroupsTrue, ReadersServe
  <2>27. MapReady'
    BY SMT, <2>1, <2>2, <2>5, <2>6 DEF Inv, MapReady, Cells
  <2>28. Faultless'
    BY SMT, <2>1, <2>2 DEF Inv, Faultless, RaAlone, GroupsTrue, MapReady
  <2>29. CountedMerged'
    BY SMT, <2>1, <2>2, <2>10 DEF Inv, CountedMerged
  <2>30. SessionMerged'
    BY SMT, <2>1, <2>2 DEF Inv, SessionMerged, DoneTrue
  <2>31. ReadSources'
    BY SMT, <2>1, <2>2, <2>5, <2>6, <2>9 DEF Inv, ReadSources, GroupsTrue, WindowLoaded
  <2>32. ResumedFirst'
    BY SMT, <2>1, <2>2 DEF Inv, ResumedFirst, RaAlone
  <2>33. ResumedMapped'
    BY SMT, <2>1, <2>2, <2>5, <2>6 DEF Inv, ResumedMapped, ResumedFirst, GroupsTrue
  <2> QED  BY <2>11, <2>3, <2>12, <2>13, <2>14, <2>15, <2>16, <2>17, <2>18, <2>19, <2>20, <2>21,
        <2>22, <2>23, <2>24, <2>25, <2>26, <2>27, <2>28, <2>29, <2>30, <2>31, <2>32, <2>33 DEF Inv
<1>2. CASE /\ MergeBegins /\ group[mt.idx] = "IN_PROGRESS"
           /\ mt' = [mt EXCEPT !.pc = "write", !.done = 0] /\ UNCHANGED <<group, io_state>>
  <2>1. UNCHANGED << base, stored, head, head_stored, scratch, scratch_stored, up, first, io_state,
        merge_initiated, resume_merge, populate, ra_started, serving, group, ios, map, window, ra,
        reader, crashes, faults>>
    BY SMT, <1>2 DEF MergeWindow
  <2>2. /\ mt.pc = "window"
        /\ OrderedAt(mt.next)
        /\ io_state = "MERGE_BEGIN"
        /\ group[mt.idx] = "IN_PROGRESS"
        /\ mt'.pc = "write"
        /\ mt'.next = mt.next
        /\ mt'.idx = mt.idx
        /\ mt'.done = 0
        /\ mt'.async = mt.async
    <3>1. /\ mt.pc = "window"
          /\ OrderedAt(mt.next)
          /\ io_state = "MERGE_BEGIN"
          /\ group[mt.idx] = "IN_PROGRESS"
      BY SMT, <1>2 DEF Inv, MergeWindow, TypeOK
    <3>2. /\ mt'.pc = "write"
          /\ mt'.next = mt.next
          /\ mt'.idx = mt.idx
          /\ mt'.done = 0
          /\ mt'.async = mt.async
      BY SMT, <1>2 DEF Inv, MergeWindow, TypeOK, MergeType
    <3> QED  BY <3>1, <3>2
  <2>3. TypeOK'
    <3>1. mt' \in MergeType
      <4>1. mt \in MergeType
        BY DEF Inv, TypeOK
      <4>2. mt' = [mt EXCEPT !.pc = "write", !.done = 0]
        BY <1>2, Numbers DEF MergeWindow
      <4>3. "write" \in MergeSteps
        BY SMT, <1>2, <2>2, Numbers DEF MergeSteps, RaSteps
      <4>4. 0 \in 0..Len(Ops)
        BY SMT, <1>2, <2>2, Numbers DEF Inv, TypeOK, Positions, MergeType, RaType
      <4> QED  BY Zenon, <4>1, <4>2, <4>3, <4>4 DEF MergeType
    <3> QED  BY <2>1, <3>1 DEF Inv, TypeOK
  <2>4. Fields /\ Fields' /\ Flags /\ Flags' /\ Cells /\ Cells'
    BY <2>3, FieldsTyped, FieldsTypedNext DEF Inv
  <2>5. \A j : Group(j)' = Group(j)
    BY <2>1 DEF Group
  <2>6. \A a, w : Saved(a, w)' <=> Saved(a, w)
    BY <2>1 DEF Saved
  <2>7. \A a, w : Mapped(a, w)' <=> Mapped(a, w)
    BY <2>1 DEF Mapped
  <2>8. \A j : Intact(j)' <=> Intact(j)
    BY <2>1 DEF Intact
  <2>9. \A j : MergedUpTo(j)' <=> MergedUpTo(j)
    BY <2>1 DEF MergedUpTo
  <2>10.
        Fetched' /\ ReadersServe' /\ IosCounted' /\ Drained' /\ MapReady' /\ SlotsTrue' /\ Vouched' /\ Recoverable' /\ RaSources' /\ ReadSources' /\ ResumedMapped' /\ ResumedServed' /\ ReadsTrue'
    BY <2>1, FetchedFrame, ReadersServeFrame, IosCountedFrame, DrainedFrame, MapReadyFrame,
        SlotsTrueFrame, VouchedFrame, RecoverableFrame, RaSourcesFrame, ReadSourcesFrame,
        ResumedMappedFrame, ResumedServedFrame, ReadsTrueFrame DEF Inv
  <2>11. MtStart' = MtStart
    BY <2>2, <2>4 DEF Inv, DoneTrue
  <2>12. WindowLoaded'
    BY SMT, <2>1, <2>2, <2>6, <2>7, <2>11 DEF Inv, WindowLoaded, Loaded
  <2>13. MergeBusy'
    BY SMT, <2>1, <2>2, <2>11 DEF Inv, MergeBusy, DoneTrue, RaAlone, RaMayTake, GroupsTrue
  <2>14. WindowMerged'
    BY SMT, <2>1, <2>2 DEF Inv, WindowMerged, DoneTrue, WindowLoaded, RaAlone
  <2>15. DoneTrue'
    BY SMT, <2>1, <2>2, <2>4, <2>11, Numbers DEF Inv, DoneTrue, WindowLoaded, BatchTurn
  <2>16. RaAlone'
    BY SMT, <2>1, <2>2, <2>11 DEF Inv, RaAlone, RaMayTake, DoneTrue, Fetched, Ended
  <2>17. RaMayTake'
    BY SMT, <2>1, <2>2 DEF Inv, RaMayTake, WindowMerged, RaAlone, RaBegins, DoneTrue, Fetched,
        MergeBusy
  <2>18. RaBegins'
    BY SMT, <2>1, <2>2 DEF Inv, RaBegins, RaAlone, Down, Flags
  <2>19. RaCopies'
    BY SMT, <2>1, <2>2, <2>6 DEF Inv, RaCopies, RaMayTake, RaAlone, Fetched
  <2>20. RaSyncs'
    BY SMT, <2>1, <2>2, <2>6, <2>7 DEF Inv, RaSyncs, RaAlone, RaCopies, Fetched
  <2>21. Ended'
    BY SMT, <2>1, <2>2 DEF Inv, Ended, RaAlone, MergeBusy, Flags
  <2>22. BatchTurn'
    BY SMT, <2>1, <2>2, <2>11 DEF Inv, BatchTurn, WindowMerged, DoneTrue, Fetched, RaAlone,
        WindowLoaded
  <2>23. Down'
    BY SMT, <2>1, <2>2 DEF Inv, Down, Flags
  <2>24. Aligned'
    <3>1. WindowsDone' = WindowsDone /\ MtStart' = MtStart
      BY SMT, <2>1, <2>2, <2>4, <2>11, Numbers
    <3> QED  BY <3>1, <2>1, AlignedKept DEF Inv
  <2>25. GroupsTrue'
    BY SMT, <2>1, <2>2, <2>11 DEF Inv, GroupsTrue
  <2>26. Faultless'
    BY SMT, <2>1, <2>2 DEF Inv, Faultless, RaAlone, GroupsTrue, MapReady
  <2>27. CountedMerged'
    BY SMT, <2>1, <2>2, <2>9, <2>11 DEF Inv, CountedMerged, DoneTrue
  <2>28. SessionMerged'
    BY SMT, <2>1, <2>2, <2>11 DEF Inv, SessionMerged, DoneTrue
  <2>29. ResumedFirst'
    BY SMT, <2>1, <2>2 DEF Inv, ResumedFirst, RaAlone
  <2> QED  BY <2>10, <2>3, <2>12, <2>13, <2>14, <2>15, <2>16, <2>17, <2>18, <2>19, <2>20, <2>21,
        <2>22, <2>23, <2>24, <2>25, <2>26, <2>27, <2>28, <2>29 DEF Inv
<1>3. CASE /\ MergeBegins /\ group[mt.idx] # "IN_PROGRESS"
           /\ mt' = [mt EXCEPT !.pc = "drain"] /\ group' = [group EXCEPT ![mt.idx] = "RA_READY"]
           /\ UNCHANGED io_state
  <2>1. UNCHANGED << base, stored, head, head_stored, scratch, scratch_stored, up, first, io_state,
        merge_initiated, resume_merge, populate, ra_started, serving, ios, map, window, ra, reader,
        crashes, faults>>
    BY SMT, <1>3 DEF MergeWindow
  <2>2. /\ mt.pc = "window"
        /\ OrderedAt(mt.next)
        /\ io_state = "MERGE_BEGIN"
        /\ group[mt.idx] # "IN_PROGRESS"
        /\ group' \in [Indices -> GroupStates]
        /\ \A g \in Indices : group'[g] = IF g = mt.idx THEN "RA_READY" ELSE group[g]
        /\ mt'.pc = "drain"
        /\ mt'.next = mt.next
        /\ mt'.idx = mt.idx
        /\ mt'.done = mt.done
        /\ mt'.async = mt.async
    <3>1. /\ mt.pc = "window"
          /\ OrderedAt(mt.next)
          /\ io_state = "MERGE_BEGIN"
          /\ group[mt.idx] # "IN_PROGRESS"
      BY SMT, <1>3 DEF Inv, MergeWindow, TypeOK
    <3>2. /\ group' \in [Indices -> GroupStates]
          /\ \A g \in Indices : group'[g] = IF g = mt.idx THEN "RA_READY" ELSE group[g]
      <4>1. group' = [group EXCEPT ![mt.idx] = "RA_READY"]  BY <1>3 DEF MergeWindow
      <4>2. "RA_READY" \in GroupStates  BY DEF GroupStates
      <4> QED  BY Zenon, <4>1, <4>2, GroupSet DEF Inv
    <3>3. /\ mt'.pc = "drain"
          /\ mt'.next = mt.next
          /\ mt'.idx = mt.idx
          /\ mt'.done = mt.done
          /\ mt'.async = mt.async
      BY SMT, <1>3 DEF Inv, MergeWindow, TypeOK, MergeType
    <3> QED  BY <3>1, <3>2, <3>3
  <2>3. TypeOK'
    <3>1. group' \in [Indices -> GroupStates]
      BY <2>2
    <3>2. mt' \in MergeType
      <4>1. mt \in MergeType
        BY DEF Inv, TypeOK
      <4>2. mt' = [mt EXCEPT !.pc = "drain"]
        BY <1>3, Numbers DEF MergeWindow
      <4>3. "drain" \in MergeSteps
        BY SMT, <1>3, <2>2, Numbers DEF MergeSteps, RaSteps
      <4> QED  BY Zenon, <4>1, <4>2, <4>3 DEF MergeType
    <3> QED  BY <2>1, <3>1, <3>2 DEF Inv, TypeOK
  <2>4. Fields /\ Fields' /\ Flags /\ Flags' /\ Cells /\ Cells'
    BY <2>3, FieldsTyped, FieldsTypedNext DEF Inv
  <2>5. \A j : Group(j)' = Group(j)
    BY <2>1 DEF Group
  <2>6. \A j \in OrderedOps(first) : /\ Group(j) \in Indices
                                /\ group'[Group(j)'] = IF Group(j) = mt.idx THEN "RA_READY" ELSE group[Group(j)]
    BY <2>2, <2>5, GroupsIn
  <2>7. \A a, w : Saved(a, w)' <=> Saved(a, w)
    BY <2>1 DEF Saved
  <2>8. \A a, w : Mapped(a, w)' <=> Mapped(a, w)
    BY <2>1 DEF Mapped
  <2>9. \A j : Intact(j)' <=> Intact(j)
    BY <2>1 DEF Intact
  <2>10. \A j : MergedUpTo(j)' <=> MergedUpTo(j)
    BY <2>1 DEF MergedUpTo
  <2>11.
        Fetched' /\ ReadersServe' /\ IosCounted' /\ SlotsTrue' /\ Vouched' /\ Recoverable' /\ RaSources' /\ ResumedServed' /\ ReadsTrue'
    BY <2>1, FetchedFrame, ReadersServeFrame, IosCountedFrame, SlotsTrueFrame, VouchedFrame,
        RecoverableFrame, RaSourcesFrame, ResumedServedFrame, ReadsTrueFrame DEF Inv
  <2>12. WindowLoaded'
    BY SMT, <2>1, <2>2, <2>7, <2>8 DEF Inv, WindowLoaded, Loaded
  <2>13. MergeBusy'
    BY SMT, <2>1, <2>2 DEF Inv, MergeBusy, DoneTrue, RaAlone, RaMayTake, GroupsTrue
  <2>14. WindowMerged'
    BY SMT, <2>1, <2>2 DEF Inv, WindowMerged, DoneTrue, WindowLoaded, RaAlone
  <2>15. DoneTrue'
    BY SMT, <2>1, <2>2, <2>4, Numbers DEF Inv, DoneTrue, WindowLoaded, BatchTurn
  <2>16. RaAlone'
    BY SMT, <2>1, <2>2 DEF Inv, RaAlone, RaMayTake, DoneTrue, Fetched, Ended
  <2>17. RaMayTake'
    BY SMT, <2>1, <2>2 DEF Inv, RaMayTake, WindowMerged, RaAlone, RaBegins, DoneTrue, Fetched,
        MergeBusy
  <2>18. RaBegins'
    BY SMT, <2>1, <2>2 DEF Inv, RaBegins, RaAlone, Down, Flags
  <2>19. RaCopies'
    BY SMT, <2>1, <2>2, <2>7 DEF Inv, RaCopies, RaMayTake, RaAlone, Fetched
  <2>20. RaSyncs'
    BY SMT, <2>1, <2>2, <2>7, <2>8 DEF Inv, RaSyncs, RaAlone, RaCopies, Fetched
  <2>21. Ended'
    BY SMT, <2>1, <2>2 DEF Inv, Ended, RaAlone, MergeBusy, Flags
  <2>22. BatchTurn'
    BY SMT, <2>1, <2>2 DEF Inv, BatchTurn, WindowMerged, DoneTrue, Fetched, RaAlone, WindowLoaded
  <2>23. Down'
    BY SMT, <2>1, <2>2 DEF Inv, Down, Flags
  <2>24. Aligned'
    <3>1. WindowsDone' = WindowsDone /\ MtStart' = MtStart
      BY SMT, <2>1, <2>2, <2>4, Numbers
    <3> QED  BY <3>1, <2>1, AlignedKept DEF Inv
  <2>25. GroupsTrue'
    BY SMT, <2>1, <2>2 DEF Inv, GroupsTrue
  <2>26. Drained'
    BY SMT, <2>1, <2>2, <2>5, <2>6 DEF Inv, Drained, GroupsTrue, ReadersServe
  <2>27. MapReady'
    <3>1. mt.done = 0 /\ mt.next \in Nat  BY <2>2, <2>4 DEF Inv, DoneTrue
    <3>2. MtStart = mt.next  BY <3>1
    <3>3. Loaded  BY <2>2 DEF Inv, WindowLoaded
    <3>4. \A i \in OrderedOps(first) : Group(i) = mt.idx => MtStart <= i /\ i < MtStart + window
      BY <2>2, <3>2, <3>3, InWindow DEF Loaded
    <3>5. \A i \in OrderedOps(first) : Group(i) = mt.idx => map[i] # 0
      BY <3>3, <3>4 DEF Loaded, Mapped, OrderedOps
    <3> QED  BY <2>1, <2>2, <2>5, <2>6, <3>5 DEF Inv, MapReady
  <2>28. Faultless'
    BY SMT, <2>1, <2>2 DEF Inv, Faultless, RaAlone, GroupsTrue, MapReady
  <2>29. CountedMerged'
    BY SMT, <2>1, <2>2, <2>10 DEF Inv, CountedMerged
  <2>30. SessionMerged'
    BY SMT, <2>1, <2>2 DEF Inv, SessionMerged, DoneTrue
  <2>31. ReadSources'
    BY SMT, <2>1, <2>2, <2>5, <2>6, <2>9 DEF Inv, ReadSources, GroupsTrue, WindowLoaded
  <2>32. ResumedFirst'
    BY SMT, <2>1, <2>2 DEF Inv, ResumedFirst, RaAlone
  <2>33. ResumedMapped'
    BY SMT, <2>1, <2>2, <2>5, <2>6 DEF Inv, ResumedMapped, ResumedFirst, GroupsTrue
  <2> QED  BY <2>11, <2>3, <2>12, <2>13, <2>14, <2>15, <2>16, <2>17, <2>18, <2>19, <2>20, <2>21,
        <2>22, <2>23, <2>24, <2>25, <2>26, <2>27, <2>28, <2>29, <2>30, <2>31, <2>32, <2>33 DEF Inv
<1> QED  BY SMT, <1>1, <1>2, <1>3 DEF MergeWindow

(* It is merged when nobody reads its sources. *)
LEMMA SetMergeInProgressKeeps == ASSUME Inv, SetMergeInProgress PROVE Inv'
<1>1. UNCHANGED << base, stored, head, head_stored, scratch, scratch_stored, up, first, io_state,
        merge_initiated, resume_merge, populate, ra_started, serving, ios, map, window, ra, reader,
        crashes, faults>>
  BY SMT DEF SetMergeInProgress
<1>2. /\ mt.pc = "drain"
      /\ ios[mt.idx] = 0
      /\ group' \in [Indices -> GroupStates]
      /\ \A g \in Indices : group'[g] = IF g = mt.idx THEN "IN_PROGRESS" ELSE group[g]
      /\ mt'.pc = "write"
      /\ mt'.next = mt.next
      /\ mt'.idx = mt.idx
      /\ mt'.done = 0
      /\ mt'.async = mt.async
  <2>1. /\ mt.pc = "drain"
        /\ ios[mt.idx] = 0
    BY SMT DEF Inv, SetMergeInProgress, TypeOK
  <2>2. /\ group' \in [Indices -> GroupStates]
        /\ \A g \in Indices : group'[g] = IF g = mt.idx THEN "IN_PROGRESS" ELSE group[g]
    <3>1. group' = [group EXCEPT ![mt.idx] = "IN_PROGRESS"]  BY DEF SetMergeInProgress
    <3>2. "IN_PROGRESS" \in GroupStates  BY DEF GroupStates
    <3> QED  BY Zenon, <3>1, <3>2, GroupSet DEF Inv
  <2>3. /\ mt'.pc = "write"
        /\ mt'.next = mt.next
        /\ mt'.idx = mt.idx
        /\ mt'.done = 0
        /\ mt'.async = mt.async
    BY SMT DEF Inv, SetMergeInProgress, TypeOK, MergeType
  <2> QED  BY <2>1, <2>2, <2>3
<1>3. TypeOK'
  <2>1. group' \in [Indices -> GroupStates]
    BY <1>2
  <2>2. mt' \in MergeType
    <3>1. mt \in MergeType
      BY DEF Inv, TypeOK
    <3>2. mt' = [mt EXCEPT !.pc = "write", !.done = 0]
      BY Numbers DEF SetMergeInProgress
    <3>3. "write" \in MergeSteps
      BY SMT, <1>2, Numbers DEF MergeSteps, RaSteps
    <3>4. 0 \in 0..Len(Ops)
      BY SMT, <1>2, Numbers DEF Inv, TypeOK, Positions, MergeType, RaType
    <3> QED  BY Zenon, <3>1, <3>2, <3>3, <3>4 DEF MergeType
  <2> QED  BY <1>1, <2>1, <2>2 DEF Inv, TypeOK
<1>4. Fields /\ Fields' /\ Flags /\ Flags' /\ Cells /\ Cells'
  BY <1>3, FieldsTyped, FieldsTypedNext DEF Inv
<1>5. \A j : Group(j)' = Group(j)
  BY <1>1 DEF Group
<1>6. \A j \in OrderedOps(first) : /\ Group(j) \in Indices
                              /\ group'[Group(j)'] = IF Group(j) = mt.idx THEN "IN_PROGRESS" ELSE group[Group(j)]
  BY <1>2, <1>5, GroupsIn
<1>7. \A a, w : Saved(a, w)' <=> Saved(a, w)
  BY <1>1 DEF Saved
<1>8. \A a, w : Mapped(a, w)' <=> Mapped(a, w)
  BY <1>1 DEF Mapped
<1>9. \A j : Intact(j)' <=> Intact(j)
  BY <1>1 DEF Intact
<1>10. \A j : MergedUpTo(j)' <=> MergedUpTo(j)
  BY <1>1 DEF MergedUpTo
<1>11.
        Fetched' /\ ReadersServe' /\ IosCounted' /\ SlotsTrue' /\ Vouched' /\ Recoverable' /\ RaSources' /\ ResumedServed' /\ ReadsTrue'
  BY <1>1, FetchedFrame, ReadersServeFrame, IosCountedFrame, SlotsTrueFrame, VouchedFrame,
        RecoverableFrame, RaSourcesFrame, ResumedServedFrame, ReadsTrueFrame DEF Inv
<1>12. MtStart' = MtStart
  BY <1>2, <1>4 DEF Inv, DoneTrue
<1>13. WindowLoaded'
  BY SMT, <1>1, <1>2, <1>7, <1>8, <1>12 DEF Inv, WindowLoaded, Loaded
<1>14. MergeBusy'
  BY SMT, <1>1, <1>2, <1>12 DEF Inv, MergeBusy, DoneTrue, RaAlone, RaMayTake, GroupsTrue
<1>15. WindowMerged'
  BY SMT, <1>1, <1>2 DEF Inv, WindowMerged, DoneTrue, WindowLoaded, RaAlone
<1>16. DoneTrue'
  BY SMT, <1>1, <1>2, <1>12 DEF Inv, DoneTrue, WindowLoaded, BatchTurn
<1>17. RaAlone'
  BY SMT, <1>1, <1>2, <1>12 DEF Inv, RaAlone, RaMayTake, DoneTrue, Fetched, Ended
<1>18. RaMayTake'
  BY SMT, <1>1, <1>2 DEF Inv, RaMayTake, WindowMerged, RaAlone, RaBegins, DoneTrue, Fetched,
        MergeBusy
<1>19. RaBegins'
  BY SMT, <1>1, <1>2 DEF Inv, RaBegins, RaAlone, Down, Flags
<1>20. RaCopies'
  BY SMT, <1>1, <1>2, <1>7 DEF Inv, RaCopies, RaMayTake, RaAlone, Fetched
<1>21. RaSyncs'
  BY SMT, <1>1, <1>2, <1>7, <1>8 DEF Inv, RaSyncs, RaAlone, RaCopies, Fetched
<1>22. Ended'
  BY SMT, <1>1, <1>2 DEF Inv, Ended, RaAlone, MergeBusy, Flags
<1>23. BatchTurn'
  BY SMT, <1>1, <1>2, <1>12 DEF Inv, BatchTurn, WindowMerged, DoneTrue, Fetched, RaAlone,
        WindowLoaded
<1>24. Down'
  BY SMT, <1>1, <1>2 DEF Inv, Down, Flags
<1>25. Aligned'
  <2>1. WindowsDone' = WindowsDone /\ MtStart' = MtStart
    BY SMT, <1>1, <1>2, <1>4, <1>12, Numbers
  <2> QED  BY <2>1, <1>1, AlignedKept DEF Inv
<1>26. GroupsTrue'
  BY SMT, <1>1, <1>2, <1>12 DEF Inv, GroupsTrue
<1>27. Drained'
  <2>1. mt.idx \in Indices  BY <1>2, IndexIn DEF Inv, DoneTrue
  <2>2. \A r \in Readers : reader[r].pc \in {"source", "release", "release_error"} => Group(reader[r].op) # mt.idx
    BY <2>1, <1>2, NobodyReads
  <2>3. group[mt.idx] = "RA_READY"  BY <2>1, <1>2 DEF Inv, GroupsTrue
  <2> QED  BY <1>1, <1>2, <1>5, <1>6, <2>2, <2>3 DEF Inv, Drained, ReadersServe
<1>28. MapReady'
  BY SMT, <1>1, <1>2, <1>5, <1>6 DEF Inv, MapReady, GroupsTrue, Cells
<1>29. Faultless'
  BY SMT, <1>1, <1>2 DEF Inv, Faultless, RaAlone, GroupsTrue, MapReady
<1>30. CountedMerged'
  BY SMT, <1>1, <1>2, <1>10, <1>12 DEF Inv, CountedMerged, DoneTrue
<1>31. SessionMerged'
  BY SMT, <1>1, <1>2, <1>12 DEF Inv, SessionMerged, DoneTrue
<1>32. ReadSources'
  BY SMT, <1>1, <1>2, <1>5, <1>6, <1>9 DEF Inv, ReadSources, GroupsTrue, WindowLoaded
<1>33. ResumedFirst'
  BY SMT, <1>1, <1>2 DEF Inv, ResumedFirst, RaAlone
<1>34. ResumedMapped'
  BY SMT, <1>1, <1>2, <1>5, <1>6 DEF Inv, ResumedMapped, ResumedFirst, GroupsTrue
<1> QED  BY <1>11, <1>3, <1>13, <1>14, <1>15, <1>16, <1>17, <1>18, <1>19, <1>20, <1>21, <1>22,
        <1>23, <1>24, <1>25, <1>26, <1>27, <1>28, <1>29, <1>30, <1>31, <1>32, <1>33, <1>34 DEF Inv

(* Overwriting a block destroys sources of this window only, and these are in the scratch *)
(* space.                                                                                 *)
LEMMA MergeWriteKeeps == ASSUME Inv, MergeWrite PROVE Inv'
<1>1. CASE /\ mt.done < window
           /\ base' = [base EXCEPT ![Ops[mt.next].new] = scratch[mt.done + 1].val]
           /\ mt' = [mt EXCEPT !.next = @ + 1, !.done = @ + 1]
           /\ NoFault /\ UNCHANGED <<io_state, group>>
  <2>1. UNCHANGED << stored, head, head_stored, scratch, scratch_stored, up, first, io_state,
        merge_initiated, resume_merge, populate, ra_started, serving, group, ios, map, window, ra,
        reader, crashes, faults>>
    BY SMT, <1>1 DEF MergeWrite
  <2>2. /\ mt.pc = "write"
        /\ mt.done < window
        /\ OrderedAt(mt.next)
        /\ OrderedAt(MtStart)
        /\ \A b \in Blocks : base'[b] = IF b = Ops[mt.next].new THEN Ops[mt.next].src ELSE base[b]
        /\ mt'.pc = mt.pc
        /\ mt'.next = mt.next + 1
        /\ mt'.idx = mt.idx
        /\ mt'.done = mt.done + 1
        /\ mt'.async = mt.async
    <3>1. mt.pc = "write" /\ mt.done < window  BY <1>1 DEF MergeWrite
    <3>2. OrderedAt(MtStart) /\ OrderedAt(mt.next) /\ scratch[mt.done + 1].val = Ops[mt.next].src
      BY <3>1, WriteTrue
    <3>3. base' = [base EXCEPT ![Ops[mt.next].new] = Ops[mt.next].src]  BY <1>1, <3>2
    <3>4. Ops[mt.next].new \in Blocks /\ Ops[mt.next].src \in Values  BY <3>2, OpsTyped
    <3>5. \A b \in Blocks : base'[b] = IF b = Ops[mt.next].new THEN Ops[mt.next].src ELSE base[b]
      BY <3>3, <3>4, BaseSet DEF Inv
    <3>6. mt'.pc = mt.pc /\ mt'.next = mt.next + 1 /\ mt'.idx = mt.idx /\ mt'.done = mt.done + 1
          /\ mt'.async = mt.async
      BY <1>1 DEF Inv, TypeOK, MergeType
    <3> QED  BY <3>1, <3>2, <3>5, <3>6
  <2>3. TypeOK'
    <3>1. base' \in [Blocks -> Values]
      <4>1. OrderedAt(mt.next) /\ scratch[mt.done + 1].val = Ops[mt.next].src  BY <2>2, WriteTrue
      <4>2. base' = [base EXCEPT ![Ops[mt.next].new] = Ops[mt.next].src]  BY <1>1, <4>1
      <4>3. Ops[mt.next].new \in Blocks /\ Ops[mt.next].src \in Values  BY <4>1, OpsTyped
      <4> QED  BY <4>2, <4>3, BaseSet DEF Inv
    <3>2. mt' \in MergeType
      <4>1. mt \in MergeType
        BY DEF Inv, TypeOK
      <4>2. mt' = [mt EXCEPT !.next = mt.next + 1, !.done = mt.done + 1]
        BY <1>1, Numbers DEF MergeWrite
      <4>3. mt.next + 1 \in Positions
          BY <2>2, Numbers DEF Positions
      <4>4. mt.done + 1 \in 0..Len(Ops)
          <5>1. mt.done \in Nat /\ mt.next \in Nat /\ mt.done < mt.next  BY FieldsTyped DEF Inv, DoneTrue
          <5>2. mt.next <= Len(Ops)  BY <2>2, Numbers
          <5> QED  BY <5>1, <5>2, Numbers
      <4> QED  BY Zenon, <4>1, <4>2, <4>3, <4>4 DEF MergeType
    <3> QED  BY <2>1, <3>1, <3>2 DEF Inv, TypeOK
  <2>4. Fields /\ Fields' /\ Flags /\ Flags' /\ Cells /\ Cells'
    BY <2>3, FieldsTyped, FieldsTypedNext DEF Inv
  <2>5. \A j : Group(j)' = Group(j)
    BY <2>1 DEF Group
  <2>6. \A a, w : Saved(a, w)' <=> Saved(a, w)
    BY <2>1 DEF Saved
  <2>7. \A a, w : Mapped(a, w)' <=> Mapped(a, w)
    BY <2>1 DEF Mapped
  <2>8.
        Fetched' /\ ReadersServe' /\ IosCounted' /\ Drained' /\ MapReady' /\ SlotsTrue' /\ Vouched' /\ ResumedMapped' /\ ResumedServed'
    BY <2>1, FetchedFrame, ReadersServeFrame, IosCountedFrame, DrainedFrame, MapReadyFrame,
        SlotsTrueFrame, VouchedFrame, ResumedMappedFrame, ResumedServedFrame DEF Inv
  <2>9. Loaded
    BY <2>2, WriteTrue
  <2>10. mt.next \in Nat /\ mt.done \in Nat /\ window \in Nat /\ mt.next \in Indices
    BY <2>2, <2>4
  <2>11. mt.done < mt.next /\ mt.done < window
    BY <2>2 DEF Inv, DoneTrue
  <2>12. /\ mt.next \in Nat /\ mt.done \in Nat /\ window \in Nat /\ mt.done < mt.next /\ mt.next \in Indices
         /\ MtStart \in Nat /\ mt.next < MtStart + window
    BY <2>11, <2>10
  <2>13. mt'.next = mt.next + 1 /\ mt'.done = mt.done + 1
    BY <2>2
  <2>14. MtStart' = MtStart
    BY <2>13, <2>12
  <2>15. WindowsDone' = WindowsDone
    BY <2>2
  <2>16. /\ \A i \in Indices : i > mt.next /\ IsOrderedOp(i) /\ Intact(i) => Intact(i)'
         /\ \A n : MergedUpTo(n) => MergedUpTo(n)'
         /\ \A i \in Indices : base[Ops[i].new] = Ops[i].src => base'[Ops[i].new] = Ops[i].src
         /\ base'[Ops[mt.next].new] = Ops[mt.next].src
    BY <2>1, <2>2, Overwritten
  <2>17. WindowLoaded'
    <3>1. Loaded'
      BY <2>1, <2>6, <2>7, <2>14, <2>9 DEF Loaded, IsWindow
    <3> QED  BY <3>1 DEF WindowLoaded
  <2>18. MergeBusy'
    BY SMT, <2>1, <2>2 DEF Inv, MergeBusy, DoneTrue, RaAlone, RaMayTake, GroupsTrue
  <2>19. WindowMerged'
    BY SMT, <2>1, <2>2 DEF Inv, WindowMerged, DoneTrue, WindowLoaded, RaAlone
  <2>20. DoneTrue'
    <3>1. mt'.done <= window /\ mt'.done < mt'.next  BY <2>2, <2>12
    <3> QED  BY <2>1, <2>2, <2>14, <3>1 DEF DoneTrue
  <2>21. RaAlone'
    BY SMT, <2>1, <2>2 DEF Inv, RaAlone, RaMayTake, DoneTrue, Fetched, Ended
  <2>22. RaMayTake'
    BY SMT, <2>1, <2>2 DEF Inv, RaMayTake, WindowMerged, RaAlone, RaBegins, DoneTrue, Fetched,
        MergeBusy
  <2>23. RaBegins'
    BY SMT, <2>1, <2>2 DEF Inv, RaBegins, RaAlone, Down, Flags
  <2>24. RaCopies'
    BY SMT, <2>1, <2>2, <2>6 DEF Inv, RaCopies, RaMayTake, RaAlone, Fetched
  <2>25. RaSyncs'
    BY SMT, <2>1, <2>2, <2>6, <2>7 DEF Inv, RaSyncs, RaAlone, RaCopies, Fetched
  <2>26. Ended'
    BY SMT, <2>1, <2>2 DEF Inv, Ended, RaAlone, MergeBusy, Flags
  <2>27. BatchTurn'
    BY SMT, <2>1, <2>2 DEF Inv, BatchTurn, WindowMerged, DoneTrue, Fetched, RaAlone, WindowLoaded
  <2>28. Down'
    BY SMT, <2>1, <2>2 DEF Inv, Down, Flags
  <2>29. Aligned'
    BY <2>1, <2>14, <2>15, AlignedKept DEF Inv
  <2>30. GroupsTrue'
    BY SMT, <2>1, <2>2 DEF Inv, GroupsTrue
  <2>31. Faultless'
    BY SMT, <2>1, <2>2 DEF Inv, Faultless, RaAlone, GroupsTrue, MapReady
  <2>32. Recoverable'
    <3>1. /\ IsWindow(MtStart, window) /\ Saved(MtStart, window)
          /\ \A h \in {head, head_stored} : (h.num = MtStart - 1 /\ h.done) \/ Covers(h.num, MtStart)
      BY <2>9 DEF Loaded
    <3>2. window \in 1..WindowSize  BY <3>1 DEF IsWindow
    <3>3. ASSUME NEW h \in {head, head_stored}, NEW i \in Indices, i > h.num, IsOrderedOp(i)
          PROVE  Intact(i)' \/ (h.done /\ \E k \in Slots : scratch[k].op = i)
      <4>3. head.num \in Nat /\ head_stored.num \in Nat  BY <2>4
      <4>0. i \in Nat /\ h.num \in Nat  BY <4>3, <3>3, Numbers
      <4>1. CASE i > mt.next
        BY <4>1, <3>3, <2>16 DEF Inv, Recoverable
      <4>2. CASE ~(i > mt.next)
        <5>1. i < MtStart + window /\ i < MtStart + WindowSize  BY <4>0, <4>2, <2>12, <3>2, Numbers
        <5>2. ~Covers(h.num, MtStart)  BY <5>1, <4>0, <3>3 DEF Covers
        <5>3. h.num = MtStart - 1 /\ h.done  BY <5>2, <3>1
        <5>7. MtStart \in Nat  BY <2>12
        <5> HIDE DEF MtStart
        <5>4. i >= MtStart /\ i - MtStart + 1 \in Slots /\ i - MtStart + 1 <= window
          BY <5>1, <5>3, <5>7, <4>0, <3>2, <3>3, Numbers
        <5>5. scratch[i - MtStart + 1].op = MtStart + (i - MtStart + 1) - 1
          BY <5>4, <3>1 DEF Saved
        <5>6. MtStart + (i - MtStart + 1) - 1 = i  BY <4>0, <5>7
        <5> QED  BY <5>3, <5>4, <5>5, <5>6
      <4> QED  BY <4>1, <4>2
    <3> QED  BY <2>1, <3>3 DEF Recoverable
  <2>33. CountedMerged'
    BY <2>1, <2>2, <2>14, <2>16 DEF Inv, CountedMerged
  <2>34. SessionMerged'
    <3>1. ASSUME up, NEW i \in Indices, first < i, i < mt.next + 1 PROVE base'[Ops[i].new] = Ops[i].src
      <4>1. CASE i = mt.next  BY <4>1, <2>16
      <4>2. CASE i # mt.next
        <5>1. i < mt.next  BY <4>2, <3>1, <2>12, Numbers
        <5> QED  BY <5>1, <3>1, <2>16 DEF Inv, SessionMerged
      <4> QED  BY <4>1, <4>2
    <3> QED  BY <2>1, <2>2, <3>1 DEF SessionMerged
  <2>35. RaSources'
    <3> SUFFICES ASSUME ra.pc # "end", NEW i \in Indices, i >= RaBegin, IsOrderedOp(i) PROVE Intact(i)'
      BY <2>1 DEF RaSources
    <3>1. ra.pc \in {"read", "wait"} /\ RaBegin = MtStart + window  BY <2>9 DEF Loaded
    <3>2. Intact(i)  BY <3>1 DEF Inv, RaSources
    <3>3. i > mt.next  BY <3>1, <2>12, Numbers
    <3> QED  BY <3>2, <3>3, <2>16
  <2>36. ReadSources'
    <3>1. ASSUME NEW i \in OrderedOps(first), group[Group(i)] \in {"PENDING", "RA_READY"}, Intact(i)
          PROVE  Intact(i)'
      <4>1. i >= MtStart + window  BY <2>2, <3>1, PastWindow
      <4>2. i \in Indices /\ IsOrderedOp(i)  BY OrderedIs
      <4>3. i > mt.next  BY <4>1, <4>2, <2>12, Numbers
      <4> QED  BY <4>2, <4>3, <3>1, <2>16
    <3> QED  BY <2>1, <2>5, <3>1 DEF Inv, ReadSources
  <2>37. ResumedFirst'
    BY SMT, <2>1, <2>2 DEF Inv, ResumedFirst, RaAlone
  <2>38. ReadsTrue'
    <3>1. ASSUME NEW r \in Readers, reader[r].pc = "source", Intact(reader[r].op)
          PROVE  Intact(reader[r].op)'
      <4>1. /\ reader[r].op \in OrderedOps(first)
            /\ group[Group(reader[r].op)] \notin {"IN_PROGRESS", "COMPLETED"}
        BY <3>1 DEF Inv, ReadersServe, Drained
      <4>2. reader[r].op >= MtStart + window  BY <2>2, <4>1, PastWindow
      <4>3. reader[r].op \in Indices /\ IsOrderedOp(reader[r].op)  BY <4>1, OrderedIs
      <4>4. reader[r].op > mt.next  BY <4>2, <4>3, <2>12, Numbers
      <4>5. \A i \in Indices : i = reader[r].op => Intact(i)'  BY <4>3, <4>4, <3>1, <2>16
      <4> QED  BY <4>5, <4>3, <2>1 DEF Intact
    <3> QED  BY <2>1, <3>1 DEF Inv, ReadsTrue, Intact
  <2> QED  BY <2>8, <2>3, <2>17, <2>18, <2>19, <2>20, <2>21, <2>22, <2>23, <2>24, <2>25, <2>26,
        <2>27, <2>28, <2>29, <2>30, <2>31, <2>32, <2>33, <2>34, <2>35, <2>36, <2>37, <2>38 DEF Inv
<1>2. CASE /\ mt.done = window
           /\ mt' = [mt EXCEPT !.pc = "fsync"]
           /\ NoFault /\ UNCHANGED <<base, io_state, group>>
  <2>1. UNCHANGED << base, stored, head, head_stored, scratch, scratch_stored, up, first, io_state,
        merge_initiated, resume_merge, populate, ra_started, serving, group, ios, map, window, ra,
        reader, crashes, faults>>
    BY SMT, <1>2 DEF MergeWrite
  <2>2. /\ mt.pc = "write"
        /\ mt.done = window
        /\ mt'.pc = "fsync"
        /\ mt'.next = mt.next
        /\ mt'.idx = mt.idx
        /\ mt'.done = mt.done
        /\ mt'.async = mt.async
    <3>1. /\ mt.pc = "write"
          /\ mt.done = window
      BY SMT, <1>2 DEF Inv, MergeWrite, TypeOK
    <3>2. /\ mt'.pc = "fsync"
          /\ mt'.next = mt.next
          /\ mt'.idx = mt.idx
          /\ mt'.done = mt.done
          /\ mt'.async = mt.async
      BY SMT, <1>2 DEF Inv, MergeWrite, TypeOK, MergeType
    <3> QED  BY <3>1, <3>2
  <2>3. TypeOK'
    <3>1. mt' \in MergeType
      <4>1. mt \in MergeType
        BY DEF Inv, TypeOK
      <4>2. mt' = [mt EXCEPT !.pc = "fsync"]
        BY <1>2, Numbers DEF MergeWrite
      <4>3. "fsync" \in MergeSteps
        BY SMT, <1>2, <2>2, Numbers DEF MergeSteps, RaSteps
      <4> QED  BY Zenon, <4>1, <4>2, <4>3 DEF MergeType
    <3> QED  BY <2>1, <3>1 DEF Inv, TypeOK
  <2>4. Fields /\ Fields' /\ Flags /\ Flags' /\ Cells /\ Cells'
    BY <2>3, FieldsTyped, FieldsTypedNext DEF Inv
  <2>5. \A j : Group(j)' = Group(j)
    BY <2>1 DEF Group
  <2>6. \A a, w : Saved(a, w)' <=> Saved(a, w)
    BY <2>1 DEF Saved
  <2>7. \A a, w : Mapped(a, w)' <=> Mapped(a, w)
    BY <2>1 DEF Mapped
  <2>8. \A j : Intact(j)' <=> Intact(j)
    BY <2>1 DEF Intact
  <2>9. \A j : MergedUpTo(j)' <=> MergedUpTo(j)
    BY <2>1 DEF MergedUpTo
  <2>10.
        Fetched' /\ ReadersServe' /\ IosCounted' /\ Drained' /\ MapReady' /\ SlotsTrue' /\ Vouched' /\ Recoverable' /\ RaSources' /\ ReadSources' /\ ResumedMapped' /\ ResumedServed' /\ ReadsTrue'
    BY <2>1, FetchedFrame, ReadersServeFrame, IosCountedFrame, DrainedFrame, MapReadyFrame,
        SlotsTrueFrame, VouchedFrame, RecoverableFrame, RaSourcesFrame, ReadSourcesFrame,
        ResumedMappedFrame, ResumedServedFrame, ReadsTrueFrame DEF Inv
  <2>11. WindowLoaded'
    BY SMT, <2>1, <2>2, <2>6, <2>7 DEF Inv, WindowLoaded, Loaded
  <2>12. MergeBusy'
    BY SMT, <2>1, <2>2 DEF Inv, MergeBusy, DoneTrue, RaAlone, RaMayTake, GroupsTrue
  <2>13. WindowMerged'
    BY SMT, <2>1, <2>2 DEF Inv, WindowMerged, DoneTrue, WindowLoaded, RaAlone
  <2>14. DoneTrue'
    BY SMT, <2>1, <2>2 DEF Inv, DoneTrue, WindowLoaded, BatchTurn
  <2>15. RaAlone'
    BY SMT, <2>1, <2>2 DEF Inv, RaAlone, RaMayTake, DoneTrue, Fetched, Ended
  <2>16. RaMayTake'
    BY SMT, <2>1, <2>2 DEF Inv, RaMayTake, WindowMerged, RaAlone, RaBegins, DoneTrue, Fetched,
        MergeBusy
  <2>17. RaBegins'
    BY SMT, <2>1, <2>2 DEF Inv, RaBegins, RaAlone, Down, Flags
  <2>18. RaCopies'
    BY SMT, <2>1, <2>2, <2>6 DEF Inv, RaCopies, RaMayTake, RaAlone, Fetched
  <2>19. RaSyncs'
    BY SMT, <2>1, <2>2, <2>6, <2>7 DEF Inv, RaSyncs, RaAlone, RaCopies, Fetched
  <2>20. Ended'
    BY SMT, <2>1, <2>2 DEF Inv, Ended, RaAlone, MergeBusy, Flags
  <2>21. BatchTurn'
    BY SMT, <2>1, <2>2 DEF Inv, BatchTurn, WindowMerged, DoneTrue, Fetched, RaAlone, WindowLoaded
  <2>22. Down'
    BY SMT, <2>1, <2>2 DEF Inv, Down, Flags
  <2>23. Aligned'
    <3>1. WindowsDone' = WindowsDone /\ MtStart' = MtStart
      BY SMT, <2>1, <2>2, <2>4, Numbers
    <3> QED  BY <3>1, <2>1, AlignedKept DEF Inv
  <2>24. GroupsTrue'
    BY SMT, <2>1, <2>2 DEF Inv, GroupsTrue
  <2>25. Faultless'
    BY SMT, <2>1, <2>2 DEF Inv, Faultless, RaAlone, GroupsTrue, MapReady
  <2>26. CountedMerged'
    BY SMT, <2>1, <2>2, <2>9 DEF Inv, CountedMerged
  <2>27. SessionMerged'
    BY SMT, <2>1, <2>2 DEF Inv, SessionMerged, DoneTrue
  <2>28. ResumedFirst'
    BY SMT, <2>1, <2>2 DEF Inv, ResumedFirst, RaAlone
  <2> QED  BY <2>10, <2>3, <2>11, <2>12, <2>13, <2>14, <2>15, <2>16, <2>17, <2>18, <2>19, <2>20,
        <2>21, <2>22, <2>23, <2>24, <2>25, <2>26, <2>27, <2>28 DEF Inv
<1>3. CASE Fault("write") /\ mt.async /\ OrderedMergeFails /\ UNCHANGED <<base>>
  <2>1. WindowRedone("write")
    BY SMT, <1>3, PhaseIs DEF Inv, MergeWrite, WindowRedone
  <2> QED  BY <2>1, WindowRedoneKeeps
<1>4. CASE Fault("write") /\ ~mt.async /\ OrderedMergeFails /\ UNCHANGED <<base>>
  <2>1. WindowFails("write")
    BY SMT, <1>4, PhaseIs DEF Inv, MergeWrite, WindowFails
  <2> QED  BY <2>1, WindowFailsKeeps
<1> QED  BY SMT, <1>1, <1>2, <1>3, <1>4 DEF MergeWrite

(* What was merged is on storage before it is counted. *)
LEMMA MergeFsyncKeeps == ASSUME Inv, MergeFsync PROVE Inv'
<1>1. CASE /\ stored' = base /\ mt' = [mt EXCEPT !.pc = "commit"]
           /\ NoFault /\ UNCHANGED <<io_state, group>>
  <2>1. UNCHANGED << base, head, head_stored, scratch, scratch_stored, up, first, io_state,
        merge_initiated, resume_merge, populate, ra_started, serving, group, ios, map, window, ra,
        reader, crashes, faults>>
    BY SMT, <1>1 DEF MergeFsync
  <2>2. /\ mt.pc = "fsync"
        /\ stored' = base
        /\ mt'.pc = "commit"
        /\ mt'.next = mt.next
        /\ mt'.idx = mt.idx
        /\ mt'.done = mt.done
        /\ mt'.async = mt.async
    <3>1. /\ mt.pc = "fsync"
          /\ stored' = base
      BY SMT, <1>1 DEF Inv, MergeFsync, TypeOK
    <3>2. /\ mt'.pc = "commit"
          /\ mt'.next = mt.next
          /\ mt'.idx = mt.idx
          /\ mt'.done = mt.done
          /\ mt'.async = mt.async
      BY SMT, <1>1 DEF Inv, MergeFsync, TypeOK, MergeType
    <3> QED  BY <3>1, <3>2
  <2>3. TypeOK'
    <3>1. stored' \in [Blocks -> Values]
      BY SMT, <1>1, <2>2, Numbers, OpsTyped DEF Inv, TypeOK, MergeFsync
    <3>2. mt' \in MergeType
      <4>1. mt \in MergeType
        BY DEF Inv, TypeOK
      <4>2. mt' = [mt EXCEPT !.pc = "commit"]
        BY <1>1, Numbers DEF MergeFsync
      <4>3. "commit" \in MergeSteps
        BY SMT, <1>1, <2>2, Numbers DEF MergeSteps, RaSteps
      <4> QED  BY Zenon, <4>1, <4>2, <4>3 DEF MergeType
    <3> QED  BY <2>1, <3>1, <3>2 DEF Inv, TypeOK
  <2>4. Fields /\ Fields' /\ Flags /\ Flags' /\ Cells /\ Cells'
    BY <2>3, FieldsTyped, FieldsTypedNext DEF Inv
  <2>5. \A j : Group(j)' = Group(j)
    BY <2>1 DEF Group
  <2>6. \A j : Intact(j) => Intact(j)'
    BY <2>1, <2>2 DEF Intact
  <2>7. \A j : MergedUpTo(j) => MergedUpTo(j)'
    BY <2>1, <2>2 DEF MergedUpTo
  <2>8. \A a, w : Saved(a, w)' <=> Saved(a, w)
    BY <2>1 DEF Saved
  <2>9. \A a, w : Mapped(a, w)' <=> Mapped(a, w)
    BY <2>1 DEF Mapped
  <2>10.
        Fetched' /\ ReadersServe' /\ IosCounted' /\ Drained' /\ MapReady' /\ SlotsTrue' /\ Vouched' /\ ResumedMapped' /\ ResumedServed'
    BY <2>1, FetchedFrame, ReadersServeFrame, IosCountedFrame, DrainedFrame, MapReadyFrame,
        SlotsTrueFrame, VouchedFrame, ResumedMappedFrame, ResumedServedFrame DEF Inv
  <2>11. WindowLoaded'
    BY SMT, <2>1, <2>2, <2>8, <2>9 DEF Inv, WindowLoaded, Loaded
  <2>12. MergeBusy'
    BY SMT, <2>1, <2>2 DEF Inv, MergeBusy, DoneTrue, RaAlone, RaMayTake, GroupsTrue
  <2>13. WindowMerged'
    BY SMT, <2>1, <2>2 DEF Inv, WindowMerged, DoneTrue, WindowLoaded, RaAlone
  <2>14. DoneTrue'
    BY SMT, <2>1, <2>2, <2>4, Numbers DEF Inv, DoneTrue, WindowLoaded, Loaded, IsWindow
  <2>15. RaAlone'
    BY SMT, <2>1, <2>2 DEF Inv, RaAlone, RaMayTake, DoneTrue, Fetched, Ended
  <2>16. RaMayTake'
    BY SMT, <2>1, <2>2 DEF Inv, RaMayTake, WindowMerged, RaAlone, RaBegins, DoneTrue, Fetched,
        MergeBusy
  <2>17. RaBegins'
    BY SMT, <2>1, <2>2 DEF Inv, RaBegins, RaAlone, Down, Flags
  <2>18. RaCopies'
    BY SMT, <2>1, <2>2, <2>8 DEF Inv, RaCopies, RaMayTake, RaAlone, Fetched
  <2>19. RaSyncs'
    BY SMT, <2>1, <2>2, <2>8, <2>9 DEF Inv, RaSyncs, RaAlone, RaCopies, Fetched
  <2>20. Ended'
    BY SMT, <2>1, <2>2 DEF Inv, Ended, RaAlone, MergeBusy, Flags
  <2>21. BatchTurn'
    BY SMT, <2>1, <2>2 DEF Inv, BatchTurn, WindowMerged, DoneTrue, Fetched, RaAlone, WindowLoaded
  <2>22. Down'
    BY SMT, <2>1, <2>2 DEF Inv, Down, Flags
  <2>23. Aligned'
    <3>1. WindowsDone' = WindowsDone /\ MtStart' = MtStart
      BY SMT, <2>1, <2>2, <2>4, Numbers
    <3> QED  BY <3>1, <2>1, AlignedKept DEF Inv
  <2>24. GroupsTrue'
    BY SMT, <2>1, <2>2 DEF Inv, GroupsTrue, DoneTrue
  <2>25. Faultless'
    BY SMT, <2>1, <2>2 DEF Inv, Faultless, RaAlone, GroupsTrue, MapReady
  <2>26. Recoverable'
    BY SMT, <2>1, <2>2, <2>6 DEF Inv, Recoverable, WindowLoaded, DoneTrue, Cells
  <2>27. CountedMerged'
    BY SMT, <2>1, <2>2, <2>7 DEF Inv, CountedMerged
  <2>28. SessionMerged'
    BY SMT, <2>1, <2>2 DEF Inv, SessionMerged, DoneTrue
  <2>29. RaSources'
    BY SMT, <2>1, <2>2, <2>6 DEF Inv, RaSources, WindowLoaded, Fetched
  <2>30. ReadSources'
    BY SMT, <2>1, <2>2, <2>5, <2>6 DEF Inv, ReadSources, GroupsTrue, WindowLoaded
  <2>31. ResumedFirst'
    BY SMT, <2>1, <2>2 DEF Inv, ResumedFirst, RaAlone
  <2>32. ReadsTrue'
    BY SMT, <2>1, <2>2, <2>5, <2>6, GroupsIn, OrderedIs DEF Inv, ReadsTrue, ReadersServe
  <2> QED  BY <2>10, <2>3, <2>11, <2>12, <2>13, <2>14, <2>15, <2>16, <2>17, <2>18, <2>19, <2>20,
        <2>21, <2>22, <2>23, <2>24, <2>25, <2>26, <2>27, <2>28, <2>29, <2>30, <2>31, <2>32 DEF Inv
<1>2. CASE Fault("write") /\ mt.async /\ OrderedMergeFails /\ UNCHANGED <<stored>>
  <2>1. WindowRedone("write")
    BY SMT, <1>2, PhaseIs DEF Inv, MergeFsync, WindowRedone
  <2> QED  BY <2>1, WindowRedoneKeeps
<1>3. CASE Fault("write") /\ ~mt.async /\ OrderedMergeFails /\ UNCHANGED <<stored>>
  <2>1. WindowFails("write")
    BY SMT, <1>3, PhaseIs DEF Inv, MergeFsync, WindowFails
  <2> QED  BY <2>1, WindowFailsKeeps
<1> QED  BY SMT, <1>1, <1>2, <1>3 DEF MergeFsync

(* The header counts the window that was flushed; it still vouches for the scratch space. *)
LEMMA CommitCountKeeps == ASSUME Inv, CommitCount PROVE Inv'
<1>1. UNCHANGED << base, stored, head_stored, scratch, scratch_stored, up, first, io_state,
        merge_initiated, resume_merge, populate, ra_started, serving, group, ios, map, window, ra,
        reader, crashes, faults>>
  BY SMT DEF CommitCount
<1>2. /\ mt.pc = "commit"
      /\ head'.num = head.num + mt.done
      /\ head'.done = head.done
      /\ mt'.pc = "commit_state"
      /\ mt'.next = mt.next
      /\ mt'.idx = mt.idx
      /\ mt'.done = mt.done
      /\ mt'.async = mt.async
  <2>1. /\ mt.pc = "commit"
        /\ head'.num = head.num + mt.done
        /\ head'.done = head.done
    BY SMT DEF Inv, CommitCount, TypeOK
  <2>2. /\ mt'.pc = "commit_state"
        /\ mt'.next = mt.next
        /\ mt'.idx = mt.idx
        /\ mt'.done = mt.done
        /\ mt'.async = mt.async
    BY SMT DEF Inv, CommitCount, TypeOK, MergeType
  <2> QED  BY <2>1, <2>2
<1>3. TypeOK'
  <2>1. head' \in [num : Nat, done : BOOLEAN]
    <3>1. head \in [num : Nat, done : BOOLEAN]  BY DEF Inv, TypeOK
    <3>2. head' = [head EXCEPT !.num = head.num + mt.done]  BY DEF CommitCount
    <3>3. head.num + mt.done \in Nat  BY FieldsTyped DEF Inv
    <3> QED  BY <3>1, <3>2, <3>3
  <2>2. mt' \in MergeType
    <3>1. mt \in MergeType
      BY DEF Inv, TypeOK
    <3>2. mt' = [mt EXCEPT !.pc = "commit_state"]
      BY Numbers DEF CommitCount
    <3>3. "commit_state" \in MergeSteps
      BY SMT, <1>2, Numbers DEF MergeSteps, RaSteps
    <3> QED  BY Zenon, <3>1, <3>2, <3>3 DEF MergeType
  <2> QED  BY <1>1, <2>1, <2>2 DEF Inv, TypeOK
<1>4. Fields /\ Fields' /\ Flags /\ Flags' /\ Cells /\ Cells'
  BY <1>3, FieldsTyped, FieldsTypedNext DEF Inv
<1>5. \A j : Group(j)' = Group(j)
  BY <1>1 DEF Group
<1>6. \A a, w : Saved(a, w)' <=> Saved(a, w)
  BY <1>1 DEF Saved
<1>7. \A a, w : Mapped(a, w)' <=> Mapped(a, w)
  BY <1>1 DEF Mapped
<1>8. \A j : Intact(j)' <=> Intact(j)
  BY <1>1 DEF Intact
<1>9. \A j : MergedUpTo(j)' <=> MergedUpTo(j)
  BY <1>1 DEF MergedUpTo
<1>10.
        Fetched' /\ ReadersServe' /\ IosCounted' /\ Drained' /\ MapReady' /\ SlotsTrue' /\ RaSources' /\ ReadSources' /\ ResumedMapped' /\ ResumedServed' /\ ReadsTrue'
  BY <1>1, FetchedFrame, ReadersServeFrame, IosCountedFrame, DrainedFrame, MapReadyFrame,
        SlotsTrueFrame, RaSourcesFrame, ReadSourcesFrame, ResumedMappedFrame, ResumedServedFrame,
        ReadsTrueFrame DEF Inv
<1>11. head'.num = head.num + mt.done /\ head'.num \in Nat /\ head.num \in Nat /\ head'.num >= head.num
  BY <1>2, <1>4, CountTrue
<1>12. Counts(head', mt.next) /\ (OrderedAt(MtStart) => Covers(head'.num, MtStart))
  BY <1>2, CountTrue DEF Counts
<1>13. MtStart' = MtStart
  BY <1>2
<1>14. WindowLoaded'
  <2>1. AtWindow' => AtWindow  BY <1>2
  <2>2. Loaded /\ OrderedAt(MtStart) => Loaded'
    BY <1>1, <1>2, <1>6, <1>7, <1>12, <1>13 DEF Loaded, IsWindow
  <2> QED  BY <1>2, <2>1, <2>2 DEF Inv, WindowLoaded
<1>15. MergeBusy'
  BY SMT, <1>1, <1>2 DEF Inv, MergeBusy, DoneTrue, RaAlone, RaMayTake, GroupsTrue
<1>16. WindowMerged'
  BY SMT, <1>1, <1>2 DEF Inv, WindowMerged, DoneTrue, WindowLoaded, RaAlone
<1>17. DoneTrue'
  BY <1>1, <1>2, <1>12, <1>13 DEF Inv, DoneTrue
<1>18. RaAlone'
  BY SMT, <1>1, <1>2 DEF Inv, RaAlone, RaMayTake, DoneTrue, Fetched, Ended
<1>19. RaMayTake'
  BY SMT, <1>1, <1>2 DEF Inv, RaMayTake, WindowMerged, RaAlone, RaBegins, DoneTrue, Fetched,
        MergeBusy
<1>20. RaBegins'
  BY SMT, <1>1, <1>2 DEF Inv, RaBegins, RaAlone, Down, Flags
<1>21. RaCopies'
  BY SMT, <1>1, <1>2, <1>6 DEF Inv, RaCopies, RaMayTake, RaAlone, Fetched
<1>22. RaSyncs'
  BY SMT, <1>1, <1>2, <1>6, <1>7 DEF Inv, RaSyncs, RaAlone, RaCopies, Fetched
<1>23. Ended'
  BY SMT, <1>1, <1>2 DEF Inv, Ended, RaAlone, MergeBusy, Flags
<1>24. BatchTurn'
  BY SMT, <1>1, <1>2, <1>4, Numbers DEF Inv, BatchTurn, WindowMerged, DoneTrue, Fetched, RaAlone,
        WindowLoaded
<1>25. Down'
  BY SMT, <1>1, <1>2 DEF Inv, Down, Flags
<1>26. Aligned'
  <2>1. WindowsDone' = WindowsDone /\ MtStart' = MtStart
    BY SMT, <1>1, <1>2, <1>4, <1>11, <1>12, <1>13, Numbers
  <2> QED  BY <2>1, <1>1, AlignedKept DEF Inv
<1>27. GroupsTrue'
  BY SMT, <1>1, <1>2 DEF Inv, GroupsTrue
<1>28. Faultless'
  BY SMT, <1>1, <1>2 DEF Inv, Faultless, RaAlone, GroupsTrue, MapReady
<1>29. Vouched'
  <2>1. ASSUME head.done
        PROVE  /\ scratch_stored = scratch
               /\ \E a \in Indices, w \in Slots : IsWindow(a, w) /\ Saved(a, w) /\ Counts(head', a)
    <3>1. CASE OrderedAt(MtStart)
      <4>1. Loaded  BY <1>2, <3>1 DEF Inv, WindowLoaded
      <4>2. IsWindow(MtStart, window) /\ Saved(MtStart, window) /\ Counts(head', MtStart)
        BY <4>1, <3>1, <1>12 DEF Loaded
      <4>3. MtStart \in Indices /\ window \in Slots  BY <4>2 DEF IsWindow
      <4> QED  BY <4>2, <4>3, <2>1 DEF Inv, Vouched
    <3>2. CASE ~OrderedAt(MtStart)
      <4>1. \A i \in Indices : IsOrderedOp(i) => i <= head.num  BY <1>2, <3>2, CountTrue
      <4>2. \A a : Counts(head', a)  BY <4>1, <1>11, Numbers DEF Covers
      <4> QED  BY <4>2, <2>1 DEF Inv, Vouched
    <3> QED  BY <3>1, <3>2
  <2>2. Vouches(head)'
    BY <1>1, <1>2, <1>6, <2>1 DEF IsWindow
  <2>3. Vouches(head_stored)'
    BY <1>1, <1>6 DEF Inv, Vouched, IsWindow
  <2> QED  BY <2>2, <2>3 DEF Vouched
<1>30. Recoverable'
  <2>1. \A i \in Indices : i > head'.num => i > head.num  BY <1>11, Numbers
  <2> QED  BY <1>1, <1>2, <1>8, <2>1 DEF Inv, Recoverable
<1>31. CountedMerged'
  <2> SUFFICES ASSUME "commit" \notin faults.sites
               PROVE  MergedUpTo(head'.num) /\ head_stored.num <= head'.num /\ head'.num = mt.next - 1
    BY <1>1, <1>2, <1>9 DEF CountedMerged
  <2>1. up  BY <1>2 DEF Inv, Down
  <2>2. /\ MergedUpTo(head.num) /\ head_stored.num <= head.num /\ head.num = MtStart - 1
    BY <1>2, <2>1 DEF Inv, CountedMerged
  <2>3. first <= head.num /\ head'.num = mt.next - 1
    <3>1. WindowsDone + first + 1 <= MtStart  BY DEF Inv, Aligned
    <3>2. mt.next \in Nat /\ mt.done \in Nat /\ first \in Nat /\ mt.idx \in Nat /\ mt.idx > 0  BY <1>4
    <3> QED  BY <3>1, <3>2, <2>2, <1>2
  <2>4. ASSUME NEW i \in Indices, i <= head'.num
        PROVE  base[Ops[i].new] = Ops[i].src /\ stored[Ops[i].new] = Ops[i].src
    <3>1. CASE i <= head.num  BY <3>1, <2>2 DEF MergedUpTo
    <3>2. CASE ~(i <= head.num)
      <4>1. first \in Nat /\ mt.next \in Nat  BY <1>4
      <4>2. first < i /\ i < mt.next  BY <3>2, <4>1, <2>3, <2>4, <1>11, Numbers
      <4> QED  BY <4>2, <2>1, <1>2 DEF Inv, SessionMerged
    <3> QED  BY <3>1, <3>2
  <2>5. head_stored.num <= head'.num
    <3>1. head_stored.num \in Nat  BY <1>4
    <3> QED  BY <3>1, <2>2, <1>11
  <2> QED  BY <2>3, <2>4, <2>5 DEF MergedUpTo
<1>32. SessionMerged'
  BY SMT, <1>1, <1>2 DEF Inv, SessionMerged, DoneTrue
<1>33. ResumedFirst'
  BY SMT, <1>1, <1>2 DEF Inv, ResumedFirst, RaAlone
<1> QED  BY <1>10, <1>3, <1>14, <1>15, <1>16, <1>17, <1>18, <1>19, <1>20, <1>21, <1>22, <1>23,
        <1>24, <1>25, <1>26, <1>27, <1>28, <1>29, <1>30, <1>31, <1>32, <1>33 DEF Inv

(* It stops to vouch for it once nothing in it is needed. *)
LEMMA CommitStateKeeps == ASSUME Inv, CommitState PROVE Inv'
<1>1. UNCHANGED << base, stored, head_stored, scratch, scratch_stored, up, first, io_state,
        merge_initiated, resume_merge, populate, ra_started, serving, group, ios, map, window, ra,
        reader, crashes, faults>>
  BY SMT DEF CommitState
<1>2. /\ mt.pc = "commit_state"
      /\ head'.num = head.num
      /\ head'.done = (head.done /\ OrderedOps(first) = {})
      /\ mt'.pc = "commit_sync"
      /\ mt'.next = mt.next
      /\ mt'.idx = mt.idx
      /\ mt'.done = mt.done
      /\ mt'.async = mt.async
  <2>1. /\ mt.pc = "commit_state"
        /\ head'.num = head.num
        /\ head'.done = (head.done /\ OrderedOps(first) = {})
    BY SMT DEF Inv, CommitState, TypeOK
  <2>2. /\ mt'.pc = "commit_sync"
        /\ mt'.next = mt.next
        /\ mt'.idx = mt.idx
        /\ mt'.done = mt.done
        /\ mt'.async = mt.async
    BY SMT DEF Inv, CommitState, TypeOK, MergeType
  <2> QED  BY <2>1, <2>2
<1>3. TypeOK'
  <2>1. head' \in [num : Nat, done : BOOLEAN]
    <3>1. head \in [num : Nat, done : BOOLEAN]  BY DEF Inv, TypeOK
    <3>2. head' = [head EXCEPT !.done = head.done /\ OrderedOps(first) = {}]  BY DEF CommitState
    <3> QED  BY <3>1, <3>2
  <2>2. mt' \in MergeType
    <3>1. mt \in MergeType
      BY DEF Inv, TypeOK
    <3>2. mt' = [mt EXCEPT !.pc = "commit_sync"]
      BY Numbers DEF CommitState
    <3>3. "commit_sync" \in MergeSteps
      BY SMT, <1>2, Numbers DEF MergeSteps, RaSteps
    <3> QED  BY Zenon, <3>1, <3>2, <3>3 DEF MergeType
  <2> QED  BY <1>1, <2>1, <2>2 DEF Inv, TypeOK
<1>4. Fields /\ Fields' /\ Flags /\ Flags' /\ Cells /\ Cells'
  BY <1>3, FieldsTyped, FieldsTypedNext DEF Inv
<1>5. \A j : Group(j)' = Group(j)
  BY <1>1 DEF Group
<1>6. \A a, w : Saved(a, w)' <=> Saved(a, w)
  BY <1>1 DEF Saved
<1>7. \A a, w : Mapped(a, w)' <=> Mapped(a, w)
  BY <1>1 DEF Mapped
<1>8. \A j : Intact(j)' <=> Intact(j)
  BY <1>1 DEF Intact
<1>9. \A j : MergedUpTo(j)' <=> MergedUpTo(j)
  BY <1>1 DEF MergedUpTo
<1>10.
        Fetched' /\ ReadersServe' /\ IosCounted' /\ Drained' /\ MapReady' /\ SlotsTrue' /\ RaSources' /\ ReadSources' /\ ResumedMapped' /\ ResumedServed' /\ ReadsTrue'
  BY <1>1, FetchedFrame, ReadersServeFrame, IosCountedFrame, DrainedFrame, MapReadyFrame,
        SlotsTrueFrame, RaSourcesFrame, ReadSourcesFrame, ResumedMappedFrame, ResumedServedFrame,
        ReadsTrueFrame DEF Inv
<1>11. OrderedAt(MtStart) => Covers(head.num, MtStart) /\ ~head'.done
  BY <1>2, StateTrue
<1>12. MtStart' = MtStart
  BY <1>2
<1>13. WindowLoaded'
  <2>1. AtWindow' => AtWindow  BY <1>2
  <2>2. Loaded /\ OrderedAt(MtStart) => Loaded'
    BY <1>1, <1>2, <1>6, <1>7, <1>11, <1>12 DEF Loaded, IsWindow
  <2> QED  BY <1>2, <2>1, <2>2 DEF Inv, WindowLoaded
<1>14. MergeBusy'
  BY SMT, <1>1, <1>2 DEF Inv, MergeBusy, DoneTrue, RaAlone, RaMayTake, GroupsTrue
<1>15. WindowMerged'
  BY SMT, <1>1, <1>2 DEF Inv, WindowMerged, DoneTrue, WindowLoaded, RaAlone
<1>16. DoneTrue'
  BY <1>1, <1>2, <1>11, <1>12 DEF Inv, DoneTrue
<1>17. RaAlone'
  BY SMT, <1>1, <1>2 DEF Inv, RaAlone, RaMayTake, DoneTrue, Fetched, Ended
<1>18. RaMayTake'
  BY SMT, <1>1, <1>2 DEF Inv, RaMayTake, WindowMerged, RaAlone, RaBegins, DoneTrue, Fetched,
        MergeBusy
<1>19. RaBegins'
  BY SMT, <1>1, <1>2 DEF Inv, RaBegins, RaAlone, Down, Flags
<1>20. RaCopies'
  BY SMT, <1>1, <1>2, <1>6 DEF Inv, RaCopies, RaMayTake, RaAlone, Fetched
<1>21. RaSyncs'
  BY SMT, <1>1, <1>2, <1>6, <1>7 DEF Inv, RaSyncs, RaAlone, RaCopies, Fetched
<1>22. Ended'
  BY SMT, <1>1, <1>2 DEF Inv, Ended, RaAlone, MergeBusy, Flags
<1>23. BatchTurn'
  BY SMT, <1>1, <1>2 DEF Inv, BatchTurn, WindowMerged, DoneTrue, Fetched, RaAlone, WindowLoaded
<1>24. Down'
  BY SMT, <1>1, <1>2 DEF Inv, Down, Flags
<1>25. Aligned'
  <2>1. WindowsDone' = WindowsDone /\ MtStart' = MtStart
    BY SMT, <1>1, <1>2, <1>4, <1>11, <1>12, Numbers
  <2> QED  BY <2>1, <1>1, AlignedKept DEF Inv
<1>26. GroupsTrue'
  BY SMT, <1>1, <1>2 DEF Inv, GroupsTrue
<1>27. Faultless'
  BY SMT, <1>1, <1>2 DEF Inv, Faultless, RaAlone, GroupsTrue, MapReady
<1>28. Vouched'
  BY SMT, <1>1, <1>2, <1>4, <1>6, Numbers DEF Inv, Vouched, RaSyncs, RaCopies, RaAlone, Cells
<1>29. Recoverable'
  <2>1. \A i \in Indices : i > head.num /\ IsOrderedOp(i) => Intact(i)
    BY <1>2, StateTrue
  <2>2. Recovers(head)'
    BY <1>1, <1>2, <1>8, <2>1
  <2>3. Recovers(head_stored)'
    BY <1>1, <1>8 DEF Inv, Recoverable
  <2> QED  BY <2>2, <2>3 DEF Recoverable
<1>30. CountedMerged'
  BY SMT, <1>1, <1>2, <1>9 DEF Inv, CountedMerged
<1>31. SessionMerged'
  BY SMT, <1>1, <1>2 DEF Inv, SessionMerged, DoneTrue
<1>32. ResumedFirst'
  BY SMT, <1>1, <1>2 DEF Inv, ResumedFirst, RaAlone
<1> QED  BY <1>10, <1>3, <1>13, <1>14, <1>15, <1>16, <1>17, <1>18, <1>19, <1>20, <1>21, <1>22,
        <1>23, <1>24, <1>25, <1>26, <1>27, <1>28, <1>29, <1>30, <1>31, <1>32 DEF Inv

(* The header on storage counts the window or the batch. *)
LEMMA CommitSyncKeeps == ASSUME Inv, CommitSync PROVE Inv'
<1>1. CASE /\ head_stored' = head /\ IsOrderedOp(mt.next - 1)
           /\ mt' = [mt EXCEPT !.done = 0, !.pc = "completed"]
           /\ NoFault /\ UNCHANGED <<io_state, group>>
  <2>1. UNCHANGED << base, stored, head, scratch, scratch_stored, up, first, io_state,
        merge_initiated, resume_merge, populate, ra_started, serving, group, ios, map, window, ra,
        reader, crashes, faults>>
    BY SMT, <1>1 DEF CommitSync
  <2>2. /\ mt.pc = "commit_sync"
        /\ IsOrderedOp(mt.next - 1)
        /\ head_stored' = head
        /\ mt'.pc = "completed"
        /\ mt'.next = mt.next
        /\ mt'.idx = mt.idx
        /\ mt'.done = 0
        /\ mt'.async = mt.async
    <3>1. /\ mt.pc = "commit_sync"
          /\ IsOrderedOp(mt.next - 1)
          /\ head_stored' = head
      BY SMT, <1>1 DEF Inv, CommitSync, TypeOK
    <3>2. /\ mt'.pc = "completed"
          /\ mt'.next = mt.next
          /\ mt'.idx = mt.idx
          /\ mt'.done = 0
          /\ mt'.async = mt.async
      BY SMT, <1>1 DEF Inv, CommitSync, TypeOK, MergeType
    <3> QED  BY <3>1, <3>2
  <2>3. TypeOK'
    <3>1. head_stored' \in [num : Nat, done : BOOLEAN]
      BY SMT, <1>1, <2>2, Numbers, OpsTyped DEF Inv, TypeOK, CommitSync
    <3>2. mt' \in MergeType
      <4>1. mt \in MergeType
        BY DEF Inv, TypeOK
      <4>2. mt' = [mt EXCEPT !.done = 0, !.pc = "completed"]
        BY <1>1, Numbers DEF CommitSync
      <4>3. 0 \in 0..Len(Ops)
        BY SMT, <1>1, <2>2, Numbers DEF Inv, TypeOK, Positions, MergeType, RaType
      <4>4. "completed" \in MergeSteps
        BY SMT, <1>1, <2>2, Numbers DEF MergeSteps, RaSteps
      <4> QED  BY Zenon, <4>1, <4>2, <4>3, <4>4 DEF MergeType
    <3> QED  BY <2>1, <3>1, <3>2 DEF Inv, TypeOK
  <2>4. Fields /\ Fields' /\ Flags /\ Flags' /\ Cells /\ Cells'
    BY <2>3, FieldsTyped, FieldsTypedNext DEF Inv
  <2>5. \A j : Group(j)' = Group(j)
    BY <2>1 DEF Group
  <2>6. \A a, w : Saved(a, w)' <=> Saved(a, w)
    BY <2>1 DEF Saved
  <2>7. \A a, w : Mapped(a, w)' <=> Mapped(a, w)
    BY <2>1 DEF Mapped
  <2>8. \A j : Intact(j)' <=> Intact(j)
    BY <2>1 DEF Intact
  <2>9. \A j : MergedUpTo(j)' <=> MergedUpTo(j)
    BY <2>1 DEF MergedUpTo
  <2>10.
        Fetched' /\ ReadersServe' /\ IosCounted' /\ Drained' /\ MapReady' /\ SlotsTrue' /\ RaSources' /\ ReadSources' /\ ResumedMapped' /\ ResumedServed' /\ ReadsTrue'
    BY <2>1, FetchedFrame, ReadersServeFrame, IosCountedFrame, DrainedFrame, MapReadyFrame,
        SlotsTrueFrame, RaSourcesFrame, ReadSourcesFrame, ResumedMappedFrame, ResumedServedFrame,
        ReadsTrueFrame DEF Inv
  <2>11. OrderedAt(MtStart) /\ mt.done = window /\ Loaded
    BY <2>2, PhaseIs DEF Inv, DoneTrue, WindowLoaded
  <2>12. mt.next \in Nat /\ mt.next > 0 /\ mt.done \in Nat /\ mt.idx \in Nat /\ first \in Nat /\ window \in Nat
    BY <2>4
  <2>13. MtStart' = mt.next /\ WindowsDone' = mt.idx /\ WindowsDone = mt.idx - 1 /\ mt.next = MtStart + window
    BY <2>2, <2>12, <2>11
  <2>14. WindowLoaded'
    BY SMT, <2>1, <2>2, <2>6, <2>7 DEF Inv, WindowLoaded, Loaded
  <2>15. MergeBusy'
    <3>1. AtWindow  BY <2>2, <2>11
    <3> QED  BY <2>1, <3>1 DEF Inv, MergeBusy
  <2>16. WindowMerged'
    <3>1. /\ ra.pc \in {"read", "wait", "end"}
          /\ ra.pc # "end" => RaBegin = mt.next
      BY <2>11, <2>13 DEF Loaded
    <3>2. ~head.done /\ Counts(head, mt.next)  BY <2>2, <2>11 DEF Inv, DoneTrue
    <3> QED  BY <2>1, <2>2, <3>1, <3>2 DEF WindowMerged
  <2>17. DoneTrue'
    BY SMT, <2>1, <2>2, <2>4, Numbers DEF Inv, DoneTrue, WindowLoaded, BatchTurn
  <2>18. RaAlone'
    BY SMT, <2>1, <2>2 DEF Inv, RaAlone, RaMayTake, DoneTrue, Fetched, Ended
  <2>19. RaMayTake'
    BY SMT, <2>1, <2>2 DEF Inv, RaMayTake, WindowMerged, RaAlone, RaBegins, DoneTrue, Fetched,
        MergeBusy
  <2>20. RaBegins'
    BY SMT, <2>1, <2>2 DEF Inv, RaBegins, RaAlone, Down, Flags
  <2>21. RaCopies'
    BY SMT, <2>1, <2>2, <2>6 DEF Inv, RaCopies, RaMayTake, RaAlone, Fetched
  <2>22. RaSyncs'
    BY SMT, <2>1, <2>2, <2>6, <2>7 DEF Inv, RaSyncs, RaAlone, RaCopies, Fetched
  <2>23. Ended'
    BY SMT, <2>1, <2>2 DEF Inv, Ended, RaAlone, MergeBusy, Flags
  <2>24. BatchTurn'
    BY SMT, <2>1, <2>2 DEF Inv, BatchTurn, WindowMerged, DoneTrue, Fetched, RaAlone, WindowLoaded
  <2>25. Down'
    BY SMT, <2>1, <2>2 DEF Inv, Down, Flags
  <2>26. Aligned'
    <3>1. /\ MtStart = first + 1 + WindowsDone * WindowSize
          /\ WindowsDone + first + 1 <= MtStart
      BY <2>11 DEF Inv, Aligned
    <3>2. IsWindow(MtStart, window)  BY <2>11 DEF Loaded
    <3>3. window \in 1..WindowSize /\ (window = WindowSize \/ ~OrderedAt(mt.next))
      BY <3>2, <2>13 DEF IsWindow
    <3>4. ASSUME OrderedAt(mt.next) PROVE mt.next = first + 1 + mt.idx * WindowSize
      <4>1. (mt.idx - 1) * WindowSize + WindowSize = mt.idx * WindowSize  BY <2>12, Numbers
      <4>2. (mt.idx - 1) * WindowSize \in Int /\ mt.idx * WindowSize \in Int /\ window = WindowSize
        BY <2>12, Numbers, <3>3, <3>4
      <4>3. MtStart = first + 1 + (mt.idx - 1) * WindowSize  BY <3>1, <2>13
      <4>4. mt.next = MtStart + window  BY <2>13
      <4> HIDE DEF MtStart
      <4> QED  BY SMTT(30), <4>1, <4>2, <4>3, <4>4, <2>12, Numbers
    <3>5. ASSUME ~OrderedAt(mt.next), NEW i \in OrderedOps(first) PROVE Group(i) <= mt.idx
      <4>1. i \in Indices /\ IsOrderedOp(i) /\ i \in Nat  BY OrderedIs, Numbers
      <4>2. i < mt.next
        <5>1. ASSUME mt.next <= i PROVE FALSE
          <6>1. mt.next \in Indices  BY <5>1, <4>1, <2>12, Numbers
          <6> QED  BY <6>1, <5>1, <4>1, <3>5, OrderedFirst
        <5> QED  BY <5>1, <4>1, <2>12
      <4>3. i < MtStart + WindowSize
        BY <4>1, <4>2, <3>3, <2>13, <2>12, Numbers
      <4>4. Group(i) <= WindowsDone + 1  BY <4>3, <2>11, GroupsIn
      <4>6. WindowsDone = mt.idx - 1  BY <2>13
      <4> HIDE DEF WindowsDone
      <4>5. WindowsDone + 1 = mt.idx  BY <4>6, <2>12
      <4> QED  BY <4>4, <4>5
    <3>6. mt.idx + first + 1 <= mt.next
      <4>1. mt.idx - 1 + first + 1 <= mt.next - mt.done /\ mt.done >= 1  BY <3>1, <3>3, <2>13, <2>11
      <4> QED  BY <4>1, <2>12
    <3> QED  BY <2>1, <2>5, <2>13, <3>4, <3>5, <3>6 DEF Aligned
  <2>27. GroupsTrue'
    <3>1. \A g \in Indices : g = mt.idx => group[g] = "IN_PROGRESS"
      BY <2>2, <2>11 DEF Inv, GroupsTrue
    <3> QED  BY <2>1, <2>2, <3>1 DEF Inv, GroupsTrue
  <2>28. Faultless'
    BY SMT, <2>1, <2>2 DEF Inv, Faultless, RaAlone, GroupsTrue, MapReady
  <2>29. Vouched'
    BY SMT, <2>1, <2>2, <2>6 DEF Inv, Vouched, RaSyncs, RaCopies, RaAlone, Cells
  <2>30. Recoverable'
    BY SMT, <2>1, <2>2, <2>8 DEF Inv, Recoverable, WindowLoaded, DoneTrue, Cells
  <2>31. CountedMerged'
    BY SMT, <2>1, <2>2, <2>4, <2>9, Numbers DEF Inv, CountedMerged
  <2>32. SessionMerged'
    BY SMT, <2>1, <2>2 DEF Inv, SessionMerged, DoneTrue
  <2>33. ResumedFirst'
    BY SMT, <2>1, <2>2 DEF Inv, ResumedFirst, RaAlone
  <2> QED  BY <2>10, <2>3, <2>14, <2>15, <2>16, <2>17, <2>18, <2>19, <2>20, <2>21, <2>22, <2>23,
        <2>24, <2>25, <2>26, <2>27, <2>28, <2>29, <2>30, <2>31, <2>32, <2>33 DEF Inv
<1>2. CASE /\ head_stored' = head /\ ~IsOrderedOp(mt.next - 1)
           /\ mt' = [mt EXCEPT !.done = 0, !.pc = IF mt.done = BatchSize THEN "check" ELSE "replace"]
           /\ NoFault /\ UNCHANGED <<io_state, group>>
  <2>1. UNCHANGED << base, stored, head, scratch, scratch_stored, up, first, io_state,
        merge_initiated, resume_merge, populate, ra_started, serving, group, ios, map, window, ra,
        reader, crashes, faults>>
    BY SMT, <1>2 DEF CommitSync
  <2>2. /\ mt.pc = "commit_sync"
        /\ ~IsOrderedOp(mt.next - 1)
        /\ head_stored' = head
        /\ mt'.pc = IF mt.done = BatchSize THEN "check" ELSE "replace"
        /\ mt'.next = mt.next
        /\ mt'.idx = mt.idx
        /\ mt'.done = 0
        /\ mt'.async = mt.async
    <3>1. /\ mt.pc = "commit_sync"
          /\ ~IsOrderedOp(mt.next - 1)
          /\ head_stored' = head
      BY SMT, <1>2 DEF Inv, CommitSync, TypeOK
    <3>2. /\ mt'.pc = IF mt.done = BatchSize THEN "check" ELSE "replace"
          /\ mt'.next = mt.next
          /\ mt'.idx = mt.idx
          /\ mt'.done = 0
          /\ mt'.async = mt.async
      BY SMT, <1>2 DEF Inv, CommitSync, TypeOK, MergeType
    <3> QED  BY <3>1, <3>2
  <2>3. TypeOK'
    <3>1. head_stored' \in [num : Nat, done : BOOLEAN]
      BY SMT, <1>2, <2>2, Numbers, OpsTyped DEF Inv, TypeOK, CommitSync
    <3>2. mt' \in MergeType
      <4>1. mt \in MergeType
        BY DEF Inv, TypeOK
      <4>2. mt' = [mt EXCEPT !.done = 0, !.pc = IF mt.done = BatchSize THEN "check" ELSE "replace"]
        BY <1>2, Numbers DEF CommitSync
      <4>3. 0 \in 0..Len(Ops)
        BY SMT, <1>2, <2>2, Numbers DEF Inv, TypeOK, Positions, MergeType, RaType
      <4>4. (IF mt.done = BatchSize THEN "check" ELSE "replace") \in MergeSteps
        BY SMT, <1>2, <2>2, Numbers DEF MergeSteps, RaSteps
      <4> QED  BY Zenon, <4>1, <4>2, <4>3, <4>4 DEF MergeType
    <3> QED  BY <2>1, <3>1, <3>2 DEF Inv, TypeOK
  <2>4. Fields /\ Fields' /\ Flags /\ Flags' /\ Cells /\ Cells'
    BY <2>3, FieldsTyped, FieldsTypedNext DEF Inv
  <2>5. \A j : Group(j)' = Group(j)
    BY <2>1 DEF Group
  <2>6. \A a, w : Saved(a, w)' <=> Saved(a, w)
    BY <2>1 DEF Saved
  <2>7. \A a, w : Mapped(a, w)' <=> Mapped(a, w)
    BY <2>1 DEF Mapped
  <2>8. \A j : Intact(j)' <=> Intact(j)
    BY <2>1 DEF Intact
  <2>9. \A j : MergedUpTo(j)' <=> MergedUpTo(j)
    BY <2>1 DEF MergedUpTo
  <2>10.
        Fetched' /\ ReadersServe' /\ IosCounted' /\ Drained' /\ MapReady' /\ SlotsTrue' /\ RaSources' /\ ReadSources' /\ ResumedMapped' /\ ResumedServed' /\ ReadsTrue'
    BY <2>1, FetchedFrame, ReadersServeFrame, IosCountedFrame, DrainedFrame, MapReadyFrame,
        SlotsTrueFrame, RaSourcesFrame, ReadSourcesFrame, ResumedMappedFrame, ResumedServedFrame,
        ReadsTrueFrame DEF Inv
  <2>11. ~OrderedAt(MtStart)
    BY <2>2, PhaseIs
  <2>12. mt.next \in Nat /\ mt.done \in Nat /\ mt.idx \in Nat /\ first \in Nat
    BY <2>4
  <2>13. MtStart' = mt.next /\ WindowsDone' = WindowsDone /\ WindowsDone = mt.idx - 1
    BY <2>2, <2>12
  <2>14. /\ ra.pc = "end" /\ ~OrderedAt(mt.next)
         /\ \A i \in Indices : IsOrderedOp(i) => i <= head.num
    BY <2>2, <2>11 DEF Inv, BatchTurn
  <2>15. WindowLoaded'
    BY SMT, <2>1, <2>2, <2>6, <2>7 DEF Inv, WindowLoaded, Loaded
  <2>16. MergeBusy'
    BY SMT, <2>1, <2>2 DEF Inv, MergeBusy, DoneTrue, RaAlone, RaMayTake, GroupsTrue
  <2>17. WindowMerged'
    BY SMT, <2>1, <2>2 DEF Inv, WindowMerged, DoneTrue, WindowLoaded, RaAlone
  <2>18. DoneTrue'
    BY SMT, <2>1, <2>2, <2>4, Numbers DEF Inv, DoneTrue, WindowLoaded, BatchTurn
  <2>19. RaAlone'
    BY SMT, <2>1, <2>2 DEF Inv, RaAlone, RaMayTake, DoneTrue, Fetched, Ended
  <2>20. RaMayTake'
    BY SMT, <2>1, <2>2 DEF Inv, RaMayTake, WindowMerged, RaAlone, RaBegins, DoneTrue, Fetched,
        MergeBusy
  <2>21. RaBegins'
    BY SMT, <2>1, <2>2 DEF Inv, RaBegins, RaAlone, Down, Flags
  <2>22. RaCopies'
    BY SMT, <2>1, <2>2, <2>6 DEF Inv, RaCopies, RaMayTake, RaAlone, Fetched
  <2>23. RaSyncs'
    BY SMT, <2>1, <2>2, <2>6, <2>7 DEF Inv, RaSyncs, RaAlone, RaCopies, Fetched
  <2>24. Ended'
    BY SMT, <2>1, <2>2 DEF Inv, Ended, RaAlone, MergeBusy, Flags
  <2>25. BatchTurn'
    BY <2>1, <2>2, <2>13, <2>14 DEF BatchTurn
  <2>26. Down'
    BY SMT, <2>1, <2>2 DEF Inv, Down, Flags
  <2>27. Aligned'
    <3>1. \A i \in OrderedOps(first) : Group(i) <= WindowsDone  BY <2>11 DEF Inv, Aligned
    <3>2. WindowsDone + first + 1 <= MtStart  BY DEF Inv, Aligned
    <3>3. WindowsDone + first + 1 <= mt.next  BY <3>2, <2>12, <2>13
    <3> QED  BY <2>1, <2>5, <2>13, <2>14, <3>1, <3>3 DEF Aligned
  <2>28. GroupsTrue'
    <3>1. \A g \in Indices : g = mt.idx => group[g] = "PENDING"
      BY <2>2, <2>11 DEF Inv, GroupsTrue
    <3> QED  BY <2>1, <2>2, <3>1 DEF Inv, GroupsTrue
  <2>29. Faultless'
    BY SMT, <2>1, <2>2 DEF Inv, Faultless, RaAlone, GroupsTrue, MapReady
  <2>30. Vouched'
    BY SMT, <2>1, <2>2, <2>6 DEF Inv, Vouched, RaSyncs, RaCopies, RaAlone, Cells
  <2>31. Recoverable'
    BY SMT, <2>1, <2>2, <2>8 DEF Inv, Recoverable, WindowLoaded, DoneTrue, Cells
  <2>32. CountedMerged'
    BY SMT, <2>1, <2>2, <2>4, <2>9, Numbers DEF Inv, CountedMerged
  <2>33. SessionMerged'
    BY SMT, <2>1, <2>2 DEF Inv, SessionMerged, DoneTrue
  <2>34. ResumedFirst'
    BY SMT, <2>1, <2>2 DEF Inv, ResumedFirst, RaAlone
  <2> QED  BY <2>10, <2>3, <2>15, <2>16, <2>17, <2>18, <2>19, <2>20, <2>21, <2>22, <2>23, <2>24,
        <2>25, <2>26, <2>27, <2>28, <2>29, <2>30, <2>31, <2>32, <2>33, <2>34 DEF Inv
<1>3. CASE Fault("commit") /\ mt.async /\ OrderedMergeFails /\ IsOrderedOp(mt.next - 1) /\ UNCHANGED <<head_stored>>
  <2>1. WindowRedone("commit")
    BY SMT, <1>3, PhaseIs DEF Inv, CommitSync, WindowRedone
  <2> QED  BY <2>1, WindowRedoneKeeps
<1>4. CASE Fault("commit") /\ ~mt.async /\ OrderedMergeFails /\ IsOrderedOp(mt.next - 1) /\ UNCHANGED <<head_stored>>
  <2>1. WindowFails("commit")
    BY SMT, <1>4, PhaseIs DEF Inv, CommitSync, WindowFails
  <2> QED  BY <2>1, WindowFailsKeeps
<1>5. CASE Fault("commit") /\ ReplaceFails /\ ~IsOrderedOp(mt.next - 1) /\ UNCHANGED <<head_stored, group>>
  <2>1. BatchFails("commit")
    BY SMT, <1>5, PhaseIs DEF Inv, CommitSync, BatchFails
  <2> QED  BY <2>1, BatchFailsKeeps
<1>6. CASE IsOrderedOp(mt.next - 1)  BY <1>1, <1>3, <1>4, <1>6 DEF CommitSync
<1>7. CASE ~IsOrderedOp(mt.next - 1)  BY <1>2, <1>5, <1>7 DEF CommitSync
<1> QED  BY <1>6, <1>7

(* The readers may take the blocks of the window from the base device. *)
LEMMA SetMergeCompletedKeeps == ASSUME Inv, SetMergeCompleted PROVE Inv'
<1>1. UNCHANGED << base, stored, head, head_stored, scratch, scratch_stored, up, first, io_state,
        merge_initiated, resume_merge, populate, ra_started, serving, ios, map, window, ra, reader,
        crashes, faults>>
  BY SMT DEF SetMergeCompleted
<1>2. /\ mt.pc = "completed"
      /\ group' \in [Indices -> GroupStates]
      /\ \A g \in Indices : group'[g] = IF g = mt.idx THEN "COMPLETED" ELSE group[g]
      /\ mt'.pc = "notify"
      /\ mt'.next = mt.next
      /\ mt'.idx = mt.idx
      /\ mt'.done = mt.done
      /\ mt'.async = mt.async
  <2>1. mt.pc = "completed"
    BY SMT DEF Inv, SetMergeCompleted, TypeOK
  <2>2. /\ group' \in [Indices -> GroupStates]
        /\ \A g \in Indices : group'[g] = IF g = mt.idx THEN "COMPLETED" ELSE group[g]
    <3>1. group' = [group EXCEPT ![mt.idx] = "COMPLETED"]  BY DEF SetMergeCompleted
    <3>2. "COMPLETED" \in GroupStates  BY DEF GroupStates
    <3> QED  BY Zenon, <3>1, <3>2, GroupSet DEF Inv
  <2>3. /\ mt'.pc = "notify"
        /\ mt'.next = mt.next
        /\ mt'.idx = mt.idx
        /\ mt'.done = mt.done
        /\ mt'.async = mt.async
    BY SMT DEF Inv, SetMergeCompleted, TypeOK, MergeType
  <2> QED  BY <2>1, <2>2, <2>3
<1>3. TypeOK'
  <2>1. group' \in [Indices -> GroupStates]
    BY <1>2
  <2>2. mt' \in MergeType
    <3>1. mt \in MergeType
      BY DEF Inv, TypeOK
    <3>2. mt' = [mt EXCEPT !.pc = "notify"]
      BY Numbers DEF SetMergeCompleted
    <3>3. "notify" \in MergeSteps
      BY SMT, <1>2, Numbers DEF MergeSteps, RaSteps
    <3> QED  BY Zenon, <3>1, <3>2, <3>3 DEF MergeType
  <2> QED  BY <1>1, <2>1, <2>2 DEF Inv, TypeOK
<1>4. Fields /\ Fields' /\ Flags /\ Flags' /\ Cells /\ Cells'
  BY <1>3, FieldsTyped, FieldsTypedNext DEF Inv
<1>5. \A j : Group(j)' = Group(j)
  BY <1>1 DEF Group
<1>6. \A j \in OrderedOps(first) : /\ Group(j) \in Indices
                              /\ group'[Group(j)'] = IF Group(j) = mt.idx THEN "COMPLETED" ELSE group[Group(j)]
  BY <1>2, <1>5, GroupsIn
<1>7. \A a, w : Saved(a, w)' <=> Saved(a, w)
  BY <1>1 DEF Saved
<1>8. \A a, w : Mapped(a, w)' <=> Mapped(a, w)
  BY <1>1 DEF Mapped
<1>9. \A j : Intact(j)' <=> Intact(j)
  BY <1>1 DEF Intact
<1>10. \A j : MergedUpTo(j)' <=> MergedUpTo(j)
  BY <1>1 DEF MergedUpTo
<1>11.
        Fetched' /\ ReadersServe' /\ IosCounted' /\ SlotsTrue' /\ Vouched' /\ Recoverable' /\ RaSources' /\ ResumedServed' /\ ReadsTrue'
  BY <1>1, FetchedFrame, ReadersServeFrame, IosCountedFrame, SlotsTrueFrame, VouchedFrame,
        RecoverableFrame, RaSourcesFrame, ResumedServedFrame, ReadsTrueFrame DEF Inv
<1>12. WindowLoaded'
  BY SMT, <1>1, <1>2, <1>7, <1>8 DEF Inv, WindowLoaded, Loaded
<1>13. MergeBusy'
  BY SMT, <1>1, <1>2 DEF Inv, MergeBusy, DoneTrue, RaAlone, RaMayTake, GroupsTrue
<1>14. WindowMerged'
  BY SMT, <1>1, <1>2 DEF Inv, WindowMerged, DoneTrue, WindowLoaded, RaAlone
<1>15. DoneTrue'
  BY SMT, <1>1, <1>2 DEF Inv, DoneTrue, WindowLoaded, BatchTurn
<1>16. RaAlone'
  BY SMT, <1>1, <1>2 DEF Inv, RaAlone, RaMayTake, DoneTrue, Fetched, Ended
<1>17. RaMayTake'
  BY SMT, <1>1, <1>2 DEF Inv, RaMayTake, WindowMerged, RaAlone, RaBegins, DoneTrue, Fetched,
        MergeBusy
<1>18. RaBegins'
  BY SMT, <1>1, <1>2 DEF Inv, RaBegins, RaAlone, Down, Flags
<1>19. RaCopies'
  BY SMT, <1>1, <1>2, <1>7 DEF Inv, RaCopies, RaMayTake, RaAlone, Fetched
<1>20. RaSyncs'
  BY SMT, <1>1, <1>2, <1>7, <1>8 DEF Inv, RaSyncs, RaAlone, RaCopies, Fetched
<1>21. Ended'
  BY SMT, <1>1, <1>2 DEF Inv, Ended, RaAlone, MergeBusy, Flags
<1>22. BatchTurn'
  BY SMT, <1>1, <1>2 DEF Inv, BatchTurn, WindowMerged, DoneTrue, Fetched, RaAlone, WindowLoaded
<1>23. Down'
  BY SMT, <1>1, <1>2 DEF Inv, Down, Flags
<1>24. Aligned'
  <2>1. WindowsDone' = WindowsDone /\ MtStart' = MtStart
    BY SMT, <1>1, <1>2, <1>4, Numbers
  <2> QED  BY <2>1, <1>1, AlignedKept DEF Inv
<1>25. GroupsTrue'
  BY SMT, <1>1, <1>2 DEF Inv, GroupsTrue
<1>26. Drained'
  BY SMT, <1>1, <1>2, <1>5, <1>6 DEF Inv, Drained, GroupsTrue, ReadersServe
<1>27. MapReady'
  BY SMT, <1>1, <1>2, <1>5, <1>6 DEF Inv, MapReady, Cells
<1>28. Faultless'
  BY SMT, <1>1, <1>2 DEF Inv, Faultless, RaAlone, GroupsTrue, MapReady
<1>29. CountedMerged'
  BY SMT, <1>1, <1>2, <1>10 DEF Inv, CountedMerged
<1>30. SessionMerged'
  BY SMT, <1>1, <1>2 DEF Inv, SessionMerged, DoneTrue
<1>31. ReadSources'
  BY SMT, <1>1, <1>2, <1>5, <1>6, <1>9 DEF Inv, ReadSources, GroupsTrue, WindowLoaded
<1>32. ResumedFirst'
  BY SMT, <1>1, <1>2 DEF Inv, ResumedFirst, RaAlone
<1>33. ResumedMapped'
  BY SMT, <1>1, <1>2, <1>5, <1>6 DEF Inv, ResumedMapped, ResumedFirst, GroupsTrue
<1> QED  BY <1>11, <1>3, <1>12, <1>13, <1>14, <1>15, <1>16, <1>17, <1>18, <1>19, <1>20, <1>21,
        <1>22, <1>23, <1>24, <1>25, <1>26, <1>27, <1>28, <1>29, <1>30, <1>31, <1>32, <1>33 DEF Inv

(* The read-ahead thread may overwrite the scratch space. *)
LEMMA NotifyRAForMergeReadyKeeps == ASSUME Inv, NotifyRAForMergeReady PROVE Inv'
<1>1. UNCHANGED << base, stored, head, head_stored, scratch, scratch_stored, up, first,
        merge_initiated, resume_merge, populate, ra_started, serving, group, ios, map, window, ra,
        reader, crashes, faults>>
  BY SMT DEF NotifyRAForMergeReady
<1>2. /\ mt.pc = "notify"
      /\ io_state' = IF io_state \in {"READ_AHEAD_FAILURE", "IO_TERMINATED"} THEN io_state ELSE "MERGE_READY"
      /\ mt'.pc = "window"
      /\ mt'.next = mt.next
      /\ mt'.idx = mt.idx + 1
      /\ mt'.done = mt.done
      /\ mt'.async = mt.async
  <2>1. /\ mt.pc = "notify"
        /\ io_state' = IF io_state \in {"READ_AHEAD_FAILURE", "IO_TERMINATED"} THEN io_state ELSE "MERGE_READY"
    BY SMT DEF Inv, NotifyRAForMergeReady, TypeOK
  <2>2. /\ mt'.pc = "window"
        /\ mt'.next = mt.next
        /\ mt'.idx = mt.idx + 1
        /\ mt'.done = mt.done
        /\ mt'.async = mt.async
    BY SMT DEF Inv, NotifyRAForMergeReady, TypeOK, MergeType
  <2> QED  BY <2>1, <2>2
<1>3. TypeOK'
  <2>1. io_state' \in IoStates
    BY SMT, <1>2, Numbers, OpsTyped DEF Inv, TypeOK, NotifyRAForMergeReady, IoStates
  <2>2. mt' \in MergeType
    <3>1. mt \in MergeType
      BY DEF Inv, TypeOK
    <3>2. mt' = [mt EXCEPT !.pc = "window", !.idx = mt.idx + 1]
      BY Numbers DEF NotifyRAForMergeReady
    <3>3. "window" \in MergeSteps
      BY SMT, <1>2, Numbers DEF MergeSteps, RaSteps
    <3>4. mt.idx + 1 \in Positions
      BY <1>2, IndexIn, Numbers DEF Positions
    <3> QED  BY Zenon, <3>1, <3>2, <3>3, <3>4 DEF MergeType
  <2> QED  BY <1>1, <2>1, <2>2 DEF Inv, TypeOK
<1>4. Fields /\ Fields' /\ Flags /\ Flags' /\ Cells /\ Cells'
  BY <1>3, FieldsTyped, FieldsTypedNext DEF Inv
<1>5. \A j : Group(j)' = Group(j)
  BY <1>1 DEF Group
<1>6. \A a, w : Saved(a, w)' <=> Saved(a, w)
  BY <1>1 DEF Saved
<1>7. \A a, w : Mapped(a, w)' <=> Mapped(a, w)
  BY <1>1 DEF Mapped
<1>8. \A j : Intact(j)' <=> Intact(j)
  BY <1>1 DEF Intact
<1>9. \A j : MergedUpTo(j)' <=> MergedUpTo(j)
  BY <1>1 DEF MergedUpTo
<1>10.
        Fetched' /\ ReadersServe' /\ IosCounted' /\ Drained' /\ MapReady' /\ SlotsTrue' /\ Vouched' /\ Recoverable' /\ RaSources' /\ ReadSources' /\ ResumedMapped' /\ ResumedServed' /\ ReadsTrue'
  BY <1>1, FetchedFrame, ReadersServeFrame, IosCountedFrame, DrainedFrame, MapReadyFrame,
        SlotsTrueFrame, VouchedFrame, RecoverableFrame, RaSourcesFrame, ReadSourcesFrame,
        ResumedMappedFrame, ResumedServedFrame, ReadsTrueFrame DEF Inv
<1>11. WindowLoaded'
  BY SMT, <1>1, <1>2, <1>6, <1>7 DEF Inv, WindowLoaded, Loaded
<1>12. MergeBusy'
  BY SMT, <1>1, <1>2, <1>4, Numbers DEF Inv, MergeBusy, DoneTrue, RaAlone, RaMayTake, GroupsTrue
<1>13. WindowMerged'
  BY SMT, <1>1, <1>2 DEF Inv, WindowMerged, DoneTrue, WindowLoaded, RaAlone
<1>14. DoneTrue'
  BY SMT, <1>1, <1>2 DEF Inv, DoneTrue, WindowLoaded, BatchTurn
<1>15. RaAlone'
  BY SMT, <1>1, <1>2 DEF Inv, RaAlone, RaMayTake, DoneTrue, Fetched, Ended
<1>16. RaMayTake'
  <2>1. mt.idx \in Nat  BY <1>4
  <2>2. ~Redoes'  BY <1>1, <1>2, <2>1, Numbers DEF Inv, GroupsTrue
  <2> QED  BY <1>1, <1>2, <2>2 DEF Inv, RaMayTake, WindowMerged
<1>17. RaBegins'
  BY SMT, <1>1, <1>2 DEF Inv, RaBegins, RaAlone, Down, Flags
<1>18. RaCopies'
  BY SMT, <1>1, <1>2, <1>6 DEF Inv, RaCopies, RaMayTake, RaAlone, Fetched
<1>19. RaSyncs'
  BY SMT, <1>1, <1>2, <1>6, <1>7 DEF Inv, RaSyncs, RaAlone, RaCopies, Fetched
<1>20. Ended'
  BY SMT, <1>1, <1>2 DEF Inv, Ended, RaAlone, MergeBusy, Flags
<1>21. BatchTurn'
  <2>6. mt.next \in Nat /\ mt.next > 0 /\ mt.next <= Len(Ops) + 1 /\ head.num \in Nat  BY <1>4
  <2>1. mt.next \in 1..(Len(Ops) + 1) /\ head.num \in Nat  BY <2>6, Numbers
  <2>2. ~OrderedAt(mt.next) => ra.pc = "end"  BY <1>2 DEF Inv, WindowMerged, Fetched
  <2>3. ~OrderedAt(mt.next) => \A i \in Indices : IsOrderedOp(i) => i <= head.num
    BY <1>2, <2>1, CountsAll DEF Inv, WindowMerged
  <2>4. mt.done = 0 /\ head_stored = head  BY <1>2 DEF Inv, DoneTrue, WindowMerged
  <2>5. MtStart' = mt.next  BY <2>1, <2>4, <1>2
  <2> QED  BY <1>1, <1>2, <2>2, <2>3, <2>4, <2>5 DEF BatchTurn
<1>22. Down'
  BY SMT, <1>1, <1>2 DEF Inv, Down, Flags
<1>23. Aligned'
  <2>1. WindowsDone' = WindowsDone /\ MtStart' = MtStart
    BY SMT, <1>1, <1>2, <1>4, Numbers
  <2> QED  BY <2>1, <1>1, AlignedKept DEF Inv
<1>24. GroupsTrue'
  BY SMT, <1>1, <1>2, <1>4, Numbers DEF Inv, GroupsTrue
<1>25. Faultless'
  BY SMT, <1>1, <1>2 DEF Inv, Faultless, RaAlone, GroupsTrue, MapReady
<1>26. CountedMerged'
  BY SMT, <1>1, <1>2, <1>9 DEF Inv, CountedMerged
<1>27. SessionMerged'
  BY SMT, <1>1, <1>2 DEF Inv, SessionMerged, DoneTrue
<1>28. ResumedFirst'
  BY SMT, <1>1, <1>2, <1>4, Numbers DEF Inv, ResumedFirst, RaAlone
<1> QED  BY <1>10, <1>3, <1>11, <1>12, <1>13, <1>14, <1>15, <1>16, <1>17, <1>18, <1>19, <1>20,
        <1>21, <1>22, <1>23, <1>24, <1>25, <1>26, <1>27, <1>28 DEF Inv

(* When no ordered operation is left every window is merged. *)
LEMMA MergeOrderedOverKeeps == ASSUME Inv, MergeOrderedOver PROVE Inv'
<1>1. UNCHANGED << base, stored, head, head_stored, scratch, scratch_stored, up, first, io_state,
        merge_initiated, resume_merge, populate, ra_started, serving, group, ios, map, window, ra,
        reader, crashes, faults>>
  BY SMT DEF MergeOrderedOver
<1>2. /\ mt.pc = "window"
      /\ ~OrderedAt(mt.next)
      /\ mt'.pc = "replace"
      /\ mt'.next = mt.next
      /\ mt'.idx = mt.idx
      /\ mt'.done = 0
      /\ mt'.async = mt.async
  <2>1. /\ mt.pc = "window"
        /\ ~OrderedAt(mt.next)
    BY SMT DEF Inv, MergeOrderedOver, TypeOK
  <2>2. /\ mt'.pc = "replace"
        /\ mt'.next = mt.next
        /\ mt'.idx = mt.idx
        /\ mt'.done = 0
        /\ mt'.async = mt.async
    BY SMT DEF Inv, MergeOrderedOver, TypeOK, MergeType
  <2> QED  BY <2>1, <2>2
<1>3. TypeOK'
  <2>1. mt' \in MergeType
    <3>1. mt \in MergeType
      BY DEF Inv, TypeOK
    <3>2. mt' = [mt EXCEPT !.pc = "replace", !.done = 0]
      BY Numbers DEF MergeOrderedOver
    <3>3. "replace" \in MergeSteps
      BY SMT, <1>2, Numbers DEF MergeSteps, RaSteps
    <3>4. 0 \in 0..Len(Ops)
      BY SMT, <1>2, Numbers DEF Inv, TypeOK, Positions, MergeType, RaType
    <3> QED  BY Zenon, <3>1, <3>2, <3>3, <3>4 DEF MergeType
  <2> QED  BY <1>1, <2>1 DEF Inv, TypeOK
<1>4. Fields /\ Fields' /\ Flags /\ Flags' /\ Cells /\ Cells'
  BY <1>3, FieldsTyped, FieldsTypedNext DEF Inv
<1>5. \A j : Group(j)' = Group(j)
  BY <1>1 DEF Group
<1>6. \A a, w : Saved(a, w)' <=> Saved(a, w)
  BY <1>1 DEF Saved
<1>7. \A a, w : Mapped(a, w)' <=> Mapped(a, w)
  BY <1>1 DEF Mapped
<1>8. \A j : Intact(j)' <=> Intact(j)
  BY <1>1 DEF Intact
<1>9. \A j : MergedUpTo(j)' <=> MergedUpTo(j)
  BY <1>1 DEF MergedUpTo
<1>10.
        Fetched' /\ ReadersServe' /\ IosCounted' /\ Drained' /\ MapReady' /\ SlotsTrue' /\ Vouched' /\ Recoverable' /\ RaSources' /\ ReadSources' /\ ResumedMapped' /\ ResumedServed' /\ ReadsTrue'
  BY <1>1, FetchedFrame, ReadersServeFrame, IosCountedFrame, DrainedFrame, MapReadyFrame,
        SlotsTrueFrame, VouchedFrame, RecoverableFrame, RaSourcesFrame, ReadSourcesFrame,
        ResumedMappedFrame, ResumedServedFrame, ReadsTrueFrame DEF Inv
<1>11. MtStart' = MtStart
  BY <1>2, <1>4 DEF Inv, DoneTrue
<1>12. WindowLoaded'
  BY SMT, <1>1, <1>2, <1>6, <1>7, <1>11 DEF Inv, WindowLoaded, Loaded
<1>13. MergeBusy'
  BY SMT, <1>1, <1>2, <1>11 DEF Inv, MergeBusy, DoneTrue, RaAlone, RaMayTake, GroupsTrue
<1>14. WindowMerged'
  BY SMT, <1>1, <1>2 DEF Inv, WindowMerged, DoneTrue, WindowLoaded, RaAlone
<1>15. DoneTrue'
  BY SMT, <1>1, <1>2, <1>11 DEF Inv, DoneTrue, WindowLoaded, BatchTurn
<1>16. RaAlone'
  BY SMT, <1>1, <1>2, <1>11 DEF Inv, RaAlone, RaMayTake, DoneTrue, Fetched, Ended
<1>17. RaMayTake'
  BY SMT, <1>1, <1>2 DEF Inv, RaMayTake, WindowMerged, RaAlone, RaBegins, DoneTrue, Fetched,
        MergeBusy
<1>18. RaBegins'
  BY SMT, <1>1, <1>2 DEF Inv, RaBegins, RaAlone, Down, Flags
<1>19. RaCopies'
  BY SMT, <1>1, <1>2, <1>6 DEF Inv, RaCopies, RaMayTake, RaAlone, Fetched
<1>20. RaSyncs'
  BY SMT, <1>1, <1>2, <1>6, <1>7 DEF Inv, RaSyncs, RaAlone, RaCopies, Fetched
<1>21. Ended'
  BY SMT, <1>1, <1>2 DEF Inv, Ended, RaAlone, MergeBusy, Flags
<1>22. BatchTurn'
  BY SMT, <1>1, <1>2, <1>4, <1>11, Numbers DEF Inv, BatchTurn, Down, Flags
<1>23. Down'
  BY SMT, <1>1, <1>2 DEF Inv, Down, Flags
<1>24. Aligned'
  <2>1. WindowsDone' = WindowsDone /\ MtStart' = MtStart
    BY SMT, <1>1, <1>2, <1>4, <1>11, Numbers
  <2> QED  BY <2>1, <1>1, AlignedKept DEF Inv
<1>25. GroupsTrue'
  BY SMT, <1>1, <1>2, <1>11 DEF Inv, GroupsTrue
<1>26. Faultless'
  BY SMT, <1>1, <1>2 DEF Inv, Faultless, RaAlone, GroupsTrue, MapReady
<1>27. CountedMerged'
  BY SMT, <1>1, <1>2, <1>9, <1>11 DEF Inv, CountedMerged, DoneTrue
<1>28. SessionMerged'
  BY SMT, <1>1, <1>2, <1>11 DEF Inv, SessionMerged, DoneTrue
<1>29. ResumedFirst'
  BY SMT, <1>1, <1>2 DEF Inv, ResumedFirst, RaAlone
<1> QED  BY <1>10, <1>3, <1>12, <1>13, <1>14, <1>15, <1>16, <1>17, <1>18, <1>19, <1>20, <1>21,
        <1>22, <1>23, <1>24, <1>25, <1>26, <1>27, <1>28, <1>29 DEF Inv

(* Operations that depend on nothing destroy no source that is needed. *)
LEMMA MergeReplaceZeroOpsKeeps == ASSUME Inv, MergeReplaceZeroOps PROVE Inv'
<1>1. CASE /\ mt.next <= Len(Ops)
           /\ base' = [base EXCEPT ![Ops[mt.next].new] = Cow]
           /\ mt' = [mt EXCEPT !.next = @ + 1, !.done = @ + 1,
                               !.pc = IF mt.done + 1 = BatchSize THEN "flush" ELSE "check"]
           /\ NoFault /\ UNCHANGED io_state
  <2>1. UNCHANGED << stored, head, head_stored, scratch, scratch_stored, up, first, io_state,
        merge_initiated, resume_merge, populate, ra_started, serving, group, ios, map, window, ra,
        reader, crashes, faults>>
    BY SMT, <1>1 DEF MergeReplaceZeroOps
  <2>2. /\ mt.pc = "replace"
        /\ mt.next \in Indices
        /\ ~IsOrderedOp(mt.next)
        /\ \A b \in Blocks : base'[b] = IF b = Ops[mt.next].new THEN Ops[mt.next].src ELSE base[b]
        /\ mt'.pc = IF mt.done + 1 = BatchSize THEN "flush" ELSE "check"
        /\ mt'.next = mt.next + 1
        /\ mt'.idx = mt.idx
        /\ mt'.done = mt.done + 1
        /\ mt'.async = mt.async
    <3>1. mt.pc = "replace" /\ mt.next <= Len(Ops)  BY <1>1 DEF MergeReplaceZeroOps
    <3>7. mt.next \in Nat /\ mt.next > 0  BY FieldsTyped DEF Inv
    <3>2. mt.next \in Indices /\ ~IsOrderedOp(mt.next)
      BY <3>1, <3>7, ReplaceTrue, Numbers
    <3>4. Ops[mt.next].new \in Blocks /\ Ops[mt.next].src = Cow /\ Ops[mt.next].src \in Values
      BY <3>2, OpsTyped
    <3>3. base' = [base EXCEPT ![Ops[mt.next].new] = Ops[mt.next].src]  BY <1>1, <3>4
    <3>5. \A b \in Blocks : base'[b] = IF b = Ops[mt.next].new THEN Ops[mt.next].src ELSE base[b]
      BY <3>3, <3>4, BaseSet DEF Inv
    <3>6. mt'.pc = (IF mt.done + 1 = BatchSize THEN "flush" ELSE "check") /\ mt'.next = mt.next + 1
          /\ mt'.idx = mt.idx /\ mt'.done = mt.done + 1 /\ mt'.async = mt.async
      BY <1>1 DEF Inv, TypeOK, MergeType
    <3> QED  BY <3>1, <3>2, <3>5, <3>6
  <2>3. TypeOK'
    <3>1. base' \in [Blocks -> Values]
      <4>3. Ops[mt.next].new \in Blocks /\ Ops[mt.next].src = Cow /\ Ops[mt.next].src \in Values
        BY <2>2, OpsTyped
      <4>2. base' = [base EXCEPT ![Ops[mt.next].new] = Ops[mt.next].src]  BY <1>1, <4>3
      <4> QED  BY <4>2, <4>3, BaseSet DEF Inv
    <3>2. mt' \in MergeType
      <4>1. mt \in MergeType
        BY DEF Inv, TypeOK
      <4>2. mt' = [mt EXCEPT !.next = mt.next + 1, !.done = mt.done + 1, !.pc = IF mt.done + 1 = BatchSize THEN "flush" ELSE "check"]
        BY <1>1, Numbers DEF MergeReplaceZeroOps
      <4>3. mt.next + 1 \in Positions
          BY <2>2, Numbers DEF Positions
      <4>4. mt.done + 1 \in 0..Len(Ops)
          <5>1. mt.done \in Nat /\ mt.next \in Nat /\ mt.done < mt.next  BY FieldsTyped DEF Inv, DoneTrue
          <5>2. mt.next <= Len(Ops)  BY <2>2, Numbers
          <5> QED  BY <5>1, <5>2, Numbers
      <4>5. (IF mt.done + 1 = BatchSize THEN "flush" ELSE "check") \in MergeSteps
        BY SMT, <1>1, <2>2, Numbers DEF MergeSteps, RaSteps
      <4> QED  BY Zenon, <4>1, <4>2, <4>3, <4>4, <4>5 DEF MergeType
    <3> QED  BY <2>1, <3>1, <3>2 DEF Inv, TypeOK
  <2>4. Fields /\ Fields' /\ Flags /\ Flags' /\ Cells /\ Cells'
    BY <2>3, FieldsTyped, FieldsTypedNext DEF Inv
  <2>5. \A j : Group(j)' = Group(j)
    BY <2>1 DEF Group
  <2>6. \A a, w : Saved(a, w)' <=> Saved(a, w)
    BY <2>1 DEF Saved
  <2>7. \A a, w : Mapped(a, w)' <=> Mapped(a, w)
    BY <2>1 DEF Mapped
  <2>8.
        Fetched' /\ ReadersServe' /\ IosCounted' /\ Drained' /\ MapReady' /\ SlotsTrue' /\ Vouched' /\ ResumedMapped' /\ ResumedServed'
    BY <2>1, FetchedFrame, ReadersServeFrame, IosCountedFrame, DrainedFrame, MapReadyFrame,
        SlotsTrueFrame, VouchedFrame, ResumedMappedFrame, ResumedServedFrame DEF Inv
  <2>9. /\ ra.pc = "end" /\ ~OrderedAt(MtStart)
        /\ \A i \in Indices : IsOrderedOp(i) => i <= head.num /\ i <= head_stored.num
        /\ \A i \in OrderedOps(first) : Group(i) <= WindowsDone /\ group[Group(i)] = "COMPLETED"
    BY <2>2, ReplaceTrue
  <2>10. mt.next \in Nat /\ mt.done \in Nat /\ mt.next \in Indices
    BY <2>2, <2>4
  <2>11. mt'.next = mt.next + 1 /\ mt'.done = mt.done + 1
    BY <2>2
  <2>12. MtStart' = MtStart
    BY <2>11, <2>10
  <2>13. WindowsDone' = WindowsDone
    BY <2>2
  <2>14. ~OrderedAt(mt.next + 1)
    BY <2>2, <2>10, OrderedFirst
  <2>15. /\ \A n : MergedUpTo(n) => MergedUpTo(n)'
         /\ \A i \in Indices : base[Ops[i].new] = Ops[i].src => base'[Ops[i].new] = Ops[i].src
         /\ base'[Ops[mt.next].new] = Ops[mt.next].src
    BY <2>1, <2>2, Overwritten
  <2>16. WindowLoaded'
    BY <2>1, <2>2, <2>12, <2>9 DEF WindowLoaded
  <2>17. MergeBusy'
    BY <2>1, <2>2, <2>12, <2>9 DEF MergeBusy
  <2>18. WindowMerged'
    BY SMT, <2>1, <2>2 DEF Inv, WindowMerged, DoneTrue, WindowLoaded, RaAlone
  <2>19. DoneTrue'
    <3>1. mt.done < mt.next  BY DEF Inv, DoneTrue
    <3>2. mt'.done < mt'.next /\ mt'.done > 0  BY <2>2, <2>10, <3>1
    <3> QED  BY <2>1, <2>2, <2>12, <2>9, <3>2 DEF DoneTrue
  <2>20. RaAlone'
    BY SMT, <2>1, <2>2 DEF Inv, RaAlone, RaMayTake, DoneTrue, Fetched, Ended
  <2>21. RaMayTake'
    BY SMT, <2>1, <2>2 DEF Inv, RaMayTake, WindowMerged, RaAlone, RaBegins, DoneTrue, Fetched,
        MergeBusy
  <2>22. RaBegins'
    BY SMT, <2>1, <2>2 DEF Inv, RaBegins, RaAlone, Down, Flags
  <2>23. RaCopies'
    BY SMT, <2>1, <2>2, <2>6 DEF Inv, RaCopies, RaMayTake, RaAlone, Fetched
  <2>24. RaSyncs'
    BY SMT, <2>1, <2>2, <2>6, <2>7 DEF Inv, RaSyncs, RaAlone, RaCopies, Fetched
  <2>25. Ended'
    BY SMT, <2>1, <2>2 DEF Inv, Ended, RaAlone, MergeBusy, Flags
  <2>26. BatchTurn'
    BY <2>1, <2>2, <2>12, <2>9, <2>14 DEF BatchTurn
  <2>27. Down'
    BY SMT, <2>1, <2>2 DEF Inv, Down, Flags
  <2>28. Aligned'
    BY <2>1, <2>12, <2>13, AlignedKept DEF Inv
  <2>29. GroupsTrue'
    <3>1. \A g \in Indices : g = mt.idx => group[g] = "PENDING"
      BY <2>2 DEF Inv, GroupsTrue
    <3> QED  BY <2>1, <2>2, <2>12, <2>9, <3>1 DEF Inv, GroupsTrue
  <2>30. Faultless'
    BY SMT, <2>1, <2>2 DEF Inv, Faultless, RaAlone, GroupsTrue, MapReady
  <2>31. Recoverable'
    <3>1. head.num \in Nat /\ head_stored.num \in Nat  BY <2>4
    <3>2. \A i \in Indices : IsOrderedOp(i) => ~(i > head.num) /\ ~(i > head_stored.num)
      BY <2>9, <3>1, Numbers
    <3> QED  BY <2>1, <3>2 DEF Recoverable
  <2>32. CountedMerged'
    BY <2>1, <2>2, <2>12, <2>15 DEF Inv, CountedMerged
  <2>33. SessionMerged'
    <3>1. ASSUME up, NEW i \in Indices, first < i, i < mt.next + 1 PROVE base'[Ops[i].new] = Ops[i].src
      <4>1. CASE i = mt.next  BY <4>1, <2>15
      <4>2. CASE i # mt.next
        <5>1. i < mt.next  BY <4>2, <3>1, <2>10, Numbers
        <5> QED  BY <5>1, <3>1, <2>15 DEF Inv, SessionMerged
      <4> QED  BY <4>1, <4>2
    <3> QED  BY <2>1, <2>2, <3>1 DEF SessionMerged
  <2>34. RaSources'
    BY <2>1, <2>9 DEF RaSources
  <2>35. ReadSources'
    BY <2>1, <2>5, <2>9 DEF ReadSources
  <2>36. ResumedFirst'
    BY SMT, <2>1, <2>2 DEF Inv, ResumedFirst, RaAlone
  <2>37. ReadsTrue'
    <3>1. \A r \in Readers : reader[r].pc # "source"
      BY <2>9 DEF Inv, ReadersServe, Drained
    <3> QED  BY <2>1, <3>1 DEF Inv, ReadsTrue
  <2> QED  BY <2>8, <2>3, <2>16, <2>17, <2>18, <2>19, <2>20, <2>21, <2>22, <2>23, <2>24, <2>25,
        <2>26, <2>27, <2>28, <2>29, <2>30, <2>31, <2>32, <2>33, <2>34, <2>35, <2>36, <2>37 DEF Inv
<1>2. CASE /\ mt.next > Len(Ops) /\ mt.done > 0
           /\ mt' = [mt EXCEPT !.pc = "flush"]
           /\ NoFault /\ UNCHANGED <<base, io_state>>
  <2>1. UNCHANGED << base, stored, head, head_stored, scratch, scratch_stored, up, first, io_state,
        merge_initiated, resume_merge, populate, ra_started, serving, group, ios, map, window, ra,
        reader, crashes, faults>>
    BY SMT, <1>2 DEF MergeReplaceZeroOps
  <2>2. /\ mt.pc = "replace"
        /\ mt.done > 0
        /\ mt'.pc = "flush"
        /\ mt'.next = mt.next
        /\ mt'.idx = mt.idx
        /\ mt'.done = mt.done
        /\ mt'.async = mt.async
    <3>1. /\ mt.pc = "replace"
          /\ mt.done > 0
      BY SMT, <1>2 DEF Inv, MergeReplaceZeroOps, TypeOK
    <3>2. /\ mt'.pc = "flush"
          /\ mt'.next = mt.next
          /\ mt'.idx = mt.idx
          /\ mt'.done = mt.done
          /\ mt'.async = mt.async
      BY SMT, <1>2 DEF Inv, MergeReplaceZeroOps, TypeOK, MergeType
    <3> QED  BY <3>1, <3>2
  <2>3. TypeOK'
    <3>1. mt' \in MergeType
      <4>1. mt \in MergeType
        BY DEF Inv, TypeOK
      <4>2. mt' = [mt EXCEPT !.pc = "flush"]
        BY <1>2, Numbers DEF MergeReplaceZeroOps
      <4>3. "flush" \in MergeSteps
        BY SMT, <1>2, <2>2, Numbers DEF MergeSteps, RaSteps
      <4> QED  BY Zenon, <4>1, <4>2, <4>3 DEF MergeType
    <3> QED  BY <2>1, <3>1 DEF Inv, TypeOK
  <2>4. Fields /\ Fields' /\ Flags /\ Flags' /\ Cells /\ Cells'
    BY <2>3, FieldsTyped, FieldsTypedNext DEF Inv
  <2>5. \A j : Group(j)' = Group(j)
    BY <2>1 DEF Group
  <2>6. \A a, w : Saved(a, w)' <=> Saved(a, w)
    BY <2>1 DEF Saved
  <2>7. \A a, w : Mapped(a, w)' <=> Mapped(a, w)
    BY <2>1 DEF Mapped
  <2>8. \A j : Intact(j)' <=> Intact(j)
    BY <2>1 DEF Intact
  <2>9. \A j : MergedUpTo(j)' <=> MergedUpTo(j)
    BY <2>1 DEF MergedUpTo
  <2>10.
        Fetched' /\ ReadersServe' /\ IosCounted' /\ Drained' /\ MapReady' /\ SlotsTrue' /\ Vouched' /\ Recoverable' /\ RaSources' /\ ReadSources' /\ ResumedMapped' /\ ResumedServed' /\ ReadsTrue'
    BY <2>1, FetchedFrame, ReadersServeFrame, IosCountedFrame, DrainedFrame, MapReadyFrame,
        SlotsTrueFrame, VouchedFrame, RecoverableFrame, RaSourcesFrame, ReadSourcesFrame,
        ResumedMappedFrame, ResumedServedFrame, ReadsTrueFrame DEF Inv
  <2>11. WindowLoaded'
    BY SMT, <2>1, <2>2, <2>6, <2>7 DEF Inv, WindowLoaded, Loaded
  <2>12. MergeBusy'
    BY SMT, <2>1, <2>2 DEF Inv, MergeBusy, DoneTrue, RaAlone, RaMayTake, GroupsTrue
  <2>13. WindowMerged'
    BY SMT, <2>1, <2>2 DEF Inv, WindowMerged, DoneTrue, WindowLoaded, RaAlone
  <2>14. DoneTrue'
    BY SMT, <2>1, <2>2 DEF Inv, DoneTrue, WindowLoaded, BatchTurn
  <2>15. RaAlone'
    BY SMT, <2>1, <2>2 DEF Inv, RaAlone, RaMayTake, DoneTrue, Fetched, Ended
  <2>16. RaMayTake'
    BY SMT, <2>1, <2>2 DEF Inv, RaMayTake, WindowMerged, RaAlone, RaBegins, DoneTrue, Fetched,
        MergeBusy
  <2>17. RaBegins'
    BY SMT, <2>1, <2>2 DEF Inv, RaBegins, RaAlone, Down, Flags
  <2>18. RaCopies'
    BY SMT, <2>1, <2>2, <2>6 DEF Inv, RaCopies, RaMayTake, RaAlone, Fetched
  <2>19. RaSyncs'
    BY SMT, <2>1, <2>2, <2>6, <2>7 DEF Inv, RaSyncs, RaAlone, RaCopies, Fetched
  <2>20. Ended'
    BY SMT, <2>1, <2>2 DEF Inv, Ended, RaAlone, MergeBusy, Flags
  <2>21. BatchTurn'
    BY SMT, <2>1, <2>2 DEF Inv, BatchTurn, WindowMerged, DoneTrue, Fetched, RaAlone, WindowLoaded
  <2>22. Down'
    BY SMT, <2>1, <2>2 DEF Inv, Down, Flags
  <2>23. Aligned'
    <3>1. WindowsDone' = WindowsDone /\ MtStart' = MtStart
      BY SMT, <2>1, <2>2, <2>4, Numbers
    <3> QED  BY <3>1, <2>1, AlignedKept DEF Inv
  <2>24. GroupsTrue'
    BY SMT, <2>1, <2>2 DEF Inv, GroupsTrue
  <2>25. Faultless'
    BY SMT, <2>1, <2>2 DEF Inv, Faultless, RaAlone, GroupsTrue, MapReady
  <2>26. CountedMerged'
    BY SMT, <2>1, <2>2, <2>9 DEF Inv, CountedMerged
  <2>27. SessionMerged'
    BY SMT, <2>1, <2>2 DEF Inv, SessionMerged, DoneTrue
  <2>28. ResumedFirst'
    BY SMT, <2>1, <2>2 DEF Inv, ResumedFirst, RaAlone
  <2> QED  BY <2>10, <2>3, <2>11, <2>12, <2>13, <2>14, <2>15, <2>16, <2>17, <2>18, <2>19, <2>20,
        <2>21, <2>22, <2>23, <2>24, <2>25, <2>26, <2>27, <2>28 DEF Inv
<1>3. CASE /\ mt.next > Len(Ops) /\ mt.done = 0
           /\ mt' = [mt EXCEPT !.pc = "end"] /\ io_state' = "MERGE_COMPLETE"
           /\ NoFault /\ UNCHANGED base
  <2>1. UNCHANGED << base, stored, head, head_stored, scratch, scratch_stored, up, first,
        merge_initiated, resume_merge, populate, ra_started, serving, group, ios, map, window, ra,
        reader, crashes, faults>>
    BY SMT, <1>3 DEF MergeReplaceZeroOps
  <2>2. /\ mt.pc = "replace"
        /\ mt.done = 0
        /\ io_state' = "MERGE_COMPLETE"
        /\ mt'.pc = "end"
        /\ mt'.next = mt.next
        /\ mt'.idx = mt.idx
        /\ mt'.done = mt.done
        /\ mt'.async = mt.async
    <3>1. /\ mt.pc = "replace"
          /\ mt.done = 0
          /\ io_state' = "MERGE_COMPLETE"
      BY SMT, <1>3 DEF Inv, MergeReplaceZeroOps, TypeOK
    <3>2. /\ mt'.pc = "end"
          /\ mt'.next = mt.next
          /\ mt'.idx = mt.idx
          /\ mt'.done = mt.done
          /\ mt'.async = mt.async
      BY SMT, <1>3 DEF Inv, MergeReplaceZeroOps, TypeOK, MergeType
    <3> QED  BY <3>1, <3>2
  <2>3. TypeOK'
    <3>1. io_state' \in IoStates
      BY SMT, <1>3, <2>2, Numbers, OpsTyped DEF Inv, TypeOK, MergeReplaceZeroOps, IoStates
    <3>2. mt' \in MergeType
      <4>1. mt \in MergeType
        BY DEF Inv, TypeOK
      <4>2. mt' = [mt EXCEPT !.pc = "end"]
        BY <1>3, Numbers DEF MergeReplaceZeroOps
      <4>3. "end" \in MergeSteps
        BY SMT, <1>3, <2>2, Numbers DEF MergeSteps, RaSteps
      <4> QED  BY Zenon, <4>1, <4>2, <4>3 DEF MergeType
    <3> QED  BY <2>1, <3>1, <3>2 DEF Inv, TypeOK
  <2>4. Fields /\ Fields' /\ Flags /\ Flags' /\ Cells /\ Cells'
    BY <2>3, FieldsTyped, FieldsTypedNext DEF Inv
  <2>5. \A j : Group(j)' = Group(j)
    BY <2>1 DEF Group
  <2>6. \A a, w : Saved(a, w)' <=> Saved(a, w)
    BY <2>1 DEF Saved
  <2>7. \A a, w : Mapped(a, w)' <=> Mapped(a, w)
    BY <2>1 DEF Mapped
  <2>8. \A j : Intact(j)' <=> Intact(j)
    BY <2>1 DEF Intact
  <2>9. \A j : MergedUpTo(j)' <=> MergedUpTo(j)
    BY <2>1 DEF MergedUpTo
  <2>10.
        Fetched' /\ ReadersServe' /\ IosCounted' /\ Drained' /\ MapReady' /\ SlotsTrue' /\ Vouched' /\ Recoverable' /\ RaSources' /\ ReadSources' /\ ResumedMapped' /\ ResumedServed' /\ ReadsTrue'
    BY <2>1, FetchedFrame, ReadersServeFrame, IosCountedFrame, DrainedFrame, MapReadyFrame,
        SlotsTrueFrame, VouchedFrame, RecoverableFrame, RaSourcesFrame, ReadSourcesFrame,
        ResumedMappedFrame, ResumedServedFrame, ReadsTrueFrame DEF Inv
  <2>11. WindowLoaded'
    BY SMT, <2>1, <2>2, <2>6, <2>7 DEF Inv, WindowLoaded, Loaded
  <2>12. MergeBusy'
    BY SMT, <2>1, <2>2 DEF Inv, MergeBusy, DoneTrue, RaAlone, RaMayTake, GroupsTrue
  <2>13. WindowMerged'
    BY SMT, <2>1, <2>2 DEF Inv, WindowMerged, DoneTrue, WindowLoaded, RaAlone
  <2>14. DoneTrue'
    BY SMT, <2>1, <2>2 DEF Inv, DoneTrue, WindowLoaded, BatchTurn
  <2>15. RaAlone'
    BY SMT, <2>1, <2>2 DEF Inv, RaAlone, RaMayTake, DoneTrue, Fetched, Ended
  <2>16. RaMayTake'
    BY SMT, <2>1, <2>2 DEF Inv, RaMayTake, WindowMerged, RaAlone, RaBegins, DoneTrue, Fetched,
        MergeBusy
  <2>17. RaBegins'
    BY SMT, <2>1, <2>2 DEF Inv, RaBegins, RaAlone, Down, Flags
  <2>18. RaCopies'
    BY SMT, <2>1, <2>2, <2>6 DEF Inv, RaCopies, RaMayTake, RaAlone, Fetched
  <2>19. RaSyncs'
    BY SMT, <2>1, <2>2, <2>6, <2>7 DEF Inv, RaSyncs, RaAlone, RaCopies, Fetched
  <2>20. Ended'
    <3>1. ra.pc = "end"  BY <2>2, ReplaceTrue
    <3>2. merge_initiated  BY <2>2 DEF Inv, Ended
    <3> QED  BY <2>1, <2>2, <3>1, <3>2 DEF Ended
  <2>21. BatchTurn'
    BY SMT, <2>1, <2>2 DEF Inv, BatchTurn, WindowMerged, DoneTrue, Fetched, RaAlone, WindowLoaded
  <2>22. Down'
    BY SMT, <2>1, <2>2 DEF Inv, Down, Flags
  <2>23. Aligned'
    <3>1. WindowsDone' = WindowsDone /\ MtStart' = MtStart
      BY SMT, <2>1, <2>2, <2>4, Numbers
    <3> QED  BY <3>1, <2>1, AlignedKept DEF Inv
  <2>24. GroupsTrue'
    BY SMT, <2>1, <2>2 DEF Inv, GroupsTrue
  <2>25. Faultless'
    BY SMT, <2>1, <2>2 DEF Inv, Faultless, RaAlone, GroupsTrue, MapReady
  <2>26. CountedMerged'
    BY SMT, <2>1, <2>2, <2>9 DEF Inv, CountedMerged
  <2>27. SessionMerged'
    BY SMT, <2>1, <2>2 DEF Inv, SessionMerged, DoneTrue
  <2>28. ResumedFirst'
    BY SMT, <2>1, <2>2 DEF Inv, ResumedFirst, RaAlone
  <2> QED  BY <2>10, <2>3, <2>11, <2>12, <2>13, <2>14, <2>15, <2>16, <2>17, <2>18, <2>19, <2>20,
        <2>21, <2>22, <2>23, <2>24, <2>25, <2>26, <2>27, <2>28 DEF Inv
<1>4. CASE Fault("write") /\ ReplaceFails /\ UNCHANGED <<base>>
  <2>1. BatchFails("write")
    BY SMT, <1>4, PhaseIs DEF Inv, MergeReplaceZeroOps, BatchFails
  <2> QED  BY <2>1, BatchFailsKeeps
<1> QED  BY <1>1, <1>2, <1>3, <1>4 DEF MergeReplaceZeroOps

(* A batch is on storage before it is counted. *)
LEMMA ReplaceFlushKeeps == ASSUME Inv, ReplaceFlush PROVE Inv'
<1>1. CASE stored' = base /\ mt' = [mt EXCEPT !.pc = "commit"] /\ NoFault /\ UNCHANGED io_state
  <2>1. UNCHANGED << base, head, head_stored, scratch, scratch_stored, up, first, io_state,
        merge_initiated, resume_merge, populate, ra_started, serving, group, ios, map, window, ra,
        reader, crashes, faults>>
    BY SMT, <1>1 DEF ReplaceFlush
  <2>2. /\ mt.pc = "flush"
        /\ stored' = base
        /\ mt'.pc = "commit"
        /\ mt'.next = mt.next
        /\ mt'.idx = mt.idx
        /\ mt'.done = mt.done
        /\ mt'.async = mt.async
    <3>1. /\ mt.pc = "flush"
          /\ stored' = base
      BY SMT, <1>1 DEF Inv, ReplaceFlush, TypeOK
    <3>2. /\ mt'.pc = "commit"
          /\ mt'.next = mt.next
          /\ mt'.idx = mt.idx
          /\ mt'.done = mt.done
          /\ mt'.async = mt.async
      BY SMT, <1>1 DEF Inv, ReplaceFlush, TypeOK, MergeType
    <3> QED  BY <3>1, <3>2
  <2>3. TypeOK'
    <3>1. stored' \in [Blocks -> Values]
      BY SMT, <1>1, <2>2, Numbers, OpsTyped DEF Inv, TypeOK, ReplaceFlush
    <3>2. mt' \in MergeType
      <4>1. mt \in MergeType
        BY DEF Inv, TypeOK
      <4>2. mt' = [mt EXCEPT !.pc = "commit"]
        BY <1>1, Numbers DEF ReplaceFlush
      <4>3. "commit" \in MergeSteps
        BY SMT, <1>1, <2>2, Numbers DEF MergeSteps, RaSteps
      <4> QED  BY Zenon, <4>1, <4>2, <4>3 DEF MergeType
    <3> QED  BY <2>1, <3>1, <3>2 DEF Inv, TypeOK
  <2>4. Fields /\ Fields' /\ Flags /\ Flags' /\ Cells /\ Cells'
    BY <2>3, FieldsTyped, FieldsTypedNext DEF Inv
  <2>5. \A j : Group(j)' = Group(j)
    BY <2>1 DEF Group
  <2>6. \A j : Intact(j) => Intact(j)'
    BY <2>1, <2>2 DEF Intact
  <2>7. \A j : MergedUpTo(j) => MergedUpTo(j)'
    BY <2>1, <2>2 DEF MergedUpTo
  <2>8. \A a, w : Saved(a, w)' <=> Saved(a, w)
    BY <2>1 DEF Saved
  <2>9. \A a, w : Mapped(a, w)' <=> Mapped(a, w)
    BY <2>1 DEF Mapped
  <2>10.
        Fetched' /\ ReadersServe' /\ IosCounted' /\ Drained' /\ MapReady' /\ SlotsTrue' /\ Vouched' /\ ResumedMapped' /\ ResumedServed'
    BY <2>1, FetchedFrame, ReadersServeFrame, IosCountedFrame, DrainedFrame, MapReadyFrame,
        SlotsTrueFrame, VouchedFrame, ResumedMappedFrame, ResumedServedFrame DEF Inv
  <2>11. WindowLoaded'
    BY SMT, <2>1, <2>2, <2>8, <2>9 DEF Inv, WindowLoaded, BatchTurn
  <2>12. MergeBusy'
    BY SMT, <2>1, <2>2, <2>4, Numbers DEF Inv, MergeBusy, BatchTurn
  <2>13. WindowMerged'
    BY SMT, <2>1, <2>2 DEF Inv, WindowMerged, DoneTrue, WindowLoaded, RaAlone
  <2>14. DoneTrue'
    BY SMT, <2>1, <2>2 DEF Inv, DoneTrue, WindowLoaded, BatchTurn
  <2>15. RaAlone'
    BY SMT, <2>1, <2>2 DEF Inv, RaAlone, RaMayTake, DoneTrue, Fetched, Ended
  <2>16. RaMayTake'
    BY SMT, <2>1, <2>2 DEF Inv, RaMayTake, WindowMerged, RaAlone, RaBegins, DoneTrue, Fetched,
        MergeBusy
  <2>17. RaBegins'
    BY SMT, <2>1, <2>2 DEF Inv, RaBegins, RaAlone, Down, Flags
  <2>18. RaCopies'
    BY SMT, <2>1, <2>2, <2>8 DEF Inv, RaCopies, RaMayTake, RaAlone, Fetched
  <2>19. RaSyncs'
    BY SMT, <2>1, <2>2, <2>8, <2>9 DEF Inv, RaSyncs, RaAlone, RaCopies, Fetched
  <2>20. Ended'
    BY SMT, <2>1, <2>2 DEF Inv, Ended, RaAlone, MergeBusy, Flags
  <2>21. BatchTurn'
    BY SMT, <2>1, <2>2 DEF Inv, BatchTurn, WindowMerged, DoneTrue, Fetched, RaAlone, WindowLoaded
  <2>22. Down'
    BY SMT, <2>1, <2>2 DEF Inv, Down, Flags
  <2>23. Aligned'
    <3>1. WindowsDone' = WindowsDone /\ MtStart' = MtStart
      BY SMT, <2>1, <2>2, <2>4, Numbers
    <3> QED  BY <3>1, <2>1, AlignedKept DEF Inv
  <2>24. GroupsTrue'
    BY SMT, <2>1, <2>2 DEF Inv, GroupsTrue, BatchTurn
  <2>25. Faultless'
    BY SMT, <2>1, <2>2 DEF Inv, Faultless, RaAlone, GroupsTrue, MapReady
  <2>26. Recoverable'
    BY SMT, <2>1, <2>2, <2>6 DEF Inv, Recoverable, WindowLoaded, DoneTrue, Cells
  <2>27. CountedMerged'
    BY SMT, <2>1, <2>2, <2>7 DEF Inv, CountedMerged
  <2>28. SessionMerged'
    BY SMT, <2>1, <2>2 DEF Inv, SessionMerged, DoneTrue
  <2>29. RaSources'
    BY SMT, <2>1, <2>2, <2>6 DEF Inv, RaSources, WindowLoaded, Fetched
  <2>30. ReadSources'
    BY SMT, <2>1, <2>2, <2>5, <2>6 DEF Inv, ReadSources, GroupsTrue, WindowLoaded
  <2>31. ResumedFirst'
    BY SMT, <2>1, <2>2 DEF Inv, ResumedFirst, RaAlone
  <2>32. ReadsTrue'
    BY SMT, <2>1, <2>2, <2>5, <2>6, GroupsIn, OrderedIs DEF Inv, ReadsTrue, ReadersServe
  <2> QED  BY <2>10, <2>3, <2>11, <2>12, <2>13, <2>14, <2>15, <2>16, <2>17, <2>18, <2>19, <2>20,
        <2>21, <2>22, <2>23, <2>24, <2>25, <2>26, <2>27, <2>28, <2>29, <2>30, <2>31, <2>32 DEF Inv
<1>2. CASE Fault("write") /\ ReplaceFails /\ UNCHANGED <<stored>>
  <2>1. BatchFails("write")
    BY SMT, <1>2, PhaseIs DEF Inv, ReplaceFlush, BatchFails
  <2> QED  BY <2>1, BatchFailsKeeps
<1> QED  BY SMT, <1>1, <1>2 DEF ReplaceFlush

(* Between batches the merge may be stopped. *)
LEMMA ReplaceCheckKeeps == ASSUME Inv, ReplaceCheck PROVE Inv'
<1>1. CASE io_state = "IO_TERMINATED" /\ ReplaceFails
  <2>1. UNCHANGED << base, stored, head, head_stored, scratch, scratch_stored, up, first,
        merge_initiated, resume_merge, populate, ra_started, serving, group, ios, map, window, ra,
        reader, crashes, faults>>
    BY SMT, <1>1 DEF ReplaceCheck
  <2>2. /\ mt.pc = "check"
        /\ io_state = "IO_TERMINATED"
        /\ io_state' = "MERGE_FAILED"
        /\ mt'.pc = "end"
        /\ mt'.next = mt.next
        /\ mt'.idx = mt.idx
        /\ mt'.done = mt.done
        /\ mt'.async = mt.async
    <3>1. /\ mt.pc = "check"
          /\ io_state = "IO_TERMINATED"
          /\ io_state' = "MERGE_FAILED"
      BY SMT, <1>1 DEF Inv, ReplaceCheck, TypeOK
    <3>2. /\ mt'.pc = "end"
          /\ mt'.next = mt.next
          /\ mt'.idx = mt.idx
          /\ mt'.done = mt.done
          /\ mt'.async = mt.async
      BY SMT, <1>1 DEF Inv, ReplaceCheck, TypeOK, MergeType
    <3> QED  BY <3>1, <3>2
  <2>3. TypeOK'
    <3>1. io_state' \in IoStates
      BY SMT, <1>1, <2>2, Numbers, OpsTyped DEF Inv, TypeOK, ReplaceCheck, IoStates
    <3>2. mt' \in MergeType
      <4>1. mt \in MergeType
        BY DEF Inv, TypeOK
      <4>2. mt' = [mt EXCEPT !.pc = "end"]
        BY <1>1, Numbers DEF ReplaceCheck
      <4>3. "end" \in MergeSteps
        BY SMT, <1>1, <2>2, Numbers DEF MergeSteps, RaSteps
      <4> QED  BY Zenon, <4>1, <4>2, <4>3 DEF MergeType
    <3> QED  BY <2>1, <3>1, <3>2 DEF Inv, TypeOK
  <2>4. Fields /\ Fields' /\ Flags /\ Flags' /\ Cells /\ Cells'
    BY <2>3, FieldsTyped, FieldsTypedNext DEF Inv
  <2>5. \A j : Group(j)' = Group(j)
    BY <2>1 DEF Group
  <2>6. \A a, w : Saved(a, w)' <=> Saved(a, w)
    BY <2>1 DEF Saved
  <2>7. \A a, w : Mapped(a, w)' <=> Mapped(a, w)
    BY <2>1 DEF Mapped
  <2>8. \A j : Intact(j)' <=> Intact(j)
    BY <2>1 DEF Intact
  <2>9. \A j : MergedUpTo(j)' <=> MergedUpTo(j)
    BY <2>1 DEF MergedUpTo
  <2>10.
        Fetched' /\ ReadersServe' /\ IosCounted' /\ Drained' /\ MapReady' /\ SlotsTrue' /\ Vouched' /\ Recoverable' /\ RaSources' /\ ReadSources' /\ ResumedMapped' /\ ResumedServed' /\ ReadsTrue'
    BY <2>1, FetchedFrame, ReadersServeFrame, IosCountedFrame, DrainedFrame, MapReadyFrame,
        SlotsTrueFrame, VouchedFrame, RecoverableFrame, RaSourcesFrame, ReadSourcesFrame,
        ResumedMappedFrame, ResumedServedFrame, ReadsTrueFrame DEF Inv
  <2>11. WindowLoaded'
    BY SMT, <2>1, <2>2, <2>6, <2>7 DEF Inv, WindowLoaded, Loaded
  <2>12. MergeBusy'
    BY SMT, <2>1, <2>2 DEF Inv, MergeBusy, DoneTrue, RaAlone, RaMayTake, GroupsTrue
  <2>13. WindowMerged'
    BY SMT, <2>1, <2>2 DEF Inv, WindowMerged, DoneTrue, WindowLoaded, RaAlone
  <2>14. DoneTrue'
    BY SMT, <2>1, <2>2 DEF Inv, DoneTrue, WindowLoaded, BatchTurn
  <2>15. RaAlone'
    BY SMT, <2>1, <2>2 DEF Inv, RaAlone, RaMayTake, DoneTrue, Fetched, Ended
  <2>16. RaMayTake'
    BY SMT, <2>1, <2>2 DEF Inv, RaMayTake, WindowMerged, RaAlone, RaBegins, DoneTrue, Fetched,
        MergeBusy
  <2>17. RaBegins'
    BY SMT, <2>1, <2>2 DEF Inv, RaBegins, RaAlone, Down, Flags
  <2>18. RaCopies'
    BY SMT, <2>1, <2>2, <2>6 DEF Inv, RaCopies, RaMayTake, RaAlone, Fetched
  <2>19. RaSyncs'
    BY SMT, <2>1, <2>2, <2>6, <2>7 DEF Inv, RaSyncs, RaAlone, RaCopies, Fetched
  <2>20. Ended'
    BY SMT, <2>1, <2>2 DEF Inv, Ended, RaAlone, MergeBusy, Flags
  <2>21. BatchTurn'
    BY SMT, <2>1, <2>2 DEF Inv, BatchTurn, WindowMerged, DoneTrue, Fetched, RaAlone, WindowLoaded
  <2>22. Down'
    BY SMT, <2>1, <2>2 DEF Inv, Down, Flags
  <2>23. Aligned'
    <3>1. WindowsDone' = WindowsDone /\ MtStart' = MtStart
      BY SMT, <2>1, <2>2, <2>4, Numbers
    <3> QED  BY <3>1, <2>1, AlignedKept DEF Inv
  <2>24. GroupsTrue'
    BY SMT, <2>1, <2>2 DEF Inv, GroupsTrue
  <2>25. Faultless'
    BY SMT, <2>1, <2>2 DEF Inv, Faultless, RaAlone, GroupsTrue, MapReady
  <2>26. CountedMerged'
    BY SMT, <2>1, <2>2, <2>9 DEF Inv, CountedMerged
  <2>27. SessionMerged'
    BY SMT, <2>1, <2>2 DEF Inv, SessionMerged, DoneTrue
  <2>28. ResumedFirst'
    BY SMT, <2>1, <2>2 DEF Inv, ResumedFirst, RaAlone
  <2> QED  BY <2>10, <2>3, <2>11, <2>12, <2>13, <2>14, <2>15, <2>16, <2>17, <2>18, <2>19, <2>20,
        <2>21, <2>22, <2>23, <2>24, <2>25, <2>26, <2>27, <2>28 DEF Inv
<1>2. CASE mt' = [mt EXCEPT !.pc = "replace"] /\ UNCHANGED io_state
  <2>1. UNCHANGED << base, stored, head, head_stored, scratch, scratch_stored, up, first, io_state,
        merge_initiated, resume_merge, populate, ra_started, serving, group, ios, map, window, ra,
        reader, crashes, faults>>
    BY SMT, <1>2 DEF ReplaceCheck
  <2>2. /\ mt.pc = "check"
        /\ mt'.pc = "replace"
        /\ mt'.next = mt.next
        /\ mt'.idx = mt.idx
        /\ mt'.done = mt.done
        /\ mt'.async = mt.async
    <3>1. mt.pc = "check"
      BY SMT, <1>2 DEF Inv, ReplaceCheck, TypeOK
    <3>2. /\ mt'.pc = "replace"
          /\ mt'.next = mt.next
          /\ mt'.idx = mt.idx
          /\ mt'.done = mt.done
          /\ mt'.async = mt.async
      BY SMT, <1>2 DEF Inv, ReplaceCheck, TypeOK, MergeType
    <3> QED  BY <3>1, <3>2
  <2>3. TypeOK'
    <3>1. mt' \in MergeType
      <4>1. mt \in MergeType
        BY DEF Inv, TypeOK
      <4>2. mt' = [mt EXCEPT !.pc = "replace"]
        BY <1>2, Numbers DEF ReplaceCheck
      <4>3. "replace" \in MergeSteps
        BY SMT, <1>2, <2>2, Numbers DEF MergeSteps, RaSteps
      <4> QED  BY Zenon, <4>1, <4>2, <4>3 DEF MergeType
    <3> QED  BY <2>1, <3>1 DEF Inv, TypeOK
  <2>4. Fields /\ Fields' /\ Flags /\ Flags' /\ Cells /\ Cells'
    BY <2>3, FieldsTyped, FieldsTypedNext DEF Inv
  <2>5. \A j : Group(j)' = Group(j)
    BY <2>1 DEF Group
  <2>6. \A a, w : Saved(a, w)' <=> Saved(a, w)
    BY <2>1 DEF Saved
  <2>7. \A a, w : Mapped(a, w)' <=> Mapped(a, w)
    BY <2>1 DEF Mapped
  <2>8. \A j : Intact(j)' <=> Intact(j)
    BY <2>1 DEF Intact
  <2>9. \A j : MergedUpTo(j)' <=> MergedUpTo(j)
    BY <2>1 DEF MergedUpTo
  <2>10.
        Fetched' /\ ReadersServe' /\ IosCounted' /\ Drained' /\ MapReady' /\ SlotsTrue' /\ Vouched' /\ Recoverable' /\ RaSources' /\ ReadSources' /\ ResumedMapped' /\ ResumedServed' /\ ReadsTrue'
    BY <2>1, FetchedFrame, ReadersServeFrame, IosCountedFrame, DrainedFrame, MapReadyFrame,
        SlotsTrueFrame, VouchedFrame, RecoverableFrame, RaSourcesFrame, ReadSourcesFrame,
        ResumedMappedFrame, ResumedServedFrame, ReadsTrueFrame DEF Inv
  <2>11. WindowLoaded'
    BY SMT, <2>1, <2>2, <2>6, <2>7 DEF Inv, WindowLoaded, Loaded
  <2>12. MergeBusy'
    BY SMT, <2>1, <2>2 DEF Inv, MergeBusy, DoneTrue, RaAlone, RaMayTake, GroupsTrue
  <2>13. WindowMerged'
    BY SMT, <2>1, <2>2 DEF Inv, WindowMerged, DoneTrue, WindowLoaded, RaAlone
  <2>14. DoneTrue'
    BY SMT, <2>1, <2>2 DEF Inv, DoneTrue, WindowLoaded, BatchTurn
  <2>15. RaAlone'
    BY SMT, <2>1, <2>2 DEF Inv, RaAlone, RaMayTake, DoneTrue, Fetched, Ended
  <2>16. RaMayTake'
    BY SMT, <2>1, <2>2 DEF Inv, RaMayTake, WindowMerged, RaAlone, RaBegins, DoneTrue, Fetched,
        MergeBusy
  <2>17. RaBegins'
    BY SMT, <2>1, <2>2 DEF Inv, RaBegins, RaAlone, Down, Flags
  <2>18. RaCopies'
    BY SMT, <2>1, <2>2, <2>6 DEF Inv, RaCopies, RaMayTake, RaAlone, Fetched
  <2>19. RaSyncs'
    BY SMT, <2>1, <2>2, <2>6, <2>7 DEF Inv, RaSyncs, RaAlone, RaCopies, Fetched
  <2>20. Ended'
    BY SMT, <2>1, <2>2 DEF Inv, Ended, RaAlone, MergeBusy, Flags
  <2>21. BatchTurn'
    BY SMT, <2>1, <2>2 DEF Inv, BatchTurn, WindowMerged, DoneTrue, Fetched, RaAlone, WindowLoaded
  <2>22. Down'
    BY SMT, <2>1, <2>2 DEF Inv, Down, Flags
  <2>23. Aligned'
    <3>1. WindowsDone' = WindowsDone /\ MtStart' = MtStart
      BY SMT, <2>1, <2>2, <2>4, Numbers
    <3> QED  BY <3>1, <2>1, AlignedKept DEF Inv
  <2>24. GroupsTrue'
    BY SMT, <2>1, <2>2 DEF Inv, GroupsTrue
  <2>25. Faultless'
    BY SMT, <2>1, <2>2 DEF Inv, Faultless, RaAlone, GroupsTrue, MapReady
  <2>26. CountedMerged'
    BY SMT, <2>1, <2>2, <2>9 DEF Inv, CountedMerged
  <2>27. SessionMerged'
    BY SMT, <2>1, <2>2 DEF Inv, SessionMerged, DoneTrue
  <2>28. ResumedFirst'
    BY SMT, <2>1, <2>2 DEF Inv, ResumedFirst, RaAlone
  <2> QED  BY <2>10, <2>3, <2>11, <2>12, <2>13, <2>14, <2>15, <2>16, <2>17, <2>18, <2>19, <2>20,
        <2>21, <2>22, <2>23, <2>24, <2>25, <2>26, <2>27, <2>28 DEF Inv
<1> QED  BY SMT, <1>1, <1>2 DEF ReplaceCheck

-----------------------------------------------------------------------------
(* The invariant holds at first, and every step keeps it. *)

LEMMA InitInv == Init => Inv
<1> SUFFICES ASSUME Init PROVE Inv  OBVIOUS
<1>1. TypeOK
  <2>1. base \in [Blocks -> Values] /\ stored \in [Blocks -> Values]  BY OpsTyped DEF Init
  <2>2. {head, head_stored} \subseteq [num : Nat, done : BOOLEAN]  BY DEF Init
  <2>3. {scratch, scratch_stored} \subseteq [Slots -> [op : Indices \cup {0}, val : Values]]
    BY OpsTyped DEF Init
  <2>4. {up, merge_initiated, resume_merge, populate, ra_started} \subseteq BOOLEAN  BY DEF Init
  <2>5. first \in Nat /\ io_state \in IoStates /\ serving \in {"no", "waiting", "yes", "over"}
    BY DEF Init, IoStates
  <2>6. group \in [Indices -> GroupStates]  BY DEF Init, GroupStates
  <2>7. ios \in [Indices -> 0..Cardinality(Readers)]
    <3>1. Cardinality(Readers) \in Nat  BY ReadersAssumption, FS_CardinalityType
    <3> QED  BY <3>1 DEF Init
  <2>8. map \in [Indices -> 0..WindowSize] /\ window \in 0..WindowSize  BY Numbers DEF Init
  <2>9. ra \in RaType /\ Len(ra.temp) <= WindowSize
    <3>1. 1 \in Positions  BY Numbers DEF Positions
    <3>2. << >> \in Seq([op : Indices, val : Values])  OBVIOUS
    <3>3. RaIdle \in RaType  BY <3>1, <3>2 DEF RaIdle, RaType, RaSteps
    <3>4. Len(ra.temp) = 0  BY DEF Init, RaIdle
    <3> QED  BY <3>3, <3>4, Numbers DEF Init
  <2>10. mt \in MergeType
    <3>1. 1 \in Positions /\ 0 \in 0..Len(Ops)  BY Numbers DEF Positions
    <3> QED  BY <3>1 DEF Init, MergeIdle, MergeType, MergeSteps
  <2>11. reader \in [Readers -> ReaderType]  BY OpsTyped DEF Init, ReaderIdle, ReaderType, ReaderSteps
  <2>12. crashes \in 0..MaxCrashes /\ faults \in [count : 0..MaxFaults, sites : SUBSET Marked]
    BY SizesAssumption DEF Init
  <2> QED  BY <2>1, <2>2, <2>3, <2>4, <2>5, <2>6, <2>7, <2>8, <2>9, <2>10, <2>11, <2>12 DEF TypeOK
<1>2. /\ mt.pc = "end" /\ mt.next = 1 /\ mt.idx = 1 /\ mt.done = 0
      /\ ra.pc = "end" /\ ra.next = 1 /\ ra.temp = << >> /\ ra.resumed = FALSE
      /\ \A r \in Readers : reader[r].pc = "idle"
      /\ up = FALSE /\ first = 0 /\ io_state = "INVALID" /\ serving = "no"
      /\ head.num = 0 /\ head.done = FALSE /\ head_stored = head /\ stored = base
      /\ merge_initiated = FALSE /\ resume_merge = FALSE /\ populate = FALSE /\ ra_started = FALSE
      /\ \A g \in Indices : group[g] = "PENDING" /\ ios[g] = 0 /\ map[g] = 0
      /\ \A k \in Slots : scratch[k].op = 0 /\ scratch_stored[k].op = 0
      /\ \A b \in Blocks : base[b] = b
  BY DEF Init, RaIdle, MergeIdle, ReaderIdle
<1>3. Len(ra.temp) = 0 /\ 1..Len(ra.temp) = {}  BY <1>2
<1>4. MtStart = 1 /\ WindowsDone = 0 /\ RaBegin = 1  BY <1>2, <1>3
<1>5. WindowLoaded /\ MergeBusy /\ WindowMerged /\ DoneTrue /\ RaAlone /\ RaMayTake /\ RaBegins /\ RaCopies
      /\ RaSyncs
  BY <1>2 DEF WindowLoaded, MergeBusy, WindowMerged, DoneTrue, RaAlone, RaMayTake, RaBegins, RaCopies, RaSyncs
<1>6. Fetched  BY <1>2, <1>3, <1>4 DEF Fetched
<1>7. Ended /\ BatchTurn  BY <1>2 DEF Ended, BatchTurn
<1>8. Down  BY <1>2 DEF Init, Down
<1>9. Aligned
  <2>1. 0 * WindowSize = 0  BY Numbers
  <2>2. ~OrderedAt(1) => OrderedOps(0) = {}
    <3> SUFFICES ASSUME ~OrderedAt(1), NEW i \in OrderedOps(0) PROVE FALSE  OBVIOUS
    <3>1. i \in Indices /\ IsOrderedOp(i) /\ 1 \in Indices /\ 1 <= i  BY OrderedIs, Numbers
    <3> QED  BY <3>1, OrderedFirst
  <2> QED  BY <1>2, <1>4, <2>1, <2>2 DEF Aligned
<1>10. GroupsTrue
  <2>1. \A g \in Indices : ~(g < mt.idx)  BY <1>2, Numbers
  <2> QED  BY <1>2, <2>1 DEF GroupsTrue
<1>11. ReadersServe /\ Drained  BY <1>2 DEF ReadersServe, Drained
<1>12. IosCounted
  <2>1. \A g : Counted(g) = {}  BY <1>2 DEF Counted
  <2> QED  BY <1>2, <2>1, FS_EmptySet DEF IosCounted
<1>13. MapReady
  <2>1. \A i \in OrderedOps(first) : Group(i) \in Indices  BY <1>2, GroupIs
  <2> QED  BY <1>2, <2>1 DEF MapReady
<1>14. Faultless /\ SlotsTrue /\ Vouched  BY <1>2 DEF Faultless, SlotsTrue, Vouched
<1>15. Recoverable
  <2>1. \A i \in Indices : IsOrderedOp(i) => Intact(i)  BY <1>2, OpsTyped DEF Intact
  <2> QED  BY <2>1 DEF Recoverable
<1>16. CountedMerged
  <2>1. ~\E i \in Indices : i <= 0  BY Numbers
  <2> QED  BY <1>2, <2>1 DEF CountedMerged, MergedUpTo
<1>17. SessionMerged /\ RaSources /\ ReadSources /\ ResumedFirst /\ ResumedMapped /\ ResumedServed /\ ReadsTrue
  BY <1>2 DEF SessionMerged, RaSources, ReadSources, ResumedFirst, ResumedMapped, ResumedServed, ReadsTrue
<1> QED
  BY <1>1, <1>5, <1>6, <1>7, <1>8, <1>9, <1>10, <1>11, <1>12, <1>13, <1>14, <1>15, <1>16, <1>17 DEF Inv

LEMMA StutterKeeps == ASSUME Inv, UNCHANGED vars PROVE Inv'
<1>1. UNCHANGED <<base, stored, head, head_stored, scratch, scratch_stored, up, first, io_state, merge_initiated,
        resume_merge, populate, ra_started, serving, group, ios, map, window, ra, mt, reader,
        crashes, faults>>
  BY DEF vars
<1>2. TypeOK'  BY <1>1 DEF Inv, TypeOK
<1>3. WindowLoaded'  BY <1>1, WindowLoadedFrame DEF Inv
<1>4. MergeBusy'  BY <1>1, MergeBusyFrame DEF Inv
<1>5. WindowMerged'  BY <1>1, WindowMergedFrame DEF Inv
<1>6. DoneTrue'  BY <1>1, DoneTrueFrame DEF Inv
<1>7. RaAlone'  BY <1>1, RaAloneFrame DEF Inv
<1>8. RaMayTake'  BY <1>1, RaMayTakeFrame DEF Inv
<1>9. RaBegins'  BY <1>1, RaBeginsFrame DEF Inv
<1>10. RaCopies'  BY <1>1, RaCopiesFrame DEF Inv
<1>11. RaSyncs'  BY <1>1, RaSyncsFrame DEF Inv
<1>12. Fetched'  BY <1>1, FetchedFrame DEF Inv
<1>13. Ended'  BY <1>1, EndedFrame DEF Inv
<1>14. BatchTurn'  BY <1>1, BatchTurnFrame DEF Inv
<1>15. Down'  BY <1>1, DownFrame DEF Inv
<1>16. Aligned'  BY <1>1, AlignedFrame DEF Inv
<1>17. GroupsTrue'  BY <1>1, GroupsTrueFrame DEF Inv
<1>18. ReadersServe'  BY <1>1, ReadersServeFrame DEF Inv
<1>19. IosCounted'  BY <1>1, IosCountedFrame DEF Inv
<1>20. Drained'  BY <1>1, DrainedFrame DEF Inv
<1>21. MapReady'  BY <1>1, MapReadyFrame DEF Inv
<1>22. Faultless'  BY <1>1, FaultlessFrame DEF Inv
<1>23. SlotsTrue'  BY <1>1, SlotsTrueFrame DEF Inv
<1>24. Vouched'  BY <1>1, VouchedFrame DEF Inv
<1>25. Recoverable'  BY <1>1, RecoverableFrame DEF Inv
<1>26. CountedMerged'  BY <1>1, CountedMergedFrame DEF Inv
<1>27. SessionMerged'  BY <1>1, SessionMergedFrame DEF Inv
<1>28. RaSources'  BY <1>1, RaSourcesFrame DEF Inv
<1>29. ReadSources'  BY <1>1, ReadSourcesFrame DEF Inv
<1>30. ResumedFirst'  BY <1>1, ResumedFirstFrame DEF Inv
<1>31. ResumedMapped'  BY <1>1, ResumedMappedFrame DEF Inv
<1>32. ResumedServed'  BY <1>1, ResumedServedFrame DEF Inv
<1>33. ReadsTrue'  BY <1>1, ReadsTrueFrame DEF Inv
<1> QED  BY <1>2, <1>3, <1>4, <1>5, <1>6, <1>7, <1>8, <1>9, <1>10, <1>11, <1>12, <1>13, <1>14,
        <1>15, <1>16, <1>17, <1>18, <1>19, <1>20, <1>21, <1>22, <1>23, <1>24, <1>25, <1>26, <1>27,
        <1>28, <1>29, <1>30, <1>31, <1>32, <1>33 DEF Inv

LEMMA NextKeeps == Inv /\ [Next]_vars => Inv'
<1> SUFFICES ASSUME Inv, [Next]_vars PROVE Inv'  OBVIOUS
<1>1. CASE StartHandler \/ WaitForRaThreadToStart \/ InitiateMerge \/ NotifyIOTerminated \/ Crash
  BY <1>1, StartHandlerKeeps, WaitForRaThreadToStartKeeps, InitiateMergeKeeps, NotifyIOTerminatedKeeps,
     CrashKeeps
<1>2. CASE ReadAhead
  BY <1>2, RaStartKeeps, ReconstructDataFromCowKeeps, RaReadKeeps, WaitForMergeReadyKeeps,
     CopyToScratchKeeps, FillMapKeeps, SyncScratchKeeps, MarkDoneKeeps, SyncMarkKeeps,
     NotifyMergeBeginKeeps
     DEF ReadAhead
<1>3. CASE Merge
  BY <1>3, MergeBeginKeeps, MergeWindowKeeps, SetMergeInProgressKeeps, MergeWriteKeeps, MergeFsyncKeeps,
     CommitCountKeeps, CommitStateKeeps, CommitSyncKeeps, SetMergeCompletedKeeps,
     NotifyRAForMergeReadyKeeps, MergeOrderedOverKeeps, MergeReplaceZeroOpsKeeps, ReplaceFlushKeeps,
     ReplaceCheckKeeps
     DEF Merge
<1>4. ASSUME NEW r \in Readers, Serve(r) PROVE Inv'
  BY <1>4, ReadFromDeviceKeeps, NotifyIOCompletionKeeps, AnswerKeeps DEF Serve
<1>5. ASSUME NEW r \in Readers, NEW i \in OrderedOps(first), ProcessMergingBlock(r, i) PROVE Inv'
  BY <1>5, ProcessMergingBlockKeeps
<1>6. CASE UNCHANGED vars  BY <1>6, StutterKeeps
<1> QED  BY <1>1, <1>2, <1>3, <1>4, <1>5, <1>6 DEF Next

LEMMA Invariance == Spec => []Inv
BY InitInv, NextKeeps, PTL DEF Spec

-----------------------------------------------------------------------------
(* When the merge is reported complete. *)

\* Only the end of MergeReplaceZeroOps() says so, and the merge thread is then gone.
Completed ==
  io_state = "MERGE_COMPLETE" => mt.pc = "end" /\ mt.done = 0 /\ mt.next = Len(Ops) + 1

\* Between two commits, what the page counts is on storage.
HeaderFlushed ==
  "commit" \notin faults.sites /\ mt.pc \notin {"commit_state", "commit_sync"} =>
    head_stored.num = head.num

\* Blocks that are only read keep what they held.
Untouched ==
  \A b \in Blocks : (\A i \in Indices : Ops[i].new # b) => base[b] = b /\ stored[b] = b

LEMMA CompletedKept == ASSUME Inv, Completed, [Next]_vars PROVE Completed'
<1>1. ASSUME io_state' = "MERGE_COMPLETE" => io_state = "MERGE_COMPLETE" /\ UNCHANGED mt PROVE Completed'
  BY <1>1 DEF Completed
<1>2. CASE StartHandler \/ WaitForRaThreadToStart \/ InitiateMerge \/ NotifyIOTerminated \/ Crash
  <2>1. CASE StartHandler
    <3>1. io_state' = "MERGE_READY"  BY <2>1 DEF StartHandler
    <3> QED  BY <1>1, <3>1
  <2>2. CASE Crash
    <3>1. io_state' = "INVALID"  BY <2>2 DEF Crash
    <3> QED  BY <1>1, <3>1
  <2>3. CASE WaitForRaThreadToStart \/ InitiateMerge \/ NotifyIOTerminated
    BY <1>1, <2>3 DEF WaitForRaThreadToStart, InitiateMerge, NotifyIOTerminated
  <2> QED  BY <1>2, <2>1, <2>2, <2>3
<1>3. CASE ReadAhead
  <2>1. CASE ReconstructDataFromCow
    BY <1>1, <2>1 DEF ReconstructDataFromCow, ReadAheadFails
  <2>2. CASE RaStart \/ RaRead \/ WaitForMergeReady \/ CopyToScratch \/ FillMap
    BY <1>1, <2>2 DEF RaStart, RaRead, WaitForMergeReady, CopyToScratch, FillMap, ReadAheadFails
  <2>3. CASE SyncScratch \/ MarkDone \/ SyncMark \/ NotifyMergeBegin
    BY <1>1, <2>3 DEF SyncScratch, MarkDone, SyncMark, NotifyMergeBegin, ReadAheadFails
  <2> QED  BY <1>3, <2>1, <2>2, <2>3 DEF ReadAhead
<1>4. CASE Merge
  <2>1. mt.pc # "end"
    BY <1>4 DEF Merge, MergeBegin, MergeWindow, SetMergeInProgress, MergeWrite, MergeFsync, CommitCount,
       CommitState, CommitSync, SetMergeCompleted, NotifyRAForMergeReady, MergeOrderedOver,
       MergeReplaceZeroOps, ReplaceFlush, ReplaceCheck
  <2>2. io_state # "MERGE_COMPLETE"  BY <2>1 DEF Completed
  <2>3. CASE MergeBegin \/ MergeWindow \/ SetMergeInProgress \/ MergeWrite \/ MergeFsync
             \/ CommitCount \/ CommitState \/ CommitSync \/ SetMergeCompleted \/ NotifyRAForMergeReady
             \/ MergeOrderedOver \/ ReplaceFlush \/ ReplaceCheck
    <3>1. io_state' # "MERGE_COMPLETE"
      BY <2>2, <2>3 DEF MergeBegin, MergeWindow, SetMergeInProgress, MergeWrite, MergeFsync, CommitCount,
         CommitState, CommitSync, SetMergeCompleted, NotifyRAForMergeReady, MergeOrderedOver, ReplaceFlush,
         ReplaceCheck, OrderedMergeFails, ReplaceFails
    <3> QED  BY <3>1 DEF Completed
  <2>4. CASE MergeReplaceZeroOps
    <3>1. io_state' = "MERGE_COMPLETE" =>
            mt.next > Len(Ops) /\ mt.done = 0 /\ mt' = [mt EXCEPT !.pc = "end"]
      BY <2>2, <2>4 DEF MergeReplaceZeroOps, ReplaceFails
    <3>2. mt \in MergeType /\ mt.next \in Nat /\ mt.next <= Len(Ops) + 1 /\ Len(Ops) \in Nat
      BY FieldsTyped, Numbers DEF Inv, TypeOK, Fields
    <3>3. mt' = [mt EXCEPT !.pc = "end"] => mt'.pc = "end" /\ mt'.done = mt.done /\ mt'.next = mt.next
      BY <3>2 DEF MergeType
    <3> QED  BY <3>1, <3>2, <3>3 DEF Completed
  <2> QED  BY <1>4, <2>3, <2>4 DEF Merge
<1>5. CASE \E r \in Readers : Serve(r) \/ \E i \in OrderedOps(first) : ProcessMergingBlock(r, i)
  BY <1>1, <1>5 DEF Serve, ReadFromDevice, NotifyIOCompletion, Answer, ProcessMergingBlock
<1>6. CASE UNCHANGED vars  BY <1>1, <1>6 DEF vars
<1> QED  BY <1>2, <1>3, <1>4, <1>5, <1>6 DEF Next

LEMMA HeaderFlushedKept == ASSUME Inv, HeaderFlushed, [Next]_vars PROVE HeaderFlushed'
<1>0. /\ TypeOK /\ mt \in MergeType
      /\ head \in [num : Nat, done : BOOLEAN] /\ head_stored \in [num : Nat, done : BOOLEAN]
  BY DEF Inv, TypeOK
<1> DEFINE sure == "commit" \notin faults.sites
           between == mt.pc \notin {"commit_state", "commit_sync"}
<1>1. ASSUME head_stored'.num = head'.num PROVE HeaderFlushed'
  BY <1>1 DEF HeaderFlushed
<1>2. ASSUME UNCHANGED <<head.num, head_stored>>, sure' => sure, between' => between PROVE HeaderFlushed'
  BY <1>2 DEF HeaderFlushed
<1>3. ASSUME NEW site, Fault(site) PROVE (sure' => sure) /\ (site = "commit" => ~sure')
  <2>1. \A s : s \in faults.sites => s \in faults'.sites  BY <1>0, <1>3, FaultIs
  <2>2. site \in Marked => site \in faults'.sites  BY <1>0, <1>3, FaultIs
  <2> QED  BY <2>1, <2>2 DEF Marked
<1>4. CASE StartHandler
  <2>1. UNCHANGED <<head, head_stored, faults>> /\ ~up  BY <1>4 DEF StartHandler
  <2>2. head_stored = head  BY <2>1 DEF Inv, Down
  <2> QED  BY <1>1, <2>1, <2>2
<1>5. CASE Crash  BY <1>1, <1>5 DEF Crash
<1>6. CASE WaitForRaThreadToStart \/ InitiateMerge \/ NotifyIOTerminated
  <2>1. UNCHANGED <<head, head_stored, mt>> /\ (UNCHANGED faults \/ \E s \in {"timeout", "terminate"} : Fault(s))
    BY <1>6 DEF WaitForRaThreadToStart, InitiateMerge, NotifyIOTerminated
  <2> QED  BY <1>2, <1>3, <2>1
<1>7. CASE ReadAhead
  <2>1. UNCHANGED mt /\ (UNCHANGED faults \/ \E s \in {"ra_open", "read", "ra_msync"} : Fault(s))
    BY <1>7 DEF ReadAhead, RaStart, ReconstructDataFromCow, RaRead, WaitForMergeReady, CopyToScratch,
       FillMap, SyncScratch, MarkDone, SyncMark, NotifyMergeBegin
  <2>2. sure' => sure  BY <1>3, <2>1
  <2>3. CASE MarkDone
    <3>1. head'.num = head.num /\ UNCHANGED head_stored  BY <1>0, <2>3 DEF MarkDone
    <3> QED  BY <1>2, <2>1, <2>2, <3>1
  <2>4. CASE UNCHANGED <<head, head_stored>>  BY <1>2, <2>1, <2>2, <2>4
  <2>5. CASE head_stored' = head /\ UNCHANGED head  BY <1>1, <2>5
  <2> QED
    BY <1>7, <2>3, <2>4, <2>5 DEF ReadAhead, RaStart, ReconstructDataFromCow, RaRead, WaitForMergeReady,
       CopyToScratch, FillMap, SyncScratch, SyncMark, NotifyMergeBegin
<1>8. CASE Merge
  <2>1. CASE CommitCount \/ CommitState
    <3>1. mt'.pc \in {"commit_state", "commit_sync"}  BY <1>0, <2>1 DEF CommitCount, CommitState, MergeType
    <3> QED  BY <3>1 DEF HeaderFlushed
  <2>2. CASE CommitSync
    <3>1. CASE Fault("commit")
      <4>1. ~sure'  BY <1>3, <3>1
      <4> QED  BY <4>1 DEF HeaderFlushed
    <3>2. CASE head_stored' = head /\ UNCHANGED head  BY <1>1, <3>2
    <3> QED  BY <2>2, <3>1, <3>2 DEF CommitSync
  <2>3. CASE MergeBegin \/ MergeWindow \/ SetMergeInProgress \/ MergeWrite \/ MergeFsync
             \/ SetMergeCompleted \/ NotifyRAForMergeReady \/ MergeOrderedOver \/ MergeReplaceZeroOps
             \/ ReplaceFlush \/ ReplaceCheck
    <3>1. between
      BY <2>3 DEF MergeBegin, MergeWindow, SetMergeInProgress, MergeWrite, MergeFsync, SetMergeCompleted,
         NotifyRAForMergeReady, MergeOrderedOver, MergeReplaceZeroOps, ReplaceFlush, ReplaceCheck
    <3>2. UNCHANGED <<head, head_stored>> /\ (UNCHANGED faults \/ \E s \in {"write", "merge_open"} : Fault(s))
      BY <2>3 DEF MergeBegin, MergeWindow, SetMergeInProgress, MergeWrite, MergeFsync, SetMergeCompleted,
         NotifyRAForMergeReady, MergeOrderedOver, MergeReplaceZeroOps, ReplaceFlush, ReplaceCheck, NoFault
    <3> QED  BY <1>2, <1>3, <3>1, <3>2
  <2> QED  BY <1>8, <2>1, <2>2, <2>3 DEF Merge
<1>9. CASE \E r \in Readers : Serve(r) \/ \E i \in OrderedOps(first) : ProcessMergingBlock(r, i)
  <2>1. UNCHANGED <<head, head_stored, mt>> /\ (UNCHANGED faults \/ Fault("read"))
    BY <1>9 DEF Serve, ReadFromDevice, NotifyIOCompletion, Answer, ProcessMergingBlock
  <2> QED  BY <1>2, <1>3, <2>1
<1>10. CASE UNCHANGED vars  BY <1>2, <1>10 DEF vars
<1> QED  BY <1>4, <1>5, <1>6, <1>7, <1>8, <1>9, <1>10 DEF Next

LEMMA UntouchedKept == ASSUME Inv, Untouched, [Next]_vars PROVE Untouched'
<1>1. ASSUME UNCHANGED <<base, stored>> PROVE Untouched'  BY <1>1 DEF Untouched
<1>2. ASSUME NEW n \in Indices, NEW v \in Values, base' = [base EXCEPT ![Ops[n].new] = v], UNCHANGED stored
      PROVE  Untouched'
  <2>1. TypeOK /\ Ops[n].new \in Blocks  BY OpsTyped DEF Inv
  <2>2. \A c \in Blocks : base'[c] = IF c = Ops[n].new THEN v ELSE base[c]  BY <1>2, <2>1, BaseSet
  <2> QED  BY <1>2, <2>2 DEF Untouched
<1>3. ASSUME stored' = base, UNCHANGED base PROVE Untouched'  BY <1>3 DEF Untouched
<1>4. CASE Crash
  <2>1. PICK kept \in SUBSET {b \in Blocks : base[b] # stored[b]} :
          stored' = [b \in Blocks |-> IF b \in kept THEN base[b] ELSE stored[b]]
    BY <1>4 DEF Crash
  <2>2. base' = stored'  BY <1>4 DEF Crash
  <2> QED  BY <2>1, <2>2 DEF Untouched
<1>5. CASE StartHandler \/ WaitForRaThreadToStart \/ InitiateMerge \/ NotifyIOTerminated
  <2>1. CASE StartHandler
    <3>1. UNCHANGED device  BY <2>1 DEF StartHandler
    <3> QED  BY <1>1, <3>1
  <2>2. CASE WaitForRaThreadToStart \/ InitiateMerge \/ NotifyIOTerminated
    BY <1>1, <2>2 DEF WaitForRaThreadToStart, InitiateMerge, NotifyIOTerminated
  <2> QED  BY <1>5, <2>1, <2>2
<1>6. CASE ReadAhead
  <2>1. CASE ReconstructDataFromCow  BY <1>1, <2>1 DEF ReconstructDataFromCow
  <2>2. CASE RaStart \/ RaRead \/ WaitForMergeReady \/ CopyToScratch \/ FillMap
    BY <1>1, <2>2 DEF RaStart, RaRead, WaitForMergeReady, CopyToScratch, FillMap
  <2>3. CASE SyncScratch \/ MarkDone \/ SyncMark \/ NotifyMergeBegin
    BY <1>1, <2>3 DEF SyncScratch, MarkDone, SyncMark, NotifyMergeBegin
  <2> QED  BY <1>6, <2>1, <2>2, <2>3 DEF ReadAhead
<1>7. CASE Merge
  <2>1. CASE MergeWrite
    <3>1. CASE mt.done < window /\ base' = [base EXCEPT ![Ops[mt.next].new] = scratch[mt.done + 1].val]
      <4>1. mt.pc = "write" /\ UNCHANGED stored  BY <2>1 DEF MergeWrite
      <4>2. OrderedAt(mt.next) /\ scratch[mt.done + 1].val = Ops[mt.next].src  BY <3>1, <4>1, WriteTrue
      <4>3. mt.next \in Indices /\ Ops[mt.next].src \in Values  BY <4>2, OpsTyped DEF OrderedAt
      <4> QED  BY <1>2, <3>1, <4>1, <4>2, <4>3
    <3>2. CASE UNCHANGED base  BY <1>1, <2>1, <3>2 DEF MergeWrite
    <3> QED  BY <2>1, <3>1, <3>2 DEF MergeWrite
  <2>2. CASE MergeReplaceZeroOps
    <3>1. CASE mt.next <= Len(Ops) /\ base' = [base EXCEPT ![Ops[mt.next].new] = Cow]
      <4>1. mt.next \in Nat /\ mt.next > 0  BY FieldsTyped DEF Inv, Fields
      <4>2. mt.next \in Indices /\ Cow \in Values  BY <3>1, <4>1, Numbers DEF Values
      <4> QED  BY <1>2, <2>2, <3>1, <4>2 DEF MergeReplaceZeroOps
    <3>2. CASE UNCHANGED base  BY <1>1, <2>2, <3>2 DEF MergeReplaceZeroOps
    <3> QED  BY <2>2, <3>1, <3>2 DEF MergeReplaceZeroOps
  <2>3. CASE MergeFsync  BY <1>1, <1>3, <2>3 DEF MergeFsync
  <2>4. CASE ReplaceFlush  BY <1>1, <1>3, <2>4 DEF ReplaceFlush
  <2>5. CASE MergeBegin \/ MergeWindow \/ SetMergeInProgress \/ CommitCount \/ CommitState \/ CommitSync
             \/ SetMergeCompleted \/ NotifyRAForMergeReady \/ MergeOrderedOver \/ ReplaceCheck
    BY <1>1, <2>5 DEF MergeBegin, MergeWindow, SetMergeInProgress, CommitCount, CommitState, CommitSync,
       SetMergeCompleted, NotifyRAForMergeReady, MergeOrderedOver, ReplaceCheck
  <2> QED  BY <1>7, <2>1, <2>2, <2>3, <2>4, <2>5 DEF Merge
<1>8. CASE \E r \in Readers : Serve(r) \/ \E i \in OrderedOps(first) : ProcessMergingBlock(r, i)
  BY <1>1, <1>8 DEF Serve, ReadFromDevice, NotifyIOCompletion, Answer, ProcessMergingBlock
<1>9. CASE UNCHANGED vars  BY <1>1, <1>9 DEF vars
<1> QED  BY <1>4, <1>5, <1>6, <1>7, <1>8, <1>9 DEF Next

(* With these three, and what the header counts, the update is on storage. *)
LEMMA AllMerged ==
  ASSUME Inv, Completed, HeaderFlushed, Untouched, io_state = "MERGE_COMPLETE", "commit" \notin faults.sites
  PROVE  Merged
<1>1. mt.pc = "end" /\ mt.done = 0 /\ mt.next = Len(Ops) + 1  BY DEF Completed
<1>2. up
  <2>1. up \in BOOLEAN  BY FieldsTyped DEF Inv, Flags
  <2> QED  BY <2>1 DEF Inv, Down
<1>3. head.num = Len(Ops) /\ MergedUpTo(head.num)  BY <1>1, <1>2, Numbers DEF Inv, CountedMerged, MtStart
<1>4. head_stored.num = Len(Ops)  BY <1>1, <1>3 DEF HeaderFlushed
<1>5. \A i \in Indices : stored[Ops[i].new] = Ops[i].src  BY <1>3, Numbers DEF MergedUpTo
<1>6. stored = [b \in Blocks |-> NewData(b)]
  <2>1. stored \in [Blocks -> Values]  BY DEF Inv, TypeOK
  <2>2. ASSUME NEW b \in Blocks PROVE stored[b] = NewData(b)
    <3>1. CASE \E i \in Indices : Ops[i].new = b
      <4> DEFINE n == CHOOSE i \in Indices : Ops[i].new = b
      <4>1. n \in Indices /\ Ops[n].new = b  BY <3>1
      <4>2. stored[b] = Ops[n].src  BY <1>5, <4>1
      <4> QED  BY <3>1, <4>2 DEF NewData
    <3>2. CASE ~\E i \in Indices : Ops[i].new = b  BY <2>2, <3>2 DEF Untouched, NewData
    <3> QED  BY <3>1, <3>2
  <2> QED  BY <2>1, <2>2
<1> QED  BY <1>4, <1>6 DEF Merged

-----------------------------------------------------------------------------
(* The theorems. *)

(***************************************************************************)
(* Every variable keeps its type: positions stay in the COW, slots in the  *)
(* scratch space, and the counts of reads among the workers.               *)
(***************************************************************************)
THEOREM TypeCorrect == Spec => []TypeOK
<1>1. Inv => TypeOK  BY DEF Inv
<1> QED  BY <1>1, Invariance, PTL

(***************************************************************************)
(* The CHECKs of SetMergeInProgress() and SetMergeCompleted() never fail:  *)
(* a window is pending or being redone when its merge begins, and nobody   *)
(* reads its sources when it is completed.                                 *)
(***************************************************************************)
THEOREM ChecksNeverFail == Spec => []ChecksHold
<1>1. ASSUME Inv PROVE ChecksHold
  <2>1. ASSUME mt.pc = "window", OrderedAt(mt.next) PROVE group[mt.idx] \in {"PENDING", "IN_PROGRESS"}
    <3>1. mt.done = 0 /\ mt.next \in Nat  BY <1>1, <2>1, FieldsTyped DEF Inv, DoneTrue
    <3>2. MtStart = mt.next  BY <3>1
    <3>3. mt.idx \in Indices  BY <1>1, <2>1, <3>2, IndexIn
    <3> QED  BY <1>1, <2>1, <3>3 DEF Inv, GroupsTrue
  <2>2. ASSUME mt.pc = "completed" PROVE group[mt.idx] = "IN_PROGRESS" /\ ios[mt.idx] = 0
    <3>1. mt.idx \in Indices  BY <1>1, <2>2, IndexIn
    <3>2. group[mt.idx] = "IN_PROGRESS"  BY <1>1, <2>2, <3>1 DEF Inv, GroupsTrue
    <3>3. Counted(mt.idx) = {}  BY <1>1, <3>2 DEF Inv, Drained, Counted
    <3>4. ios[mt.idx] = 0  BY <1>1, <3>1, <3>3, FS_EmptySet DEF Inv, IosCounted
    <3> QED  BY <3>2, <3>4
  <2> QED  BY <2>1, <2>2 DEF ChecksHold
<1> QED  BY <1>1, Invariance, PTL

(***************************************************************************)
(* A read fails only because a call failed: ProcessMergingBlock() never    *)
(* meets a window that is about to be merged, or being merged, and is not  *)
(* in the read-ahead buffer.                                               *)
(***************************************************************************)
THEOREM ReadsNeverFail == Spec => []ReadsSucceed
<1>1. ASSUME Inv PROVE ReadsSucceed
  <2>1. faults.count \in Nat  BY <1>1, FieldsTyped DEF Inv
  <2>2. faults.count = 0 => \A r \in Readers : reader[r].pc # "error"  BY <1>1 DEF Inv, Faultless
  <2> QED  BY <2>1, <2>2 DEF ReadsSucceed
<1> QED  BY <1>1, Invariance, PTL

(***************************************************************************)
(* Wherever the daemon or the device went down, unless a commit's msync    *)
(* failed, storage holds what is needed to finish the update: what the     *)
(* header counts is merged, and each other ordered operation has its data  *)
(* in a scratch space that is vouched for, or its source untouched.        *)
(***************************************************************************)
THEOREM CrashSafe == Spec => []CrashKeepsNewData
<1>1. ASSUME Inv PROVE CrashKeepsNewData
  <2> SUFFICES ASSUME ~up, "commit" \notin faults.sites, NEW i \in Indices
               PROVE  /\ i <= head.num => base[Ops[i].new] = Ops[i].src
                      /\ i > head.num /\ IsOrderedOp(i) =>
                           IF head.done /\ \E k \in Slots : scratch[k].op = i
                           THEN \A k \in Slots : scratch[k].op = i => scratch[k].val = Ops[i].src
                           ELSE base[Ops[i].src] = Ops[i].src
    BY DEF CrashKeepsNewData
  <2>1. i <= head.num => base[Ops[i].new] = Ops[i].src  BY <1>1 DEF Inv, CountedMerged, MergedUpTo
  <2>2. i # 0  BY Numbers
  <2>3. \A k \in Slots : scratch[k].op = i => scratch[k].val = Ops[i].src  BY <1>1, <2>2 DEF Inv, SlotsTrue
  <2>4. i > head.num /\ IsOrderedOp(i) => Intact(i) \/ (head.done /\ \E k \in Slots : scratch[k].op = i)
    BY <1>1 DEF Inv, Recoverable
  <2>5. Intact(i) => base[Ops[i].src] = Ops[i].src  BY DEF Intact
  <2> QED  BY <2>1, <2>3, <2>4, <2>5
<1> QED  BY <1>1, Invariance, PTL

(***************************************************************************)
(* A block that is read during the merge has its new contents, whichever   *)
(* of source, buffer and base device it was taken from; in a session that  *)
(* resumes a merge, once the buffer was rebuilt and waited for.            *)
(***************************************************************************)
THEOREM ReadsAreNew == Spec => []ReadsNewWhenResumed
<1>1. ASSUME Inv PROVE ReadsNewWhenResumed
  BY <1>1 DEF Inv, ReadsTrue, ReadsNewWhenResumed, ReadsNew
<1> QED  BY <1>1, Invariance, PTL

(***************************************************************************)
(* When MergeCompleted() reports the merge complete, so that libsnapshot   *)
(* may throw the snapshot away, the update is on storage: every block has  *)
(* its new contents and the header counts every operation, whatever        *)
(* crashes, retries and failed calls came before, unless the msync() of a  *)
(* commit failed.                                                          *)
(***************************************************************************)
THEOREM CompleteIsMerged ==
  Spec => [](io_state = "MERGE_COMPLETE" /\ "commit" \notin faults.sites => Merged)
<1>1. Init => Completed /\ HeaderFlushed /\ Untouched
  BY DEF Init, Completed, HeaderFlushed, Untouched
<1>2. Inv /\ Completed /\ [Next]_vars => Completed'  BY CompletedKept
<1>3. Inv /\ HeaderFlushed /\ [Next]_vars => HeaderFlushed'  BY HeaderFlushedKept
<1>4. Inv /\ Untouched /\ [Next]_vars => Untouched'  BY UntouchedKept
<1>5. Inv /\ Completed /\ HeaderFlushed /\ Untouched =>
        (io_state = "MERGE_COMPLETE" /\ "commit" \notin faults.sites => Merged)
  BY AllMerged
<1> QED  BY <1>1, <1>2, <1>3, <1>4, <1>5, Invariance, PTL DEF Spec

=============================================================================
