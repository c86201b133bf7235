--------------------- MODULE PersistentPropertiesProofs ---------------------
(***************************************************************************)
(* Proofs about PersistentProperties for any properties, values and bounds:  *)
(* types, that a crash at any moment leaves what was acknowledged            *)
(* (SurvivesCrash), and that memory and file agree when nothing is on its    *)
(* way (MemoryMatchesFile).                                                 *)
(***************************************************************************)
EXTENDS PersistentProperties, SequenceTheorems, TLAPS

-----------------------------------------------------------------------------
(* The invariant *)

(* TypeOK in parts: flags, values and bounds, and where the threads are. *)
FlagsOK == async \in BOOLEAN /\ loaded \in BOOLEAN /\ file_synced \in BOOLEAN /\ tmp_synced \in BOOLEAN

MemoryOK ==
  /\ memory \in [Prop -> Value \cup {None}]
  /\ setting \in {<< >>} \cup {<<r>> : r \in Request}
  /\ set_step \in {"idle", "change", "persist"}
  /\ set_step # "idle" => setting # << >>
  /\ work \in Seq(Request)
  /\ sets \in 0..MaxSets /\ crashes \in 0..MaxCrashes

HistoryOK ==
  /\ now_ok \in [Prop -> SUBSET (Value \cup {None})]
  /\ staged_ok \in [Prop -> SUBSET Value]
  /\ staged \in SUBSET Prop
  /\ stale \in SUBSET Prop

LoadOK ==
  /\ loader \in {"off", "read", "migrate", "stage", "apply", "set", "done"}
  /\ loading \in {<< >>} \cup {<<p>> : p \in Prop}
  /\ todo \in SUBSET Prop
  /\ result \in Contents
  /\ legacy \in [Prop -> Value \cup {None}]

FilesOK ==
  /\ file \in File /\ stored \in File /\ tmp \in File
  /\ writing \in {"idle", "open", "write", "fsync", "rename", "fsync_dir", "ok", "error"}
  /\ writer \in {"none", "set", "migrate", "apply"}
  /\ buffer \in Contents

(* One thread writes at a time, and knows what for. *)
OneWriter ==
  /\ writer = "none" <=> writing = "idle"
  /\ writer = "migrate" <=> loader = "migrate"
  /\ writer = "apply" <=> loader = "apply"
  /\ writer = "set" => work # << >>
  /\ work # << >> => loaded
  /\ loaded <=> loader = "done"
  /\ loading # << >> => loader = "set" /\ Head(loading) \in todo

(* The steps of WritePersistentPropertyFile: a file that is renamed into its   *)
(* place is complete and synced, so that neither the file nor what is stored   *)
(* is ever torn.                                                             *)
NeverTorn ==
  /\ file_synced = TRUE
  /\ writing = "rename" => tmp_synced = TRUE
  /\ writing \in {"fsync", "rename"} => tmp = buffer
  /\ writing \in {"fsync_dir", "ok"} => file = buffer
  /\ writing = "ok" => stored = buffer
  /\ file # Torn /\ stored # Torn

(* What boot may find for p. *)
Ok(p) == IF p \in staged THEN staged_ok[p] ELSE now_ok[p] \cup staged_ok[p]

Kept(c) ==
  \A p \in Prop :
    /\ c.now[p] \in now_ok[p]
    /\ c.next_boot[p] # None => c.next_boot[p] \in staged_ok[p]
    /\ p \in staged => c.next_boot[p] # None

KeptFile(f) ==
  IF f \in Contents THEN Kept(f) ELSE \A p \in Prop : legacy[p] \in now_ok[p] /\ p \notin staged

(* After the load: what the files, the write in progress, the queue and memory *)
(* hold is allowed by the sets that were acknowledged.                       *)
RunningKept ==
  loaded =>
    /\ KeptFile(file) /\ KeptFile(stored)
    /\ writer = "set" =>
         /\ Kept(buffer)
         /\ Head(work).kind = "now" => buffer.now[Head(work).prop] = Head(work).value
         /\ Head(work).kind = "next_boot" => buffer.next_boot[Head(work).prop] = Head(work).value
    /\ \A i \in 1..Len(work) :
         /\ work[i].kind = "now" => work[i].value \in now_ok[work[i].prop]
         /\ work[i].kind = "next_boot" => work[i].value \in staged_ok[work[i].prop]
    /\ \A p \in Prop : memory[p] \in now_ok[p]

(* A file that the load has found or written stands for its result. *)
Stands(f) == IF f \in Contents THEN f = result ELSE result = [now |-> legacy, next_boot |-> Blank]

(* Before: both files would lead the next boot to an allowed value, the one     *)
(* that this load comes to.                                                  *)
BootKept ==
  ~loaded =>
    /\ \A p \in Prop : NextBoot(file, p) \in Ok(p) /\ NextBoot(stored, p) \in Ok(p)
    /\ loader = "off" => stored = file
    /\ loader \in {"migrate", "stage", "set"} => Stands(file) /\ Stands(stored)
    /\ loader = "migrate" => result = [now |-> legacy, next_boot |-> Blank] /\ buffer = result
    /\ loader = "apply" =>
         /\ writing # "error" /\ buffer = result /\ result.next_boot = Blank
         /\ file \in Contents /\ Apply(file) = result
         /\ stored \in Contents /\ Apply(stored) = result
    /\ loader = "set" => result.next_boot = Blank

(* The sets of persist.<p> that wait to be written. *)
Waiting(p) == {i \in 1..Len(work) : work[i].kind = "now" /\ work[i].prop = p}

(* The property thread is setting persist.<p>. *)
Setting(p) == set_step # "idle" /\ Head(setting).kind = "now" /\ Head(setting).prop = p

(* Memory has the value of the last set that is on its way, else that of the   *)
(* file; a set that is in the property area and not yet handed over is the    *)
(* last of all.                                                             *)
Agrees(p) ==
  \/ Setting(p) /\ set_step = "change"
  \/ Setting(p) /\ set_step = "persist" /\ memory[p] = Head(setting).value
  \/ ~Setting(p) /\ \E i \in Waiting(p) : (\A j \in Waiting(p) : j <= i) /\ memory[p] = work[i].value
  \/ /\ ~Setting(p) /\ Waiting(p) = {}
     /\ file \in Contents => memory[p] = file.now[p]
     /\ writer = "set" => memory[p] = buffer.now[p]

MemoryAgrees ==
  /\ loaded => \A p \in Prop \ stale : Agrees(p)
  /\ ~loaded => \A p \in Prop \ stale :
                  /\ ~Setting(p)
                  /\ memory[p] = IF loader = "set" /\ p \notin todo THEN result.now[p] ELSE None

Inv == FlagsOK /\ MemoryOK /\ HistoryOK /\ LoadOK /\ FilesOK /\ OneWriter /\ NeverTorn

-----------------------------------------------------------------------------
(* Types *)

LEMMA RequestFields ==
  ASSUME NEW r \in Request
  PROVE  r.prop \in Prop /\ r.kind \in {"now", "next_boot"} /\ r.value \in Value
BY DEF Request

LEMMA BlankType == Blank \in [Prop -> Value \cup {None}]
BY DEF Blank

LEMMA ContentsType ==
  ASSUME NEW x \in [Prop -> Value \cup {None}], NEW y \in [Prop -> Value \cup {None}]
  PROVE  [now |-> x, next_boot |-> y] \in Contents
BY DEF Contents

LEMMA ContentsFields ==
  ASSUME NEW c \in Contents
  PROVE  /\ c.now \in [Prop -> Value \cup {None}] /\ c.next_boot \in [Prop -> Value \cup {None}]
         /\ c = [now |-> c.now, next_boot |-> c.next_boot]
BY DEF Contents

LEMMA FileKinds ==
  /\ Missing \in File /\ Torn \in File /\ Contents \subseteq File
  /\ \A f \in File : f \notin Contents /\ f # Torn => f = Missing
  /\ Missing \notin Contents /\ Torn \notin Contents /\ Missing # Torn
BY PersistAssumption DEF File

(* What applying staged values leads to. *)
LEMMA ApplyType ==
  ASSUME NEW c \in Contents
  PROVE  /\ Apply(c) \in Contents /\ Apply(c).next_boot = Blank
         /\ \A p \in Prop : Apply(c).now[p] = IF c.next_boot[p] # None THEN c.next_boot[p] ELSE c.now[p]
<1> DEFINE x == [p \in Prop |-> IF c.next_boot[p] # None THEN c.next_boot[p] ELSE c.now[p]]
<1>1. x \in [Prop -> Value \cup {None}]
  BY ContentsFields
<1>2. Apply(c) = [now |-> x, next_boot |-> Blank]
  BY DEF Apply
<1> QED
  BY <1>1, <1>2, BlankType, ContentsType

(* One entry of the contents is changed. *)
LEMMA ChangeType ==
  ASSUME NEW c \in Contents, NEW r \in Request, NEW d, d = [c EXCEPT ![r.kind][r.prop] = r.value]
  PROVE  d \in Contents
<1>1. CASE r.kind = "now"
  <2>1. d = [c EXCEPT !["now"][r.prop] = r.value]
    BY <1>1
  <2>2. d = [now |-> [c.now EXCEPT ![r.prop] = r.value], next_boot |-> c.next_boot]
    BY <2>1, ContentsFields DEF Contents
  <2>3. [c.now EXCEPT ![r.prop] = r.value] \in [Prop -> Value \cup {None}]
    BY ContentsFields, RequestFields
  <2>4. d \in Contents
    BY <2>2, <2>3, ContentsFields DEF Contents
  <2> QED
    BY <2>2, <2>4, <1>1
<1>2. CASE r.kind = "next_boot"
  <2>1. d = [c EXCEPT !["next_boot"][r.prop] = r.value]
    BY <1>2
  <2>2. d = [now |-> c.now, next_boot |-> [c.next_boot EXCEPT ![r.prop] = r.value]]
    BY <2>1, ContentsFields DEF Contents
  <2>3. [c.next_boot EXCEPT ![r.prop] = r.value] \in [Prop -> Value \cup {None}]
    BY ContentsFields, RequestFields
  <2>4. d \in Contents
    BY <2>2, <2>3, ContentsFields DEF Contents
  <2> QED
    BY <2>2, <2>4, <1>2
<1> QED
  BY <1>1, <1>2, RequestFields

(* The request that is being set, and those that wait. *)
LEMMA SettingType ==
  ASSUME MemoryOK, set_step # "idle"
  PROVE  Head(setting) \in Request /\ setting = << Head(setting) >>
BY DEF MemoryOK

LEMMA WorkType ==
  ASSUME MemoryOK, work # << >>
  PROVE  /\ Head(work) \in Request /\ Head(work) = work[1] /\ 1 \in 1..Len(work)
         /\ Tail(work) \in Seq(Request) /\ Len(Tail(work)) = Len(work) - 1
         /\ \A i \in 1..Len(work) : work[i] \in Request
         /\ \A i \in 1..Len(Tail(work)) : Tail(work)[i] = work[i + 1] /\ i + 1 \in 2..Len(work)
<1>1. Len(work) \in Nat /\ Len(work) >= 1
  BY EmptySeq DEF MemoryOK
<1> QED
  BY <1>1, HeadTailProperties DEF MemoryOK

(* The flags. *)
LEMMA FlagsKept ==
  ASSUME FlagsOK, [Next]_vars
  PROVE  FlagsOK'
<1> USE PersistAssumption DEF FlagsOK, setVars, loadVars, fileVars, okVars
<1>1. CASE OpenTmp
  BY <1>1, Zenon DEF OpenTmp
<1>2. CASE WriteTmp
  BY <1>2, Zenon DEF WriteTmp
<1>3. CASE SyncTmp
  BY <1>3, Zenon DEF SyncTmp
<1>4. CASE Rename
  BY <1>4, Zenon DEF Rename
<1>5. CASE SyncDir
  BY <1>5, Zenon DEF SyncDir
<1>6. CASE \E r \in Request : BeginSet(r)
  BY <1>6, Zenon DEF BeginSet
<1>7. CASE ChangeMemory
  BY <1>7, Zenon DEF ChangeMemory
<1>8. CASE Persist
  BY <1>8, Zenon DEF Persist
<1>9. CASE WritePersistentProperty
  BY <1>9, Zenon DEF WritePersistentProperty
<1>10. CASE Acknowledge
  BY <1>10, Zenon DEF Acknowledge
<1>11. CASE Load
  BY <1>11, Zenon DEF Load
<1>12. CASE Migrated
  BY <1>12, Zenon DEF Migrated
<1>13. CASE Stage
  BY <1>13, Zenon DEF Stage
<1>14. CASE Applied
  BY <1>14, Zenon DEF Applied
<1>15. CASE \E p \in Prop : BeginLoadSet(p)
  BY <1>15, Zenon DEF BeginLoadSet
<1>16. CASE EndLoadSet
  BY <1>16, Zenon DEF EndLoadSet
<1>17. CASE Loaded
  BY <1>17, Zenon DEF Loaded
<1>18. CASE Crash
  BY <1>18, Zenon DEF Crash
<1>19. CASE UNCHANGED vars
  BY <1>19, Zenon DEF vars
<1> QED
  BY <1>1, <1>2, <1>3, <1>4, <1>5, <1>6, <1>7, <1>8, <1>9, <1>10, <1>11,
     <1>12, <1>13, <1>14, <1>15, <1>16, <1>17, <1>18, <1>19, Zenon
  DEF Next, WriteStep

(* The property thread and its queue. *)
LEMMA MemoryTyped ==
  ASSUME MemoryOK, LoadOK, OneWriter, [Next]_vars
  PROVE  MemoryOK'
<1> USE PersistAssumption DEF MemoryOK, setVars, loadVars, fileVars, okVars
<1>1. CASE OpenTmp
  BY <1>1 DEF OpenTmp
<1>2. CASE WriteTmp
  BY <1>2 DEF WriteTmp
<1>3. CASE SyncTmp
  BY <1>3 DEF SyncTmp
<1>4. CASE Rename
  BY <1>4 DEF Rename
<1>5. CASE SyncDir
  BY <1>5 DEF SyncDir
<1>6. CASE \E r \in Request : BeginSet(r)
  BY <1>6 DEF BeginSet
<1>7. CASE ChangeMemory
  BY <1>7, SettingType, RequestFields DEF ChangeMemory
<1>8. CASE Persist
  <2>1. Append(work, Head(setting)) \in Seq(Request)
    BY <1>8, SettingType, AppendProperties DEF Persist
  <2> QED
    BY <1>8, <2>1 DEF Persist
<1>9. CASE WritePersistentProperty
  BY <1>9 DEF WritePersistentProperty, FileLoads, LoadPersistentPropertiesFromMemory
<1>10. CASE Acknowledge
  <2>1. work \in Seq(Request) /\ work # << >> => Tail(work) \in Seq(Request)
    BY HeadTailProperties
  <2> QED
    BY <1>10, <2>1 DEF Acknowledge, OneWriter
<1>11. CASE Load
  BY <1>11 DEF Load, FileLoads, LoadLegacyPersistentProperties
<1>12. CASE Migrated
  BY <1>12 DEF Migrated
<1>13. CASE Stage
  BY <1>13 DEF Stage, Apply
<1>14. CASE Applied
  BY <1>14 DEF Applied
<1>15. CASE \E p \in Prop : BeginLoadSet(p)
  BY <1>15 DEF BeginLoadSet
<1>16. CASE EndLoadSet
  <2>1. loading # << >> => Head(loading) \in Prop
    BY DEF LoadOK
  <2>2. \A p \in Prop : result.now[p] \in Value \cup {None}
    BY ContentsFields DEF LoadOK
  <2> QED
    BY <1>16, <2>1, <2>2 DEF EndLoadSet
<1>17. CASE Loaded
  BY <1>17 DEF Loaded
<1>18. CASE Crash
  <2>1. << >> \in Seq(Request)
    OBVIOUS
  <2> QED
    BY <1>18, <2>1, BlankType DEF Crash
<1>19. CASE UNCHANGED vars
  BY <1>19 DEF vars
<1> QED
  BY <1>1, <1>2, <1>3, <1>4, <1>5, <1>6, <1>7, <1>8, <1>9, <1>10, <1>11,
     <1>12, <1>13, <1>14, <1>15, <1>16, <1>17, <1>18, <1>19, Zenon
  DEF Next, WriteStep

(* The history variables. *)
LEMMA HistoryTyped ==
  ASSUME HistoryOK, MemoryOK, LoadOK, OneWriter, [Next]_vars
  PROVE  HistoryOK'
<1> USE PersistAssumption DEF HistoryOK, setVars, loadVars, fileVars, okVars
<1>1. CASE OpenTmp
  BY <1>1 DEF OpenTmp
<1>2. CASE WriteTmp
  BY <1>2 DEF WriteTmp
<1>3. CASE SyncTmp
  BY <1>3 DEF SyncTmp
<1>4. CASE Rename
  BY <1>4 DEF Rename
<1>5. CASE SyncDir
  BY <1>5 DEF SyncDir
<1>6. CASE \E r \in Request : BeginSet(r)
  BY <1>6, RequestFields DEF BeginSet
<1>7. CASE ChangeMemory
  BY <1>7, SettingType, RequestFields DEF ChangeMemory
<1>8. CASE Persist
  BY <1>8, SettingType, RequestFields DEF Persist
<1>9. CASE WritePersistentProperty
  BY <1>9 DEF WritePersistentProperty, FileLoads, LoadPersistentPropertiesFromMemory
<1>10. CASE Acknowledge
  <2> DEFINE r == Head(work)
  <2>1. r \in Request /\ r.prop \in Prop /\ r.value \in Value
    BY <1>10, WorkType, RequestFields DEF Acknowledge, OneWriter
  <2>2. Pending(r) \subseteq Value
    BY <1>10, WorkType, RequestFields DEF Pending, Acknowledge, OneWriter
  <2>3. Current(r) \subseteq Value \cup {None}
    BY <2>1 DEF Current, MemoryOK
  <2>4. /\ \/ UNCHANGED now_ok
           \/ now_ok' = [now_ok EXCEPT ![r.prop] = {r.value} \cup Pending(r) \cup Current(r)]
        /\ \/ UNCHANGED staged_ok
           \/ staged_ok' = [staged_ok EXCEPT ![r.prop] = {r.value} \cup Pending(r)]
        /\ staged' = staged \/ staged' = staged \cup {r.prop}
        /\ stale' = stale \/ stale' = stale \cup {r.prop}
    BY <1>10 DEF Acknowledge
  <2> HIDE DEF r
  <2> QED
    BY <2>1, <2>2, <2>3, <2>4
<1>11. CASE Load
  BY <1>11 DEF Load, FileLoads, LoadLegacyPersistentProperties
<1>12. CASE Migrated
  BY <1>12 DEF Migrated
<1>13. CASE Stage
  BY <1>13 DEF Stage, Apply
<1>14. CASE Applied
  BY <1>14 DEF Applied
<1>15. CASE \E p \in Prop : BeginLoadSet(p)
  BY <1>15 DEF BeginLoadSet
<1>16. CASE EndLoadSet
  BY <1>16 DEF EndLoadSet
<1>17. CASE Loaded
  <2>1. \A p \in Prop : result.now[p] \in Value \cup {None} /\ memory[p] \in Value \cup {None}
    BY ContentsFields DEF LoadOK, MemoryOK
  <2> QED
    BY <1>17, <2>1 DEF Loaded
<1>18. CASE Crash
  BY <1>18 DEF Crash, CrashFiles
<1>19. CASE UNCHANGED vars
  BY <1>19 DEF vars
<1> QED
  BY <1>1, <1>2, <1>3, <1>4, <1>5, <1>6, <1>7, <1>8, <1>9, <1>10, <1>11,
     <1>12, <1>13, <1>14, <1>15, <1>16, <1>17, <1>18, <1>19, Zenon
  DEF Next, WriteStep

(* The loading thread. *)
LEMMA LoadTyped ==
  ASSUME LoadOK, FilesOK, OneWriter, [Next]_vars
  PROVE  LoadOK'
<1> USE PersistAssumption DEF LoadOK, setVars, loadVars, fileVars, okVars
<1>1. CASE OpenTmp
  BY <1>1 DEF OpenTmp
<1>2. CASE WriteTmp
  BY <1>2 DEF WriteTmp
<1>3. CASE SyncTmp
  BY <1>3 DEF SyncTmp
<1>4. CASE Rename
  BY <1>4 DEF Rename
<1>5. CASE SyncDir
  BY <1>5 DEF SyncDir
<1>6. CASE \E r \in Request : BeginSet(r)
  BY <1>6 DEF BeginSet
<1>7. CASE ChangeMemory
  BY <1>7 DEF ChangeMemory
<1>8. CASE Persist
  BY <1>8 DEF Persist
<1>9. CASE WritePersistentProperty
  BY <1>9 DEF WritePersistentProperty, FileLoads, LoadPersistentPropertiesFromMemory
<1>10. CASE Acknowledge
  BY <1>10 DEF Acknowledge, Pending, Current
<1>11. CASE Load
  <2>1. [now |-> legacy, next_boot |-> Blank] \in Contents
    BY BlankType, ContentsType
  <2> QED
    BY <1>11, <2>1 DEF Load, FileLoads, LoadLegacyPersistentProperties
<1>12. CASE Migrated
  BY <1>12, BlankType DEF Migrated
<1>13. CASE Stage
  BY <1>13, ApplyType DEF Stage
<1>14. CASE Applied
  BY <1>14 DEF Applied
<1>15. CASE \E p \in Prop : BeginLoadSet(p)
  BY <1>15 DEF BeginLoadSet
<1>16. CASE EndLoadSet
  BY <1>16 DEF EndLoadSet
<1>17. CASE Loaded
  BY <1>17 DEF Loaded
<1>18. CASE Crash
  BY <1>18 DEF Crash, CrashFiles
<1>19. CASE UNCHANGED vars
  BY <1>19 DEF vars
<1> QED
  BY <1>1, <1>2, <1>3, <1>4, <1>5, <1>6, <1>7, <1>8, <1>9, <1>10, <1>11,
     <1>12, <1>13, <1>14, <1>15, <1>16, <1>17, <1>18, <1>19, Zenon
  DEF Next, WriteStep

(* The files. *)
LEMMA FilesTyped ==
  ASSUME FilesOK, MemoryOK, LoadOK, OneWriter, [Next]_vars
  PROVE  FilesOK'
<1> USE PersistAssumption DEF FilesOK, setVars, loadVars, fileVars, okVars
<1>1. CASE OpenTmp
  BY <1>1, FileKinds DEF OpenTmp
<1>2. CASE WriteTmp
  BY <1>2, FileKinds DEF WriteTmp
<1>3. CASE SyncTmp
  BY <1>3 DEF SyncTmp
<1>4. CASE Rename
  BY <1>4, FileKinds DEF Rename
<1>5. CASE SyncDir
  BY <1>5, FileKinds DEF SyncDir
<1>6. CASE \E r \in Request : BeginSet(r)
  BY <1>6 DEF BeginSet
<1>7. CASE ChangeMemory
  BY <1>7 DEF ChangeMemory
<1>8. CASE Persist
  BY <1>8 DEF Persist
<1>9. CASE WritePersistentProperty
  <2> DEFINE old == IF FileLoads THEN file ELSE LoadPersistentPropertiesFromMemory
  <2>1. old \in Contents
    BY BlankType, ContentsType DEF FileLoads, LoadPersistentPropertiesFromMemory, MemoryOK
  <2>2. buffer' = [old EXCEPT ![Head(work).kind][Head(work).prop] = Head(work).value]
    BY <1>9 DEF WritePersistentProperty
  <2> HIDE DEF old
  <2>3. buffer' \in Contents
    BY <1>9, <2>1, <2>2, WorkType, ChangeType DEF WritePersistentProperty
  <2> QED
    BY <1>9, <2>3, FileKinds DEF WritePersistentProperty
<1>10. CASE Acknowledge
  BY <1>10 DEF Acknowledge, Pending, Current
<1>11. CASE Load
  <2>1. [now |-> legacy, next_boot |-> Blank] \in Contents
    BY BlankType, ContentsType DEF LoadOK
  <2> QED
    BY <1>11, <2>1, FileKinds DEF Load, LoadLegacyPersistentProperties
<1>12. CASE Migrated
  BY <1>12 DEF Migrated
<1>13. CASE Stage
  BY <1>13, ApplyType DEF Stage, LoadOK
<1>14. CASE Applied
  BY <1>14 DEF Applied
<1>15. CASE \E p \in Prop : BeginLoadSet(p)
  BY <1>15 DEF BeginLoadSet
<1>16. CASE EndLoadSet
  BY <1>16 DEF EndLoadSet
<1>17. CASE Loaded
  BY <1>17 DEF Loaded
<1>18. CASE Crash
  BY <1>18, FileKinds DEF Crash, CrashFiles
<1>19. CASE UNCHANGED vars
  BY <1>19 DEF vars
<1> QED
  BY <1>1, <1>2, <1>3, <1>4, <1>5, <1>6, <1>7, <1>8, <1>9, <1>10, <1>11,
     <1>12, <1>13, <1>14, <1>15, <1>16, <1>17, <1>18, <1>19, Zenon
  DEF Next, WriteStep

(* One thread writes. *)
LEMMA OneWriterKept ==
  ASSUME OneWriter, FlagsOK, MemoryOK, LoadOK, FilesOK, [Next]_vars
  PROVE  OneWriter'
<1> USE PersistAssumption DEF OneWriter, setVars, loadVars, fileVars, okVars
<1>1. CASE OpenTmp
  BY <1>1 DEF OpenTmp
<1>2. CASE WriteTmp
  BY <1>2 DEF WriteTmp
<1>3. CASE SyncTmp
  BY <1>3 DEF SyncTmp
<1>4. CASE Rename
  BY <1>4 DEF Rename
<1>5. CASE SyncDir
  BY <1>5 DEF SyncDir
<1>6. CASE \E r \in Request : BeginSet(r)
  BY <1>6 DEF BeginSet
<1>7. CASE ChangeMemory
  BY <1>7 DEF ChangeMemory
<1>8. CASE Persist
  BY <1>8 DEF Persist
<1>9. CASE WritePersistentProperty
  BY <1>9 DEF WritePersistentProperty, FileLoads, LoadPersistentPropertiesFromMemory
<1>10. CASE Acknowledge
  BY <1>10 DEF Acknowledge, Pending, Current
<1>11. CASE Load
  BY <1>11 DEF Load, FileLoads, LoadLegacyPersistentProperties
<1>12. CASE Migrated
  BY <1>12 DEF Migrated
<1>13. CASE Stage
  BY <1>13 DEF Stage, Apply
<1>14. CASE Applied
  BY <1>14 DEF Applied
<1>15. CASE \E p \in Prop : BeginLoadSet(p)
  BY <1>15 DEF BeginLoadSet
<1>16. CASE EndLoadSet
  BY <1>16 DEF EndLoadSet
<1>17. CASE Loaded
  BY <1>17 DEF Loaded
<1>18. CASE Crash
  BY <1>18 DEF Crash, CrashFiles
<1>19. CASE UNCHANGED vars
  BY <1>19 DEF vars
<1> QED
  BY <1>1, <1>2, <1>3, <1>4, <1>5, <1>6, <1>7, <1>8, <1>9, <1>10, <1>11,
     <1>12, <1>13, <1>14, <1>15, <1>16, <1>17, <1>18, <1>19, Zenon
  DEF Next, WriteStep

(* The steps of a write. *)
LEMMA NeverTornKept ==
  ASSUME NeverTorn, FilesOK, LoadOK, OneWriter, [Next]_vars
  PROVE  NeverTorn'
<1> USE PersistAssumption DEF NeverTorn, setVars, loadVars, fileVars, okVars
<1>1. CASE OpenTmp
  BY <1>1 DEF OpenTmp
<1>2. CASE WriteTmp
  BY <1>2 DEF WriteTmp
<1>3. CASE SyncTmp
  BY <1>3 DEF SyncTmp
<1>4. CASE Rename
  BY <1>4, FileKinds DEF Rename, FilesOK
<1>5. CASE SyncDir
  BY <1>5 DEF SyncDir
<1>6. CASE \E r \in Request : BeginSet(r)
  BY <1>6 DEF BeginSet
<1>7. CASE ChangeMemory
  BY <1>7 DEF ChangeMemory
<1>8. CASE Persist
  BY <1>8 DEF Persist
<1>9. CASE WritePersistentProperty
  BY <1>9 DEF WritePersistentProperty, FileLoads, LoadPersistentPropertiesFromMemory
<1>10. CASE Acknowledge
  BY <1>10 DEF Acknowledge, Pending, Current
<1>11. CASE Load
  BY <1>11, FileKinds DEF Load, FileLoads, OneWriter, FilesOK
<1>12. CASE Migrated
  BY <1>12 DEF Migrated
<1>13. CASE Stage
  BY <1>13 DEF Stage, Apply
<1>14. CASE Applied
  BY <1>14 DEF Applied
<1>15. CASE \E p \in Prop : BeginLoadSet(p)
  BY <1>15 DEF BeginLoadSet
<1>16. CASE EndLoadSet
  BY <1>16 DEF EndLoadSet
<1>17. CASE Loaded
  BY <1>17 DEF Loaded
<1>18. CASE Crash
  BY <1>18 DEF Crash, CrashFiles
<1>19. CASE UNCHANGED vars
  BY <1>19 DEF vars
<1> QED
  BY <1>1, <1>2, <1>3, <1>4, <1>5, <1>6, <1>7, <1>8, <1>9, <1>10, <1>11,
     <1>12, <1>13, <1>14, <1>15, <1>16, <1>17, <1>18, <1>19, Zenon
  DEF Next, WriteStep

-----------------------------------------------------------------------------
(* What a crash leaves *)

LEMMA ApplyBlank ==
  ASSUME NEW c \in Contents, c.next_boot = Blank
  PROVE  Apply(c) = c /\ \A p \in Prop : Apply(c).now[p] = c.now[p]
<1>1. \A p \in Prop : c.next_boot[p] = None
  BY DEF Blank
<1>2. c.now = [p \in Prop |-> IF c.next_boot[p] # None THEN c.next_boot[p] ELSE c.now[p]]
  BY <1>1, ContentsFields
<1>3. Apply(c) = [now |-> c.now, next_boot |-> Blank]
  BY <1>2, Zenon DEF Apply
<1>4. Apply(c) = c
  BY <1>3, ContentsFields
<1> QED
  BY <1>4

(* Of the first set that waits, of those that are left after it, and of those   *)
(* after one more.                                                           *)
LEMMA WorkAppended ==
  ASSUME MemoryOK, NEW r \in Request
  PROVE  LET w == Append(work, r)
         IN  /\ Len(w) = Len(work) + 1 /\ w[Len(w)] = r /\ w # << >>
             /\ \A i \in 1..Len(work) : w[i] = work[i] /\ i \in 1..Len(w)
             /\ work # << >> => Head(w) = Head(work)
             /\ Len(work) \in Nat
BY AppendProperties, LenProperties DEF MemoryOK

(* What is written differs in one entry. *)
LEMMA BufferChanged ==
  ASSUME MemoryOK, WritePersistentProperty, NEW old \in Contents,
         buffer' = [old EXCEPT ![Head(work).kind][Head(work).prop] = Head(work).value]
  PROVE  LET r == Head(work)
         IN  /\ r.kind = "now" => buffer'.now = [old.now EXCEPT ![r.prop] = r.value] /\ buffer'.next_boot = old.next_boot
             /\ r.kind = "next_boot" => buffer'.next_boot = [old.next_boot EXCEPT ![r.prop] = r.value] /\ buffer'.now = old.now
<1> DEFINE r == Head(work)
           b == buffer'
<1>1. r \in Request
  BY WorkType DEF WritePersistentProperty
<1>2. b = [old EXCEPT ![r.kind][r.prop] = r.value]
  OBVIOUS
<1> HIDE DEF b, r
<1>3. CASE r.kind = "now"
  <2>1. b = [old EXCEPT !["now"][r.prop] = r.value]
    BY <1>2, <1>3
  <2>2. b = [now |-> [old.now EXCEPT ![r.prop] = r.value], next_boot |-> old.next_boot]
    BY <2>1, ContentsFields DEF Contents
  <2> QED
    BY <1>3, <2>2 DEF b, r
<1>4. CASE r.kind = "next_boot"
  <2>1. b = [old EXCEPT !["next_boot"][r.prop] = r.value]
    BY <1>2, <1>4
  <2>2. b = [now |-> old.now, next_boot |-> [old.next_boot EXCEPT ![r.prop] = r.value]]
    BY <2>1, ContentsFields DEF Contents
  <2> QED
    BY <1>4, <2>2 DEF b, r
<1> QED
  BY <1>1, <1>3, <1>4, RequestFields DEF r

(* Either way the files are good. *)
LEMMA FilesKept ==
  ASSUME FilesOK, NeverTorn, FlagsOK, RunningKept, BootKept
  PROVE  SurvivesCrash
<1>1. CASE loaded
  <2> SUFFICES ASSUME NEW f, KeptFile(f), f \in File, NEW p \in Prop PROVE NextBoot(f, p) \in Ok(p)
    BY <1>1 DEF SurvivesCrash, CrashFiles, NeverTorn, RunningKept, Ok, FilesOK
  <2>1. CASE f \in Contents
    BY <2>1, ApplyType DEF KeptFile, Kept, NextBoot, Ok
  <2>2. CASE f \notin Contents
    BY <2>2 DEF KeptFile, NextBoot, Ok
  <2> QED
    BY <2>1, <2>2
<1>2. CASE ~loaded
  BY <1>2 DEF BootKept, SurvivesCrash, CrashFiles, NeverTorn, Ok
<1> QED
  BY <1>1, <1>2

(* The value that the load comes to is allowed. *)
LEMMA ResultOk ==
  ASSUME LoadOK, FilesOK, BootKept, OneWriter, ~loaded, loader \in {"migrate", "stage", "apply", "set"}
  PROVE  \A p \in Prop : Apply(result).now[p] \in Ok(p)
<1>1. CASE loader = "apply"
  <2>1. Apply(result) = result
    BY <1>1, ApplyBlank DEF BootKept, LoadOK
  <2> QED
    BY <1>1, <2>1 DEF BootKept, NextBoot
<1>2. CASE loader # "apply" /\ file \in Contents
  BY <1>2 DEF BootKept, NextBoot, Stands
<1>3. CASE loader # "apply" /\ file \notin Contents
  <2>1. result = [now |-> legacy, next_boot |-> Blank]
    BY <1>3 DEF BootKept, Stands
  <2>2. result.now = legacy /\ Apply(result) = result
    BY <2>1, ApplyBlank DEF LoadOK
  <2> QED
    BY <1>3, <2>2 DEF BootKept, NextBoot
<1> QED
  BY <1>1, <1>2, <1>3

(* After the load the files hold what was acknowledged. *)
LEMMA RunningPreserved ==
  ASSUME ApplyWritten, FlagsOK, MemoryOK, HistoryOK, LoadOK, FilesOK, OneWriter, NeverTorn, RunningKept, BootKept, [Next]_vars
  PROVE  RunningKept'
<1> USE PersistAssumption DEF RunningKept, KeptFile, Kept, OneWriter, NeverTorn, setVars, loadVars, fileVars, okVars
<1>1. CASE OpenTmp
  BY <1>1 DEF OpenTmp
<1>2. CASE WriteTmp
  BY <1>2 DEF WriteTmp
<1>3. CASE SyncTmp
  BY <1>3 DEF SyncTmp
<1>4. CASE Rename
  <2>1. CASE loaded
    <3>1. writer = "set" /\ (file' = file \/ file' = buffer) /\ buffer \in Contents
      BY <1>4, <2>1 DEF Rename, FilesOK
    <3> QED
      BY <1>4, <2>1, <3>1 DEF Rename
  <2> QED
    BY <1>4, <2>1 DEF Rename
<1>5. CASE SyncDir
  BY <1>5 DEF SyncDir
<1>6. CASE \E r \in Request : BeginSet(r)
  BY <1>6 DEF BeginSet
<1>7. CASE ChangeMemory
  <2>1. CASE loaded
    <3>1. Head(setting) \in Request /\ Head(setting).prop \in Prop
      BY <1>7, SettingType, RequestFields DEF ChangeMemory
    <3>2. \A p \in Prop : now_ok[p] \subseteq now_ok'[p]
      BY <1>7, <2>1, <3>1 DEF ChangeMemory, HistoryOK
    <3>3. \A p \in Prop : memory'[p] \in now_ok'[p]
      BY <1>7, <2>1, <3>1, <3>2 DEF ChangeMemory, HistoryOK, MemoryOK
    <3>4. \A i \in 1..Len(work) : work[i].prop \in Prop
      BY RequestFields, ElementOfSeq DEF MemoryOK
    <3>5. UNCHANGED <<work, loaded, file, stored, writer, buffer, legacy, staged_ok, staged>>
      BY <1>7 DEF ChangeMemory
    <3> QED
      BY <2>1, <3>2, <3>3, <3>4, <3>5
  <2> QED
    BY <1>7, <2>1 DEF ChangeMemory
<1>8. CASE Persist
  <2>1. CASE loaded
    <3> DEFINE r == Head(setting)
    <3>1. r \in Request /\ r.prop \in Prop
      BY <1>8, SettingType, RequestFields DEF Persist
    <3>2. /\ work' = Append(work, r)
          /\ \/ r.kind = "now" /\ now_ok' = [now_ok EXCEPT ![r.prop] = now_ok[r.prop] \cup {r.value}] /\ UNCHANGED staged_ok
             \/ r.kind # "now" /\ staged_ok' = [staged_ok EXCEPT ![r.prop] = staged_ok[r.prop] \cup {r.value}] /\ UNCHANGED now_ok
          /\ UNCHANGED <<loaded, memory, file, stored, writer, buffer, legacy, staged>>
      BY <1>8, <2>1 DEF Persist
    <3> HIDE DEF r
    <3>3. \A p \in Prop : now_ok[p] \subseteq now_ok'[p] /\ staged_ok[p] \subseteq staged_ok'[p]
      BY <3>1, <3>2 DEF HistoryOK
    <3>4. /\ r.kind = "now" => r.value \in now_ok'[r.prop]
          /\ r.kind = "next_boot" => r.value \in staged_ok'[r.prop]
      BY <3>1, <3>2 DEF HistoryOK
    <3>5. \A i \in 1..Len(work) : work[i].prop \in Prop
      BY RequestFields, ElementOfSeq DEF MemoryOK
    <3>6. \A i \in 1..Len(work') :
            /\ work'[i].kind = "now" => work'[i].value \in now_ok'[work'[i].prop]
            /\ work'[i].kind = "next_boot" => work'[i].value \in staged_ok'[work'[i].prop]
      <4> SUFFICES ASSUME NEW i \in 1..Len(work')
                   PROVE  /\ work'[i].kind = "now" => work'[i].value \in now_ok'[work'[i].prop]
                          /\ work'[i].kind = "next_boot" => work'[i].value \in staged_ok'[work'[i].prop]
        OBVIOUS
      <4>1. CASE i \in 1..Len(work)
        BY <2>1, <3>1, <3>2, <3>3, <3>5, <4>1, WorkAppended
      <4>2. CASE i = Len(work')
        BY <3>1, <3>2, <3>4, <4>2, WorkAppended
      <4> QED
        BY <3>1, <3>2, <4>1, <4>2, WorkAppended
    <3>7. writer = "set" => Head(work') = Head(work)
      BY <3>1, <3>2, WorkAppended
    <3> QED
      BY <2>1, <3>2, <3>3, <3>6, <3>7
  <2> QED
    BY <1>8, <2>1 DEF Persist
<1>9. CASE WritePersistentProperty
  <2> DEFINE r == Head(work)
             old == IF FileLoads THEN file ELSE LoadPersistentPropertiesFromMemory
  <2>1. loaded /\ r \in Request /\ r = work[1] /\ 1 \in 1..Len(work)
    BY <1>9, WorkType DEF WritePersistentProperty
  <2>2. old \in Contents /\ Kept(old)
    <3>1. CASE file \in Contents
      BY <3>1, <2>1 DEF FileLoads
    <3>2. CASE file \notin Contents
      <4>1. old = [now |-> memory, next_boot |-> Blank]
        BY <3>2 DEF FileLoads, LoadPersistentPropertiesFromMemory
      <4>2. old \in Contents /\ old.now = memory /\ \A p \in Prop : old.next_boot[p] = None
        BY <4>1, BlankType, ContentsType DEF MemoryOK, Blank
      <4> QED
        BY <2>1, <3>2, <4>2
    <3> QED
      BY <3>1, <3>2
  <2>3. buffer' = [old EXCEPT ![r.kind][r.prop] = r.value]
    BY <1>9 DEF WritePersistentProperty
  <2>4. UNCHANGED <<loaded, memory, work, stored, legacy, now_ok, staged_ok, staged>> /\ file' = file
    BY <1>9 DEF WritePersistentProperty
  <2> HIDE DEF old, r
  <2>5. /\ r.kind = "now" => buffer'.now = [old.now EXCEPT ![r.prop] = r.value] /\ buffer'.next_boot = old.next_boot
        /\ r.kind = "next_boot" => buffer'.next_boot = [old.next_boot EXCEPT ![r.prop] = r.value] /\ buffer'.now = old.now
    BY <1>9, <2>2, <2>3, BufferChanged DEF r
  <2>6. /\ r.kind = "now" => r.value \in now_ok[r.prop]
        /\ r.kind = "next_boot" => r.value \in staged_ok[r.prop]
        /\ r.kind \in {"now", "next_boot"} /\ r.prop \in Prop /\ r.value # None
    BY <2>1, RequestFields
  <2>7. old.now \in [Prop -> Value \cup {None}] /\ old.next_boot \in [Prop -> Value \cup {None}]
    BY <2>2, ContentsFields
  <2>8. Kept(buffer)'
    BY <2>2, <2>4, <2>5, <2>6, <2>7
  <2>9. /\ r.kind = "now" => buffer'.now[r.prop] = r.value
        /\ r.kind = "next_boot" => buffer'.next_boot[r.prop] = r.value
    BY <2>5, <2>6, <2>7
  <2> QED
    BY <2>1, <2>4, <2>8, <2>9 DEF r
<1>10. CASE Acknowledge
  <2> DEFINE r == Head(work)
  <2>1. /\ loaded /\ r \in Request /\ r = work[1] /\ 1 \in 1..Len(work) /\ r.prop \in Prop
        /\ r.kind \in {"now", "next_boot"} /\ r.value # None
    BY <1>10, WorkType, RequestFields DEF Acknowledge
  <2>2. /\ work' = Tail(work) /\ writer' = "none"
        /\ UNCHANGED <<loaded, memory, file, stored, legacy, buffer>>
    BY <1>10 DEF Acknowledge
  <2>3. \A i \in 1..Len(work') : work'[i] = work[i + 1] /\ i + 1 \in 2..Len(work) /\ i + 1 \in 1..Len(work) /\ work[i + 1] \in Request
    BY <1>10, <2>2, WorkType DEF Acknowledge
  <2>4. CASE writing = "error"
    <3>1. UNCHANGED <<now_ok, staged_ok, staged>>
      BY <1>10, <2>4 DEF Acknowledge
    <3> QED
      BY <2>1, <2>2, <2>3, <3>1
  <2>5. CASE writing = "ok" /\ r.kind = "now"
    <3>1. now_ok' = [now_ok EXCEPT ![r.prop] = {r.value} \cup Pending(r) \cup Current(r)] /\ UNCHANGED <<staged_ok, staged>>
      BY <1>10, <2>5 DEF Acknowledge
    <3>2. now_ok'[r.prop] = {r.value} \cup Pending(r) \cup Current(r)
      BY <2>1, <3>1 DEF HistoryOK
    <3>3. \A p \in Prop : p # r.prop => now_ok'[p] = now_ok[p]
      BY <3>1 DEF HistoryOK
    <3>4. file = buffer /\ stored = buffer /\ buffer \in Contents /\ buffer.now[r.prop] = r.value /\ Kept(buffer)
      BY <1>10, <2>1, <2>5 DEF Acknowledge, FilesOK
    <3>5. Kept(buffer)'
      BY <2>1, <2>2, <3>1, <3>2, <3>3, <3>4
    <3>6. \A p \in Prop : memory'[p] \in now_ok'[p]
      BY <2>1, <2>2, <2>5, <3>2, <3>3 DEF Current
    <3>7. \A i \in 2..Len(work) : work[i].kind = "now" /\ work[i].prop = r.prop => work[i].value \in Pending(r)
      BY <2>5 DEF Pending
    <3>8. \A i \in 1..Len(work') :
            /\ work'[i].kind = "now" => work'[i].value \in now_ok'[work'[i].prop]
            /\ work'[i].kind = "next_boot" => work'[i].value \in staged_ok'[work'[i].prop]
      <4> HIDE DEF r
      <4> QED
        BY <2>1, <2>3, <3>1, <3>2, <3>3, <3>7, RequestFields
    <3> QED
      BY <2>2, <3>4, <3>5, <3>6, <3>8
  <2>6. CASE writing = "ok" /\ r.kind = "next_boot"
    <3>1. staged_ok' = [staged_ok EXCEPT ![r.prop] = {r.value} \cup Pending(r)] /\ staged' = staged \cup {r.prop} /\ UNCHANGED now_ok
      BY <1>10, <2>6 DEF Acknowledge
    <3>2. staged_ok'[r.prop] = {r.value} \cup Pending(r)
      BY <2>1, <3>1 DEF HistoryOK
    <3>3. \A p \in Prop : p # r.prop => staged_ok'[p] = staged_ok[p]
      BY <3>1 DEF HistoryOK
    <3>4. file = buffer /\ stored = buffer /\ buffer \in Contents /\ buffer.next_boot[r.prop] = r.value /\ Kept(buffer)
      BY <1>10, <2>1, <2>6 DEF Acknowledge, FilesOK
    <3>5. Kept(buffer)'
      BY <2>1, <2>2, <3>1, <3>2, <3>3, <3>4
    <3>7. \A i \in 2..Len(work) : work[i].kind = "next_boot" /\ work[i].prop = r.prop => work[i].value \in Pending(r)
      BY <2>6 DEF Pending
    <3>8. \A i \in 1..Len(work') :
            /\ work'[i].kind = "now" => work'[i].value \in now_ok'[work'[i].prop]
            /\ work'[i].kind = "next_boot" => work'[i].value \in staged_ok'[work'[i].prop]
      <4> HIDE DEF r
      <4> QED
        BY <2>1, <2>3, <3>1, <3>2, <3>3, <3>7, RequestFields
    <3> QED
      BY <2>1, <2>2, <3>1, <3>4, <3>5, <3>8
  <2> QED
    BY <1>10, <2>1, <2>4, <2>5, <2>6 DEF Acknowledge
<1>11. CASE Load
  BY <1>11 DEF Load, FileLoads, LoadLegacyPersistentProperties
<1>12. CASE Migrated
  BY <1>12 DEF Migrated
<1>13. CASE Stage
  BY <1>13 DEF Stage, Apply
<1>14. CASE Applied
  BY <1>14 DEF Applied
<1>15. CASE \E p \in Prop : BeginLoadSet(p)
  BY <1>15 DEF BeginLoadSet
<1>16. CASE EndLoadSet
  BY <1>16 DEF EndLoadSet
<1>17. CASE Loaded
  <2>1. ~loaded /\ work = << >> /\ writer = "none" /\ result.next_boot = Blank /\ Stands(file) /\ Stands(stored)
    BY <1>17 DEF Loaded, BootKept, FilesOK
  <2>2. now_ok' = [p \in Prop |-> {result.now[p], memory[p]}] /\ staged' = {}
        /\ UNCHANGED <<work, memory, writer, file, stored, legacy>>
    BY <1>17 DEF Loaded
  <2>3. \A p \in Prop : result.next_boot[p] = None /\ result.now[p] \in now_ok'[p] /\ memory[p] \in now_ok'[p]
    BY <2>1, <2>2 DEF Blank
  <2>4. KeptFile(file)' /\ KeptFile(stored)'
    BY <2>1, <2>2, <2>3 DEF Stands
  <2>5. Len(work') = 0
    BY <2>1, <2>2
  <2> QED
    BY <2>1, <2>2, <2>3, <2>4, <2>5
<1>18. CASE Crash
  BY <1>18 DEF Crash, CrashFiles
<1>19. CASE UNCHANGED vars
  BY <1>19 DEF vars
<1> QED
  BY <1>1, <1>2, <1>3, <1>4, <1>5, <1>6, <1>7, <1>8, <1>9, <1>10, <1>11,
     <1>12, <1>13, <1>14, <1>15, <1>16, <1>17, <1>18, <1>19, Zenon
  DEF Next, WriteStep

(* Before, they lead to the same value as this load. *)
LEMMA BootPreserved ==
  ASSUME ApplyWritten, FlagsOK, MemoryOK, HistoryOK, LoadOK, FilesOK, OneWriter, NeverTorn, RunningKept, BootKept, [Next]_vars
  PROVE  BootKept'
<1> USE PersistAssumption DEF ApplyWritten, BootKept, NextBoot, Ok, Stands, OneWriter, NeverTorn, setVars, loadVars, fileVars, okVars
<1>1. CASE OpenTmp
  BY <1>1 DEF OpenTmp
<1>2. CASE WriteTmp
  BY <1>2 DEF WriteTmp
<1>3. CASE SyncTmp
  BY <1>3 DEF SyncTmp
<1>4. CASE Rename
  <2>1. CASE ~loaded
    <3>1. buffer = result /\ (file' = file \/ file' = result) /\ result \in Contents /\ loader \in {"migrate", "apply"}
      BY <1>4, <2>1 DEF Rename, FilesOK
    <3>2. \A p \in Prop : Apply(result).now[p] \in Ok(p)
      BY <2>1, <3>1, ResultOk
    <3>3. loader = "apply" => Apply(result) = result
      BY <2>1, <3>1, ApplyBlank
    <3> QED
      BY <1>4, <2>1, <3>1, <3>2, <3>3 DEF Rename
  <2> QED
    BY <1>4, <2>1 DEF Rename
<1>5. CASE SyncDir
  BY <1>5 DEF SyncDir
<1>6. CASE \E r \in Request : BeginSet(r)
  <2>1. UNCHANGED <<loadVars, fileVars, now_ok, staged_ok, staged>>
    BY <1>6 DEF BeginSet
  <2> QED
    BY <2>1
<1>7. CASE ChangeMemory
  BY <1>7 DEF ChangeMemory
<1>8. CASE Persist
  BY <1>8 DEF Persist
<1>9. CASE WritePersistentProperty
  BY <1>9 DEF WritePersistentProperty, FileLoads, LoadPersistentPropertiesFromMemory
<1>10. CASE Acknowledge
  BY <1>10 DEF Acknowledge, Pending, Current
<1>11. CASE Load
  BY <1>11 DEF Load, FileLoads, LoadLegacyPersistentProperties
<1>12. CASE Migrated
  <2>1. UNCHANGED <<loaded, result, file, stored, now_ok, staged_ok, staged>> /\ loader' = "stage" /\ ~loaded
    BY <1>12 DEF Migrated
  <2>2. CASE writing = "ok"
    <3>1. file = result /\ stored = result /\ result \in Contents
      BY <1>12, <2>1, <2>2 DEF Migrated, FilesOK
    <3> QED
      BY <2>1, <3>1, <1>12 DEF Migrated
  <2>3. CASE writing = "error"
    <3>1. UNCHANGED legacy
      BY <1>12, <2>3 DEF Migrated
    <3> QED
      BY <1>12, <2>1, <3>1 DEF Migrated
  <2> QED
    BY <1>12, <2>2, <2>3 DEF Migrated
<1>13. CASE Stage
  <2>1. UNCHANGED <<loaded, legacy, file, stored, now_ok, staged_ok, staged>> /\ ~loaded
    BY <1>13 DEF Stage
  <2>2. CASE result.next_boot = Blank
    BY <1>13, <2>1, <2>2 DEF Stage
  <2>3. CASE result.next_boot # Blank
    <3>1. file = result /\ stored = result /\ result \in Contents
      BY <1>13, <2>1, <2>3 DEF Stage, LoadOK
    <3>2. loader' = "apply" /\ result' = Apply(result) /\ buffer' = result' /\ writing' = "open"
      BY <1>13, <2>3 DEF Stage
    <3> QED
      BY <2>1, <3>1, <3>2, ApplyType
  <2> QED
    BY <2>2, <2>3
<1>14. CASE Applied
  <2>1. ~loaded /\ writing = "ok"
    BY <1>14 DEF Applied
  <2>2. file = result /\ stored = result /\ result \in Contents
    BY <1>14, <2>1 DEF Applied, LoadOK
  <2> QED
    BY <1>14, <2>1, <2>2 DEF Applied
<1>15. CASE \E p \in Prop : BeginLoadSet(p)
  BY <1>15 DEF BeginLoadSet
<1>16. CASE EndLoadSet
  BY <1>16 DEF EndLoadSet
<1>17. CASE Loaded
  BY <1>17 DEF Loaded
<1>18. CASE Crash
  <2>1. (file' = file \/ file' = stored) /\ stored' = file' /\ UNCHANGED <<legacy, now_ok, staged_ok, staged>>
    BY <1>18 DEF Crash, CrashFiles
  <2>2. loader' = "off"
    BY <1>18 DEF Crash
  <2>3. SurvivesCrash
    BY FilesKept
  <2> QED
    BY <2>1, <2>2, <2>3 DEF SurvivesCrash, CrashFiles
<1>19. CASE UNCHANGED vars
  BY <1>19 DEF vars
<1> QED
  BY <1>1, <1>2, <1>3, <1>4, <1>5, <1>6, <1>7, <1>8, <1>9, <1>10, <1>11,
     <1>12, <1>13, <1>14, <1>15, <1>16, <1>17, <1>18, <1>19, Zenon
  DEF Next, WriteStep

-----------------------------------------------------------------------------
(* Memory and file *)

(* Memory has what the file has or will have. *)
LEMMA MemoryPreserved ==
  ASSUME ApplyWritten, FlagsOK, MemoryOK, HistoryOK, LoadOK, FilesOK, OneWriter, NeverTorn, RunningKept, BootKept, MemoryAgrees, [Next]_vars
  PROVE  MemoryAgrees'
<1> USE PersistAssumption DEF MemoryAgrees, Agrees, Setting, Waiting, OneWriter, setVars, loadVars, fileVars, okVars
<1>1. CASE OpenTmp
  BY <1>1 DEF OpenTmp
<1>2. CASE WriteTmp
  BY <1>2 DEF WriteTmp
<1>3. CASE SyncTmp
  BY <1>3 DEF SyncTmp
<1>4. CASE Rename
  <2>1. UNCHANGED <<loaded, stale, memory, set_step, setting, work, loader, todo, result, writer, buffer>>
    BY <1>4 DEF Rename
  <2>2. loaded => writer = "set" /\ (file' = file \/ file' = buffer)
    BY <1>4 DEF Rename, NeverTorn, FilesOK
  <2> QED
    BY <2>1, <2>2
<1>5. CASE SyncDir
  BY <1>5 DEF SyncDir
<1>6. CASE \E r \in Request : BeginSet(r)
  BY <1>6 DEF BeginSet
<1>7. CASE ChangeMemory
  <2> DEFINE r == Head(setting)
  <2>1. UNCHANGED <<loaded, stale, setting, work, loader, todo, result, writer, buffer, file>>
        /\ set_step = "change" /\ set_step' = "persist"
    BY <1>7 DEF ChangeMemory
  <2>2. r.kind = "now" => memory' = [memory EXCEPT ![r.prop] = r.value]
    BY <1>7 DEF ChangeMemory
  <2>3. r.kind # "now" => memory' = memory
    BY <1>7 DEF ChangeMemory
  <2>4. \A p \in Prop : Setting(p) => memory'[p] = r.value
    BY <2>2 DEF MemoryOK
  <2>5. \A p \in Prop : ~Setting(p) => memory'[p] = memory[p]
    BY <2>1, <2>2, <2>3 DEF MemoryOK
  <2> QED
    BY <2>1, <2>4, <2>5
<1>8. CASE Persist
  <2> DEFINE r == Head(setting)
  <2>1. UNCHANGED <<loaded, stale, memory, loader, todo, result, writer, buffer, file>>
        /\ set_step = "persist" /\ set_step' = "idle"
    BY <1>8 DEF Persist
  <2>2. CASE ~loaded
    BY <2>1, <2>2
  <2>3. CASE loaded
    <3>1. work' = Append(work, r) /\ r \in Request
      BY <1>8, <2>3, SettingType DEF Persist
    <3>2. /\ Len(work) \in Nat /\ Len(work') = Len(work) + 1 /\ work'[Len(work')] = r
          /\ \A i \in 1..Len(work) : work'[i] = work[i] /\ i \in 1..Len(work')
      BY <3>1, WorkAppended
    <3>3. \A p \in Prop : ~Setting(p) => \A i : i \in Waiting(p)' <=> i \in Waiting(p)
      BY <2>1, <3>2
    <3>4. \A p \in Prop : Setting(p) => Len(work') \in Waiting(p)' /\ \A i \in Waiting(p)' : i <= Len(work')
      BY <2>1, <3>2
    <3> SUFFICES ASSUME NEW p \in Prop \ stale PROVE Agrees(p)'
      BY <2>1, <2>3
    <3>5. CASE Setting(p)
      BY <2>1, <2>3, <3>2, <3>4, <3>5
    <3>6. CASE ~Setting(p) /\ \E i \in Waiting(p) : (\A j \in Waiting(p) : j <= i) /\ memory[p] = work[i].value
      <4>1. PICK i \in Waiting(p) : (\A j \in Waiting(p) : j <= i) /\ memory[p] = work[i].value
        BY <3>6
      <4>2. i \in Waiting(p)' /\ \A j \in Waiting(p)' : j <= i
        BY <3>3, <3>6, <4>1
      <4>3. memory'[p] = work'[i].value
        BY <2>1, <3>2, <4>1
      <4> QED
        BY <2>1, <4>2, <4>3
    <3>7. CASE ~Setting(p) /\ Waiting(p) = {}
      <4>1. Waiting(p)' = {}
        BY <3>3, <3>7
      <4> QED
        BY <2>1, <2>3, <3>7, <4>1
    <3> QED
      BY <2>3, <3>5, <3>6, <3>7
  <2> QED
    BY <2>2, <2>3
<1>9. CASE WritePersistentProperty
  BY <1>9 DEF WritePersistentProperty, FileLoads, LoadPersistentPropertiesFromMemory
<1>10. CASE Acknowledge
  <2> DEFINE r == Head(work)
  <2>1. /\ UNCHANGED <<loaded, memory, set_step, setting, file>> /\ writer' = "none" /\ loaded /\ writer = "set"
        /\ writing \in {"ok", "error"} /\ work # << >> /\ work' = Tail(work)
    BY <1>10 DEF Acknowledge
  <2>2. /\ r = work[1] /\ Len(work) \in Nat /\ Len(work') = Len(work) - 1
        /\ \A i \in 1..Len(work') : work'[i] = work[i + 1]
    BY <2>1, WorkType, LenProperties DEF MemoryOK
  <2>3. stale \subseteq stale' /\ (writing = "error" /\ r.kind = "now" => r.prop \in stale')
    BY <1>10 DEF Acknowledge
  <2>4. /\ writing = "ok" => file = buffer /\ buffer \in Contents
        /\ r.kind = "now" => buffer.now[r.prop] = r.value
    BY <2>1 DEF NeverTorn, FilesOK, RunningKept
  <2> HIDE DEF r
  <2> SUFFICES ASSUME NEW p \in Prop \ stale' PROVE Agrees(p)'
    BY <2>1
  <2>5. Agrees(p)
    BY <2>1, <2>3
  <2>6. \A i \in Int : i \in Waiting(p)' <=> i >= 1 /\ i + 1 \in Waiting(p)
    BY <2>2
  <2>7. CASE Setting(p)
    BY <2>1, <2>5, <2>7
  <2>8. CASE ~Setting(p) /\ Waiting(p) = {}
    <3>1. Waiting(p)' = {}
      BY <2>6, <2>8, <2>2
    <3> QED
      BY <2>1, <2>5, <2>8, <3>1
  <2>9. CASE ~Setting(p) /\ Waiting(p) # {}
    <3>1. PICK i \in Waiting(p) : (\A j \in Waiting(p) : j <= i) /\ memory[p] = work[i].value
      BY <2>5, <2>9
    <3>2. CASE i = 1
      <4>1. Waiting(p)' = {}
        <5> SUFFICES ASSUME NEW k \in Waiting(p)' PROVE FALSE
          OBVIOUS
        <5>1. k \in Int /\ k >= 1 /\ k + 1 \in Waiting(p)
          BY <2>2, <2>6
        <5> QED
          BY <3>1, <3>2, <5>1
      <4>2. r.kind = "now" /\ r.prop = p /\ memory[p] = r.value
        BY <2>2, <3>1, <3>2
      <4>3. file.now[p] = memory[p]
        BY <2>1, <2>3, <2>4, <4>2
      <4> QED
        BY <2>1, <2>9, <4>1, <4>3
    <3>3. CASE i # 1
      <4>1. i - 1 \in 1..Len(work') /\ work'[i - 1] = work[i]
        BY <2>2, <3>1, <3>3
      <4>2. i - 1 \in Waiting(p)' /\ \A j \in Waiting(p)' : j <= i - 1
        BY <2>2, <2>6, <3>1, <4>1
      <4> QED
        BY SMTT(30), <2>1, <2>9, <3>1, <4>1, <4>2
    <3> QED
      BY <3>2, <3>3
  <2> QED
    BY <2>7, <2>8, <2>9
<1>11. CASE Load
  BY <1>11 DEF Load, FileLoads, LoadLegacyPersistentProperties
<1>12. CASE Migrated
  BY <1>12 DEF Migrated
<1>13. CASE Stage
  BY <1>13 DEF Stage, Apply
<1>14. CASE Applied
  BY <1>14 DEF Applied
<1>15. CASE \E p \in Prop : BeginLoadSet(p)
  BY <1>15 DEF BeginLoadSet
<1>16. CASE EndLoadSet
  <2>1. ~loaded /\ loader = "set" /\ Head(loading) \in Prop
    BY <1>16 DEF EndLoadSet, LoadOK
  <2>2. /\ UNCHANGED <<loaded, stale, set_step, setting, loader, result>>
        /\ memory' = [memory EXCEPT ![Head(loading)] = result.now[Head(loading)]]
        /\ todo' = todo \ {Head(loading)}
    BY <1>16 DEF EndLoadSet
  <2> QED
    BY <2>1, <2>2 DEF MemoryOK
<1>17. CASE Loaded
  <2>1. /\ UNCHANGED <<memory, set_step, setting, work, file, stale, writer>>
        /\ ~loaded /\ loaded' /\ loader = "set" /\ todo = {}
    BY <1>17 DEF Loaded
  <2>2. Len(work) = 0 /\ writer = "none"
    BY <2>1 DEF FilesOK
  <2>3. file \in Contents => file = result
    BY <2>1 DEF BootKept, Stands
  <2> QED
    BY <2>1, <2>2, <2>3
<1>18. CASE Crash
  <2>1. memory' = Blank /\ set_step' = "idle" /\ ~loaded' /\ loader' = "off"
    BY <1>18 DEF Crash
  <2> QED
    BY <2>1 DEF Blank
<1>19. CASE UNCHANGED vars
  BY <1>19 DEF vars
<1> QED
  BY <1>1, <1>2, <1>3, <1>4, <1>5, <1>6, <1>7, <1>8, <1>9, <1>10, <1>11,
     <1>12, <1>13, <1>14, <1>15, <1>16, <1>17, <1>18, <1>19, Zenon
  DEF Next, WriteStep

-----------------------------------------------------------------------------
(* Theorems *)

LEMMA TypeParts == Inv => TypeOK
BY DEF Inv, FlagsOK, MemoryOK, HistoryOK, LoadOK, FilesOK, TypeOK

LEMMA InitInv == Init => Inv /\ RunningKept /\ BootKept /\ MemoryAgrees
<1> SUFFICES ASSUME Init PROVE Inv /\ RunningKept /\ BootKept /\ MemoryAgrees
  OBVIOUS
<1>1. FlagsOK
  BY Zenon DEF Init, FlagsOK
<1>2. result \in Contents
  BY BlankType, ContentsType DEF Init
<1>3. MemoryOK /\ HistoryOK /\ LoadOK
  BY <1>2, BlankType, PersistAssumption DEF Init, MemoryOK, HistoryOK, LoadOK
<1>4. FilesOK /\ OneWriter /\ NeverTorn
  BY <1>2, FileKinds DEF Init, FilesOK, OneWriter, NeverTorn
<1>5. RunningKept /\ BootKept
  BY FileKinds DEF Init, RunningKept, BootKept, NextBoot, Ok
<1>6. MemoryAgrees
  BY DEF Init, MemoryAgrees, Setting, Blank
<1> QED
  BY <1>1, <1>3, <1>4, <1>5, <1>6 DEF Inv

LEMMA NextInv == Inv /\ [Next]_vars => Inv'
BY FlagsKept, MemoryTyped, HistoryTyped, LoadTyped, FilesTyped, OneWriterKept, NeverTornKept DEF Inv

LEMMA Invariance == Spec => []Inv
BY InitInv, NextInv, PTL DEF Spec

LEMMA KeptInvariance == ApplyWritten => (Spec => [](RunningKept /\ BootKept /\ MemoryAgrees))
<1> SUFFICES ASSUME ApplyWritten PROVE Spec => [](RunningKept /\ BootKept /\ MemoryAgrees)
  OBVIOUS
<1>1. Inv /\ RunningKept /\ BootKept /\ MemoryAgrees /\ [Next]_vars => (RunningKept /\ BootKept /\ MemoryAgrees)'
  BY RunningPreserved, BootPreserved, MemoryPreserved DEF Inv
<1> QED
  BY InitInv, Invariance, <1>1, PTL DEF Spec

(***************************************************************************)
(* Every variable keeps its type: among others what is handed to            *)
(* WritePersistentPropertyFile is always a whole set of properties.          *)
(***************************************************************************)
THEOREM TypeCorrect == Spec => []TypeOK
BY Invariance, TypeParts, PTL

(***************************************************************************)
(* WritePersistentPropertyFile() never leaves a file that cannot be parsed,  *)
(* in its place or on storage, at any step and after any crash: the           *)
(* temporary file is written and synced before it is renamed.                *)
(***************************************************************************)
THEOREM NoTornFile == Spec => [](file # Torn /\ stored # Torn)
<1>1. Inv => file # Torn /\ stored # Torn
  BY DEF Inv, NeverTorn
<1> QED
  BY Invariance, <1>1, PTL

(***************************************************************************)
(* Whenever power is lost, the next boot finds of each property the value of *)
(* the last acknowledged set that was written or of a later one, and a        *)
(* staged value that was acknowledged takes its place once: for any number of *)
(* properties, sets, failed writes and crashes, if the write that applies     *)
(* staged values at boot does not fail (ApplyWritten).                       *)
(***************************************************************************)
THEOREM CrashSurvived == ApplyWritten => (Spec => []SurvivesCrash)
<1> SUFFICES ASSUME ApplyWritten PROVE Spec => []SurvivesCrash
  OBVIOUS
<1>1. Inv /\ RunningKept /\ BootKept => SurvivesCrash
  BY FilesKept DEF Inv
<1> QED
  BY Invariance, KeptInvariance, <1>1, PTL

(***************************************************************************)
(* With no set on its way, memory and file agree on every property whose     *)
(* last set neither overlapped the load nor failed to be written.            *)
(***************************************************************************)
THEOREM MemoryFollowed == ApplyWritten => (Spec => []MemoryMatchesFile)
<1> SUFFICES ASSUME ApplyWritten PROVE Spec => []MemoryMatchesFile
  OBVIOUS
<1>1. ASSUME MemoryAgrees, loaded, work = << >>, set_step = "idle", file \in Contents, NEW p \in Prop \ stale
      PROVE  memory[p] = file.now[p]
  <2>1. Agrees(p) /\ ~Setting(p)
    BY <1>1 DEF MemoryAgrees, Setting
  <2>2. Waiting(p) = {}
    BY <1>1 DEF Waiting
  <2> QED
    BY <1>1, <2>1, <2>2 DEF Agrees
<1>2. MemoryAgrees => MemoryMatchesFile
  BY <1>1 DEF MemoryMatchesFile
<1> QED
  BY KeptInvariance, <1>2, PTL
=============================================================================
