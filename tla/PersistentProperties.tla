------------------------ MODULE PersistentProperties ------------------------
(***************************************************************************)
(* Persistent properties of init: setting persist.* and next_boot.persist.* *)
(* properties on the property thread, writing the file                      *)
(* /data/property/persistent_properties through a temporary file, with or   *)
(* without the write thread, loading it at boot (with staged values and the *)
(* legacy directory), and crashes of the device in between.                 *)
(*                                                                         *)
(* Three threads: the property thread (setting), the thread that writes     *)
(* (PersistWriteThread, or the property thread itself), and the thread of    *)
(* property_service_for_system, which loads.  The last two write files and    *)
(* never at the same time, so they share the variables of a write.           *)
(*                                                                         *)
(* The file system: file is what a read returns, stored what is on storage   *)
(* for certain.  A crash leaves either of them, and a torn file where the     *)
(* data had not been synced.  Loading a second time in one boot (after a      *)
(* userspace reboot) is not modelled.                                        *)
(***************************************************************************)
EXTENDS Naturals, Sequences

CONSTANTS
  Prop,       \* names after "persist."
  Value, None,
  Missing, Torn,  \* no file; a file that cannot be parsed
  Failing,    \* writes that may fail: of "set", "migrate", "apply"
  MaxSets, MaxCrashes

(* The file: for each property its value and the one staged for next boot.    *)
Contents == [now : [Prop -> Value \cup {None}], next_boot : [Prop -> Value \cup {None}]]
File == Contents \cup {Missing, Torn}

Request == [prop : Prop, kind : {"now", "next_boot"}, value : Value]

ASSUME PersistAssumption ==
  /\ None \notin Value /\ Missing # Torn
  /\ {Missing, Torn} \cap Contents = {}
  /\ Failing \subseteq {"set", "migrate", "apply"}
  /\ MaxSets \in Nat /\ MaxCrashes \in Nat

(* The write that applies staged values at boot does not fail: if it does,    *)
(* they stay in the file and the next boot applies them again, over what was   *)
(* set meanwhile (LoadPersistentProperties only logs the error).             *)
ApplyWritten == "apply" \notin Failing

VARIABLES
  async,      \* ro.property_service.async_persist_writes
  loaded,     \* persistent_properties_loaded
  memory,     \* [Prop -> value of persist.<name>]
  setting,    \* what the property thread is setting, or << >>
  set_step,   \* how far it is: "idle", "change" or "persist"
  work,       \* PersistWriteThread::work_
  loader,     \* what the loading thread does
  loading,    \* the property it sets, or << >>
  todo,       \* properties it has still to set
  result,     \* what LoadPersistentProperties returns
  legacy,     \* the files of the legacy directory
  file, stored, file_synced, tmp, tmp_synced,
  writing,    \* step of WritePersistentPropertyFile
  writer,     \* why: "set", "migrate" or "apply"
  buffer,     \* what is written
  sets, crashes,
  now_ok,     \* history: what the next boot may find in persist.<name> ...
  staged_ok,  \* ... values of next_boot.persist.<name> that may take its place
  staged,     \* ... and the properties where one of them must
  stale       \* history: properties whose last set overlapped the load or failed

setVars == <<memory, setting, set_step, work, sets>>
loadVars == <<loaded, loader, loading, todo, result, legacy>>
fileVars == <<file, stored, file_synced, tmp, tmp_synced, writing, writer, buffer>>
okVars == <<now_ok, staged_ok, staged, stale>>
vars == <<async, setVars, loadVars, fileVars, okVars, crashes>>

Blank == [p \in Prop |-> None]

TypeOK ==
  /\ async \in BOOLEAN /\ loaded \in BOOLEAN
  /\ memory \in [Prop -> Value \cup {None}]
  /\ setting \in {<< >>} \cup {<<r>> : r \in Request}
  /\ set_step \in {"idle", "change", "persist"}
  /\ work \in Seq(Request)
  /\ loader \in {"off", "read", "migrate", "stage", "apply", "set", "done"}
  /\ loading \in {<< >>} \cup {<<p>> : p \in Prop}
  /\ todo \in SUBSET Prop
  /\ result \in Contents
  /\ legacy \in [Prop -> Value \cup {None}]
  /\ file \in File /\ stored \in File /\ tmp \in File
  /\ file_synced \in BOOLEAN /\ tmp_synced \in BOOLEAN
  /\ writing \in {"idle", "open", "write", "fsync", "rename", "fsync_dir", "ok", "error"}
  /\ writer \in {"none", "set", "migrate", "apply"}
  /\ buffer \in Contents
  /\ sets \in 0..MaxSets /\ crashes \in 0..MaxCrashes
  /\ now_ok \in [Prop -> SUBSET (Value \cup {None})]
  /\ staged_ok \in [Prop -> SUBSET Value]
  /\ staged \in SUBSET Prop
  /\ stale \in SUBSET Prop

Init ==
  /\ async \in BOOLEAN /\ loaded = FALSE
  /\ memory = Blank /\ setting = << >> /\ set_step = "idle" /\ work = << >> /\ sets = 0
  /\ loader = "off" /\ loading = << >> /\ todo = {}
  /\ result = [now |-> Blank, next_boot |-> Blank]
  /\ legacy \in [Prop -> Value \cup {None}]
  /\ file = Missing /\ stored = Missing /\ file_synced = TRUE
  /\ tmp = Missing /\ tmp_synced = FALSE
  /\ writing = "idle" /\ writer = "none" /\ buffer = result
  /\ crashes = 0
  /\ now_ok = [p \in Prop |-> {legacy[p]}]
  /\ staged_ok = [p \in Prop |-> {}] /\ staged = {}
  /\ stale = {}
----------------------------------------------------------------------------
(* WritePersistentPropertyFile                                             *)

(* The file at ".tmp" is opened and truncated ... *)
OpenTmp ==
  /\ writing = "open" /\ tmp_synced' = FALSE
  /\ \/ writing' = "write" /\ tmp' = Torn
     \/ writing' = "error" /\ writer \in Failing /\ UNCHANGED tmp
  /\ UNCHANGED <<async, setVars, loadVars, okVars, crashes, file, stored, file_synced, writer,
                 buffer>>

(* ... written, or not ... *)
WriteTmp ==
  /\ writing = "write"
  /\ \/ writing' = "fsync" /\ tmp' = buffer
     \/ writing' = "error" /\ writer \in Failing /\ UNCHANGED tmp
  /\ UNCHANGED <<async, setVars, loadVars, okVars, crashes, file, stored, file_synced,
                 tmp_synced, writer, buffer>>

(* Wrong variant: the data is left in the page cache. *)
SyncTmpSkipped ==
  /\ writing = "fsync" /\ writing' = "rename"
  /\ UNCHANGED <<async, setVars, loadVars, okVars, crashes, file, stored, file_synced, tmp,
                 tmp_synced, writer, buffer>>

(* ... synced ... *)
SyncTmp ==
  /\ writing = "fsync" /\ writing' = "rename"
  /\ tmp_synced' = TRUE
  /\ UNCHANGED <<async, setVars, loadVars, okVars, crashes, file, stored, file_synced, tmp,
                 writer, buffer>>

(* ... renamed over the old one, or removed when that fails ... *)
Rename ==
  /\ writing = "rename"
  /\ \/ writing' = "fsync_dir" /\ file' = tmp /\ file_synced' = tmp_synced
     \/ writing' = "error" /\ writer \in Failing /\ UNCHANGED <<file, file_synced>>
  /\ tmp' = Missing
  /\ UNCHANGED <<async, setVars, loadVars, okVars, crashes, stored, tmp_synced, writer, buffer>>

(* Wrong variant: the directory is not synced. *)
SyncDirSkipped ==
  /\ writing = "fsync_dir" /\ writing' = "ok"
  /\ UNCHANGED <<async, setVars, loadVars, okVars, crashes, file, stored, file_synced, tmp,
                 tmp_synced, writer, buffer>>

(* ... and the directory is synced, unless it cannot be opened. *)
SyncDir ==
  /\ writing = "fsync_dir"
  /\ \/ writing' = "ok" /\ stored' = IF file_synced THEN file ELSE Torn
     \/ writing' = "error" /\ writer \in Failing /\ UNCHANGED stored
  /\ UNCHANGED <<async, setVars, loadVars, okVars, crashes, file, file_synced, tmp, tmp_synced,
                 writer, buffer>>

WriteStep == OpenTmp \/ WriteTmp \/ SyncTmp \/ Rename \/ SyncDir
----------------------------------------------------------------------------
(* PropertySet and the writing thread                                      *)

(* Wrong variant: errors of reading and parsing are not noticed. *)
FileLoadsUnchecked == TRUE

(* LoadPersistentPropertyFile succeeds: there is a file and it can be parsed.  *)
FileLoads == file \in Contents

(* PropertySet starts to change the property area.  Without the write thread   *)
(* the property thread has first to finish the previous write.                *)
BeginSet(r) ==
  /\ set_step = "idle" /\ sets < MaxSets
  /\ async \/ work = << >>
  /\ setting' = <<r>> /\ set_step' = "change" /\ sets' = sets + 1
  /\ stale' = IF r.kind = "now" THEN IF loaded THEN stale \ {r.prop} ELSE stale \cup {r.prop}
              ELSE stale
  /\ UNCHANGED <<async, memory, work, loadVars, fileVars, now_ok, staged_ok, staged, crashes>>

(* The value is in the property area. *)
ChangeMemory ==
  /\ set_step = "change" /\ set_step' = "persist"
  /\ LET r == Head(setting) IN
       IF r.kind = "now"
       THEN /\ memory' = [memory EXCEPT ![r.prop] = r.value]
            /\ now_ok' = IF loaded THEN [now_ok EXCEPT ![r.prop] = @ \cup {r.value}] ELSE now_ok
       ELSE UNCHANGED <<memory, now_ok>>
  /\ UNCHANGED <<async, setting, work, sets, loadVars, fileVars, staged_ok, staged, stale,
                 crashes>>

(* If the load is over, the set is handed over to be written (in place, or by   *)
(* PersistWriteThread::Write); else it is acknowledged as it is.                *)
Persist ==
  /\ set_step = "persist" /\ set_step' = "idle" /\ setting' = << >>
  /\ LET r == Head(setting) IN
       IF ~loaded THEN UNCHANGED <<work, now_ok, staged_ok>>
       ELSE /\ work' = Append(work, r)
            /\ IF r.kind = "now"
               THEN /\ now_ok' = [now_ok EXCEPT ![r.prop] = @ \cup {r.value}]
                    /\ UNCHANGED staged_ok
               ELSE /\ staged_ok' = [staged_ok EXCEPT ![r.prop] = @ \cup {r.value}]
                    /\ UNCHANGED now_ok
  /\ UNCHANGED <<async, memory, sets, loadVars, fileVars, staged, stale, crashes>>

(* Only persist.*: staged values are not among them. *)
LoadPersistentPropertiesFromMemory == [now |-> memory, next_boot |-> Blank]

(* WritePersistentProperty reads the file, or recovers from memory when there  *)
(* is none or it cannot be parsed (it is then removed), and changes one entry. *)
WritePersistentProperty ==
  /\ work # << >> /\ writing = "idle"
  /\ LET r == Head(work)
         old == IF FileLoads THEN file ELSE LoadPersistentPropertiesFromMemory
     IN  buffer' = [old EXCEPT ![r.kind][r.prop] = r.value]
  /\ file' = IF file = Torn THEN Missing ELSE file
  /\ writer' = "set" /\ writing' = "open"
  /\ tmp' = Missing
  /\ UNCHANGED <<async, setVars, loadVars, okVars, crashes, stored, file_synced, tmp_synced>>

(* Values of r.prop that are still to be written after the first of work. *)
Pending(r) ==
  {work[i].value : i \in {j \in 2..Len(work) : work[j].prop = r.prop /\ work[j].kind = r.kind}}

(* A value of r.prop that is in memory and not yet in work may be written too,  *)
(* by a recovery from memory.                                                 *)
Current(r) == IF r.kind = "now" THEN {memory[r.prop]} ELSE {}

(* Wrong variant: a set that could not be written is not answered. *)
AcknowledgeWritten ==
  /\ writer = "set" /\ writing = "ok"
  /\ work' = Tail(work) /\ writing' = "idle" /\ writer' = "none"
  /\ UNCHANGED <<async, memory, setting, set_step, sets, loadVars, okVars, crashes, file,
                 stored, file_synced, tmp, tmp_synced, buffer>>

(* The set is acknowledged, whether it was written or not. *)
Acknowledge ==
  /\ writer = "set" /\ writing \in {"ok", "error"}
  /\ LET r == Head(work) IN
       IF writing = "ok"
       THEN /\ IF r.kind = "now"
               THEN /\ now_ok' = [now_ok EXCEPT ![r.prop] = {r.value} \cup Pending(r) \cup Current(r)]
                    /\ UNCHANGED <<staged, staged_ok>>
               ELSE /\ staged_ok' = [staged_ok EXCEPT ![r.prop] = {r.value} \cup Pending(r)]
                    /\ staged' = staged \cup {r.prop}
                    /\ UNCHANGED now_ok
            /\ UNCHANGED stale
       ELSE /\ stale' = IF r.kind = "now" THEN stale \cup {r.prop} ELSE stale
            /\ UNCHANGED <<now_ok, staged, staged_ok>>
  /\ work' = Tail(work) /\ writing' = "idle" /\ writer' = "none"
  /\ UNCHANGED <<async, memory, setting, set_step, sets, loadVars, crashes, file, stored,
                 file_synced, tmp, tmp_synced, buffer>>
----------------------------------------------------------------------------
(* LoadPersistentProperties on the thread of property_service_for_system     *)

(* One file per property; there were no staged ones then. *)
LoadLegacyPersistentProperties == [now |-> legacy, next_boot |-> Blank]

(* load_persist_props: the file is read; if that fails, the legacy directory, *)
(* whose contents are then written to the file.  (init.rc makes the directory  *)
(* long before; that it cannot be opened is not modelled.)                     *)
Load ==
  /\ loader = "off"
  /\ tmp' = Missing
  /\ IF FileLoads
     THEN /\ loader' = "stage" /\ result' = file
          /\ UNCHANGED <<file, writing, writer, buffer>>
     ELSE /\ loader' = "migrate"
          /\ result' = LoadLegacyPersistentProperties
          /\ file' = Missing
          /\ writing' = "open" /\ writer' = "migrate" /\ buffer' = result'
  /\ UNCHANGED <<async, setVars, okVars, crashes, loaded, loading, todo, legacy, stored,
                 file_synced, tmp_synced>>

(* The legacy files are removed once the file is there. *)
Migrated ==
  /\ loader = "migrate" /\ writing \in {"ok", "error"}
  /\ legacy' = IF writing = "ok" THEN Blank ELSE legacy
  /\ loader' = "stage"
  /\ writing' = "idle" /\ writer' = "none"
  /\ UNCHANGED <<async, setVars, okVars, crashes, loaded, loading, todo, result, file, stored,
                 file_synced, tmp, tmp_synced, buffer>>

(* Wrong variant: the staged entries stay in the file. *)
ApplyKeepStaged(c) ==
  [now |-> [p \in Prop |-> IF c.next_boot[p] # None THEN c.next_boot[p] ELSE c.now[p]],
   next_boot |-> c.next_boot]

(* A staged value takes the place of the current one. *)
Apply(c) ==
  [now |-> [p \in Prop |-> IF c.next_boot[p] # None THEN c.next_boot[p] ELSE c.now[p]],
   next_boot |-> Blank]

(* Staged values are applied and the file is written without them. *)
Stage ==
  /\ loader = "stage"
  /\ IF result.next_boot = Blank
     THEN /\ loader' = "set" /\ todo' = {p \in Prop : result.now[p] # None}
          /\ UNCHANGED <<result, writing, writer, buffer>>
     ELSE /\ loader' = "apply" /\ result' = Apply(result)
          /\ writing' = "open" /\ writer' = "apply" /\ buffer' = result'
          /\ UNCHANGED todo
  /\ UNCHANGED <<async, setVars, okVars, crashes, loaded, loading, legacy, file, stored,
                 file_synced, tmp, tmp_synced>>

Applied ==
  /\ loader = "apply" /\ writing \in {"ok", "error"}
  /\ loader' = "set" /\ todo' = {p \in Prop : result.now[p] # None}
  /\ writing' = "idle" /\ writer' = "none"
  /\ UNCHANGED <<async, setVars, okVars, crashes, loaded, loading, result, legacy, file, stored,
                 file_synced, tmp, tmp_synced, buffer>>

(* HandleInitSocket sets each of them with InitPropertySet, which changes the  *)
(* property area of this thread's own accord.                                 *)
BeginLoadSet(p) ==
  /\ loader = "set" /\ loading = << >> /\ p \in todo
  /\ loading' = <<p>>
  /\ UNCHANGED <<async, setVars, fileVars, okVars, crashes, loaded, loader, todo, result,
                 legacy>>

EndLoadSet ==
  /\ loading # << >>
  /\ memory' = [memory EXCEPT ![Head(loading)] = result.now[Head(loading)]]
  /\ todo' = todo \ {Head(loading)} /\ loading' = << >>
  /\ UNCHANGED <<async, setting, set_step, work, sets, fileVars, okVars, crashes, loaded, loader, result,
                 legacy>>

(* Wrong variant: the flag is set before the properties are. *)
LoadedEarly ==
  /\ loader = "set" /\ ~loaded
  /\ loaded' = TRUE /\ loader' = IF todo = {} THEN "done" ELSE "set"
  /\ now_ok' = [p \in Prop |-> {result.now[p], memory[p]}]
  /\ staged_ok' = [p \in Prop |-> {}] /\ staged' = {}
  /\ UNCHANGED <<async, setVars, fileVars, crashes, stale, loading, todo, result, legacy>>

(* From now on sets are written.  What this boot starts from is what the next  *)
(* one may find.                                                              *)
Loaded ==
  /\ loader = "set" /\ todo = {}
  /\ loader' = "done" /\ loaded' = TRUE
  /\ now_ok' = [p \in Prop |-> {result.now[p], memory[p]}]
  /\ staged_ok' = [p \in Prop |-> {}] /\ staged' = {}
  /\ UNCHANGED <<async, setVars, fileVars, crashes, stale, loading, todo, result, legacy>>
----------------------------------------------------------------------------
(* What may be in the place of the file after a crash. *)
CrashFiles == {stored, IF file_synced THEN file ELSE Torn}

(* The device loses power and boots again. *)
Crash ==
  /\ crashes < MaxCrashes /\ crashes' = crashes + 1
  /\ file' \in CrashFiles /\ stored' = file' /\ file_synced' = TRUE
  /\ tmp' \in {Missing, tmp} /\ tmp_synced' = FALSE
  /\ memory' = Blank /\ setting' = << >> /\ set_step' = "idle" /\ work' = << >>
  /\ loaded' = FALSE /\ loader' = "off" /\ loading' = << >> /\ todo' = {}
  /\ writing' = "idle" /\ writer' = "none"
  /\ stale' = {}
  /\ UNCHANGED <<async, sets, result, legacy, buffer, now_ok, staged_ok, staged>>

Next ==
  \/ WriteStep
  \/ \E r \in Request : BeginSet(r)
  \/ ChangeMemory \/ Persist \/ WritePersistentProperty \/ Acknowledge
  \/ Load \/ Migrated \/ Stage \/ Applied
  \/ \E p \in Prop : BeginLoadSet(p)
  \/ EndLoadSet \/ Loaded
  \/ Crash

(* Every thread goes on; nobody has to set a property, and no crash has to     *)
(* come.                                                                      *)
Fairness ==
  /\ WF_vars(WriteStep)
  /\ WF_vars(ChangeMemory \/ Persist)
  /\ WF_vars(WritePersistentProperty \/ Acknowledge)
  /\ WF_vars(Load \/ Migrated \/ Stage \/ Applied \/ (\E p \in Prop : BeginLoadSet(p))
               \/ EndLoadSet \/ Loaded)

Spec == Init /\ [][Next]_vars /\ Fairness
----------------------------------------------------------------------------
(* Properties                                                              *)

(* What the next boot would make of a file f. *)
NextBoot(f, p) ==
  IF f \in Contents THEN Apply(f).now[p]
  ELSE legacy[p]

(* Whenever the device loses power, the next boot finds for every persistent   *)
(* property the value of the last acknowledged set that was written, or of a   *)
(* later one; a staged value that was acknowledged takes its place once, and    *)
(* what was in the legacy directory survives the migration.                    *)
SurvivesCrash ==
  \A f \in CrashFiles, p \in Prop :
    NextBoot(f, p) \in IF p \in staged THEN staged_ok[p] ELSE now_ok[p] \cup staged_ok[p]

(* When nothing is on its way to the file, memory and file agree on every      *)
(* property, unless its last set overlapped the load or could not be written:   *)
(* WritePersistentProperty rewrites the file from its own contents and the      *)
(* write thread keeps the order in which memory was changed.                   *)
MemoryMatchesFile ==
  loaded /\ work = << >> /\ set_step = "idle" /\ file \in Contents =>
    \A p \in Prop \ stale : memory[p] = file.now[p]

(* The load ends and every set is answered, whatever fails: a client blocked    *)
(* in SetProperty on the write thread's reply is not left there.               *)
AllSettle == <>[](loaded /\ set_step = "idle" /\ work = << >>)

(* "the __system_property_* functions which support multiple readers but only   *)
(* one mutator": the property thread and the thread that loads never change     *)
(* the property area together.                                                *)
OneMutator == ~(set_step = "change" /\ loading # << >>)
=============================================================================
