------------------------- MODULE InitServiceProofs -------------------------
(***************************************************************************)
(* Proofs about InitService, for any services, pids, clients, commands and  *)
(* control operations.                                                      *)
(*                                                                         *)
(* The argument.  Whatever operation init performs on a service, it either   *)
(* leaves the process table alone (Quiet) or forks one process for a service *)
(* that has none (Forks): the lemmas of the first part establish this for    *)
(* each operation, and PerformSummary collects them.  The second part shows  *)
(* that the two kinds of step, and the steps of the kernel and of the SIGCHLD *)
(* path, preserve the inductive invariant.                                   *)
(* The last two parts add an invariant each: for the status that init.svc.*  *)
(* reports, and for the commands that an exec holds up.                       *)
(***************************************************************************)
EXTENDS InitService, SequenceTheorems, TLAPS

(* The zombie that ReapOneProcess works on stays a zombie until WaitPid, and  *)
(* no service has its pid once it has been reaped.                            *)
ReapInProgress ==
  /\ pc \in {"reap_service", "waitpid"} => reaping \in Pid /\ Zombie(reaping)
  /\ pc = "waitpid" => \A s \in Slot : pid[s] # reaping

(* A temporary service that is not in the list is blank. *)
UnlistedIsBlank == \A s \in Temp \ listed : flags[s] = {} /\ pid[s] = NoPid

(* The inductive invariant. *)
IndInv ==
  /\ TypeOK
  /\ PidsTrackChildren
  /\ KillsOnlyChildren
  /\ ExecWaitCanEnd
  /\ ReapInProgress
  /\ UnlistedIsBlank

(* An operation on s that leaves the process table as it is; the only pid it  *)
(* may signal is the one of s.                                                *)
Quiet(s) ==
  /\ pid' = pid /\ process' = process
  /\ \E g \in SUBSET Flag :
       /\ flags' = [flags EXCEPT ![s] = g]
       /\ "RUNNING" \in g <=> "RUNNING" \in flags[s]
       /\ "EXEC" \in flags[s] => "EXEC" \in g
       /\ is_exec' => is_exec \/ {"EXEC", "RUNNING"} \subseteq g
  /\ doomed' \in {doomed} \cup {doomed \cup {p} : p \in {pid[s]} \ {NoPid}}

(* An operation that forks the process of s. *)
Forks(s) ==
  /\ "RUNNING" \notin flags[s]
  /\ \E p \in Pid, g \in SUBSET Flag :
       /\ process[p] = "free"
       /\ process' = [process EXCEPT ![p] = "alive"]
       /\ pid' = [pid EXCEPT ![s] = p]
       /\ flags' = [flags EXCEPT ![s] = g]
       /\ "RUNNING" \in g
       /\ is_exec' => is_exec \/ "EXEC" \in g
  /\ doomed' = doomed

(* The types of the variables that the invariants do not constrain. *)
ServiceTypes ==
  /\ prop' \in [Service -> {"", "running", "stopping", "stopped", "restarting"}]
  /\ due' \in [Service -> BOOLEAN]
  /\ is_exec' \in BOOLEAN
  /\ delayed' \in Seq(Service)
  /\ do_shutdown' \in BOOLEAN

Summary(s) == (Quiet(s) \/ Forks(s)) /\ ServiceTypes
----------------------------------------------------------------------------
(* A failure before the fork adds at most SVC_DISABLED.                      *)
LEMMA NotForkedMarks ==
  ASSUME NEW s, NEW f, StartNotForked(s, f)
  PROVE  \E marks \in SUBSET {"DISABLED"} :
           flags' = [flags EXCEPT ![s] = ResetFlagsForStart(f) \cup marks]
<1>1. PICK e \in EarlyErrors :
        flags' = [flags EXCEPT ![s] =
                    ResetFlagsForStart(f) \cup (CASE e = "no_pipe" -> {}
                                                 [] e = "no_file" -> {"DISABLED"}
                                                 [] e = "no_fork" -> CheckConsole(f))]
  BY DEF StartNotForked
<1>2. e \in {"no_pipe", "no_file", "no_fork"}
  BY DEF EarlyErrors
<1>3. CheckConsole(f) \in SUBSET {"DISABLED"}
  BY DEF CheckConsole
<1> QED
  BY <1>1, <1>2, <1>3

(* Start() from flags f, whatever the caller has done to them.               *)
LEMMA StartSummary ==
  ASSUME TypeOK, NEW s \in Service, NEW f \in SUBSET Flag, NEW exec \in BOOLEAN,
         "RUNNING" \in f <=> "RUNNING" \in flags[s],
         "EXEC" \in flags[s] => "EXEC" \in f,
         StartWith(s, f, exec)
  PROVE  Summary(s)
<1>0. s \in Slot /\ flags \in [Slot -> SUBSET Flag]
  BY DEF TypeOK, Slot
<1>1. CASE StartDelay(s, f)
  <2>1. Quiet(s)
    BY <1>0, <1>1, Zenon DEF StartDelay, Quiet
  <2>2. delayed' \in Seq(Service)
    BY <1>1, AppendProperties DEF StartDelay, TypeOK
  <2>3. do_shutdown' \in BOOLEAN
    BY <1>1 DEF StartDelay, ShutdownOnFailure
  <2> QED
    BY <1>1, <2>1, <2>2, <2>3 DEF StartDelay, Summary, ServiceTypes, TypeOK
<1>2. CASE StartRunning(s, f, exec)
  <2> DEFINE g == ResetFlagsForStart(f)
          \cup (IF "ONESHOT" \in f /\ f \cap {"DISABLED", "RESET"} # {} THEN {"RESTART"}
                ELSE {})
          \cup (IF exec THEN {"EXEC"} ELSE {})
  <2>1. /\ g \in SUBSET Flag
        /\ "RUNNING" \in g
        /\ "EXEC" \in flags[s] => "EXEC" \in g
        /\ exec => "EXEC" \in g
    BY <1>2 DEF StartRunning, ResetFlagsForStart, Flag
  <2>2. flags' = [flags EXCEPT ![s] = g] /\ (is_exec' => is_exec \/ exec)
    BY <1>2 DEF StartRunning
  <2>3. pid' = pid /\ process' = process /\ doomed' = doomed /\ "RUNNING" \in flags[s]
    BY <1>2 DEF StartRunning
  <2> HIDE DEF g
  <2>4. Quiet(s)
    BY <2>1, <2>2, <2>3 DEF Quiet
  <2>5. ServiceTypes
    BY <1>2 DEF StartRunning, ServiceTypes, TypeOK
  <2> QED
    BY <2>4, <2>5 DEF Summary
<1>3. CASE StartNotForked(s, f)
  <2>1. PICK marks \in SUBSET {"DISABLED"} :
          flags' = [flags EXCEPT ![s] = ResetFlagsForStart(f) \cup marks]
    BY <1>3, NotForkedMarks
  <2> DEFINE g == ResetFlagsForStart(f) \cup marks
  <2>2. /\ g \in SUBSET Flag
        /\ "RUNNING" \in g <=> "RUNNING" \in flags[s]
        /\ "EXEC" \in flags[s] => "EXEC" \in g
    BY DEF ResetFlagsForStart, Flag
  <2>3. flags' = [flags EXCEPT ![s] = g]
    BY <2>1
  <2>4. /\ pid' = pid /\ process' = process /\ doomed' = doomed
        /\ is_exec' = is_exec
    BY <1>3 DEF StartNotForked
  <2> HIDE DEF g
  <2>5. Quiet(s)
    BY <2>2, <2>3, <2>4 DEF Quiet
  <2>6. ServiceTypes
    BY <1>3 DEF StartNotForked, ShutdownOnFailure, ServiceTypes, TypeOK
  <2> QED
    BY <2>5, <2>6 DEF Summary
<1>4. CASE StartForked(s, f, exec)
  <2>1. PICK p \in Pid, ok \in BOOLEAN :
       /\ process[p] = "free"
       /\ process' = [process EXCEPT ![p] = "alive"]
       /\ pid' = [pid EXCEPT ![s] = p]
       /\ flags' = [flags EXCEPT ![s] =
             ResetFlagsForStart(f) \cup CheckConsole(f) \cup {"RUNNING"}
               \cup (IF ok /\ exec THEN {"EXEC"} ELSE {})]
       /\ is_exec' = (is_exec \/ (ok /\ exec))
       /\ prop' = IF ok THEN [prop EXCEPT ![s] = "running"] ELSE prop
       /\ do_shutdown' = (do_shutdown \/ (~ok /\ s \in RebootOnFailure))
    BY <1>4 DEF StartForked
  <2> DEFINE g == ResetFlagsForStart(f) \cup CheckConsole(f) \cup {"RUNNING"}
                    \cup (IF ok /\ exec THEN {"EXEC"} ELSE {})
  <2>2. g \in SUBSET Flag /\ "RUNNING" \in g /\ (ok /\ exec => "EXEC" \in g)
    BY DEF ResetFlagsForStart, CheckConsole, Flag
  <2>3. flags' = [flags EXCEPT ![s] = g]
    BY <2>1
  <2>4. doomed' = doomed /\ "RUNNING" \notin flags[s]
    BY <1>4 DEF StartForked
  <2> HIDE DEF g
  <2>5. Forks(s)
    BY <2>1, <2>2, <2>3, <2>4 DEF Forks
  <2>6. ServiceTypes
    BY <1>4, <2>1 DEF StartForked, ServiceTypes, TypeOK
  <2> QED
    BY <2>5, <2>6 DEF Summary
<1> QED
  BY <1>1, <1>2, <1>3, <1>4 DEF StartWith

(* StopOrReset() signals the process of s, if there is one. *)
LEMMA StopSummary ==
  ASSUME TypeOK, NEW s \in Service, NEW how \in {"DISABLED", "RESET", "RESTART"},
         StopOrReset(s, how)
  PROVE  Summary(s)
<1> DEFINE g == StopFlags(flags[s], how)
<1>0. s \in Slot /\ flags[s] \in SUBSET Flag /\ flags \in [Slot -> SUBSET Flag]
  BY DEF TypeOK, Slot
<1>1. /\ g \in SUBSET Flag
      /\ "RUNNING" \in g <=> "RUNNING" \in flags[s]
      /\ "EXEC" \in flags[s] => "EXEC" \in g
  BY <1>0 DEF StopFlags, Flag
<1>2. flags' = [flags EXCEPT ![s] = g]
  BY DEF StopOrReset
<1>3. pid' = pid /\ process' = process /\ is_exec' = is_exec
  BY DEF StopOrReset
<1>4. doomed' \in {doomed} \cup {doomed \cup {p} : p \in {pid[s]} \ {NoPid}}
  BY DEF StopOrReset, KillProcessGroup
<1> HIDE DEF g
<1>5. Quiet(s)
  BY <1>1, <1>2, <1>3, <1>4 DEF Quiet
<1>6. ServiceTypes
  BY DEF StopOrReset, ServiceTypes, TypeOK
<1> QED
  BY <1>5, <1>6 DEF Summary

(* Operations that only change flags other than RUNNING and EXEC. *)
LEMMA FlagsSummary ==
  ASSUME TypeOK, NEW s \in Service, NEW g \in SUBSET Flag,
         "RUNNING" \in g <=> "RUNNING" \in flags[s],
         "EXEC" \in flags[s] => "EXEC" \in g,
         flags' = [flags EXCEPT ![s] = g],
         UNCHANGED <<pid, prop, due, is_exec, delayed, do_shutdown, process, doomed>>
  PROVE  Summary(s)
<1>1. Quiet(s)
  BY DEF Quiet
<1>2. ServiceTypes
  BY DEF ServiceTypes, TypeOK
<1> QED
  BY <1>1, <1>2 DEF Summary

LEMMA NoChangeSummary ==
  ASSUME TypeOK, NEW s \in Service, NoServiceChange
  PROVE  Summary(s)
<1>1. s \in Slot /\ flags \in [Slot -> SUBSET Flag]
  BY DEF TypeOK, Slot
<1>2. flags[s] \in SUBSET Flag /\ flags' = [flags EXCEPT ![s] = flags[s]]
  BY <1>1 DEF NoServiceChange
<1> QED
  BY <1>2, FlagsSummary DEF NoServiceChange

LEMMA RestartSummary ==
  ASSUME TypeOK, NEW s \in Service, Restart(s)
  PROVE  Summary(s)
<1>1. flags[s] \in SUBSET Flag
  BY DEF TypeOK, Slot
<1>2. CASE StopOrReset(s, "RESTART")
  BY <1>2, StopSummary
<1>3. CASE Start(s)
  BY <1>1, <1>3, StartSummary DEF Start
<1>4. CASE NoServiceChange
  BY <1>4, NoChangeSummary
<1> QED
  BY <1>2, <1>3, <1>4 DEF Restart

LEMMA StartIfNotDisabledSummary ==
  ASSUME TypeOK, NEW s \in Service, StartIfNotDisabled(s)
  PROVE  Summary(s)
<1>1. flags[s] \in SUBSET Flag
  BY DEF TypeOK, Slot
<1>2. CASE Start(s)
  BY <1>1, <1>2, StartSummary DEF Start
<1>3. CASE ~Start(s)
  <2> DEFINE g == flags[s] \cup {"DISABLED_START"}
  <2>1. /\ g \in SUBSET Flag
        /\ "RUNNING" \in g <=> "RUNNING" \in flags[s]
        /\ "EXEC" \in flags[s] => "EXEC" \in g
    BY <1>1 DEF Flag
  <2>2. /\ flags' = [flags EXCEPT ![s] = g]
        /\ UNCHANGED <<pid, prop, due, is_exec, delayed, do_shutdown, process, doomed>>
    BY <1>3 DEF StartIfNotDisabled
  <2> HIDE DEF g
  <2> QED
    BY <2>1, <2>2, FlagsSummary
<1> QED
  BY <1>2, <1>3

LEMMA EnableSummary ==
  ASSUME TypeOK, NEW s \in Service, Enable(s)
  PROVE  Summary(s)
<1> DEFINE g == flags[s] \ {"DISABLED", "RC_DISABLED"}
<1>1. /\ g \in SUBSET Flag
      /\ "RUNNING" \in g <=> "RUNNING" \in flags[s]
      /\ "EXEC" \in flags[s] => "EXEC" \in g
  BY DEF TypeOK, Slot
<1>2. \/ StartWith(s, g, FALSE)
      \/ /\ flags' = [flags EXCEPT ![s] = g]
         /\ UNCHANGED <<pid, prop, due, is_exec, delayed, do_shutdown, process, doomed>>
  BY DEF Enable
<1> HIDE DEF g
<1>3. CASE StartWith(s, g, FALSE)
  BY <1>1, <1>3, StartSummary
<1>4. CASE /\ flags' = [flags EXCEPT ![s] = g]
           /\ UNCHANGED <<pid, prop, due, is_exec, delayed, do_shutdown, process, doomed>>
  BY <1>1, <1>4, FlagsSummary
<1> QED
  BY <1>2, <1>3, <1>4

LEMMA ExecStartSummary ==
  ASSUME TypeOK, NEW s \in Service, ExecStart(s)
  PROVE  Summary(s)
<1> DEFINE g == flags[s] \cup {"ONESHOT"}
<1>0. s \in Slot /\ flags \in [Slot -> SUBSET Flag] /\ flags[s] \in SUBSET Flag
  BY DEF TypeOK, Slot
<1>1. /\ g \in SUBSET Flag
      /\ "RUNNING" \in g <=> "RUNNING" \in flags[s]
      /\ "EXEC" \in flags[s] => "EXEC" \in g
  BY <1>0 DEF Flag
<1>2. \/ StartWith(s, g, TRUE)
      \/ ShutdownOnFailure(s)
           /\ UNCHANGED <<flags, pid, prop, due, is_exec, delayed, process, doomed>>
  BY DEF ExecStart
<1> HIDE DEF g
<1>3. CASE StartWith(s, g, TRUE)
  BY <1>1, <1>3, StartSummary
<1>4. CASE ShutdownOnFailure(s)
           /\ UNCHANGED <<flags, pid, prop, due, is_exec, delayed, process, doomed>>
  <2>1. flags' = [flags EXCEPT ![s] = flags[s]]
    BY <1>0, <1>4
  <2>2. Quiet(s)
    BY <1>0, <1>4, <2>1 DEF Quiet
  <2>3. ServiceTypes
    BY <1>4 DEF ShutdownOnFailure, ServiceTypes, TypeOK
  <2> QED
    BY <2>2, <2>3 DEF Summary
<1> QED
  BY <1>2, <1>3, <1>4

LEMMA SetOneshotSummary ==
  ASSUME TypeOK, NEW s \in Service, NEW value \in BOOLEAN, SetOneshot(s, value)
  PROVE  Summary(s)
<1> DEFINE g == IF value THEN flags[s] \cup {"ONESHOT"} ELSE flags[s] \ {"ONESHOT"}
<1>1. flags[s] \in SUBSET Flag
  BY DEF TypeOK, Slot
<1>2. /\ g \in SUBSET Flag
      /\ "RUNNING" \in g <=> "RUNNING" \in flags[s]
      /\ "EXEC" \in flags[s] => "EXEC" \in g
  BY <1>1 DEF Flag
<1>3. /\ flags' = [flags EXCEPT ![s] = g]
      /\ UNCHANGED <<pid, prop, due, is_exec, delayed, do_shutdown, process, doomed>>
  BY DEF SetOneshot
<1> HIDE DEF g
<1> QED
  BY <1>2, <1>3, FlagsSummary

(* HandleProcessActions signals a service only while it runs, so while it has *)
(* a pid.                                                                     *)
LEMMA ProcessActionsSummary ==
  ASSUME TypeOK, PidsTrackChildren, NEW s \in Service, ProcessActions(s)
  PROVE  Summary(s)
<1>0. s \in Slot /\ flags \in [Slot -> SUBSET Flag] /\ flags[s] \in SUBSET Flag
  BY DEF TypeOK, Slot
<1>1. CASE Running(s) /\ Timeout(s)
  <2>1. pid[s] # NoPid
    BY <1>0, <1>1 DEF PidsTrackChildren
  <2>2. flags' = [flags EXCEPT ![s] = flags[s]]
    BY <1>0, <1>1 DEF Timeout
  <2>3. Quiet(s)
    BY <1>0, <1>1, <2>1, <2>2 DEF Timeout, KillProcessGroup, Quiet
  <2>4. ServiceTypes
    BY <1>1 DEF Timeout, ServiceTypes, TypeOK
  <2> QED
    BY <2>3, <2>4 DEF Summary
<1>2. CASE Start(s)
  BY <1>0, <1>2, StartSummary DEF Start
<1>3. CASE NoServiceChange
  BY <1>3, NoChangeSummary
<1> QED
  BY <1>1, <1>2, <1>3 DEF ProcessActions

(* Every operation of a command, a control message or a loop. *)
LEMMA PerformSummary ==
  ASSUME TypeOK, PidsTrackChildren, NEW op, NEW s \in Service, Perform(op, s)
  PROVE  Summary(s) /\ want' \in [Service -> {"down", "enabled", "up"}]
<1>0. s \in Slot /\ flags \in [Slot -> SUBSET Flag] /\ flags[s] \in SUBSET Flag
  BY DEF TypeOK, Slot
<1>1. want' \in [Service -> {"down", "enabled", "up"}]
  <2>1. want \in [Service -> {"down", "enabled", "up"}]
    BY DEF TypeOK
  <2>2. want[s] \in {"down", "enabled", "up"}
    BY <2>1
  <2>3. want' = want \/ \E w \in {"down", "enabled", "up"} : want' = [want EXCEPT ![s] = w]
    BY <2>2, ZenonT(30) DEF Perform, Asks
  <2> QED
    BY <2>1, <2>3
<1>2. CASE Start(s)
  BY <1>0, <1>1, <1>2, StartSummary DEF Start
<1>3. CASE StopOrReset(s, "DISABLED") \/ StopOrReset(s, "RESET")
  BY <1>1, <1>3, StopSummary
<1>4. CASE Restart(s)
  BY <1>1, <1>4, RestartSummary
<1>5. CASE StartIfNotDisabled(s)
  BY <1>1, <1>5, StartIfNotDisabledSummary
<1>6. CASE Enable(s)
  BY <1>1, <1>6, EnableSummary
<1>7. CASE ExecStart(s)
  BY <1>1, <1>7, ExecStartSummary
<1>8. CASE SetOneshot(s, TRUE) \/ SetOneshot(s, FALSE)
  BY <1>1, <1>8, SetOneshotSummary
<1>9. CASE ProcessActions(s)
  BY <1>1, <1>9, ProcessActionsSummary
<1>10. CASE NoServiceChange
  BY <1>1, <1>10, NoChangeSummary
<1>11. CASE op = "notify_restarting" /\ prop' = [prop EXCEPT ![s] = "restarting"]
            /\ UNCHANGED <<flags, pid, due, is_exec, delayed, do_shutdown, process, doomed>>
  <2>1. flags' = [flags EXCEPT ![s] = flags[s]]
    BY <1>0, <1>11
  <2>2. Quiet(s)
    BY <1>0, <1>11, <2>1 DEF Quiet
  <2>3. ServiceTypes
    BY <1>11 DEF ServiceTypes, TypeOK
  <2> QED
    BY <1>1, <2>2, <2>3 DEF Summary
<1> QED
  BY <1>2, <1>3, <1>4, <1>5, <1>6, <1>7, <1>8, <1>9, <1>10, <1>11 DEF Perform
----------------------------------------------------------------------------
(* The process table                                                       *)

(* What the steps on one service give of the inductive invariant. *)
ServiceInv ==
  /\ flags \in [Slot -> SUBSET Flag]
  /\ pid \in [Slot -> Pid \cup {NoPid}]
  /\ process \in [Pid -> {"free", "alive", "exited", "failed", "foreign"}]
  /\ doomed \in SUBSET Pid
  /\ PidsTrackChildren
  /\ KillsOnlyChildren
  /\ ExecWaitCanEnd
  /\ UnlistedIsBlank

(* An operation on one service does not take a zombie away and gives its pid   *)
(* to nobody.                                                                *)
LEMMA SummaryInv ==
  ASSUME IndInv, NEW s \in Service, Summary(s), listed' = listed
  PROVE  /\ ServiceInv'
         /\ \A p \in Pid : Zombie(p) => Zombie(p)'
         /\ \A p \in Pid : Zombie(p) /\ (\A r \in Slot : pid[r] # p) =>
                             \A r \in Slot : pid'[r] # p
<1>0. /\ s \in Slot /\ s \notin Temp /\ NoPid \notin Pid
      /\ flags \in [Slot -> SUBSET Flag]
      /\ pid \in [Slot -> Pid \cup {NoPid}]
      /\ process \in [Pid -> {"free", "alive", "exited", "failed", "foreign"}]
      /\ doomed \in SUBSET Pid
  BY ConstantsAssumption DEF Slot, IndInv, TypeOK
<1>1. /\ PidsTrackChildren /\ KillsOnlyChildren /\ ExecWaitCanEnd /\ UnlistedIsBlank
  BY DEF IndInv
<1>2. CASE Quiet(s)
  <2>1. PICK g \in SUBSET Flag :
          /\ flags' = [flags EXCEPT ![s] = g]
          /\ "RUNNING" \in g <=> "RUNNING" \in flags[s]
          /\ "EXEC" \in flags[s] => "EXEC" \in g
          /\ is_exec' => is_exec \/ {"EXEC", "RUNNING"} \subseteq g
    BY <1>2 DEF Quiet
  <2>2. pid' = pid /\ process' = process
    BY <1>2 DEF Quiet
  <2>3. doomed' \in SUBSET Pid /\ KillsOnlyChildren'
    BY <1>0, <1>1, <1>2, <2>2 DEF Quiet, KillsOnlyChildren, PidsTrackChildren, Child
  <2>4. PidsTrackChildren'
    BY <1>0, <1>1, <2>1, <2>2 DEF PidsTrackChildren, Running, Child
  <2>5. ExecWaitCanEnd'
    <3>1. CASE {"EXEC", "RUNNING"} \subseteq g
      <4>1. flags'[s] = g
        BY <1>0, <2>1
      <4> QED
        BY <3>1, <4>1 DEF ExecWaitCanEnd
    <3>2. CASE is_exec
      <4>1. PICK r \in Service \cup listed : {"EXEC", "RUNNING"} \subseteq flags[r]
        BY <1>1, <3>2 DEF ExecWaitCanEnd
      <4>2. r \in Slot
        BY DEF Slot, IndInv, TypeOK
      <4>3. {"EXEC", "RUNNING"} \subseteq flags'[r]
        BY <1>0, <2>1, <4>1, <4>2
      <4> QED
        BY <4>3 DEF ExecWaitCanEnd
    <3> QED
      BY <2>1, <3>1, <3>2 DEF ExecWaitCanEnd
  <2>6. UnlistedIsBlank'
    BY <1>0, <1>1, <2>1, <2>2 DEF UnlistedIsBlank, Slot
  <2>7. flags' \in [Slot -> SUBSET Flag]
    BY <1>0, <2>1
  <2> QED
    BY <1>0, <2>2, <2>3, <2>4, <2>5, <2>6, <2>7 DEF ServiceInv, Zombie
<1>3. CASE Forks(s)
  <2>1. PICK p \in Pid, g \in SUBSET Flag :
          /\ process[p] = "free"
          /\ process' = [process EXCEPT ![p] = "alive"]
          /\ pid' = [pid EXCEPT ![s] = p]
          /\ flags' = [flags EXCEPT ![s] = g]
          /\ "RUNNING" \in g
          /\ is_exec' => is_exec \/ "EXEC" \in g
    BY <1>3 DEF Forks
  <2>2. doomed' = doomed /\ ~Running(s)
    BY <1>3 DEF Forks, Running
  <2>3. KillsOnlyChildren'
    BY <1>0, <1>1, <2>1, <2>2 DEF KillsOnlyChildren, Child
  <2>4. \A r \in Slot : pid[r] # p
    BY <1>1, <2>1, <1>0 DEF PidsTrackChildren, Child
  <2>5. PidsTrackChildren'
    BY <1>0, <1>1, <2>1, <2>4 DEF PidsTrackChildren, Running, Child
  <2>6. ExecWaitCanEnd'
    <3>1. CASE "EXEC" \in g
      <4>1. flags'[s] = g
        BY <1>0, <2>1
      <4> QED
        BY <2>1, <3>1, <4>1 DEF ExecWaitCanEnd
    <3>2. CASE is_exec
      <4>1. PICK r \in Service \cup listed : {"EXEC", "RUNNING"} \subseteq flags[r]
        BY <1>1, <3>2 DEF ExecWaitCanEnd
      <4>2. r \in Slot /\ r # s
        BY <2>2, <4>1 DEF Slot, IndInv, TypeOK, Running
      <4>3. {"EXEC", "RUNNING"} \subseteq flags'[r]
        BY <1>0, <2>1, <4>1, <4>2
      <4> QED
        BY <4>3 DEF ExecWaitCanEnd
    <3> QED
      BY <2>1, <3>1, <3>2 DEF ExecWaitCanEnd
  <2>7. UnlistedIsBlank'
    BY <1>0, <1>1, <2>1 DEF UnlistedIsBlank, Slot
  <2>8. /\ flags' \in [Slot -> SUBSET Flag]
        /\ pid' \in [Slot -> Pid \cup {NoPid}]
        /\ process' \in [Pid -> {"free", "alive", "exited", "failed", "foreign"}]
    BY <1>0, <2>1
  <2>9. \A q \in Pid : Zombie(q) => q # p /\ process'[q] = process[q]
    BY <1>0, <2>1 DEF Zombie
  <2>10. \A q \in Pid : Zombie(q) => Zombie(q)'
    BY <2>9 DEF Zombie
  <2>11. \A q \in Pid : Zombie(q) /\ (\A r \in Slot : pid[r] # q) =>
                         \A r \in Slot : pid'[r] # q
    BY <1>0, <2>1, <2>9
  <2>12. ServiceInv'
    BY <1>0, <2>2, <2>3, <2>5, <2>6, <2>7, <2>8 DEF ServiceInv
  <2> QED
    BY <2>10, <2>11, <2>12
<1> QED
  BY <1>2, <1>3 DEF Summary

(* Steps that touch neither services nor processes. *)
LEMMA UntouchedInv ==
  ASSUME IndInv, UNCHANGED <<flags, pid, is_exec, process, doomed, listed>>
  PROVE  ServiceInv'
BY DEF IndInv, TypeOK, ServiceInv, PidsTrackChildren, KillsOnlyChildren, ExecWaitCanEnd,
       UnlistedIsBlank, Running, Child
(* The commands on a class, on the whole list and on the delayed services are  *)
(* sequences of operations.                                                   *)
LEMMA ForEachType ==
  ASSUME NEW op \in OpName, NEW members \in Seq(Service)
  PROVE  ForEachServiceInClass(op, members) \in Seq(Op)
<1>1. /\ Len(members) \in Nat /\ DOMAIN members = 1..Len(members)
      /\ \A i \in 1..Len(members) : members[i] \in Service
  BY LenProperties
<1>2. ForEachServiceInClass(op, members) \in [1..Len(members) -> Op]
  BY <1>1 DEF ForEachServiceInClass, Op
<1> QED
  BY <1>1, <1>2, SeqDef

(* The types of what the steps of the loop change. *)
LoopTypes ==
  /\ prop \in [Service -> {"", "running", "stopping", "stopped", "restarting"}]
  /\ due \in [Service -> BOOLEAN]
  /\ listed \in SUBSET Temp
  /\ is_exec \in BOOLEAN
  /\ delayed \in Seq(Service)
  /\ apex_ready \in BOOLEAN
  /\ do_shutdown \in BOOLEAN
  /\ shutting_down \in BOOLEAN
  /\ pc \in PcName
  /\ agenda \in Seq(Op)
  /\ reaping \in Pid \cup {NoPid}
  /\ ctl \in Seq(Message)
  /\ client \in [Client -> {"idle", "waiting", "refused"}]
  /\ want \in [Service -> {"down", "enabled", "up"}]

LEMMA IndInvParts == IndInv <=> ServiceInv /\ LoopTypes /\ ReapInProgress
BY DEF IndInv, ServiceInv, LoopTypes, TypeOK

LEMMA CommandsAreOps ==
  /\ \A c \in Commands : c \in Seq(Op)
  /\ \A s \in Service : OnRestart[s] \in Seq(Op)
<1>1. Command \subseteq Op
  BY DEF Command, Op
<1> QED
  BY <1>1, SeqMonotonic, ConstantsAssumption

LEMMA InitInv == Init => IndInv
<1> SUFFICES ASSUME Init PROVE IndInv
  OBVIOUS
<1>1. TypeOK
  BY ConstantsAssumption, EmptySeq DEF Init, TypeOK, Slot, Flag, PcName
<1>2. PidsTrackChildren
  BY ConstantsAssumption DEF Init, PidsTrackChildren, Running, Slot
<1>3. KillsOnlyChildren /\ ExecWaitCanEnd /\ ReapInProgress /\ UnlistedIsBlank
  BY ConstantsAssumption DEF Init, KillsOnlyChildren, ExecWaitCanEnd, ReapInProgress,
     UnlistedIsBlank, Slot
<1> QED
  BY <1>1, <1>2, <1>3 DEF IndInv

(* The next operation of the agenda. *)
LEMMA RunOpInv == IndInv /\ RunOp => IndInv'
<1> SUFFICES ASSUME IndInv, RunOp PROVE IndInv'
  OBVIOUS
<1>1. Head(agenda) \in Op /\ Tail(agenda) \in Seq(Op)
  BY HeadTailProperties DEF IndInv, TypeOK, RunOp
<1> DEFINE s == Head(agenda).svc
<1>2. s \in Service
  BY <1>1 DEF Op
<1>3. Summary(s) /\ want' \in [Service -> {"down", "enabled", "up"}]
  BY <1>2, PerformSummary DEF RunOp, IndInv
<1>4. listed' = listed
  BY DEF RunOp, sysVars
<1> HIDE DEF s
<1>5. /\ ServiceInv'
      /\ \A p \in Pid : Zombie(p) => Zombie(p)'
      /\ \A p \in Pid : Zombie(p) /\ (\A r \in Slot : pid[r] # p) =>
                          \A r \in Slot : pid'[r] # p
  BY <1>2, <1>3, <1>4, SummaryInv
<1>6. LoopTypes'
  BY <1>1, <1>3 DEF RunOp, Summary, ServiceTypes, LoopTypes, IndInv, TypeOK, sysVars, msgVars
<1>7. ReapInProgress'
  <2>1. pc' = pc /\ reaping' = reaping
    BY DEF RunOp
  <2>2. ReapInProgress
    BY DEF IndInv
  <2>3. pc \in {"reap_service", "waitpid"} => Zombie(reaping)'
    BY <1>5, <2>1, <2>2 DEF ReapInProgress, Zombie
  <2> QED
    BY <1>5, <2>1, <2>2, <2>3 DEF ReapInProgress
<1> QED
  BY <1>5, <1>6, <1>7, IndInvParts, PTL

(* A control message is one operation; it runs where nothing is being reaped. *)
LEMMA HandleControlMessageInv == IndInv /\ HandleControlMessage => IndInv'
<1> SUFFICES ASSUME IndInv, HandleControlMessage PROVE IndInv'
  OBVIOUS
<1>1. Head(ctl) \in Message /\ Tail(ctl) \in Seq(Message)
  BY HeadTailProperties DEF IndInv, TypeOK, HandleControlMessage
<1> DEFINE s == Head(ctl).svc
<1>2. s \in Service /\ Head(ctl).from \in Client
  BY <1>1 DEF Message
<1>3. Summary(s) /\ want' \in [Service -> {"down", "enabled", "up"}]
  BY <1>2, PerformSummary DEF HandleControlMessage, IndInv
<1>4. listed' = listed
  BY DEF HandleControlMessage, sysVars
<1> HIDE DEF s
<1>5. ServiceInv'
  BY <1>2, <1>3, <1>4, SummaryInv
<1>6. LoopTypes'
  BY <1>1, <1>2, <1>3 DEF HandleControlMessage, Summary, ServiceTypes, LoopTypes, IndInv,
     TypeOK, sysVars, PcName
<1>7. ReapInProgress'
  BY DEF HandleControlMessage, ReapInProgress
<1> QED
  BY <1>5, <1>6, <1>7, IndInvParts, PTL
(* A shutdown gives up every exec. *)
LEMMA CheckShutdownInv == IndInv /\ CheckShutdown => IndInv'
<1> SUFFICES ASSUME IndInv, CheckShutdown PROVE IndInv'
  OBVIOUS
<1>0. ServiceInv /\ LoopTypes
  BY IndInvParts
<1>1. ServiceInv'
  <2>1. CASE do_shutdown /\ ~shutting_down
    <3>1. /\ flags' = [s \in Slot |-> IF s \in Service \cup listed
                                       THEN flags[s] \ {"EXEC"} ELSE flags[s]]
          /\ ~is_exec' /\ UNCHANGED <<pid, process, doomed, listed>>
      BY <2>1 DEF CheckShutdown
    <3>2. flags' \in [Slot -> SUBSET Flag] /\ \A s \in Slot : Running(s)' <=> Running(s)
      BY <1>0, <3>1 DEF ServiceInv, Running
    <3>3. PidsTrackChildren'
      BY <1>0, <3>1, <3>2 DEF ServiceInv, PidsTrackChildren, Child
    <3>4. UnlistedIsBlank'
      BY <1>0, <3>1 DEF ServiceInv, UnlistedIsBlank, Slot
    <3>5. KillsOnlyChildren' /\ ExecWaitCanEnd'
      BY <1>0, <3>1 DEF ServiceInv, KillsOnlyChildren, ExecWaitCanEnd, Child
    <3> QED
      BY <1>0, <3>1, <3>2, <3>3, <3>4, <3>5 DEF ServiceInv
  <2>2. CASE ~(do_shutdown /\ ~shutting_down)
    BY <2>2, UntouchedInv DEF CheckShutdown
  <2> QED
    BY <2>1, <2>2
<1>2. LoopTypes'
  BY <1>0 DEF CheckShutdown, LoopTypes, msgVars, PcName
<1>3. ReapInProgress'
  BY DEF CheckShutdown, ReapInProgress
<1> QED
  BY <1>1, <1>2, <1>3, IndInvParts, PTL

(* exec and exec_background put a service in the list together with its child. *)
LEMMA ExecTemporaryInv == IndInv /\ ExecTemporary => IndInv'
<1> SUFFICES ASSUME IndInv, ExecTemporary PROVE IndInv'
  OBVIOUS
<1>0. ServiceInv /\ LoopTypes /\ ~is_exec
  BY IndInvParts DEF ExecTemporary
<1>1. doomed' = doomed /\ NoPid \notin Pid /\ Temp \subseteq Slot
  BY ConstantsAssumption DEF ExecTemporary, Slot
<1>2. PICK s \in Temp \ listed, exec \in BOOLEAN :
       \/ UNCHANGED <<flags, pid, is_exec, process, listed>>
       \/ \E p \in Pid, ok \in BOOLEAN :
            /\ process[p] = "free"
            /\ process' = [process EXCEPT ![p] = "alive"]
            /\ IF ok
               THEN /\ pid' = [pid EXCEPT ![s] = p]
                    /\ flags' = [flags EXCEPT ![s] = {"ONESHOT", "TEMPORARY", "RUNNING"}
                                               \cup (IF exec THEN {"EXEC"} ELSE {})]
                    /\ is_exec' = exec
                    /\ listed' = listed \cup {s}
               ELSE UNCHANGED <<pid, flags, is_exec, listed>>
  BY DEF ExecTemporary
<1>3. ServiceInv' /\ listed' \in SUBSET Temp /\ is_exec' \in BOOLEAN
  <2>1. CASE UNCHANGED <<flags, pid, is_exec, process, listed>>
    BY <1>0, <1>1, <2>1, UntouchedInv DEF LoopTypes
  <2>2. ASSUME NEW p \in Pid, process[p] = "free",
               process' = [process EXCEPT ![p] = "alive"],
               UNCHANGED <<pid, flags, is_exec, listed>>
        PROVE  ServiceInv' /\ listed' \in SUBSET Temp /\ is_exec' \in BOOLEAN
    <3>1. process' \in [Pid -> {"free", "alive", "exited", "failed", "foreign"}]
      BY <1>0, <2>2 DEF ServiceInv
    <3>2. \A q \in Pid : Child(q) => Child(q)'
      BY <1>0, <2>2 DEF ServiceInv, Child
    <3>3. PidsTrackChildren'
      BY <1>0, <1>1, <2>2, <3>2 DEF ServiceInv, PidsTrackChildren, Running
    <3>4. KillsOnlyChildren' /\ ExecWaitCanEnd' /\ UnlistedIsBlank'
      BY <1>0, <1>1, <2>2, <3>2 DEF ServiceInv, KillsOnlyChildren, ExecWaitCanEnd,
         UnlistedIsBlank
    <3> QED
      BY <1>0, <1>1, <2>2, <3>1, <3>3, <3>4 DEF ServiceInv, LoopTypes
  <2>3. ASSUME NEW p \in Pid, process[p] = "free",
               process' = [process EXCEPT ![p] = "alive"],
               pid' = [pid EXCEPT ![s] = p],
               flags' = [flags EXCEPT ![s] = {"ONESHOT", "TEMPORARY", "RUNNING"}
                                               \cup (IF exec THEN {"EXEC"} ELSE {})],
               is_exec' = exec,
               listed' = listed \cup {s}
        PROVE  ServiceInv' /\ listed' \in SUBSET Temp /\ is_exec' \in BOOLEAN
    <3> DEFINE g == {"ONESHOT", "TEMPORARY", "RUNNING"} \cup (IF exec THEN {"EXEC"} ELSE {})
    <3>0. g \in SUBSET Flag /\ "RUNNING" \in g /\ (exec => "EXEC" \in g)
      BY DEF Flag
    <3>1. flags' = [flags EXCEPT ![s] = g]
      BY <2>3
    <3> HIDE DEF g
    <3>2. /\ flags' \in [Slot -> SUBSET Flag]
          /\ pid' \in [Slot -> Pid \cup {NoPid}]
          /\ process' \in [Pid -> {"free", "alive", "exited", "failed", "foreign"}]
      BY <1>0, <1>1, <2>3, <3>0, <3>1 DEF ServiceInv
    <3>3. \A q \in Pid : Child(q) => Child(q)' /\ q # p
      BY <1>0, <2>3 DEF ServiceInv, Child
    <3>4. Child(p)'
      BY <1>0, <2>3 DEF ServiceInv, Child
    <3>5. \A r \in Slot : pid[r] # p
      BY <1>0, <1>1, <2>3, <3>3 DEF ServiceInv, PidsTrackChildren
    <3>6. \A r \in Slot \ {s} : pid'[r] = pid[r] /\ flags'[r] = flags[r]
      BY <1>0, <2>3, <3>1 DEF ServiceInv
    <3>7. pid'[s] = p /\ flags'[s] = g
      BY <1>0, <1>1, <2>3, <3>1 DEF ServiceInv
    <3>8. PidsTrackChildren'
      BY <1>0, <1>1, <3>0, <3>2, <3>3, <3>4, <3>5, <3>6, <3>7
         DEF ServiceInv, PidsTrackChildren, Running
    <3>9. KillsOnlyChildren'
      BY <1>0, <1>1, <3>3 DEF ServiceInv, KillsOnlyChildren
    <3>10. ExecWaitCanEnd'
      BY <2>3, <3>0, <3>7 DEF ExecWaitCanEnd
    <3>11. UnlistedIsBlank'
      BY <1>0, <1>1, <2>3, <3>6 DEF ServiceInv, UnlistedIsBlank
    <3> QED
      BY <1>0, <1>1, <2>3, <3>2, <3>8, <3>9, <3>10, <3>11 DEF ServiceInv, LoopTypes
  <2> QED
    BY <1>2, <2>1, <2>2, <2>3
<1>4. LoopTypes'
  BY <1>0, <1>3 DEF ExecTemporary, LoopTypes, msgVars, PcName
<1>5. ReapInProgress'
  BY DEF ExecTemporary, ReapInProgress
<1> QED
  BY <1>3, <1>4, <1>5, IndInvParts, PTL

(* The steps of the loop that touch no service. *)
LEMMA LoopInv ==
  ASSUME IndInv,
         \/ SkipCommand \/ ExecuteCommand \/ PerformApexConfig \/ Reboot
         \/ HandleProcessActions \/ EpollWait \/ NoZombie \/ NoControlMessage
  PROVE  IndInv'
<1>0. LoopTypes
  BY IndInvParts
<1>1. ServiceInv'
  BY UntouchedInv DEF SkipCommand, ExecuteCommand, PerformApexConfig, Reboot,
     HandleProcessActions, EpollWait, NoZombie, NoControlMessage, svcVars, sysVars
<1>2. agenda' \in Seq(Op) /\ delayed' \in Seq(Service) /\ apex_ready' \in BOOLEAN
  <2>1. CASE ExecuteCommand
    BY <1>0, <2>1, CommandsAreOps DEF ExecuteCommand, LoopTypes, svcVars, sysVars
  <2>2. CASE PerformApexConfig
    BY <1>0, <2>2, ForEachType, EmptySeq DEF PerformApexConfig, LoopTypes, OpName
  <2>3. CASE HandleProcessActions
    BY <1>0, <2>3, ForEachType, EmptySeq, ConstantsAssumption
       DEF HandleProcessActions, LoopTypes, OpName, svcVars, sysVars
  <2>4. CASE SkipCommand \/ Reboot \/ EpollWait \/ NoZombie \/ NoControlMessage
    BY <1>0, <2>4 DEF SkipCommand, Reboot, EpollWait, NoZombie, NoControlMessage,
       LoopTypes, svcVars, sysVars
  <2> QED
    BY <2>1, <2>2, <2>3, <2>4
<1>3. pc' \in PcName \ {"reap_service", "waitpid"}
  BY DEF SkipCommand, ExecuteCommand, PerformApexConfig, Reboot, HandleProcessActions,
     EpollWait, NoZombie, NoControlMessage, PcName
<1>4. UNCHANGED <<prop, due, listed, is_exec, do_shutdown, shutting_down, reaping, ctl,
                  client, want>>
  BY DEF SkipCommand, ExecuteCommand, PerformApexConfig, Reboot, HandleProcessActions,
     EpollWait, NoZombie, NoControlMessage, svcVars, sysVars, msgVars
<1>5. LoopTypes'
  BY <1>0, <1>2, <1>3, <1>4 DEF LoopTypes
<1>6. ReapInProgress'
  BY <1>3 DEF ReapInProgress
<1> QED
  BY <1>1, <1>5, <1>6, IndInvParts, PTL
(* The SIGCHLD path: the zombie is found ... *)
LEMMA FindZombieInv == IndInv /\ (FindZombie \/ ReapUntracked) => IndInv'
<1> SUFFICES ASSUME IndInv, FindZombie \/ ReapUntracked PROVE IndInv'
  OBVIOUS
<1>0. ServiceInv /\ LoopTypes /\ ReapInProgress
  BY IndInvParts
<1>1. ServiceInv'
  BY UntouchedInv DEF FindZombie, ReapUntracked, svcVars, sysVars
<1>2. LoopTypes'
  BY <1>0 DEF FindZombie, ReapUntracked, LoopTypes, PcName, svcVars, sysVars, msgVars
<1>3. process' = process /\ pid' = pid
  BY DEF FindZombie, ReapUntracked, svcVars
<1>4. ReapInProgress'
  <2>1. CASE FindZombie
    BY <2>1, <1>3 DEF FindZombie, ReapInProgress, Zombie
  <2>2. CASE ReapUntracked
    <3>1. reaping' = reaping /\ pc = "reap_service" /\ pc' = "waitpid"
      BY <2>2 DEF ReapUntracked, At
    <3>2. reaping \in Pid /\ Zombie(reaping)
      BY <1>0, <3>1 DEF ReapInProgress
    <3>3. \A s \in Slot : pid[s] # reaping
      BY <1>0, <2>2, <3>2, ConstantsAssumption DEF ReapUntracked, ServiceInv,
         UnlistedIsBlank, Slot
    <3> QED
      BY <1>3, <3>1, <3>2, <3>3 DEF ReapInProgress, Zombie
  <2> QED
    BY <2>1, <2>2
<1> QED
  BY <1>1, <1>2, <1>4, IndInvParts, PTL

(* What reaping leaves of the process table: s has no process any more, the    *)
(* zombie is still there.                                                     *)
LEMMA ReapedInv ==
  ASSUME IndInv, NEW s \in Slot, pc = "reap_service", pid[s] = reaping,
         NEW g \in SUBSET Flag, "RUNNING" \notin g,
         flags' = [flags EXCEPT ![s] = g],
         s \in Temp => g = {},
         pid' = [pid EXCEPT ![s] = NoPid],
         process' = process,
         KillProcessGroup(s), UnSetExec(s),
         listed' \in {listed, listed \ {s}},
         s \in Service \cup listed
  PROVE  ServiceInv' /\ reaping \in Pid /\ Zombie(reaping)
           /\ \A r \in Slot : pid'[r] # reaping
<1>0. ServiceInv /\ ReapInProgress /\ NoPid \notin Pid
  BY IndInvParts, ConstantsAssumption
<1>1. reaping \in Pid /\ Zombie(reaping)
  BY <1>0 DEF ReapInProgress
<1>2. \A r \in Slot \ {s} : /\ pid'[r] = pid[r] /\ flags'[r] = flags[r]
                            /\ pid[r] # reaping
  BY <1>0, <1>1 DEF ServiceInv, PidsTrackChildren
<1>3. pid'[s] = NoPid /\ flags'[s] = g
  BY <1>0 DEF ServiceInv
<1>4. /\ flags' \in [Slot -> SUBSET Flag]
      /\ pid' \in [Slot -> Pid \cup {NoPid}]
  BY <1>0 DEF ServiceInv
<1>5. doomed' \in SUBSET Pid /\ KillsOnlyChildren'
  BY <1>0, <1>1 DEF ServiceInv, KillProcessGroup, KillsOnlyChildren, Child, Zombie
<1>6. PidsTrackChildren'
  BY <1>0, <1>2, <1>3, <1>4 DEF ServiceInv, PidsTrackChildren, Running, Child
<1>7. ExecWaitCanEnd'
  <2> SUFFICES ASSUME is_exec'
               PROVE  \E r \in Service \cup listed' : {"EXEC", "RUNNING"} \subseteq flags'[r]
    BY DEF ExecWaitCanEnd
  <2>1. is_exec /\ "EXEC" \notin flags[s]
    BY DEF UnSetExec
  <2>2. PICK r \in Service \cup listed : {"EXEC", "RUNNING"} \subseteq flags[r]
    BY <1>0, <2>1 DEF ServiceInv, ExecWaitCanEnd
  <2>3. r # s /\ r \in Slot /\ r \in Service \cup listed'
    BY <2>1, <2>2 DEF Slot, IndInv, TypeOK
  <2>4. flags'[r] = flags[r]
    BY <1>2, <2>3
  <2> QED
    BY <2>2, <2>3, <2>4
<1>8. UnlistedIsBlank'
  BY <1>0, <1>2, <1>3 DEF ServiceInv, UnlistedIsBlank, Slot
<1>9. ServiceInv'
  BY <1>0, <1>4, <1>5, <1>6, <1>7, <1>8 DEF ServiceInv
<1> QED
  BY <1>0, <1>1, <1>2, <1>3, <1>9 DEF Zombie

LEMMA ReapTemporaryInv ==
  ASSUME IndInv, NEW s \in Temp, ReapTemporary(s)
  PROVE  IndInv'
<1>0. LoopTypes
  BY IndInvParts
<1>1. /\ s \in Slot /\ s \in listed /\ pc = "reap_service" /\ pid[s] = reaping
      /\ flags' = [flags EXCEPT ![s] = {}] /\ pid' = [pid EXCEPT ![s] = NoPid]
      /\ process' = process /\ KillProcessGroup(s) /\ UnSetExec(s)
      /\ listed' = listed \ {s}
      /\ reaping' = reaping /\ pc' = "waitpid"
  BY DEF ReapTemporary, At, Slot
<1>2. {} \in SUBSET Flag /\ "RUNNING" \notin {}
  OBVIOUS
<1>3. ServiceInv' /\ reaping \in Pid /\ Zombie(reaping)
        /\ \A r \in Slot : pid'[r] # reaping
  BY <1>1, <1>2, ReapedInv
<1>4. LoopTypes'
  BY <1>0 DEF ReapTemporary, UnSetExec, LoopTypes, msgVars, PcName
<1>5. ReapInProgress'
  BY <1>1, <1>3 DEF ReapInProgress, Zombie
<1> QED
  BY <1>3, <1>4, <1>5, IndInvParts, PTL

LEMMA ReapInv ==
  ASSUME IndInv, NEW s \in Service, Reap(s)
  PROVE  IndInv'
<1>0. LoopTypes /\ ServiceInv
  BY IndInvParts
<1>1. /\ s \in Slot /\ s \notin Temp /\ pc = "reap_service" /\ pid[s] = reaping
      /\ pid' = [pid EXCEPT ![s] = NoPid]
      /\ process' = process /\ KillProcessGroup(s) /\ UnSetExec(s)
      /\ listed' = listed
      /\ reaping' = reaping
  BY ConstantsAssumption DEF Reap, At, Slot, sysVars
<1>2. flags[s] \in SUBSET Flag
  BY <1>0, <1>1 DEF ServiceInv
<1>3. FlagsAtExit(flags[s]) \in SUBSET Flag /\ "RUNNING" \notin FlagsAtExit(flags[s])
  BY <1>2 DEF FlagsAtExit, Flag
<1>4. PICK g \in SUBSET Flag : "RUNNING" \notin g /\ flags' = [flags EXCEPT ![s] = g]
  <2> DEFINE f == FlagsAtExit(flags[s])
             h == (f \ {"RESTART"}) \cup {"RESTARTING"}
  <2>1. h \in SUBSET Flag /\ "RUNNING" \notin h
    BY <1>3 DEF Flag
  <2>2. flags' = [flags EXCEPT ![s] = f] \/ flags' = [flags EXCEPT ![s] = h]
    BY DEF Reap
  <2> HIDE DEF f, h
  <2> QED
    BY <1>3, <2>1, <2>2 DEF f
<1>5. ServiceInv' /\ reaping \in Pid /\ Zombie(reaping)
        /\ \A r \in Slot : pid'[r] # reaping
  BY <1>1, <1>4, ReapedInv
<1>6. agenda' \in Seq(Op)
  <2> DEFINE n == [op |-> "notify_restarting", svc |-> s]
  <2>1. n \in Op
    BY DEF Op, OpName
  <2>2. << n >> \in Seq(Op)
    BY <2>1
  <2>3. OnRestart[s] \o << n >> \in Seq(Op)
    BY <2>2, ConcatProperties, CommandsAreOps
  <2>4. agenda' = << >> \/ agenda' = OnRestart[s] \o << n >> \/ agenda' = agenda
    BY DEF Reap
  <2> HIDE DEF n
  <2> QED
    BY <1>0, <2>3, <2>4, EmptySeq DEF LoopTypes
<1>7. pc' \in {"waitpid", "halt"}
  BY DEF Reap
<1>8. LoopTypes'
  BY <1>0, <1>1, <1>6, <1>7 DEF Reap, UnSetExec, LoopTypes, sysVars, msgVars, PcName
<1>9. ReapInProgress'
  BY <1>1, <1>5, <1>7 DEF ReapInProgress, Zombie
<1> QED
  BY <1>5, <1>8, <1>9, IndInvParts, PTL
(* ... and given back last: nobody has its pid, and no signal is owed to it. *)
LEMMA WaitPidInv == IndInv /\ WaitPid => IndInv'
<1> SUFFICES ASSUME IndInv, WaitPid PROVE IndInv'
  OBVIOUS
<1>0. ServiceInv /\ LoopTypes /\ ReapInProgress
  BY IndInvParts
<1>1. /\ pc = "waitpid"
      /\ process' = [process EXCEPT ![reaping] = "free"]
      /\ doomed' = doomed \ {reaping}
      /\ UNCHANGED <<flags, pid, is_exec, listed>>
  BY DEF WaitPid, At, sysVars
<1>2. reaping \in Pid /\ \A s \in Slot : pid[s] # reaping
  BY <1>0, <1>1 DEF ReapInProgress
<1>3. \A q \in Pid \ {reaping} : process'[q] = process[q]
  BY <1>0, <1>1 DEF ServiceInv
<1>4. process' \in [Pid -> {"free", "alive", "exited", "failed", "foreign"}]
  BY <1>0, <1>1 DEF ServiceInv
<1>5. PidsTrackChildren'
  BY <1>0, <1>1, <1>2, <1>3 DEF ServiceInv, PidsTrackChildren, Running, Child
<1>6. KillsOnlyChildren' /\ doomed' \in SUBSET Pid
  BY <1>0, <1>1, <1>3 DEF ServiceInv, KillsOnlyChildren, Child
<1>7. ExecWaitCanEnd' /\ UnlistedIsBlank'
  BY <1>0, <1>1 DEF ServiceInv, ExecWaitCanEnd, UnlistedIsBlank
<1>8. ServiceInv'
  BY <1>0, <1>1, <1>4, <1>5, <1>6, <1>7 DEF ServiceInv
<1>9. LoopTypes' /\ ReapInProgress'
  BY <1>0 DEF WaitPid, LoopTypes, ReapInProgress, sysVars, msgVars, PcName
<1> QED
  BY <1>8, <1>9, IndInvParts, PTL

(* The kernel takes no child from init, and only init's waitpid ends a zombie. *)
LEMMA KernelInv ==
  ASSUME IndInv, NEW p \in Pid, Exit(p) \/ Stranger(p)
  PROVE  IndInv'
<1>0. ServiceInv /\ LoopTypes /\ ReapInProgress
  BY IndInvParts
<1>1. UNCHANGED <<flags, pid, prop, due, listed, is_exec, delayed, apex_ready, do_shutdown,
                  shutting_down, pc, agenda, reaping, doomed, ctl, client, want>>
  BY DEF Exit, Stranger, sysVars, msgVars
<1>2. process' \in [Pid -> {"free", "alive", "exited", "failed", "foreign"}]
  BY <1>0, ConstantsAssumption DEF Exit, Stranger, ServiceInv
<1>3. \A q \in Pid : (Child(q) => Child(q)') /\ (Zombie(q) => Zombie(q)')
  <2>1. CASE Exit(p)
    BY <1>0, <2>1, ConstantsAssumption DEF Exit, ServiceInv, Child, Zombie
  <2>2. CASE Stranger(p)
    BY <1>0, <2>2 DEF Stranger, ServiceInv, Child, Zombie
  <2> QED
    BY <2>1, <2>2
<1>4. PidsTrackChildren'
  BY <1>0, <1>1, <1>3, ConstantsAssumption DEF ServiceInv, PidsTrackChildren, Running
<1>5. KillsOnlyChildren'
  BY <1>0, <1>1, <1>3 DEF ServiceInv, KillsOnlyChildren
<1>6. ExecWaitCanEnd' /\ UnlistedIsBlank'
  BY <1>0, <1>1 DEF ServiceInv, ExecWaitCanEnd, UnlistedIsBlank
<1>7. ServiceInv'
  BY <1>0, <1>1, <1>2, <1>4, <1>5, <1>6 DEF ServiceInv
<1>8. LoopTypes'
  BY <1>0, <1>1 DEF LoopTypes
<1>9. ReapInProgress'
  BY <1>0, <1>1, <1>3 DEF ReapInProgress, Zombie
<1> QED
  BY <1>7, <1>8, <1>9, IndInvParts, PTL

(* Time and clients change nothing that belongs to a process. *)
LEMMA ElapseOrSendInv ==
  ASSUME IndInv,
         \/ \E s \in Service : Elapse(s)
         \/ \E c \in Client : SendControl(c)
         \/ UNCHANGED vars
  PROVE  IndInv'
<1>0. ServiceInv /\ LoopTypes /\ ReapInProgress
  BY IndInvParts
<1>1. UNCHANGED <<flags, pid, prop, listed, is_exec, delayed, apex_ready, do_shutdown,
                  shutting_down, pc, agenda, reaping, process, doomed, want>>
  BY DEF Elapse, SendControl, vars, svcVars, sysVars, msgVars
<1>2. ServiceInv'
  BY <1>1, UntouchedInv
<1>3. due' \in [Service -> BOOLEAN]
  BY <1>0 DEF Elapse, SendControl, vars, svcVars, sysVars, msgVars, LoopTypes
<1>4. ctl' \in Seq(Message) /\ client' \in [Client -> {"idle", "waiting", "refused"}]
  <2>1. CASE \E c \in Client : SendControl(c)
    <3>1. PICK c \in Client : SendControl(c)
      BY <2>1
    <3>2. CASE Len(ctl) > CtlLimit \/ shutting_down
      BY <1>0, <3>1, <3>2 DEF SendControl, LoopTypes
    <3>3. CASE ~(Len(ctl) > CtlLimit \/ shutting_down)
      <4>1. PICK o \in CtlOps, s \in Service :
              ctl' = Append(ctl, [op |-> o, svc |-> s, from |-> c,
                                  seen |-> pid[s] # NoPid /\ Zombie(pid[s])])
        BY <3>1, <3>3 DEF SendControl
      <4>2. [op |-> o, svc |-> s, from |-> c, seen |-> pid[s] # NoPid /\ Zombie(pid[s])]
              \in Message
        BY DEF Message
      <4>3. ctl' \in Seq(Message)
        BY <1>0, <4>1, <4>2, AppendProperties DEF LoopTypes
      <4>4. client' = [client EXCEPT ![c] = "waiting"]
        BY <3>1, <3>3 DEF SendControl
      <4> QED
        BY <1>0, <4>3, <4>4 DEF LoopTypes
    <3> QED
      BY <3>2, <3>3
  <2>2. CASE ~\E c \in Client : SendControl(c)
    BY <1>0, <2>2 DEF Elapse, vars, msgVars, LoopTypes
  <2> QED
    BY <2>1, <2>2
<1>5. LoopTypes'
  BY <1>0, <1>1, <1>3, <1>4 DEF LoopTypes
<1>6. ReapInProgress'
  BY <1>0, <1>1 DEF ReapInProgress, Zombie
<1> QED
  BY <1>2, <1>5, <1>6, IndInvParts, PTL

LEMMA NextInv == IndInv /\ [Next]_vars => IndInv'
<1> SUFFICES ASSUME IndInv, [Next]_vars PROVE IndInv'
  OBVIOUS
<1>1. CASE MainThread
  <2>1. CASE RunOp
    BY <2>1, RunOpInv
  <2>2. CASE CheckShutdown
    BY <2>2, CheckShutdownInv
  <2>3. CASE ExecTemporary
    BY <2>3, ExecTemporaryInv
  <2>4. CASE \/ SkipCommand \/ ExecuteCommand \/ PerformApexConfig \/ Reboot
             \/ HandleProcessActions \/ EpollWait \/ NoZombie \/ NoControlMessage
    BY <2>4, LoopInv
  <2>5. CASE FindZombie \/ ReapUntracked
    BY <2>5, FindZombieInv
  <2>6. CASE \E s \in Service : Reap(s)
    BY <2>6, ReapInv
  <2>7. CASE \E s \in Temp : ReapTemporary(s)
    BY <2>7, ReapTemporaryInv
  <2>8. CASE WaitPid
    BY <2>8, WaitPidInv
  <2>9. CASE HandleControlMessage
    BY <2>9, HandleControlMessageInv
  <2> QED
    BY <1>1, <2>1, <2>2, <2>3, <2>4, <2>5, <2>6, <2>7, <2>8, <2>9 DEF MainThread
<1>2. CASE \E p \in Pid : Exit(p) \/ Stranger(p)
  BY <1>2, KernelInv
<1>3. CASE \/ \E s \in Service : Elapse(s)
           \/ \E c \in Client : SendControl(c)
           \/ UNCHANGED vars
  BY <1>3, ElapseOrSendInv
<1> QED
  BY <1>1, <1>2, <1>3 DEF Next, Environment, Halted

(* IndInv holds in every reachable state. *)
THEOREM Invariance == Spec => []IndInv
<1>1. Init => IndInv
  BY InitInv
<1>2. IndInv /\ [Next]_vars => IndInv'
  BY NextInv
<1> QED
  BY <1>1, <1>2, PTL DEF Spec

(* Every variable keeps its type: no pid of 0 is ever signalled, and the       *)
(* agenda holds operations only.                                              *)
THEOREM TypeCorrect == Spec => []TypeOK
<1>1. IndInv => TypeOK
  BY DEF IndInv
<1> QED
  BY <1>1, Invariance, PTL

(* pid_ and SVC_RUNNING agree, and no service has the pid of a process that    *)
(* init has waited for or that is another service's, for any number of         *)
(* services and pids and any schedule of exits and pid reuse.                  *)
THEOREM PidsAreTracked == Spec => []PidsTrackChildren
<1>1. IndInv => PidsTrackChildren
  BY DEF IndInv
<1> QED
  BY <1>1, Invariance, PTL

(* KillProcessGroup signals children of init only. *)
THEOREM KillsAreSafe == Spec => []KillsOnlyChildren
<1>1. IndInv => KillsOnlyChildren
  BY DEF IndInv
<1> QED
  BY <1>1, Invariance, PTL

(* While commands are held back by is_exec_service_running_, some running      *)
(* service in the list has SVC_EXEC, so a reap can lift the wait.               *)
THEOREM ExecWaitEnds == Spec => []ExecWaitCanEnd
<1>1. IndInv => ExecWaitCanEnd
  BY DEF IndInv
<1> QED
  BY <1>1, Invariance, PTL
----------------------------------------------------------------------------
(* init.svc.<name> tells the truth.                                          *)

(* Reap() has still to say that s is restarting. *)
Pending(s) ==
  \E i \in 1..Len(agenda) : agenda[i].op = "notify_restarting" /\ agenda[i].svc = s

(* s waits to be restarted. *)
Waits(s) == "RESTARTING" \in flags[s] /\ ~Running(s)

(* The property of s is what StatusIsTrue asks for. *)
Settled(s) ==
  /\ "RESTARTING" \in flags[s] => prop[s] = "restarting" /\ ~Running(s)
  /\ prop[s] \in {"running", "stopping"} => Running(s)
  /\ Running(s) /\ "no_cgroup" \notin StartErrors => prop[s] \in {"running", "stopping"}

(* What an onrestart list may do to its own service. *)
Sparing == {"restart", "restart_if_enabled", "restart_if_running", "oneshot_on", "oneshot_off",
            "notify_restarting"}

(* StatusIsTrue is not inductive: while the onrestart commands of a service  *)
(* run, its property still says what it was, and the service waits.            *)
StatusInv ==
  /\ pc # "halt" => \A s \in Service : IF Pending(s) THEN Waits(s) ELSE Settled(s)
  /\ \A s \in Service : Pending(s) =>
       \A i \in 1..Len(agenda) : agenda[i].svc = s => agenda[i].op \in Sparing

(* Start() from flags f. *)
LEMMA StartSettles ==
  ASSUME TypeOK, NEW s \in Service, NEW f \in SUBSET Flag, NEW exec \in BOOLEAN, Settled(s),
         "RUNNING" \in f <=> "RUNNING" \in flags[s], "RESTARTING" \in f => "RESTARTING" \in flags[s],
         StartWith(s, f, exec)
  PROVE  Settled(s)'
<1>0. s \in Slot /\ flags \in [Slot -> SUBSET Flag] /\ s \in DOMAIN prop
  BY DEF TypeOK, Slot
<1>1. CASE StartDelay(s, f)
  <2>1. flags'[s] = f /\ prop' = prop
    BY <1>0, <1>1 DEF StartDelay
  <2> QED
    BY <2>1 DEF Settled, Running
<1>2. CASE StartRunning(s, f, exec)
  <2>1. "RUNNING" \in flags'[s] /\ "RESTARTING" \notin flags'[s]
    BY <1>0, <1>2 DEF StartRunning, ResetFlagsForStart
  <2>2. prop' = prop /\ "RUNNING" \in flags[s]
    BY <1>2 DEF StartRunning
  <2> QED
    BY <2>1, <2>2 DEF Settled, Running
<1>3. CASE StartNotForked(s, f)
  <2>0. PICK marks \in SUBSET {"DISABLED"} :
          flags' = [flags EXCEPT ![s] = ResetFlagsForStart(f) \cup marks]
    BY <1>3, NotForkedMarks
  <2>1. "RUNNING" \notin flags'[s] /\ "RESTARTING" \notin flags'[s]
    BY <1>0, <1>3, <2>0 DEF StartNotForked, ResetFlagsForStart
  <2>2. prop' = prop /\ "RUNNING" \notin flags[s]
    BY <1>3 DEF StartNotForked
  <2> QED
    BY <2>1, <2>2 DEF Settled, Running
<1>4. CASE StartForked(s, f, exec)
  <2>1. "RUNNING" \in flags'[s] /\ "RESTARTING" \notin flags'[s]
    BY <1>0, <1>4 DEF StartForked, ResetFlagsForStart, CheckConsole
  <2>2. "no_cgroup" \in StartErrors \/ prop'[s] = "running"
    BY <1>0, <1>4 DEF StartForked
  <2> QED
    BY <2>1, <2>2 DEF Settled, Running
<1> QED
  BY <1>1, <1>2, <1>3, <1>4 DEF StartWith

(* StopOrReset() says "stopping" while there is a process. *)
LEMMA StopSettles ==
  ASSUME TypeOK, PidsTrackChildren, NEW s \in Service, NEW how \in {"DISABLED", "RESET", "RESTART"},
         StopOrReset(s, how)
  PROVE  Settled(s)'
<1>0. s \in Slot /\ flags \in [Slot -> SUBSET Flag] /\ s \in DOMAIN prop
  BY DEF TypeOK, Slot
<1>1. flags'[s] = StopFlags(flags[s], how)
  BY <1>0 DEF StopOrReset
<1>2. "RESTARTING" \notin flags'[s] /\ ("RUNNING" \in flags'[s] <=> "RUNNING" \in flags[s])
  BY <1>1 DEF StopFlags
<1>3. Running(s) <=> pid[s] # NoPid
  BY <1>0 DEF PidsTrackChildren
<1>4. prop'[s] = IF pid[s] # NoPid THEN "stopping" ELSE "stopped"
  BY <1>0 DEF StopOrReset
<1> QED
  BY <1>2, <1>3, <1>4 DEF Settled, Running

(* Operations that leave the property and the two flags alone. *)
LEMMA SameSettles ==
  ASSUME NEW s \in Service, Settled(s), prop' = prop,
         "RUNNING" \in flags'[s] <=> "RUNNING" \in flags[s],
         "RESTARTING" \in flags'[s] => "RESTARTING" \in flags[s]
  PROVE  Settled(s)'
BY DEF Settled, Running

(* Every operation but the last step of Reap() keeps the property true. *)
LEMMA PerformSettles ==
  ASSUME TypeOK, PidsTrackChildren, NEW s \in Service, NEW op, op # "notify_restarting",
         Perform(op, s), Settled(s)
  PROVE  Settled(s)'
<1>0. s \in Slot /\ flags \in [Slot -> SUBSET Flag] /\ flags[s] \in SUBSET Flag /\ s \in DOMAIN prop
  BY DEF TypeOK, Slot
<1>1. ASSUME Start(s) PROVE Settled(s)'
  BY <1>0, <1>1, StartSettles DEF Start
<1>2. ASSUME NoServiceChange PROVE Settled(s)'
  BY <1>2, SameSettles DEF NoServiceChange
<1>3. ASSUME Restart(s) PROVE Settled(s)'
  BY <1>1, <1>2, <1>3, StopSettles DEF Restart
<1>4. CASE op = "start_if_not_disabled"
  <2>1. CASE "DISABLED" \notin flags[s]
    BY <1>1, <1>4, <2>1 DEF Perform, StartIfNotDisabled
  <2>2. CASE "DISABLED" \in flags[s]
    <3>1. flags'[s] = flags[s] \cup {"DISABLED_START"} /\ prop' = prop
      BY <1>0, <1>4, <2>2 DEF Perform, StartIfNotDisabled
    <3> QED
      BY <3>1, SameSettles
  <2> QED
    BY <2>1, <2>2
<1>5. CASE op = "enable"
  <2> DEFINE f == flags[s] \ {"DISABLED", "RC_DISABLED"}
  <2>1. f \in SUBSET Flag /\ ("RUNNING" \in f <=> "RUNNING" \in flags[s])
        /\ ("RESTARTING" \in f => "RESTARTING" \in flags[s])
    BY <1>0
  <2>2. StartWith(s, f, FALSE) \/ (flags'[s] = f /\ prop' = prop)
    BY <1>0, <1>5 DEF Perform, Enable
  <2> HIDE DEF f
  <2> QED
    BY <2>1, <2>2, StartSettles, SameSettles
<1>6. CASE op = "exec_start"
  <2> DEFINE f == flags[s] \cup {"ONESHOT"}
  <2>1. f \in SUBSET Flag /\ ("RUNNING" \in f <=> "RUNNING" \in flags[s])
        /\ ("RESTARTING" \in f => "RESTARTING" \in flags[s])
    BY <1>0 DEF Flag
  <2>2. StartWith(s, f, TRUE) \/ (flags' = flags /\ prop' = prop)
    BY <1>6 DEF Perform, ExecStart
  <2> HIDE DEF f
  <2> QED
    BY <2>1, <2>2, StartSettles, SameSettles
<1>7. CASE op \in {"oneshot_on", "oneshot_off"}
  <2>1. prop' = prop /\ (flags'[s] = flags[s] \cup {"ONESHOT"} \/ flags'[s] = flags[s] \ {"ONESHOT"})
    BY <1>0, <1>7 DEF Perform, SetOneshot
  <2> QED
    BY <2>1, SameSettles
<1>8. CASE op = "process_actions"
  <2>1. CASE Running(s) /\ Timeout(s)
    <3>1. flags' = flags /\ prop'[s] = "stopping"
      BY <1>0, <2>1 DEF Timeout
    <3> QED
      BY <2>1, <3>1 DEF Settled, Running
  <2> QED
    BY <1>1, <1>2, <1>8, <2>1 DEF Perform, ProcessActions
<1>9. CASE op \in {"start", "start_delayed"}
  BY <1>1, <1>9 DEF Perform
<1>10. CASE op \in {"stop", "reset"}
  BY <1>10, StopSettles DEF Perform
<1>11. CASE op \in {"restart", "restart_if_enabled", "restart_if_running"}
  BY <1>2, <1>3, <1>11 DEF Perform
<1> QED
  BY <1>4, <1>5, <1>6, <1>7, <1>8, <1>9, <1>10, <1>11 DEF Perform

(* A service that waits to be restarted goes on waiting. *)
LEMMA SparingWaits ==
  ASSUME TypeOK, NEW s \in Service, NEW op \in Sparing, Perform(op, s), Waits(s)
  PROVE  Waits(s)'
<1>0. s \in Slot /\ flags \in [Slot -> SUBSET Flag]
  BY DEF TypeOK, Slot
<1>1. CASE op \in {"oneshot_on", "oneshot_off"}
  <2>1. flags'[s] = flags[s] \cup {"ONESHOT"} \/ flags'[s] = flags[s] \ {"ONESHOT"}
    BY <1>0, <1>1 DEF Perform, SetOneshot
  <2> QED
    BY <2>1 DEF Waits, Running
<1>2. CASE op \notin {"oneshot_on", "oneshot_off"}
  <2>1. flags' = flags
    BY <1>2 DEF Perform, Sparing, Restart, Waits, NoServiceChange
  <2> QED
    BY <2>1 DEF Waits, Running
<1> QED
  BY <1>1, <1>2

(* An operation on s leaves every other service and its property alone. *)
LEMMA PerformOthers ==
  ASSUME IndInv, NEW op, NEW s \in Service, Perform(op, s), NEW r \in Service, r # s
  PROVE  flags'[r] = flags[r] /\ prop'[r] = prop[r]
<1>0. /\ r \in Slot /\ flags \in [Slot -> SUBSET Flag]
      /\ prop \in [Service -> {"", "running", "stopping", "stopped", "restarting"}]
  BY DEF IndInv, TypeOK, Slot
<1>1. Summary(s)
  BY PerformSummary DEF IndInv
<1>2. flags'[r] = flags[r]
  BY <1>0, <1>1 DEF Summary, Quiet, Forks
<1>3. prop' = prop \/ \E v : prop' = [prop EXCEPT ![s] = v]
  <2>1. \A f, exec : StartWith(s, f, exec) => prop' = prop \/ \E v : prop' = [prop EXCEPT ![s] = v]
    <3> SUFFICES ASSUME NEW f, NEW exec, StartWith(s, f, exec)
                 PROVE  prop' = prop \/ \E v : prop' = [prop EXCEPT ![s] = v]
      OBVIOUS
    <3>1. CASE StartForked(s, f, exec)
      BY <3>1 DEF StartForked
    <3>2. CASE ~StartForked(s, f, exec)
      BY <3>2 DEF StartWith, StartDelay, StartRunning, StartNotForked
    <3> QED
      BY <3>1, <3>2
  <2>2. \A how : StopOrReset(s, how) => \E v : prop' = [prop EXCEPT ![s] = v]
    BY DEF StopOrReset
  <2>3. \/ \E f, exec : StartWith(s, f, exec)
        \/ \E how : StopOrReset(s, how)
        \/ prop' = prop \/ \E v : prop' = [prop EXCEPT ![s] = v]
    BY Zenon DEF Perform, Start, Restart, StartIfNotDisabled, Enable, ExecStart, SetOneshot,
       ProcessActions, Timeout, NoServiceChange
  <2> QED
    BY <2>1, <2>2, <2>3
<1>4. prop'[r] = prop[r]
  BY <1>0, <1>3
<1> QED
  BY <1>2, <1>4

(* The rest of the agenda, when its first operation is done. *)
LEMMA AgendaTail ==
  ASSUME agenda \in Seq(Op), agenda # << >>, agenda' = Tail(agenda)
  PROVE  /\ Head(agenda) = agenda[1] /\ agenda[1] \in Op /\ 1 \in 1..Len(agenda)
         /\ Len(agenda') = Len(agenda) - 1 /\ Len(agenda) \in Nat
         /\ \A i \in 1..Len(agenda') : i + 1 \in 1..Len(agenda) /\ agenda'[i] = agenda[i + 1]
         /\ \A i \in 1..Len(agenda) : i # 1 => i - 1 \in 1..Len(agenda') /\ agenda[i] = agenda'[i - 1]
<1>1. /\ Len(agenda) \in Nat /\ Len(agenda) > 0 /\ Head(agenda) = agenda[1]
      /\ \A i \in 1..Len(agenda) : agenda[i] \in Op
  BY EmptySeq, LenProperties
<1>2. Len(agenda') = Len(agenda) - 1
  BY <1>1
<1>3. \A i \in 1..Len(agenda') : agenda'[i] = agenda[i + 1]
  BY <1>1, <1>2
<1> QED
  BY <1>1, <1>2, <1>3

(* The next operation of the agenda. *)
LEMMA RunOpStatus ==
  ASSUME IndInv, StatusInv, RunOp PROVE StatusInv'
<1> DEFINE s == Head(agenda).svc
           op == Head(agenda).op
<1>0. /\ agenda \in Seq(Op) /\ agenda # << >> /\ agenda' = Tail(agenda) /\ TypeOK /\ PidsTrackChildren
      /\ pc' = pc /\ Perform(op, s)
  BY DEF RunOp, IndInv, TypeOK
<1>1. /\ op = agenda[1].op /\ s = agenda[1].svc /\ s \in Service /\ 1 \in 1..Len(agenda)
      /\ \A i \in 1..Len(agenda') : i + 1 \in 1..Len(agenda) /\ agenda'[i] = agenda[i + 1]
      /\ \A i \in 1..Len(agenda) : i # 1 => i - 1 \in 1..Len(agenda') /\ agenda[i] = agenda'[i - 1]
  BY <1>0, AgendaTail DEF Op
<1> HIDE DEF s, op
<1>2. \A r \in Service : Pending(r)' => Pending(r)
  BY <1>1 DEF Pending
<1>3. \A r \in Service : Pending(r) /\ ~(r = s /\ op = "notify_restarting") => Pending(r)'
  <2> SUFFICES ASSUME NEW r \in Service, Pending(r), ~(r = s /\ op = "notify_restarting")
               PROVE  Pending(r)'
    OBVIOUS
  <2>1. PICK i \in 1..Len(agenda) : agenda[i].op = "notify_restarting" /\ agenda[i].svc = r
    BY DEF Pending
  <2>2. i # 1
    BY <1>1, <2>1
  <2> QED
    BY <1>1, <2>1, <2>2 DEF Pending
<1>4. ASSUME NEW r \in Service, Pending(r)', NEW i \in 1..Len(agenda'), agenda'[i].svc = r
      PROVE  agenda'[i].op \in Sparing
  BY <1>1, <1>2, <1>4 DEF StatusInv
<1>5. ASSUME pc # "halt", NEW r \in Service
      PROVE  IF Pending(r)' THEN Waits(r)' ELSE Settled(r)'
  <2>0. IF Pending(r) THEN Waits(r) ELSE Settled(r)
    BY <1>5 DEF StatusInv
  <2>1. CASE r # s
    <3>1. flags'[r] = flags[r] /\ prop'[r] = prop[r]
      BY <1>0, <1>1, <2>1, PerformOthers
    <3>2. Pending(r)' <=> Pending(r)
      BY <1>2, <1>3, <2>1
    <3> QED
      BY <2>0, <3>1, <3>2 DEF Waits, Settled, Running
  <2>2. CASE r = s /\ op = "notify_restarting"
    <3>1. Waits(s)
      BY <1>1, <2>0, <2>2 DEF Pending
    <3>2. flags' = flags /\ prop'[s] = "restarting"
      <4>1. prop' = [prop EXCEPT ![s] = "restarting"] /\ flags' = flags
        BY <1>0, <2>2 DEF Perform
      <4>2. s \in DOMAIN prop
        BY <1>0, <1>1 DEF TypeOK
      <4> QED
        BY <4>1, <4>2
    <3> QED
      BY <2>2, <3>1, <3>2 DEF Waits, Settled, Running
  <2>3. CASE r = s /\ op # "notify_restarting" /\ Pending(r)
    <3>1. op \in Sparing /\ Waits(r) /\ Perform(op, r)
      BY <1>0, <1>1, <2>0, <2>3 DEF StatusInv
    <3>2. Waits(r)'
      BY <1>0, <3>1, SparingWaits
    <3>3. Pending(r)'
      BY <1>3, <2>3
    <3> QED
      BY <3>2, <3>3
  <2>4. CASE r = s /\ op # "notify_restarting" /\ ~Pending(r)
    <3>1. Settled(r) /\ Perform(op, r)
      BY <1>0, <2>0, <2>4
    <3>2. Settled(r)'
      BY <1>0, <2>4, <3>1, PerformSettles
    <3>3. ~Pending(r)'
      BY <1>2, <2>4
    <3> QED
      BY <3>2, <3>3
  <2> QED
    BY <2>1, <2>2, <2>3, <2>4
<1>6. \A r \in Service : Pending(r)' => \A i \in 1..Len(agenda') : agenda'[i].svc = r => agenda'[i].op \in Sparing
  BY <1>4
<1>7. pc' # "halt" => \A r \in Service : IF Pending(r)' THEN Waits(r)' ELSE Settled(r)'
  BY <1>0, <1>5
<1> QED
  BY <1>6, <1>7 DEF StatusInv

(* Nothing is pending when the agenda is empty, or holds commands only. *)
LEMMA NonePending ==
  ASSUME \A i \in 1..Len(agenda) : agenda[i].op # "notify_restarting"
  PROVE  \A s : ~Pending(s)
BY DEF Pending

LEMMA HandleControlMessageStatus ==
  ASSUME IndInv, StatusInv, HandleControlMessage PROVE StatusInv'
<1> DEFINE s == Head(ctl).svc
           op == Head(ctl).op
<1>0. Head(ctl) \in Message
  BY HeadTailProperties DEF HandleControlMessage, IndInv, TypeOK
<1>1. s \in Service /\ op # "notify_restarting" /\ Perform(op, s) /\ TypeOK /\ PidsTrackChildren
  BY <1>0, ConstantsAssumption DEF Message, ControlOp, HandleControlMessage, IndInv
<1>2. agenda = << >> /\ agenda' = << >> /\ pc # "halt"
  BY DEF HandleControlMessage, At
<1> HIDE DEF s, op
<1>3. \A r : ~Pending(r) /\ ~Pending(r)'
  BY <1>2 DEF Pending
<1>4. ASSUME NEW r \in Service PROVE Settled(r)'
  <2>0. Settled(r)
    BY <1>2, <1>3 DEF StatusInv
  <2>1. CASE r = s
    BY <1>1, <2>0, <2>1, PerformSettles
  <2>2. CASE r # s
    BY <1>1, <2>0, <2>2, PerformOthers DEF Settled, Running
  <2> QED
    BY <2>1, <2>2
<1> QED
  BY <1>3, <1>4 DEF StatusInv

(* Reap() leaves the service stopped, or waiting with "restarting" to be said. *)
LEMMA ReapStatus ==
  ASSUME OnRestartSpares, IndInv, StatusInv, NEW s \in Service, Reap(s) PROVE StatusInv'
<1>0. /\ s \in Slot /\ Service \subseteq Slot
      /\ flags \in [Slot -> SUBSET Flag] /\ pid \in [Slot -> Pid \cup {NoPid}]
      /\ prop \in [Service -> {"", "running", "stopping", "stopped", "restarting"}]
      /\ NoPid \notin Pid
  BY ConstantsAssumption DEF IndInv, TypeOK, Slot
<1>1. agenda = << >> /\ pc # "halt"
  BY DEF Reap, At
<1>2. \A r : ~Pending(r)
  BY <1>1 DEF Pending
<1>3. \A r \in Service : Settled(r)
  BY <1>1, <1>2 DEF StatusInv
<1>4. Running(s)
  <2>1. reaping \in Pid /\ pid[s] = reaping
    BY DEF IndInv, ReapInProgress, Reap, At
  <2> QED
    BY <1>0, <2>1 DEF IndInv, PidsTrackChildren
<1> DEFINE f == FlagsAtExit(flags[s])
           n == [op |-> "notify_restarting", svc |-> s]
<1>5. "RUNNING" \notin f /\ "RESTARTING" \notin f
  BY <1>3, <1>4 DEF FlagsAtExit, Settled
<1> HIDE DEF f
<1>6. CASE flags' = [flags EXCEPT ![s] = f] /\ prop' = [prop EXCEPT ![s] = "stopped"] /\ agenda' = << >>
  <2>1. \A r : ~Pending(r)'
    BY <1>6 DEF Pending
  <2>2. Settled(s)'
    BY <1>0, <1>5, <1>6 DEF Settled, Running
  <2>3. \A r \in Service : r # s => Settled(r)'
    BY <1>0, <1>3, <1>6 DEF Settled, Running
  <2> QED
    BY <2>1, <2>2, <2>3 DEF StatusInv
<1>7. CASE /\ flags' = [flags EXCEPT ![s] = (f \ {"RESTART"}) \cup {"RESTARTING"}]
           /\ prop' = prop /\ agenda' = OnRestart[s] \o << n >>
  <2> DEFINE c == OnRestart[s]
  <2>1. c \in Seq(Command) /\ Len(c) \in Nat /\ \A i \in 1..Len(c) : c[i] \in Command
    BY ConstantsAssumption
  <2>2. /\ Len(agenda') = Len(c) + 1
        /\ \A i \in 1..Len(c) : agenda'[i] = c[i]
        /\ agenda'[Len(c) + 1] = n
    <3>1. agenda' = c \o << n >> /\ << n >> \in Seq(Op)
      BY <1>7 DEF Op, OpName
    <3>2. c \in Seq(Op)
      <4>1. Command \subseteq Op
        BY DEF Command, Op
      <4> QED
        BY <2>1, <4>1, SeqMonotonic
    <3> HIDE DEF c, n
    <3> QED
      BY <2>1, <3>1, <3>2, ConcatProperties
  <2>3. \A i \in 1..Len(c) : c[i].op # "notify_restarting"
    BY <2>1 DEF Command
  <2>4. Pending(s)'
    BY <2>1, <2>2 DEF Pending
  <2>5. \A r \in Service : r # s => ~Pending(r)'
    <3> SUFFICES ASSUME NEW r \in Service, r # s, Pending(r)' PROVE FALSE
      OBVIOUS
    <3>1. PICK i \in 1..Len(agenda') : agenda'[i].op = "notify_restarting" /\ agenda'[i].svc = r
      BY DEF Pending
    <3>2. i = Len(c) + 1
      BY <2>1, <2>2, <2>3, <3>1
    <3> QED
      BY <2>2, <3>1, <3>2
  <2>6. \A i \in 1..Len(agenda') : agenda'[i].svc = s => agenda'[i].op \in Sparing
    <3> SUFFICES ASSUME NEW i \in 1..Len(agenda'), agenda'[i].svc = s PROVE agenda'[i].op \in Sparing
      OBVIOUS
    <3>1. CASE i = Len(c) + 1
      BY <2>2, <3>1 DEF Sparing
    <3>2. CASE i \in 1..Len(c)
      BY <2>2, <3>2 DEF Sparing, OnRestartSpares
    <3> QED
      BY <2>1, <2>2, <3>1, <3>2
  <2>7. Waits(s)'
    BY <1>0, <1>5, <1>7 DEF Waits, Running
  <2>8. \A r \in Service : r # s => Settled(r)'
    BY <1>0, <1>3, <1>7 DEF Settled, Running
  <2> QED
    BY <2>4, <2>5, <2>6, <2>7, <2>8 DEF StatusInv
<1>8. CASE pc' = "halt" /\ agenda' = agenda
  <2>1. \A r : ~Pending(r)'
    BY <1>1, <1>8 DEF Pending
  <2> QED
    BY <1>8, <2>1 DEF StatusInv
<1> QED
  BY <1>6, <1>7, <1>8 DEF Reap, f

(* The steps that change no property, and of the flags at most SVC_EXEC. *)
LEMMA OthersStatus ==
  ASSUME IndInv, StatusInv, prop' = prop, pc' # "halt" => pc # "halt",
         \A s \in Service : flags'[s] \in {flags[s], flags[s] \ {"EXEC"}},
         agenda' = agenda \/ (agenda = << >> /\ \A i \in 1..Len(agenda') : agenda'[i].op # "notify_restarting")
  PROVE  StatusInv'
<1>1. CASE agenda' = agenda
  <2>1. \A s \in Service : Pending(s)' <=> Pending(s)
    BY <1>1 DEF Pending
  <2>2. \A s \in Service : (Waits(s) => Waits(s)') /\ (Settled(s) => Settled(s)')
    BY DEF Waits, Settled, Running
  <2> QED
    BY <1>1, <2>1, <2>2 DEF StatusInv
<1>2. CASE agenda = << >> /\ \A i \in 1..Len(agenda') : agenda'[i].op # "notify_restarting"
  <2>1. \A s \in Service : ~Pending(s) /\ ~Pending(s)'
    BY <1>2 DEF Pending
  <2>2. \A s \in Service : Settled(s) => Settled(s)'
    BY DEF Settled, Running
  <2> QED
    BY <2>1, <2>2 DEF StatusInv
<1> QED
  BY <1>1, <1>2

(* What the commands on a class put on the agenda. *)
LEMMA ForEachOps ==
  ASSUME NEW op, NEW members \in Seq(Service)
  PROVE  \A i \in 1..Len(ForEachServiceInClass(op, members)) :
           ForEachServiceInClass(op, members)[i].op = op
<1>1. Len(members) \in Nat /\ DOMAIN members = 1..Len(members)
  BY LenProperties
<1>2. ForEachServiceInClass(op, members) = [i \in 1..Len(members) |-> [op |-> op, svc |-> members[i]]]
  BY <1>1 DEF ForEachServiceInClass
<1>3. Len(ForEachServiceInClass(op, members)) = Len(members)
  BY <1>1, <1>2
<1> QED
  BY <1>2, <1>3

LEMMA StatusStep == OnRestartSpares /\ IndInv /\ StatusInv /\ [Next]_vars => StatusInv'
<1> SUFFICES ASSUME OnRestartSpares, IndInv, StatusInv, [Next]_vars PROVE StatusInv'
  OBVIOUS
<1>0. /\ Service \subseteq Slot /\ Service \cap Temp = {} /\ delayed \in Seq(Service)
      /\ flags \in [Slot -> SUBSET Flag]
  BY ConstantsAssumption DEF IndInv, TypeOK, Slot
<1>1. CASE RunOp
  BY <1>1, RunOpStatus
<1>2. CASE HandleControlMessage
  BY <1>2, HandleControlMessageStatus
<1>3. CASE \E s \in Service : Reap(s)
  BY <1>3, ReapStatus
<1>4. CASE CheckShutdown \/ ExecTemporary \/ \E s \in Temp : ReapTemporary(s)
  <2>1. prop' = prop /\ agenda' = agenda /\ pc # "halt"
    BY <1>4 DEF CheckShutdown, ExecTemporary, ReapTemporary, At
  <2>2. \A r \in Service : flags'[r] \in {flags[r], flags[r] \ {"EXEC"}}
    <3>1. CASE CheckShutdown
      BY <1>0, <3>1 DEF CheckShutdown
    <3>2. CASE ExecTemporary
      BY <1>0, <3>2 DEF ExecTemporary
    <3>3. CASE \E s \in Temp : ReapTemporary(s)
      BY <1>0, <3>3 DEF ReapTemporary
    <3> QED
      BY <1>4, <3>1, <3>2, <3>3
  <2> QED
    BY <2>1, <2>2, OthersStatus
<1>5. CASE ExecuteCommand
  <2>1. \A i \in 1..Len(agenda') : agenda'[i].op # "notify_restarting"
    <3>1. agenda' \in Seq(Command)
      BY <1>5, ConstantsAssumption DEF ExecuteCommand
    <3>2. \A i \in 1..Len(agenda') : agenda'[i] \in Command
      BY <3>1
    <3> QED
      BY <3>2 DEF Command
  <2>2. prop' = prop /\ flags' = flags /\ agenda = << >> /\ pc # "halt"
    BY <1>5 DEF ExecuteCommand, svcVars, At
  <2> QED
    BY <2>1, <2>2, OthersStatus
<1>6. CASE PerformApexConfig \/ HandleProcessActions
  <2>1. \A i \in 1..Len(agenda') : agenda'[i].op # "notify_restarting"
    <3>1. agenda' \in {<< >>, ForEachServiceInClass("process_actions", Order),
                       ForEachServiceInClass("start_delayed", delayed)}
      BY <1>6 DEF PerformApexConfig, HandleProcessActions
    <3>2. Order \in Seq(Service)
      BY ConstantsAssumption
    <3>3. CASE agenda' = << >>
      BY <3>3
    <3>4. CASE agenda' = ForEachServiceInClass("process_actions", Order)
      BY <3>2, <3>4, ForEachOps
    <3>5. CASE agenda' = ForEachServiceInClass("start_delayed", delayed)
      BY <1>0, <3>5, ForEachOps
    <3> QED
      BY <3>1, <3>3, <3>4, <3>5
  <2>2. prop' = prop /\ flags' = flags /\ agenda = << >> /\ pc # "halt"
    BY <1>6 DEF PerformApexConfig, HandleProcessActions, svcVars, At
  <2> QED
    BY <2>1, <2>2, OthersStatus
<1>7. CASE \/ SkipCommand \/ Reboot \/ EpollWait \/ FindZombie \/ NoZombie \/ ReapUntracked
           \/ WaitPid \/ NoControlMessage \/ Environment \/ UNCHANGED vars
  <2>1. UNCHANGED <<flags, prop, agenda>> /\ (pc' # "halt" => pc # "halt")
    BY <1>7 DEF SkipCommand, Reboot, EpollWait, FindZombie, NoZombie, ReapUntracked,
       WaitPid, NoControlMessage, Environment, Exit, Stranger, Elapse, SendControl, At,
       vars, svcVars
  <2> QED
    BY <2>1, OthersStatus
<1> QED
  BY <1>1, <1>2, <1>3, <1>4, <1>5, <1>6, <1>7 DEF Next, MainThread, Halted

(* init.svc.<name> tells the truth between any two operations of the main      *)
(* thread, for any services, commands and schedules, when an onrestart list     *)
(* does not start its own service.                                             *)
THEOREM StatusStaysTrue == OnRestartSpares => (Spec => []StatusIsTrue)
<1> SUFFICES ASSUME OnRestartSpares PROVE Spec => []StatusIsTrue
  OBVIOUS
<1>1. Init => StatusInv
  <2> SUFFICES ASSUME Init PROVE StatusInv
    OBVIOUS
  <2>1. \A s : ~Pending(s)
    <3>1. agenda = << >>
      BY DEF Init
    <3> QED
      BY <3>1 DEF Pending
  <2>2. \A s \in Service : prop[s] = "" /\ flags[s] = RcFlags[s]
    BY DEF Init, Slot
  <2>3. \A s \in Service : Settled(s)
    <3>1. \A s \in Service : RcFlags[s] \subseteq {"DISABLED", "ONESHOT", "CONSOLE", "CRITICAL", "RC_DISABLED"}
      BY ConstantsAssumption
    <3>2. \A s \in Service : "RUNNING" \notin flags[s] /\ "RESTARTING" \notin flags[s] /\ prop[s] = ""
      <4> SUFFICES ASSUME NEW s \in Service
                   PROVE  "RUNNING" \notin flags[s] /\ "RESTARTING" \notin flags[s] /\ prop[s] = ""
        OBVIOUS
      <4>1. "RUNNING" \notin RcFlags[s] /\ "RESTARTING" \notin RcFlags[s]
        BY <3>1
      <4> QED
        BY <2>2, <4>1
    <3> QED
      BY <3>2, Zenon DEF Settled, Running
  <2> QED
    BY <2>1, <2>3 DEF StatusInv
<1>2. IndInv /\ StatusInv /\ [Next]_vars => StatusInv'
  BY StatusStep
<1>3. StatusInv => StatusIsTrue
  <2> SUFFICES ASSUME StatusInv, agenda = << >>, pc # "halt", NEW s \in Service PROVE Settled(s)
    BY DEF StatusIsTrue, Settled
  <2>1. ~Pending(s)
    BY DEF Pending
  <2> QED
    BY <2>1 DEF StatusInv
<1> QED
  BY <1>1, <1>2, <1>3, Invariance, PTL DEF Spec
----------------------------------------------------------------------------
(* exec and exec_start halt the commands.                                    *)

(* is_exec_service_running_ is one flag for all services: it stands for       *)
(* SVC_EXEC of a service only as long as no other one has it.                 *)
ExecInv ==
  /\ \A s \in Slot : "EXEC" \in flags[s] =>
       is_exec /\ \A r \in Slot \ {s} : "EXEC" \notin flags[r]
  /\ \A i \in 1..Len(agenda) : agenda[i].op = "exec_start" => Len(agenda) = 1 /\ ~is_exec

(* Start() from flags f. *)
LEMMA StartExec ==
  ASSUME TypeOK, NEW s \in Service, NEW f, NEW exec \in BOOLEAN, StartWith(s, f, exec)
  PROVE  /\ "EXEC" \in flags'[s] => "EXEC" \in f \/ (exec /\ is_exec')
         /\ ~exec => is_exec' = is_exec
<1>0. s \in Slot /\ flags \in [Slot -> SUBSET Flag] /\ is_exec \in BOOLEAN
  BY DEF TypeOK, Slot
<1>1. CASE StartDelay(s, f)
  BY <1>0, <1>1 DEF StartDelay
<1>2. CASE StartRunning(s, f, exec)
  BY <1>0, <1>2 DEF StartRunning, ResetFlagsForStart
<1>3. CASE StartNotForked(s, f)
  <2>1. PICK marks \in SUBSET {"DISABLED"} :
          flags' = [flags EXCEPT ![s] = ResetFlagsForStart(f) \cup marks]
    BY <1>3, NotForkedMarks
  <2>2. "EXEC" \in flags'[s] => "EXEC" \in f
    BY <1>0, <2>1 DEF ResetFlagsForStart
  <2> QED
    BY <1>3, <2>2 DEF StartNotForked
<1>4. CASE StartForked(s, f, exec)
  BY <1>0, <1>4 DEF StartForked, ResetFlagsForStart, CheckConsole
<1> QED
  BY <1>1, <1>2, <1>3, <1>4 DEF StartWith

(* No operation but ExecStart() sets SVC_EXEC or makes init wait. *)
LEMMA PerformNoExec ==
  ASSUME TypeOK, NEW s \in Service, NEW op, op # "exec_start", Perform(op, s)
  PROVE  is_exec' = is_exec /\ ("EXEC" \in flags'[s] => "EXEC" \in flags[s])
<1>0. s \in Slot /\ flags \in [Slot -> SUBSET Flag]
  BY DEF TypeOK, Slot
<1>1. ASSUME NEW f, "EXEC" \in f => "EXEC" \in flags[s], StartWith(s, f, FALSE)
      PROVE  is_exec' = is_exec /\ ("EXEC" \in flags'[s] => "EXEC" \in flags[s])
  BY <1>1, StartExec
<1>2. ASSUME Start(s) PROVE is_exec' = is_exec /\ ("EXEC" \in flags'[s] => "EXEC" \in flags[s])
  BY <1>1, <1>2 DEF Start
<1>3. ASSUME NEW how \in {"DISABLED", "RESET", "RESTART"}, StopOrReset(s, how)
      PROVE  is_exec' = is_exec /\ ("EXEC" \in flags'[s] => "EXEC" \in flags[s])
  BY <1>0, <1>3 DEF StopOrReset, StopFlags
<1>4. ASSUME flags' = flags, is_exec' = is_exec
      PROVE  is_exec' = is_exec /\ ("EXEC" \in flags'[s] => "EXEC" \in flags[s])
  BY <1>4
<1>5. ASSUME Restart(s) PROVE is_exec' = is_exec /\ ("EXEC" \in flags'[s] => "EXEC" \in flags[s])
  BY <1>2, <1>3, <1>4, <1>5 DEF Restart, NoServiceChange
<1>6. CASE op = "start_if_not_disabled"
  <2>1. CASE "DISABLED" \notin flags[s]
    BY <1>2, <1>6, <2>1 DEF Perform, StartIfNotDisabled
  <2>2. CASE "DISABLED" \in flags[s]
    BY <1>0, <1>6, <2>2 DEF Perform, StartIfNotDisabled
  <2> QED
    BY <2>1, <2>2
<1>7. CASE op = "enable"
  <2> DEFINE f == flags[s] \ {"DISABLED", "RC_DISABLED"}
  <2>1. "EXEC" \in f => "EXEC" \in flags[s]
    OBVIOUS
  <2>2. StartWith(s, f, FALSE) \/ (flags'[s] = f /\ is_exec' = is_exec)
    BY <1>0, <1>7 DEF Perform, Enable
  <2> HIDE DEF f
  <2> QED
    BY <1>1, <2>1, <2>2
<1>8. CASE op \in {"oneshot_on", "oneshot_off"}
  BY <1>0, <1>8 DEF Perform, SetOneshot
<1>9. CASE op = "process_actions"
  BY <1>2, <1>4, <1>9 DEF Perform, ProcessActions, Timeout, NoServiceChange
<1>10. CASE op \in {"start", "start_delayed"}
  BY <1>2, <1>10 DEF Perform
<1>11. CASE op \in {"stop", "reset"}
  BY <1>3, <1>11 DEF Perform
<1>12. CASE op \in {"restart", "restart_if_enabled", "restart_if_running"}
  BY <1>4, <1>5, <1>12 DEF Perform, NoServiceChange
<1>13. CASE op = "notify_restarting"
  BY <1>4, <1>13 DEF Perform
<1> QED
  BY <1>6, <1>7, <1>8, <1>9, <1>10, <1>11, <1>12, <1>13 DEF Perform

(* An operation keeps the first part, if ExecStart() finds no exec. *)
LEMMA PerformExec ==
  ASSUME IndInv, ExecInv, NEW s \in Service, NEW op, Perform(op, s), op = "exec_start" => ~is_exec
  PROVE  \A q \in Slot : "EXEC" \in flags'[q] =>
           is_exec' /\ \A r \in Slot \ {q} : "EXEC" \notin flags'[r]
<1>0. /\ s \in Slot /\ flags \in [Slot -> SUBSET Flag] /\ TypeOK
      /\ \A q \in Slot : "EXEC" \in flags[q] => is_exec /\ \A r \in Slot \ {q} : "EXEC" \notin flags[r]
  BY DEF IndInv, TypeOK, Slot, ExecInv
<1>1. \A q \in Slot : q # s => flags'[q] = flags[q]
  <2>1. Summary(s)
    BY PerformSummary DEF IndInv
  <2> QED
    BY <1>0, <2>1 DEF Summary, Quiet, Forks
<1>2. CASE op # "exec_start"
  <2>1. is_exec' = is_exec /\ ("EXEC" \in flags'[s] => "EXEC" \in flags[s])
    BY <1>0, <1>2, PerformNoExec
  <2> QED
    BY <1>0, <1>1, <2>1
<1>3. CASE op = "exec_start"
  <2>1. \A q \in Slot : "EXEC" \notin flags[q]
    BY <1>0, <1>3
  <2> DEFINE f == flags[s] \cup {"ONESHOT"}
  <2>2. "EXEC" \notin f
    BY <1>0, <2>1
  <2>3. StartWith(s, f, TRUE) \/ flags' = flags
    BY <1>3 DEF Perform, ExecStart
  <2> HIDE DEF f
  <2>4. "EXEC" \in flags'[s] => is_exec'
    BY <1>0, <2>1, <2>2, <2>3, StartExec
  <2> QED
    BY <1>1, <2>1, <2>4
<1> QED
  BY <1>2, <1>3

(* The steps that put nothing on the agenda that executes a service. *)
LEMMA ExecParts ==
  ASSUME \A q \in Slot : "EXEC" \in flags'[q] =>
           is_exec' /\ \A r \in Slot \ {q} : "EXEC" \notin flags'[r],
         \A i \in 1..Len(agenda') : agenda'[i].op # "exec_start"
  PROVE  ExecInv'
BY DEF ExecInv

LEMMA ExecStep == ExecsAlone /\ IndInv /\ ExecInv /\ [Next]_vars => ExecInv'
<1> SUFFICES ASSUME ExecsAlone, IndInv, ExecInv, [Next]_vars PROVE ExecInv'
  OBVIOUS
<1>0. /\ Service \subseteq Slot /\ Temp \subseteq Slot /\ listed \subseteq Temp /\ agenda \in Seq(Op)
      /\ Slot = Service \cup Temp /\ delayed \in Seq(Service) /\ flags \in [Slot -> SUBSET Flag]
      /\ \A q \in Slot : "EXEC" \in flags[q] => is_exec /\ \A r \in Slot \ {q} : "EXEC" \notin flags[r]
  BY DEF IndInv, TypeOK, Slot, ExecInv
<1>1. CASE RunOp
  <2> DEFINE s == Head(agenda).svc
             op == Head(agenda).op
  <2>1. agenda # << >> /\ agenda' = Tail(agenda) /\ Perform(op, s)
    BY <1>1 DEF RunOp
  <2>2. /\ op = agenda[1].op /\ s \in Service /\ 1 \in 1..Len(agenda)
        /\ Len(agenda') = Len(agenda) - 1 /\ Len(agenda) \in Nat
        /\ \A i \in 1..Len(agenda') : i + 1 \in 1..Len(agenda) /\ agenda'[i] = agenda[i + 1]
    BY <1>0, <2>1, AgendaTail DEF Op
  <2> HIDE DEF s, op
  <2>3. op = "exec_start" => ~is_exec
    BY <2>2 DEF ExecInv
  <2>4. \A i \in 1..Len(agenda') : agenda'[i].op # "exec_start"
    <3> SUFFICES ASSUME NEW i \in 1..Len(agenda'), agenda'[i].op = "exec_start" PROVE FALSE
      OBVIOUS
    <3>1. Len(agenda) = 1
      BY <2>2 DEF ExecInv
    <3> QED
      BY <2>2, <3>1
  <2> QED
    BY <2>1, <2>2, <2>3, <2>4, PerformExec, ExecParts
<1>2. CASE HandleControlMessage
  <2>1. Head(ctl) \in Message
    BY <1>2, HeadTailProperties DEF HandleControlMessage, IndInv, TypeOK
  <2>2. Head(ctl).svc \in Service /\ Head(ctl).op # "exec_start"
    BY <2>1, ConstantsAssumption DEF Message, ControlOp
  <2>3. Perform(Head(ctl).op, Head(ctl).svc) /\ agenda' = << >>
    BY <1>2 DEF HandleControlMessage, At
  <2>4. \A i \in 1..Len(agenda') : agenda'[i].op # "exec_start"
    BY <2>3
  <2> QED
    BY <2>2, <2>3, <2>4, PerformExec, ExecParts
<1>3. CASE \E s \in Service : Reap(s)
  <2>1. PICK s \in Service : Reap(s)
    BY <1>3
  <2>2. /\ is_exec' = (is_exec /\ "EXEC" \notin flags[s])
        /\ "EXEC" \notin flags'[s]
        /\ \A q \in Slot : q # s => flags'[q] = flags[q]
    BY <1>0, <2>1 DEF Reap, UnSetExec, FlagsAtExit
  <2>3. \A i \in 1..Len(agenda') : agenda'[i].op # "exec_start"
    <3> DEFINE n == [op |-> "notify_restarting", svc |-> s]
               c == OnRestart[s]
    <3>1. agenda' = << >> \/ agenda' = c \o << n >>
      BY <2>1 DEF Reap, At
    <3>2. c \in Seq(Op) /\ << n >> \in Seq(Op) /\ Len(c) \in Nat
      <4>1. Command \subseteq Op
        BY DEF Command, Op
      <4>2. c \in Seq(Command) /\ n \in Op
        BY ConstantsAssumption DEF Op, OpName
      <4> QED
        BY <4>1, <4>2, SeqMonotonic
    <3>3. (\A i \in 1..Len(c) : c[i].op # "exec_start") /\ n.op # "exec_start"
      BY DEF ExecsAlone
    <3> HIDE DEF c, n
    <3>4. CASE agenda' = << >>
      BY <3>4
    <3>5. CASE agenda' = c \o << n >>
      <4>1. /\ Len(agenda') = Len(c) + 1 /\ agenda'[Len(c) + 1] = n
            /\ \A i \in 1..Len(c) : agenda'[i] = c[i]
        BY <3>2, <3>5, ConcatProperties
      <4> QED
        BY <3>2, <3>3, <4>1
    <3> QED
      BY <3>1, <3>4, <3>5
  <2>4. \A q \in Slot : "EXEC" \in flags'[q] => is_exec' /\ \A r \in Slot \ {q} : "EXEC" \notin flags'[r]
    BY <1>0, <2>2
  <2> QED
    BY <2>3, <2>4, ExecParts
<1>4. CASE \E s \in Temp : ReapTemporary(s)
  <2>1. PICK s \in Temp : ReapTemporary(s)
    BY <1>4
  <2>2. /\ is_exec' = (is_exec /\ "EXEC" \notin flags[s]) /\ flags' = [flags EXCEPT ![s] = {}]
        /\ agenda' = << >>
    BY <2>1 DEF ReapTemporary, UnSetExec, At
  <2>3. \A q \in Slot : "EXEC" \in flags'[q] => is_exec' /\ \A r \in Slot \ {q} : "EXEC" \notin flags'[r]
    BY <1>0, <2>2
  <2>4. \A i \in 1..Len(agenda') : agenda'[i].op # "exec_start"
    BY <2>2
  <2> QED
    BY <2>3, <2>4, ExecParts
<1>5. CASE CheckShutdown
  <2>1. agenda' = << >>
    BY <1>5 DEF CheckShutdown, At
  <2>2. \A q \in Slot : "EXEC" \in flags'[q] => is_exec' /\ \A r \in Slot \ {q} : "EXEC" \notin flags'[r]
    <3>1. CASE do_shutdown /\ ~shutting_down
      <4>1. \A q \in Temp \ listed : "EXEC" \notin flags[q]
        BY DEF IndInv, UnlistedIsBlank
      <4>2. \A q \in Slot : "EXEC" \notin flags'[q]
        BY <1>0, <1>5, <3>1, <4>1 DEF CheckShutdown
      <4> QED
        BY <4>2
    <3>2. CASE ~(do_shutdown /\ ~shutting_down)
      BY <1>0, <1>5, <3>2 DEF CheckShutdown
    <3> QED
      BY <3>1, <3>2
  <2>3. \A i \in 1..Len(agenda') : agenda'[i].op # "exec_start"
    BY <2>1
  <2> QED
    BY <2>2, <2>3, ExecParts
<1>6. CASE ExecTemporary
  <2>1. agenda' = << >> /\ ~is_exec
    BY <1>6 DEF ExecTemporary, At
  <2>2. \A q \in Slot : "EXEC" \notin flags[q]
    BY <1>0, <2>1
  <2>3. \/ flags' = flags
        \/ \E s \in Temp, exec \in BOOLEAN :
             /\ flags' = [flags EXCEPT ![s] = {"ONESHOT", "TEMPORARY", "RUNNING"}
                                               \cup (IF exec THEN {"EXEC"} ELSE {})]
             /\ is_exec' = exec
    BY <1>6, Zenon DEF ExecTemporary
  <2>4. \A q \in Slot : "EXEC" \in flags'[q] => is_exec' /\ \A r \in Slot \ {q} : "EXEC" \notin flags'[r]
    BY <1>0, <2>2, <2>3
  <2>5. \A i \in 1..Len(agenda') : agenda'[i].op # "exec_start"
    BY <2>1
  <2> QED
    BY <2>4, <2>5, ExecParts
<1>7. CASE ExecuteCommand
  <2>1. agenda' \in Commands /\ ~is_exec /\ is_exec' = is_exec /\ flags' = flags
    BY <1>7 DEF ExecuteCommand, svcVars
  <2> QED
    BY <1>0, <2>1 DEF ExecsAlone, ExecInv
<1>8. CASE PerformApexConfig \/ HandleProcessActions
  <2>1. \A i \in 1..Len(agenda') : agenda'[i].op # "exec_start"
    <3>1. agenda' \in {<< >>, ForEachServiceInClass("process_actions", Order),
                       ForEachServiceInClass("start_delayed", delayed)}
      BY <1>8 DEF PerformApexConfig, HandleProcessActions
    <3>2. Order \in Seq(Service)
      BY ConstantsAssumption
    <3>3. CASE agenda' = << >>
      BY <3>3
    <3>4. CASE agenda' = ForEachServiceInClass("process_actions", Order)
      BY <3>2, <3>4, ForEachOps
    <3>5. CASE agenda' = ForEachServiceInClass("start_delayed", delayed)
      BY <1>0, <3>5, ForEachOps
    <3> QED
      BY <3>1, <3>3, <3>4, <3>5
  <2>2. flags' = flags /\ is_exec' = is_exec
    BY <1>8 DEF PerformApexConfig, HandleProcessActions, svcVars
  <2> QED
    BY <1>0, <2>1, <2>2, ExecParts
<1>9. CASE \/ SkipCommand \/ Reboot \/ EpollWait \/ FindZombie \/ NoZombie \/ ReapUntracked
           \/ WaitPid \/ NoControlMessage \/ Environment \/ UNCHANGED vars
  <2>1. UNCHANGED <<flags, is_exec, agenda>>
    BY <1>9 DEF SkipCommand, Reboot, EpollWait, FindZombie, NoZombie, ReapUntracked,
       WaitPid, NoControlMessage, Environment, Exit, Stranger, Elapse, SendControl,
       vars, svcVars
  <2> QED
    BY <2>1 DEF ExecInv
<1> QED
  BY <1>1, <1>2, <1>3, <1>4, <1>5, <1>6, <1>7, <1>8, <1>9 DEF Next, MainThread, Halted

(* Commands are halted while a service started by exec or exec_start runs, for  *)
(* any services, commands and schedules, when onrestart lists execute none      *)
(* (ExecsAlone).                                                               *)
THEOREM ExecsHaltCommands == ExecsAlone => (Spec => ExecHaltsCommands)
<1> SUFFICES ASSUME ExecsAlone PROVE Spec => ExecHaltsCommands
  OBVIOUS
<1>1. Init => ExecInv
  <2> SUFFICES ASSUME Init PROVE ExecInv
    OBVIOUS
  <2>1. agenda = << >>
    BY DEF Init
  <2>2. \A s \in Slot : "EXEC" \notin flags[s]
    <3> SUFFICES ASSUME NEW s \in Slot PROVE "EXEC" \notin flags[s]
      OBVIOUS
    <3>1. CASE s \in Service
      <4>1. RcFlags[s] \subseteq {"DISABLED", "ONESHOT", "CONSOLE", "CRITICAL", "RC_DISABLED"}
        BY <3>1, ConstantsAssumption
      <4>2. flags[s] = RcFlags[s]
        BY <3>1 DEF Init
      <4> QED
        BY <4>1, <4>2
    <3>2. CASE s \notin Service
      BY <3>2 DEF Init
    <3> QED
      BY <3>1, <3>2
  <2> QED
    BY <2>1, <2>2 DEF ExecInv
<1>2. IndInv /\ ExecInv /\ [Next]_vars => ExecInv'
  BY ExecStep
<1> DEFINE Halts == pc = "command" /\ agenda = << >> /\ agenda' # << >> =>
                      \A s \in Service \cup listed : ~({"EXEC", "RUNNING"} \subseteq flags[s])
<1>3. IndInv /\ ExecInv /\ [Next]_vars => [Halts]_vars
  <2> SUFFICES ASSUME IndInv, ExecInv, [Next]_vars, pc = "command", agenda = << >>, agenda' # << >>
               PROVE  \A s \in Service \cup listed : ~({"EXEC", "RUNNING"} \subseteq flags[s])
    OBVIOUS
  <2>1. ~is_exec
    BY DEF Next, MainThread, Environment, Halted, RunOp, CheckShutdown, SkipCommand, ExecuteCommand,
       ExecTemporary, PerformApexConfig, Reboot, HandleProcessActions, EpollWait, FindZombie, NoZombie,
       ReapUntracked, Reap, ReapTemporary, WaitPid, HandleControlMessage, NoControlMessage, At,
       Exit, Stranger, Elapse, SendControl, vars
  <2>2. Service \cup listed \subseteq Slot
    BY DEF IndInv, TypeOK, Slot
  <2> QED
    BY <2>1, <2>2 DEF ExecInv
<1> HIDE DEF Halts
<1>4. Spec => [][Halts]_vars
  BY <1>1, <1>2, <1>3, Invariance, PTL DEF Spec
<1> QED
  BY <1>4 DEF ExecHaltsCommands, Halts
=============================================================================
