----------------------- MODULE InitServiceStopProofs -----------------------
(***************************************************************************)
(* Proof that init does not start on its own a service that was last asked  *)
(* to stop (StoppedStaysDown of InitService).                               *)
(*                                                                         *)
(* The invariant behind it says in which states a service that should be     *)
(* down may be: never waiting for the restart timer, and, as long as its      *)
(* process lives, marked so that Reap() leaves it down.                       *)
(***************************************************************************)
EXTENDS InitServiceProofs

(* A service that should be down is not to be restarted. *)
DownOK(s) ==
  want[s] = "down" =>
    /\ "RESTARTING" \notin flags[s]
    /\ Running(s) => flags[s] \cap {"DISABLED", "RESET"} # {}

DownInv == \A s \in Service : DownOK(s)

(* What a step owes to every service. *)
KeepsDown(s) ==
  /\ DownOK(s)'
  /\ pid[s] = NoPid /\ pid'[s] # NoPid => want'[s] # "down"

(* A service that a step does not touch. *)
LEMMA UntouchedKeepsDown ==
  ASSUME NEW s \in Service, DownOK(s), flags'[s] = flags[s], want'[s] = want[s],
         pid'[s] = pid[s]
  PROVE  KeepsDown(s)
BY DEF DownOK, KeepsDown, Running

(* An operation on one service keeps every service down that should be. *)
LEMMA PerformKeepsDown ==
  ASSUME IndInv, NEW op, NEW s \in Service, Perform(op, s),
         NEW r \in Service, DownOK(r)
  PROVE  KeepsDown(r)
<1>0. /\ r \in Slot /\ s \in Slot
      /\ flags \in [Slot -> SUBSET Flag] /\ pid \in [Slot -> Pid \cup {NoPid}]
      /\ want \in [Service -> {"down", "enabled", "up"}]
  BY DEF IndInv, TypeOK, Slot
<1>1. CASE r # s
  <2>1. want'[r] = want[r]
    BY <1>0, <1>1 DEF Perform, Asks
  <2>2. Summary(s)
    BY PerformSummary DEF IndInv
  <2>3. flags'[r] = flags[r] /\ pid'[r] = pid[r]
    BY <1>0, <1>1, <2>2 DEF Summary, Quiet, Forks
  <2> QED
    BY <2>1, <2>3, UntouchedKeepsDown
<1>2. CASE r = s
  <2>1. CASE want'[s] # "down"
    BY <1>2, <2>1 DEF KeepsDown, DownOK
  <2>2. CASE want'[s] = "down"
    <3>1. CASE op = "stop" \/ op = "reset"
      <4>1. pid' = pid
        BY <3>1 DEF Perform, StopOrReset
      <4>2. PICK how \in {"DISABLED", "RESET"} : flags' = [flags EXCEPT ![s] = StopFlags(@, how)]
        BY <3>1 DEF Perform, StopOrReset
      <4>3. flags'[s] = StopFlags(flags[s], how)
        BY <1>0, <4>2
      <4> QED
        BY <1>2, <4>1, <4>3 DEF KeepsDown, DownOK, StopFlags
    <3>2. CASE op = "oneshot_on" \/ op = "oneshot_off"
      <4>1. pid' = pid /\ want' = want
        BY <3>2 DEF Perform, SetOneshot
      <4>2. flags'[s] = flags[s] \cup {"ONESHOT"} \/ flags'[s] = flags[s] \ {"ONESHOT"}
        BY <1>0, <3>2 DEF Perform, SetOneshot
      <4> QED
        BY <1>2, <4>1, <4>2 DEF KeepsDown, DownOK, Running
    <3>3. CASE op = "start_if_not_disabled"
      <4>1. "DISABLED" \in flags[s] /\ want' = want
        BY <1>0, <2>2, <3>3 DEF Perform, Asks
      <4>2. pid' = pid /\ flags'[s] = flags[s] \cup {"DISABLED_START"}
        BY <1>0, <3>3, <4>1 DEF Perform, StartIfNotDisabled
      <4> QED
        BY <1>2, <4>1, <4>2 DEF KeepsDown, DownOK, Running
    <3>4. CASE op = "process_actions"
      <4>1. want' = want /\ want[s] = "down"
        BY <2>2, <3>4 DEF Perform
      <4>2. "RESTARTING" \notin flags[s]
        BY <1>2, <4>1 DEF DownOK
      <4>3. Timeout(s) \/ NoServiceChange
        BY <3>4, <4>2 DEF Perform, ProcessActions
      <4>4. pid' = pid /\ flags' = flags
        BY <4>3 DEF Timeout, NoServiceChange
      <4> QED
        BY <1>2, <4>1, <4>4, UntouchedKeepsDown
    <3>5. CASE op \in {"notify_restarting", "restart_if_enabled", "restart_if_running"}
      <4>1. want' = want /\ pid' = pid /\ flags' = flags
        BY <1>0, <2>2, <3>5 DEF Perform, Asks, NoServiceChange
      <4> QED
        BY <1>2, <4>1, UntouchedKeepsDown
    <3>6. op \notin {"start", "start_delayed", "restart", "exec_start", "enable"}
      BY <1>0, <2>2 DEF Perform, Asks
    <3> QED
      BY <1>2, <3>1, <3>2, <3>3, <3>4, <3>5, <3>6 DEF Perform
  <2> QED
    BY <2>1, <2>2
<1> QED
  BY <1>1, <1>2

(* What every step gives. *)
StepKeepsDown == DownInv' /\ \A s \in Service : KeepsDown(s)

(* The operation of a command or of a control message. *)
LEMMA OperationsKeepDown ==
  ASSUME IndInv, DownInv, RunOp \/ HandleControlMessage
  PROVE  StepKeepsDown
<1>1. PICK op : \E s \in Service : Perform(op, s)
  <2>1. CASE RunOp
    <3>1. Head(agenda) \in Op
      BY <2>1, HeadTailProperties DEF RunOp, IndInv, TypeOK
    <3> QED
      BY <2>1, <3>1 DEF RunOp, Op
  <2>2. CASE HandleControlMessage
    <3>1. Head(ctl) \in Message
      BY <2>2, HeadTailProperties DEF HandleControlMessage, IndInv, TypeOK
    <3> QED
      BY <2>2, <3>1 DEF HandleControlMessage, Message
  <2> QED
    BY <2>1, <2>2
<1> QED
  BY <1>1, PerformKeepsDown DEF StepKeepsDown, DownInv, KeepsDown

(* Reap() restarts a service only if no stop has marked it. *)
LEMMA ReapKeepsDown ==
  ASSUME IndInv, DownInv, NEW s \in Service, Reap(s)
  PROVE  StepKeepsDown
<1>0. /\ s \in Slot /\ Service \subseteq Slot
      /\ flags \in [Slot -> SUBSET Flag] /\ pid \in [Slot -> Pid \cup {NoPid}]
      /\ NoPid \notin Pid
  BY ConstantsAssumption DEF IndInv, TypeOK, Slot
<1>1. Running(s)
  <2>1. reaping \in Pid /\ pid[s] = reaping
    BY DEF IndInv, ReapInProgress, Reap, At
  <2> QED
    BY <1>0, <2>1 DEF IndInv, PidsTrackChildren
<1>2. /\ want' = want
      /\ pid' = [pid EXCEPT ![s] = NoPid]
  BY DEF Reap
<1> DEFINE f == FlagsAtExit(flags[s])
           h == (f \ {"RESTART"}) \cup {"RESTARTING"}
<1>3. \/ flags' = [flags EXCEPT ![s] = f]
      \/ f \cap {"DISABLED", "RESET"} = {} /\ flags' = [flags EXCEPT ![s] = h]
  BY DEF Reap
<1>4. \A r \in Service : KeepsDown(r)
  <2> SUFFICES ASSUME NEW r \in Service PROVE KeepsDown(r)
    OBVIOUS
  <2>0. DownOK(r)
    BY DEF DownInv
  <2>1. CASE r # s
    <3>1. flags'[r] = flags[r] /\ pid'[r] = pid[r]
      BY <1>0, <1>2, <1>3, <2>1
    <3> QED
      BY <1>2, <2>0, <3>1, UntouchedKeepsDown
  <2>2. CASE r = s
    <3>1. pid'[s] = NoPid
      BY <1>0, <1>2
    <3>2. CASE want[s] = "down"
      <4>1. "RESTARTING" \notin flags[s] /\ flags[s] \cap {"DISABLED", "RESET"} # {}
        BY <1>1, <2>0, <2>2, <3>2 DEF DownOK
      <4>2. f \cap {"DISABLED", "RESET"} # {} /\ "RESTARTING" \notin f /\ "RUNNING" \notin f
        BY <4>1 DEF FlagsAtExit
      <4>3. flags'[s] = f
        BY <1>0, <1>3, <4>2
      <4> QED
        BY <2>2, <3>1, <4>2, <4>3 DEF KeepsDown, DownOK, Running
    <3>3. CASE want[s] # "down"
      BY <1>2, <2>2, <3>3 DEF KeepsDown, DownOK
    <3> QED
      BY <3>2, <3>3
  <2> QED
    BY <2>1, <2>2
<1> QED
  BY <1>4 DEF StepKeepsDown, DownInv, KeepsDown

(* The steps on temporary services, and a shutdown, which takes SVC_EXEC away. *)
LEMMA OthersKeepDown ==
  ASSUME IndInv, DownInv,
         CheckShutdown \/ ExecTemporary \/ \E s \in Temp : ReapTemporary(s)
  PROVE  StepKeepsDown
<1>0. /\ Service \subseteq Slot /\ Service \cap Temp = {}
      /\ flags \in [Slot -> SUBSET Flag] /\ pid \in [Slot -> Pid \cup {NoPid}]
  BY ConstantsAssumption DEF IndInv, TypeOK, Slot
<1>1. UNCHANGED want
  BY DEF CheckShutdown, ExecTemporary, ReapTemporary
<1>2. \A r \in Service : pid'[r] = pid[r] /\ flags'[r] \in {flags[r], flags[r] \ {"EXEC"}}
  <2>1. CASE CheckShutdown
    BY <1>0, <2>1 DEF CheckShutdown
  <2>2. CASE ExecTemporary
    BY <1>0, <2>2 DEF ExecTemporary
  <2>3. CASE \E s \in Temp : ReapTemporary(s)
    BY <1>0, <2>3 DEF ReapTemporary
  <2> QED
    BY <2>1, <2>2, <2>3
<1>3. \A r \in Service : KeepsDown(r)
  BY <1>1, <1>2 DEF DownInv, DownOK, KeepsDown, Running
<1> QED
  BY <1>3 DEF StepKeepsDown, DownInv, KeepsDown

(* The steps that change no service. *)
LEMMA LoopKeepsDown ==
  ASSUME IndInv, DownInv, UNCHANGED <<flags, pid, want>>
  PROVE  StepKeepsDown
BY DEF StepKeepsDown, DownInv, DownOK, KeepsDown, Running

LEMMA DownStep == IndInv /\ DownInv /\ [Next]_vars => StepKeepsDown
<1> SUFFICES ASSUME IndInv, DownInv, [Next]_vars PROVE StepKeepsDown
  OBVIOUS
<1>1. CASE RunOp \/ HandleControlMessage
  BY <1>1, OperationsKeepDown
<1>2. CASE \E s \in Service : Reap(s)
  BY <1>2, ReapKeepsDown
<1>3. CASE CheckShutdown \/ ExecTemporary \/ \E s \in Temp : ReapTemporary(s)
  BY <1>3, OthersKeepDown
<1>4. CASE \/ SkipCommand \/ ExecuteCommand \/ PerformApexConfig \/ Reboot
           \/ HandleProcessActions \/ EpollWait \/ FindZombie \/ NoZombie \/ ReapUntracked
           \/ WaitPid \/ NoControlMessage \/ Environment \/ UNCHANGED vars
  <2>1. UNCHANGED <<flags, pid, want>>
    BY <1>4 DEF SkipCommand, ExecuteCommand, PerformApexConfig, Reboot, HandleProcessActions,
       EpollWait, FindZombie, NoZombie, ReapUntracked, WaitPid, NoControlMessage, Environment,
       Exit, Stranger, Elapse, SendControl, vars, svcVars
  <2> QED
    BY <2>1, LoopKeepsDown
<1> QED
  BY <1>1, <1>2, <1>3, <1>4 DEF Next, MainThread, Halted

(* A service that was last asked to stop, or never asked for, is not started   *)
(* by the restart timer, by Reap() or by anything else init does on its own,   *)
(* for any services, commands, onrestart lists and schedules.                  *)
THEOREM StoppedServicesStayDown == Spec => StoppedStaysDown
<1>1. Init => DownInv
  <2> SUFFICES ASSUME Init PROVE DownInv
    OBVIOUS
  <2>1. \A s \in Service : "RESTARTING" \notin flags[s] /\ "RUNNING" \notin flags[s]
    BY ConstantsAssumption DEF Init, Slot
  <2> QED
    BY <2>1 DEF DownInv, DownOK, Running
<1>2. IndInv /\ DownInv /\ [Next]_vars => DownInv'
  BY DownStep DEF StepKeepsDown
<1>3. IndInv /\ DownInv /\ [Next]_vars =>
        [\A s \in Service :
           pid[s] = NoPid /\ pid'[s] # NoPid => want'[s] # "down"]_vars
  BY DownStep DEF StepKeepsDown, KeepsDown
<1> QED
  BY <1>1, <1>2, <1>3, Invariance, PTL DEF Spec, StoppedStaysDown
=============================================================================
