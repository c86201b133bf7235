------------------------- MODULE InitShutdownProofs -------------------------
(***************************************************************************)
(* Proofs about InitShutdown for any services, requests and failures:        *)
(* types, that the reboot monitor is paused and resumed in step with the     *)
(* reboot (MonitorInStep), and that a userspace reboot resumes over services *)
(* that are all down (CleanResume).                                         *)
(***************************************************************************)
EXTENDS InitShutdown, SequenceTheorems, TLAPS

-----------------------------------------------------------------------------
(* The invariant *)

(* TypeOK in parts: the flags, the queue and the rest. *)
FlagsOK ==
  /\ supported \in BOOLEAN /\ accept_messages \in BOOLEAN /\ do_shutdown \in BOOLEAN
  /\ shutting_down \in BOOLEAN /\ waiting \in BOOLEAN /\ exec \in BOOLEAN
  /\ in_progress \in BOOLEAN /\ boot_completed \in BOOLEAN
  /\ monitor_run \in BOOLEAN /\ unguarded \in BOOLEAN

QueueOK ==
  /\ events \in Seq(Actions) /\ executing \in Seq(Actions)
  /\ current_command \in Nat
  /\ executing = << >> => current_command = 0
  /\ executing # << >> => current_command < NumCommands(Head(executing))

StepsOK ==
  /\ device \in {"up", "off"}
  /\ shutdown_command \in Requests \cup {"none", "reboot"} /\ taken \in Requests \cup {"none", "reboot"}
  /\ main \in LoopSteps \cup RebootSteps \cup UserspaceSteps \cup {"hung", "reboot_system"}

ServicesOK ==
  /\ proc \in [Service -> {"none", "up", "dead"}]
  /\ stop_first \subseteq Service /\ were_enabled \subseteq Service
  /\ killed \subseteq Service /\ disabled \subseteq Service /\ restarting \subseteq Service

CountsOK ==
  /\ watchdog \in [1..MaxRequests -> {"none", "start", "boot", "over"}]
  /\ requests \in 0..MaxRequests /\ faults \in 0..MaxFaults

(* DoUserspaceReboot() is the only command of its action, so that its return   *)
(* leaves no command behind.                                                 *)
ReturnsClean == main \in UserspaceSteps => current_command = 0

(***************************************************************************)
(* The posts of the semaphore: each toggles the monitor between waiting and  *)
(* timing, so its state and the parity of the posts that it has not seen     *)
(* yet together tell whether the clock is meant to run.  The bounds are the  *)
(* posts of each step of DoReboot().                                        *)
(***************************************************************************)
PostsCounted ==
  /\ monitor \in {"none", "wait", "timed", "over"} /\ sem \in 0..4
  /\ main \in RebootSteps =>
       /\ monitor_run = TRUE
       /\ monitor \in {"wait", "timed"}
       /\ sem <= (IF main = "fsck" THEN 2 ELSE IF main = "reboot_end" THEN 3 ELSE 1)
       /\ (main # "fsck") <=> ((monitor = "timed") <=> sem \in {0, 2})

Inv == FlagsOK /\ QueueOK /\ StepsOK /\ ServicesOK /\ CountsOK /\ ReturnsClean /\ PostsCounted

LEMMA TypeParts == Inv => TypeOK
<1> SUFFICES ASSUME Inv PROVE TypeOK
  OBVIOUS
<1>1. {supported, accept_messages, do_shutdown, shutting_down, waiting, exec, in_progress, boot_completed,
       monitor_run, unguarded} \subseteq BOOLEAN
  BY DEF Inv, FlagsOK
<1>2. current_command \in 0..(IF executing = << >> THEN 0 ELSE NumCommands(Head(executing)) - 1)
  BY DEF Inv, QueueOK, NumCommands
<1> QED
  BY <1>1, <1>2 DEF TypeOK, Inv, StepsOK, ServicesOK, CountsOK, QueueOK, PostsCounted

LEMMA InitInv == Init => Inv
<1> SUFFICES ASSUME Init PROVE Inv
  OBVIOUS
<1>1. FlagsOK
  BY Zenon DEF Init, FlagsOK
<1>2. QueueOK
  BY DEF Init, QueueOK, Actions, NumCommands
<1>3. StepsOK /\ ServicesOK /\ CountsOK /\ ReturnsClean /\ PostsCounted
  BY BoundsAssumption DEF Init, StepsOK, ServicesOK, CountsOK, ReturnsClean, PostsCounted, LoopSteps, RebootSteps, UserspaceSteps
<1> QED
  BY <1>1, <1>2, <1>3 DEF Inv

(* Calls that fail or hang are counted. *)
LEMMA FaultCounted ==
  ASSUME faults \in 0..MaxFaults, NEW sites, NEW site, Fault(sites, site)
  PROVE  faults' \in 0..MaxFaults
BY BoundsAssumption DEF Fault

(* The flags stay Boolean. *)
LEMMA FlagsKept ==
  ASSUME FlagsOK, [Next]_vars
  PROVE  FlagsOK'
<1> USE DEF FlagsOK, request, asked, mode, waits, queue, props, lists, services, monitoring, guard
<1>1. CASE \E c \in Requests : SetPowerctl(c)
  BY <1>1, Zenon DEF SetPowerctl
<1>2. CASE AwaitedPropertySet
  BY <1>2, Zenon DEF AwaitedPropertySet
<1>3. CASE BootCompletes
  BY <1>3, Zenon DEF BootCompletes
<1>4. CASE \E s \in Service : Dies(s)
  BY <1>4, Zenon DEF Dies, Fault, NoFault
<1>5. CASE \E s \in Service : Reap(s)
  BY <1>5, Zenon DEF Reap, Reaping
<1>6. CASE ReapExec
  BY <1>6, Zenon DEF ReapExec
<1>7. CASE CheckShutdown
  BY <1>7, Zenon DEF CheckShutdown
<1>8. CASE HandlePowerctlMessage
  BY <1>8, Zenon DEF HandlePowerctlMessage, ReturnEarly, HandleUserspaceReboot, ClearQueueAndQueue, EnterShutdown, Fault, NoFault
<1>9. CASE ExecuteOneCommand
  BY <1>9, ZenonT(40) DEF ExecuteOneCommand, NextAction, Executed, InvokeFunc, Start, Executing, DoReboot, DoUserspaceReboot, Fault, NoFault
<1>10. CASE HandleProcessActions
  BY <1>10, Zenon DEF HandleProcessActions, Start
<1>11. CASE EpollReturns
  BY <1>11, Zenon DEF EpollReturns
<1>12. CASE ResetPowerctl
  BY <1>12, Zenon DEF ResetPowerctl, Call, EnterShutdown, Fault, NoFault
<1>13. CASE TerminatePostData
  BY <1>13, Zenon DEF TerminatePostData, Terminate, Started
<1>14. CASE KillPostData
  BY <1>14, Zenon DEF KillPostData, Stop, Started
<1>15. CASE PostDataKilled
  BY <1>15, Zenon DEF PostDataKilled, StillRunning, Started, Fault, NoFault
<1>16. CASE ResetVolumes
  BY <1>16, Zenon DEF ResetVolumes, Call, Fault, NoFault
<1>17. CASE KillDebugging
  BY <1>17, Zenon DEF KillDebugging, Stop, Started
<1>18. CASE DebuggingKilled
  BY <1>18, Zenon DEF DebuggingKilled, StillRunning, Started, Fault, NoFault
<1>19. CASE UnmountAllApexes
  BY <1>19, Zenon DEF UnmountAllApexes, Call, Fault, NoFault
<1>20. CASE Resume
  BY <1>20, Zenon DEF Resume, LeaveShutdown, Return
<1>21. CASE LeaveAfterFailure
  BY <1>21, Zenon DEF LeaveAfterFailure, LeaveShutdown
<1>22. CASE TriggerFullReboot
  BY <1>22, Zenon DEF TriggerFullReboot, Return
<1>23. CASE TerminateServices
  BY <1>23, Zenon DEF TerminateServices, Started
<1>24. CASE KillServices
  BY <1>24, Zenon DEF KillServices, Stop, Started
<1>25. CASE ShutdownVold
  BY <1>25, Zenon DEF ShutdownVold, Stop, Started, Fault, NoFault
<1>26. CASE SyncAndUnmountApexes
  BY <1>26, Zenon DEF SyncAndUnmountApexes, CallLogged, Fault, NoFault
<1>27. CASE TryUmount
  BY <1>27, Zenon DEF TryUmount, CallLogged, Fault, NoFault
<1>28. CASE Fsck
  BY <1>28, Zenon DEF Fsck, CallLogged, Fault, NoFault
<1>29. CASE EndMonitor
  BY <1>29, Zenon DEF EndMonitor, CallLogged, Fault, NoFault
<1>30. CASE RebootSystem
  BY <1>30, Zenon DEF RebootSystem
<1>31. CASE RebootMonitorThread
  BY <1>31, Zenon DEF RebootMonitorThread
<1>32. CASE \E n \in DOMAIN watchdog : UserspaceRebootWatchdogThread(n)
  BY <1>32, Zenon DEF UserspaceRebootWatchdogThread
<1>33. CASE UNCHANGED vars
  BY <1>33, Zenon DEF vars
<1> QED
  BY <1>1, <1>2, <1>3, <1>4, <1>5, <1>6, <1>7, <1>8, <1>9, <1>10, <1>11,
     <1>12, <1>13, <1>14, <1>15, <1>16, <1>17, <1>18, <1>19, <1>20, <1>21, <1>22,
     <1>23, <1>24, <1>25, <1>26, <1>27, <1>28, <1>29, <1>30, <1>31, <1>32, <1>33, Zenon
  DEF Next, Loop, UserspaceReboot, FullReboot

(* The main thread is where the code has a step. *)
LEMMA StepsKept ==
  ASSUME StepsOK, [Next]_vars
  PROVE  StepsOK'
<1> USE DEF StepsOK, LoopSteps, RebootSteps, UserspaceSteps, request, asked, mode, waits, queue, props, lists, services, monitoring, guard
<1>1. CASE \E c \in Requests : SetPowerctl(c)
  BY <1>1 DEF SetPowerctl
<1>2. CASE AwaitedPropertySet
  BY <1>2 DEF AwaitedPropertySet
<1>3. CASE BootCompletes
  BY <1>3 DEF BootCompletes
<1>4. CASE \E s \in Service : Dies(s)
  BY <1>4 DEF Dies, Fault, NoFault
<1>5. CASE \E s \in Service : Reap(s)
  BY <1>5 DEF Reap, Reaping
<1>6. CASE ReapExec
  BY <1>6 DEF ReapExec
<1>7. CASE CheckShutdown
  BY <1>7 DEF CheckShutdown
<1>8. CASE HandlePowerctlMessage
  BY <1>8 DEF HandlePowerctlMessage, ReturnEarly, HandleUserspaceReboot, ClearQueueAndQueue, EnterShutdown, Fault, NoFault
<1>9. CASE ExecuteOneCommand
  BY <1>9 DEF ExecuteOneCommand, NextAction, Executed, InvokeFunc, Start, Executing, DoReboot, DoUserspaceReboot, Fault, NoFault
<1>10. CASE HandleProcessActions
  BY <1>10 DEF HandleProcessActions, Start
<1>11. CASE EpollReturns
  BY <1>11 DEF EpollReturns
<1>12. CASE ResetPowerctl
  BY <1>12 DEF ResetPowerctl, Call, EnterShutdown, Fault, NoFault
<1>13. CASE TerminatePostData
  BY <1>13 DEF TerminatePostData, Terminate, Started
<1>14. CASE KillPostData
  BY <1>14 DEF KillPostData, Stop, Started
<1>15. CASE PostDataKilled
  BY <1>15 DEF PostDataKilled, StillRunning, Started, Fault, NoFault
<1>16. CASE ResetVolumes
  BY <1>16 DEF ResetVolumes, Call, Fault, NoFault
<1>17. CASE KillDebugging
  BY <1>17 DEF KillDebugging, Stop, Started
<1>18. CASE DebuggingKilled
  BY <1>18 DEF DebuggingKilled, StillRunning, Started, Fault, NoFault
<1>19. CASE UnmountAllApexes
  BY <1>19 DEF UnmountAllApexes, Call, Fault, NoFault
<1>20. CASE Resume
  BY <1>20 DEF Resume, LeaveShutdown, Return
<1>21. CASE LeaveAfterFailure
  BY <1>21 DEF LeaveAfterFailure, LeaveShutdown
<1>22. CASE TriggerFullReboot
  BY <1>22 DEF TriggerFullReboot, Return
<1>23. CASE TerminateServices
  BY <1>23 DEF TerminateServices, Started
<1>24. CASE KillServices
  BY <1>24 DEF KillServices, Stop, Started
<1>25. CASE ShutdownVold
  BY <1>25 DEF ShutdownVold, Stop, Started, Fault, NoFault
<1>26. CASE SyncAndUnmountApexes
  BY <1>26 DEF SyncAndUnmountApexes, CallLogged, Fault, NoFault
<1>27. CASE TryUmount
  BY <1>27 DEF TryUmount, CallLogged, Fault, NoFault
<1>28. CASE Fsck
  BY <1>28 DEF Fsck, CallLogged, Fault, NoFault
<1>29. CASE EndMonitor
  BY <1>29 DEF EndMonitor, CallLogged, Fault, NoFault
<1>30. CASE RebootSystem
  BY <1>30 DEF RebootSystem
<1>31. CASE RebootMonitorThread
  BY <1>31 DEF RebootMonitorThread
<1>32. CASE \E n \in DOMAIN watchdog : UserspaceRebootWatchdogThread(n)
  BY <1>32 DEF UserspaceRebootWatchdogThread
<1>33. CASE UNCHANGED vars
  BY <1>33 DEF vars
<1> QED
  BY <1>1, <1>2, <1>3, <1>4, <1>5, <1>6, <1>7, <1>8, <1>9, <1>10, <1>11,
     <1>12, <1>13, <1>14, <1>15, <1>16, <1>17, <1>18, <1>19, <1>20, <1>21, <1>22,
     <1>23, <1>24, <1>25, <1>26, <1>27, <1>28, <1>29, <1>30, <1>31, <1>32, <1>33, Zenon
  DEF Next, Loop, UserspaceReboot, FullReboot

(* The sets of services. *)
LEMMA ServicesKept ==
  ASSUME ServicesOK, [Next]_vars
  PROVE  ServicesOK'
<1> USE DEF ServicesOK, request, asked, mode, waits, queue, props, lists, services, monitoring, guard
<1>1. CASE \E c \in Requests : SetPowerctl(c)
  BY <1>1 DEF SetPowerctl
<1>2. CASE AwaitedPropertySet
  BY <1>2 DEF AwaitedPropertySet
<1>3. CASE BootCompletes
  BY <1>3 DEF BootCompletes
<1>4. CASE \E s \in Service : Dies(s)
  BY <1>4 DEF Dies, Fault, NoFault
<1>5. CASE \E s \in Service : Reap(s)
  <2>1. PICK s \in Service : Reap(s)
    BY <1>5
  <2> DEFINE others == IF s \in disabled THEN {} ELSE OnRestart[s] \ {s}
             running == {t \in others : proc[t] # "none"}
             started == {t \in others : proc[t] = "none" /\ t \notin restarting}
  <2>2. /\ proc' = [t \in Service |-> IF t = s THEN "none" ELSE IF t \in started THEN "up" ELSE proc[t]]
        /\ killed' = (killed \ {s}) \cup {t \in running : proc[t] = "up"}
        /\ disabled' = disabled \ (running \cup started)
        /\ restarting' = (restarting \ running) \cup ({s} \ disabled)
        /\ UNCHANGED lists
    BY <2>1 DEF Reap
  <2>3. running \subseteq Service
    BY ServicesAssumption
  <2> HIDE DEF others, running, started
  <2> QED
    BY <2>2, <2>3
<1>6. CASE ReapExec
  BY <1>6 DEF ReapExec
<1>7. CASE CheckShutdown
  BY <1>7 DEF CheckShutdown
<1>8. CASE HandlePowerctlMessage
  BY <1>8 DEF HandlePowerctlMessage, ReturnEarly, HandleUserspaceReboot, ClearQueueAndQueue, EnterShutdown, Fault, NoFault
<1>9. CASE ExecuteOneCommand
  BY <1>9 DEF ExecuteOneCommand, NextAction, Executed, InvokeFunc, Start, Executing, DoReboot, DoUserspaceReboot, Fault, NoFault
<1>10. CASE HandleProcessActions
  BY <1>10 DEF HandleProcessActions, Start
<1>11. CASE EpollReturns
  BY <1>11 DEF EpollReturns
<1>12. CASE ResetPowerctl
  BY <1>12 DEF ResetPowerctl, Call, EnterShutdown, Fault, NoFault
<1>13. CASE TerminatePostData
  BY <1>13 DEF TerminatePostData, Terminate, Started
<1>14. CASE KillPostData
  BY <1>14 DEF KillPostData, Stop, Started
<1>15. CASE PostDataKilled
  BY <1>15 DEF PostDataKilled, StillRunning, Started, Fault, NoFault
<1>16. CASE ResetVolumes
  BY <1>16 DEF ResetVolumes, Call, Fault, NoFault
<1>17. CASE KillDebugging
  BY <1>17 DEF KillDebugging, Stop, Started
<1>18. CASE DebuggingKilled
  BY <1>18 DEF DebuggingKilled, StillRunning, Started, Fault, NoFault
<1>19. CASE UnmountAllApexes
  BY <1>19 DEF UnmountAllApexes, Call, Fault, NoFault
<1>20. CASE Resume
  BY <1>20 DEF Resume, LeaveShutdown, Return
<1>21. CASE LeaveAfterFailure
  BY <1>21 DEF LeaveAfterFailure, LeaveShutdown
<1>22. CASE TriggerFullReboot
  BY <1>22 DEF TriggerFullReboot, Return
<1>23. CASE TerminateServices
  BY <1>23 DEF TerminateServices, Started
<1>24. CASE KillServices
  BY <1>24 DEF KillServices, Stop, Started
<1>25. CASE ShutdownVold
  BY <1>25 DEF ShutdownVold, Stop, Started, Fault, NoFault
<1>26. CASE SyncAndUnmountApexes
  BY <1>26 DEF SyncAndUnmountApexes, CallLogged, Fault, NoFault
<1>27. CASE TryUmount
  BY <1>27 DEF TryUmount, CallLogged, Fault, NoFault
<1>28. CASE Fsck
  BY <1>28 DEF Fsck, CallLogged, Fault, NoFault
<1>29. CASE EndMonitor
  BY <1>29 DEF EndMonitor, CallLogged, Fault, NoFault
<1>30. CASE RebootSystem
  BY <1>30 DEF RebootSystem
<1>31. CASE RebootMonitorThread
  BY <1>31 DEF RebootMonitorThread
<1>32. CASE \E n \in DOMAIN watchdog : UserspaceRebootWatchdogThread(n)
  BY <1>32 DEF UserspaceRebootWatchdogThread
<1>33. CASE UNCHANGED vars
  BY <1>33 DEF vars
<1> QED
  BY <1>1, <1>2, <1>3, <1>4, <1>5, <1>6, <1>7, <1>8, <1>9, <1>10, <1>11,
     <1>12, <1>13, <1>14, <1>15, <1>16, <1>17, <1>18, <1>19, <1>20, <1>21, <1>22,
     <1>23, <1>24, <1>25, <1>26, <1>27, <1>28, <1>29, <1>30, <1>31, <1>32, <1>33, Zenon
  DEF Next, Loop, UserspaceReboot, FullReboot

(* The counters stay within their bounds. *)
LEMMA CountsKept ==
  ASSUME CountsOK, [Next]_vars
  PROVE  CountsOK'
<1> USE DEF CountsOK, request, asked, mode, waits, queue, props, lists, services, monitoring, guard
<1>1. CASE \E c \in Requests : SetPowerctl(c)
  BY <1>1, FaultCounted, BoundsAssumption DEF SetPowerctl
<1>2. CASE AwaitedPropertySet
  BY <1>2, FaultCounted, BoundsAssumption DEF AwaitedPropertySet
<1>3. CASE BootCompletes
  BY <1>3, FaultCounted, BoundsAssumption DEF BootCompletes
<1>4. CASE \E s \in Service : Dies(s)
  BY <1>4, FaultCounted, BoundsAssumption DEF Dies, NoFault
<1>5. CASE \E s \in Service : Reap(s)
  BY <1>5, FaultCounted, BoundsAssumption DEF Reap, Reaping
<1>6. CASE ReapExec
  BY <1>6, FaultCounted, BoundsAssumption DEF ReapExec
<1>7. CASE CheckShutdown
  BY <1>7, FaultCounted, BoundsAssumption DEF CheckShutdown
<1>8. CASE HandlePowerctlMessage
  BY <1>8, FaultCounted, BoundsAssumption DEF HandlePowerctlMessage, ReturnEarly, HandleUserspaceReboot, ClearQueueAndQueue, EnterShutdown, NoFault
<1>9. CASE ExecuteOneCommand
  BY <1>9, FaultCounted, BoundsAssumption DEF ExecuteOneCommand, NextAction, Executed, InvokeFunc, Start, Executing, DoReboot, DoUserspaceReboot, NoFault
<1>10. CASE HandleProcessActions
  BY <1>10, FaultCounted, BoundsAssumption DEF HandleProcessActions, Start
<1>11. CASE EpollReturns
  BY <1>11, FaultCounted, BoundsAssumption DEF EpollReturns
<1>12. CASE ResetPowerctl
  BY <1>12, FaultCounted, BoundsAssumption DEF ResetPowerctl, Call, EnterShutdown, NoFault
<1>13. CASE TerminatePostData
  BY <1>13, FaultCounted, BoundsAssumption DEF TerminatePostData, Terminate, Started
<1>14. CASE KillPostData
  BY <1>14, FaultCounted, BoundsAssumption DEF KillPostData, Stop, Started
<1>15. CASE PostDataKilled
  BY <1>15, FaultCounted, BoundsAssumption DEF PostDataKilled, StillRunning, Started, NoFault
<1>16. CASE ResetVolumes
  BY <1>16, FaultCounted, BoundsAssumption DEF ResetVolumes, Call, NoFault
<1>17. CASE KillDebugging
  BY <1>17, FaultCounted, BoundsAssumption DEF KillDebugging, Stop, Started
<1>18. CASE DebuggingKilled
  BY <1>18, FaultCounted, BoundsAssumption DEF DebuggingKilled, StillRunning, Started, NoFault
<1>19. CASE UnmountAllApexes
  BY <1>19, FaultCounted, BoundsAssumption DEF UnmountAllApexes, Call, NoFault
<1>20. CASE Resume
  BY <1>20, FaultCounted, BoundsAssumption DEF Resume, LeaveShutdown, Return
<1>21. CASE LeaveAfterFailure
  BY <1>21, FaultCounted, BoundsAssumption DEF LeaveAfterFailure, LeaveShutdown
<1>22. CASE TriggerFullReboot
  BY <1>22, FaultCounted, BoundsAssumption DEF TriggerFullReboot, Return
<1>23. CASE TerminateServices
  BY <1>23, FaultCounted, BoundsAssumption DEF TerminateServices, Started
<1>24. CASE KillServices
  BY <1>24, FaultCounted, BoundsAssumption DEF KillServices, Stop, Started
<1>25. CASE ShutdownVold
  BY <1>25, FaultCounted, BoundsAssumption DEF ShutdownVold, Stop, Started, NoFault
<1>26. CASE SyncAndUnmountApexes
  BY <1>26, FaultCounted, BoundsAssumption DEF SyncAndUnmountApexes, CallLogged, NoFault
<1>27. CASE TryUmount
  BY <1>27, FaultCounted, BoundsAssumption DEF TryUmount, CallLogged, NoFault
<1>28. CASE Fsck
  BY <1>28, FaultCounted, BoundsAssumption DEF Fsck, CallLogged, NoFault
<1>29. CASE EndMonitor
  BY <1>29, FaultCounted, BoundsAssumption DEF EndMonitor, CallLogged, NoFault
<1>30. CASE RebootSystem
  BY <1>30, FaultCounted, BoundsAssumption DEF RebootSystem
<1>31. CASE RebootMonitorThread
  BY <1>31, FaultCounted, BoundsAssumption DEF RebootMonitorThread
<1>32. CASE \E n \in DOMAIN watchdog : UserspaceRebootWatchdogThread(n)
  BY <1>32, FaultCounted, BoundsAssumption DEF UserspaceRebootWatchdogThread
<1>33. CASE UNCHANGED vars
  BY <1>33 DEF vars
<1> QED
  BY <1>1, <1>2, <1>3, <1>4, <1>5, <1>6, <1>7, <1>8, <1>9, <1>10, <1>11,
     <1>12, <1>13, <1>14, <1>15, <1>16, <1>17, <1>18, <1>19, <1>20, <1>21, <1>22,
     <1>23, <1>24, <1>25, <1>26, <1>27, <1>28, <1>29, <1>30, <1>31, <1>32, <1>33, Zenon
  DEF Next, Loop, UserspaceReboot, FullReboot

(* Posts come in pairs: one pauses the monitor, the next resumes it. *)
LEMMA PostsKept ==
  ASSUME PostsCounted, StepsOK, [Next]_vars
  PROVE  PostsCounted'
<1> USE DEF PostsCounted, LoopSteps, RebootSteps, UserspaceSteps, request, asked, mode, waits, queue, props, lists, services, monitoring, guard
<1>1. CASE \E c \in Requests : SetPowerctl(c)
  BY <1>1 DEF SetPowerctl
<1>2. CASE AwaitedPropertySet
  BY <1>2 DEF AwaitedPropertySet
<1>3. CASE BootCompletes
  BY <1>3 DEF BootCompletes
<1>4. CASE \E s \in Service : Dies(s)
  BY <1>4 DEF Dies, NoFault
<1>5. CASE \E s \in Service : Reap(s)
  BY <1>5 DEF Reap, Reaping
<1>6. CASE ReapExec
  BY <1>6 DEF ReapExec
<1>7. CASE CheckShutdown
  BY <1>7 DEF CheckShutdown
<1>8. CASE HandlePowerctlMessage
  BY <1>8 DEF HandlePowerctlMessage, ReturnEarly, HandleUserspaceReboot, ClearQueueAndQueue, EnterShutdown, NoFault
<1>9. CASE ExecuteOneCommand
  BY <1>9 DEF ExecuteOneCommand, NextAction, Executed, InvokeFunc, Start, Executing, DoReboot, DoUserspaceReboot, NoFault
<1>10. CASE HandleProcessActions
  BY <1>10 DEF HandleProcessActions, Start
<1>11. CASE EpollReturns
  BY <1>11 DEF EpollReturns
<1>12. CASE ResetPowerctl
  BY <1>12 DEF ResetPowerctl, Call, EnterShutdown, NoFault
<1>13. CASE TerminatePostData
  BY <1>13 DEF TerminatePostData, Terminate, Started
<1>14. CASE KillPostData
  BY <1>14 DEF KillPostData, Stop, Started
<1>15. CASE PostDataKilled
  BY <1>15 DEF PostDataKilled, StillRunning, Started, NoFault
<1>16. CASE ResetVolumes
  BY <1>16 DEF ResetVolumes, Call, NoFault
<1>17. CASE KillDebugging
  BY <1>17 DEF KillDebugging, Stop, Started
<1>18. CASE DebuggingKilled
  BY <1>18 DEF DebuggingKilled, StillRunning, Started, NoFault
<1>19. CASE UnmountAllApexes
  BY <1>19 DEF UnmountAllApexes, Call, NoFault
<1>20. CASE Resume
  BY <1>20 DEF Resume, LeaveShutdown, Return
<1>21. CASE LeaveAfterFailure
  BY <1>21 DEF LeaveAfterFailure, LeaveShutdown
<1>22. CASE TriggerFullReboot
  BY <1>22 DEF TriggerFullReboot, Return
<1>23. CASE TerminateServices
  BY <1>23 DEF TerminateServices, Started
<1>24. CASE KillServices
  BY <1>24 DEF KillServices, Stop, Started
<1>25. CASE ShutdownVold
  BY <1>25 DEF ShutdownVold, Stop, Started, NoFault
<1>26. CASE SyncAndUnmountApexes
  BY <1>26 DEF SyncAndUnmountApexes, CallLogged, NoFault
<1>27. CASE TryUmount
  <2>1. main = "reboot_umount" /\ UNCHANGED <<monitor, monitor_run>>
    BY <1>27 DEF TryUmount, CallLogged
  <2>2. sem \in 0..1 /\ ((monitor = "timed") <=> sem \in {0, 2})
    BY <2>1
  <2>3. \/ main' = "fsck" /\ sem' = sem + 1
        \/ main' \in {"reboot_end", "hung"} /\ sem' = sem
    BY <1>27 DEF TryUmount, CallLogged
  <2>4. CASE main' = "fsck" /\ sem' = sem + 1
    BY <2>1, <2>2, <2>4
  <2>5. CASE main' \in {"reboot_end", "hung"} /\ sem' = sem
    BY <2>1, <2>2, <2>5
  <2> QED
    BY <2>3, <2>4, <2>5
<1>28. CASE Fsck
  BY <1>28 DEF Fsck, CallLogged, NoFault
<1>29. CASE EndMonitor
  <2>1. main = "reboot_end" /\ sem \in 0..3
    BY <1>29 DEF EndMonitor, CallLogged
  <2>2. monitor' = monitor /\ main' \in {"hung", "reboot_system"} /\ sem' \in {sem, sem + 1}
    BY <1>29 DEF EndMonitor, CallLogged
  <2> QED
    BY <2>1, <2>2
<1>30. CASE RebootSystem
  BY <1>30 DEF RebootSystem
<1>31. CASE RebootMonitorThread
  BY <1>31 DEF RebootMonitorThread
<1>32. CASE \E n \in DOMAIN watchdog : UserspaceRebootWatchdogThread(n)
  BY <1>32 DEF UserspaceRebootWatchdogThread
<1>33. CASE UNCHANGED vars
  BY <1>33 DEF vars
<1> QED
  BY <1>1, <1>2, <1>3, <1>4, <1>5, <1>6, <1>7, <1>8, <1>9, <1>10, <1>11,
     <1>12, <1>13, <1>14, <1>15, <1>16, <1>17, <1>18, <1>19, <1>20, <1>21, <1>22,
     <1>23, <1>24, <1>25, <1>26, <1>27, <1>28, <1>29, <1>30, <1>31, <1>32, <1>33, Zenon
  DEF Next, Loop, UserspaceReboot, FullReboot

(* What one command of an action does to the queue. *)
LEMMA ExecutedKeepsQueue ==
  ASSUME QueueOK, ~(executing = << >> /\ events = << >>), Executed(NextAction)
  PROVE  QueueOK'
<1> DEFINE a == NextAction
           running == IF executing # << >> THEN executing ELSE << a >>
           last == current_command + 1 = NumCommands(a)
<1>1. a \in Actions /\ a = Head(running)
  BY HeadTailProperties DEF NextAction, QueueOK
<1>2. running \in Seq(Actions) /\ running # << >>
  BY <1>1 DEF QueueOK
<1>3. events' \in Seq(Actions)
  BY HeadTailProperties DEF Executed, QueueOK
<1>4. current_command \in Nat /\ current_command < NumCommands(a) /\ NumCommands(a) \in {1, 2}
  BY <1>1 DEF QueueOK, NumCommands, NextAction
<1>5. executing' = (IF last THEN Tail(running) ELSE running)
      /\ current_command' = (IF last THEN 0 ELSE current_command + 1)
  BY DEF Executed
<1>6. CASE last
  <2>1. Tail(running) \in Seq(Actions)
    BY <1>2, HeadTailProperties
  <2>2. executing' \in Seq(Actions) /\ current_command' = 0
    BY <1>5, <1>6, <2>1
  <2> QED
    BY <1>3, <2>2 DEF QueueOK, NumCommands
<1>7. CASE ~last
  <2>1. executing' = running /\ current_command' = current_command + 1
    BY <1>5, <1>7
  <2>2. current_command + 1 < NumCommands(a)
    BY <1>4, <1>7
  <2> HIDE DEF running, a, last
  <2>3. QueueOK'
    BY <1>1, <1>2, <1>3, <1>4, <2>1, <2>2 DEF QueueOK, NumCommands
  <2> QED
    BY <2>3
<1> QED
  BY <1>6, <1>7

(* A builtin action begins, with its only command. *)
LEMMA ExecutingKeepsQueue ==
  ASSUME QueueOK, ~(executing = << >> /\ events = << >>), NextAction \in Builtins, Executing(NextAction)
  PROVE  QueueOK'
<1>1. current_command = 0 /\ current_command' = 0
  BY DEF Executing, NextAction, QueueOK, NumCommands
<1>2. events' \in Seq(Actions)
  BY HeadTailProperties DEF Executing, QueueOK
<1>3. executing' \in Seq(Actions) /\ executing' # << >> /\ Head(executing') = NextAction
  BY DEF Executing, Actions
<1> QED
  BY <1>1, <1>2, <1>3 DEF QueueOK, NumCommands

(* The action queue. *)
LEMMA QueueKept ==
  ASSUME QueueOK, ReturnsClean, [Next]_vars
  PROVE  QueueOK'
<1> USE DEF QueueOK, ReturnsClean, request, asked, mode, waits, queue, props, lists, services, monitoring, guard
<1>1. CASE \E c \in Requests : SetPowerctl(c)
  BY <1>1 DEF SetPowerctl
<1>2. CASE AwaitedPropertySet
  BY <1>2 DEF AwaitedPropertySet
<1>3. CASE BootCompletes
  <2>1. events' \in Seq(Actions)
    BY <1>3, AppendProperties DEF BootCompletes, Actions
  <2> QED
    BY <1>3, <2>1 DEF BootCompletes
<1>4. CASE \E s \in Service : Dies(s)
  BY <1>4 DEF Dies, NoFault
<1>5. CASE \E s \in Service : Reap(s)
  BY <1>5 DEF Reap, Reaping
<1>6. CASE ReapExec
  BY <1>6 DEF ReapExec
<1>7. CASE CheckShutdown
  BY <1>7 DEF CheckShutdown
<1>8. CASE HandlePowerctlMessage
  <2>1. CASE ClearQueueAndQueue(<< "userspace-reboot-requested", "userspace-reboot" >>)
    <3>1. << "userspace-reboot-requested", "userspace-reboot" >> \in Seq(Actions)
      BY DEF Actions, Builtins
    <3>2. 0 \in Nat /\ << >> \in Seq(Actions)
      OBVIOUS
    <3> QED
      BY <2>1, <3>1, <3>2, Zenon DEF ClearQueueAndQueue
  <2>2. CASE ClearQueueAndQueue(<< "shutdown", "shutdown_done" >>)
    <3>1. << "shutdown", "shutdown_done" >> \in Seq(Actions)
      BY DEF Actions, Builtins
    <3>2. 0 \in Nat /\ << >> \in Seq(Actions)
      OBVIOUS
    <3> QED
      BY <2>2, <3>1, <3>2, Zenon DEF ClearQueueAndQueue
  <2>3. CASE UNCHANGED queue
    BY <2>3
  <2> QED
    BY <1>8, <2>1, <2>2, <2>3 DEF HandlePowerctlMessage, ReturnEarly, HandleUserspaceReboot
<1>9. CASE ExecuteOneCommand
  <2>1. CASE UNCHANGED queue
    BY <2>1
  <2>2. CASE ~(executing = << >> /\ events = << >>) /\ Executed(NextAction)
    BY <2>2, ExecutedKeepsQueue
  <2>3. CASE ~(executing = << >> /\ events = << >>) /\ NextAction \in Builtins /\ Executing(NextAction)
    BY <2>3, ExecutingKeepsQueue
  <2> QED
    BY <1>9, <2>1, <2>2, <2>3 DEF ExecuteOneCommand, Builtins
<1>10. CASE HandleProcessActions
  BY <1>10 DEF HandleProcessActions, Start
<1>11. CASE EpollReturns
  BY <1>11 DEF EpollReturns
<1>12. CASE ResetPowerctl
  BY <1>12 DEF ResetPowerctl, Call, EnterShutdown, NoFault
<1>13. CASE TerminatePostData
  BY <1>13 DEF TerminatePostData, Terminate, Started
<1>14. CASE KillPostData
  BY <1>14 DEF KillPostData, Stop, Started
<1>15. CASE PostDataKilled
  BY <1>15 DEF PostDataKilled, StillRunning, Started, NoFault
<1>16. CASE ResetVolumes
  BY <1>16 DEF ResetVolumes, Call, NoFault
<1>17. CASE KillDebugging
  BY <1>17 DEF KillDebugging, Stop, Started
<1>18. CASE DebuggingKilled
  BY <1>18 DEF DebuggingKilled, StillRunning, Started, NoFault
<1>19. CASE UnmountAllApexes
  BY <1>19 DEF UnmountAllApexes, Call, NoFault
<1>20. CASE Resume
  <2>1. current_command = 0 /\ current_command' = 0 /\ executing' = << >>
    BY <1>20 DEF Resume, Return, UserspaceSteps
  <2>2. events' \in Seq(Actions)
    BY <1>20, AppendProperties DEF Resume, Return, Actions
  <2> QED
    BY <2>1, <2>2
<1>21. CASE LeaveAfterFailure
  BY <1>21 DEF LeaveAfterFailure, LeaveShutdown
<1>22. CASE TriggerFullReboot
  <2>1. current_command = 0 /\ current_command' = 0 /\ executing' = << >>
    BY <1>22 DEF TriggerFullReboot, Return, UserspaceSteps
  <2>2. events' \in Seq(Actions)
    BY <1>22, AppendProperties DEF TriggerFullReboot, Return, Actions
  <2> QED
    BY <2>1, <2>2
<1>23. CASE TerminateServices
  BY <1>23 DEF TerminateServices, Started
<1>24. CASE KillServices
  BY <1>24 DEF KillServices, Stop, Started
<1>25. CASE ShutdownVold
  BY <1>25 DEF ShutdownVold, Stop, Started, NoFault
<1>26. CASE SyncAndUnmountApexes
  BY <1>26 DEF SyncAndUnmountApexes, CallLogged, NoFault
<1>27. CASE TryUmount
  BY <1>27 DEF TryUmount, CallLogged, NoFault
<1>28. CASE Fsck
  BY <1>28 DEF Fsck, CallLogged, NoFault
<1>29. CASE EndMonitor
  BY <1>29 DEF EndMonitor, CallLogged, NoFault
<1>30. CASE RebootSystem
  BY <1>30 DEF RebootSystem
<1>31. CASE RebootMonitorThread
  BY <1>31 DEF RebootMonitorThread
<1>32. CASE \E n \in DOMAIN watchdog : UserspaceRebootWatchdogThread(n)
  BY <1>32 DEF UserspaceRebootWatchdogThread
<1>33. CASE UNCHANGED vars
  BY <1>33 DEF vars
<1> QED
  BY <1>1, <1>2, <1>3, <1>4, <1>5, <1>6, <1>7, <1>8, <1>9, <1>10, <1>11,
     <1>12, <1>13, <1>14, <1>15, <1>16, <1>17, <1>18, <1>19, <1>20, <1>21, <1>22,
     <1>23, <1>24, <1>25, <1>26, <1>27, <1>28, <1>29, <1>30, <1>31, <1>32, <1>33, Zenon
  DEF Next, Loop, UserspaceReboot, FullReboot

(* DoUserspaceReboot() begins with its command and no other runs until it returns. *)
LEMMA ReturnsKept ==
  ASSUME ReturnsClean, StepsOK, QueueOK, [Next]_vars
  PROVE  ReturnsClean'
<1> USE DEF ReturnsClean, LoopSteps, RebootSteps, UserspaceSteps, request, asked, mode, waits, queue, props, lists, services, monitoring, guard
<1>1. CASE \E c \in Requests : SetPowerctl(c)
  BY <1>1 DEF SetPowerctl
<1>2. CASE AwaitedPropertySet
  BY <1>2 DEF AwaitedPropertySet
<1>3. CASE BootCompletes
  BY <1>3 DEF BootCompletes
<1>4. CASE \E s \in Service : Dies(s)
  BY <1>4 DEF Dies, NoFault
<1>5. CASE \E s \in Service : Reap(s)
  BY <1>5 DEF Reap, Reaping
<1>6. CASE ReapExec
  BY <1>6 DEF ReapExec
<1>7. CASE CheckShutdown
  BY <1>7 DEF CheckShutdown
<1>8. CASE HandlePowerctlMessage
  BY <1>8 DEF HandlePowerctlMessage, ReturnEarly, HandleUserspaceReboot, ClearQueueAndQueue, EnterShutdown, NoFault
<1>9. CASE ExecuteOneCommand
  <2>1. main = "command"
    BY <1>9, Zenon DEF ExecuteOneCommand
  <2>2. main' \notin UserspaceSteps \/ (NextAction = "userspace-reboot" /\ Executing(NextAction)
          /\ ~(executing = << >> /\ events = << >>))
    BY <1>9 DEF ExecuteOneCommand, DoReboot, DoUserspaceReboot
  <2>3. ASSUME NextAction = "userspace-reboot", Executing(NextAction),
               ~(executing = << >> /\ events = << >>)
        PROVE  current_command' = 0
    BY <2>3 DEF Executing, NextAction, QueueOK, NumCommands, Builtins
  <2> QED
    BY <2>2, <2>3
<1>10. CASE HandleProcessActions
  BY <1>10 DEF HandleProcessActions, Start
<1>11. CASE EpollReturns
  BY <1>11 DEF EpollReturns
<1>12. CASE ResetPowerctl
  BY <1>12 DEF ResetPowerctl, Call, EnterShutdown, NoFault
<1>13. CASE TerminatePostData
  BY <1>13 DEF TerminatePostData, Terminate, Started
<1>14. CASE KillPostData
  BY <1>14 DEF KillPostData, Stop, Started
<1>15. CASE PostDataKilled
  BY <1>15 DEF PostDataKilled, StillRunning, Started, NoFault
<1>16. CASE ResetVolumes
  BY <1>16 DEF ResetVolumes, Call, NoFault
<1>17. CASE KillDebugging
  BY <1>17 DEF KillDebugging, Stop, Started
<1>18. CASE DebuggingKilled
  BY <1>18 DEF DebuggingKilled, StillRunning, Started, NoFault
<1>19. CASE UnmountAllApexes
  BY <1>19 DEF UnmountAllApexes, Call, NoFault
<1>20. CASE Resume
  BY <1>20 DEF Resume, LeaveShutdown, Return
<1>21. CASE LeaveAfterFailure
  BY <1>21 DEF LeaveAfterFailure, LeaveShutdown
<1>22. CASE TriggerFullReboot
  BY <1>22 DEF TriggerFullReboot, Return
<1>23. CASE TerminateServices
  BY <1>23 DEF TerminateServices, Started
<1>24. CASE KillServices
  BY <1>24 DEF KillServices, Stop, Started
<1>25. CASE ShutdownVold
  BY <1>25 DEF ShutdownVold, Stop, Started, NoFault
<1>26. CASE SyncAndUnmountApexes
  BY <1>26 DEF SyncAndUnmountApexes, CallLogged, NoFault
<1>27. CASE TryUmount
  BY <1>27 DEF TryUmount, CallLogged, NoFault
<1>28. CASE Fsck
  BY <1>28 DEF Fsck, CallLogged, NoFault
<1>29. CASE EndMonitor
  BY <1>29 DEF EndMonitor, CallLogged, NoFault
<1>30. CASE RebootSystem
  BY <1>30 DEF RebootSystem
<1>31. CASE RebootMonitorThread
  BY <1>31 DEF RebootMonitorThread
<1>32. CASE \E n \in DOMAIN watchdog : UserspaceRebootWatchdogThread(n)
  BY <1>32 DEF UserspaceRebootWatchdogThread
<1>33. CASE UNCHANGED vars
  BY <1>33 DEF vars
<1> QED
  BY <1>1, <1>2, <1>3, <1>4, <1>5, <1>6, <1>7, <1>8, <1>9, <1>10, <1>11,
     <1>12, <1>13, <1>14, <1>15, <1>16, <1>17, <1>18, <1>19, <1>20, <1>21, <1>22,
     <1>23, <1>24, <1>25, <1>26, <1>27, <1>28, <1>29, <1>30, <1>31, <1>32, <1>33, Zenon
  DEF Next, Loop, UserspaceReboot, FullReboot

(* The invariant is kept by every step. *)
LEMMA NextInv == Inv /\ [Next]_vars => Inv'
BY FlagsKept, StepsKept, ServicesKept, CountsKept, PostsKept, QueueKept, ReturnsKept DEF Inv

LEMMA Invariance == Spec => []Inv
BY InitInv, NextInv, PTL DEF Spec

(***************************************************************************)
(* Every variable keeps its type: among others the command that is being    *)
(* executed belongs to the current action, and the semaphore never has more *)
(* than the posts of one reboot.                                           *)
(***************************************************************************)
THEOREM TypeCorrect == Spec => []TypeOK
BY Invariance, TypeParts, PTL

(***************************************************************************)
(* While DoReboot() works, a monitor that has seen every post is timing the *)
(* step exactly when it is not the file system check, however late the      *)
(* thread is scheduled.                                                    *)
(***************************************************************************)
THEOREM MonitorKeepsStep == Spec => []MonitorInStep
<1>1. Inv => MonitorInStep
  BY DEF Inv, PostsCounted, MonitorInStep
<1> QED
  BY Invariance, <1>1, PTL

-----------------------------------------------------------------------------
(* A userspace reboot resumes over services that are down. *)

(***************************************************************************)
(* What DoUserspaceReboot() has stopped so far.  A post-data service that     *)
(* still has a process while the reboot waits is on the list that was stopped *)
(* and disabled, so that reaping it restarts neither it nor the services of   *)
(* its onrestart; and a service that is not disabled names none of those that *)
(* were stopped (OnRestartDownward).                                        *)
(***************************************************************************)
ServicesDown ==
  /\ main \in {"us_kill", "us_killed"} =>
       \A s \in PostData \ Debugging : proc[s] = "none" \/ (s \in stop_first /\ s \in disabled)
  /\ main \in {"us_volume", "us_debugging", "us_debugged", "us_apexes", "us_resume"} =>
       \A s \in PostData \ Debugging : proc[s] = "none"
  /\ main = "us_debugged" => \A s \in PostData \cap Debugging : proc[s] = "none" \/ s \in disabled
  /\ main \in {"us_apexes", "us_resume"} => \A s \in PostData : proc[s] = "none"

(* Each step of a userspace reboot leaves down what was down before it. *)
LEMMA DownKept ==
  ASSUME OnRestartDownward, ServicesOK, ServicesDown, [Next]_vars
  PROVE  ServicesDown'
<1> USE DEF ServicesDown, request, asked, mode, waits, queue, props, lists, services, monitoring, guard
<1>1. CASE \E c \in Requests : SetPowerctl(c)
  BY <1>1, ServicesAssumption DEF SetPowerctl
<1>2. CASE AwaitedPropertySet
  BY <1>2, ServicesAssumption DEF AwaitedPropertySet
<1>3. CASE BootCompletes
  BY <1>3, ServicesAssumption DEF BootCompletes
<1>4. CASE \E s \in Service : Dies(s)
  BY <1>4, ServicesAssumption DEF Dies, ServicesOK
<1>5. CASE \E s \in Service : Reap(s)
  BY <1>5, ServicesAssumption DEF Reap, Reaping, OnRestartDownward, ServicesOK
<1>6. CASE ReapExec
  BY <1>6, ServicesAssumption DEF ReapExec
<1>7. CASE CheckShutdown
  BY <1>7, ServicesAssumption DEF CheckShutdown
<1>8. CASE HandlePowerctlMessage
  BY <1>8, ServicesAssumption DEF HandlePowerctlMessage, ReturnEarly, HandleUserspaceReboot, ClearQueueAndQueue, EnterShutdown, NoFault
<1>9. CASE ExecuteOneCommand
  BY <1>9, ServicesAssumption DEF ExecuteOneCommand, NextAction, Executed, InvokeFunc, Start, Executing, DoReboot, DoUserspaceReboot, NoFault
<1>10. CASE HandleProcessActions
  BY <1>10, ServicesAssumption DEF HandleProcessActions, Start
<1>11. CASE EpollReturns
  BY <1>11, ServicesAssumption DEF EpollReturns
<1>12. CASE ResetPowerctl
  BY <1>12, ServicesAssumption DEF ResetPowerctl, Call, EnterShutdown, NoFault
<1>13. CASE TerminatePostData
  BY <1>13, ServicesAssumption DEF TerminatePostData, Terminate, Started
<1>14. CASE KillPostData
  BY <1>14, ServicesAssumption DEF KillPostData, Stop, Started, ServicesOK
<1>15. CASE PostDataKilled
  BY <1>15, ServicesAssumption DEF PostDataKilled, StillRunning, Started, NoFault
<1>16. CASE ResetVolumes
  BY <1>16, ServicesAssumption DEF ResetVolumes, Call, NoFault
<1>17. CASE KillDebugging
  BY <1>17, ServicesAssumption DEF KillDebugging, Stop, Started
<1>18. CASE DebuggingKilled
  BY <1>18, ServicesAssumption DEF DebuggingKilled, StillRunning, Started, NoFault
<1>19. CASE UnmountAllApexes
  BY <1>19, ServicesAssumption DEF UnmountAllApexes, Call, NoFault
<1>20. CASE Resume
  BY <1>20, ServicesAssumption DEF Resume, LeaveShutdown, Return
<1>21. CASE LeaveAfterFailure
  BY <1>21, ServicesAssumption DEF LeaveAfterFailure, LeaveShutdown
<1>22. CASE TriggerFullReboot
  BY <1>22, ServicesAssumption DEF TriggerFullReboot, Return
<1>23. CASE TerminateServices
  BY <1>23, ServicesAssumption DEF TerminateServices, Started
<1>24. CASE KillServices
  BY <1>24, ServicesAssumption DEF KillServices, Stop, Started
<1>25. CASE ShutdownVold
  BY <1>25, ServicesAssumption DEF ShutdownVold, Stop, Started, NoFault
<1>26. CASE SyncAndUnmountApexes
  BY <1>26, ServicesAssumption DEF SyncAndUnmountApexes, CallLogged, NoFault
<1>27. CASE TryUmount
  BY <1>27, ServicesAssumption DEF TryUmount, CallLogged, NoFault
<1>28. CASE Fsck
  BY <1>28, ServicesAssumption DEF Fsck, CallLogged, NoFault
<1>29. CASE EndMonitor
  BY <1>29, ServicesAssumption DEF EndMonitor, CallLogged, NoFault
<1>30. CASE RebootSystem
  BY <1>30, ServicesAssumption DEF RebootSystem
<1>31. CASE RebootMonitorThread
  BY <1>31, ServicesAssumption DEF RebootMonitorThread
<1>32. CASE \E n \in DOMAIN watchdog : UserspaceRebootWatchdogThread(n)
  BY <1>32, ServicesAssumption DEF UserspaceRebootWatchdogThread
<1>33. CASE UNCHANGED vars
  BY <1>33 DEF vars
<1> QED
  BY <1>1, <1>2, <1>3, <1>4, <1>5, <1>6, <1>7, <1>8, <1>9, <1>10, <1>11,
     <1>12, <1>13, <1>14, <1>15, <1>16, <1>17, <1>18, <1>19, <1>20, <1>21, <1>22,
     <1>23, <1>24, <1>25, <1>26, <1>27, <1>28, <1>29, <1>30, <1>31, <1>32, <1>33, Zenon
  DEF Next, Loop, UserspaceReboot, FullReboot

(***************************************************************************)
(* A userspace reboot comes up again only after every post-data service is   *)
(* down, whatever died and was reaped while DoUserspaceReboot() waited, for  *)
(* any services whose onrestart leads downward.  A service started before    *)
(* /data was mounted whose onrestart restarts one started after it can bring *)
(* that one up while the reboot waits, and is what the hypothesis excludes.   *)
(***************************************************************************)
THEOREM ResumesClean == OnRestartDownward => (Spec => []CleanResume)
<1> SUFFICES ASSUME OnRestartDownward PROVE Spec => []CleanResume
  OBVIOUS
<1>1. Init => ServicesDown
  BY DEF Init, ServicesDown
<1>2. Inv /\ ServicesDown /\ [Next]_vars => ServicesDown'
  BY DownKept DEF Inv
<1>3. ServicesDown => CleanResume
  BY DEF ServicesDown, CleanResume
<1> QED
  BY Invariance, <1>1, <1>2, <1>3, PTL DEF Spec

=============================================================================
