----------------------------- MODULE InitShutdown -----------------------------
(***************************************************************************)
(* init's way down (init/reboot.cpp): from a value of sys.powerctl to a    *)
(* reboot of the device or of userspace only.  Four actors: the main       *)
(* thread, the property thread that hands requests to it, the reboot       *)
(* monitor thread of a full reboot and the watchdog process of a userspace *)
(* reboot.  The action queue (action_manager.cpp) is modelled as far as    *)
(* its triggers and commands bring the shutdown about.                     *)
(***************************************************************************)
EXTENDS Naturals, Sequences, FiniteSets

CONSTANTS
  Service,        \* the services of init
  PostData,       \* those started after /data was mounted: is_post_data()
  Debugging,      \* kDebuggingServices
  Critical,       \* other shutdown critical services
  Vold,           \* the service "vold", if there is one
  OnRestart,      \* the services a "restart" in a service's onrestart names
  Requests,       \* the values of sys.powerctl
  HangSites,      \* calls of the way down that may never return
  FailSites,      \* calls of it that may fail
  MaxRequests,    \* bound: values set
  MaxFaults       \* bound: calls that hang or fail

ASSUME ServicesAssumption ==
  /\ PostData \subseteq Service /\ Debugging \subseteq Service /\ Critical \subseteq Service
  /\ Vold \subseteq Service
  /\ OnRestart \in [Service -> SUBSET Service]
ASSUME RequestsAssumption ==
  Requests \subseteq {"shutdown,userrequested", "reboot", "reboot,userspace", "reboot,recovery", "unknown"}
ASSUME BoundsAssumption == MaxRequests \in Nat /\ MaxFaults \in Nat

(* The order in which a userspace reboot stops services is one that       *)
(* onrestart respects: no service restarts one that was stopped before it. *)
OnRestartDownward ==
  \A s \in Service :
    /\ s \notin PostData \ Debugging => OnRestart[s] \cap (PostData \ Debugging) = {}
    /\ s \notin PostData => OnRestart[s] \cap PostData = {}

VARIABLES
  device,             \* "up" or "off"
  supported,          \* is_userspace_reboot_supported(), of this device
  accept_messages,    \* init hears of property changes
  do_shutdown,        \* do_shutdown_
  shutdown_command,   \* shutdown_command_
  taken,              \* the command that HandlePowerctlMessage was called with
  shutting_down,
  waiting,            \* init waits for a property
  exec,               \* init waits for an exec service
  events,             \* event_queue_
  executing,          \* current_executing_actions_
  current_command,    \* current_command_
  in_progress,        \* sys.init.userspace_reboot.in_progress is 1
  boot_completed,     \* sys.boot_completed is 1
  main,               \* where the main thread is
  stop_first,         \* the services a reboot stops first
  were_enabled,       \* the services a userspace reboot enables again
  proc,               \* the process of each service: "none", "up" or "dead"
  killed,             \* services whose process was sent SIGKILL
  disabled,           \* services with SVC_DISABLED
  restarting,         \* services with SVC_RESTARTING
  monitor,            \* the reboot monitor thread
  sem,                \* reboot_semaphore
  monitor_run,        \* reboot_monitor_run
  watchdog,           \* the watchdog process of each userspace reboot
  unguarded,          \* history: a watchdog ended before its reboot did
  requests, faults

request == <<do_shutdown, shutdown_command>>
asked == <<supported, request, taken>>
mode == <<accept_messages, shutting_down>>
waits == <<waiting, exec>>
queue == <<events, executing, current_command>>
props == <<in_progress, boot_completed>>
lists == <<stop_first, were_enabled>>
services == <<proc, killed, disabled, restarting>>
monitoring == <<monitor, sem, monitor_run>>
guard == <<watchdog, unguarded>>
vars == <<device, asked, mode, waits, queue, props, main, lists, services, monitoring, guard,
          requests, faults>>

Builtins == {"shutdown_done", "userspace-reboot"}
Actions == Builtins \cup {"other", "shutdown", "userspace-reboot-requested", "userspace-reboot-resume",
                          "boot-completed"}

LoopSteps == {"check", "powerctl", "command", "process", "reap"}
RebootSteps == {"reboot_term", "reboot_kill", "reboot_vold", "reboot_apexes", "reboot_umount", "fsck",
                "reboot_end"}
UserspaceSteps == {"us_enter", "us_term", "us_kill", "us_killed", "us_volume", "us_debugging", "us_debugged",
                   "us_apexes", "us_resume", "us_leave", "us_trigger"}

\* A builtin action has one command.
NumCommands(a) == IF a \in Builtins \cup {"boot-completed"} THEN 1 ELSE 2

TypeOK ==
  /\ device \in {"up", "off"}
  /\ {supported, accept_messages, do_shutdown, shutting_down, waiting, exec, in_progress, boot_completed,
      monitor_run, unguarded} \subseteq BOOLEAN
  /\ {shutdown_command, taken} \subseteq Requests \cup {"none", "reboot"}
  /\ events \in Seq(Actions) /\ executing \in Seq(Actions)
  /\ current_command \in 0..(IF executing = << >> THEN 0 ELSE NumCommands(Head(executing)) - 1)
  /\ main \in LoopSteps \cup RebootSteps \cup UserspaceSteps \cup {"hung", "reboot_system"}
  /\ proc \in [Service -> {"none", "up", "dead"}]
  /\ \A list \in {stop_first, were_enabled, killed, disabled, restarting} : list \subseteq Service
  /\ monitor \in {"none", "wait", "timed", "over"} /\ sem \in 0..4
  /\ watchdog \in [1..MaxRequests -> {"none", "start", "boot", "over"}]
  /\ requests \in 0..MaxRequests /\ faults \in 0..MaxFaults

Init ==
  /\ device = "up" /\ supported \in BOOLEAN
  /\ accept_messages = TRUE /\ do_shutdown = FALSE /\ shutdown_command = "none" /\ taken = "none"
  /\ shutting_down = FALSE /\ waiting = FALSE /\ exec = FALSE
  /\ events = << "other" >> /\ executing = << >> /\ current_command = 0
  /\ in_progress = FALSE /\ boot_completed = TRUE
  /\ main = "check" /\ stop_first = {} /\ were_enabled = {}
  /\ proc = [s \in Service |-> "up"] /\ killed = {} /\ disabled = {} /\ restarting = {}
  /\ monitor = "none" /\ sem = 0 /\ monitor_run = FALSE
  /\ watchdog = [n \in 1..MaxRequests |-> "none"] /\ unguarded = FALSE
  /\ requests = 0 /\ faults = 0

Fault(sites, site) == site \in sites /\ faults < MaxFaults /\ faults' = faults + 1

NoFault == UNCHANGED faults

-----------------------------------------------------------------------------
(* The property thread and the processes of the services. *)

(***************************************************************************)
(* A client sets sys.powerctl.  NotifyPropertyChange() passes it on while  *)
(* messages are accepted; else nobody looks at it again.                   *)
(***************************************************************************)
SetPowerctl(c) ==
  /\ requests < MaxRequests
  /\ requests' = requests + 1
  /\ IF accept_messages
     THEN do_shutdown' = TRUE /\ shutdown_command' = c
     ELSE UNCHANGED request
  /\ UNCHANGED <<device, supported, taken, mode, waits, queue, props, main, lists, services, monitoring, guard,
                 faults>>

\* The property init waits for is set: CheckAndResetWait().
AwaitedPropertySet ==
  /\ waiting /\ accept_messages
  /\ waiting' = FALSE
  /\ UNCHANGED <<device, asked, mode, exec, queue, props, main, lists, services, monitoring, guard, requests,
                 faults>>

\* Userspace is up: sys.boot_completed, set by a post-data service.
BootCompletes ==
  /\ ~boot_completed /\ \E s \in PostData : proc[s] = "up"
  /\ boot_completed' = TRUE
  /\ events' = IF accept_messages THEN Append(events, "boot-completed") ELSE events
  /\ UNCHANGED <<device, asked, mode, waits, executing, current_command, in_progress, main, lists, services,
                 monitoring, guard, requests, faults>>

\* A process ends: after a signal, or of its own.
Dies(s) ==
  /\ proc[s] = "up"
  /\ IF s \in killed \cup disabled THEN NoFault ELSE Fault(FailSites, "crash")
  /\ proc' = [proc EXCEPT ![s] = "dead"]
  /\ UNCHANGED <<device, asked, mode, waits, queue, props, main, lists, killed, disabled, restarting,
                 monitoring, guard, requests>>

-----------------------------------------------------------------------------
(* The loop of the main thread. *)

\* CheckShutdown()
CheckShutdown ==
  /\ main = "check"
  /\ IF do_shutdown /\ ~shutting_down
     THEN do_shutdown' = FALSE /\ taken' = shutdown_command /\ main' = "powerctl"
     ELSE main' = "command" /\ UNCHANGED <<do_shutdown, taken>>
  /\ UNCHANGED <<device, supported, shutdown_command, mode, waits, queue, props, lists, services, monitoring,
                 guard, requests, faults>>

\* Mutant: the command of the interrupted action is not forgotten.
ClearQueueKeepCommand(then) ==
  /\ events' = then /\ executing' = << >> /\ UNCHANGED current_command

\* ClearQueue(), then two events are queued.
ClearQueueAndQueue(then) ==
  /\ events' = then /\ executing' = << >> /\ current_command' = 0

(***************************************************************************)
(* HandlePowerctlMessage() with StopSendingMessages(), EnterShutdown() and *)
(* HandleUserspaceReboot(), which leaves init in its normal mode.          *)
(***************************************************************************)
EnterShutdown == shutting_down' = TRUE /\ waiting' = FALSE /\ exec' = FALSE

HandleUserspaceReboot ==
  \/ ~supported /\ NoFault /\ UNCHANGED <<queue, watchdog, request>>
  \/ /\ supported /\ Fault(FailSites, "fork")
     /\ do_shutdown' = TRUE /\ shutdown_command' = "reboot"
     /\ UNCHANGED <<queue, watchdog>>
  \/ /\ supported /\ NoFault
     /\ \E n \in DOMAIN watchdog :
          /\ watchdog[n] = "none" /\ \A k \in 1..(n - 1) : watchdog[k] # "none"
          /\ watchdog' = [watchdog EXCEPT ![n] = "start"]
     /\ ClearQueueAndQueue(<< "userspace-reboot-requested", "userspace-reboot" >>)
     /\ UNCHANGED request

\* It returns early on a command that it does not know and when the message to
\* the bootloader that a reboot to recovery needs cannot be written.
ReturnEarly ==
  /\ \/ taken = "unknown" /\ NoFault
     \/ taken = "reboot,recovery" /\ Fault(FailSites, "bootloader_message")
  /\ UNCHANGED <<mode, waits, queue, watchdog, request>>

HandlePowerctlMessage ==
  /\ main = "powerctl"
  /\ main' = "command"
  /\ \/ ReturnEarly
     \/ /\ taken = "reboot,userspace"
        /\ accept_messages' = FALSE
        /\ HandleUserspaceReboot
        /\ UNCHANGED <<shutting_down, waits>>
     \/ /\ taken \notin {"reboot,userspace", "unknown"}
        /\ accept_messages' = FALSE
        /\ ClearQueueAndQueue(<< "shutdown", "shutdown_done" >>)
        /\ EnterShutdown
        /\ NoFault /\ UNCHANGED <<watchdog, request>>
  /\ UNCHANGED <<device, supported, taken, props, lists, services, monitoring, unguarded, requests>>

\* The action whose next command runs: events are popped until one has an action.
NextAction == IF executing # << >> THEN Head(executing) ELSE Head(events)

\* A command of action a was executed.
Executed(a) ==
  LET running == IF executing # << >> THEN executing ELSE << a >>
      last == current_command + 1 = NumCommands(a) IN
  /\ executing' = IF last THEN Tail(running) ELSE running
  /\ current_command' = IF last THEN 0 ELSE current_command + 1
  /\ events' = IF executing # << >> THEN events ELSE Tail(events)

\* The action begins a command that ends in another step.
Executing(a) ==
  /\ executing' = << a >>
  /\ events' = IF executing # << >> THEN events ELSE Tail(events)
  /\ UNCHANGED current_command

\* Start() of services, by class_start or by a restart.
Start(S) ==
  /\ proc' = [s \in Service |-> IF s \in S /\ proc[s] = "none" THEN "up" ELSE proc[s]]
  /\ restarting' = restarting \ S
  /\ disabled' = disabled \ S
  /\ UNCHANGED killed

(***************************************************************************)
(* A command of an action that init.rc defines.  Those of                  *)
(* userspace-reboot-requested clear sys.boot_completed, those of           *)
(* userspace-reboot-resume end in the class_start of the post-data         *)
(* services; others may wait for a property or for a process, but the      *)
(* commands of the shutdown trigger wait for no property.                  *)
(***************************************************************************)
InvokeFunc(a) ==
  CASE a = "userspace-reboot-requested" /\ current_command = 0 ->
         boot_completed' = FALSE /\ UNCHANGED <<waits, in_progress, services>>
    [] a = "userspace-reboot-resume" /\ current_command = 1 ->
         Start(PostData \ disabled) /\ UNCHANGED <<waits, props>>
    [] a = "boot-completed" ->
         in_progress' = FALSE /\ UNCHANGED <<waits, boot_completed, services>>
    [] OTHER ->
         /\ \/ UNCHANGED waits
            \/ a # "shutdown" /\ waiting' = TRUE /\ UNCHANGED exec
            \/ exec' = TRUE /\ UNCHANGED waiting
         /\ UNCHANGED <<props, services>>

\* DoReboot(): the monitor starts; without /data there is nothing to stop or unmount.
DoReboot ==
  /\ monitor' = "wait" /\ sem' = 1 /\ monitor_run' = TRUE
  /\ main' \in {"reboot_term", "reboot_system"}
  /\ NoFault

\* DoUserspaceReboot(): its first call sets sys.init.userspace_reboot.in_progress.
DoUserspaceReboot ==
  \/ in_progress' = TRUE /\ main' = "us_enter" /\ NoFault
  \/ Fault(FailSites, "setprop") /\ main' = "us_leave" /\ UNCHANGED in_progress

\* ExecuteOneCommand(), unless init waits for a property or a process.
ExecuteOneCommand ==
  LET a == NextAction
      idle == waiting \/ exec \/ (executing = << >> /\ events = << >>) IN
  /\ main = "command"
  /\ \/ /\ idle
        /\ main' = "process" /\ NoFault
        /\ UNCHANGED <<waits, queue, props, services, monitoring>>
     \/ /\ ~idle /\ a \notin Builtins
        /\ Executed(a)
        /\ InvokeFunc(a)
        /\ main' = "process" /\ NoFault /\ UNCHANGED monitoring
     \/ /\ ~idle /\ a = "shutdown_done"
        /\ Executing(a)
        /\ DoReboot
        /\ UNCHANGED <<waits, props, services>>
     \/ /\ ~idle /\ a = "userspace-reboot"
        /\ Executing(a)
        /\ DoUserspaceReboot
        /\ UNCHANGED <<waits, boot_completed, services, monitoring>>
  /\ UNCHANGED <<device, asked, mode, lists, guard, requests>>

\* HandleProcessActions(): services whose restart is due.
HandleProcessActions ==
  /\ main = "process"
  /\ main' = "reap"
  /\ \E due \in SUBSET (IF shutting_down THEN {} ELSE restarting) : Start(due)
  /\ UNCHANGED <<device, asked, mode, waits, queue, props, lists, monitoring, guard, requests, faults>>

(***************************************************************************)
(* Reap() of one service, in the loop or while a shutdown waits: unless it *)
(* is disabled it will be restarted, and its onrestart restarts others at  *)
(* once when they are down.                                                *)
(***************************************************************************)
Reaping == main \in {"reap", "us_kill", "us_killed", "us_debugged", "reboot_kill", "reboot_vold",
                     "reboot_apexes"}

Reap(s) ==
  LET others == IF s \in disabled THEN {} ELSE OnRestart[s] \ {s}
      running == {t \in others : proc[t] # "none"}
      started == {t \in others : proc[t] = "none" /\ t \notin restarting} IN
  /\ Reaping /\ proc[s] = "dead"
  /\ proc' = [t \in Service |-> IF t = s THEN "none" ELSE IF t \in started THEN "up" ELSE proc[t]]
  /\ killed' = (killed \ {s}) \cup {t \in running : proc[t] = "up"}
  /\ disabled' = disabled \ (running \cup started)
  /\ restarting' = (restarting \ running) \cup ({s} \ disabled)
  /\ UNCHANGED <<device, asked, mode, waits, queue, props, main, lists, monitoring, guard, requests, faults>>

\* The process of an exec has ended: UnSetExec().
ReapExec ==
  /\ main = "reap" /\ exec
  /\ exec' = FALSE
  /\ UNCHANGED <<device, asked, mode, waiting, queue, props, main, lists, services, monitoring, guard, requests,
                 faults>>

EpollReturns ==
  /\ main = "reap"
  /\ main' = "check"
  /\ UNCHANGED <<device, asked, mode, waits, queue, props, lists, services, monitoring, guard, requests,
                 faults>>

Loop == CheckShutdown \/ HandlePowerctlMessage \/ ExecuteOneCommand \/ HandleProcessActions \/ EpollReturns

-----------------------------------------------------------------------------
(* DoUserspaceReboot().  A failure leaves through the scope guard. *)

\* A call that succeeds, fails or never returns.
Call(from, site, to) ==
  /\ main = from
  /\ \/ main' = to /\ NoFault
     \/ main' = "us_leave" /\ Fault(FailSites, site)
     \/ main' = "hung" /\ Fault(HangSites, site)

Started == {s \in Service : proc[s] # "none"}

\* Terminate() and Stop() of the services that were started.
Terminate(S) == disabled' = disabled \cup S /\ restarting' = restarting \ S /\ UNCHANGED <<proc, killed>>

Stop(S) == disabled' = disabled \cup S /\ restarting' = restarting \ S /\ killed' = killed \cup S /\ UNCHANGED proc

ResetPowerctl ==
  /\ Call("us_enter", "resetprop", "us_term")
  /\ EnterShutdown
  /\ UNCHANGED <<device, asked, accept_messages, queue, props, lists, services, monitoring, guard, requests>>

TerminatePostData ==
  /\ main = "us_term"
  /\ main' = "us_kill"
  /\ stop_first' = (Started \cap PostData) \ Debugging
  /\ were_enabled' = (Started \cap PostData) \ disabled
  /\ Terminate(stop_first')
  /\ UNCHANGED <<device, asked, mode, waits, queue, props, monitoring, guard, requests, faults>>

\* Those still there after the timeout are killed.
KillPostData ==
  /\ main = "us_kill"
  /\ main' = "us_killed"
  /\ Stop(stop_first \cap Started)
  /\ UNCHANGED <<device, asked, mode, waits, queue, props, lists, monitoring, guard, requests, faults>>

\* Mutant: the services that are left are not counted.
StillRunningIgnored(S, from, to) ==
  main = from /\ main' = to /\ NoFault

\* StopServicesAndLogViolations() returns: all are gone, or some outlive the timeout.
StillRunning(S, from, to) ==
  /\ main = from
  /\ IF S \cap Started = {}
     THEN main' = to /\ NoFault
     ELSE main' = "us_leave" /\ Fault(FailSites, "sigkill")

PostDataKilled ==
  /\ StillRunning(stop_first, "us_killed", "us_volume")
  /\ UNCHANGED <<device, asked, mode, waits, queue, props, lists, services, monitoring, guard, requests>>

\* KillZramBackingDevice(), CallVdc("volume", "reset")
ResetVolumes ==
  /\ Call("us_volume", "volume", "us_debugging")
  /\ UNCHANGED <<device, asked, mode, waits, queue, props, lists, services, monitoring, guard, requests>>

KillDebugging ==
  /\ main = "us_debugging"
  /\ main' = "us_debugged"
  /\ Stop(Debugging \cap PostData \cap Started)
  /\ UNCHANGED <<device, asked, mode, waits, queue, props, lists, monitoring, guard, requests, faults>>

DebuggingKilled ==
  /\ StillRunning(Debugging \cap PostData, "us_debugged", "us_apexes")
  /\ UNCHANGED <<device, asked, mode, waits, queue, props, lists, services, monitoring, guard, requests>>

\* UnmountAllApexes(), SwitchToMountNamespaceIfNeeded()
UnmountAllApexes ==
  /\ Call("us_apexes", "apexes", "us_resume")
  /\ UNCHANGED <<device, asked, mode, waits, queue, props, lists, services, monitoring, guard, requests>>

\* Mutant: init goes on without listening.
LeaveShutdownDeaf == shutting_down' = FALSE /\ UNCHANGED accept_messages

LeaveShutdown == shutting_down' = FALSE /\ accept_messages' = TRUE

\* DoUserspaceReboot() returns: its action is done.
Return == executing' = << >> /\ main' = "process" /\ UNCHANGED current_command

Resume ==
  /\ main = "us_resume"
  /\ disabled' = disabled \ were_enabled
  /\ LeaveShutdown
  /\ events' = Append(events, "userspace-reboot-resume")
  /\ Return
  /\ UNCHANGED <<device, asked, waits, props, lists, proc, killed, restarting, monitoring, guard, requests,
                 faults>>

\* The scope guard: messages are heard again before the full reboot is asked for.
LeaveAfterFailure ==
  /\ main = "us_leave"
  /\ main' = "us_trigger"
  /\ LeaveShutdown
  /\ UNCHANGED <<device, asked, waits, queue, props, lists, services, monitoring, guard, requests, faults>>

TriggerFullReboot ==
  /\ main = "us_trigger"
  /\ do_shutdown' = TRUE /\ shutdown_command' = "reboot"
  /\ Return
  /\ UNCHANGED <<device, supported, taken, mode, waits, events, props, lists, services, monitoring, guard,
                 requests, faults>>

UserspaceReboot ==
  \/ ResetPowerctl \/ TerminatePostData \/ KillPostData \/ PostDataKilled \/ ResetVolumes \/ KillDebugging
  \/ DebuggingKilled \/ UnmountAllApexes \/ Resume \/ LeaveAfterFailure \/ TriggerFullReboot

-----------------------------------------------------------------------------
(* DoReboot(). *)

\* Critical services are started, all others but the debugging ones get SIGTERM.
TerminateServices ==
  /\ main = "reboot_term"
  /\ main' = "reboot_kill"
  /\ stop_first' = Service \ (Debugging \cup Critical)
  /\ proc' = [s \in Service |-> IF s \in Critical /\ proc[s] = "none" THEN "up" ELSE proc[s]]
  /\ disabled' = (disabled \ Critical) \cup (stop_first' \cap Started)
  /\ restarting' = restarting \ (Critical \cup (stop_first' \cap Started))
  /\ UNCHANGED <<device, asked, mode, waits, queue, props, were_enabled, killed, monitoring, guard, requests,
                 faults>>

KillServices ==
  /\ main = "reboot_kill"
  /\ main' = "reboot_vold"
  /\ Stop(stop_first \cap Started)
  /\ UNCHANGED <<device, asked, mode, waits, queue, props, lists, monitoring, guard, requests, faults>>

\* Calls whose failure is only logged.
CallLogged(from, site, to) ==
  /\ main = from
  /\ \/ main' = to /\ NoFault
     \/ main' = "hung" /\ Fault(HangSites, site)

\* vdc, if vold runs, and Stop() of vold; then the debugging services are killed.
ShutdownVold ==
  /\ main = "reboot_vold"
  /\ \/ /\ main' = "reboot_apexes" /\ NoFault
        /\ Stop((Vold \cup Debugging) \cap Started)
     \/ /\ Vold \cap Started # {}
        /\ main' = "hung" /\ Fault(HangSites, "volume") /\ UNCHANGED services
  /\ UNCHANGED <<device, asked, mode, waits, queue, props, lists, monitoring, guard, requests>>

\* sync(), zram, apexd
SyncAndUnmountApexes ==
  /\ CallLogged("reboot_apexes", "apexes", "reboot_umount")
  /\ UNCHANGED <<device, asked, mode, waits, queue, props, lists, services, monitoring, guard, requests>>

(***************************************************************************)
(* TryUmountAndFsck(): a user's shutdown checks the file systems, unless   *)
(* the unmount failed; the monitor is paused meanwhile.                    *)
(***************************************************************************)
TryUmount ==
  /\ \/ /\ CallLogged("reboot_umount", "umount", IF taken = "shutdown,userrequested" THEN "fsck" ELSE "reboot_end")
        /\ sem' = IF main' = "fsck" THEN sem + 1 ELSE sem
     \/ main = "reboot_umount" /\ Fault(FailSites, "umount") /\ main' = "reboot_end" /\ UNCHANGED sem
  /\ UNCHANGED <<device, asked, mode, waits, queue, props, lists, services, monitor, monitor_run, guard,
                 requests>>

\* Mutant: the monitor is not resumed.
FsckNoResume ==
  /\ main = "fsck"
  /\ main' = "reboot_end"
  /\ UNCHANGED <<device, asked, mode, waits, queue, props, lists, services, monitoring, guard, requests,
                 faults>>

\* It runs without a timeout; when it is done the monitor is resumed.
Fsck ==
  /\ CallLogged("fsck", "fsck", "reboot_end")
  /\ sem' = IF main' = "hung" THEN sem ELSE sem + 1
  /\ UNCHANGED <<device, asked, mode, waits, queue, props, lists, services, monitor, monitor_run, guard,
                 requests>>

\* A last sync(), which may hang; then the monitor is told to end.
EndMonitor ==
  /\ CallLogged("reboot_end", "sync", "reboot_system")
  /\ IF main' = "hung" THEN UNCHANGED monitoring
     ELSE monitor_run' = FALSE /\ sem' = sem + 1 /\ UNCHANGED monitor
  /\ UNCHANGED <<device, asked, mode, waits, queue, props, lists, services, guard, requests>>

RebootSystem ==
  /\ main = "reboot_system"
  /\ device' = "off"
  /\ UNCHANGED <<asked, mode, waits, queue, props, main, lists, services, monitoring, guard, requests, faults>>

FullReboot ==
  \/ TerminateServices \/ KillServices \/ ShutdownVold \/ SyncAndUnmountApexes \/ TryUmount \/ Fsck
  \/ EndMonitor \/ RebootSystem

(***************************************************************************)
(* RebootMonitorThread(): every post of the semaphore takes it from        *)
(* waiting to timing or back.  When its time is over the device goes down. *)
(***************************************************************************)
RebootMonitorThread ==
  /\ \/ /\ monitor = "wait" /\ sem > 0
        /\ sem' = sem - 1 /\ monitor' = "timed" /\ UNCHANGED device
     \/ /\ monitor = "timed" /\ sem > 0
        /\ sem' = sem - 1 /\ monitor' = (IF monitor_run THEN "wait" ELSE "over") /\ UNCHANGED device
     \/ /\ monitor = "timed" /\ sem = 0
        /\ device' = "off" /\ UNCHANGED <<sem, monitor>>
  /\ UNCHANGED <<asked, mode, waits, queue, props, main, lists, services, monitor_run, guard, requests, faults>>

(***************************************************************************)
(* UserspaceRebootWatchdogThread(), a process: it waits for the reboot to  *)
(* begin, then for userspace to be up, and turns the device off when       *)
(* either takes too long.                                                  *)
(***************************************************************************)
UserspaceRebootWatchdogThread(n) ==
  LET pending == main \in UserspaceSteps \cup {"hung"} \/ \E i \in DOMAIN events : events[i] = "userspace-reboot" IN
  /\ \/ /\ watchdog[n] = "start" /\ in_progress
        /\ watchdog' = [watchdog EXCEPT ![n] = "boot"] /\ UNCHANGED <<device, unguarded>>
     \/ /\ watchdog[n] = "boot" /\ boot_completed
        /\ watchdog' = [watchdog EXCEPT ![n] = "over"]
        /\ unguarded' = (unguarded \/ pending) /\ UNCHANGED device
     \/ /\ watchdog[n] \in {"start", "boot"}
        /\ device' = "off" /\ UNCHANGED guard
  /\ UNCHANGED <<asked, mode, waits, queue, props, main, lists, services, monitoring, requests, faults>>

-----------------------------------------------------------------------------
Next ==
  /\ device = "up"
  /\ \/ \E c \in Requests : SetPowerctl(c)
     \/ AwaitedPropertySet
     \/ BootCompletes
     \/ \E s \in Service : Dies(s) \/ Reap(s)
     \/ ReapExec
     \/ Loop
     \/ UserspaceReboot
     \/ FullReboot
     \/ RebootMonitorThread
     \/ \E n \in DOMAIN watchdog : UserspaceRebootWatchdogThread(n)

(***************************************************************************)
(* The main thread goes on, processes that were killed end and are reaped, *)
(* an exec ends, timeouts expire.  Nothing is assumed of clients, of       *)
(* awaited properties or of userspace coming up.                           *)
(***************************************************************************)
Fairness ==
  /\ WF_vars(device = "up" /\ (Loop \/ UserspaceReboot \/ FullReboot))
  /\ \A s \in Service : WF_vars(device = "up" /\ s \in killed /\ Dies(s)) /\ WF_vars(device = "up" /\ Reap(s))
  /\ SF_vars(device = "up" /\ ReapExec)
  /\ WF_vars(device = "up" /\ RebootMonitorThread)
  /\ \A n \in 1..MaxRequests : WF_vars(device = "up" /\ UserspaceRebootWatchdogThread(n))

Spec == Init /\ [][Next]_vars /\ Fairness

-----------------------------------------------------------------------------
(* Properties *)

(***************************************************************************)
(* A request that init heard of is served whatever hangs or fails on the   *)
(* way: a reboot or shutdown turns the device off, unless a later request  *)
(* took its place; a userspace reboot ends with userspace up again and     *)
(* messages heard, falls back to a reboot of the device or is replaced too. *)
(* (HandlePowerctlMessage, the monitor thread and the watchdog process.)   *)
(* Left out: a device without userspace reboot, which ignores the request, *)
(* a watchdog misled by the properties of the userspace reboot before, and *)
(* a reboot to recovery whose message to the bootloader was not written:   *)
(* the handler returns with nothing changed.                               *)
(***************************************************************************)
RequestServed ==
  LET down == shutdown_command \in {"shutdown,userrequested", "reboot", "reboot,recovery"}
      userspace == shutdown_command = "reboot,userspace"
      unwritten == main = "command" /\ taken = "reboot,recovery" /\ ~shutting_down
      back == ~do_shutdown /\ accept_messages /\ boot_completed /\ main \in LoopSteps \ {"powerctl"} IN
  /\ (do_shutdown /\ down) ~> (device = "off" \/ (do_shutdown /\ ~down) \/ unwritten)
  /\ (do_shutdown /\ userspace) ~>
       (device = "off" \/ back \/ (do_shutdown /\ ~userspace) \/ unguarded \/ ~supported)

(***************************************************************************)
(* The monitor thread guards every step of a full reboot except the file   *)
(* system check: with no post of the semaphore pending, its clock runs     *)
(* exactly when main is not in fsck (DoReboot, TryUmountAndFsck and        *)
(* RebootMonitorThread count posts in pairs).                              *)
(***************************************************************************)
MonitorInStep ==
  main \in RebootSteps /\ sem = 0 => (monitor = "timed" <=> main # "fsck")

(***************************************************************************)
(* A userspace reboot goes up again only after every post-data service is  *)
(* down: none has a process when DoUserspaceReboot resumes, whatever died, *)
(* was restarted or was reaped while it waited.                            *)
(***************************************************************************)
CleanResume ==
  main = "us_resume" => \A s \in PostData : proc[s] = "none"
===============================================================================
