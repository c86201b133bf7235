---------------------------- MODULE InitService ----------------------------
(***************************************************************************)
(* The service life cycle of Android's init: the Service object and its    *)
(* flags, the service list, the SIGCHLD path that reaps children, the       *)
(* control-message queue filled by the property thread, and the main loop   *)
(* of SecondStageMain that runs them all.                                   *)
(*                                                                         *)
(* Actors.  The main thread of init (pc, agenda, reaping) is                *)
(* sequential; the kernel (process exits, pids reused by strangers, orphans *)
(* handed to init), the clients that set ctl.* properties, and time run     *)
(* beside it at every step.                                                 *)
(*                                                                         *)
(* Simplifications.                                                        *)
(*  - Flags are a set of names instead of a bit mask.                      *)
(*  - The action queue is the set Commands of what it may run next; the     *)
(*    queue itself and waiting on a property are another component.        *)
(*  - What makes Epoll::Wait return is left open here: module InitLoop has  *)
(*    the signalfd, the eventfd and the timeout.                           *)
(*  - Time is the Boolean due[s]: "boot_clock::now() is past the restart    *)
(*    time (or the timeout) of s".                                         *)
(*  - process_cgroup_empty_ is left out: it suppresses KillProcessGroup only*)
(*    while the service is not running, and no caller kills then.           *)
(*  - SVC_SHUTDOWN_CRITICAL and SVC_GENTLE_KILL matter to the reboot and to *)
(*    the signal sent only.  Reap() always kills the process group, as it    *)
(*    does for vendors of Android R and later.                              *)
(*  - Whether a critical service has crashed too often is a free choice    *)
(*    here; the counting belongs to the crash window of Service::Reap.     *)
(***************************************************************************)
EXTENDS Naturals, Sequences

CONSTANTS
  Service,          \* services defined in .rc files
  Temp,             \* slots for the temporary services of exec, exec_background
  Pid,              \* the pids of the system
  NoPid,            \* pid_ == 0
  Client,           \* processes that set ctl.* properties
  RcFlags,          \* [Service -> SUBSET Flag], what the .rc options set
  Timed,            \* services with timeout_period
  Updatable,        \* services with the updatable option
  RebootOnFailure,  \* services with on_failure_reboot_target_
  OnRestart,        \* [Service -> Seq(Command)], the onrestart commands
  Order,            \* the service list, a sequence of Service
  Commands,         \* what the action queue may execute: sequences of commands
  CtlOps,           \* the operations clients ask for
  StartErrors,      \* the ways Start() may fail
  ExitStatus,       \* how processes end: "exited" with status 0, or "failed"
  SerialConsoleOff, \* ro.boot.serialconsole is "0"
  CtlLimit          \* the 100 of QueueControlMessage

Flag == {"DISABLED", "ONESHOT", "RUNNING", "RESTARTING", "CONSOLE", "CRITICAL",
         "RESET", "RC_DISABLED", "RESTART", "DISABLED_START", "EXEC", "TEMPORARY"}

Slot == Service \cup Temp

OpName == {"start", "start_delayed", "start_if_not_disabled", "stop", "reset",
           "restart", "restart_if_enabled", "restart_if_running", "enable",
           "exec_start", "oneshot_on", "oneshot_off", "process_actions",
           "notify_restarting"}

Op == [op : OpName, svc : Service]

(* What an .rc file can ask for; the other operations are init's own. *)
Command == [op : OpName \ {"start_delayed", "process_actions", "notify_restarting"},
            svc : Service]

ControlOp == {"start", "stop", "restart", "oneshot_on", "oneshot_off"}

ErrorName == {"no_pipe", "no_file", "no_fork", "no_cgroup"}

(* What the proofs and the model assume of the constants. *)
ASSUME ConstantsAssumption ==
  /\ Service \cap Temp = {}
  /\ NoPid \notin Pid
  /\ RcFlags \in [Service -> SUBSET {"DISABLED", "ONESHOT", "CONSOLE", "CRITICAL",
                                     "RC_DISABLED"}]
  /\ Timed \subseteq Service
  /\ Updatable \subseteq Service
  /\ RebootOnFailure \subseteq Service
  /\ OnRestart \in [Service -> Seq(Command)]
  /\ Order \in Seq(Service)
  /\ Commands \subseteq Seq(Command)
  /\ CtlOps \subseteq ControlOp
  /\ StartErrors \subseteq ErrorName
  /\ ExitStatus \subseteq {"exited", "failed"}
  /\ SerialConsoleOff \in BOOLEAN
  /\ CtlLimit \in Nat

VARIABLES
  flags,         \* [Slot -> SUBSET Flag], Service::flags_
  pid,           \* [Slot -> Pid \cup {NoPid}], Service::pid_
  prop,          \* [Service -> ...], the property init.svc.<name>
  due,           \* [Service -> BOOLEAN], the restart time or timeout has passed
  listed,        \* the temporary services in ServiceList
  is_exec,       \* Service::is_exec_service_running_
  delayed,       \* ServiceList::delayed_service_names_, without repetitions
  apex_ready,    \* is_default_mount_namespace_ready
  do_shutdown,   \* ShutdownState::do_shutdown_
  shutting_down, \* IsShuttingDown()
  pc,            \* where the main thread is in its loop
  agenda,        \* operations the current command or loop still has to run
  reaping,       \* the zombie ReapOneProcess works on
  process,       \* [Pid -> ...], the kernel's process table
  doomed,        \* pids init sent a signal to through KillProcessGroup
  ctl,           \* pending_control_messages
  client,        \* [Client -> ...], what each client is doing
  want           \* [Service -> ...], history: what was last asked of a service

svcVars == <<flags, pid, prop, due, is_exec, delayed, do_shutdown, process, doomed, want>>
sysVars == <<listed, apex_ready, shutting_down>>
msgVars == <<ctl, client>>
vars == <<svcVars, sysVars, msgVars, pc, agenda, reaping>>

Message == [op : CtlOps, svc : Service, from : Client, seen : BOOLEAN]

PcName == {"check_shutdown", "command", "actions", "wait", "reap", "reap_service",
           "waitpid", "control", "halt"}

(* Every variable has its type. *)
TypeOK ==
  /\ flags \in [Slot -> SUBSET Flag]
  /\ pid \in [Slot -> Pid \cup {NoPid}]
  /\ prop \in [Service -> {"", "running", "stopping", "stopped", "restarting"}]
  /\ due \in [Service -> BOOLEAN]
  /\ listed \in SUBSET Temp
  /\ is_exec \in BOOLEAN
  /\ delayed \in Seq(Service)
  /\ apex_ready \in BOOLEAN
  /\ do_shutdown \in BOOLEAN
  /\ shutting_down \in BOOLEAN
  /\ pc \in PcName
  /\ agenda \in Seq(Op)
  /\ reaping \in Pid \cup {NoPid}
  /\ process \in [Pid -> {"free", "alive", "exited", "failed", "foreign"}]
  /\ doomed \in SUBSET Pid
  /\ ctl \in Seq(Message)
  /\ client \in [Client -> {"idle", "waiting", "refused"}]
  /\ want \in [Service -> {"down", "enabled", "up"}]

Zombie(p) == process[p] \in {"exited", "failed"}

Running(s) == "RUNNING" \in flags[s]

Init ==
  /\ flags = [s \in Slot |-> IF s \in Service THEN RcFlags[s] ELSE {}]
  /\ pid = [s \in Slot |-> NoPid]
  /\ prop = [s \in Service |-> ""]
  /\ due = [s \in Service |-> FALSE]
  /\ listed = {}
  /\ is_exec = FALSE
  /\ delayed = << >>
  /\ apex_ready = (Updatable = {})
  /\ do_shutdown = FALSE
  /\ shutting_down = FALSE
  /\ pc = "check_shutdown"
  /\ agenda = << >>
  /\ reaping = NoPid
  /\ process = [p \in Pid |-> "free"]
  /\ doomed = {}
  /\ ctl = << >>
  /\ client = [c \in Client |-> "idle"]
  /\ want = [s \in Service |-> "down"]
----------------------------------------------------------------------------
(* Service                                                                 *)

(* trigger_shutdown on behalf of a service with reboot_on_failure. *)
ShutdownOnFailure(s) == do_shutdown' = (do_shutdown \/ s \in RebootOnFailure)

(* Service::KillProcessGroup; a service that runs always has a process. *)
KillProcessGroup(s) == doomed' = doomed \cup {pid[s]}

(* Service::ResetFlagsForStart *)
ResetFlagsForStart(f) == f \ {"DISABLED", "RESTARTING", "RESET", "RESTART", "DISABLED_START"}

(* The updatable service comes before its APEX: Start() queues it. *)
StartDelay(s, f) ==
  /\ s \in Updatable /\ ~apex_ready
  /\ delayed' = IF \E i \in DOMAIN delayed : delayed[i] = s THEN delayed
                ELSE Append(delayed, s)
  /\ flags' = [flags EXCEPT ![s] = f]
  /\ ShutdownOnFailure(s)
  /\ UNCHANGED <<pid, prop, due, is_exec, process, doomed>>

(* Wrong variant: a service that already runs is marked, and not waited for. *)
StartRunningNoWait(s, f, exec) ==
  /\ s \in Updatable => apex_ready
  /\ "RUNNING" \in f
  /\ flags' = [flags EXCEPT ![s] = ResetFlagsForStart(f) \cup (IF exec THEN {"EXEC"} ELSE {})]
  /\ UNCHANGED <<pid, prop, due, is_exec, delayed, do_shutdown, process, doomed>>

(* Starting a running service is a success that forks nothing; a oneshot    *)
(* that was told to stop is marked so that Reap() restarts it.              *)
StartRunning(s, f, exec) ==
  /\ s \in Updatable => apex_ready
  /\ "RUNNING" \in f
  /\ flags' = [flags EXCEPT ![s] =
        ResetFlagsForStart(f)
          \cup (IF "ONESHOT" \in f /\ f \cap {"DISABLED", "RESET"} # {} THEN {"RESTART"}
                ELSE {})
          \cup (IF exec THEN {"EXEC"} ELSE {})]
  /\ is_exec' = (is_exec \/ exec)
  /\ UNCHANGED <<pid, prop, due, delayed, do_shutdown, process, doomed>>

(* The errors Start() may meet before the fork; fork() fails with no pid left. *)
EarlyErrors ==
  (StartErrors \cap {"no_pipe", "no_file", "no_fork"})
    \cup (IF \A p \in Pid : process[p] # "free" THEN {"no_fork"} ELSE {})

(* CheckConsole: without a serial console the service is marked disabled,   *)
(* and Start() goes on.                                                     *)
CheckConsole(f) == IF "CONSOLE" \in f /\ SerialConsoleOff THEN {"DISABLED"} ELSE {}

(* A failure before the fork: the pipes come before CheckConsole, a missing *)
(* executable or console disables the service, and a failing SELinux context *)
(* or fork() leaves what CheckConsole did.                                   *)
StartNotForked(s, f) ==
  /\ s \in Updatable => apex_ready
  /\ "RUNNING" \notin f
  /\ \E e \in EarlyErrors :
       flags' = [flags EXCEPT ![s] =
                   ResetFlagsForStart(f) \cup (CASE e = "no_pipe" -> {}
                                                [] e = "no_file" -> {"DISABLED"}
                                                [] e = "no_fork" -> CheckConsole(f))]
  /\ ShutdownOnFailure(s)
  /\ UNCHANGED <<pid, prop, due, is_exec, delayed, process, doomed>>

(* The fork, and what the parent does after it: pid_ and SVC_RUNNING are set *)
(* before the cgroup is made and setsid() is awaited, either of which may    *)
(* fail; init.svc.<name> becomes "running" only when they succeed.           *)
StartForked(s, f, exec) ==
  /\ s \in Updatable => apex_ready
  /\ "RUNNING" \notin f
  /\ \E p \in Pid, ok \in IF "no_cgroup" \in StartErrors THEN BOOLEAN ELSE {TRUE} :
       /\ process[p] = "free"
       /\ process' = [process EXCEPT ![p] = "alive"]
       /\ pid' = [pid EXCEPT ![s] = p]
       /\ flags' = [flags EXCEPT ![s] =
             ResetFlagsForStart(f) \cup CheckConsole(f) \cup {"RUNNING"}
               \cup (IF ok /\ exec THEN {"EXEC"} ELSE {})]
       /\ is_exec' = (is_exec \/ (ok /\ exec))
       /\ prop' = IF ok THEN [prop EXCEPT ![s] = "running"] ELSE prop
       /\ do_shutdown' = (do_shutdown \/ (~ok /\ s \in RebootOnFailure))
  /\ due' = [due EXCEPT ![s] = FALSE]
  /\ UNCHANGED <<delayed, doomed>>

(* Service::Start, from flags f; exec is TRUE when ExecStart() calls it. *)
StartWith(s, f, exec) ==
  \/ StartDelay(s, f)
  \/ StartRunning(s, f, exec)
  \/ StartNotForked(s, f)
  \/ StartForked(s, f, exec)

Start(s) == StartWith(s, flags[s], FALSE)

(* Service::ExecStart never delays; its guard reboots on any failure. *)
ExecStart(s) ==
  \/ /\ s \in Updatable /\ ~apex_ready
     /\ ShutdownOnFailure(s)
     /\ UNCHANGED <<flags, pid, prop, due, is_exec, delayed, process, doomed>>
  \/ /\ s \in Updatable => apex_ready
     /\ StartWith(s, flags[s] \cup {"ONESHOT"}, TRUE)

(* Wrong variant: the pending restart survives the stop. *)
StopFlagsKeepRestarting(f, how) ==
  ((f \ {"DISABLED_START"}) \cup {how})
    \ (IF how = "RESTART" THEN {"DISABLED", "RESET"} ELSE {"RESTART"})

(* Wrong variant: the restart a service was marked for wins over a stop. *)
StopFlagsRestartWins(f, how) ==
  LET g == f \ {"RESTARTING", "DISABLED_START"}
      h == IF how = "RESET" /\ "RC_DISABLED" \in f THEN "DISABLED" ELSE how
  IN  IF "RESTART" \in f THEN g
      ELSE (g \cup {h}) \ (IF how = "RESTART" THEN {"DISABLED", "RESET"} ELSE {"RESTART"})

(* Service::StopOrReset: the flags ... *)
StopFlags(f, how) ==
  LET g == f \ {"RESTARTING", "DISABLED_START"}
      h == IF how = "RESET" /\ "RC_DISABLED" \in f THEN "DISABLED" ELSE how
  IN  (g \cup {h}) \ (IF how = "RESTART" THEN {"DISABLED", "RESET"} ELSE {"RESTART"})

(* Wrong variant: kills without looking at pid_. *)
StopOrResetAlwaysKill(s, how) ==
  /\ flags' = [flags EXCEPT ![s] = StopFlags(@, how)]
  /\ KillProcessGroup(s)
  /\ prop' = [prop EXCEPT ![s] = "stopping"]
  /\ UNCHANGED <<pid, due, is_exec, delayed, do_shutdown, process>>

(* ... and the process, if there is one. *)
StopOrReset(s, how) ==
  /\ flags' = [flags EXCEPT ![s] = StopFlags(@, how)]
  /\ IF pid[s] # NoPid
     THEN KillProcessGroup(s) /\ prop' = [prop EXCEPT ![s] = "stopping"]
     ELSE UNCHANGED doomed /\ prop' = [prop EXCEPT ![s] = "stopped"]
  /\ UNCHANGED <<pid, due, is_exec, delayed, do_shutdown, process>>

NoServiceChange ==
  UNCHANGED <<flags, pid, prop, due, is_exec, delayed, do_shutdown, process, doomed>>

(* Service::Restart *)
Restart(s) ==
  \/ Running(s) /\ StopOrReset(s, "RESTART")
  \/ ~Running(s) /\ "RESTARTING" \notin flags[s] /\ Start(s)
  \/ ~Running(s) /\ "RESTARTING" \in flags[s] /\ NoServiceChange

(* Service::StartIfNotDisabled *)
StartIfNotDisabled(s) ==
  \/ "DISABLED" \notin flags[s] /\ Start(s)
  \/ /\ "DISABLED" \in flags[s]
     /\ flags' = [flags EXCEPT ![s] = @ \cup {"DISABLED_START"}]
     /\ UNCHANGED <<pid, prop, due, is_exec, delayed, do_shutdown, process, doomed>>

(* Service::Enable *)
Enable(s) ==
  LET f == flags[s] \ {"DISABLED", "RC_DISABLED"}
  IN  \/ "DISABLED_START" \in f /\ StartWith(s, f, FALSE)
      \/ /\ "DISABLED_START" \notin f
         /\ flags' = [flags EXCEPT ![s] = f]
         /\ UNCHANGED <<pid, prop, due, is_exec, delayed, do_shutdown, process, doomed>>

(* Service::Timeout *)
Timeout(s) ==
  /\ KillProcessGroup(s)
  /\ prop' = [prop EXCEPT ![s] = "stopping"]
  /\ UNCHANGED <<flags, pid, due, is_exec, delayed, do_shutdown, process>>

(* set_oneshot *)
SetOneshot(s, value) ==
  /\ flags' = [flags EXCEPT ![s] = IF value THEN @ \cup {"ONESHOT"} ELSE @ \ {"ONESHOT"}]
  /\ UNCHANGED <<pid, prop, due, is_exec, delayed, do_shutdown, process, doomed>>

(* Wrong variant: a time that has passed is enough. *)
ProcessActionsAnyDue(s) ==
  \/ Running(s) /\ s \in Timed /\ due[s] /\ Timeout(s)
  \/ ~Running(s) /\ due[s] /\ Start(s)
  \/ ~(Running(s) /\ s \in Timed /\ due[s]) /\ ~(~Running(s) /\ due[s]) /\ NoServiceChange

(* The body of the loop of HandleProcessActions for one service. *)
ProcessActions(s) ==
  \/ Running(s) /\ s \in Timed /\ due[s] /\ Timeout(s)
  \/ ~Running(s) /\ "RESTARTING" \in flags[s] /\ due[s] /\ Start(s)
  \/ /\ ~(Running(s) /\ s \in Timed /\ due[s])
     /\ ~(~Running(s) /\ "RESTARTING" \in flags[s] /\ due[s])
     /\ NoServiceChange

(* History: what was last asked of s.  An automatic restart asks nothing.    *)
(* The start that was put off until the APEXes were there is still the one    *)
(* somebody asked for, and counts as asked for when it is carried out, even   *)
(* after a stop: StopOrReset does not take the service off that list.         *)
Asks(s, w) == want' = [want EXCEPT ![s] = w]

(* One operation on one service, as a command, a control message or a loop  *)
(* of the main thread performs it.                                          *)
Perform(op, s) ==
  \/ op = "start" /\ Start(s) /\ Asks(s, "up")
  \/ op = "start_delayed" /\ Start(s) /\ Asks(s, "up")
  \/ op = "start_if_not_disabled" /\ StartIfNotDisabled(s)
       /\ IF "DISABLED" \in flags[s] THEN UNCHANGED want ELSE Asks(s, "up")
  \/ op = "stop" /\ StopOrReset(s, "DISABLED") /\ Asks(s, "down")
  \/ op = "reset" /\ StopOrReset(s, "RESET") /\ Asks(s, "down")
  \/ op = "restart" /\ Restart(s) /\ Asks(s, "up")
  \/ op = "restart_if_enabled" /\ "DISABLED" \notin flags[s] /\ Restart(s) /\ Asks(s, "up")
  \/ op = "restart_if_enabled" /\ "DISABLED" \in flags[s] /\ NoServiceChange /\ UNCHANGED want
  \/ op = "restart_if_running" /\ Running(s) /\ Restart(s) /\ Asks(s, "up")
  \/ op = "restart_if_running" /\ ~Running(s) /\ NoServiceChange /\ UNCHANGED want
  \/ op = "enable" /\ Enable(s)
       /\ Asks(s, IF "DISABLED_START" \in flags[s] THEN "up"
                  ELSE IF want[s] = "down" THEN "enabled" ELSE want[s])
  \/ op = "exec_start" /\ ExecStart(s) /\ Asks(s, "up")
  \/ op = "oneshot_on" /\ SetOneshot(s, TRUE) /\ UNCHANGED want
  \/ op = "oneshot_off" /\ SetOneshot(s, FALSE) /\ UNCHANGED want
  \/ op = "process_actions" /\ ProcessActions(s) /\ UNCHANGED want
  \/ op = "notify_restarting" /\ prop' = [prop EXCEPT ![s] = "restarting"]
       /\ UNCHANGED <<flags, pid, due, is_exec, delayed, do_shutdown, process, doomed,
                      want>>
----------------------------------------------------------------------------
(* The main thread                                                         *)

(* Commands on a class: one operation per member, in list order. *)
ForEachServiceInClass(op, members) ==
  [i \in DOMAIN members |-> [op |-> op, svc |-> members[i]]]

(* The next operation of the command, class or onrestart list in progress. *)
RunOp ==
  /\ agenda # << >>
  /\ Perform(Head(agenda).op, Head(agenda).svc)
  /\ agenda' = Tail(agenda)
  /\ UNCHANGED <<sysVars, pc, reaping, msgVars>>

At(label) == pc = label /\ agenda = << >>

(* CheckShutdown, and HandlePowerctlMessage up to EnterShutdown: no exec is  *)
(* waited for any more.                                                     *)
CheckShutdown ==
  /\ At("check_shutdown")
  /\ pc' = "command"
  /\ IF do_shutdown /\ ~shutting_down
     THEN /\ do_shutdown' = FALSE
          /\ shutting_down' = TRUE
          /\ is_exec' = FALSE
          /\ flags' = [s \in Slot |-> IF s \in Service \cup listed THEN flags[s] \ {"EXEC"}
                                      ELSE flags[s]]
     ELSE UNCHANGED <<do_shutdown, shutting_down, is_exec, flags>>
  /\ UNCHANGED <<pid, prop, due, listed, delayed, apex_ready, agenda, reaping, process,
                 doomed, msgVars, want>>

(* ActionManager::ExecuteOneCommand is skipped while an exec runs; it may    *)
(* find nothing to do.                                                      *)
SkipCommand ==
  /\ At("command")
  /\ pc' = "actions"
  /\ UNCHANGED <<svcVars, sysVars, agenda, reaping, msgVars>>

ExecuteCommand ==
  /\ At("command") /\ ~is_exec
  /\ agenda' \in Commands
  /\ pc' = "actions"
  /\ UNCHANGED <<svcVars, sysVars, reaping, msgVars>>

(* exec and exec_background: the temporary service enters the list only when *)
(* it started; when Start() fails after the fork the object is dropped and   *)
(* its child is nobody's.                                                   *)
ExecTemporary ==
  /\ At("command") /\ ~is_exec
  /\ \E s \in Temp \ listed, exec \in BOOLEAN :
       \/ /\ EarlyErrors # {}
          /\ UNCHANGED <<flags, pid, is_exec, process, listed>>
       \/ \E p \in Pid, ok \in IF "no_cgroup" \in StartErrors THEN BOOLEAN ELSE {TRUE} :
            /\ process[p] = "free"
            /\ process' = [process EXCEPT ![p] = "alive"]
            /\ IF ok
               THEN /\ pid' = [pid EXCEPT ![s] = p]
                    /\ flags' = [flags EXCEPT ![s] = {"ONESHOT", "TEMPORARY", "RUNNING"}
                                               \cup (IF exec THEN {"EXEC"} ELSE {})]
                    /\ is_exec' = exec
                    /\ listed' = listed \cup {s}
               ELSE UNCHANGED <<pid, flags, is_exec, listed>>
  /\ pc' = "actions"
  /\ UNCHANGED <<prop, due, delayed, apex_ready, do_shutdown, shutting_down, agenda,
                 reaping, doomed, msgVars, want>>

(* do_perform_apex_config: the linker configuration is there, so the        *)
(* services that waited for it are started.                                 *)
PerformApexConfig ==
  /\ At("command") /\ ~is_exec /\ ~apex_ready
  /\ apex_ready' = TRUE
  /\ agenda' = ForEachServiceInClass("start_delayed", delayed)
  /\ delayed' = << >>
  /\ pc' = "actions"
  /\ UNCHANGED <<flags, pid, prop, due, listed, is_exec, do_shutdown, shutting_down,
                 reaping, process, doomed, msgVars, want>>

(* The command shutdown_done: DoReboot does not return. *)
Reboot ==
  /\ At("command") /\ shutting_down /\ ~is_exec
  /\ pc' = "halt"
  /\ UNCHANGED <<svcVars, sysVars, agenda, reaping, msgVars>>

(* HandleProcessActions runs over the whole list. *)
HandleProcessActions ==
  /\ At("actions")
  /\ agenda' = IF shutting_down THEN << >> ELSE ForEachServiceInClass("process_actions", Order)
  /\ pc' = "wait"
  /\ UNCHANGED <<svcVars, sysVars, reaping, msgVars>>

(* Epoll::Wait: the first callback and the SIGCHLD handler reap; a timeout    *)
(* goes straight on to the control messages, and it cannot come while a       *)
(* SIGCHLD is pending, so not while there is a zombie (InitLoop).             *)
EpollWait ==
  /\ At("wait")
  /\ \/ pc' = "reap"
     \/ pc' = "control" /\ \A p \in Pid : ~Zombie(p)
  /\ UNCHANGED <<svcVars, sysVars, agenda, reaping, msgVars>>

(* Wrong variant: waitid() without WNOWAIT gives the pid back at once. *)
FindZombieWithoutNoWait ==
  /\ At("reap")
  /\ \E p \in Pid : /\ Zombie(p) /\ reaping' = p
                    /\ process' = [process EXCEPT ![p] = "free"]
  /\ pc' = "reap_service"
  /\ UNCHANGED <<flags, pid, prop, due, is_exec, delayed, do_shutdown, doomed, want, sysVars,
                 agenda, msgVars>>

(* ReapOneProcess, first part: waitid() with WNOWAIT picks a zombie ... *)
FindZombie ==
  /\ At("reap")
  /\ \E p \in Pid : Zombie(p) /\ reaping' = p
  /\ pc' = "reap_service"
  /\ UNCHANGED <<svcVars, sysVars, agenda, msgVars>>

(* ... or finds none, and ReapAnyOutstandingChildren returns. *)
NoZombie ==
  /\ At("reap")
  /\ \A p \in Pid : ~Zombie(p)
  /\ pc' = "control"
  /\ UNCHANGED <<svcVars, sysVars, agenda, reaping, msgVars>>

(* A zombie without a service is only waited for. *)
ReapUntracked ==
  /\ At("reap_service")
  /\ \A s \in Service \cup listed : pid[s] # reaping
  /\ pc' = "waitpid"
  /\ UNCHANGED <<svcVars, sysVars, agenda, reaping, msgVars>>

(* Wrong variant: only the service's own flag is cleared. *)
UnSetExecFlagOnly(s) == is_exec' = is_exec

(* Service::UnSetExec, called for a service that init waits for. *)
UnSetExec(s) == is_exec' = (is_exec /\ "EXEC" \notin flags[s])

(* Service::Reap of a temporary service, and RemoveService. *)
ReapTemporary(s) ==
  /\ At("reap_service") /\ s \in listed /\ pid[s] = reaping
  /\ KillProcessGroup(s)
  /\ UnSetExec(s)
  /\ listed' = listed \ {s}
  /\ flags' = [flags EXCEPT ![s] = {}]
  /\ pid' = [pid EXCEPT ![s] = NoPid]
  /\ pc' = "waitpid"
  /\ UNCHANGED <<prop, due, delayed, apex_ready, do_shutdown, shutting_down, agenda,
                 reaping, process, msgVars, want>>

(* The flags after "Oneshot processes go into the disabled state on exit". *)
FlagsAtExit(f) ==
  (f \ {"RUNNING", "EXEC"})
    \cup (IF "ONESHOT" \in f /\ f \cap {"RESTART", "RESET"} = {} THEN {"DISABLED"} ELSE {})

(* Service::Reap: a stopped service stays down, any other one waits to be    *)
(* restarted, and its onrestart commands run before the property says so.    *)
(* A critical service that failed may take the system down.                  *)
Reap(s) ==
  /\ At("reap_service") /\ s \in Service /\ pid[s] = reaping
  /\ KillProcessGroup(s)
  /\ do_shutdown' = (do_shutdown \/ (process[reaping] = "failed" /\ s \in RebootOnFailure))
  /\ UnSetExec(s)
  /\ pid' = [pid EXCEPT ![s] = NoPid]
  /\ due' = [due EXCEPT ![s] = FALSE]
  /\ LET f == FlagsAtExit(flags[s])
     IN  \/ /\ f \cap {"DISABLED", "RESET"} # {}
            /\ flags' = [flags EXCEPT ![s] = f]
            /\ prop' = [prop EXCEPT ![s] = "stopped"]
            /\ agenda' = << >>
            /\ pc' = "waitpid"
         \/ /\ f \cap {"DISABLED", "RESET"} = {}
            /\ flags' = [flags EXCEPT ![s] = (f \ {"RESTART"}) \cup {"RESTARTING"}]
            /\ agenda' = OnRestart[s] \o << [op |-> "notify_restarting", svc |-> s] >>
            /\ pc' = "waitpid"
            /\ UNCHANGED prop
         \/ /\ f \cap {"DISABLED", "RESET", "RESTART"} = {}
            /\ "CRITICAL" \in f /\ process[reaping] = "failed"
            /\ flags' = [flags EXCEPT ![s] = f]
            /\ pc' = "halt"
            /\ UNCHANGED <<prop, agenda>>
  /\ UNCHANGED <<sysVars, delayed, reaping, process, msgVars, want>>

(* The scope guard of ReapOneProcess: waitpid() gives the pid back. *)
WaitPid ==
  /\ At("waitpid")
  /\ process' = [process EXCEPT ![reaping] = "free"]
  /\ doomed' = doomed \ {reaping}
  /\ reaping' = NoPid
  /\ pc' = "reap"
  /\ UNCHANGED <<flags, pid, prop, due, sysVars, is_exec, delayed, do_shutdown, agenda,
                 msgVars, want>>

(* HandleControlMessages: one message per turn, answered when it is done;    *)
(* the thread wakes itself for the rest.                                    *)
HandleControlMessage ==
  /\ At("control") /\ ~shutting_down /\ ctl # << >>
  /\ Perform(Head(ctl).op, Head(ctl).svc)
  /\ client' = [client EXCEPT ![Head(ctl).from] = "idle"]
  /\ ctl' = Tail(ctl)
  /\ pc' = "check_shutdown"
  /\ UNCHANGED <<sysVars, agenda, reaping>>

NoControlMessage ==
  /\ At("control") /\ (shutting_down \/ ctl = << >>)
  /\ pc' = "check_shutdown"
  /\ UNCHANGED <<svcVars, sysVars, agenda, reaping, msgVars>>

MainThread ==
  \/ RunOp \/ CheckShutdown \/ SkipCommand \/ ExecuteCommand \/ ExecTemporary
  \/ PerformApexConfig \/ Reboot \/ HandleProcessActions \/ EpollWait
  \/ FindZombie \/ NoZombie \/ ReapUntracked
  \/ \E s \in Service : Reap(s)
  \/ \E s \in Temp : ReapTemporary(s)
  \/ WaitPid \/ HandleControlMessage \/ NoControlMessage
----------------------------------------------------------------------------
(* The rest of the system                                                  *)

(* A child of init ends. *)
Exit(p) ==
  /\ pc # "halt" /\ process[p] = "alive"
  /\ \E how \in ExitStatus : process' = [process EXCEPT ![p] = how]
  /\ UNCHANGED <<flags, pid, prop, due, sysVars, is_exec, delayed, do_shutdown, pc, agenda,
                 reaping, doomed, msgVars, want>>

(* A free pid goes to a process of someone else, which ends, or whose parent *)
(* ends first so that init inherits it.                                      *)
Stranger(p) ==
  /\ pc # "halt"
  /\ \/ process[p] = "free" /\ process' = [process EXCEPT ![p] = "foreign"]
     \/ process[p] = "foreign" /\ process' = [process EXCEPT ![p] = "free"]
     \/ process[p] = "foreign" /\ process' = [process EXCEPT ![p] = "alive"]
  /\ UNCHANGED <<flags, pid, prop, due, sysVars, is_exec, delayed, do_shutdown, pc, agenda,
                 reaping, doomed, msgVars, want>>

(* The restart time of a service, or its timeout, passes. *)
Elapse(s) ==
  /\ pc # "halt" /\ ~due[s]
  /\ "RESTARTING" \in flags[s] \/ (Running(s) /\ s \in Timed)
  /\ due' = [due EXCEPT ![s] = TRUE]
  /\ UNCHANGED <<flags, pid, prop, sysVars, is_exec, delayed, do_shutdown, pc, agenda,
                 reaping, process, doomed, msgVars, want>>

(* QueueControlMessage on the property thread: dropped above the limit, and  *)
(* refused once a shutdown stopped the messages.  seen records that the      *)
(* process of the service had already ended when the client asked.           *)
SendControl(c) ==
  /\ pc # "halt" /\ client[c] # "waiting"
  /\ IF Len(ctl) > CtlLimit \/ shutting_down
     THEN client' = [client EXCEPT ![c] = "refused"] /\ UNCHANGED ctl
     ELSE /\ client' = [client EXCEPT ![c] = "waiting"]
          /\ \E o \in CtlOps, s \in Service :
               ctl' = Append(ctl, [op |-> o, svc |-> s, from |-> c,
                                   seen |-> pid[s] # NoPid /\ Zombie(pid[s])])
  /\ UNCHANGED <<svcVars, sysVars, pc, agenda, reaping>>

Environment ==
  \/ \E p \in Pid : Exit(p) \/ Stranger(p)
  \/ \E s \in Service : Elapse(s)
  \/ \E c \in Client : SendControl(c)

Halted == pc = "halt" /\ UNCHANGED vars

Next == MainThread \/ Environment \/ Halted

Spec == Init /\ [][Next]_vars
----------------------------------------------------------------------------
(* Properties                                                              *)

Child(p) == process[p] \in {"alive", "exited", "failed"}

(* A service has a pid exactly while SVC_RUNNING is set, that pid is a child *)
(* of init that has not been waited for, and no two services share it:       *)
(* FindService(pid) finds the right one, whatever the kernel does with pids.  *)
PidsTrackChildren ==
  \A s \in Slot :
    /\ Running(s) <=> pid[s] # NoPid
    /\ pid[s] # NoPid => Child(pid[s])
    /\ \A r \in Slot \ {s} : pid[s] # NoPid => pid[r] # pid[s]

(* KillProcessGroup never signals a process that is not a child of init, not *)
(* even when the service has ended and the pid could be reused: the reason    *)
(* why ReapOneProcess waits with WNOWAIT first and frees the pid last.        *)
KillsOnlyChildren == \A p \in doomed : Child(p)

(* While init refuses to run commands because of an exec, there is a running  *)
(* service in the list whose exit ends the wait.                              *)
ExecWaitCanEnd ==
  is_exec => \E s \in Service \cup listed : {"EXEC", "RUNNING"} \subseteq flags[s]

(* Between two operations of the main thread init.svc.<name> tells the truth: *)
(* a service that is to be restarted is "restarting", one said to be running  *)
(* or stopping is, and one that runs is said to, unless its cgroup failed.     *)
StatusIsTrue ==
  agenda = << >> /\ pc # "halt" =>
    \A s \in Service :
      /\ "RESTARTING" \in flags[s] => prop[s] = "restarting" /\ ~Running(s)
      /\ prop[s] \in {"running", "stopping"} => Running(s)
      /\ Running(s) /\ "no_cgroup" \notin StartErrors => prop[s] \in {"running", "stopping"}

(* What StatusIsTrue takes for granted: an onrestart list names its own        *)
(* service, which is waiting to be restarted, only where that has no effect.    *)
(* If it started the service, Reap() would call it "restarting" after that.     *)
OnRestartSpares ==
  \A s \in Service : \A i \in 1..Len(OnRestart[s]) :
    OnRestart[s][i].svc = s =>
      OnRestart[s][i].op \in {"restart", "restart_if_enabled", "restart_if_running",
                             "oneshot_on", "oneshot_off"}

(* A service that was last asked to stop (or never asked for) is not started  *)
(* by the restart timer, by a oneshot's SVC_RESTART, by what the death of       *)
(* another service set going or by anything else init does on its own.         *)
StoppedStaysDown ==
  [][\A s \in Service : pid[s] = NoPid /\ pid'[s] # NoPid => want'[s] # "down"]_vars

(* "Init halts executing commands until the forked process exits": no command *)
(* is taken from the queue while a service started by exec or exec_start runs. *)
ExecHaltsCommands ==
  [][pc = "command" /\ agenda = << >> /\ agenda' # << >> =>
       \A s \in Service \cup listed : ~({"EXEC", "RUNNING"} \subseteq flags[s])]_vars

(* When that is so: no onrestart list executes a service, and exec_start is a   *)
(* command of its own.                                                        *)
ExecsAlone ==
  /\ \A s \in Service : \A i \in 1..Len(OnRestart[s]) : OnRestart[s][i].op # "exec_start"
  /\ \A c \in Commands : \A i \in 1..Len(c) : c[i].op = "exec_start" => Len(c) = 1

(* A client that asks for a service whose process has already ended finds it  *)
(* reaped: ctl.start is not answered from the state of the dead process.       *)
StartSeesReapedService ==
  [][LET m == Head(ctl) IN
       ctl # << >> /\ ctl' = Tail(ctl) /\ m.op = "start" /\ m.seen =>
         ~(pid[m.svc] # NoPid /\ Zombie(pid[m.svc]))]_vars
=============================================================================
