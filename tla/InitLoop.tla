------------------------------ MODULE InitLoop ------------------------------
(***************************************************************************)
(* How the main thread of init sleeps and wakes: Epoll::Wait over the       *)
(* signalfd of SIGCHLD and the eventfd wake_main_thread_fd, its timeout,    *)
(* and the two parties it must not miss: children that end, and the         *)
(* property thread, which queues events and control messages for it.        *)
(*                                                                         *)
(* A service is reduced to one child and to whether it is waiting to be     *)
(* restarted; InitService has the rest.  Every change of a service's state  *)
(* sets init.svc.<name>, a call to the property thread that blocks the main *)
(* thread until it is answered, so the locks the two share matter:          *)
(* pending_control_messages_lock is the variable lock.                      *)
(***************************************************************************)
EXTENDS Naturals, Sequences

CONSTANTS
  Child,      \* services, each with at most one process
  Client,     \* processes that set ctl.* properties
  MaxQueue,   \* bound on the commands pending in the action queue
  CtlLimit    \* the 100 of QueueControlMessage

ASSUME LoopAssumption ==
  /\ MaxQueue \in Nat
  /\ CtlLimit \in Nat
  /\ "no" \notin Child /\ "prop" \notin Child

VARIABLES
  pc,         \* the main thread
  ppc,        \* the property thread
  call,       \* the main thread waits for the answer to SetProperty()
  serving,    \* the property thread is serving that call
  lock,       \* the property thread holds pending_control_messages_lock, or it is free
  child,      \* [Child -> ...]
  due,        \* restart times that have passed
  waiting,    \* what commands wait for: a property, an exec'd child, or nothing
  value,      \* the property waited for has the value waited for
  setting,    \* the property thread is setting that property to that value
  triggers,   \* property_triggers_enabled
  queue,      \* number of commands ready to run
  ctl,        \* pending_control_messages
  client,     \* [Client -> ...]
  current,    \* the control message being handled
  sigchld, wake, ready, timeout,
  do_shutdown, shutting_down

vars == <<pc, ppc, call, serving, lock, child, due, waiting, value, setting, triggers,
          queue, ctl, client, current, sigchld, wake, ready, timeout, do_shutdown, shutting_down>>

TypeOK ==
  /\ pc \in {"top", "stop_messages", "command", "actions", "wait", "reap", "handlers", "control", "handle", "reply",
            "halt"}
  /\ ppc \in {"idle", "set", "notify", "wake", "waiter", "ctl", "ctl_wake"}
  /\ call \in BOOLEAN /\ serving \in BOOLEAN
  /\ lock \in {"free", "prop"}
  /\ child \in [Child -> {"down", "alive", "zombie", "restarting"}]
  /\ due \in SUBSET Child
  /\ waiting \in Child \cup {"no", "prop"}
  /\ value \in BOOLEAN /\ setting \in BOOLEAN /\ triggers \in BOOLEAN
  /\ queue \in 0..(MaxQueue + 1)
  /\ ctl \in Seq(Client) /\ Len(ctl) <= CtlLimit + 1
  /\ client \in [Client -> {"idle", "asking", "waiting"}]
  /\ current \in SUBSET Client
  /\ sigchld \in BOOLEAN /\ wake \in BOOLEAN
  /\ ready \in SUBSET {"sigchld", "wake"}
  /\ timeout \in {"none", "now", "timer"}
  /\ do_shutdown \in BOOLEAN /\ shutting_down \in BOOLEAN

Init ==
  /\ pc = "top" /\ ppc = "idle" /\ call = FALSE /\ serving = FALSE /\ lock = "free"
  /\ child = [c \in Child |-> "down"]
  /\ due = {} /\ waiting = "no" /\ queue = MaxQueue
  /\ value = FALSE /\ setting = FALSE /\ triggers = FALSE
  /\ ctl = << >> /\ client = [k \in Client |-> "idle"] /\ current = {}
  /\ sigchld = FALSE /\ wake = FALSE /\ ready = {} /\ timeout = "none"
  /\ do_shutdown = FALSE /\ shutting_down = FALSE

propVars == <<ppc, serving, value, setting, client>>
msgVars == <<lock, ctl, current>>
fdVars == <<sigchld, wake>>
downVars == <<do_shutdown, shutting_down>>
----------------------------------------------------------------------------
(* The main thread                                                         *)

Main(label) == pc = label /\ ~call

(* CheckShutdown: nothing to do, a command that HandlePowerctlMessage does    *)
(* not know and ignores, or one that it carries out.                          *)
Top ==
  /\ Main("top")
  /\ \/ /\ ~do_shutdown \/ shutting_down
        /\ pc' = "command"
        /\ UNCHANGED do_shutdown
     \/ /\ do_shutdown /\ ~shutting_down
        /\ pc' \in {"command", "stop_messages"}
        /\ do_shutdown' = FALSE
  /\ UNCHANGED <<propVars, msgVars, fdVars, shutting_down, triggers, call, child, due,
                 waiting, queue, ready, timeout>>

(* PropertyChanged and SendControlMessage run under accept_messages_lock. *)
AcceptMessagesLocked == ppc \in {"notify", "wake", "waiter", "ctl", "ctl_wake"}

(* StopSendingMessages waits for the property thread; then the queue is filled *)
(* with the commands of the shutdown actions, shutdown_done after them, and    *)
(* EnterShutdown gives up any wait.                                           *)
StopSendingMessages ==
  /\ Main("stop_messages") /\ ~AcceptMessagesLocked
  /\ pc' = "command"
  /\ shutting_down' = TRUE
  /\ waiting' = "no" /\ queue' = MaxQueue + 1
  /\ UNCHANGED <<propVars, msgVars, fdVars, do_shutdown, triggers, call, child, due,
                 ready, timeout>>

(* Wrong variant: waits for what is already there. *)
StartWaitingUnchecked == waiting' = "prop"

(* StartWaiting looks at the property first. *)
StartWaiting == ~value /\ waiting' = "prop"

(* What one command may do: enable the property triggers, set a property or   *)
(* nothing of interest, wait for a property unless it has its value already,  *)
(* or start a service, which exec_start waits for.                            *)
DoCommand ==
  \/ triggers' = TRUE /\ UNCHANGED <<waiting, child, call>>
  \/ call' \in BOOLEAN /\ UNCHANGED <<waiting, child, triggers>>
  \/ StartWaiting /\ UNCHANGED <<child, call, triggers>>
  \/ \E c \in Child :
       /\ child[c] = "down"
       /\ child' = [child EXCEPT ![c] = "alive"]
       /\ waiting' \in {"no", c}
       /\ call' = TRUE
       /\ UNCHANGED triggers

(* Wrong variant: an empty queue is not noticed. *)
MayExecuteUnchecked == waiting = "no"

(* Neither a property nor an exec'd child is waited for, and a command is left. *)
MayExecute == waiting = "no" /\ queue > 0

(* ExecuteOneCommand, unless init waits.  The last command of a shutdown is   *)
(* shutdown_done, which does not return.                                      *)
Command ==
  /\ Main("command")
  /\ \/ /\ ~MayExecute
        /\ pc' = "actions"
        /\ UNCHANGED <<waiting, queue, timeout, child, call, triggers>>
     \/ /\ MayExecute /\ ~(shutting_down /\ queue = 1)
        /\ pc' = "actions"
        /\ queue' = queue - 1
        /\ timeout' = IF queue > 1 THEN "now" ELSE "none"
        /\ DoCommand
     \/ /\ MayExecute /\ shutting_down /\ queue = 1
        /\ pc' = "halt" /\ queue' = 0
        /\ UNCHANGED <<waiting, timeout, child, call, triggers>>
  /\ UNCHANGED <<propVars, msgVars, fdVars, downVars, due, ready>>

(* Services that HandleProcessActions starts. *)
Ripe == {c \in due : child[c] = "restarting"}

(* Wrong variant: the next restart is left out of the timeout. *)
NextTimeoutWithoutRestarts == timeout

(* The timeout of epoll_wait: zero if commands are left, else until the next    *)
(* restart.                                                                   *)
NextTimeout ==
  IF timeout = "none" /\ \E c \in Child \ due : child[c] = "restarting" THEN "timer" ELSE timeout

(* HandleProcessActions, and the timeout that SecondStageMain makes of it. *)
HandleProcessActions ==
  /\ Main("actions")
  /\ pc' = "wait"
  /\ IF shutting_down
     THEN UNCHANGED <<child, due, call, timeout>>
     ELSE /\ child' = [c \in Child |-> IF c \in Ripe THEN "alive" ELSE child[c]]
          /\ due' = due \ Ripe
          /\ call' = (Ripe # {})
          /\ timeout' = NextTimeout
  /\ UNCHANGED <<triggers, propVars, msgVars, fdVars, downVars, waiting, queue, ready>>

(* epoll_wait reports a file descriptor, and the first callback runs; the     *)
(* timeout is this turn's own.                                                *)
EpollReady ==
  /\ Main("wait")
  /\ sigchld \/ wake
  /\ ready' = (IF sigchld THEN {"sigchld"} ELSE {}) \cup (IF wake THEN {"wake"} ELSE {})
  /\ pc' = "reap" /\ timeout' = "none"
  /\ UNCHANGED <<triggers, propVars, msgVars, fdVars, downVars, call, child, due, waiting, queue>>

(* epoll_wait times out: no callback, no handler. *)
EpollTimeout ==
  /\ Main("wait")
  /\ ~sigchld /\ ~wake
  /\ timeout = "now" \/ (timeout = "timer" /\ Ripe # {})
  /\ pc' = "control" /\ timeout' = "none"
  /\ UNCHANGED <<triggers, propVars, msgVars, fdVars, downVars, call, child, due, waiting, queue, ready>>

(* ReapOneProcess; a service that stops or restarts tells the property. *)
ReapOneProcess(c) ==
  /\ Main("reap")
  /\ child[c] = "zombie"
  /\ child' \in {[child EXCEPT ![c] = "down"], [child EXCEPT ![c] = "restarting"]}
  /\ waiting' = IF waiting = c THEN "no" ELSE waiting
  /\ call' = TRUE
  /\ UNCHANGED <<triggers, propVars, msgVars, fdVars, downVars, pc, due, queue, ready, timeout>>

ReapDone ==
  /\ Main("reap")
  /\ \A c \in Child : child[c] # "zombie"
  /\ pc' = "handlers"
  /\ UNCHANGED <<triggers, propVars, msgVars, fdVars, downVars, call, child, due, waiting, queue, ready,
                 timeout>>

(* Wrong variant: trusts the first callback to have reaped everything. *)
HandleSignalFdNoReap ==
  /\ Main("handlers") /\ "sigchld" \in ready
  /\ ready' = ready \ {"sigchld"}
  /\ sigchld' = FALSE
  /\ UNCHANGED <<triggers, propVars, msgVars, downVars, pc, wake, call, child, due, waiting, queue,
                 timeout>>

(* HandleSignalFd: one read takes every SIGCHLD that has come since the first *)
(* callback, so the children are reaped again after it.                       *)
HandleSignalFd ==
  /\ Main("handlers") /\ "sigchld" \in ready
  /\ ready' = ready \ {"sigchld"}
  /\ sigchld' = FALSE
  /\ pc' = "reap"
  /\ UNCHANGED <<triggers, propVars, msgVars, downVars, wake, call, child, due, waiting, queue, timeout>>

(* clear_eventfd *)
ClearEventFd ==
  /\ Main("handlers") /\ "wake" \in ready
  /\ ready' = ready \ {"wake"}
  /\ wake' = FALSE
  /\ UNCHANGED <<triggers, propVars, msgVars, downVars, pc, sigchld, call, child, due, waiting, queue,
                 timeout>>

HandlersDone ==
  /\ Main("handlers") /\ ready = {}
  /\ pc' = "control"
  /\ UNCHANGED <<triggers, propVars, msgVars, fdVars, downVars, call, child, due, waiting, queue, ready,
                 timeout>>

(* HandleControlMessages is not called during a shutdown. *)
SkipControl ==
  /\ Main("control") /\ shutting_down
  /\ pc' = "top"
  /\ UNCHANGED <<triggers, propVars, msgVars, fdVars, downVars, call, child, due, waiting, queue, ready,
                 timeout>>

(* HandleControlMessages pops one message under the lock and lets it go ... *)
PopControl ==
  /\ Main("control") /\ ~shutting_down /\ lock = "free"
  /\ IF ctl = << >>
     THEN pc' = "top" /\ UNCHANGED <<ctl, current>>
     ELSE pc' = "handle" /\ current' = {Head(ctl)} /\ ctl' = Tail(ctl)
  /\ UNCHANGED <<triggers, propVars, fdVars, downVars, lock, call, child, due, waiting, queue, ready,
                 timeout>>

(* ... handles it, which may start a service ... *)
HandleControlMessage ==
  /\ Main("handle")
  /\ pc' = "reply"
  /\ \/ call' \in BOOLEAN /\ UNCHANGED child
     \/ \E c \in Child : /\ child[c] = "down"
                         /\ child' = [child EXCEPT ![c] = "alive"]
                         /\ call' = TRUE
  /\ UNCHANGED <<triggers, propVars, msgVars, fdVars, downVars, due, waiting, queue, ready, timeout>>

(* Wrong variant: the rest of the queue is left for the next wake-up. *)
ReplyNoWake ==
  /\ Main("reply") /\ lock = "free"
  /\ client' = [k \in Client |-> IF k \in current THEN "idle" ELSE client[k]]
  /\ current' = {}
  /\ pc' = "top"
  /\ UNCHANGED <<triggers, ppc, serving, value, setting, lock, ctl, sigchld, wake, downVars, call, child, due, waiting, queue,
                 ready, timeout>>

(* ... answers, takes the lock again and wakes itself up for the rest. *)
Reply ==
  /\ Main("reply") /\ lock = "free"
  /\ client' = [k \in Client |-> IF k \in current THEN "idle" ELSE client[k]]
  /\ current' = {}
  /\ wake' = (wake \/ ctl # << >>)
  /\ pc' = "top"
  /\ UNCHANGED <<triggers, ppc, serving, value, setting, lock, ctl, sigchld, downVars, call, child, due, waiting, queue, ready,
                 timeout>>

MainThread ==
  \/ Top \/ StopSendingMessages \/ Command \/ HandleProcessActions \/ EpollReady \/ EpollTimeout
  \/ \E c \in Child : ReapOneProcess(c)
  \/ ReapDone \/ HandleSignalFd \/ ClearEventFd \/ HandlersDone
  \/ SkipControl \/ PopControl \/ HandleControlMessage \/ Reply

----------------------------------------------------------------------------
(* The property thread                                                     *)

mainVars == <<pc, child, due, waiting, triggers, ready, timeout, current, shutting_down>>

(* handle_property_set_fd accepts a connection: the call of the main thread, *)
(* which sets a property nobody waits for, ...                               *)
ServeMain ==
  /\ ppc = "idle" /\ call
  /\ serving' = TRUE /\ setting' = FALSE /\ ppc' = "set"
  /\ UNCHANGED <<mainVars, fdVars, call, lock, value, queue, ctl, client, do_shutdown>>

(* ... a set by another process, perhaps of the property waited for; the new  *)
(* value is visible before anyone is told of it, ...                          *)
SetProperty ==
  /\ ppc = "idle"
  /\ ppc' = "set" /\ serving' = FALSE
  /\ setting' \in BOOLEAN
  /\ value' \in IF setting' THEN {TRUE} ELSE {value, FALSE}
  /\ UNCHANGED <<mainVars, fdVars, call, lock, queue, ctl, client, do_shutdown>>

(* Wrong variant: the main thread is not woken up. *)
TriggerShutdownNoWake ==
  /\ ppc = "idle" /\ ~shutting_down
  /\ ppc' = "notify" /\ serving' = FALSE /\ setting' = FALSE
  /\ do_shutdown' = TRUE
  /\ UNCHANGED <<mainVars, fdVars, call, lock, value, queue, ctl, client>>

(* ... sys.powerctl, which triggers a shutdown, whatever its value, and is     *)
(* then notified like any other property, ...                                 *)
TriggerShutdown ==
  /\ ppc = "idle" /\ ~shutting_down
  /\ ppc' = "notify" /\ serving' = FALSE /\ setting' = FALSE
  /\ do_shutdown' = TRUE
  /\ wake' = TRUE
  /\ UNCHANGED <<mainVars, sigchld, call, lock, value, queue, ctl, client>>

(* ... or ctl.*, refused once a shutdown has begun. *)
SendControlMessage(k) ==
  /\ ppc = "idle" /\ client[k] = "idle" /\ ~shutting_down
  /\ ppc' = "ctl"
  /\ client' = [client EXCEPT ![k] = "asking"]
  /\ UNCHANGED <<mainVars, fdVars, call, serving, setting, lock, value, queue, ctl,
                 do_shutdown>>

(* NotifyPropertyChange takes accept_messages_lock, or finds the messages      *)
(* stopped and answers.                                                       *)
NotifyPropertyChange ==
  /\ ppc = "set"
  /\ IF shutting_down
     THEN ppc' = "idle" /\ serving' = FALSE /\ setting' = FALSE /\ call' = (call /\ ~serving)
     ELSE ppc' = "notify" /\ UNCHANGED <<serving, setting, call>>
  /\ UNCHANGED <<mainVars, fdVars, lock, value, queue, ctl, client, do_shutdown>>

(* Wrong variant: before the triggers are enabled the set is dropped. *)
QueuePropertyChangeDropped ==
  /\ ppc = "notify"
  /\ IF triggers
     THEN ppc' = "wake" /\ queue' \in {queue, queue + 1} \cap 0..MaxQueue
     ELSE ppc' = "idle" /\ UNCHANGED queue
  /\ UNCHANGED <<mainVars, fdVars, call, lock, serving, setting, value, ctl, client,
                 do_shutdown>>

(* PropertyChanged queues the event, which may trigger an action ...           *)
QueuePropertyChange ==
  /\ ppc = "notify"
  /\ IF triggers
     THEN /\ ppc' = "wake"
          /\ queue' \in {queue, queue + 1} \cap 0..MaxQueue
     ELSE ppc' = "waiter" /\ UNCHANGED queue
  /\ UNCHANGED <<mainVars, fdVars, call, lock, serving, setting, value, ctl, client,
                 do_shutdown>>

(* Wrong variant: no wake-up after the event is queued. *)
WakeMainInitThreadLost ==
  /\ ppc = "wake" /\ ppc' = "waiter"
  /\ UNCHANGED <<mainVars, fdVars, call, lock, serving, setting, value, queue, ctl, client,
                 do_shutdown>>

(* ... wakes the main thread up ...                                           *)
WakeMainInitThread ==
  /\ ppc = "wake" /\ ppc' = "waiter"
  /\ wake' = TRUE
  /\ UNCHANGED <<mainVars, sigchld, call, lock, serving, setting, value, queue, ctl, client,
                 do_shutdown>>

(* ... and ends its wait for the property; then the set is answered. *)
CheckAndResetWait ==
  /\ ppc = "waiter" /\ ppc' = "idle"
  /\ IF waiting = "prop" /\ setting
     THEN waiting' = "no" /\ wake' = TRUE
     ELSE UNCHANGED <<waiting, wake>>
  /\ setting' = FALSE
  /\ serving' = FALSE /\ call' = (call /\ ~serving)
  /\ UNCHANGED <<pc, child, due, triggers, ready, timeout, current, shutting_down, sigchld,
                 lock, value, queue, ctl, client, do_shutdown>>

(* QueueControlMessage, under pending_control_messages_lock: a full queue      *)
(* answers with an error ...                                                  *)
QueueControlMessage(k) ==
  /\ ppc = "ctl" /\ client[k] = "asking" /\ lock = "free"
  /\ IF Len(ctl) > CtlLimit
     THEN /\ ppc' = "idle"
          /\ client' = [client EXCEPT ![k] = "idle"]
          /\ UNCHANGED <<lock, ctl>>
     ELSE /\ ppc' = "ctl_wake" /\ lock' = "prop"
          /\ client' = [client EXCEPT ![k] = "waiting"]
          /\ ctl' = Append(ctl, k)
  /\ UNCHANGED <<mainVars, fdVars, call, serving, setting, value, queue, do_shutdown>>

(* ... otherwise the main thread is woken before the lock is released. *)
WakeForControlMessage ==
  /\ ppc = "ctl_wake" /\ ppc' = "idle"
  /\ wake' = TRUE /\ lock' = "free"
  /\ UNCHANGED <<mainVars, sigchld, call, serving, setting, value, queue, ctl, client,
                 do_shutdown>>

(* What the property thread does once it has begun. *)
PropertyStep ==
  \/ NotifyPropertyChange \/ QueuePropertyChange \/ WakeMainInitThread \/ CheckAndResetWait
  \/ \E k \in Client : QueueControlMessage(k)
  \/ WakeForControlMessage
----------------------------------------------------------------------------
(* The kernel                                                              *)

(* A child ends; SIGCHLD stays pending until the signalfd is read. *)
Exit(c) ==
  /\ child[c] = "alive"
  /\ child' = [child EXCEPT ![c] = "zombie"]
  /\ sigchld' = TRUE
  /\ UNCHANGED <<pc, propVars, msgVars, downVars, due, waiting, triggers, ready, timeout,
                 wake, call, queue>>

(* A restart time passes. *)
Elapse(c) ==
  /\ child[c] = "restarting" /\ c \notin due
  /\ due' = due \cup {c}
  /\ UNCHANGED <<pc, propVars, msgVars, downVars, fdVars, child, waiting, triggers, ready,
                 timeout, call, queue>>

Halted == pc = "halt" /\ UNCHANGED vars

Next ==
  \/ MainThread
  \/ pc # "halt" /\ (\/ ServeMain \/ SetProperty \/ TriggerShutdown \/ PropertyStep
                     \/ \E k \in Client : SendControlMessage(k))
  \/ pc # "halt" /\ \E c \in Child : Exit(c) \/ Elapse(c)
  \/ Halted

(* Both threads run whenever they can and time passes; a connection that has  *)
(* been made is accepted even if others come all the time (the backlog of     *)
(* listen() is a queue), and the main thread gets accept_messages_lock in the  *)
(* end although the property thread takes it again for every set.  Nothing    *)
(* makes a child end, a client ask or a property change.                      *)
Fairness ==
  /\ WF_vars(MainThread)
  /\ WF_vars(PropertyStep)
  /\ SF_vars(ServeMain)
  /\ SF_vars(StopSendingMessages)
  /\ \A c \in Child : WF_vars(Elapse(c))

Spec == Init /\ [][Next]_vars /\ Fairness
----------------------------------------------------------------------------
(* Properties                                                              *)

(* Work for the main thread that something other than the thread itself has   *)
(* made: commands it may run, a control message, a request to shut down, a    *)
(* child to reap.                                                             *)
WorkPending ==
  \/ queue > 0 /\ waiting = "no"
  \/ ctl # << >> /\ ~shutting_down
  \/ do_shutdown /\ ~shutting_down
  \/ \E c \in Child : child[c] = "zombie"

(* When init enters epoll_wait, or sleeps there, with work to do, something    *)
(* will wake it: a file descriptor, a timeout of zero, or a wake-up that the   *)
(* property thread is bound to send ("no new actions must be queued by the     *)
(* code between this line and the Epoll::Wait() call below without calling     *)
(* WakeMainInitThread()").                                                    *)
NoLostWakeup ==
  pc = "wait" /\ WorkPending =>
    sigchld \/ wake \/ timeout = "now" \/ ppc \in {"wake", "ctl_wake"}

(* A wait for a property is not missed: if the property has its value while    *)
(* init still waits for it, the property thread is about to end the wait.      *)
(* Once a shutdown has begun nobody tells init of properties any more.         *)
NoLostProperty ==
  waiting = "prop" /\ value /\ ~shutting_down =>
    setting /\ ppc \in {"set", "notify", "wake", "waiter"}

(* Every child that ends is reaped, whichever of the two readers of SIGCHLD    *)
(* comes first.                                                               *)
ZombiesReaped ==
  \A c \in Child : child[c] = "zombie" ~> child[c] # "zombie" \/ pc = "halt"

(* A client that sets a ctl.* property is answered, unless a shutdown begins.  *)
ClientsAnswered ==
  \A k \in Client : client[k] # "idle" ~> client[k] = "idle" \/ shutting_down

(* A service that waits to be restarted is, unless a shutdown begins.          *)
RestartsServed ==
  \A c \in Child : child[c] = "restarting" ~> child[c] # "restarting" \/ shutting_down

(* The main thread's own SetProperty is answered: the locks it shares with     *)
(* the property thread cannot make each wait for the other.                   *)
CallsReturn == call ~> ~call

(* sys.powerctl is acted on, whatever init waits for ("init will always and    *)
(* immediately shutdown/reboot, regardless of if there are other pending       *)
(* events to process or if init is waiting on an exec service or waiting on a  *)
(* property"): init takes the command up, and if it knows it the shutdown      *)
(* begins; the lock that it then needs does not hold it up for ever.           *)
ShutdownNoticed ==
  do_shutdown \/ pc = "stop_messages"
    ~> shutting_down \/ (pc = "command" /\ ~do_shutdown)
=============================================================================
