--------------------------- MODULE InitLoopProofs ---------------------------
(***************************************************************************)
(* Proofs about InitLoop for any children, clients and limits: types, that  *)
(* the main thread never sleeps over work (NoLostWakeup) and that a wait     *)
(* for a property is not missed (NoLostProperty).                           *)
(***************************************************************************)
EXTENDS InitLoop, SequenceTheorems, TLAPS

(***************************************************************************)
(* NoLostWakeup speaks of the moment of epoll_wait only.  Each kind of work  *)
(* is accounted for in every other place of the loop too: it is announced    *)
(* by a file descriptor, or the loop will still look for it before it        *)
(* sleeps.                                                                  *)
(***************************************************************************)

(* A zombie that is not announced is found by the reaping in progress. *)
ZombieAnnounced ==
  (\E c \in Child : child[c] = "zombie") => sigchld \/ pc = "reap"

(* The loop is past the sleep and HandleControlMessages is still to come. *)
BeforeControl == pc \in {"reap", "handlers", "control", "handle", "reply"}

(* A control message is announced, or will be seen in this turn. *)
ControlAnnounced ==
  ctl # << >> /\ ~shutting_down => wake \/ ppc = "ctl_wake" \/ BeforeControl

(* So is a request to shut down, which is looked at first in a turn. *)
ShutdownAnnounced ==
  do_shutdown /\ ~shutting_down => wake \/ BeforeControl \/ pc = "top"

(* Commands that are left, or that came after the look at the queue. *)
CommandsAnnounced ==
  pc \in {"actions", "wait"} /\ queue > 0 /\ waiting = "no"
    => wake \/ timeout = "now" \/ ppc = "wake"

WakeupInv == ZombieAnnounced /\ ControlAnnounced /\ ShutdownAnnounced /\ CommandsAnnounced

-----------------------------------------------------------------------------
(* Types *)

(* TypeOK in two parts: the flags, and the rest. *)
FlagsOK ==
  /\ call \in BOOLEAN /\ serving \in BOOLEAN
  /\ value \in BOOLEAN /\ setting \in BOOLEAN /\ triggers \in BOOLEAN
  /\ sigchld \in BOOLEAN /\ wake \in BOOLEAN
  /\ do_shutdown \in BOOLEAN /\ shutting_down \in BOOLEAN

RestOK ==
  /\ pc \in {"top", "stop_messages", "command", "actions", "wait", "reap", "handlers", "control", "handle", "reply",
            "halt"}
  /\ ppc \in {"idle", "set", "notify", "wake", "waiter", "ctl", "ctl_wake"}
  /\ lock \in {"free", "prop"}
  /\ child \in [Child -> {"down", "alive", "zombie", "restarting"}]
  /\ due \in SUBSET Child
  /\ waiting \in Child \cup {"no", "prop"}
  /\ queue \in 0..(MaxQueue + 1)
  /\ ctl \in Seq(Client) /\ Len(ctl) <= CtlLimit + 1
  /\ client \in [Client -> {"idle", "asking", "waiting"}]
  /\ current \in SUBSET Client
  /\ ready \in SUBSET {"sigchld", "wake"}
  /\ timeout \in {"none", "now", "timer"}

LEMMA TypeParts == TypeOK <=> FlagsOK /\ RestOK
BY DEF TypeOK, FlagsOK, RestOK

LEMMA InitType == Init => TypeOK
<1> SUFFICES ASSUME Init PROVE FlagsOK /\ RestOK
  BY TypeParts
<1>1. FlagsOK
  BY Zenon DEF Init, FlagsOK
<1>2. RestOK
  BY LoopAssumption DEF Init, RestOK
<1> QED
  BY <1>1, <1>2

(* The steps of the property thread. *)
PropertyThread ==
  \/ ServeMain \/ SetProperty \/ TriggerShutdown \/ PropertyStep
  \/ \E k \in Client : SendControlMessage(k)

(* Every step is one of the main thread, of the property thread or of the      *)
(* kernel, or changes nothing.                                               *)
LEMMA StepKinds ==
  ASSUME [Next]_vars
  PROVE  \/ MainThread
         \/ PropertyThread
         \/ \E c \in Child : Exit(c) \/ Elapse(c)
         \/ UNCHANGED vars
BY DEF Next, PropertyThread, Halted

(* The steps of the main thread keep the flags Boolean ... *)
LEMMA MainFlags ==
  ASSUME FlagsOK, MainThread
  PROVE  FlagsOK'
<1> USE DEF FlagsOK, Main, propVars, msgVars, fdVars, downVars
<1>1. CASE Top
  BY <1>1, Zenon DEF Top
<1>2. CASE Command
  BY <1>2, Zenon DEF Command, MayExecute, DoCommand, StartWaiting
<1>3. CASE HandleProcessActions
  BY <1>3, Zenon DEF HandleProcessActions, Ripe, NextTimeout
<1>4. CASE EpollReady
  BY <1>4, Zenon DEF EpollReady
<1>5. CASE EpollTimeout
  BY <1>5, Zenon DEF EpollTimeout
<1>6. CASE \E c \in Child : ReapOneProcess(c)
  BY <1>6, Zenon DEF ReapOneProcess
<1>7. CASE ReapDone
  BY <1>7, Zenon DEF ReapDone
<1>8. CASE HandleSignalFd
  BY <1>8, Zenon DEF HandleSignalFd
<1>9. CASE ClearEventFd
  BY <1>9, Zenon DEF ClearEventFd
<1>10. CASE HandlersDone
  BY <1>10, Zenon DEF HandlersDone
<1>11. CASE SkipControl
  BY <1>11, Zenon DEF SkipControl
<1>12. CASE PopControl
  BY <1>12, Zenon DEF PopControl
<1>13. CASE HandleControlMessage
  BY <1>13, Zenon DEF HandleControlMessage
<1>14. CASE Reply
  BY <1>14, Zenon DEF Reply
<1>15. CASE StopSendingMessages
  BY <1>15, Zenon DEF StopSendingMessages
<1> QED
  BY <1>1, <1>2, <1>3, <1>4, <1>5, <1>6, <1>7, <1>8, <1>9, <1>10, <1>11, <1>12, <1>13, <1>14, <1>15
  DEF MainThread

(* ... and the rest of the types. *)
LEMMA MainRest ==
  ASSUME RestOK, MainThread
  PROVE  RestOK'
<1> USE DEF RestOK, Main, propVars, msgVars, fdVars, downVars
<1>1. CASE Top
  BY <1>1, LoopAssumption DEF Top
<1>2. CASE Command
  BY <1>2, LoopAssumption DEF Command, MayExecute, DoCommand, StartWaiting
<1>3. CASE HandleProcessActions
  BY <1>3 DEF HandleProcessActions, Ripe, NextTimeout
<1>4. CASE EpollReady
  BY <1>4 DEF EpollReady
<1>5. CASE EpollTimeout
  BY <1>5 DEF EpollTimeout
<1>6. CASE \E c \in Child : ReapOneProcess(c)
  BY <1>6 DEF ReapOneProcess
<1>7. CASE ReapDone
  BY <1>7 DEF ReapDone
<1>8. CASE HandleSignalFd
  BY <1>8 DEF HandleSignalFd
<1>9. CASE ClearEventFd
  BY <1>9 DEF ClearEventFd
<1>10. CASE HandlersDone
  BY <1>10 DEF HandlersDone
<1>11. CASE SkipControl
  BY <1>11 DEF SkipControl
<1>12. CASE PopControl
  <2>1. CASE ctl = << >>
    BY <1>12, <2>1 DEF PopControl
  <2>2. CASE ctl # << >>
    <3>1. Head(ctl) \in Client /\ Tail(ctl) \in Seq(Client) /\ Len(Tail(ctl)) <= CtlLimit + 1
      BY <2>2, LoopAssumption, HeadTailProperties
    <3> QED
      BY <1>12, <2>2, <3>1 DEF PopControl
  <2> QED
    BY <2>1, <2>2
<1>13. CASE HandleControlMessage
  BY <1>13 DEF HandleControlMessage
<1>14. CASE Reply
  BY <1>14 DEF Reply
<1>15. CASE StopSendingMessages
  BY <1>15, LoopAssumption DEF StopSendingMessages
<1> QED
  BY <1>1, <1>2, <1>3, <1>4, <1>5, <1>6, <1>7, <1>8, <1>9, <1>10, <1>11, <1>12, <1>13, <1>14, <1>15
  DEF MainThread

(* So do the steps of the property thread. *)
LEMMA PropertyFlags ==
  ASSUME FlagsOK, PropertyThread
  PROVE  FlagsOK'
<1> USE DEF FlagsOK, mainVars, fdVars
<1>1. CASE ServeMain
  BY <1>1, Zenon DEF ServeMain
<1>2. CASE SetProperty
  BY <1>2, Zenon DEF SetProperty
<1>3. CASE TriggerShutdown
  BY <1>3, Zenon DEF TriggerShutdown
<1>4. CASE NotifyPropertyChange
  BY <1>4, Zenon DEF NotifyPropertyChange
<1>5. CASE QueuePropertyChange
  BY <1>5, Zenon DEF QueuePropertyChange
<1>6. CASE WakeMainInitThread
  BY <1>6, Zenon DEF WakeMainInitThread
<1>7. CASE CheckAndResetWait
  BY <1>7, Zenon DEF CheckAndResetWait
<1>8. CASE \E k \in Client : QueueControlMessage(k)
  BY <1>8, Zenon DEF QueueControlMessage
<1>9. CASE WakeForControlMessage
  BY <1>9, Zenon DEF WakeForControlMessage
<1>10. CASE \E k \in Client : SendControlMessage(k)
  BY <1>10, Zenon DEF SendControlMessage
<1> QED
  BY <1>1, <1>2, <1>3, <1>4, <1>5, <1>6, <1>7, <1>8, <1>9, <1>10
  DEF PropertyThread, PropertyStep

LEMMA PropertyRest ==
  ASSUME RestOK, PropertyThread
  PROVE  RestOK'
<1> USE DEF RestOK, mainVars, fdVars
<1>1. CASE ServeMain
  BY <1>1 DEF ServeMain
<1>2. CASE SetProperty
  BY <1>2 DEF SetProperty
<1>3. CASE TriggerShutdown
  BY <1>3 DEF TriggerShutdown
<1>4. CASE NotifyPropertyChange
  BY <1>4 DEF NotifyPropertyChange
<1>5. CASE QueuePropertyChange
  BY <1>5, LoopAssumption DEF QueuePropertyChange
<1>6. CASE WakeMainInitThread
  BY <1>6 DEF WakeMainInitThread
<1>7. CASE CheckAndResetWait
  BY <1>7 DEF CheckAndResetWait
<1>8. CASE \E k \in Client : QueueControlMessage(k)
  <2>1. PICK k \in Client : QueueControlMessage(k)
    BY <1>8
  <2>2. CASE Len(ctl) > CtlLimit
    BY <2>1, <2>2 DEF QueueControlMessage
  <2>3. CASE ~(Len(ctl) > CtlLimit)
    <3>1. Append(ctl, k) \in Seq(Client) /\ Len(Append(ctl, k)) <= CtlLimit + 1
      BY <2>3, LoopAssumption, AppendProperties
    <3> QED
      BY <2>1, <2>3, <3>1 DEF QueueControlMessage
  <2> QED
    BY <2>2, <2>3
<1>9. CASE WakeForControlMessage
  BY <1>9 DEF WakeForControlMessage
<1>10. CASE \E k \in Client : SendControlMessage(k)
  BY <1>10 DEF SendControlMessage
<1> QED
  BY <1>1, <1>2, <1>3, <1>4, <1>5, <1>6, <1>7, <1>8, <1>9, <1>10
  DEF PropertyThread, PropertyStep

LEMMA NextType ==
  ASSUME TypeOK, [Next]_vars
  PROVE  TypeOK'
<1> SUFFICES FlagsOK' /\ RestOK'
  BY DEF TypeOK, FlagsOK, RestOK
<1>0. FlagsOK /\ RestOK
  BY TypeParts
<1>1. CASE MainThread
  BY <1>0, <1>1, MainFlags, MainRest
<1>2. CASE PropertyThread
  BY <1>0, <1>2, PropertyFlags, PropertyRest
<1>3. CASE \E c \in Child : Exit(c) \/ Elapse(c)
  <2>1. FlagsOK'
    BY <1>0, <1>3, Zenon DEF FlagsOK, Exit, Elapse, propVars, msgVars, fdVars, downVars
  <2>2. RestOK'
    <3>1. ASSUME NEW c \in Child, Exit(c) PROVE RestOK'
      BY SMTT(30), <1>0, <3>1 DEF RestOK, Exit, propVars, msgVars, fdVars, downVars
    <3>2. ASSUME NEW c \in Child, Elapse(c) PROVE RestOK'
      BY SMTT(30), <1>0, <3>2 DEF RestOK, Elapse, propVars, msgVars, fdVars, downVars
    <3> QED
      BY <1>3, <3>1, <3>2
  <2> QED
    BY <2>1, <2>2
<1>4. CASE UNCHANGED vars
  BY <1>0, <1>4 DEF FlagsOK, RestOK, vars
<1> QED
  BY <1>1, <1>2, <1>3, <1>4, StepKinds

(***************************************************************************)
(* Every variable keeps its type; the control messages that wait are never  *)
(* more than one above the limit that QueueControlMessage checks.           *)
(***************************************************************************)
THEOREM TypeCorrect == Spec => []TypeOK
<1>1. TypeOK /\ [Next]_vars => TypeOK'
  BY NextType
<1> QED
  BY InitType, <1>1, PTL DEF Spec

-----------------------------------------------------------------------------
(* Wake-ups *)

(* A child that ends is announced until it is reaped. *)
LEMMA ZombiesKept ==
  ASSUME ZombieAnnounced, RestOK, [Next]_vars
  PROVE  ZombieAnnounced'
<1> USE DEF ZombieAnnounced, Main, mainVars, propVars, msgVars, fdVars, downVars
<1>1. CASE Top
  BY <1>1 DEF Top
<1>2. CASE Command
  <2>1. \A c \in Child : child'[c] = "zombie" => child[c] = "zombie"
    BY <1>2 DEF RestOK, Command, DoCommand, StartWaiting, MayExecute
  <2>2. sigchld' = sigchld /\ pc # "reap"
    BY <1>2, Zenon DEF Command
  <2> QED
    BY <2>1, <2>2, Zenon
<1>3. CASE HandleProcessActions
  BY <1>3, Zenon DEF HandleProcessActions, Ripe, NextTimeout
<1>4. CASE EpollReady
  BY <1>4, Zenon DEF EpollReady
<1>5. CASE EpollTimeout
  BY <1>5, Zenon DEF EpollTimeout
<1>6. CASE \E c \in Child : ReapOneProcess(c)
  BY <1>6 DEF ReapOneProcess
<1>7. CASE ReapDone
  BY <1>7, Zenon DEF ReapDone
<1>8. CASE HandleSignalFd
  BY <1>8, Zenon DEF HandleSignalFd
<1>9. CASE ClearEventFd
  BY <1>9, Zenon DEF ClearEventFd
<1>10. CASE HandlersDone
  BY <1>10, Zenon DEF HandlersDone
<1>11. CASE SkipControl
  BY <1>11, Zenon DEF SkipControl
<1>12. CASE PopControl
  BY <1>12, Zenon DEF PopControl
<1>13. CASE HandleControlMessage
  <2>1. \A c \in Child : child'[c] = "zombie" => child[c] = "zombie"
    BY <1>13 DEF RestOK, HandleControlMessage
  <2>2. sigchld' = sigchld /\ pc # "reap"
    BY <1>13, Zenon DEF HandleControlMessage
  <2> QED
    BY <2>1, <2>2, Zenon
<1>14. CASE Reply
  BY <1>14, Zenon DEF Reply
<1>15. CASE ServeMain
  BY <1>15, Zenon DEF ServeMain
<1>16. CASE SetProperty
  BY <1>16, Zenon DEF SetProperty
<1>17. CASE TriggerShutdown
  BY <1>17, Zenon DEF TriggerShutdown
<1>18. CASE NotifyPropertyChange
  BY <1>18, Zenon DEF NotifyPropertyChange
<1>19. CASE QueuePropertyChange
  BY <1>19, Zenon DEF QueuePropertyChange
<1>20. CASE WakeMainInitThread
  BY <1>20, Zenon DEF WakeMainInitThread
<1>21. CASE CheckAndResetWait
  BY <1>21, Zenon DEF CheckAndResetWait
<1>22. CASE \E k \in Client : QueueControlMessage(k)
  BY <1>22 DEF QueueControlMessage
<1>23. CASE WakeForControlMessage
  BY <1>23, Zenon DEF WakeForControlMessage
<1>24. CASE \E k \in Client : SendControlMessage(k)
  BY <1>24 DEF SendControlMessage
<1>25. CASE \E c \in Child : Exit(c)
  BY <1>25 DEF Exit
<1>26. CASE \E c \in Child : Elapse(c)
  BY <1>26 DEF Elapse
<1>27. CASE UNCHANGED vars
  BY <1>27, Zenon DEF vars
<1>28. CASE StopSendingMessages
  BY <1>28 DEF StopSendingMessages
<1> QED
  BY StepKinds, <1>1, <1>2, <1>3, <1>4, <1>5, <1>6, <1>7, <1>8, <1>9, <1>10, <1>11, <1>12, <1>13,
     <1>14, <1>15, <1>16, <1>17, <1>18, <1>19, <1>20, <1>21, <1>22, <1>23, <1>24, <1>25, <1>26, <1>27, <1>28, Zenon
  DEF MainThread, PropertyThread, PropertyStep

(* A control message is announced until it is taken. *)
LEMMA ControlKept ==
  ASSUME ControlAnnounced, [Next]_vars
  PROVE  ControlAnnounced'
<1> USE DEF ControlAnnounced, BeforeControl, Main, mainVars, propVars, msgVars, fdVars, downVars
<1>1. CASE Top
  BY <1>1 DEF Top
<1>2. CASE Command
  BY <1>2 DEF Command, MayExecute, DoCommand, StartWaiting
<1>3. CASE HandleProcessActions
  BY <1>3, Zenon DEF HandleProcessActions, Ripe, NextTimeout
<1>4. CASE EpollReady
  BY <1>4, Zenon DEF EpollReady
<1>5. CASE EpollTimeout
  BY <1>5, Zenon DEF EpollTimeout
<1>6. CASE \E c \in Child : ReapOneProcess(c)
  BY <1>6 DEF ReapOneProcess
<1>7. CASE ReapDone
  BY <1>7, Zenon DEF ReapDone
<1>8. CASE HandleSignalFd
  BY <1>8, Zenon DEF HandleSignalFd
<1>9. CASE ClearEventFd
  BY <1>9, Zenon DEF ClearEventFd
<1>10. CASE HandlersDone
  BY <1>10, Zenon DEF HandlersDone
<1>11. CASE SkipControl
  BY <1>11, Zenon DEF SkipControl
<1>12. CASE PopControl
  BY <1>12, Zenon DEF PopControl
<1>13. CASE HandleControlMessage
  BY <1>13 DEF HandleControlMessage
<1>14. CASE Reply
  BY <1>14, Zenon DEF Reply
<1>15. CASE ServeMain
  BY <1>15, Zenon DEF ServeMain
<1>16. CASE SetProperty
  BY <1>16, Zenon DEF SetProperty
<1>17. CASE TriggerShutdown
  BY <1>17, Zenon DEF TriggerShutdown
<1>18. CASE NotifyPropertyChange
  BY <1>18, Zenon DEF NotifyPropertyChange
<1>19. CASE QueuePropertyChange
  BY <1>19, Zenon DEF QueuePropertyChange
<1>20. CASE WakeMainInitThread
  BY <1>20, Zenon DEF WakeMainInitThread
<1>21. CASE CheckAndResetWait
  BY <1>21, Zenon DEF CheckAndResetWait
<1>22. CASE \E k \in Client : QueueControlMessage(k)
  BY <1>22 DEF QueueControlMessage
<1>23. CASE WakeForControlMessage
  BY <1>23, Zenon DEF WakeForControlMessage
<1>24. CASE \E k \in Client : SendControlMessage(k)
  BY <1>24 DEF SendControlMessage
<1>25. CASE \E c \in Child : Exit(c)
  BY <1>25 DEF Exit
<1>26. CASE \E c \in Child : Elapse(c)
  BY <1>26 DEF Elapse
<1>27. CASE UNCHANGED vars
  BY <1>27, Zenon DEF vars
<1>28. CASE StopSendingMessages
  BY <1>28 DEF StopSendingMessages
<1> QED
  BY StepKinds, <1>1, <1>2, <1>3, <1>4, <1>5, <1>6, <1>7, <1>8, <1>9, <1>10, <1>11, <1>12, <1>13,
     <1>14, <1>15, <1>16, <1>17, <1>18, <1>19, <1>20, <1>21, <1>22, <1>23, <1>24, <1>25, <1>26, <1>27, <1>28, Zenon
  DEF MainThread, PropertyThread, PropertyStep

(* A request to shut down is announced until it is taken. *)
LEMMA ShutdownKept ==
  ASSUME ShutdownAnnounced, [Next]_vars
  PROVE  ShutdownAnnounced'
<1> USE DEF ShutdownAnnounced, BeforeControl, Main, mainVars, propVars, msgVars, fdVars, downVars
<1>1. CASE Top
  <2>1. CASE (~do_shutdown \/ shutting_down) /\ UNCHANGED <<do_shutdown, shutting_down>>
    BY <2>1
  <2>2. CASE do_shutdown' = FALSE
    BY <2>2, Zenon
  <2> QED
    BY <1>1, <2>1, <2>2 DEF Top
<1>2. CASE Command
  BY <1>2 DEF Command, MayExecute, DoCommand, StartWaiting
<1>3. CASE HandleProcessActions
  BY <1>3, Zenon DEF HandleProcessActions, Ripe, NextTimeout
<1>4. CASE EpollReady
  BY <1>4, Zenon DEF EpollReady
<1>5. CASE EpollTimeout
  BY <1>5, Zenon DEF EpollTimeout
<1>6. CASE \E c \in Child : ReapOneProcess(c)
  BY <1>6 DEF ReapOneProcess
<1>7. CASE ReapDone
  BY <1>7, Zenon DEF ReapDone
<1>8. CASE HandleSignalFd
  BY <1>8, Zenon DEF HandleSignalFd
<1>9. CASE ClearEventFd
  BY <1>9, Zenon DEF ClearEventFd
<1>10. CASE HandlersDone
  BY <1>10, Zenon DEF HandlersDone
<1>11. CASE SkipControl
  BY <1>11, Zenon DEF SkipControl
<1>12. CASE PopControl
  BY <1>12, Zenon DEF PopControl
<1>13. CASE HandleControlMessage
  BY <1>13 DEF HandleControlMessage
<1>14. CASE Reply
  BY <1>14, Zenon DEF Reply
<1>15. CASE ServeMain
  BY <1>15, Zenon DEF ServeMain
<1>16. CASE SetProperty
  BY <1>16, Zenon DEF SetProperty
<1>17. CASE TriggerShutdown
  BY <1>17, Zenon DEF TriggerShutdown
<1>18. CASE NotifyPropertyChange
  BY <1>18, Zenon DEF NotifyPropertyChange
<1>19. CASE QueuePropertyChange
  BY <1>19, Zenon DEF QueuePropertyChange
<1>20. CASE WakeMainInitThread
  BY <1>20, Zenon DEF WakeMainInitThread
<1>21. CASE CheckAndResetWait
  BY <1>21, Zenon DEF CheckAndResetWait
<1>22. CASE \E k \in Client : QueueControlMessage(k)
  BY <1>22 DEF QueueControlMessage
<1>23. CASE WakeForControlMessage
  BY <1>23, Zenon DEF WakeForControlMessage
<1>24. CASE \E k \in Client : SendControlMessage(k)
  BY <1>24 DEF SendControlMessage
<1>25. CASE \E c \in Child : Exit(c)
  BY <1>25 DEF Exit
<1>26. CASE \E c \in Child : Elapse(c)
  BY <1>26 DEF Elapse
<1>27. CASE UNCHANGED vars
  BY <1>27, Zenon DEF vars
<1>28. CASE StopSendingMessages
  BY <1>28 DEF StopSendingMessages
<1> QED
  BY StepKinds, <1>1, <1>2, <1>3, <1>4, <1>5, <1>6, <1>7, <1>8, <1>9, <1>10, <1>11, <1>12, <1>13,
     <1>14, <1>15, <1>16, <1>17, <1>18, <1>19, <1>20, <1>21, <1>22, <1>23, <1>24, <1>25, <1>26, <1>27, <1>28, Zenon
  DEF MainThread, PropertyThread, PropertyStep

(* Commands that are left keep the loop awake. *)
LEMMA CommandsKept ==
  ASSUME CommandsAnnounced, RestOK, [Next]_vars
  PROVE  CommandsAnnounced'
<1> USE DEF CommandsAnnounced, Main, mainVars, propVars, msgVars, fdVars, downVars
<1>1. CASE Top
  BY <1>1 DEF Top
<1>2. CASE Command
  <2>1. CASE ~MayExecute /\ UNCHANGED <<waiting, queue>>
    BY <2>1, <1>2 DEF MayExecute, Command
  <2>2. CASE MayExecute /\ ~(shutting_down /\ queue = 1) /\ queue' = queue - 1
             /\ timeout' = IF queue > 1 THEN "now" ELSE "none"
    BY <2>2, LoopAssumption DEF RestOK, MayExecute
  <2>3. CASE pc' = "halt"
    BY <2>3
  <2> QED
    BY <1>2, <2>1, <2>2, <2>3, Zenon DEF Command
<1>3. CASE HandleProcessActions
  BY <1>3, Zenon DEF HandleProcessActions, Ripe, NextTimeout
<1>4. CASE EpollReady
  BY <1>4, Zenon DEF EpollReady
<1>5. CASE EpollTimeout
  BY <1>5, Zenon DEF EpollTimeout
<1>6. CASE \E c \in Child : ReapOneProcess(c)
  BY <1>6 DEF ReapOneProcess
<1>7. CASE ReapDone
  BY <1>7, Zenon DEF ReapDone
<1>8. CASE HandleSignalFd
  BY <1>8, Zenon DEF HandleSignalFd
<1>9. CASE ClearEventFd
  BY <1>9, Zenon DEF ClearEventFd
<1>10. CASE HandlersDone
  BY <1>10, Zenon DEF HandlersDone
<1>11. CASE SkipControl
  BY <1>11, Zenon DEF SkipControl
<1>12. CASE PopControl
  BY <1>12, Zenon DEF PopControl
<1>13. CASE HandleControlMessage
  BY <1>13 DEF HandleControlMessage
<1>14. CASE Reply
  BY <1>14, Zenon DEF Reply
<1>15. CASE ServeMain
  BY <1>15, Zenon DEF ServeMain
<1>16. CASE SetProperty
  BY <1>16, Zenon DEF SetProperty
<1>17. CASE TriggerShutdown
  BY <1>17, Zenon DEF TriggerShutdown
<1>18. CASE NotifyPropertyChange
  BY <1>18, Zenon DEF NotifyPropertyChange
<1>19. CASE QueuePropertyChange
  BY <1>19, Zenon DEF QueuePropertyChange
<1>20. CASE WakeMainInitThread
  BY <1>20, Zenon DEF WakeMainInitThread
<1>21. CASE CheckAndResetWait
  BY <1>21, Zenon DEF CheckAndResetWait
<1>22. CASE \E k \in Client : QueueControlMessage(k)
  BY <1>22 DEF QueueControlMessage
<1>23. CASE WakeForControlMessage
  BY <1>23, Zenon DEF WakeForControlMessage
<1>24. CASE \E k \in Client : SendControlMessage(k)
  BY <1>24 DEF SendControlMessage
<1>25. CASE \E c \in Child : Exit(c)
  BY <1>25 DEF Exit
<1>26. CASE \E c \in Child : Elapse(c)
  BY <1>26 DEF Elapse
<1>27. CASE UNCHANGED vars
  BY <1>27, Zenon DEF vars
<1>28. CASE StopSendingMessages
  BY <1>28 DEF StopSendingMessages
<1> QED
  BY StepKinds, <1>1, <1>2, <1>3, <1>4, <1>5, <1>6, <1>7, <1>8, <1>9, <1>10, <1>11, <1>12, <1>13,
     <1>14, <1>15, <1>16, <1>17, <1>18, <1>19, <1>20, <1>21, <1>22, <1>23, <1>24, <1>25, <1>26, <1>27, <1>28, Zenon
  DEF MainThread, PropertyThread, PropertyStep

(* A wait for a property is ended by the set that gives it its value. *)
LEMMA PropertyKept ==
  ASSUME NoLostProperty, [Next]_vars
  PROVE  NoLostProperty'
<1> USE DEF NoLostProperty, Main, mainVars, propVars, msgVars, fdVars, downVars
<1>1. CASE Top
  BY <1>1 DEF Top
<1>2. CASE Command
  <2>1. UNCHANGED <<value, shutting_down, setting, ppc>>
    BY <1>2, Zenon DEF Command
  <2>2. waiting' # "prop" \/ waiting' = waiting \/ ~value
    BY <1>2, LoopAssumption, Zenon DEF Command, DoCommand, StartWaiting
  <2> QED
    BY <2>1, <2>2, Zenon
<1>3. CASE HandleProcessActions
  BY <1>3, Zenon DEF HandleProcessActions, Ripe, NextTimeout
<1>4. CASE EpollReady
  BY <1>4, Zenon DEF EpollReady
<1>5. CASE EpollTimeout
  BY <1>5, Zenon DEF EpollTimeout
<1>6. CASE \E c \in Child : ReapOneProcess(c)
  BY <1>6 DEF ReapOneProcess
<1>7. CASE ReapDone
  BY <1>7, Zenon DEF ReapDone
<1>8. CASE HandleSignalFd
  BY <1>8, Zenon DEF HandleSignalFd
<1>9. CASE ClearEventFd
  BY <1>9, Zenon DEF ClearEventFd
<1>10. CASE HandlersDone
  BY <1>10, Zenon DEF HandlersDone
<1>11. CASE SkipControl
  BY <1>11, Zenon DEF SkipControl
<1>12. CASE PopControl
  BY <1>12, Zenon DEF PopControl
<1>13. CASE HandleControlMessage
  BY <1>13 DEF HandleControlMessage
<1>14. CASE Reply
  BY <1>14, Zenon DEF Reply
<1>15. CASE ServeMain
  BY <1>15, Zenon DEF ServeMain
<1>16. CASE SetProperty
  BY <1>16, Zenon DEF SetProperty
<1>17. CASE TriggerShutdown
  BY <1>17, Zenon DEF TriggerShutdown
<1>18. CASE NotifyPropertyChange
  BY <1>18, Zenon DEF NotifyPropertyChange
<1>19. CASE QueuePropertyChange
  BY <1>19, Zenon DEF QueuePropertyChange
<1>20. CASE WakeMainInitThread
  BY <1>20, Zenon DEF WakeMainInitThread
<1>21. CASE CheckAndResetWait
  BY <1>21, Zenon DEF CheckAndResetWait
<1>22. CASE \E k \in Client : QueueControlMessage(k)
  BY <1>22 DEF QueueControlMessage
<1>23. CASE WakeForControlMessage
  BY <1>23, Zenon DEF WakeForControlMessage
<1>24. CASE \E k \in Client : SendControlMessage(k)
  BY <1>24 DEF SendControlMessage
<1>25. CASE \E c \in Child : Exit(c)
  BY <1>25 DEF Exit
<1>26. CASE \E c \in Child : Elapse(c)
  BY <1>26 DEF Elapse
<1>27. CASE UNCHANGED vars
  BY <1>27, Zenon DEF vars
<1>28. CASE StopSendingMessages
  BY <1>28 DEF StopSendingMessages
<1> QED
  BY StepKinds, <1>1, <1>2, <1>3, <1>4, <1>5, <1>6, <1>7, <1>8, <1>9, <1>10, <1>11, <1>12, <1>13,
     <1>14, <1>15, <1>16, <1>17, <1>18, <1>19, <1>20, <1>21, <1>22, <1>23, <1>24, <1>25, <1>26, <1>27, <1>28, Zenon
  DEF MainThread, PropertyThread, PropertyStep

(* All work is announced, in every place of the loop. *)
LEMMA WakeupInvariant == Spec => []WakeupInv
<1>1. Init => WakeupInv
  BY DEF Init, WakeupInv, ZombieAnnounced, ControlAnnounced, ShutdownAnnounced, CommandsAnnounced
<1>2. TypeOK /\ WakeupInv /\ [Next]_vars => WakeupInv'
  <2> SUFFICES ASSUME TypeOK, WakeupInv, [Next]_vars PROVE WakeupInv'
    OBVIOUS
  <2>1. RestOK
    BY TypeParts
  <2> QED
    BY <2>1, ZombiesKept, ControlKept, ShutdownKept, CommandsKept DEF WakeupInv
<1> QED
  BY TypeCorrect, <1>1, <1>2, PTL DEF Spec

(***************************************************************************)
(* The main thread never sleeps in epoll_wait with work to do that nothing  *)
(* will wake it for.                                                       *)
(***************************************************************************)
THEOREM WakeupsNotLost == Spec => []NoLostWakeup
<1>1. WakeupInv => NoLostWakeup
  BY Zenon DEF WakeupInv, ZombieAnnounced, ControlAnnounced, ShutdownAnnounced, CommandsAnnounced,
     BeforeControl, NoLostWakeup, WorkPending
<1> QED
  BY WakeupInvariant, <1>1, PTL

(***************************************************************************)
(* A property that gets its value while init waits for it ends the wait:    *)
(* StartWaiting looks before it waits, and the thread that sets it tells.   *)
(***************************************************************************)
THEOREM PropertiesNotLost == Spec => []NoLostProperty
<1>1. Init => NoLostProperty
  BY DEF Init, NoLostProperty
<1>2. NoLostProperty /\ [Next]_vars => NoLostProperty'
  BY PropertyKept
<1> QED
  BY <1>1, <1>2, PTL DEF Spec

=============================================================================
