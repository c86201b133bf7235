---------------------------- MODULE MCInitService ----------------------------
(* Small instances of InitService for TLC. *)
EXTENDS InitService, TLC

CONSTANTS a, b

Do(op, s) == << [op |-> op, svc |-> s] >>

(* One service, with a console and an rc option "disabled": every command   *)
(* and every control message that a single service can meet.                 *)
OneRcFlags   == (a :> {"DISABLED", "RC_DISABLED", "CONSOLE"})
OneOnRestart == (a :> << >>)
OneOrder     == << a >>
OneCommands  ==
  { Do(op, a) : op \in {"start", "start_if_not_disabled", "reset", "restart_if_enabled",
                        "restart_if_running", "enable", "exec_start"} }

(* a is a critical daemon whose restart takes b along; b is a disabled       *)
(* oneshot that an APEX may update, with a console the device lacks.                                        *)
TwoRcFlags   == (a :> {"CRITICAL"}) @@ (b :> {"ONESHOT", "CONSOLE", "DISABLED", "RC_DISABLED"})
TwoOnRestart == (a :> Do("restart", b)) @@ (b :> << >>)
TwoOrder     == << a, b >>
TwoCommands  ==
  { Do("enable", b), Do("exec_start", b),
    ForEachServiceInClass("start_if_not_disabled", TwoOrder),
    ForEachServiceInClass("reset", TwoOrder) }

(* A oneshot, which is not restarted unless somebody asks. *)
OneshotRcFlags == (a :> {"ONESHOT"})

(* The same pair, when restarting a executes b and waits for it. *)
ExecOnRestart == (a :> Do("exec_start", b)) @@ (b :> << >>)
PlainRcFlags  == (a :> {}) @@ (b :> {"ONESHOT"})
ExecCommands  == { Do("start", a), Do("exec_start", b) }

(* The hypotheses of InitServiceProofs hold of these services, but for those  *)
(* of the last pair.                                                         *)
ASSUME OnRestartAssumption == OnRestartSpares
ASSUME ExecAssumption == ExecsAlone \/ Commands = ExecCommands

PidSymmetry == Permutations(Pid)
=============================================================================
