# Android system/core: a TLA+ verification of init and of system updates

This directory holds TLA+ modules that model the two parts of `system/core` that
carry most of its control logic, the `init` process and the Virtual A/B update
of `libsnapshot` with its daemon `snapuserd`, the TLC runs that check them, and
TLAPS proofs of what matters most. Paths below are relative to the repository
(`src/` in `PROJECT.json`).

## The system

`system/core` is a collection of programs and libraries of the Android
platform. Its parts, with what each keeps and how hard it is:

| Part | State | Operations | What is hard | Here |
|---|---|---|---|---|
| init: `Service` | flags, pid, times, `init.svc.<name>` | start, stop, reset, restart, enable, exec, timeout, reap | requests and exits in any order, pid reuse, failures after the fork | `InitService` |
| init: service list | services, delayed services | add, find by pid, remove, delay | temporary services come and go | `InitService` |
| init: SIGCHLD | none of its own | reap all children | SIGCHLD coalesces; two places read it | `InitService`, `InitLoop`, `InitShutdown` |
| init: main loop | epoll, eventfd, property wait, shutdown request | one turn of the loop | lost wake-ups, locks shared with the property thread | `InitLoop` |
| init: property service | property area, control messages, `accept_messages` | set, notify, send control message | several threads, one mutator | `InitLoop`, `PersistentProperties` |
| init: persistent properties | a file, a temporary file, a legacy directory | set, load, stage, migrate | power loss at any step, failing writes | `PersistentProperties` |
| init: action manager | events, actions, current command | queue, execute one command, clear | a queue cleared by the command it executes | `InitShutdown`, in part |
| init: reboot | `shutting_down`, semaphore, watchdog process | powerctl, reboot, userspace reboot | steps that hang or fail, services that die meanwhile, two requests | `InitShutdown` |
| libsnapshot | state and status files, indicators, COWs, super | begin, write, finish, merge, cancel, recover | power loss between any two writes, rollback, resumed merges | `SnapshotManager`, `AtomicUpdate` |
| snapuserd: merge | COW header, scratch space, block states | read ahead, merge, read | three kinds of threads, power loss, overlapping copies | `SnapuserdMerge` |
| init: subcontext, ueventd, first stage, parsers | | | child restarts, cold boot | no |
| fs_mgr, liblp, libdm, libfiemap | partitions, metadata slots | | backup copies of metadata | no |
| debuggerd, tombstoned | queue of dumps | | limits, clients that die | no |
| fastboot | transports | | retries over UDP | no |
| libutils, libcutils, libprocessgroup, ... | reference counts | | atomics of `RefBase` | no |
| healthd, storaged, llkd, trusty, tools | | | little that is concurrent | no |

`PROJECT.json` lists every part with its files and the reason where it is not
modelled, and under `hazards` what is hard to test, each at its line. The
repository is some 170,000 lines, most of them sequential interfaces to the
kernel, file formats, tools and tests; the modules cover the parts with
concurrency, failure and recovery one at a time, and the share of all lines they
map stays small.

How the parts of init interact. The main thread runs one loop
(`SecondStageMain`): act on a shutdown request, execute one command of the
action queue unless it waits, restart or time out services, sleep in
`Epoll::Wait`, handle one control message. Children of init end at any time;
`ReapAnyOutstandingChildren` is called as first callback of `Epoll::Wait` and
again by the handler of the signalfd. The property thread accepts connections,
changes the property area and calls into the main thread's data
(`PropertyChanged`, `QueueControlMessage`) under locks, then wakes it by an
eventfd. The main thread in turn sets `init.svc.<name>` through the property
thread and blocks until it answers. A third thread (`property_service_for_system`)
loads the persistent properties, and a fourth, optional one writes them. A full
reboot starts a monitor thread that forces the reboot when a step hangs; a
userspace reboot forks a watchdog process for the same purpose.

How the parts of an update interact. `update_engine` (not in this repository)
calls `SnapshotManager` under one file lock: it creates a snapshot for each
partition of the target slot, writes the new system into copy-on-write images,
marks the update finished and reboots. First stage init maps the snapshots when
the device comes up on the target slot. Then the merge copies the COWs into
super, in the kernel or in `snapuserd`, in one or two phases, while
`update_engine` polls. In `snapuserd` each partition has a handler with a
read-ahead thread, which saves the source blocks of the next window of copies in
the scratch space of the COW, a merge thread, which writes the window to the
device and counts it in the COW header, and workers, which serve reads meanwhile.

What makes them correct: a service's record of its process is never wrong; init
signals its own children only; what was last asked of a service is what happens;
`init.svc.<name>` tells the truth; the main thread never sleeps over work, and
nobody waits for ever; a persistent property that was acknowledged and written
is there at the next boot; a reboot that was asked for happens, whatever hangs;
at every instant of an update the device can boot a complete system; a merge
that was begun ends; a reader sees the new system's data throughout.

## Modules

### InitService

The life cycle of services. `flags`, `pid`, `prop` and `due` are the fields of
`Service` (flags as a set, `init.svc.<name>` as `prop`, time reduced to "the
restart time or timeout has passed"); `listed`, `delayed` the service list;
`is_exec` the static `is_exec_service_running_`; `process` the kernel's process
table; `ctl` the queue of control messages; `pc`, `agenda` and `reaping` are
where the main thread is. `doomed` records the pids that were signalled, `want`
what was last asked of a service, `seen` in a message that the service had
already ended when the client asked: history, read by properties only.

Each method of `Service` is an operator: `StartWith` with its four ways out
(`StartDelay`, `StartRunning`, `StartNotForked`, `StartForked`), `ExecStart`,
`StopOrReset`, `Restart`, `StartIfNotDisabled`, `Enable`, `Timeout`,
`SetOneshot`. `Perform` is the dispatch of a command or control message, `RunOp`
the execution of one. A command on a class, an `onrestart` list and
`HandleProcessActions` put several operations on `agenda`; between any two of
them children may end and clients may ask. `ReapOneProcess` is three steps
(`FindZombie`, `Reap`/`ReapTemporary`/`ReapUntracked`, `WaitPid`) because what
happens to the pid in between is the point. `StartErrors` are the ways in which
`StartWith` may fail; `SerialConsoleOff` is a device without the serial console,
where `CheckConsole` disables a service that asks for it, also one whose fork
then fails.

### InitLoop

How the main thread sleeps and wakes. The loop is one action per stage, the
property thread one per lock it takes or wake-up it sends. A service is one
child that is down, alive, a zombie or waiting to be restarted. `sigchld` is the
readable signalfd, `wake` the eventfd, `timeout` the argument of `epoll_wait`
("now", a timer, or none). `call` is the main thread blocked in `SetProperty`.
`Top` takes a shutdown command; one that `HandlePowerctlMessage` does not know is
dropped, any other leads to `StopSendingMessages`, where the main thread waits for
the lock under which the property thread calls `PropertyChanged`.
The second property thread, which only brings `sys.powerctl` in, is left out.

### PersistentProperties

`file` is what a read returns, `stored` what is on storage for certain;
`tmp_synced` and `file_synced` say whether the data has been flushed. A write is
five steps, each of which a crash may follow, and each but `fsync` may fail when
its purpose is in `Failing`. A crash leaves the old or the new file, or a torn
one if the data was not synced. `async` chooses the write thread. Setting is
three steps (`BeginSet`, `ChangeMemory`, `Persist`), because the thread that
loads changes memory and `persistent_properties_loaded` between them. `now_ok`,
`staged_ok`, `staged` and `stale` are history.

### InitShutdown

From a value of `sys.powerctl` to the end of the device's or userspace's run.
`main` is where the main thread is: a stage of the loop, a step of
`DoReboot` (`reboot_*`, `fsck`) or of `DoUserspaceReboot` (`us_*`), or `hung` in
a call that does not return. `events`, `executing` and `current_command` are the
fields of `ActionManager`: `ExecuteOneCommand` takes the next action and runs
one of its commands, `ClearQueueAndQueue` is `ClearQueue` followed by the
triggers of the request. `accept_messages`, `do_shutdown`, `shutdown_command`,
`shutting_down`, `waiting` and `exec` are the variables of the same names or
purposes in `init.cpp`. A service has a process that is up, dead or none, and the
flags that matter here; `OnRestart` says which services an `onrestart` restarts,
and `Reap` runs it wherever the code reaps, inside a waiting reboot too.
`HandlePowerctlMessage` returns early (`ReturnEarly`) for a command it does not
know and for a reboot to recovery whose bootloader message cannot be written.
`Vold` is the service that `ShutdownVold` calls, only if it runs, and stops.
`monitor`, `sem` and `monitor_run` are the reboot monitor thread, its semaphore
and its switch; `watchdog` holds one process per userspace reboot. A call in
`HangSites` may never return, one in `FailSites` may fail, at most `MaxFaults`
times; a service crashes at any step. `supported` is chosen once: whether the
device has userspace reboot. `unguarded` is history.

### SnapshotManager and AtomicUpdate

One update. Persistent are the state file (`state`, `phase`), the status file of
each snapshot (`status`), the three indicator files, the COWs (`cow`), super
(`base`: old, new or partly merged) and what the bootloader keeps (`active`,
`successful`, `hal`). `slot` and `recovery` say what runs, `dm` what device each
partition of the target slot has. Every operation runs under the exclusive lock:
`op` is the operation in progress, cut into steps at each write to storage, and
between any two of them the device may go down or a call may fail. `acks`
counts callers that have dropped the lock to take it again and record a failed
merge: another operation may come in between. The actions have the names of the
methods; the boots (`BootSource`, `BootTarget`, `BootRecovery`, `FallBack`) are
first stage init and the bootloader, which is external: it is assumed to give up a
slot that cannot be mounted, as `ProcessUpdateStateOnDataWipe` counts on, and one
that was not marked successful, but never while the HAL reports a merge. Any query
of `CheckTargetMergeState`, the final write of `CreateUpdateSnapshots` (which
deletes the snapshots it has made) and `SetSlotAsUnbootable` of a data wipe (whose
failure is ignored) are among the calls that may fail.

`AtomicUpdate` is what an update promises: a set of bootable systems that is
never empty, a new one prepared beside the old one, given up only while it does
not run, and a commit while the old one does not run. `SnapshotManager`
implements it (`IsAtomic`) under the mapping `BootableNow`, `RunningNow`:
a system is bootable when, of every partition, super holds it or a snapshot that
the next boot maps holds it.

### SnapuserdMerge

One handler of `snapuserd`. `base` and `stored` are the device as its readers
see it and on storage; `head`, `scratch` and their `_stored` forms the mapped
pages of the COW, which the kernel may write back whenever it likes: a crash of
the device takes the page or what was synced, a crash of the daemon alone loses
nothing. `group` and `ios` are `merge_blk_state_` and the reads in progress of
each window, `map` the read-ahead buffer, `io_state` the one condition by which
both threads wait. The threads are `ra`, `mt` and `reader`, each with its
program counter; an action is what a thread does under one lock or between two
calls. `Ops` are the operations of the COW with what its writer guarantees as
`OpsAssumption`. With `async` a thread uses io_uring and falls back to ordinary
reads and writes when that fails. The merge may be asked for before the workers
serve and after the threads were told to end (without a read-ahead thread
`InitiateMerge` sets `MERGE_BEGIN` over any other state), and a merge thread that cannot open its devices ends with
`MergeFailed()`.

Three simplifications. `RaThreadStarted()` sets its flag without a notify, so
`WaitForRaThreadToStart()` may sleep out its three seconds although the flag is
set; the model goes on at once, which differs by a delay only.
`io_uring_get_sqe()` does not fail: the ring is submitted and drained when it is
full. The unsynchronised look into the read-ahead map while it is refilled finds
the block or does not.

### Proof modules

`InitServiceProofs` and `InitServiceStopProofs` prove about `InitService`, and
`InitLoopProofs`, `InitShutdownProofs`, `PersistentPropertiesProofs` and
`SnapshotManagerProofs` about the module of their name. The proofs about
`SnapuserdMerge` are in two modules: `SnapuserdMergeInvariant` has the inductive
invariant, the facts about windows and operations, and the steps of the handler,
the workers and the read-ahead thread; `SnapuserdMergeProofs` extends it with the
steps of the merge thread and the theorems. See "Proofs". The `MC*` modules give
the constants values and assert the hypotheses of the theorems that have one.

## Runs

| Run | Shows |
|---|---|
| `service` | One service, one temporary service, two pids, one client, every command, control operation and failure: `TypeOK`, `PidsTrackChildren`, `KillsOnlyChildren`, `ExecWaitCanEnd`, `StatusIsTrue`, `StoppedStaysDown` |
| `service_pair` | Two services tied by `onrestart`, one critical, the other an updatable oneshot on a console that is off; for both: `StatusIsTrue`, `StoppedStaysDown`, `ExecHaltsCommands` |
| `loop` | One child, two clients: `TypeOK`, `NoLostWakeup`, `NoLostProperty` and, under fairness, `ZombiesReaped`, `RestartsServed`, `CallsReturn`, `ShutdownNoticed`, `ClientsAnswered` |
| `persist` | Two properties, two values, two sets, two crashes, failing writes: `TypeOK`, `SurvivesCrash`, `MemoryMatchesFile` and, under fairness, `AllSettle` |
| `shutdown` | Three services, one of them `vold`, two requests of any kind, an unknown one and a reboot to recovery included, one call that hangs or fails: `TypeOK`, `MonitorInStep`, `CleanResume` and, under fairness, `RequestServed` |
| `snapshot` | Two partitions, one that shrinks, three drivers, two crashes, one failed call: `TypeOK`, `BootloaderKnows`, `ShrunkFirst`, `ChecksHold`, `NoEarlyCancel`, the refinement `IsAtomic` and, under fairness, `MergingResumes`, `KernelMergeFinishes` |
| `snapuserd` | Two windows of overlapping copies and a replaced block, one reader, two crashes, one failing call: `TypeOK`, `ReadsNewWhenResumed`, `CrashKeepsNewData`, `ChecksHold`, `ReadsSucceed` and, under fairness, `MergeFinishes`, `ThreadsEnd` |
| `ctl_race` | violates `StartSeesReapedService` |
| `exec_overlap` | violates `ExecHaltsCommands` |
| `persist_mutators` | violates `OneMutator` |
| `snapshot_resume` | violates `MergeFinishes` of `SnapshotManager` |
| `snapuserd_first` | violates `ReadsNew` |

Bounds. One service meets every order of its own operations; two pids let a
stranger take the pid of a service that has ended while another process of init
lives; the pair adds what one service does to another. `CtlLimit` stands for the
100 of `QueueControlMessage`: 0 is enough for the queue to be full with one
message and refuse the next, 1 in the loop lets two messages share a wake-up.
`MaxQueue` bounds the commands that wait in the loop (238,000 states). Two sets are enough for one to be in the queue while another is written
and for a staged value followed by another; two crashes for one in the load that
follows another (2.4 million states; three sets with two crashes were checked
once for the invariants, 7.2 million).

Two requests in `shutdown` let the second come at any step of the first, and one
userspace reboot follow another; the three services are one that is stopped
late (`vold`), one that belongs to the first group, and one of the debugging
services, which are stopped after the others and which the second's `onrestart`
restarts (535,000 states). Two
partitions suffice for an operation to be cut between them and for both merge
phases; two crashes for one while the consequences of another are repaired
(147,000 states). Two windows are the least for the scratch space to be used twice, copies overlap
within and between them, and two crashes let a resumed merge be interrupted
again (121,000 states). One reader meets every order of its own read with the two
threads. With two, TLC needs more than five minutes, so that what the readers do to
each other, through the counter of a window, rests on the theorems, which hold for
any finite number (`IosCounted`, `Drained`).

Pids are interchangeable, which the runs of `InitService` use as symmetry; runs
with liveness properties use none.

Deadlock is checked in the runs of `InitService`, `InitLoop` and
`SnapshotManager`. `PersistentProperties` may be idle for ever, and is when the
bounded number of sets is used up; a device that is off, and a daemon whose
threads have ended, take no step either. `AllSettle`, `RequestServed` and
`ThreadsEnd` show that nothing is left undone then.

Fairness. In `InitLoop` both threads go on whenever they can (weak fairness):
they are ordinary threads that block only where the model says so. The main
thread's own connection is accepted even if others come all the time (strong
fairness): the backlog of `listen()` is a queue. `StopSendingMessages` gets its
lock although the property thread takes it again and again (strong): the thread
lets go of it between any two messages, and the mutex is handed to a waiter in the
end. Time passes. Nothing makes a
child end, a client ask or a property change. In `PersistentProperties` each
thread goes on; no set and no crash has to come. In `InitShutdown` the main
thread goes on unless it hangs, a process that was sent SIGKILL ends and is
reaped, an exec ends however often the loop turns meanwhile (strong, because the
loop leaves and enters the place where it reaps), and the timeouts of the monitor
and the watchdog expire; nothing makes userspace come up. In `SnapshotManager`
an operation that holds the lock goes on, the device boots, `update_engine`
polls again and again and a merge advances while the device is up (strong:
crashes, though bounded, and other operations come in between), and a device
whose merge failed is rebooted some day. In `SnapuserdMerge` the daemon is
started, asked to merge and its threads run.

What the properties leave out, each because the code does not provide for it and
no document of the repository says that it does:

- `RequestServed`: a second userspace reboot shortly after the first finds
  `in_progress` and `boot_completed` still set, its watchdog ends at once, and
  nothing guards that reboot (`unguarded`). On a device without userspace reboot
  the request is refused after messages were stopped (`reboot.cpp:976` after
  `:1131`), and init hears of no further request. A request that is set while
  messages are stopped is lost, and a second one takes the place of a first that
  was not taken yet. A reboot to recovery whose bootloader message cannot be
  written is dropped without a word (`reboot.cpp:1082-1085`). `fsck` runs untimed
  (`reboot.cpp:461-465`), so that one that hangs is ended by nothing: the model has
  the hang, and `HangSites` of the run leaves it out.
- `MonitorInStep` speaks of the steps before the last: the monitor has ended by
  the time of the final ioctl, and fsck is not timed, on purpose.
- `CleanResume` holds for `onrestart` lists that name services of the same or a
  later group: a post-data service restarted by one that ends after its group
  was waited for would be missed. A post-data service that was waiting to be
  restarted is started as soon as the shutdown is left.
- `CrashKeepsNewData`: a commit whose `msync` fails has already added to
  `num_merge_ops`, and the fallback to ordinary I/O adds again.
- `MergeFinishes` of `SnapuserdMerge`: the page may go to storage between the two
  stores of `CommitMerge` (`TornHeader`).
- `ReadsNewWhenResumed`: the workers wait three seconds for the read-ahead thread
  after a crash, and then serve reads without it. No property covers what is read
  after that timeout, which the run reaches.
- `FallBack`: when, in recovery, the write of `None` and `SetSlotAsUnbootable` both
  fail after a crash that left the HAL at `MERGING`, super still holds the complete
  old system (`UpdateIsAtomic` covers this), but the bootloader, which does not
  leave a merge, is not assumed to turn to it. The run has one failed call.
- `ClientsAnswered`: control messages queued before a shutdown are not answered.
- `StoppedStaysDown` speaks of every service. A start that is delayed until the
  APEXes are ready counts as a request when it is carried out: a stop in between
  does not take the service off the list (`service_list.cpp:79`).
- `StatusIsTrue`: an `onrestart` list that starts its own service, which is
  waiting to be restarted, makes it run under the status "restarting", because
  `Reap` reports that after the commands. The property is about lists that do not
  (`OnRestartSpares`).

## What the checks show to be different from the documents

- `ctl_race`: the comment on `SetFirstCallback` in `init.cpp` says that children
  are always reaped before other pending functions, to prevent a `ctl.start`
  from seeing a service that has exited as running. Control messages are taken
  after `Epoll::Wait` has returned, so a child that ends after the first callback
  is not reaped before. A oneshot that is asked for again then stays down.
- `exec_overlap`: `init/README.md` says that `exec` and `exec_start` halt the
  commands until the process exits. The flag is one for all services: if an
  `onrestart` executes a second one, the exit of either resumes the commands.
- `persist_mutators`: a comment in `PropertySet` says that the second thread must
  not change the property area, which supports one mutator. Loading persistent
  properties does so on that thread.
- `snapshot_resume`: comments in `snapshot.cpp` say that a merge that fails is
  always tried again at the next boot. `InitiateMerge` writes the state `Merging`
  first and the status of each snapshot after that. With the userspace driver a
  device that goes down in between has a snapshot whose status is not `MERGING`;
  no later boot merges it, and the update stays at `MergeFailed`. The kernel
  drivers do resume it (`KernelMergeFinishes`), and so does the userspace driver
  once the status is written (`MergingResumes`).
- `snapuserd_first`: a comment in `snapuserd_transitions.cpp` says that on the
  path of a resumed merge the data of the scratch space take precedence.
  A merge counts as resumed when `num_merge_ops` is not 0. After a crash in the
  first window it still is 0, and until the window is merged again the workers
  read source blocks that it has overwritten.

## Proofs

TLAPS proves the following for every value of the constants: any services, pids,
clients, `.rc` options, properties, partitions, drivers, COWs and window sizes,
any number of workers, crashes, faults and requests. The assumptions about
constants are named where the constants are declared (`ConstantsAssumption`,
`PartitionsAssumption`, `BoundsAssumption`...), say only that sets are not empty
or finite, what the constants' types are, or that bounds are natural numbers, and
are evaluated by TLC in the runs. One says more: `OpsAssumption` of
`SnapuserdMerge` is what the writer of a COW guarantees of its operations.

| Module | Theorem | What is proved |
|---|---|---|
| `InitServiceProofs` | `TypeCorrect`, `PidsAreTracked`, `KillsAreSafe`, `ExecWaitEnds`, `StatusStaysTrue`, `ExecsHaltCommands` | the invariants `TypeOK`, `PidsTrackChildren`, `KillsOnlyChildren`, `ExecWaitCanEnd`, `StatusIsTrue`, and the action property `ExecHaltsCommands` |
| `InitServiceStopProofs` | `StoppedServicesStayDown` | the action property `StoppedStaysDown` |
| `InitLoopProofs` | `TypeCorrect`, `WakeupsNotLost`, `PropertiesNotLost` | `TypeOK`, `NoLostWakeup`, `NoLostProperty` |
| `PersistentPropertiesProofs` | `TypeCorrect`, `NoTornFile`, `CrashSurvived`, `MemoryFollowed` | `TypeOK`, no torn file is ever found at a boot, `SurvivesCrash`, `MemoryMatchesFile` |
| `InitShutdownProofs` | `TypeCorrect`, `MonitorKeepsStep`, `ResumesClean` | `TypeOK`, `MonitorInStep`, `CleanResume` |
| `SnapshotManagerProofs` | `TypeCorrect`, `BootloaderInformed`, `ShrunkMergedFirst`, `ChecksNeverFail`, `NeverCancelsEarly`, `UpdateIsAtomic` | `TypeOK`, `BootloaderKnows`, `ShrunkFirst`, `ChecksHold`, `NoEarlyCancel`, and the refinement `IsAtomic` of `AtomicUpdate` |
| `SnapuserdMergeProofs` | `TypeCorrect`, `CrashSafe`, `ReadsAreNew`, `ChecksNeverFail`, `ReadsNeverFail`, `CompleteIsMerged` | `TypeOK`, `CrashKeepsNewData`, `ReadsNewWhenResumed`, `ChecksHold`, `ReadsSucceed`, a merge that is reported complete is on storage (`Merged`) |

**InitService.** None of the four invariants is inductive alone. `IndInv` joins
them and adds `ReapInProgress` (the zombie that is being reaped stays one until
`WaitPid`, and after `Reap` no service has its pid: else `WaitPid` could free a
pid that a service still holds) and `UnlistedIsBlank` (a temporary service out of
the list has no process: else an exec could end with nobody to find). The
operations are summarised once: each leaves the process table alone (`Quiet`) or
forks one process for a service that has none (`Forks`); `PerformSummary`
collects the lemmas, and the rest of the proof has one lemma per kind of step of
the loop. `StoppedStaysDown` rests on `DownInv`: a service that should be down is
not waiting for the restart timer and, while its process lives, carries a flag
that makes `Reap` leave it down.

`StatusIsTrue` speaks of an empty agenda. In between, `Reap` has set
SVC_RESTARTING and runs the `onrestart` commands before it sets the property:
`StatusInv` says of every service that its property is true, or that it waits to
be restarted and the agenda ends with the report, and that nothing before that
report touches the wait. The last part is what `OnRestartSpares` is needed for:
the `onrestart` list of a service names that service only in operations that have
no effect on one that waits (`restart`, the class forms of it, `oneshot_on`,
`oneshot_off`). `ExecHaltsCommands` has the hypothesis `ExecsAlone`, that no
`onrestart` list executes a service and `exec_start` is a command of its own.
`ExecInv` then says that at most one service has SVC_EXEC and that
`is_exec_service_running_` is set while one has it; without the hypothesis the
run `exec_overlap` is a counterexample.

**InitLoop.** `NoLostWakeup` speaks of the moment at which the loop sleeps, and
most steps that endanger it are far from there. The inductive invariant says of
each kind of work (`ZombieAnnounced`, `ControlAnnounced`, `ShutdownAnnounced`,
`CommandsAnnounced`) that it is announced by a descriptor or will still be looked
for in this turn.

**PersistentProperties.** `SurvivesCrash` needs that the two threads never write
the file at once (`OneWriter`: the second thread writes only after it was told
that the load is over), that the name of the file never leads to unsynced data
(`NeverTorn`: the rename follows the fsync), and that what the crash would leave
is what was acknowledged, both while running (`RunningKept`) and while the file
is loaded (`BootKept`). The last two theorems have the hypothesis `ApplyWritten`,
that the write which applies staged values does not fail: if it does, the staged
values stay in the file and take precedence again at the next boot, over values
set in between.

**InitShutdown.** The monitor and the main thread meet in a semaphore that
counts; `PostsCounted` relates the parity of the posts not yet seen to what the
monitor last saw. `ResumesClean` has the hypothesis `OnRestartDownward`: the
`onrestart` list of a service names services that are stopped with it or after
it. Without it a service of an earlier group that ends late can bring up a
post-data service while a userspace reboot is waiting. The run's constants
satisfy both hypotheses, and the `MC` modules assert so.

**SnapshotManager.** The invariant `Inv` has one part per question the code
answers from files that a crash may have cut between: `TargetIntact` (the slot
that is active is complete, whatever was interrupted, or `Abandoned`: recovery has
wiped an update that was not merged and could not mark its slot unbootable; then
the old system is complete and only recovery runs), `WipesTrue` (the data are wiped
only when nothing on them is needed: the update is over or on its way to being
abandoned, `Dropped`), `MergeGuarded` (before a
block of super is overwritten the bootloader knows of the merge and the state
file says so), `Committed`, `StatusTrue`, `PhasesKept`, `DevicesTrue`,
`SlotsTrue`, and one part for each multi-step operation that says what its
program counter implies (`ResultTrue`, `RecoveryTrue`, `WritesTrue`,
`RemovesTrue`, `CreatesTrue`, `SwitchesTrue`, `PollsTrue`). Every step is
summarised by a lemma (`...Effect`) that names the variables it changes, and each
part has a lemma per step that can disturb it. The refinement maps each step to
one of three things: the bootable systems and the running one do not change, the
running one changes to a bootable one (`Turns`), or the bootable ones change as
`AtomicUpdate` allows (`Changes`, `Overwrites`).

**SnapuserdMerge.** The invariant `Inv` has 32 parts in three groups. The first
says whose turn it is. The two threads wait for each other through one variable,
`io_state`, which the handler and every failure set too, so for each step of a
thread the invariant says what the other may be doing: `WindowLoaded`,
`MergeBusy` and `WindowMerged` for the merge thread, `RaAlone`, `RaMayTake`,
`RaBegins`, `RaCopies` and `RaSyncs` for the read-ahead thread, `BatchTurn` for the
operations that are not ordered. The central fact is that the scratch space is
written only while neither the header in memory nor the one on storage vouches for
it, and is vouched for only after it was synced. The second group relates windows
and workers: windows are numbered as the workers number them (`Aligned`,
`GroupsTrue`), `IosCounted` says that the counter of each window is the number of
workers that read its sources, so that nobody does once it is zero (`Drained`),
and a window that is about to be merged is in the buffer (`MapReady`). The third
is about the data: `Vouched` (a header that vouches for the scratch space is
right), `Recoverable` (of what a header does not count, the source is untouched or
the block is in the scratch space), `CountedMerged` (what it counts is merged, unless
a commit's `msync` failed), the sources that are still to be read (`RaSources`,
`ReadSources`), and the first window of a resumed merge (`ResumedFirst`,
`ResumedMapped`, `ResumedServed`), which only the scratch space holds. `Vouched`
and `Recoverable` speak of both headers, because the kernel may write a page back
at any time and a crash then leaves either.

Every action has a lemma `...Keeps`: what the step changes, first, then the parts
whose variables it leaves alone (lemmas `...Frame`), then the rest one by one. The
ways out that several actions share have a name: `RaGivesUp`, `WindowRedone` (the
fallback from io_uring goes back to the beginning of the window), `WindowFails`,
`NotOpened` (the merge thread cannot open its devices),
`BatchFails`, `Rebuilt` and `NotRebuilt`. The argument that a window may be redone
is the delicate one: some of its blocks are already merged and have overwritten
sources of others, and the buffer still has what they held. `OpsAssumption` is
needed where a write must not hit what is still to be read: ordered operations
come first, no block is written twice, and no operation reads a block that an
earlier one writes. `ReadersAssumption` says that there are finitely many workers,
`SizesAssumption` that the window size and the bounds are natural numbers, the
first of them not 0.

`CompleteIsMerged` is the safety half of `MergeFinishes`, without its exceptions for
failed calls and a torn header: however often the merge was interrupted, retried or
resumed, once `MergeCompleted()` has set `MERGE_COMPLETE`, on which libsnapshot
removes the snapshot, storage holds `NewData` of every block and a header that counts
every operation. Left out is again a commit whose `msync` failed. Besides `Inv` it
needs where the merge thread then stands (`Completed`), that between two commits the
count in memory is the one on storage (`HeaderFlushed`), and that blocks which are only
read are never written (`Untouched`).

`ChecksHold` of `SnapuserdMerge` is stated for a merge thread that stands at an
ordered operation, as in the code, which sets a window in progress only then.

Only model-checked: the liveness properties (fairness and `ENABLED` are out of the
prover's reach). Every invariant and every action property of the passing runs is
also proved.

## Plan

1. Done: `InitService`, `InitLoop`, `PersistentProperties`, `InitShutdown`,
   `SnapshotManager` with `AtomicUpdate`, `SnapuserdMerge`, their runs, and the
   proofs of all their safety properties.
2. Proofs worth adding: hypotheses that could be weaker (`ApplyWritten`,
   `OnRestartDownward`), and an abstract specification for `SnapuserdMerge`, which
   `SnapshotManager` could then use for the merge of one partition.
3. Further models worth writing: `Tombstoned` (the queue of dumps and its
   limits), the metadata slots of `liblp`, the UDP transport of `fastboot`, the
   action queue with several actions of one trigger and actions of an APEX that
   is removed, the crash window of a critical service.

## Not modelled

Of init: wording, logging, SELinux checks, file descriptors and sockets of
services, memory cgroups, capabilities, mounts; the set-up before the main loop;
SIGTERM and key chords; a second load of the persistent properties in one boot; a
`/data/property` that cannot be opened; the times of several services (a service
that `HandleProcessActions` itself restarts is not in the next action time of
that turn); the counting of crashes of a critical service; the removal of the
actions and services of an APEX; the text of bootloader messages and the reboot
reason; a
`wait_for_prop` in an `on shutdown` action, which delays the reboot until the
property is set.

Of updates: a second update after the first; sizes and places of COWs, and
running out of space; re-flashing by fastboot; `BootFromSnapshotsWithoutSlotSwitch`;
the hand-over of `snapuserd` from first stage to second stage init; several
handlers in one daemon and the limit on merge threads; reads that are not aligned
to blocks; verification of partitions after a boot; a COW without scratch space.
`update_engine` is assumed to call the methods in the order their comments ask
for.

The other parts are listed in `PROJECT.json` with the reason: most of them are
sequences of system calls, file formats and their arithmetic, formatting, or
command-line tools, where there is no interleaving, no recovery and no state
machine for a model to explore.
