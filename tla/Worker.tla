------------------------------- MODULE Worker -------------------------------
(***************************************************************************)
(* The life of the workers of one slot (src/src/worker.rs), one process    *)
(* after the other.  A worker has two threads: the main thread runs        *)
(* lifecycle() and, when it returns, cleanup() through CleanupGuard; the   *)
(* signal thread waits for SIGTERM or SIGINT, runs the same cleanup() and  *)
(* ends the process.  Outside it are multipassd, GitHub and the run.sh     *)
(* child; what they keep outlives the process, and the next worker of the  *)
(* slot sweeps it.  The polling loops that watch the runner are abstracted *)
(* here to what they may conclude; HealthMonitor has them in full.         *)
(***************************************************************************)
EXTENDS Integers

CONSTANTS
    Names,        \* VM names of this slot: vmfleet-<pool>-<slot>-<ts>-<pid>
    NoName,       \* no VM name
    NoThread,     \* nobody holds the run_child mutex
    MaxFaults,    \* bound on failing calls and SIGKILLs
    MaxSignals    \* bound on SIGTERM/SIGINT deliveries

ASSUME WorkerAssumption ==
    /\ NoName \notin Names
    /\ NoThread \notin {"main", "signal"}
    /\ MaxFaults \in Nat /\ MaxSignals \in Nat

VARIABLES
    useJit,     \* cfg.supervisor.use_jit
    running,    \* the worker process exists
    me,         \* ctx.vm_name of the current, or else the last, worker
    pc,         \* location of each thread
    cleaned, created,    \* Ctx's atomic flags
    guard,      \* the main thread holds the admission lock
    stored,     \* run_child is Some
    child,      \* the `multipass exec` child is alive
    mutex,      \* holder of the run_child mutex across kill() and wait()
    todo,       \* VMs sweep_leftovers has listed and not yet reaped
    found,      \* cleanup()'s list_runners showed our record
    vm,         \* multipassd: absent, cloning, stopped, running
    record,     \* GitHub's runner record: absent, offline, online
    slotFile,   \* the VM name in the slot's state file
    faults, signals,     \* bounds used up
    dirty,      \* history: a call failed that this worker's cleanup rests on
    missed,     \* history: a call of this worker's sweep failed
    late        \* history: VMs multipassd finished after the last sweep began

ident == <<useJit, running, me>>
flags == <<cleaned, created>>
childVars == <<stored, child, mutex>>
scratch == <<todo, found>>
worldVars == <<vm, record, slotFile>>
budget == <<faults, signals>>
history == <<dirty, missed, late>>
vars == <<ident, pc, flags, guard, childVars, scratch, worldVars, budget, history>>

Threads == {"main", "signal"}

(* cleanup()'s steps, from the swap of `cleaned` to the end of the process *)
CleanupBody == {"child", "childWait", "list", "delete", "purge", "remove"}

MainLocations ==
    {"precheck", "sweepFile", "sweepList", "sweep", "writeState", "regToken",
     "gate", "clone", "cloning", "created", "start", "settle", "cloudInit",
     "config", "jit", "spawn", "store", "registering", "monitoring"}

Locations == MainLocations \union CleanupBody \union {"sigwait", "swap", "exit"}

-----------------------------------------------------------------------------
At(t, l) == running /\ pc[t] = l

Goto(t, l) == pc' = [pc EXCEPT ![t] = l]

(* A call that fails uses up the bound on faults. *)
Fault == faults < MaxFaults /\ faults' = faults + 1
NoFault == UNCHANGED faults

(* An error or the end of lifecycle(): its locals are dropped, the         *)
(* admission guard among them, and CleanupGuard's drop calls cleanup().    *)
Return == Goto("main", "swap") /\ guard' = FALSE

(* What purging VM n does when the commands go through.  multipassd        *)
(* refuses while it is still cloning n.                                    *)
Purged(n) ==
    /\ vm' = [vm EXCEPT ![n] = IF @ = "cloning" THEN @ ELSE "absent"]
    /\ child' = (child /\ ~(n = me /\ vm[n] = "running"))

(* A runner whose VM is gone drops offline. *)
Disconnected(n, r) == IF r[n] = "online" THEN [r EXCEPT ![n] = "offline"] ELSE r

Init ==
    /\ useJit \in BOOLEAN
    /\ running = FALSE /\ me = NoName
    /\ pc = [t \in Threads |-> "exit"]
    /\ cleaned = FALSE /\ created = FALSE /\ guard = FALSE
    /\ stored = FALSE /\ child = FALSE /\ mutex = NoThread
    /\ todo = {} /\ found = FALSE
    /\ vm = [n \in Names |-> "absent"]
    /\ record = [n \in Names |-> "absent"]
    /\ slotFile = NoName
    /\ faults = 0 /\ signals = 0
    /\ dirty = FALSE /\ missed = FALSE /\ late = {}

(* <ts>-<pid> makes a worker's name a new one; a name that has left no     *)
(* trace stands for one never used.                                        *)
Unused == {n \in Names : vm[n] = "absent" /\ record[n] = "absent" /\ slotFile # n}

(* systemd starts the unit: run() builds Ctx under a name of its own and   *)
(* spawns the signal thread.                                               *)
Launch ==
    /\ ~running /\ Unused # {}
    /\ running' = TRUE /\ me' = CHOOSE n \in Unused : TRUE
    /\ pc' = [t \in Threads |-> IF t = "main" THEN "precheck" ELSE "sigwait"]
    /\ cleaned' = FALSE /\ created' = FALSE
    /\ dirty' = FALSE /\ missed' = FALSE
    /\ UNCHANGED <<useJit, guard, childVars, scratch, worldVars, budget, late>>

-----------------------------------------------------------------------------
(* lifecycle(), step by step. *)

(* multipass available, base present, GitHub reachable. *)
Precheck ==
    /\ At("main", "precheck")
    /\ \/ NoFault /\ Goto("main", "sweepFile") /\ UNCHANGED guard
       \/ Fault /\ Return
    /\ UNCHANGED <<ident, flags, childVars, scratch, worldVars, signals,
                   history>>

(* reap(n): delete the runner records of that name, then purge the VM,     *)
(* ignoring what fails.                                                    *)
Reap(n) ==
    \/ /\ NoFault
       /\ record' = [record EXCEPT ![n] = "absent"]
       /\ Purged(n)
       /\ UNCHANGED missed
    \/ /\ Fault
       /\ missed' = TRUE
       /\ \/ record' = Disconnected(n, record) /\ Purged(n)
          \/ record' = [record EXCEPT ![n] = "absent"] /\ UNCHANGED <<child, vm>>
          \/ UNCHANGED <<child, vm, record>>

(* The VM named by the state file is reaped, if it is another one. *)
SweepStateFile ==
    /\ At("main", "sweepFile")
    /\ Goto("main", "sweepList")
    /\ IF slotFile \notin {NoName, me}
         THEN Reap(slotFile)
         ELSE NoFault /\ UNCHANGED <<child, vm, record, missed>>
    /\ UNCHANGED <<ident, flags, guard, stored, mutex, scratch, slotFile,
                   signals, dirty, late>>

(* What list_prefixed() shows of the slot, other than our own VM. *)
ListedRunning == \* mutant: stopped VMs are skipped
    {n \in Names : vm[n] = "running"} \ {me}

ListedNothing == {} \* mutant: a prefix that matches no VM

ListedWithFile == \* mutant: with the name in the state file, also when empty
    {n \in Names : vm[n] \in {"stopped", "running"}} \union {slotFile}

Listed == {n \in Names : vm[n] \in {"stopped", "running"}} \ {me}

(* list_prefixed; an error is ignored. *)
SweepList ==
    /\ At("main", "sweepList")
    /\ Goto("main", "sweep")
    /\ late' = {}
    /\ \/ NoFault /\ UNCHANGED missed
          /\ todo' = Listed
       \/ Fault /\ missed' = TRUE /\ todo' = {}
    /\ UNCHANGED <<ident, flags, guard, childVars, found, worldVars, signals,
                   dirty>>

SweepOne ==
    /\ At("main", "sweep")
    /\ \E n \in todo : Reap(n) /\ todo' = todo \ {n}
    /\ UNCHANGED <<ident, pc, flags, guard, stored, mutex, found, slotFile,
                   signals, dirty, late>>

SweepDone ==
    /\ At("main", "sweep") /\ todo = {}
    /\ Goto("main", "writeState")
    /\ UNCHANGED <<ident, flags, guard, childVars, scratch, worldVars, budget,
                   history>>

(* fs::write(state_file).ok(): a failed write may have truncated the file. *)
WriteState ==
    /\ At("main", "writeState")
    /\ Goto("main", IF useJit THEN "gate" ELSE "regToken")
    /\ \/ NoFault /\ slotFile' = me
       \/ Fault /\ slotFile' \in {slotFile, NoName}
    /\ UNCHANGED <<ident, flags, guard, childVars, scratch, vm, record,
                   signals, history>>

(* Token flow only: registration_token(). *)
RegToken ==
    /\ At("main", "regToken")
    /\ \/ NoFault /\ Goto("main", "gate") /\ UNCHANGED guard
       \/ Fault /\ Return
    /\ UNCHANGED <<ident, flags, childVars, scratch, worldVars, signals,
                   history>>

(* gate.acquire(): see AdmissionGate. *)
GateAcquire ==
    /\ At("main", "gate")
    /\ \/ NoFault /\ Goto("main", "clone") /\ guard' = TRUE
       \/ Fault /\ Return
    /\ UNCHANGED <<ident, flags, childVars, scratch, worldVars, signals,
                   history>>

(* `multipass clone` reaches multipassd ... *)
CloneBegin ==
    /\ At("main", "clone")
    /\ Goto("main", "cloning")
    /\ vm' = [vm EXCEPT ![me] = "cloning"]
    /\ UNCHANGED <<ident, flags, guard, childVars, scratch, record, slotFile,
                   budget, history>>

(* ... and returns: done, refused, or timed out with the clone going on.   *)
CloneReturns ==
    /\ At("main", "cloning")
    /\ \/ /\ NoFault /\ vm[me] # "cloning"
          /\ Goto("main", "created") /\ UNCHANGED <<guard, vm, dirty>>
       \/ /\ Fault /\ vm[me] = "cloning" /\ Return
          /\ \/ vm' = [vm EXCEPT ![me] = "absent"] /\ UNCHANGED dirty
             \/ dirty' = TRUE /\ UNCHANGED vm
    /\ UNCHANGED <<ident, flags, childVars, scratch, record, slotFile, signals,
                   missed, late>>

(* created.store(true) *)
CreatedUnmarked == \* mutant: the store is missing
    /\ At("main", "created")
    /\ Goto("main", "start")
    /\ UNCHANGED <<ident, flags, guard, childVars, scratch, worldVars,
                   budget, history>>

MarkCreated ==
    /\ At("main", "created")
    /\ Goto("main", "start")
    /\ created' = TRUE
    /\ UNCHANGED <<ident, cleaned, guard, childVars, scratch, worldVars,
                   budget, history>>

(* set_cpus, set_memory, start: they fail on their own or because the      *)
(* signal thread has purged the VM.  A start that times out may take hold. *)
StartVM ==
    /\ At("main", "start")
    /\ \/ NoFault /\ vm[me] = "stopped" /\ UNCHANGED guard
          /\ vm' = [vm EXCEPT ![me] = "running"] /\ Goto("main", "settle")
       \/ NoFault /\ vm[me] = "absent" /\ Return /\ UNCHANGED vm
       \/ Fault /\ vm[me] = "stopped" /\ Return
          /\ \E s \in {"stopped", "running"} : vm' = [vm EXCEPT ![me] = s]
    /\ UNCHANGED <<ident, flags, childVars, scratch, record, slotFile, signals,
                   history>>

(* gate.settle(); drop(guard) *)
SettleAndDrop ==
    /\ At("main", "settle")
    /\ Goto("main", "cloudInit")
    /\ guard' = FALSE
    /\ UNCHANGED <<ident, flags, childVars, scratch, worldVars, budget, history>>

(* wait_cloud_init: the deadline passes when the VM is gone or does not    *)
(* come up.  setup_swap follows, its outcome ignored.                      *)
WaitCloudInit ==
    /\ At("main", "cloudInit")
    /\ \/ NoFault /\ vm[me] = "running" /\ UNCHANGED guard
          /\ Goto("main", IF useJit THEN "jit" ELSE "config")
       \/ NoFault /\ vm[me] # "running" /\ Return
       \/ Fault /\ Return
    /\ UNCHANGED <<ident, flags, childVars, scratch, worldVars, signals,
                   history>>

(* A call that registers the runner fails after or before GitHub has made  *)
(* the record.                                                             *)
RegistrationFails ==
    /\ Fault /\ Return
    /\ \E r \in {"offline", record[me]} : record' = [record EXCEPT ![me] = r]

(* Token flow: config.sh --ephemeral --replace inside the VM. *)
ConfigSh ==
    /\ At("main", "config")
    /\ \/ NoFault /\ vm[me] = "running" /\ UNCHANGED guard
          /\ record' = [record EXCEPT ![me] = "offline"] /\ Goto("main", "spawn")
       \/ NoFault /\ vm[me] # "running" /\ Return /\ UNCHANGED record
       \/ vm[me] = "running" /\ RegistrationFails
    /\ UNCHANGED <<ident, flags, childVars, scratch, vm, slotFile, signals,
                   history>>

(* JIT flow: generate_jitconfig() makes the record. *)
GenerateJitconfig ==
    /\ At("main", "jit")
    /\ \/ NoFault /\ UNCHANGED guard
          /\ record' = [record EXCEPT ![me] = "offline"] /\ Goto("main", "spawn")
       \/ RegistrationFails
    /\ UNCHANGED <<ident, flags, childVars, scratch, vm, slotFile, signals,
                   history>>

(* Command::spawn: a child whose VM is gone ends at once. *)
SpawnChild ==
    /\ At("main", "spawn")
    /\ \/ NoFault /\ child' = (vm[me] = "running")
          /\ Goto("main", "store") /\ UNCHANGED guard
       \/ Fault /\ Return /\ UNCHANGED child
    /\ UNCHANGED <<ident, flags, stored, mutex, scratch, worldVars, signals,
                   history>>

(* *ctx.run_child.lock() = Some(child) *)
StoreChild ==
    /\ At("main", "store") /\ mutex = NoThread
    /\ Goto("main", "registering")
    /\ stored' = TRUE
    /\ UNCHANGED <<ident, flags, guard, child, mutex, scratch, worldVars,
                   budget, history>>

ChildAlive == stored /\ child

(* A verdict of wait_registration, as RunnerWatch allows it: the child has *)
(* ended, the record is listed, or the deadline passed without the record  *)
(* or without an answer.                                                   *)
WaitRegistration ==
    /\ At("main", "registering") /\ mutex = NoThread
    /\ \/ NoFault /\ record[me] # "absent"
          /\ Goto("main", "monitoring") /\ UNCHANGED guard
       \/ NoFault /\ (~ChildAlive \/ record[me] = "absent") /\ Return
       \/ Fault /\ Return
    /\ UNCHANGED <<ident, flags, childVars, scratch, worldVars, signals, history>>

(* health_monitor returns, as RunnerWatch allows it: the child has ended,  *)
(* or an unhealthy answer came after the grace period.                     *)
HealthMonitorReturns ==
    /\ At("main", "monitoring") /\ mutex = NoThread
    /\ ~ChildAlive \/ record[me] # "online"
    /\ Return
    /\ UNCHANGED <<ident, flags, childVars, scratch, worldVars, budget, history>>

-----------------------------------------------------------------------------
(* cleanup(), run by the main thread's CleanupGuard or the signal thread.  *)

CleanupAlways(t) == \* mutant: the old value of the flag is not looked at
    /\ At(t, "swap")
    /\ cleaned' = TRUE
    /\ Goto(t, "child")
    /\ UNCHANGED <<ident, created, guard, childVars, scratch, worldVars,
                   budget, history>>

(* cleaned.swap(true): whoever comes second returns at once. *)
CleanupSwap(t) ==
    /\ At(t, "swap")
    /\ cleaned' = TRUE
    /\ Goto(t, IF cleaned THEN "exit" ELSE "child")
    /\ UNCHANGED <<ident, created, guard, childVars, scratch, worldVars,
                   budget, history>>

CleanupWaitsOnly(t) == \* mutant: wait() without kill()
    /\ At(t, "child") /\ mutex = NoThread
    /\ stored' = FALSE
    /\ IF stored THEN mutex' = t /\ Goto(t, "childWait")
                 ELSE Goto(t, "list") /\ UNCHANGED mutex
    /\ UNCHANGED <<ident, flags, guard, child, scratch, worldVars, budget, history>>

(* run_child.lock().take() and kill(); the lock is kept over wait() too. *)
CleanupChild(t) ==
    /\ At(t, "child") /\ mutex = NoThread
    /\ stored' = FALSE
    /\ IF stored THEN mutex' = t /\ Goto(t, "childWait") /\ child' = FALSE
                 ELSE Goto(t, "list") /\ UNCHANGED <<mutex, child>>
    /\ UNCHANGED <<ident, flags, guard, scratch, worldVars, budget, history>>

(* wait() returns.  run.sh inside the VM may outlive its exec client. *)
CleanupChildWait(t) ==
    /\ At(t, "childWait") /\ ~child
    /\ mutex' = NoThread
    /\ record' \in {record, Disconnected(me, record)}
    /\ Goto(t, "list")
    /\ UNCHANGED <<ident, flags, guard, stored, child, scratch, vm, slotFile,
                   budget, history>>

(* list_runners(): an error skips the deregistration. *)
CleanupList(t) ==
    /\ At(t, "list")
    /\ \/ NoFault /\ found' = (record[me] # "absent")
          /\ Goto(t, "delete") /\ UNCHANGED dirty
       \/ Fault /\ dirty' = TRUE /\ Goto(t, "purge") /\ UNCHANGED found
    /\ UNCHANGED <<ident, flags, guard, childVars, todo, worldVars, signals,
                   missed, late>>

(* delete_runner() of the record the list showed; the error is ignored. *)
CleanupDelete(t) ==
    /\ At(t, "delete")
    /\ Goto(t, "purge")
    /\ found' = FALSE
    /\ \/ NoFault /\ UNCHANGED dirty
          /\ record' = IF found THEN [record EXCEPT ![me] = "absent"] ELSE record
       \/ found /\ Fault /\ dirty' = TRUE /\ UNCHANGED record
    /\ UNCHANGED <<ident, flags, guard, childVars, todo, vm, slotFile, signals,
                   missed, late>>

(* purge(), only when the clone is known to exist; the error is logged. *)
CleanupPurge(t) ==
    /\ At(t, "purge")
    /\ Goto(t, "remove")
    /\ \/ NoFault /\ created /\ Purged(me) /\ UNCHANGED dirty
          /\ record' = Disconnected(me, record)
       \/ NoFault /\ ~created /\ UNCHANGED <<vm, child, record, dirty>>
       \/ Fault /\ created /\ dirty' = TRUE /\ UNCHANGED <<vm, child, record>>
    /\ UNCHANGED <<ident, flags, guard, stored, mutex, scratch, slotFile,
                   signals, missed, late>>

(* remove_file(state_file), its error ignored. *)
CleanupRemove(t) ==
    /\ At(t, "remove")
    /\ Goto(t, "exit")
    /\ \/ NoFault /\ slotFile' = NoName
       \/ Fault /\ UNCHANGED slotFile
    /\ UNCHANGED <<ident, flags, guard, childVars, scratch, vm, record,
                   signals, history>>

(* The process ends with whatever its other thread was doing: systemd      *)
(* kills the run.sh child, the kernel drops the admission lock.            *)
Ended ==
    /\ running' = FALSE
    /\ pc' = [t \in Threads |-> "exit"]
    /\ guard' = FALSE /\ stored' = FALSE /\ child' = FALSE
    /\ mutex' = NoThread /\ todo' = {} /\ found' = FALSE

(* run() returns in the main thread; process::exit in the signal thread. *)
Exit(t) ==
    /\ At(t, "exit")
    /\ Ended
    /\ UNCHANGED <<useJit, me, flags, worldVars, budget, history>>

-----------------------------------------------------------------------------
(* The world around the worker. *)

(* SIGTERM or SIGINT: set.wait() returns in the signal thread. *)
Signal ==
    /\ At("signal", "sigwait")
    /\ signals < MaxSignals /\ signals' = signals + 1
    /\ Goto("signal", "swap")
    /\ UNCHANGED <<ident, flags, guard, childVars, scratch, worldVars, faults,
                   history>>

(* SIGKILL (TimeoutStopSec), OOM kill or a host crash. *)
Killed ==
    /\ running /\ Fault
    /\ Ended
    /\ dirty' = TRUE
    /\ UNCHANGED <<useJit, me, flags, worldVars, signals, missed, late>>

(* multipassd finishes a clone, also one whose client is gone. *)
DaemonCloned(n) ==
    /\ vm[n] = "cloning"
    /\ vm' = [vm EXCEPT ![n] = "stopped"]
    /\ late' = IF n = me /\ At("main", "cloning") THEN late ELSE late \union {n}
    /\ UNCHANGED <<ident, pc, flags, guard, childVars, scratch, record, slotFile,
                   budget, dirty, missed>>

RunnerConnects ==
    /\ child /\ record[me] = "offline"
    /\ record' = [record EXCEPT ![me] = "online"]
    /\ UNCHANGED <<ident, pc, flags, guard, childVars, scratch, vm, slotFile,
                   budget, history>>

(* The ephemeral runner has done its job: GitHub drops its record and      *)
(* run.sh ends.                                                            *)
JobDone ==
    /\ child /\ record[me] = "online"
    /\ record' = [record EXCEPT ![me] = "absent"]
    /\ child' = FALSE
    /\ UNCHANGED <<ident, pc, flags, guard, stored, mutex, scratch, vm,
                   slotFile, budget, history>>

(* run.sh ends, or the runner loses its session, without a job done. *)
RunnerFails ==
    /\ child
    /\ record' = Disconnected(me, record)
    /\ child' \in BOOLEAN
    /\ UNCHANGED <<ident, pc, flags, guard, stored, mutex, scratch, vm,
                   slotFile, budget, history>>

MainStep ==
    \/ Precheck \/ SweepStateFile \/ SweepList \/ SweepOne \/ SweepDone
    \/ WriteState \/ RegToken \/ GateAcquire \/ CloneBegin \/ CloneReturns
    \/ MarkCreated \/ StartVM \/ SettleAndDrop \/ WaitCloudInit
    \/ ConfigSh \/ GenerateJitconfig \/ SpawnChild \/ StoreChild
    \/ WaitRegistration \/ HealthMonitorReturns

CleanupStep(t) ==
    \/ CleanupSwap(t) \/ CleanupChild(t) \/ CleanupChildWait(t)
    \/ CleanupList(t) \/ CleanupDelete(t) \/ CleanupPurge(t)
    \/ CleanupRemove(t) \/ Exit(t)

Next ==
    \/ Launch \/ \E n \in Names : DaemonCloned(n)
    \/ MainStep
    \/ \E t \in Threads : CleanupStep(t)
    \/ Signal \/ Killed
    \/ RunnerConnects \/ JobDone \/ RunnerFails

SafetySpec == Init /\ [][Next]_vars

(* Both threads run, every external call returns (each has a timeout), a   *)
(* clone multipassd has begun ends, and the supervisor relaunches.         *)
Spec ==
    /\ SafetySpec
    /\ WF_vars(MainStep)
    /\ \A t \in Threads : WF_vars(CleanupStep(t))
    /\ \A n \in Names : WF_vars(DaemonCloned(n))
    /\ WF_vars(Launch)

-----------------------------------------------------------------------------
TypeOK ==
    /\ useJit \in BOOLEAN /\ running \in BOOLEAN
    /\ me \in Names \union {NoName}
    /\ pc \in [Threads -> Locations]
    /\ cleaned \in BOOLEAN /\ created \in BOOLEAN /\ guard \in BOOLEAN
    /\ stored \in BOOLEAN /\ child \in BOOLEAN
    /\ mutex \in Threads \union {NoThread}
    /\ todo \subseteq Names /\ found \in BOOLEAN
    /\ vm \in [Names -> {"absent", "cloning", "stopped", "running"}]
    /\ record \in [Names -> {"absent", "offline", "online"}]
    /\ slotFile \in Names \union {NoName}
    /\ faults \in 0..MaxFaults /\ signals \in 0..MaxSignals
    /\ dirty \in BOOLEAN /\ missed \in BOOLEAN /\ late \subseteq Names

(* "Cleanup (deregister + purge VM) runs on normal exit, error, and on     *)
(* SIGTERM/SIGINT": when a worker process has ended, its VM and its runner *)
(* record are gone, unless a call that cleanup rests on failed or the      *)
(* process was killed.                                                     *)
CleanExit ==
    (~running /\ me # NoName /\ ~dirty)
        => vm[me] = "absent" /\ record[me] = "absent"

(* On its own, by the end of its job or by an error at any step, a worker  *)
(* keeps that promise; WorkerSignalLeak shows that a signal breaks it.     *)
UnsignalledCleanExit == signals = 0 => CleanExit

(* A worker comes to its clone with no other VM left in its slot, however  *)
(* earlier workers of the slot ended: sweep_leftovers() has purged them,   *)
(* save where one of its own calls failed or multipassd completed a dead   *)
(* worker's clone after the sweep had listed the VMs.                      *)
SweptBeforeClone ==
    At("main", "clone") =>
        \A n \in Names \ {me} :
            vm[n] \in {"stopped", "running"} => missed \/ n \in late

(* The two threads never tear down together: the swap of `cleaned` lets    *)
(* one of them past, also when the signal comes while the guard's drop is  *)
(* already under way.                                                      *)
CleanupOnce ==
    ~(pc["main"] \in CleanupBody /\ pc["signal"] \in CleanupBody)

(* A signalled worker ends, wherever its main thread is and whichever      *)
(* thread holds the run_child mutex.                                       *)
SignalEndsWorker ==
    (running /\ pc["signal"] # "sigwait") ~> ~running

(* A VM that its worker left behind is purged in the end, if the slot's    *)
(* workers come to an end again and again: each next one sweeps the slot.  *)
LeftoverSwept ==
    []<>(~running) =>
        \A n \in Names : (vm[n] # "absent" /\ n # me) ~> vm[n] = "absent"
=============================================================================
