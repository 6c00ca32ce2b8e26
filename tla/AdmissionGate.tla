--------------------------- MODULE AdmissionGate ---------------------------
(***************************************************************************)
(* The launch gate that all worker processes share (src/src/admission.rs), *)
(* as lifecycle() in src/src/worker.rs uses it.  One file lock serialises  *)
(* VM launches: a worker takes it without blocking, in a retry loop with a *)
(* deadline, keeps it while the host is under pressure, and drops it when  *)
(* its VM has been cloned and started and settle_seconds have passed,      *)
(* whether or not the VM has booted by then.  On every error path the      *)
(* guard is dropped when lifecycle() returns, before the worker's cleanup  *)
(* purges the VM.  The kernel drops the lock of a process that dies, while *)
(* the VM it was launching lives on.                                       *)
(***************************************************************************)
EXTENDS Resources

CONSTANTS
    Workers,      \* worker processes, one per slot
    NoWorker,     \* nobody holds the lock
    LockTries,    \* retries before the deadline: lock_wait_seconds * 20 / 2
    SettleTime    \* settle_seconds in ticks; 0 is a legal value

ASSUME GateAssumption ==
    NoWorker \notin Workers /\ LockTries \in Nat \ {0} /\ SettleTime \in Nat

VARIABLES
    pc,         \* where each worker is in its lifecycle
    lock,       \* the holder of the lock file
    tries,      \* failed attempts of the retry loop
    host,       \* what the host would report now
    vm,         \* "none", "booting" (not yet in the readings), "up"
    accounted,  \* history: VMs the admitting reading of a launch reflects
    slept,      \* ticks of the settle pause that have passed
    slow        \* history: live workers whose VM the readings did not show
                \* when settle_seconds had passed since its start

pause == <<slept, slow>>
vars == <<pc, lock, tries, host, vm, accounted, pause>>

Locations == {"idle", "locking", "pressure", "clone", "start", "settle",
              "running", "cleanup", "dead"}

(* Locations between Flock::lock returning Ok and the guard's drop. *)
Holding == {"pressure", "clone", "start", "settle"}

(* Locations at which the worker has been admitted and creates its VM. *)
Launching == {"clone", "start"}

-----------------------------------------------------------------------------
VisibleVMs == {w \in Workers : vm[w] = "up"}

Init ==
    /\ pc = [w \in Workers |-> "idle"]
    /\ lock = NoWorker
    /\ tries = [w \in Workers |-> 0]
    /\ host \in Hosts
    /\ vm = [w \in Workers |-> "none"]
    /\ accounted = [w \in Workers |-> {}]
    /\ slept = [w \in Workers |-> 0]
    /\ slow = {}

Goto(w, l) == pc' = [pc EXCEPT ![w] = l]

-----------------------------------------------------------------------------
(* Gate::acquire: open the lock file and fix the deadline.  The local      *)
(* counter of the loop is cleared where the loop is left.                  *)
Acquire(w) ==
    /\ pc[w] = "idle"
    /\ Goto(w, "locking")
    /\ UNCHANGED <<lock, tries, host, vm, accounted, pause>>

(* Flock::lock returns Ok. *)
LockTakenShared(w) == \* mutant: a shared lock
    /\ pc[w] = "locking"
    /\ lock' = w
    /\ Goto(w, "pressure")
    /\ tries' = [tries EXCEPT ![w] = 0]
    /\ UNCHANGED <<host, vm, accounted, pause>>

LockTaken(w) ==
    /\ pc[w] = "locking"
    /\ lock = NoWorker
    /\ lock' = w
    /\ Goto(w, "pressure")
    /\ tries' = [tries EXCEPT ![w] = 0]
    /\ UNCHANGED <<host, vm, accounted, pause>>

(* EWOULDBLOCK before the deadline: sleep and try again. *)
LockBusyLate(w) == \* mutant: one retry after the deadline
    /\ pc[w] = "locking"
    /\ lock # NoWorker
    /\ tries[w] <= LockTries
    /\ tries' = [tries EXCEPT ![w] = @ + 1]
    /\ UNCHANGED <<pc, lock, host, vm, accounted, pause>>

LockBusyForever(w) == \* mutant: a loop without a deadline
    /\ pc[w] = "locking"
    /\ lock # NoWorker
    /\ UNCHANGED vars

LockBusy(w) ==
    /\ pc[w] = "locking"
    /\ lock # NoWorker
    /\ tries[w] < LockTries
    /\ tries' = [tries EXCEPT ![w] = @ + 1]
    /\ UNCHANGED <<pc, lock, host, vm, accounted, pause>>

(* EWOULDBLOCK after the deadline: acquire() fails, lifecycle() returns. *)
LockTimeout(w) ==
    /\ pc[w] = "locking"
    /\ lock # NoWorker
    /\ tries[w] = LockTries
    /\ Goto(w, "cleanup")
    /\ tries' = [tries EXCEPT ![w] = 0]
    /\ UNCHANGED <<lock, host, vm, accounted, pause>>

(* The lock file cannot be opened, or flock fails in any other way. *)
LockError(w) ==
    /\ pc[w] = "locking"
    /\ Goto(w, "cleanup")
    /\ tries' = [tries EXCEPT ![w] = 0]
    /\ UNCHANGED <<lock, host, vm, accounted, pause>>

(* One turn of the backpressure loop that finds the host clear.  While it  *)
(* is blocked the loop only sleeps, and it has no deadline.                *)
Granted(w) ==
    /\ pc[w] = "pressure"
    /\ ~Blocked(host)
    /\ accounted' = [accounted EXCEPT ![w] = VisibleVMs]
    /\ Goto(w, "clone")
    /\ UNCHANGED <<lock, tries, host, vm, pause>>

(* `multipass clone` succeeds. *)
Clone(w) ==
    /\ pc[w] = "clone"
    /\ Goto(w, "start")
    /\ UNCHANGED <<lock, tries, host, vm, accounted, pause>>

(* `multipass set` twice, then `multipass start`: the VM begins to boot.   *)
Start(w) ==
    /\ pc[w] = "start"
    /\ vm' = [vm EXCEPT ![w] = "booting"]
    /\ slow' = IF SettleTime = 0 THEN slow \union {w} ELSE slow
    /\ Goto(w, "settle")
    /\ UNCHANGED <<lock, tries, host, accounted, slept>>

(* A tick of the sleep in gate.settle(): time passes whether or not the VM *)
(* shows meanwhile.                                                        *)
SleepTick(w) ==
    /\ pc[w] = "settle"
    /\ slept[w] < SettleTime
    /\ slept' = [slept EXCEPT ![w] = @ + 1]
    /\ slow' = IF slept[w] + 1 = SettleTime /\ vm[w] = "booting"
                 THEN slow \union {w} ELSE slow
    /\ UNCHANGED <<pc, lock, tries, host, vm, accounted>>

SettleEarly(w) == \* mutant: the pause is one tick short
    /\ pc[w] = "settle"
    /\ slept[w] + 1 >= SettleTime
    /\ lock' = NoWorker
    /\ Goto(w, "running")
    /\ accounted' = [accounted EXCEPT ![w] = {}]
    /\ slept' = [slept EXCEPT ![w] = 0]
    /\ UNCHANGED <<tries, host, vm, slow>>

(* gate.settle() returns and lifecycle() drops the guard: the sleep is over*)
(* when settle_seconds have passed, on a slow boot too.                    *)
Settle(w) ==
    /\ pc[w] = "settle"
    /\ slept[w] = SettleTime
    /\ lock' = NoWorker
    /\ Goto(w, "running")
    /\ accounted' = [accounted EXCEPT ![w] = {}]
    /\ slept' = [slept EXCEPT ![w] = 0]
    /\ UNCHANGED <<tries, host, vm, slow>>

LaunchFailsHolding(w) == \* mutant: the guard outlives the error path
    /\ pc[w] \in Launching
    /\ vm' \in {vm, [vm EXCEPT ![w] = "booting"]}
    /\ Goto(w, "cleanup")
    /\ accounted' = [accounted EXCEPT ![w] = {}]
    /\ UNCHANGED <<lock, tries, host, pause>>

(* clone, set or start fails: `?` returns from lifecycle() and drops the   *)
(* guard.  A start that timed out may have left the VM booting.            *)
LaunchFails(w) ==
    /\ pc[w] \in Launching
    /\ lock' = NoWorker
    /\ \/ vm' = vm
       \/ pc[w] = "start" /\ vm' = [vm EXCEPT ![w] = "booting"]
    /\ Goto(w, "cleanup")
    /\ accounted' = [accounted EXCEPT ![w] = {}]
    /\ UNCHANGED <<tries, host, pause>>

(* The job is over or the runner is unhealthy: lifecycle() returns. *)
Finish(w) ==
    /\ pc[w] = "running"
    /\ Goto(w, "cleanup")
    /\ UNCHANGED <<lock, tries, host, vm, accounted, pause>>

(* cleanup() purges the VM and the process ends; the slot may be relaunched.*)
Cleanup(w) ==
    /\ pc[w] = "cleanup"
    /\ vm' = [vm EXCEPT ![w] = "none"]
    /\ slow' = slow \ {w}
    /\ Goto(w, "idle")
    /\ UNCHANGED <<lock, tries, host, accounted, slept>>

(* The process ends at any other point (SIGKILL, a host crash, or the      *)
(* signal thread's process::exit): the kernel releases the lock.           *)
Dies(w) ==
    /\ pc[w] \notin {"idle", "dead"}
    /\ lock' = IF lock = w THEN NoWorker ELSE lock
    /\ Goto(w, "dead")
    /\ tries' = [tries EXCEPT ![w] = 0]
    /\ accounted' = [accounted EXCEPT ![w] = {}]
    /\ slept' = [slept EXCEPT ![w] = 0]
    /\ slow' = slow \ {w}
    /\ UNCHANGED <<host, vm>>

(* A new worker in the slot: sweep_leftovers() purges the VM left behind. *)
Relaunch(w) ==
    /\ pc[w] = "dead"
    /\ vm' = [vm EXCEPT ![w] = "none"]
    /\ slow' = slow \ {w}
    /\ Goto(w, "idle")
    /\ UNCHANGED <<lock, tries, host, accounted, slept>>

-----------------------------------------------------------------------------
(* The booted VM's memory shows in /proc/meminfo. *)
VmVisible(w) ==
    /\ vm[w] = "booting"
    /\ vm' = [vm EXCEPT ![w] = "up"]
    /\ UNCHANGED <<pc, lock, tries, host, accounted, pause>>

(* Everything else on the host moves the readings at will. *)
HostChanges ==
    /\ host' \in Hosts
    /\ UNCHANGED <<pc, lock, tries, vm, accounted, pause>>

WorkerStep(w) ==
    \/ Acquire(w) \/ LockTaken(w) \/ LockBusy(w) \/ LockTimeout(w)
    \/ LockError(w) \/ Granted(w) \/ Clone(w) \/ Start(w)
    \/ SleepTick(w) \/ Settle(w) \/ LaunchFails(w)
    \/ Finish(w) \/ Cleanup(w) \/ Dies(w) \/ Relaunch(w)

Next == HostChanges \/ \E w \in Workers : WorkerStep(w) \/ VmVisible(w)

(* What a worker does on its own, without the host's say: every external   *)
(* command has a timeout and every loop but the pressure loop a deadline.  *)
Progress(w) ==
    \/ LockTaken(w) \/ LockBusy(w) \/ LockTimeout(w) \/ Granted(w)
    \/ Clone(w) \/ Start(w) \/ SleepTick(w) \/ Settle(w) \/ LaunchFails(w)
    \/ Cleanup(w)

SafetySpec == Init /\ [][Next]_vars

Spec ==
    /\ SafetySpec
    /\ \A w \in Workers : WF_vars(Progress(w)) /\ WF_vars(VmVisible(w))

-----------------------------------------------------------------------------
TypeOK ==
    /\ pc \in [Workers -> Locations]
    /\ lock \in Workers \union {NoWorker}
    /\ tries \in [Workers -> 0..LockTries]
    /\ host \in Hosts
    /\ vm \in [Workers -> {"none", "booting", "up"}]
    /\ accounted \in [Workers -> SUBSET Workers]
    /\ slept \in [Workers -> 0..SettleTime]
    /\ slow \in SUBSET Workers

(* Launches are serialised: no two workers are between taking the lock     *)
(* file and dropping the guard (Gate::acquire, drop(guard) in lifecycle),  *)
(* whatever fails, dies or is relaunched on the way.                       *)
GateExclusion ==
    \A w, v \in Workers : pc[w] \in Holding /\ pc[v] \in Holding => w = v

(* Launches are staggered by settle_seconds (docs/CONFIG.md): a VM that a  *)
(* live worker started and that the reading admitting another launch does  *)
(* not reflect is one that had at least settle_seconds to show, and had    *)
(* not.  acquire() reads the host after it has the lock, which is kept for *)
(* the whole pause after `multipass start`.                                *)
NoStaleGrant ==
    \A w, v \in Workers :
        (pc[w] \in Launching /\ v # w /\ pc[v] \in {"settle", "running"})
            => v \in accounted[w] \/ v \in slow

(* The worker whose launch is under way, and whether it has been admitted. *)
TurnHolder ==
    IF \E w \in Workers : pc[w] \in Holding
      THEN CHOOSE w \in Workers : pc[w] \in Holding ELSE NoWorker

TurnAdmitted == \E w \in Workers : pc[w] \in Holding \ {"pressure"}

Turns == INSTANCE LaunchTurns WITH holder <- TurnHolder, admitted <- TurnAdmitted

(* The lock file, its retry loop and the drops of its guard implement the  *)
(* turns that LaunchTurns promises: admitted only on a clear host, never   *)
(* two at a time, and each admitted launch ends, through failures, deaths  *)
(* and relaunches.                                                         *)
TakesTurns == Turns!Spec

(* acquire()'s deadline: no worker stays in the lock loop for ever, even   *)
(* when the holder waits for ever on a host under pressure.                *)
LockWaitEnds == \A w \in Workers : pc[w] = "locking" ~> pc[w] # "locking"

(* Once the host stays clear no worker keeps the lock for ever: each path  *)
(* out of lifecycle(), failures included, drops the guard.                 *)
LockReleased ==
    <>[](~Blocked(host)) => \A w \in Workers : lock = w ~> lock # w
=============================================================================
