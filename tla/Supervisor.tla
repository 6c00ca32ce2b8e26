----------------------------- MODULE Supervisor -----------------------------
(***************************************************************************)
(* The autoscaling control plane: reconcile() of src/src/supervisor.rs in  *)
(* the daemon loop of run(), against worker units, runners, queued jobs    *)
(* and a host that all go on changing while a cycle runs.  A cycle lists   *)
(* the runners, clears failed units, rescans the queue every Nth time,     *)
(* lists the active units, reads the host, and then for each pool in turn  *)
(* launches into free slots or stops idle workers, on what it has read.    *)
(* Workers are abstracted to their unit and their runner record.           *)
(***************************************************************************)
EXTENDS Resources, Sequences, FiniteSets

CONSTANTS
    Pools,         \* cfg.pools: sequence of [labels, min_warm, max, slot_base]
    MaxLaunch,     \* max_launch_per_poll
    BusyReserve,   \* busy_reserve_mib
    IdleTimeout,   \* idle_timeout_seconds, in poll intervals
    QueuedEvery,   \* queued_poll_every
    U32Max,        \* largest u32
    MaxQueue,      \* bound on jobs queued per label
    MaxJobs,       \* bound on jobs queued in all
    MaxFaults      \* bound on failing calls, dying workers and restarts

PoolIds == 1..Len(Pools)

(* Pool::slots() *)
Slots(p) == Pools[p].slot_base .. Pools[p].slot_base + Pools[p].max - 1

AllSlots == UNION {Slots(p) : p \in PoolIds}

Labels == UNION {Pools[p].labels : p \in PoolIds}

(* What validate() guarantees of the pools, as long as slot_base + max     *)
(* does not wrap around.                                                   *)
ValidPools ==
    /\ \A p \in PoolIds :
          /\ Pools[p].labels # {}
          /\ Pools[p].max \in 1..U32Max
          /\ Pools[p].min_warm \in 0..Pools[p].max
          /\ Pools[p].slot_base \in 0..(U32Max - Pools[p].max)
    /\ \A p, q \in PoolIds : p # q => Slots(p) \cap Slots(q) = {}

ASSUME SupervisorAssumption ==
    /\ Pools \in Seq({Pools[p] : p \in DOMAIN Pools})
    /\ ValidPools
    /\ MaxLaunch \in Nat /\ BusyReserve \in Nat /\ IdleTimeout \in Nat
    /\ QueuedEvery \in Nat /\ U32Max \in Nat \ {0}
    /\ MaxQueue \in Nat /\ MaxJobs \in Nat /\ MaxFaults \in Nat

PoolOf(s) == CHOOSE p \in PoolIds : s \in Slots(p)

VARIABLES
    unit,       \* systemd: state of vmfleet-worker-<slot>
    runner,     \* GitHub: the slot's runner: none, offline, idle, busy
    orphan,     \* the runner's worker process is dead, its VM lives on
    queue,      \* queued jobs per label
    jobs, faults,        \* bounds used up
    idleSince,  \* SupState.idle_since: age of the entry, or Unset
    renamed,    \* its name is no longer the name of the slot's runner
    cached,     \* SupState.cached_queued
    cycle,      \* SupState.cycle, modulo QueuedEvery
    pc,         \* where the supervisor is in its cycle
    seen,       \* reconcile's `runners`
    active,     \* reconcile's `active_slots`
    blind,      \* list_active failed in this cycle
    blocked, headroom, launched,
    pool,       \* index of the pool being reconciled
    want,       \* its desired count
    todo,       \* its slots still to be launched, or to be considered for stop
    excess,     \* workers still to be stopped
    started,    \* history: slots whose unit this cycle has started
    unanswered, \* history: of these, by a systemd-run that then timed out
    age         \* history: time since the slot's runner registered

worldVars == <<unit, runner, orphan, queue>>
budget == <<jobs, faults>>
stateVars == <<idleSince, renamed, cached, cycle>>
starts == <<started, unanswered>>
cycleVars == <<seen, active, blind, blocked, headroom, launched, pool, want,
               todo, excess, starts>>
vars == <<worldVars, budget, stateVars, pc, cycleVars, age>>

Unset == -1

-----------------------------------------------------------------------------
(* The pure functions. *)

Smaller(a, b) == IF a < b THEN a ELSE b
Larger(a, b) == IF a > b THEN a ELSE b

SatAdd(a, b) == Smaller(a + b, U32Max)

Clamp(n, lo, hi) == Smaller(Larger(n, lo), hi)

(* desired() *)
Desired(busy, queued, minWarm, max) ==
    Clamp(SatAdd(SatAdd(busy, queued), minWarm), minWarm, max)

(* headroom_vms(): the quotient is cast to u32. *)
HeadroomVms(avail, minAvail, reserve) ==
    (Larger(avail - minAvail, 0) \div Larger(reserve, 1)) % (U32Max + 1)

Online(r) == r \in {"idle", "busy"}

(* Pool p's runners in the list: any shared label makes one `mine`. *)
Mine(p) ==
    {s \in AllSlots : seen[s] # "none"
                      /\ Pools[PoolOf(s)].labels \cap Pools[p].labels # {}}

IdleOf(p) == {s \in Mine(p) : seen[s] = "idle"}
BusyOf(p) == {s \in Mine(p) : seen[s] = "busy"}
ActiveOf(p) == active \cap Slots(p)

(* slot_of_vm() yields a slot only for names that carry the pool's name. *)
OnlineSlots(p) == {s \in Mine(p) \cap Slots(p) : Online(seen[s])}

PresentOnline(p) == \* mutant: units still booting are not counted
    Cardinality(IdleOf(p)) + Cardinality(BusyOf(p))

Present(p) ==
    Cardinality(IdleOf(p)) + Cardinality(BusyOf(p))
        + Cardinality(ActiveOf(p) \ OnlineSlots(p))

Queued(p) ==
    CHOOSE q \in {cached[l] : l \in Pools[p].labels} :
        \A l \in Pools[p].labels : cached[l] <= q

Wanted(p) ==
    Desired(Cardinality(BusyOf(p)), Queued(p), Pools[p].min_warm, Pools[p].max)

(* deficit > 0: what this cycle may still launch. *)
CanLaunchPerPool(deficit) == \* mutant: launched_this_cycle is not subtracted
    Smaller(Smaller(deficit, MaxLaunch), headroom)

CanLaunch(deficit) ==
    Smaller(Smaller(deficit, Larger(MaxLaunch - launched, 0)), headroom)

(* deficit < 0: how many workers are too many. *)
ExcessUnsigned(deficit) == deficit \* mutant: the sign is not turned

ExcessOf(deficit) == -deficit

(* The n lowest slots of S: free.sort_unstable(), take(n). *)
Lowest(S, n) == {s \in S : Cardinality({t \in S : t < s}) < n}

-----------------------------------------------------------------------------
NoQueue == [l \in Labels |-> 0]
NothingSeen == [s \in AllSlots |-> "none"]

Init ==
    /\ unit = [s \in AllSlots |-> "none"]
    /\ runner = [s \in AllSlots |-> "none"]
    /\ orphan = [s \in AllSlots |-> FALSE]
    /\ queue = NoQueue
    /\ jobs = 0 /\ faults = 0
    /\ idleSince = [s \in AllSlots |-> Unset]
    /\ renamed = [s \in AllSlots |-> FALSE]
    /\ cached = NoQueue /\ cycle = 0
    /\ pc = "listRunners"
    /\ seen = NothingSeen /\ active = {} /\ blind = FALSE
    /\ blocked = FALSE /\ headroom = 0 /\ launched = 0
    /\ pool = 1 /\ want = 0 /\ todo = {} /\ excess = 0
    /\ started = {} /\ unanswered = {}
    /\ age = [s \in AllSlots |-> 0]

Fault == faults < MaxFaults /\ faults' = faults + 1
NoFault == UNCHANGED faults

-----------------------------------------------------------------------------
(* systemd, as reconcile() calls it. *)

(* list_active(): units being stopped are not in it. *)
ActiveUnits == {s \in AllSlots : unit[s] = "active"}

(* list_failed() *)
FailedUnits == {s \in AllSlots : unit[s] = "failed"}

(* reset_failed() of the units of S. *)
WithReset(S) == [s \in AllSlots |-> IF s \in S THEN "none" ELSE unit[s]]

(* run_transient(): reset_failed, then systemd-run, which refuses a name   *)
(* in use.  When it times out the unit may have been started all the same. *)
RunTransient(s, ok) ==
    LET free == unit[s] \in {"none", "failed"} IN
    \/ NoFault /\ ok = free
       /\ unit' = IF free THEN [unit EXCEPT ![s] = "active"] ELSE unit
    \/ Fault /\ ~ok
       /\ \/ UNCHANGED unit
          \/ unit' = WithReset({s} \cap FailedUnits)
          \/ free /\ unit' = [unit EXCEPT ![s] = "active"]

(* stop(): `systemctl stop`, waited for at most 75 s, then reset_failed;   *)
(* their errors are ignored.                                               *)
StopUnit(s) ==
    \/ NoFault
       /\ unit' = IF unit[s] = "active" THEN [unit EXCEPT ![s] = "stopping"]
                  ELSE WithReset({s} \cap FailedUnits)
    \/ Fault /\ UNCHANGED unit

(* queued_labels(): a run whose jobs cannot be listed is left out.         *)
Undercounts ==
    {q \in [Labels -> 0..MaxQueue] : \A l \in Labels : q[l] <= queue[l]}

(* reconcile()'s locals go out of scope. *)
EndCycleSpent == \* mutant: launched_this_cycle outlives the cycle
    /\ seen' = NothingSeen /\ active' = {} /\ blind' = FALSE
    /\ blocked' = FALSE /\ headroom' = 0 /\ UNCHANGED launched
    /\ pool' = 1 /\ want' = 0 /\ todo' = {} /\ excess' = 0
    /\ started' = {} /\ unanswered' = {}

EndCycle ==
    /\ seen' = NothingSeen /\ active' = {} /\ blind' = FALSE
    /\ blocked' = FALSE /\ headroom' = 0 /\ launched' = 0
    /\ pool' = 1 /\ want' = 0 /\ todo' = {} /\ excess' = 0
    /\ started' = {} /\ unanswered' = {}

-----------------------------------------------------------------------------
(* reconcile(), step by step. *)

(* What becomes of slot s's entry in idle_since under a new list: the name *)
(* is kept if it is idle in the list, and dropped with its age otherwise.  *)
IdleEntryBySlot(s) == \* mutant: the entry is found by slot, not by name
    IF runner[s] # "idle" THEN Unset ELSE Larger(idleSince[s], 0)

IdleEntryRefreshed(s) == \* mutant: insert() for entry().or_insert()
    IF runner[s] # "idle" THEN Unset ELSE 0

IdleEntry(s) ==
    CASE runner[s] # "idle"                      -> Unset
      [] runner[s] = "idle" /\ renamed[s]        -> 0
      [] runner[s] = "idle" /\ ~renamed[s]       -> Larger(idleSince[s], 0)

(* list_runners(): a failure aborts the cycle.  The refresh of idle_since, *)
(* which depends on nothing but this list and is not looked at before the  *)
(* scale-down, is made here, so that `renamed` compares with the list too. *)
ListRunners ==
    /\ pc = "listRunners"
    /\ \/ /\ NoFault
          /\ seen' = runner /\ pc' = "resetFailed"
          /\ idleSince' = [s \in AllSlots |-> IdleEntry(s)]
          /\ renamed' = [s \in AllSlots |-> FALSE]
       \/ Fault /\ pc' = "sleep" /\ UNCHANGED <<seen, idleSince, renamed>>
    /\ UNCHANGED <<worldVars, jobs, cached, cycle, active, blind, blocked,
                   headroom, launched, starts, pool, want, todo, excess, age>>

(* list_failed, then reset_failed of each; failures are ignored. *)
ResetFailed ==
    /\ pc = "resetFailed"
    /\ pc' = "queued"
    /\ \/ NoFault /\ unit' = WithReset(FailedUnits)
       \/ Fault /\ \E S \in SUBSET FailedUnits : unit' = WithReset(S)
    /\ UNCHANGED <<runner, orphan, queue, jobs, stateVars, cycleVars, age>>

(* queued_labels() every Nth cycle. *)
ScanQueued ==
    /\ pc = "queued"
    /\ pc' = "listActive"
    /\ cycle' = (cycle + 1) % Larger(QueuedEvery, 1)
    /\ \/ NoFault /\ cycle = 0 /\ cached' = queue
       \/ Fault /\ cycle = 0 /\ cached' \in Undercounts
       \/ NoFault /\ cycle # 0 /\ UNCHANGED cached
    /\ UNCHANGED <<worldVars, jobs, idleSince, renamed, cycleVars, age>>

(* list_active(): no unit at all when systemctl fails. *)
ListActive ==
    /\ pc = "listActive"
    /\ pc' = "readHost"
    /\ \/ NoFault /\ active' = ActiveUnits /\ blind' = FALSE
       \/ Fault /\ active' = {} /\ blind' = TRUE
    /\ UNCHANGED <<worldVars, jobs, stateVars, seen, blocked, headroom, launched,
                   starts, pool, want, todo, excess, age>>

(* The host is read twice, first for the headroom, then by gate.blocked(), *)
(* and may differ.                                                         *)
ReadHost ==
    /\ pc = "readHost"
    /\ pc' = "plan"
    /\ \E first, second \in Hosts :
          /\ headroom' = HeadroomVms(MemAvailable(first), MinAvail, BusyReserve)
          /\ blocked' = Blocked(second)
    /\ UNCHANGED <<worldVars, budget, stateVars, seen, active, blind,
                   launched, starts, pool, want, todo, excess, age>>

(* The decision for one pool: what to launch, or whom to consider for      *)
(* stopping and how many.                                                  *)
PlanPool ==
    /\ pc = "plan" /\ pool \in PoolIds
    /\ want' = Wanted(pool)
    /\ LET deficit == Wanted(pool) - Present(pool)
       IN  \/ /\ deficit > 0 /\ ~blocked
              /\ todo' = Lowest(Slots(pool) \ active, CanLaunch(deficit))
              /\ pc' = "launch" /\ excess' = 0
           \/ /\ deficit < 0
              /\ todo' = IdleOf(pool) \cap ActiveOf(pool)
              /\ pc' = "stop" /\ excess' = ExcessOf(deficit)
           \/ /\ deficit = 0 \/ (deficit > 0 /\ blocked)
              /\ todo' = {} /\ pc' = "launch" /\ excess' = 0
    /\ UNCHANGED <<worldVars, budget, stateVars, seen, active, blind, blocked,
                   headroom, launched, starts, pool, age>>

(* The units that a step makes active. *)
Started == {s \in AllSlots : unit[s] # "active" /\ unit'[s] = "active"}

(* launch() of the lowest free slot still to come.  Only a success spends  *)
(* launch budget and headroom: a systemd-run that times out does not, even *)
(* where it has started the unit.                                          *)
LaunchOne ==
    /\ pc = "launch"
    /\ \E s \in Lowest(todo, 1) :
           /\ todo' = todo \ {s}
           /\ \/ /\ RunTransient(s, TRUE)
                 /\ launched' = launched + 1
                 /\ headroom' = Larger(headroom - 1, 0)
                 /\ UNCHANGED unanswered
              \/ /\ RunTransient(s, FALSE)
                 /\ unanswered' = unanswered \union Started
                 /\ UNCHANGED <<launched, headroom>>
    /\ started' = started \union Started
    /\ UNCHANGED <<runner, orphan, queue, jobs, stateVars, pc, seen, active,
                   blind, blocked, pool, want, excess, age>>

LongIdle(s) == idleSince[s] # Unset /\ idleSince[s] >= IdleTimeout

(* The candidates that have been idle longest. *)
Oldest(S) == {s \in S : \A t \in S : idleSince[t] <= idleSince[s]}

(* One candidate: stopped when long idle and while there is an excess.     *)
(* sd.stop() works on the slot's unit, whatever has become of its runner.  *)
StopOne ==
    /\ pc = "stop" /\ excess > 0
    /\ \E s \in Oldest(todo) :
           /\ todo' = todo \ {s}
           /\ \/ LongIdle(s) /\ excess' = excess - 1 /\ StopUnit(s)
              \/ ~LongIdle(s) /\ UNCHANGED <<unit, faults, excess>>
    /\ UNCHANGED <<runner, orphan, queue, jobs, stateVars, pc, seen, active,
                   blind, blocked, headroom, launched, starts, pool, want, age>>

(* The pool is done. *)
NextPool ==
    /\ pc \in {"launch", "stop"}
    /\ todo = {} \/ (pc = "stop" /\ excess = 0)
    /\ pc' = "plan" /\ pool' = pool + 1
    /\ want' = 0 /\ todo' = {} /\ excess' = 0
    /\ UNCHANGED <<worldVars, budget, stateVars, seen, active, blind, blocked,
                   headroom, launched, starts, age>>

(* All pools done: status.json and the metrics are written, run() sleeps.  *)
WriteStatus ==
    /\ pc = "plan" /\ pool = Len(Pools) + 1
    /\ pc' = "sleep"
    /\ EndCycle
    /\ UNCHANGED <<worldVars, budget, stateVars, age>>

Aged(f) == [s \in AllSlots |->
              IF f[s] = Unset THEN Unset ELSE Smaller(f[s] + 1, IdleTimeout)]

(* One poll interval passes. *)
Sleep ==
    /\ pc = "sleep"
    /\ pc' = "listRunners"
    /\ idleSince' = Aged(idleSince)
    /\ age' = [s \in AllSlots |-> IF runner[s] = "none" THEN 0 ELSE Aged(age)[s]]
    /\ EndCycle
    /\ UNCHANGED <<worldVars, budget, renamed, cached, cycle>>

(* The supervisor dies and systemd restarts it: SupState starts afresh,    *)
(* the workers live on (KillMode=process).                                 *)
Restart ==
    /\ Fault
    /\ pc' = "listRunners"
    /\ idleSince' = [s \in AllSlots |-> Unset]
    /\ renamed' = [s \in AllSlots |-> FALSE]
    /\ cached' = NoQueue /\ cycle' = 0
    /\ EndCycle
    /\ UNCHANGED <<worldVars, jobs, age>>

-----------------------------------------------------------------------------
(* Worker units, runners, jobs and the host, as far as they show here.     *)

(* A new worker's sweep takes down what a dead one left in its slot. *)
Sweep(s) ==
    /\ unit[s] = "active" /\ orphan[s]
    /\ runner' = [runner EXCEPT ![s] = "none"]
    /\ orphan' = [orphan EXCEPT ![s] = FALSE]
    /\ UNCHANGED <<unit, queue, budget, age, stateVars>>

(* The worker's VM is up and its runner is registered under a new name. *)
Register(s) ==
    /\ unit[s] = "active" /\ runner[s] = "none"
    /\ runner' = [runner EXCEPT ![s] = "offline"]
    /\ age' = [age EXCEPT ![s] = 0]
    /\ renamed' = [renamed EXCEPT ![s] = idleSince[s] # Unset]
    /\ UNCHANGED <<unit, orphan, queue, budget, idleSince, cached, cycle>>

Connect(s) ==
    /\ runner[s] = "offline" /\ unit[s] = "active"
    /\ runner' = [runner EXCEPT ![s] = "idle"]
    /\ UNCHANGED <<unit, orphan, queue, budget, age, stateVars>>

TakeJob(s) ==
    /\ runner[s] = "idle"
    /\ \E l \in Pools[PoolOf(s)].labels :
          queue[l] > 0 /\ queue' = [queue EXCEPT ![l] = @ - 1]
    /\ runner' = [runner EXCEPT ![s] = "busy"]
    /\ UNCHANGED <<unit, orphan, budget, age, stateVars>>

(* An ephemeral runner goes after its job, and its worker with it. *)
FinishJob(s) ==
    /\ runner[s] = "busy"
    /\ runner' = [runner EXCEPT ![s] = "none"]
    /\ orphan' = [orphan EXCEPT ![s] = FALSE]
    /\ unit' = IF unit[s] = "active" /\ ~orphan[s]
                 THEN [unit EXCEPT ![s] = "none"] ELSE unit
    /\ UNCHANGED <<queue, budget, age, stateVars>>

(* A worker gives up with an error, after its cleanup. *)
WorkerFails(s) ==
    /\ unit[s] = "active" /\ Fault
    /\ \E u \in {"none", "failed"} : unit' = [unit EXCEPT ![s] = u]
    /\ runner' = IF orphan[s] THEN runner ELSE [runner EXCEPT ![s] = "none"]
    /\ UNCHANGED <<orphan, queue, jobs, age, stateVars>>

(* A worker dies without cleanup: its VM and runner live on. *)
WorkerKilled(s) ==
    /\ unit[s] \in {"active", "stopping"} /\ Fault
    /\ unit' = [unit EXCEPT ![s] = "none"]
    /\ orphan' = [orphan EXCEPT ![s] = runner[s] # "none"]
    /\ UNCHANGED <<runner, queue, jobs, age, stateVars>>

(* A stopped worker's signal thread has cleaned up. *)
StopEnds(s) ==
    /\ unit[s] = "stopping"
    /\ unit' = [unit EXCEPT ![s] = "none"]
    /\ runner' = IF orphan[s] THEN runner ELSE [runner EXCEPT ![s] = "none"]
    /\ UNCHANGED <<orphan, queue, budget, age, stateVars>>

JobQueued ==
    /\ jobs < MaxJobs /\ jobs' = jobs + 1
    /\ \E l \in Labels :
          queue[l] < MaxQueue /\ queue' = [queue EXCEPT ![l] = @ + 1]
    /\ UNCHANGED <<unit, runner, orphan, faults, age, stateVars>>

WorkerLives(s) ==
    Sweep(s) \/ Register(s) \/ Connect(s) \/ FinishJob(s) \/ StopEnds(s)

WorldStep ==
    /\ \/ \E s \in AllSlots :
             WorkerLives(s) \/ TakeJob(s) \/ WorkerFails(s) \/ WorkerKilled(s)
       \/ JobQueued
    /\ UNCHANGED <<pc, cycleVars>>

Reconcile ==
    \/ ListRunners \/ ResetFailed \/ ScanQueued \/ ListActive \/ ReadHost
    \/ PlanPool \/ LaunchOne \/ StopOne \/ NextPool
    \/ WriteStatus \/ Sleep

Next == Reconcile \/ Restart \/ WorldStep

SafetySpec == Init /\ [][Next]_vars

(* The supervisor runs, workers come up, finish their job and stop, and a  *)
(* job that an idle runner can take is taken.                              *)
Spec ==
    /\ SafetySpec
    /\ WF_vars(Reconcile)
    /\ \A s \in AllSlots :
          /\ WF_vars(WorkerLives(s) /\ UNCHANGED <<pc, cycleVars>>)
          /\ WF_vars(TakeJob(s) /\ UNCHANGED <<pc, cycleVars>>)

-----------------------------------------------------------------------------
TypeOK ==
    /\ unit \in [AllSlots -> {"none", "active", "stopping", "failed"}]
    /\ runner \in [AllSlots -> {"none", "offline", "idle", "busy"}]
    /\ orphan \in [AllSlots -> BOOLEAN]
    /\ queue \in [Labels -> 0..MaxQueue] /\ cached \in [Labels -> 0..MaxQueue]
    /\ jobs \in 0..MaxJobs /\ faults \in 0..MaxFaults
    /\ idleSince \in [AllSlots -> {Unset} \union 0..IdleTimeout]
    /\ renamed \in [AllSlots -> BOOLEAN]
    /\ cycle \in 0..Larger(QueuedEvery, 1) - 1
    /\ pc \in {"listRunners", "resetFailed", "queued", "listActive", "readHost",
               "plan", "launch", "stop", "sleep"}
    /\ seen \in [AllSlots -> {"none", "offline", "idle", "busy"}]
    /\ active \subseteq AllSlots /\ blind \in BOOLEAN /\ blocked \in BOOLEAN
    /\ headroom \in 0..U32Max /\ launched \in Nat
    /\ pool \in 1..Len(Pools) + 1
    /\ want \in 0..U32Max /\ todo \subseteq AllSlots /\ excess \in Nat
    /\ started \subseteq AllSlots /\ unanswered \subseteq AllSlots
    /\ age \in [AllSlots -> 0..IdleTimeout]

(* Never more workers than the demand asks for: while a pool's launches    *)
(* are carried out, its active units and the launches still to come stay   *)
(* within the desired count, although runners and units were listed at     *)
(* different times and workers come and go meanwhile.  (A failed           *)
(* list_active blinds the cycle.)                                          *)
NoOverProvision ==
    (pc = "launch" /\ todo # {} /\ ~blind) =>
        Cardinality({s \in Slots(pool) : unit[s] = "active"})
            + Cardinality(todo) <= want

(* What is still to be launched for the pool at hand. *)
Pending == IF pc = "launch" THEN Cardinality(todo) ELSE 0

(* max_launch_per_poll holds of the workers that one cycle really starts,  *)
(* over all its pools and with those still to come.  The only ones beyond  *)
(* it are workers whose systemd-run timed out after starting them, which   *)
(* launch() reports as a failure; and no pool gets more than the bound     *)
(* even so.                                                                *)
LaunchBudget ==
    /\ Cardinality(started) + Pending <= MaxLaunch + Cardinality(unanswered)
    /\ \A p \in PoolIds : Cardinality(started \cap Slots(p)) <= MaxLaunch

(* A stop never hits a worker whose runner registered less than            *)
(* idle_timeout ago: idle_since is kept by VM name, so a new VM in the     *)
(* slot does not inherit the age of the old one, nor does a restart of     *)
(* the supervisor age anyone.  (A runner that took the place of the listed *)
(* one while this cycle was running is beyond what idle_since can tell.)   *)
StopsOnlyAged ==
    [][\A s \in AllSlots :
          (unit[s] = "active" /\ unit'[s] = "stopping")
              => age[s] >= IdleTimeout \/ renamed[s]]_vars

(* "stop idle workers": a worker that is stopped is not running a job. *)
StopsOnlyIdle ==
    [][\A s \in AllSlots :
          (unit[s] = "active" /\ unit'[s] = "stopping") => runner[s] # "busy"]_vars

Warm(p) ==
    Cardinality({s \in Slots(p) : unit[s] = "active" \/ Online(runner[s])})
        = Pools[p].min_warm

(* Every cycle finds the host clear and with room for a VM. *)
HostHasRoom == (pc = "plan" /\ pool = 1) => ~blocked /\ headroom > 0

(* Once jobs and faults have come to an end, and as long as the host has   *)
(* room, each pool settles at exactly min_warm workers: what is missing is *)
(* launched, what is too many is stopped, and nothing flaps.               *)
ConvergesToWarm == <>[]HostHasRoom => <>[](\A p \in PoolIds : Warm(p))
=============================================================================
