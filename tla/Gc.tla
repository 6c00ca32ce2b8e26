--------------------------------- MODULE Gc ---------------------------------
(***************************************************************************)
(* `vmfleet prune` (gc() in src/src/commands.rs), run by hand or from an   *)
(* hourly timer, beside the workers of all slots and the sweep each of     *)
(* them begins with (sweep_leftovers() in src/src/worker.rs).  Who owns a  *)
(* VM or a runner record is decided from its name alone.  A worker's life  *)
(* is reduced to what its VM and its record go through; a sweep is one     *)
(* step here and is taken apart in Worker.                                 *)
(***************************************************************************)
EXTENDS Naming, FiniteSets

CONSTANTS
    Pools,          \* cfg.pools: sequence of [name, slots]
    BaseNames,      \* names of cfg.bases, as parts after the prefix
    MaxInstances,   \* bound on workers launched per slot
    MaxFaults       \* bound on failing calls of gc and crashing workers

Slots == UNION {Pools[p].slots : p \in DOMAIN Pools}

PoolName(s) == LET p == CHOOSE q \in DOMAIN Pools : s \in Pools[q].slots
               IN  Pools[p].name

ASSUME GcAssumption ==
    /\ Pools \in Seq({Pools[p] : p \in DOMAIN Pools})
    /\ \A p \in DOMAIN Pools : IsName(Pools[p].name)
    /\ \A p, q \in DOMAIN Pools :
          p # q => /\ Pools[p].name # Pools[q].name
                   /\ Pools[p].slots \cap Pools[q].slots = {}
    /\ Slots \subseteq Nat
    /\ MaxInstances \in Nat /\ MaxFaults \in Nat

(* valid_name() lets names collide, whatever validate() asks of the pools: *)
(* a pool ci-2 beside slot 2 of a pool ci, a base image vmfleet-ci-2-x.    *)

(* The name of slot t's pool is, or begins with, <pool>-<slot> of slot s.  *)
NamedAfter(t, s) ==
    LET prefix == PoolName(s) \o <<s>>
    IN  PoolName(t) = prefix \/ StartsWith(PoolName(t), prefix)

(* The name of a VM of slot s fits a pool listed before its own: the       *)
(* earlier pool's name and a number begin the name of the slot's pool, or  *)
(* the earlier pool is called <pool>-<slot>, and a number follows.         *)
Shadowed(s) ==
    \E p, q \in DOMAIN Pools :
        /\ q < p /\ s \in Pools[p].slots
        /\ \/ SlotOfVm(Pools[q].name, PoolName(s)) # NoSlot
           \/ Pools[q].name = PoolName(s) \o <<s>>

(* Base images that are not called like the VM of a slot. *)
SafeBases ==
    {b \in BaseNames : \A s \in Slots : ~StartsWith(b, PoolName(s) \o <<s>>)}

VARIABLES
    worker,     \* per slot: none, sweep, clone, cloned, running
    instance,   \* per slot: workers launched so far
    vms,        \* VMs multipass lists
    cloning,    \* VMs multipassd still clones for workers that have ended
    offline, online,  \* names of GitHub's runner records
    gc,         \* where gc is: idle, listVMs, purge, listRunners, delete
    active,     \* gc's `active`
    todo,       \* names gc has listed and not yet dealt with
    faults,     \* bound used up
    settled     \* history: slots whose worker gc saw active and that lives on

workerVars == <<worker, instance>>
records == <<offline, online>>
world == <<vms, cloning, records>>
gcVars == <<gc, active, todo>>
vars == <<workerVars, world, gcVars, faults, settled>>

(* ctx.vm_name of the slot's worker *)
NameTakenAnew(s) == \* mutant: the timestamp is not that of the launch
    VmName(PoolName(s), s, instance[s] + 1)

Name(s) == VmName(PoolName(s), s, instance[s])

AllNames ==
    {VmName(PoolName(s), s, i) : s \in Slots, i \in 1..MaxInstances} \union BaseNames

Init ==
    /\ worker = [s \in Slots |-> "none"]
    /\ instance = [s \in Slots |-> 0]
    /\ vms = BaseNames /\ cloning = {} /\ offline = {} /\ online = {}
    /\ gc = "idle" /\ active = {} /\ todo = {}
    /\ faults = 0 /\ settled = {}

Fault == faults < MaxFaults /\ faults' = faults + 1
NoFault == UNCHANGED faults

-----------------------------------------------------------------------------
(* Workers. *)

WorkerAt(s, from, to) == worker[s] = from /\ worker' = [worker EXCEPT ![s] = to]

(* The supervisor launches the slot's unit. *)
Launch(s) ==
    /\ instance[s] < MaxInstances
    /\ WorkerAt(s, "none", "sweep")
    /\ instance' = [instance EXCEPT ![s] = @ + 1]
    /\ UNCHANGED <<world, gcVars, faults, settled>>

(* What sweep_leftovers() finds by the prefix of slot s. *)
Leftovers(s) ==
    {n \in vms : StartsWith(n, SlotVmPrefix(PoolName(s), s))} \ {Name(s)}

(* Each of them is reaped: its records are deleted and the VM is purged. *)
SweepLeftovers(s) ==
    /\ WorkerAt(s, "sweep", "clone")
    /\ vms' = vms \ Leftovers(s)
    /\ offline' = offline \ Leftovers(s) /\ online' = online \ Leftovers(s)
    /\ UNCHANGED <<instance, cloning, gcVars, faults, settled>>

CloneVM(s) ==
    /\ WorkerAt(s, "clone", "cloned")
    /\ vms' = vms \union {Name(s)}
    /\ UNCHANGED <<instance, cloning, records, gcVars, faults, settled>>

Register(s) ==
    /\ WorkerAt(s, "cloned", "running")
    /\ offline' = offline \union {Name(s)}
    /\ UNCHANGED <<instance, vms, cloning, online, gcVars, faults, settled>>

Connect(s) ==
    /\ worker[s] = "running" /\ Name(s) \in offline \cap vms
    /\ offline' = offline \ {Name(s)} /\ online' = online \union {Name(s)}
    /\ UNCHANGED <<workerVars, vms, cloning, gcVars, faults, settled>>

(* A worker that ends while multipassd clones its VM: `created` is not set,*)
(* so its cleanup lets the VM be, and the clone may complete later.        *)
MayFinishClone(s) ==
    \/ UNCHANGED cloning
    \/ worker[s] = "clone" /\ cloning' = cloning \union {Name(s)}

(* cleanup(): at the end of its job, on an error or on a signal. *)
Cleanup(s) ==
    /\ worker[s] # "none"
    /\ worker' = [worker EXCEPT ![s] = "none"]
    /\ vms' = vms \ {Name(s)}
    /\ offline' = offline \ {Name(s)} /\ online' = online \ {Name(s)}
    /\ MayFinishClone(s)
    /\ settled' = settled \ {s}
    /\ UNCHANGED <<instance, gcVars, faults>>

(* The worker is killed: its VM and its record stay. *)
Crash(s) ==
    /\ worker[s] # "none" /\ Fault
    /\ worker' = [worker EXCEPT ![s] = "none"]
    /\ MayFinishClone(s)
    /\ settled' = settled \ {s}
    /\ UNCHANGED <<instance, vms, records, gcVars>>

DaemonCloned ==
    /\ \E n \in cloning : cloning' = cloning \ {n} /\ vms' = vms \union {n}
    /\ UNCHANGED <<workerVars, records, gcVars, faults, settled>>

(* A runner without its VM loses its session. *)
Disconnect ==
    /\ \E n \in online \ vms :
          online' = online \ {n} /\ offline' = offline \union {n}
    /\ UNCHANGED <<workerVars, vms, cloning, gcVars, faults, settled>>

-----------------------------------------------------------------------------
(* gc(), call by call. *)

GcEnds == gc' = "idle" /\ active' = {} /\ todo' = {} /\ settled' = {}

(* list_active: no active unit at all when it fails. *)
GcListActive ==
    /\ gc = "idle" /\ gc' = "listVMs"
    /\ \/ NoFault /\ active' = {s \in Slots : worker[s] # "none"}
       \/ Fault /\ active' = {}
    /\ settled' = active'
    /\ UNCHANGED <<workerVars, world, todo>>

(* The slot of the first pool whose name fits the VM's. *)
SlotFound(n) ==
    LET fits == {p \in DOMAIN Pools : SlotOfVm(Pools[p].name, n) # NoSlot} IN
    IF fits = {} THEN NoSlot
    ELSE SlotOfVm(Pools[CHOOSE p \in fits : \A q \in fits : p <= q].name, n)

(* The VMs gc takes for orphans, base images apart. *)
OrphansAndBases == \* mutant: the `continue` for base images is missing
    {n \in vms : SlotFound(n) \notin active}

Unrecognized == \* mutant: only VMs that fit no pool
    {n \in vms \ BaseNames : SlotFound(n) = NoSlot}

AllVMs == vms \ BaseNames \* mutant: without asking for the unit

Orphans == {n \in vms \ BaseNames : SlotFound(n) \notin active}

(* list_prefixed; an error ends gc. *)
GcListVMs ==
    /\ gc = "listVMs"
    /\ \/ NoFault /\ todo' = Orphans /\ gc' = "purge" /\ UNCHANGED <<active, settled>>
       \/ Fault /\ GcEnds
    /\ UNCHANGED <<workerVars, world>>

(* purge() of one orphan; an error is ignored. *)
GcPurge ==
    /\ gc = "purge"
    /\ \E n \in todo :
          /\ todo' = todo \ {n}
          /\ \/ NoFault /\ vms' = vms \ {n}
             \/ Fault /\ UNCHANGED vms
    /\ UNCHANGED <<workerVars, cloning, records, gc, active, settled>>

GcPurged ==
    /\ gc = "purge" /\ todo = {}
    /\ gc' = "listRunners"
    /\ UNCHANGED <<workerVars, world, active, todo, faults, settled>>

(* list_runners: the records that are not online; an error skips them. *)
GcListRunners ==
    /\ gc = "listRunners"
    /\ \/ NoFault /\ todo' = offline /\ gc' = "delete" /\ UNCHANGED <<active, settled>>
       \/ Fault /\ GcEnds
    /\ UNCHANGED <<workerVars, world>>

(* delete_runner() of one of them, whatever it has become; errors ignored. *)
GcDelete ==
    /\ gc = "delete"
    /\ \E n \in todo :
          /\ todo' = todo \ {n}
          /\ \/ NoFault /\ offline' = offline \ {n} /\ online' = online \ {n}
             \/ Fault /\ UNCHANGED records
    /\ UNCHANGED <<workerVars, vms, cloning, gc, active, settled>>

GcDone ==
    /\ gc = "delete" /\ todo = {}
    /\ GcEnds
    /\ UNCHANGED <<workerVars, world, faults>>

GcStep ==
    \/ GcListActive \/ GcListVMs \/ GcPurge \/ GcPurged
    \/ GcListRunners \/ GcDelete \/ GcDone

WorkerStep(s) ==
    \/ Launch(s) \/ SweepLeftovers(s) \/ CloneVM(s) \/ Register(s)
    \/ Connect(s) \/ Cleanup(s) \/ Crash(s)

Next == GcStep \/ Disconnect \/ DaemonCloned \/ \E s \in Slots : WorkerStep(s)

SafetySpec == Init /\ [][Next]_vars

(* The timer starts gc again and again, each of its calls returns, and so  *)
(* does multipassd.                                                        *)
Spec ==
    /\ SafetySpec
    /\ WF_vars(GcStep) /\ WF_vars(Disconnect) /\ WF_vars(DaemonCloned)

-----------------------------------------------------------------------------
TypeOK ==
    /\ worker \in [Slots -> {"none", "sweep", "clone", "cloned", "running"}]
    /\ instance \in [Slots -> 0..MaxInstances]
    /\ vms \subseteq AllNames /\ cloning \subseteq AllNames
    /\ offline \subseteq AllNames
    /\ online \subseteq AllNames
    /\ gc \in {"idle", "listVMs", "purge", "listRunners", "delete"}
    /\ active \subseteq Slots /\ todo \subseteq AllNames
    /\ faults \in 0..MaxFaults /\ settled \subseteq Slots

(* The base images outlive every sweep and every prune, although their     *)
(* names may carry the prefix of a pool, as long as they are not called    *)
(* like the VM of a slot (those a sweep takes).                            *)
BasesKept == SafeBases \subseteq vms

(* prune never purges the VM of a worker that it saw active and that has   *)
(* lived on since, whatever is launched, swept or crashes around it, and   *)
(* whatever pools' names look like VMs', unless an earlier pool's name     *)
(* makes it take the VM for one of another slot.                           *)
SettledSpared ==
    [][\A s \in settled :
          GcPurge /\ ~Shadowed(s) /\ Name(s) \in vms => Name(s) \in vms']_vars

(* "Purge orphan vmfleet VMs (no active worker unit for their slot)": no   *)
(* VM of a live worker is purged by prune.                                 *)
LiveSpared ==
    [][\A s \in Slots :
          GcPurge /\ worker[s] # "none" /\ Name(s) \in vms
              => Name(s) \in vms']_vars

(* The sweep of one slot purges no VM that a worker of another slot has    *)
(* made, unless that slot's pool is called after the sweeping slot, as     *)
(* ci-2 is after slot 2 of ci: never one of its own pool, however the      *)
(* pools are named.                                                        *)
SweepOwnSlot ==
    [][\A s, t \in Slots :
          (SweepLeftovers(s) /\ t # s /\ ~NamedAfter(t, s))
              => \A i \in 1..MaxInstances :
                    VmName(PoolName(t), t, i) \in vms
                        => VmName(PoolName(t), t, i) \in vms']_vars

(* What a dead worker left behind is gone in the end, VM and record, even  *)
(* if its slot is never launched again: prune collects it.                 *)
OrphansCollected ==
    \A s \in Slots :
        (~Shadowed(s) /\ <>[](worker[s] = "none"))
            => <>[](\A i \in 1..MaxInstances :
                        VmName(PoolName(s), s, i)
                            \notin vms \union cloning \union offline \union online)
=============================================================================
