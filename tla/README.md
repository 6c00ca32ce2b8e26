# TLA+ models of vmfleet

vmfleet keeps a fleet of ephemeral GitHub Actions runners, each in a Multipass
VM of its own, on one host. This directory models its concurrent core in TLA+,
checks it with TLC on small instances and proves part of it with TLAPS.
Paths below are relative to the repository; `PROJECT.json` maps every
definition to the lines it translates.

    tlc -workers 2 -config Worker.cfg MCWorker     # one run
    tlapm WorkerProofs.tla                         # one proof module

## 1. The system

One binary plays several roles. The **supervisor** (a systemd user unit) runs a
reconcile loop; it starts **workers** as transient units, one per slot; each
worker clones, boots and registers one VM, watches it and tears it down.
`vmfleet prune` (by hand or from an hourly timer) collects what nobody owns.
`install`, `scale`, `self-update` and `uninstall` are run by the operator while
all of that goes on. The processes share no memory. They meet in systemd's units,
in Multipass's VMs, in GitHub's runner records, in one lock file, one state file
per slot, the configuration and the installed binary, and all of these outlive
the process that wrote them.

| component | source | state it keeps | operations | correct when |
|---|---|---|---|---|
| admission gate | `admission.rs` | the lock on the gate's file | acquire, settle, drop | launches are serialised, each admitted on a reading that shows the VMs before it that were up within the settle pause; waits are bounded; the lock comes free on every path |
| host resources | `resources.rs` | none | read memory, PSI, disk; `decide` | what cannot be read has the intended default |
| worker lifecycle | `worker.rs` | `Ctx` (name, `cleaned`, `created`, `run_child` mutex), slot state file | `lifecycle`, `sweep_leftovers`, `cleanup`, signal thread | whatever ends it, VM and record are gone or the next worker finds them; teardown runs once and ends |
| health monitoring | `worker.rs` | `unhealthy_since`, registration deadline | `wait_registration`, `health_monitor` | recycled neither early nor late; zombies end |
| supervisor | `supervisor.rs` | `SupState` (`idle_since`, `cached_queued`, `cycle`), status.json | `reconcile`: list, plan, launch, stop | never more workers than wanted, budget kept, only long idle workers stopped, comes to rest at `min_warm` |
| systemd client | `systemd.rs` | units (external) | run_transient, stop, list_active, list_failed, reset_failed | a failed call is no more than a failed call |
| Multipass client | `multipass.rs`, `cmd.rs` | VMs (external) | clone, set, start, purge, list_prefixed | same, timeouts included |
| GitHub client | `github.rs` | records, jobs (external) | list, delete, register, queued_labels | same |
| prune | `commands.rs` `gc` | none | list units, VMs, runners; purge, delete | orphans go, everything owned stays |
| naming | `naming.rs` | none | `vm_name`, `slot_vm_prefix`, `slot_of_vm` | ownership can be told from a name |
| configuration | `config.rs` | config.toml | load, validate, migrate, slots, base_for | slots of pools are disjoint in spite of 32-bit sums; a pool's base is defined |
| scale | `commands.rs` | config.toml | read, change, validate, write | the file stays loadable; a running supervisor comes to work by it |
| install | `commands.rs` | config.toml, unit files | load, migrate or prompt, enable, restart | an upgrade leaves no old supervisor running |
| self-update | `selfupdate.rs` | the binary, staged files | fetch, compare, download, verify, extract, swap, post_upgrade | only a verified and newer binary replaces it |
| uninstall | `commands.rs` | units, VMs, records | disable, stop, deregister, purge | nothing of the fleet is left but the base images |
| build-base | `commands.rs`, `provision/` | base VM | | the base is stopped again |
| doctor, status, command line | `commands.rs`, `main.rs`, `build.rs`, `paths.rs` | none | | |

What makes it hard: workers race for the lock; each has two threads that both
call `cleanup()`; a process may be killed between any two calls, and a call that
times out may have taken effect; the supervisor and prune act on lists that
were made earlier, one after the other, while workers come and go; GitHub
answers late, wrongly or not at all; the configuration is written in place
without a lock, and read once by a process that then runs for weeks; an update
consists of steps that may each be the last. `PROJECT.json` ("hazards") lists these
points at their lines, with the properties that guard them.

## 2. The modules

**Resources** has the readings of a host with their defaults (no memory, no
pressure, unlimited disk) and `decide()`; it has no variables and is shared by
the next two.

**AdmissionGate** models `Gate::acquire`, `settle` and the guard's drop for any
set of worker processes, as `lifecycle()` uses them: one action per turn of the
lock loop (`LockTaken`, `LockBusy`, `LockTimeout`, `LockError`), the turn of the
pressure loop that admits (`Granted`; a blocked turn changes nothing), `Clone`,
`Start`, `Settle`, and the ways out: `LaunchFails` drops the guard where `?`
returns, `Dies` is a kill or the signal thread's `process::exit`, at which the kernel frees
the lock while the VM lives on. `settle()` is a plain sleep (`SleepTick`): the guard is
dropped when it is over, whether or not the VM has booted. `vm` says whether a VM
shows in the readings yet; history are `accounted`, which VMs the reading behind a
grant showed, and `slow`, the workers whose VM did not show when `settle_seconds` had passed.
**LaunchTurns** is what the gate promises the host, without lock file and steps:
workers take turns, a turn is admitted only on a clear host, and ends. The
gate implements it under the mapping `TurnHolder`, `TurnAdmitted`.

**HealthMonitor** has `wait_registration()` and `health_monitor()` loop step by
loop step. Time is counted in poll intervals; a query may take up to
`QueryTime` of them and may fail. `since` is the age of `unhealthy_since`;
`away` and `confirmed` are history: time since the last Online answer, and the
part of it that follows unhealthy answers. GitHub and `run.sh` are external.
**RunnerWatch** is what the two loops conclude, without clocks and queries: a
worker goes on to monitoring only with a record, gives up a runner only when
`run.sh` has ended or at a moment when the runner is not online, and does not
watch a dead `run.sh` for ever. HealthMonitor implements it (`Phase`), and
Worker has these verdicts in the place of the loops.

**Worker** models the workers of one slot, one process after another: `pc` has
the two threads, `MainLocations` the steps of `lifecycle()` in order (sweep,
state file, token or JIT flow, gate, clone, start, settle, cloud-init,
registration, child, monitoring), `CleanupBody` those of `cleanup()`, which
either thread may enter through the swap of `cleaned`. `created`, `stored`,
`mutex` and `child` are `Ctx`'s. `vm`, `record` and `slotFile` outlive the
process. Each external call succeeds, or fails before or after taking effect
where the call can; a clone whose client is gone goes on in multipassd
(`DaemonCloned`). `dirty`, `missed`, `late` are history: a call failed which
this worker's cleanup, or its sweep, rests on; a clone arrived after the sweep
had begun. The gate is one step here and the monitoring loops are reduced to their
verdicts: AdmissionGate and HealthMonitor have them in full.

**Supervisor** takes `reconcile()` apart into its calls, in the code's order,
between which units, runners, queue and host change freely: `ListRunners`,
`ResetFailed`, `ScanQueued` (every Nth cycle), `ListActive`, `ReadHost` (two
separate readings), then per pool `PlanPool` and one `LaunchOne` or `StopOne` per
slot, `WriteStatus`, `Sleep`; `Restart` loses `SupState`. A worker is its unit and its
runner record. `desired`, `headroom_vms` and the counts of `reconcile()` are
operators (`Desired`, `HeadroomVms`, `Present`, `CanLaunch`, ...). `started` is history:
the units the cycle has really started, also by a `systemd-run` that timed out
(`unanswered`) and that `launched` does not count. The refresh of
`idle_since` is made with the list it depends on; nothing looks at it in
between. `idle_since` is keyed by VM name: `renamed` says that the slot's runner
is no longer the one the entry is for.

**Naming** has VM names as sequences of the parts between hyphens, so that
pool names with hyphens are told apart from slots by position only, as in the code.
**Gc** puts `gc()`, call by call, beside the workers of all slots
and the sweeps they begin with; ownership is decided from names alone. Names may
collide, as `valid_name()` allows: `NamedAfter` (pool `ci-2` is called after slot 2
of `ci`), `Shadowed` (an earlier pool fits the slot's VMs, so `gc()` takes them for
another slot's) and `SafeBases` say which slots and base images that concerns.

A clone whose worker has ended may still arrive (`cloning`, `DaemonCloned`).

**Uninstall** extends Gc with `uninstall()`: the fleet of Gc goes on, as far as
systemd still starts things (`StillEnabled`), while the supervisor and the timer
are disabled, the units listed and stopped one by one, the records deleted, the VMs
listed and purged. `LaunchArrives` is a `systemd-run` of the supervisor that was
under way when it was stopped. `excused` is history: what arrived after the list
that should have shown it.

**Config** has `validate()`, `slots()`, `migrate()` and `base_for()` as operators, with
`slot_base + max` modulo `U32` and the overlap check on neighbours of the sorted ranges,
as in the code. **Versions** has the order of SemVer as `cmp_versions()` and
`cmp_prerelease()` compute it, on identifiers that are numeric or not. **Deployment**
composes the two: `file` is the file on disk, absent, empty, torn or a whole
configuration, which `write_config()` truncates (`WriteBegin`) and then fills
(`WriteEnd`, where two writers may mix theirs); `op` is an installer or updater with its
locals and its staged tarball, one action per call that can fail; `sc` a scaler beside
it; `sup` the supervisor with the binary and the configuration it was started with, and
`check`, `notice` its background update check. `Publish` is GitHub, `Interrupted` ends a
command between any two calls. `damaged` and `upgraded` are history.

`MC*` modules give the instances for TLC; `*Proofs` modules hold theorems, each about
the module it is named after, DeploymentProofs about Versions too.
UninstallProofs rests on GcProofs, and DeploymentProofs on ConfigProofs, as the
modules do on each other.

## 3. What is checked

Every run takes the whole state space of its instance. A "violation" run
shows a disagreement between the code and a statement of the repository.

| run | instance | properties |
|---|---|---|
| `gate` | 3 workers, 2 lock retries, a settle pause of 1 tick, 6 host states on both sides of each threshold and unreadable | `TypeOK GateExclusion NoStaleGrant LockWaitEnds LockReleased`, refinement `TakesTurns` |
| `health` | grace 3, registration 3, queries up to 1 poll | `TypeOK RecycledOnlyAfterGrace ReapedWithinGrace ZombieReaped RegistrationDecided`, refinement `WatchesRunner` |
| `worker` | 4 names, 2 faults, 1 signal, both flows | `TypeOK UnsignalledCleanExit CleanupOnce SweptBeforeClone SignalEndsWorker LeftoverSwept` |
| `worker_signal_leak` | 2 names, no fault, 1 signal | violates `CleanExit` |
| `supervisor_one_pool` | 1 pool of 2 slots, 1 job, 1 fault, 3 host states | `TypeOK NoOverProvision StopsOnlyAged ConvergesToWarm` |
| `supervisor_two_pools` | 2 pools of 1 slot, 1 launch per cycle, 1 job, 1 fault | `LaunchBudget ConvergesToWarm` |
| `supervisor_stop_busy` | 1 pool of 2 slots, no fault | violates `StopsOnlyIdle` |
| `gc` | pools `ci-2` and `ci`, 1 slot each, 2 workers per slot, 1 fault, 2 base images | `TypeOK BasesKept SettledSpared SweepOwnSlot OrphansCollected` |
| `gc_race` | 2 pools of 1 slot, 1 worker per slot, no fault | violates `LiveSpared` |
| `uninstall` | 1 pool of 2 slots, 1 worker per slot, 1 fault, 1 base image, a prune at any time | `UnTypeOK TeardownComplete BasesOutlive` |
| `deployment` | 4 releases of which 2 more are published, 3 commands, 1 fault, an old configuration or none | `TypeOK ExeVerified SupervisorUpgraded ConfigLoadable NeverDowngrades SupervisorReturns UpdateNoticed` |
| `scale_ignored` | 2 commands, no fault | violates `ScalePickedUp` |

What they show:

- *Launches* are serialised across processes on every failure path, no grant
  rests on a reading that misses another live worker's VM, unless that VM took longer
  than `settle_seconds` to show (with 0 every VM may), waiters time out
  behind a holder stuck on a loaded host, and a clear host frees the lock: the
  gate gives workers the turns of LaunchTurns.
- *Runners* are recycled after a whole grace period without an Online answer and
  not later than the grace's worth of unhealthy answers; a zombie ends unless
  GitHub stops answering for good; registration is decided even then. A query
  that fails never gives a runner up: only an answer from a moment at which it
  was not online does.
- *Workers* that nobody signals leave nothing behind unless a call of their own
  cleanup fails; the threads never tear down together; a signalled worker ends
  in spite of the mutex; no worker clones beside a leftover its sweep could have
  seen, and a leftover is purged in the end.
- *The supervisor* never has more active and intended workers in a pool than it wants,
  although runners and units are listed at different times; a cycle starts no more
  workers than the launch budget, over all pools, plus those whose `systemd-run` timed
  out after it had started them; the supervisor stops nobody who has not been there for
  `idle_timeout`, and settles at `min_warm`.
- *prune* and the sweeps spare base images that are not called like a VM; prune
  spares every worker it has seen and collects VM and record of every dead worker, late
  clones included, unless an earlier pool's name claims the VM; a sweep takes no VM of another
  slot but those of pools that are called after the sweeping slot.
- *uninstall* that ends well leaves no worker, VM or record, except for a launch
  that reached systemd after the units were listed and for a clone completed
  after the VMs were listed; both windows exist. The base images outlive it
  whatever fails, if the configuration that names them loads.
- *Updates*: a damaged tarball never becomes the installed binary of a release
  with a checksum, an update never goes back without a tag, an upgrade that
  ended well leaves no old supervisor, and the supervisor notices a newer release
  although checks fail.
- *The configuration* stays loadable through any sequence of commands unless a
  write of it is cut off or overlapped by another, and the supervisor comes
  back each time it ends.

### Bounds, and why they are enough

Three workers for the lock: holder, waiter and one whose VM is still booting, or dead.
Two lock retries: a retry and the deadline. One settle tick, in which the VM may or may
not come to show; 0 and 2 give the same results, and the proof covers all. Grace and
timeout of three polls with queries up to one: off-by-one on both sides shows, since
elapsed time can jump over the boundary or meet it. Two faults in a slot: a first worker
killed or failed in its cleanup, then a failure in the sweep of the next; four names,
one more than faults and signals can leave behind, because a name comes back only when
it has left no trace. Two slots in a pool: an idle and a busy worker, or a warm one and
an excess one; two pools of one slot for one launch per cycle: one must wait, unless the
launch of the other timed out. One fault in the supervisor's runs, because a single
failed or timed-out call, dead worker or restart at every point is what the hazards are
about. Two workers per slot for prune: the one listed and its successor; one fault, since
a clone that arrives late, which needs none, leaves an orphan for a failing prune. Two slots for
prune and the sweeps, in the two pools whose names collide: a VM of slot 2 of `ci` reads
as one of `ci-2`, and a sweep of that slot finds the VMs of `ci-2`; slots of one pool
are what the proofs of section 4 cover, and uninstall's run has them. One per slot for
uninstall, which ends launches; two slots, so that one worker is stopped while the other
lives, and one fault, which may be a failing call, a killed worker or an early end of
prune. Four releases: a stable one installed, two prereleases that texts and numbers
order differently, and a stable one without a checksum; three commands: two updates, or
an install, a scale and an upgrade, overlapping. Queue lengths, idle times and ages are
capped at the last value a comparison tells apart. Numbers (memory, thresholds, `U32Max
= 15`, `U32 = 16`) are scaled down; `SupervisorProofs` and `ConfigProofs` cover the
arithmetic at full width.

`CHECK_DEADLOCK FALSE` stands in the runs of Deployment and Uninstall: commands
and workers are bounded there, and a fleet that has been torn down, or a host
without a command to run, stops.

### Fairness

- *Gate*: what a worker does alone is weakly fair, because every external
  command has a timeout (`cmd.rs`) and every loop but the pressure loop a
  deadline. `Acquire`, `Finish`, deaths, relaunches and the host are not fair.
  A booting VM shows in the readings in the end.
- *Health*: the thread runs and queries return, answered or not. `ZombieReaped`
  states its own premise that answers keep coming.
- *Worker*: both threads run, calls return, multipassd ends a clone, the
  supervisor relaunches the slot. Jobs, signals and kills are not fair.
  `LeftoverSwept` assumes that the slot's workers end again and again.
- *Supervisor*: its loop runs (systemd restarts it); workers register, connect,
  finish and stop; an idle runner takes a job it fits. `ConvergesToWarm`
  states its premise that the host has room.
- *Prune*: the timer fires again and again, its calls return, and multipassd
  ends a clone.
- *Deployment*: a command that runs goes on (its calls have timeouts), systemd
  starts the supervisor again (`Restart=always`), and its loop comes round to the
  update check. No command, publication, crash or interruption is fair.
  `SupervisorReturns` states its premises: an installed supervisor, a
  configuration that nobody damaged and a whole binary.
- *Uninstall*: safety only.

### Findings

1. `CleanExit` (`worker.rs:54`): a signal during the clone, or before `created` is
   stored, skips the purge; and the main thread, finding `cleaned` set, may end
   the process in the middle of the signal thread's teardown. The docs promise
   cleanup on SIGTERM/SIGINT. The next sweep or prune collects what is left.
2. `StopsOnlyIdle` (`supervisor.rs:297`): "stop idle workers" acts on the list of the
   cycle's beginning and may stop a runner that has taken a job.
3. `LiveSpared` (`commands.rs:181`): prune lists units before VMs, and purges the VM of a
   worker that started between.
4. `ScalePickedUp` (`main.rs:185`): "supervisor picks this up next cycle" says `scale`,
   but the configuration is loaded once, when the supervisor starts.

Smaller observations, not runs of their own:

- Pools that share a label, which validation accepts, count each other's runners:
  the idle runner of one fills the `min_warm` of the other (`supervisor.rs:215`).
- A pool name may contain hyphens (`config.rs:15`), though docs/CONFIG.md:45 says "no
  dashes": with pools `ci` and `ci-2`, the sweep of slot 2 of `ci`, which "only ever touches
  this slot's own" VMs (`worker.rs:310`), purges the VMs of live workers of `ci-2`; and
  `gc()`, which takes the first pool that fits, takes a VM of one for a slot of the other
  and may purge that of a live worker. Without `~NamedAfter` `SweepOwnSlot` fails in the
  run of prune, without `~Shadowed` `SettledSpared` does.
- A base image may be called like the VM of a slot (`vmfleet-ci-2-x`): the sweep of that slot
  purges it. No check asks for more than `valid_name()`.
- A launch whose `systemd-run` times out after it has started the unit is not counted
  (`supervisor.rs:259`), so a cycle may start more than the "max launches per cycle" of
  docs/CONFIG.md:58: the next pool gets the same budget again. In one pool it cannot, since
  the plan is cut to the budget before the launches.
- With `settle_seconds = 0`, or a VM slower than it, the next worker is admitted on a
  reading without the VM; the pause staggers launches and promises no more.
- A release without a `.sha256` asset is installed unverified, where README.md:59 and :75
  say "checksum-verified"; `ExeVerified` is about releases that have one.
- Unknown answers do not set `unhealthy_since`, and do not stop it either
  (`worker.rs:294`): the time of an outage between two unhealthy answers counts.
- `uninstall` without `--purge-all` keeps the base images only if the configuration
  loads (`commands.rs:564`), and a missing token ends it after the units have been
  stopped and before any VM is purged (`commands.rs:566`).
- A pool whose `slot_base + max` wraps around is accepted and has no slots.

## 4. What is proved

For every value of the constants that satisfies the modules' `ASSUME`s, hence
any number of workers, slots, names, releases, commands, faults and signals:

- **AdmissionGateProofs**: `GateTypes`, `LaunchesSerialized`, `GrantsNeverStale`.
  The inductive invariant is `GateInv`: `TypeOK`; `LockAgrees` (a worker is in the
  holding section exactly when `lock` names it, which `GateExclusion` alone does not
  say); `SettledShown` (a worker whose pause is over has its VM in the readings or is in
  `slow`), which rests on `LaunchedShown` (whoever pauses has started its VM) and `PauseFresh`
  (a pause begins with no tick passed); and `NoStaleGrant`, whose step at `Granted` needs
  these. Nothing is assumed of `SettleTime`. `GateTakesTurns`: the gate
  implements the safety part of LaunchTurns; `LockAgrees` tells that the mapped
  holder is the one whom `lock` names, so each step is a turn's or a stutter.
- **HealthMonitorProofs**: `MonitorTypes`, `NoEarlyRecycle`, `NoLateRecycle`. The
  invariant `MonitorInv` brackets `since` between `confirmed` and `away`
  (`SinceBracketed`), with the comparison's outcome kept while asleep
  (`SleepInGrace`) and when recycled (`RecycledAtGrace`). `MonitorWatchesRunner`:
  every step of the loops is one of RunnerWatch or a stutter.
- **WorkerProofs**: `WorkerTypes`; `TeardownExclusive`: `CleanupOnce` is not inductive,
  since a thread about to swap must know that the other is outside; `CleanupInv` adds
  that whoever is inside `cleanup()` has left `cleaned` set. `CloneAfterSweep`: between
  the list and the clone a leftover is either on the sweep's list or is not owed any
  more (`SweptInv`). `AloneLeavesNothing`: `OwnInv` ties `created` to the location of
  the main thread. Before the clone there is neither VM nor record (`BeforeClone`),
  after `created.store` the clone is over and the flag set (`AfterCreated`), and the
  steps of `cleanup()` take record and VM away in that order (`TearingDown`). Without a
  signal nobody else is there to disturb it (`MainAlone`).
- **SupervisorProofs**: `SupervisorTypes`, with `PoolAtHand` (while a pool is planned or
  carried out, `pool` is one). `LaunchesBounded`, of the units really started: `todo` is
  cut to what is left of the budget when a pool is planned, each launch takes its slot
  off it, and what it starts is either counted or in `unanswered` (`CountedStep`); the
  slots of a pool are planned once a cycle, which gives the bound per pool
  (`SharesStep`). `NeverOverProvisioned`: the plan counts `active`, a list that is old
  by then; `ActiveKnown` says that the list still covers every active unit of the pools
  to come, since only the supervisor starts units, and only for the pool at hand.
  `StopsAreAged`: an entry of `idle_since` is no older than the runner it stands for,
  through `Restart` and the reuse of slots (`AgesAgree`). `DesiredInBounds` (`desired`
  in `min_warm..max`, equal to the plain sum where that fits, saturation included),
  `WantedInBounds`, and `HeadroomFits` (the VMs counted fit the memory, unless the
  quotient is truncated to its `u32`).
- **GcProofs**: `GcTypesOK`, `BasesSurvive`, `SweepsStayHome`, `SettledSurvive`, for any
  pools and bases that `validate()` accepts. `SweepReach` compares names part by part: a
  slot's prefix fits the VM of another slot if and only if that slot's pool is
  `NamedAfter` it, so slots of one pool never meet, nor do pools without a hyphen and a
  number; and `FoundSlot`: unless an earlier pool shadows it, prune finds a VM's own
  slot again. Prune's lists age while it works; `SettledUnlisted` says which names on
  them cannot hurt: a worker that prune has seen and that lives on keeps its name off
  `todo`.
- **UninstallProofs**: `UnTypesOK`, `BasesOutliveUninstall` (neither
  prune nor uninstall has a base on its list, `KeptUnlisted`) and `TeardownIsComplete`.
  Its invariant `Torn` follows the steps of uninstall: once disabled nothing starts workers
  (`Disabled`), once the units are listed each live worker is on the list or excused
  (`UnitsGone`), once they are stopped nothing makes a record (`RecordsGone`), and once the
  VMs are listed only a clone under way makes another (`VMsGone`). `QuietFleet` is the
  lemma about Gc's actions that it rests on.
- **ConfigProofs**: `SlotsDisjoint`: in a valid configuration no slot has two pools.
  The code compares neighbours only, so the proof takes the least range that
  starts after a pool's own (`LeastPool`), to which the check applies, and carries
  it on to the others by the sort (`SortedApart`). `SlotsWithinWidth`, `BaseForDefined`.
- **DeploymentProofs**, on the order of releases: `NeverNewerThanItself`,
  `NewerTransitive`, over the first identifier at which two versions differ
  (`NewerWhereTheyDiffer`). On updates: `OnlyVerifiedInstalled`, `UpdatesAscend` (if
  releases are numbered in the order of `is_newer`), `UpgradeReachesSupervisor`. The
  invariant `UpdateInv` says what a later step of an update takes from an earlier one
  (`StagedSound`): the checksum held, and the release was newer than the installed one,
  which nobody has replaced since. On the configuration: `FileStaysLoadable`. Whatever a
  process holds to write has passed `validate()`, also after `scale` and `migrate()`
  have changed it (`WritersSound`, `MigratedGood`, `ScaledTyped`), and as long as no
  write was cut off or overlapped, one process at most writes and the file is empty just
  then (`OneWriter`). `RunningPoolsDisjoint` puts that and `SlotsDisjoint` together: the
  pools of a running supervisor share no slot. `DeploymentTypes`.

So every state invariant and every safety action property that a passing run checks is a
theorem too. `DeploymentAssumption` asks that what the prompt yields and what an
earlier vmfleet left is valid and of no later version, and that the arguments of `scale` are
`u32`; `SupervisorAssumption` and `GcAssumption` that pools are a sequence with disjoint
slots (`SlotsDisjoint`) and different names.

Only model-checked: the liveness properties (`LockWaitEnds`, `LockReleased`,
`ZombieReaped`, `RegistrationDecided`, `SignalEndsWorker`, `LeftoverSwept`,
`ConvergesToWarm`, `OrphansCollected`, `SupervisorReturns`, `UpdateNoticed`) and the fair part
of the two refinements `TakesTurns` and `WatchesRunner`: fairness and ENABLED are outside the
prover's reach. Nothing here needs induction over data; the sort of `validate()` is stated by
what follows what, and its proof takes a least element instead.

## 5. Abstractions, and what is not modelled

- A worker's VM name is unused so far; a name that has left no trace stands for
  a new one. A job needs one label, and a runner of any pool with it may take it.
- `<ts>-<pid>` is one part of a name, so a slot whose number is that of a timestamp is
  not considered.
- In Gc a sweep and a cleanup are single steps; Worker takes them apart.
- In AdmissionGate cleanup always purges; Worker has its failures.
- In Deployment one installer or updater runs at a time, beside one scaler: two
  updaters would share the names of their staged files. The token, the units' texts
  and the base VMs that install looks for are left out, `--dry-run` and `--check` change
  nothing, and what the operator types is one of `Prompted`.
- In Uninstall the deletion of the records is one step after their list.
- Not modelled: dry runs, the supervisor's singleton lock, the
  contents of status.json and metrics, parsing of CSV, TOML, `/proc` and JSON,
  HTTP retry and pagination, pipes of child processes, the removal of files by
  `uninstall --purge-all`; `doctor` and `status`, which only read and print;
  `build-base`, a sequence of Multipass calls on a VM that nothing else starts;
  the rest of `main.rs`, and `paths.rs`.

## 6. Plan

Every part whose behaviour depends on order, failure or time is modelled. What is left:

1. *Composition.* Supervisor, workers and prune over shared units, VMs and records,
   with a contract of a slot (at most one unit, one VM that is accounted for)
   that Worker implements and Supervisor and Gc rest on.
2. *Proofs.* The slot as a contract: that prune, which is proved about names, spares what
   the supervisor counts as active needs both modules' invariants over one state.
   `UpdatesAscend` takes the numbering of releases as a hypothesis; it follows from the order
   proved about Versions where the releases are sorted by it.

Runs stay few: compositions take over questions from the runs of their parts where they
ask them on a larger system.
