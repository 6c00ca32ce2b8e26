----------------------------- MODULE Uninstall -----------------------------
(***************************************************************************)
(* `vmfleet uninstall` (src/src/commands.rs) against the live fleet of Gc: *)
(* the workers go on while their units are stopped one after the other, a  *)
(* prune may be under way, a launch of the supervisor may still be on its  *)
(* way to systemd when the supervisor is stopped, and multipassd may       *)
(* complete the clone of a worker that has ended.                          *)
(***************************************************************************)
EXTENDS Gc

VARIABLES
    enabled,    \* what systemd runs: the supervisor, the timer of prune
    un,         \* uninstall: where it is, --purge-all, whether Config::load() has
                \* not failed, and what it has listed
    launching,  \* slots whose systemd-run outlives the supervisor
    excused,    \* history: VMs of workers started after the units were listed,
                \* and VMs cloned after the VMs were listed
    unFailed    \* history: a call of uninstall failed

unVars == <<enabled, un, launching, excused, unFailed>>
allVars == <<vars, unVars>>

UnInit ==
    /\ Init
    /\ enabled = {"supervisor", "timer"}
    /\ un = [at |-> "idle", all |-> FALSE, cfg |-> TRUE, todo |-> {}]
    /\ launching = {} /\ excused = {} /\ unFailed = FALSE

UnGoes(from, to) == un.at = from /\ un' = [un EXCEPT !.at = to]

(* A call of uninstall goes through, or fails. *)
UnGood == NoFault /\ UNCHANGED unFailed
UnBad == Fault /\ unFailed' = TRUE

(* What a step of Gc may not do once the supervisor, or the timer, is off. *)
StillEnabled ==
    /\ "supervisor" \notin enabled => instance' = instance
    /\ "timer" \notin enabled => ~(gc = "idle" /\ gc' # "idle")

(* The fleet goes on; multipassd may complete a clone. *)
FleetStep ==
    /\ Next /\ StillEnabled
    /\ excused' = IF un.at \in {"purge", "done"}
                    THEN excused \union (cloning \ cloning') ELSE excused
    /\ UNCHANGED <<enabled, un, launching, unFailed>>

-----------------------------------------------------------------------------
DisablesOnly == \* mutant: `disable` without --now
    UnGood /\ UNCHANGED enabled

(* disable_now() of the supervisor and of the timer, errors ignored. *)
DisablesNow ==
    \/ UnGood /\ enabled' = {}
    \/ UnBad /\ enabled' \in (SUBSET enabled) \ {{}}

(* KillMode=process leaves a systemd-run of the supervisor alone. *)
UnDisable ==
    /\ UnGoes("idle", "listUnits")
    /\ launching' \in {S \in SUBSET Slots : Cardinality(S) <= 1}
    /\ DisablesNow
    /\ UNCHANGED <<workerVars, world, gcVars, settled, excused>>

(* The transient unit of a launch under way starts. *)
LaunchArrives(s) ==
    /\ s \in launching /\ launching' = launching \ {s}
    /\ WorkerAt(s, "none", "sweep") /\ instance[s] < MaxInstances
    /\ instance' = [instance EXCEPT ![s] = @ + 1]
    /\ excused' = IF un.at = "listUnits" THEN excused
                    ELSE excused \union {VmName(PoolName(s), s, instance[s] + 1)}
    /\ UNCHANGED <<world, gcVars, faults, settled, enabled, un, unFailed>>

(* list_active: none when it fails. *)
UnListUnits ==
    /\ un.at = "listUnits"
    /\ \/ UnGood /\ un' = [un EXCEPT !.at = "stop",
                           !.todo = {s \in Slots : worker[s] # "none"}]
       \/ UnBad /\ un' = [un EXCEPT !.at = "stop"]
    /\ UNCHANGED <<workerVars, world, gcVars, settled, enabled, launching, excused>>

(* systemctl stop: the worker, if it still is there, cleans up and ends,   *)
(* unless that takes longer than stop() waits.                             *)
UnStop(s) ==
    /\ un.at = "stop" /\ s \in un.todo
    /\ un' = [un EXCEPT !.todo = @ \ {s}]
    /\ \/ Cleanup(s) /\ UNCHANGED unFailed
       \/ /\ \/ worker[s] = "none" /\ UnGood
             \/ worker[s] # "none" /\ UnBad
          /\ UNCHANGED <<workerVars, world, gcVars, settled>>
    /\ UNCHANGED <<enabled, launching, excused>>

(* The configuration is loaded, and --purge-all makes a difference from    *)
(* here on; without a configuration the records stay.                      *)
UnStopped ==
    /\ un.at = "stop" /\ un.todo = {}
    /\ \/ \E all \in BOOLEAN : un' = [un EXCEPT !.at = "deregister", !.all = all]
       \/ un' = [un EXCEPT !.at = "listVMs", !.cfg = FALSE]
    /\ UNCHANGED <<vars, enabled, launching, excused, unFailed>>

(* delete_runners_by_prefix(): the records of one list, up to the first    *)
(* that cannot be deleted.                                                 *)
DeleteRunners ==
    \/ UnGood /\ offline' = {} /\ online' = {}
    \/ UnBad /\ offline' \in SUBSET offline /\ online' \in SUBSET online

(* Its error is only reported, but without a token the command ends.       *)
UnDeregister ==
    /\ \/ UnGoes("deregister", "listVMs") /\ DeleteRunners
       \/ UnGoes("deregister", "failed") /\ UnBad /\ UNCHANGED records
    /\ UNCHANGED <<workerVars, vms, cloning, gcVars, settled, enabled, launching,
                   excused>>

UnKeepsNothing == {} \* mutant: base images are purged like any VM

UnKeeps == IF un.cfg /\ ~un.all THEN BaseNames ELSE {}

(* list_prefixed; its error ends the command. *)
UnListVMs ==
    /\ un.at = "listVMs"
    /\ \/ UnGood /\ un' = [un EXCEPT !.at = "purge", !.todo = vms \ UnKeeps]
       \/ UnBad /\ un' = [un EXCEPT !.at = "failed"]
    /\ UNCHANGED <<workerVars, world, gcVars, settled, enabled, launching, excused>>

(* purge() of one of them, its error ignored. *)
UnPurge ==
    /\ un.at = "purge"
    /\ \E n \in un.todo :
          /\ un' = [un EXCEPT !.todo = @ \ {n}]
          /\ \/ UnGood /\ vms' = vms \ {n}
             \/ UnBad /\ UNCHANGED vms
    /\ UNCHANGED <<workerVars, cloning, records, gcVars, settled, enabled,
                   launching, excused>>

UnDone ==
    /\ UnGoes("purge", "done") /\ un.todo = {}
    /\ UNCHANGED <<vars, enabled, launching, excused, unFailed>>

UnStep ==
    \/ UnListUnits \/ (\E s \in Slots : UnStop(s)) \/ UnStopped
    \/ UnDeregister \/ UnListVMs \/ UnPurge \/ UnDone

UnNext ==
    \/ FleetStep \/ UnDisable \/ UnStep
    \/ \E s \in Slots : LaunchArrives(s)

UnSpec == UnInit /\ [][UnNext]_allVars

-----------------------------------------------------------------------------
UnTypeOK ==
    /\ TypeOK
    /\ enabled \subseteq {"supervisor", "timer"}
    /\ un \in [at: {"idle", "listUnits", "stop", "deregister", "listVMs", "purge",
                    "done", "failed"},
               all: BOOLEAN, cfg: BOOLEAN,
               todo: SUBSET IF un.at = "stop" THEN Slots ELSE AllNames]
    /\ launching \subseteq Slots /\ excused \subseteq AllNames
    /\ unFailed \in BOOLEAN

(* "Complete teardown of this fleet (VMs, runners, units)": once uninstall *)
(* has ended with a configuration and without a failing call, no worker,   *)
(* VM or runner record is left, however workers were launched, crashed and *)
(* pruned around it.  What may be left comes from a launch that reached    *)
(* systemd after the units were listed, or from a clone that multipassd    *)
(* completed after the VMs were listed.                                    *)
TeardownComplete ==
    (un.at = "done" /\ un.cfg /\ ~unFailed) =>
        /\ vms \union offline \union online \subseteq UnKeeps \union excused
        /\ \A s \in Slots : worker[s] # "none" => Name(s) \in excused

(* "config kept": the base images outlive an uninstall without --purge-all,*)
(* whatever fails, as long as the configuration that names them loads; no  *)
(* sweep takes them either, unless they are called like the VM of a slot.  *)
BasesOutlive ==
    (un.cfg /\ ~un.all) => SafeBases \subseteq vms
=============================================================================
