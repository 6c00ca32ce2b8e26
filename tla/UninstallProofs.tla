-------------------------- MODULE UninstallProofs --------------------------
(***************************************************************************)
(* Proofs about uninstall against the live fleet, for any pools and bases, *)
(* any number of workers, of failing calls and of crashes: the types, that *)
(* base images outlive it, and that its teardown is complete.              *)
(***************************************************************************)
EXTENDS Uninstall, GcProofs

Early == {"idle", "listUnits", "stop"}

Places == {"idle", "listUnits", "stop", "deregister", "listVMs", "purge",
           "done", "failed"}

(* What a step of uninstall itself does to the fleet, apart from stopping  *)
(* a worker.                                                               *)
Takes ==
    /\ UNCHANGED <<workerVars, cloning, gcVars, settled>>
    /\ vms' \subseteq vms /\ offline' \subseteq offline /\ online' \subseteq online
    /\ UNCHANGED faults \/ Fault

(* A launch that reaches systemd late is a launch like any other, and a    *)
(* worker that is stopped cleans up like any other.                        *)
LEMMA FleetOrTakes ==
    ASSUME UnNext
    PROVE  Next \/ (Takes /\ (UNCHANGED vms \/ UnPurge))
  <1>1. CASE FleetStep
    BY <1>1 DEF FleetStep
  <1>2. ASSUME NEW s \in Slots, LaunchArrives(s)
        PROVE  Next
    <2>1. Launch(s)
      BY <1>2 DEF LaunchArrives, Launch
    <2> QED
      BY <2>1 DEF Next, WorkerStep
  <1>3. ASSUME NEW s \in Slots, UnStop(s)
        PROVE  Next \/ (Takes /\ UNCHANGED vms)
    <2>1. CASE Cleanup(s)
      BY <2>1 DEF Next, WorkerStep
    <2>2. CASE ~Cleanup(s)
      BY <1>3, <2>2 DEF UnStop, Takes, UnGood, UnBad, NoFault, world, records
    <2> QED
      BY <2>1, <2>2
  <1>4. CASE UnDisable
    BY <1>4 DEF UnDisable, DisablesNow, Takes, UnGood, UnBad, NoFault, world, records
  <1>5. CASE UnListUnits \/ UnStopped \/ UnListVMs \/ UnDone
    BY <1>5 DEF UnListUnits, UnStopped, UnListVMs, UnDone, Takes, UnGood, UnBad,
                NoFault, vars, world, records
  <1>6. CASE UnDeregister
    <2>1. UNCHANGED faults \/ Fault
      BY <1>6 DEF UnDeregister, DeleteRunners, UnGood, UnBad, NoFault
    <2>2. offline' \subseteq offline /\ online' \subseteq online
      BY <1>6 DEF UnDeregister, DeleteRunners, records
    <2> QED
      BY <1>6, <2>1, <2>2 DEF UnDeregister, Takes
  <1>7. CASE UnPurge
    BY <1>7 DEF UnPurge, Takes, UnGood, UnBad, NoFault, records
  <1> QED
    BY <1>1, <1>2, <1>3, <1>4, <1>5, <1>6, <1>7 DEF UnNext, UnStep

LEMMA FleetTypes ==
    ASSUME TypeOK, Launched, UnNext
    PROVE  TypeOK' /\ Launched'
  <1>1. CASE Next
    BY <1>1, GcTypeStep
  <1>2. CASE Takes
    <2>1. faults' \in 0..MaxFaults
      <3>1. MaxFaults \in Nat /\ faults \in 0..MaxFaults
        BY GcAssumption DEF TypeOK
      <3> QED
        BY <1>2, <3>1 DEF Takes, Fault
    <2>2. /\ vms' \subseteq AllNames
          /\ offline' \subseteq AllNames /\ online' \subseteq AllNames
      BY <1>2 DEF Takes, TypeOK
    <2>3. UNCHANGED <<worker, instance, cloning, gc, active, todo, settled>>
      BY <1>2 DEF Takes, workerVars, gcVars
    <2> QED
      BY ONLY TypeOK, Launched, <2>1, <2>2, <2>3 DEF TypeOK, Launched
  <1> QED
    BY <1>1, <1>2, FleetOrTakes

-----------------------------------------------------------------------------
(* Types. *)

(* Nothing is on uninstall's list before it has listed the units. *)
NothingListed == un.at \in {"idle", "listUnits"} => un.todo = {}

LEMMA UnFields ==
    ASSUME UnTypeOK
    PROVE  /\ un \in [at: Places, all: BOOLEAN, cfg: BOOLEAN,
                      todo: SUBSET IF un.at = "stop" THEN Slots ELSE AllNames]
           /\ un.at \in Places /\ un.all \in BOOLEAN /\ un.cfg \in BOOLEAN
           /\ un.todo \subseteq IF un.at = "stop" THEN Slots ELSE AllNames
  BY DEF UnTypeOK, Places

(* Where uninstall goes, and with what on its list. *)
LEMMA UnMoves ==
    ASSUME UnTypeOK, NothingListed, UnNext
    PROVE  /\ un' \in [at: Places, all: BOOLEAN, cfg: BOOLEAN,
                       todo: SUBSET IF un'.at = "stop" THEN Slots ELSE AllNames]
           /\ NothingListed'
           /\ \/ un.at = "stop" /\ un'.at \in {"deregister", "listVMs"}
              \/ /\ un'.all = un.all /\ un'.cfg = un.cfg
                 /\ un'.at \in Early => un.at \in Early
  <1> USE DEF Early
  <1>1. CASE UNCHANGED un
    BY <1>1, UnFields DEF NothingListed
  <1>2. CASE UnDisable
    <2>1. un.at = "idle" /\ un.todo = {} /\ un' = [un EXCEPT !.at = "listUnits"]
      BY <1>2 DEF UnDisable, UnGoes, NothingListed
    <2> QED
      BY <2>1, UnFields DEF NothingListed, Places
  <1>3. CASE UnListUnits
    <2>1. un.at = "listUnits" /\ un.todo = {}
      BY <1>3 DEF UnListUnits, NothingListed
    <2>2. \E S \in SUBSET Slots : un' = [un EXCEPT !.at = "stop", !.todo = S]
      <3>1. CASE un' = [un EXCEPT !.at = "stop",
                                  !.todo = {s \in Slots : worker[s] # "none"}]
        BY <3>1
      <3>2. CASE un' = [un EXCEPT !.at = "stop"]
        <4>1. un' = [un EXCEPT !.at = "stop", !.todo = {}]
          BY <2>1, <3>2, UnFields
        <4> QED
          BY <4>1
      <3> QED
        BY <1>3, <3>1, <3>2 DEF UnListUnits
    <2> QED
      BY <2>1, <2>2, UnFields DEF NothingListed, Places
  <1>4. ASSUME NEW s \in Slots, UnStop(s)
        PROVE  un.at = "stop" /\ un' = [un EXCEPT !.todo = un.todo \ {s}]
    BY <1>4 DEF UnStop
  <1>5. CASE \E s \in Slots : UnStop(s)
    BY <1>4, <1>5, UnFields DEF NothingListed, Places
  <1>6. CASE UnStopped
    <2>1. un.at = "stop" /\ un.todo = {}
      BY <1>6 DEF UnStopped
    <2>2. CASE \E all \in BOOLEAN : un' = [un EXCEPT !.at = "deregister", !.all = all]
      BY <2>1, <2>2, UnFields DEF NothingListed, Places
    <2>3. CASE un' = [un EXCEPT !.at = "listVMs", !.cfg = FALSE]
      BY <2>1, <2>3, UnFields DEF NothingListed, Places
    <2> QED
      BY <1>6, <2>2, <2>3 DEF UnStopped
  <1>7. CASE UnDeregister
    <2>1. un.at = "deregister"
          /\ \E a \in {"listVMs", "failed"} : un' = [un EXCEPT !.at = a]
      BY <1>7 DEF UnDeregister, UnGoes
    <2> QED
      BY <2>1, UnFields DEF NothingListed, Places
  <1>8. CASE UnListVMs
    <2>1. vms \ UnKeeps \subseteq AllNames
      BY DEF UnTypeOK, TypeOK
    <2>2. un.at = "listVMs"
          /\ \/ un' = [un EXCEPT !.at = "purge", !.todo = vms \ UnKeeps]
             \/ un' = [un EXCEPT !.at = "failed"]
      BY <1>8 DEF UnListVMs
    <2> QED
      BY <2>1, <2>2, UnFields DEF NothingListed, Places
  <1>9. CASE UnPurge
    <2>1. un.at = "purge" /\ \E n \in un.todo : un' = [un EXCEPT !.todo = un.todo \ {n}]
      BY <1>9 DEF UnPurge
    <2> QED
      BY <2>1, UnFields DEF NothingListed, Places
  <1>10. CASE UnDone
    <2>1. un.at = "purge" /\ un' = [un EXCEPT !.at = "done"]
      BY <1>10 DEF UnDone, UnGoes
    <2> QED
      BY <2>1, UnFields DEF NothingListed, Places
  <1> QED
    BY <1>1, <1>2, <1>3, <1>5, <1>6, <1>7, <1>8, <1>9, <1>10
    DEF UnNext, UnStep, FleetStep, LaunchArrives

LEMMA UnTypeStep ==
    UnTypeOK /\ Launched /\ NothingListed /\ [UnNext]_allVars
    => UnTypeOK' /\ Launched' /\ NothingListed'
  <1> SUFFICES ASSUME UnTypeOK, Launched, NothingListed, [UnNext]_allVars
               PROVE  UnTypeOK' /\ Launched' /\ NothingListed'
    OBVIOUS
  <1>1. CASE UNCHANGED allVars
    <2>1. UNCHANGED <<worker, instance, vms, cloning, offline, online, gc, active, todo,
                      faults, settled, enabled, un, launching, excused, unFailed>>
      BY <1>1 DEF allVars, unVars, vars, workerVars, world, records, gcVars
    <2> QED
      BY <2>1 DEF UnTypeOK, TypeOK, Launched, NothingListed, AllNames
  <1>2. CASE UnNext
    <2>1. TypeOK' /\ Launched'
      BY <1>2, FleetTypes DEF UnTypeOK
    <2>2. /\ NothingListed'
          /\ un' \in [at: Places, all: BOOLEAN, cfg: BOOLEAN,
                      todo: SUBSET IF un'.at = "stop" THEN Slots ELSE AllNames]
      BY <1>2, UnMoves
    <2>3. enabled' \subseteq {"supervisor", "timer"}
      BY <1>2 DEF UnTypeOK, UnNext, FleetStep, UnDisable, DisablesNow, LaunchArrives,
                  UnStep, UnListUnits, UnStop, UnStopped, UnDeregister, UnListVMs,
                  UnPurge, UnDone
    <2>4. launching' \subseteq Slots
      BY <1>2 DEF UnTypeOK, UnNext, FleetStep, UnDisable, LaunchArrives,
                  UnStep, UnListUnits, UnStop, UnStopped, UnDeregister, UnListVMs,
                  UnPurge, UnDone
    <2>5. unFailed' \in BOOLEAN
      BY <1>2 DEF UnTypeOK, UnNext, FleetStep, UnDisable, DisablesNow, LaunchArrives,
                  UnStep, UnListUnits, UnStop, UnStopped, UnDeregister, DeleteRunners,
                  UnListVMs, UnPurge, UnDone, UnGood, UnBad
    <2>6. excused' \subseteq AllNames
      <3>1. CASE \E s \in Slots : LaunchArrives(s)
        <4>1. PICK s \in Slots : LaunchArrives(s)
          BY <3>1
        <4>2. instance[s] \in 0..MaxInstances /\ instance[s] < MaxInstances
          BY <4>1 DEF LaunchArrives, UnTypeOK, TypeOK
        <4>3. instance[s] + 1 \in 1..MaxInstances
          BY <4>2, GcAssumption
        <4>4. VmName(PoolName(s), s, instance[s] + 1) \in AllNames
          BY <4>3 DEF AllNames
        <4> QED
          BY <4>1, <4>4 DEF LaunchArrives, UnTypeOK
      <3>2. CASE FleetStep
        BY <3>2 DEF FleetStep, UnTypeOK, TypeOK
      <3>3. CASE UNCHANGED excused
        BY <3>3 DEF UnTypeOK, AllNames
      <3> QED
        BY <1>2, <3>1, <3>2, <3>3
        DEF UnNext, UnDisable, UnStep, UnListUnits, UnStop, UnStopped, UnDeregister,
            UnListVMs, UnPurge, UnDone
    <2> QED
      BY <2>1, <2>2, <2>3, <2>4, <2>5, <2>6 DEF UnTypeOK, Places, AllNames
  <1> QED
    BY <1>1, <1>2

LEMMA UnTypeInit == UnInit => UnTypeOK /\ Launched /\ NothingListed
  <1> SUFFICES ASSUME UnInit
               PROVE  UnTypeOK /\ Launched /\ NothingListed
    OBVIOUS
  <1>1. TypeOK /\ Launched
    BY GcTypeInit DEF UnInit
  <1>2. un = [at |-> "idle", all |-> FALSE, cfg |-> TRUE, todo |-> {}]
    BY DEF UnInit
  <1>3. unFailed \in BOOLEAN
    BY DEF UnInit
  <1> QED
    BY <1>1, <1>2, <1>3 DEF UnInit, UnTypeOK, NothingListed

(* What uninstall has on its list are slots while it stops units, and      *)
(* names of the fleet while it purges.                                     *)
THEOREM UnTypesOK == UnSpec => []UnTypeOK
  <1> QED
    BY UnTypeInit, UnTypeStep, PTL DEF UnSpec

-----------------------------------------------------------------------------
(* Base images. *)

(* Neither prune nor uninstall has a base image on its list that it is to  *)
(* keep.                                                                   *)
KeptUnlisted ==
    /\ BasesUnlisted
    /\ un.at \in Early => un.cfg /\ ~un.all
    /\ un.at = "purge" => un.todo \cap UnKeeps = {}

LEMMA KeptStep ==
    ASSUME UnTypeOK, NothingListed, BasesOutlive, KeptUnlisted, [UnNext]_allVars
    PROVE  BasesOutlive' /\ KeptUnlisted'
  <1>1. CASE UNCHANGED allVars
    <2>1. UNCHANGED <<vms, gc, todo, un>>
      BY <1>1 DEF allVars, unVars, vars, world, gcVars
    <2> QED
      BY <2>1 DEF BasesOutlive, KeptUnlisted, BasesUnlisted, UnKeeps
  <1>2. CASE UnNext
    <2>1. \/ un.at = "stop" /\ un'.at \in {"deregister", "listVMs"}
          \/ /\ un'.all = un.all /\ un'.cfg = un.cfg
             /\ un'.at \in Early => un.at \in Early
      BY <1>2, UnMoves
    <2>2. un'.cfg /\ ~un'.all => un.cfg /\ ~un.all
      BY <2>1 DEF KeptUnlisted, Early
    <2>3. BasesUnlisted' /\ BasesOutlive'
      <3>1. CASE Next
        BY <2>2, <3>1, BasesStep DEF KeptUnlisted, BasesOutlive, BasesKept
      <3>2. CASE Takes /\ UNCHANGED vms
        BY <2>2, <3>2 DEF Takes, gcVars, KeptUnlisted, BasesUnlisted, BasesOutlive
      <3>3. CASE Takes /\ UnPurge
        <4>1. BasesUnlisted'
          BY <3>3 DEF Takes, gcVars, KeptUnlisted, BasesUnlisted
        <4>2. un.at = "purge" /\ \E n \in un.todo : vms' = vms \ {n} \/ vms' = vms
          BY <3>3 DEF UnPurge
        <4>3. BasesOutlive'
          BY <2>2, <4>2 DEF KeptUnlisted, UnKeeps, BasesOutlive, SafeBases
        <4> QED
          BY <4>1, <4>3
      <3> QED
        BY <1>2, <3>1, <3>2, <3>3, FleetOrTakes
    <2>4. un'.at = "purge" => un'.todo \cap UnKeeps' = {}
      <3>1. CASE UNCHANGED un
        BY <3>1 DEF KeptUnlisted, UnKeeps
      <3>2. CASE UnListVMs
        BY <3>2, UnFields DEF UnListVMs, UnKeeps
      <3>3. CASE UnPurge
        BY <3>3, UnFields DEF UnPurge, KeptUnlisted, UnKeeps
      <3>4. CASE un'.at # "purge"
        BY <3>4
      <3> QED
        BY <1>2, <3>1, <3>2, <3>3, <3>4, UnFields
        DEF UnNext, UnStep, FleetStep, LaunchArrives, UnDisable, UnListUnits, UnStop,
            UnStopped, UnDeregister, UnDone, UnGoes
    <2>5. un'.at \in Early => un'.cfg /\ ~un'.all
      BY <2>1 DEF KeptUnlisted, Early
    <2> QED
      BY <2>3, <2>4, <2>5 DEF KeptUnlisted
  <1> QED
    BY <1>1, <1>2

(* The base images outlive an uninstall that was not asked to take them,   *)
(* whatever fails and whatever workers and prune do meanwhile, but for     *)
(* those called like the VM of a slot, which a sweep may take.             *)
THEOREM BasesOutliveUninstall == UnSpec => []BasesOutlive
  <1>1. UnInit => BasesOutlive /\ KeptUnlisted
    BY DEF UnInit, Init, BasesOutlive, KeptUnlisted, BasesUnlisted, SafeBases
  <1>2. UnTypeOK /\ NothingListed /\ BasesOutlive /\ KeptUnlisted /\ [UnNext]_allVars
        => BasesOutlive' /\ KeptUnlisted'
    BY KeptStep
  <1> QED
    BY <1>1, <1>2, UnTypeInit, UnTypeStep, PTL DEF UnSpec

-----------------------------------------------------------------------------
(* Teardown. *)

(* The supervisor and the timer are off for good. *)
Disabled == (un.at # "idle" /\ ~unFailed) => enabled = {}

(* Once the units have been listed, every worker that lives is on the list *)
(* of those to be stopped, or excused.                                     *)
UnitsGone ==
    (un.at \in {"stop", "deregister", "listVMs", "purge", "done"} /\ ~unFailed) =>
        \A s \in Slots : worker[s] # "none" =>
            Name(s) \in excused \/ (un.at = "stop" /\ s \in un.todo)

(* Once the records have been deleted, only excused workers register.      *)
RecordsGone ==
    (un.at \in {"listVMs", "purge", "done"} /\ un.cfg /\ ~unFailed) =>
        offline \union online \subseteq excused

(* Once the VMs have been listed, every VM is on the list of those to be   *)
(* purged, or is kept or excused.                                          *)
VMsGone ==
    (un.at \in {"purge", "done"} /\ ~unFailed) =>
        vms \subseteq UnKeeps \union excused
                       \union (IF un.at = "purge" THEN un.todo ELSE {})

Torn == Disabled /\ UnitsGone /\ RecordsGone /\ VMsGone

(* The fleet without launches: VMs and records come only from workers that *)
(* live, and VMs from clones under way.                                    *)
LEMMA QuietFleet ==
    ASSUME TypeOK, Next, instance' = instance
    PROVE  /\ \A s \in Slots : worker'[s] # "none" => worker[s] # "none"
           /\ offline' \union online' \subseteq
                  offline \union online
                      \union {Name(s) : s \in {t \in Slots : worker[t] # "none"}}
           /\ vms' \subseteq
                  vms \union (cloning \ cloning')
                      \union {Name(s) : s \in {t \in Slots : worker[t] # "none"}}
  <1>1. CASE GcStep \/ Disconnect
    BY <1>1 DEF GcStep, GcListActive, GcListVMs, GcPurge, GcPurged, GcListRunners,
                GcDelete, GcDone, Disconnect, workerVars, world, records
  <1>2. CASE DaemonCloned
    <2>1. UNCHANGED <<worker, offline, online>>
      BY <1>2 DEF DaemonCloned, workerVars, records
    <2>2. PICK n \in cloning : cloning' = cloning \ {n} /\ vms' = vms \union {n}
      BY <1>2 DEF DaemonCloned
    <2> QED
      BY <2>1, <2>2
  <1>3. ASSUME NEW s \in Slots, WorkerStep(s)
        PROVE  /\ \A t \in Slots : worker'[t] # "none" => worker[t] # "none"
               /\ \/ UNCHANGED worker
                  \/ worker[s] # "none"
               /\ offline' \union online' \subseteq offline \union online \union
                      (IF worker[s] # "none" THEN {Name(s)} ELSE {})
               /\ vms' \subseteq vms \union (IF worker[s] # "none" THEN {Name(s)} ELSE {})
    <2>1. ~Launch(s)
      <3>1. ASSUME Launch(s) PROVE FALSE
        <4>1. instance'[s] = instance[s] + 1 /\ instance[s] \in Nat
          BY <3>1, GcAssumption DEF Launch, TypeOK
        <4> QED
          BY <4>1
      <3> QED
        BY <3>1
    <2>2. \A t \in Slots : worker'[t] # "none" => worker[t] # "none"
      BY <1>3, <2>1 DEF WorkerStep, SweepLeftovers, CloneVM, Register, Connect, Cleanup,
                        Crash, WorkerAt, workerVars, TypeOK
    <2>3. worker[s] # "none"
      BY <1>3, <2>1 DEF WorkerStep, SweepLeftovers, CloneVM, Register, Connect, Cleanup,
                        Crash, WorkerAt
    <2>4. /\ offline' \union online' \subseteq offline \union online \union {Name(s)}
          /\ vms' \subseteq vms \union {Name(s)}
      BY <1>3, <2>1 DEF WorkerStep, SweepLeftovers, CloneVM, Register, Connect, Cleanup,
                        Crash, records
    <2> QED
      BY <2>2, <2>3, <2>4
  <1>4. CASE \E s \in Slots : WorkerStep(s)
    BY <1>3, <1>4
  <1> QED
    BY <1>1, <1>2, <1>4 DEF Next

(* The fleet goes on, with the supervisor and the timer off. *)
LEMMA TornByFleet ==
    ASSUME UnTypeOK, Torn, FleetStep
    PROVE  Torn'
  <1>1. /\ UNCHANGED <<enabled, un, unFailed>> /\ Next
        /\ excused \subseteq excused'
        /\ un.at \in {"purge", "done"} => (cloning \ cloning') \subseteq excused'
        /\ UnKeeps' = UnKeeps
    BY DEF FleetStep, UnKeeps
  <1>2. Disabled'
    BY <1>1 DEF Torn, Disabled
  <1> SUFFICES ASSUME ~unFailed,
                      un.at \in {"stop", "deregister", "listVMs", "purge", "done"}
               PROVE  UnitsGone' /\ RecordsGone' /\ VMsGone'
    BY <1>1, <1>2 DEF Torn, UnitsGone, RecordsGone, VMsGone
  <1>3. instance' = instance
    BY DEF FleetStep, StillEnabled, Torn, Disabled
  <1>4. \A s \in Slots : Name(s)' = Name(s)
    BY <1>3 DEF Name
  <1> DEFINE Alive == {Name(s) : s \in {t \in Slots : worker[t] # "none"}}
  <1>5. /\ \A s \in Slots : worker'[s] # "none" => worker[s] # "none"
        /\ offline' \union online' \subseteq offline \union online \union Alive
        /\ vms' \subseteq vms \union (cloning \ cloning') \union Alive
    BY <1>1, <1>3, QuietFleet DEF UnTypeOK
  <1>6. un.at # "stop" => Alive \subseteq excused
    BY DEF Torn, UnitsGone
  <1> HIDE DEF Alive
  <1>7. UnitsGone'
    BY <1>1, <1>4, <1>5 DEF Torn, UnitsGone
  <1>8. RecordsGone'
    BY <1>1, <1>5, <1>6 DEF Torn, RecordsGone
  <1>9. VMsGone'
    BY <1>1, <1>5, <1>6 DEF Torn, VMsGone
  <1> QED
    BY <1>7, <1>8, <1>9

(* A launch that arrives after the units were listed is excused. *)
LEMMA TornByArrival ==
    ASSUME UnTypeOK, Torn, NEW s \in Slots, LaunchArrives(s)
    PROVE  Torn'
  <1>1. /\ UNCHANGED <<vms, cloning, offline, online, enabled, un, unFailed>>
        /\ UnKeeps' = UnKeeps /\ excused \subseteq excused'
    BY DEF LaunchArrives, world, records, UnKeeps
  <1>2. Disabled' /\ RecordsGone' /\ VMsGone'
    BY <1>1 DEF Torn, Disabled, RecordsGone, VMsGone
  <1>3. \A t \in Slots : t # s => worker'[t] = worker[t] /\ Name(t)' = Name(t)
    BY DEF LaunchArrives, WorkerAt, Name, UnTypeOK, TypeOK
  <1>4. un.at # "listUnits" => Name(s)' \in excused'
    <2>1. instance'[s] = instance[s] + 1
      BY DEF LaunchArrives, UnTypeOK, TypeOK
    <2> QED
      BY <2>1 DEF LaunchArrives, Name
  <1>5. UnitsGone'
    BY <1>1, <1>3, <1>4 DEF Torn, UnitsGone
  <1> QED
    BY <1>2, <1>5 DEF Torn

(* uninstall's own steps, up to the list of the VMs and after it. *)
LEMMA TornByStop ==
    ASSUME UnTypeOK, Torn,
           UnDisable \/ UnListUnits \/ (\E s \in Slots : UnStop(s)) \/ UnStopped
    PROVE  Torn'
  <1>1. CASE UnDisable
    <2>1. un'.at = "listUnits"
      BY <1>1, UnFields DEF UnDisable, UnGoes
    <2>2. ~unFailed' => enabled' = {}
      BY <1>1 DEF UnDisable, DisablesNow, UnGood, UnBad
    <2> QED
      BY <2>1, <2>2 DEF Torn, Disabled, UnitsGone, RecordsGone, VMsGone
  <1>2. CASE UnListUnits
    <2>1. un.at = "listUnits" /\ un'.at = "stop" /\ UNCHANGED <<enabled, worker>>
      BY <1>2, UnFields DEF UnListUnits, workerVars
    <2>3. ~unFailed' => ~unFailed
      BY <1>2 DEF UnListUnits, UnGood, UnBad
    <2>2. ~unFailed' => un'.todo = {s \in Slots : worker[s] # "none"}
      BY <1>2, UnFields DEF UnListUnits, UnBad
    <2> QED
      BY <2>1, <2>2, <2>3 DEF Torn, Disabled, UnitsGone, RecordsGone, VMsGone
  <1>3. ASSUME NEW s \in Slots, UnStop(s)
        PROVE  Torn'
    <2>1. /\ un.at = "stop" /\ un'.at = "stop" /\ un'.todo = un.todo \ {s}
          /\ UNCHANGED <<enabled, excused, instance>> /\ (~unFailed' => ~unFailed)
      BY <1>3, UnFields DEF UnStop, UnGood, UnBad, Cleanup, workerVars
    <2>2. ~unFailed' => worker'[s] = "none"
      BY <1>3 DEF UnStop, UnGood, UnBad, Cleanup, workerVars, UnTypeOK, TypeOK
    <2>3. \A t \in Slots : t # s => worker'[t] = worker[t]
      BY <1>3 DEF UnStop, Cleanup, workerVars, UnTypeOK, TypeOK
    <2>4. \A t \in Slots : Name(t)' = Name(t)
      BY <2>1 DEF Name
    <2>5. UnitsGone'
      BY <2>1, <2>2, <2>3, <2>4 DEF Torn, UnitsGone
    <2> QED
      BY <2>1, <2>5 DEF Torn, Disabled, RecordsGone, VMsGone
  <1>4. CASE UnStopped
    <2>1. /\ un.at = "stop" /\ un.todo = {}
          /\ un'.at = "deregister" \/ (un'.at = "listVMs" /\ ~un'.cfg)
          /\ UNCHANGED <<enabled, excused, worker, instance, unFailed>>
      BY <1>4, UnFields DEF UnStopped, vars, workerVars
    <2>2. \A t \in Slots : Name(t)' = Name(t)
      BY <2>1 DEF Name
    <2>3. UnitsGone'
      BY <2>1, <2>2 DEF Torn, UnitsGone
    <2> QED
      BY <2>1, <2>3 DEF Torn, Disabled, RecordsGone, VMsGone
  <1> QED
    BY <1>1, <1>2, <1>3, <1>4

LEMMA TornByPurge ==
    ASSUME UnTypeOK, Torn, UnDeregister \/ UnListVMs \/ UnPurge \/ UnDone
    PROVE  Torn'
  <1>1. /\ un.at \in {"deregister", "listVMs", "purge"}
        /\ un'.at \in {"listVMs", "purge", "done", "failed"}
        /\ un'.cfg = un.cfg /\ un'.all = un.all
        /\ UNCHANGED <<enabled, excused, worker, instance>>
        /\ ~unFailed' => ~unFailed
    <2>1. ~unFailed' => ~unFailed
      BY DEF UnDeregister, UnListVMs, UnPurge, UnDone, UnGood, UnBad, DeleteRunners
    <2>2. UNCHANGED <<enabled, excused, worker, instance>>
      BY DEF UnDeregister, UnListVMs, UnPurge, UnDone, vars, workerVars
    <2>3. \/ \E a \in {"listVMs", "failed", "done"} : un' = [un EXCEPT !.at = a]
          \/ \E S : un' = [un EXCEPT !.at = "purge", !.todo = S]
          \/ un.at = "purge" /\ \E S : un' = [un EXCEPT !.todo = S]
      BY DEF UnDeregister, UnListVMs, UnPurge, UnDone, UnGoes
    <2>4. un.at \in {"deregister", "listVMs", "purge"}
      BY DEF UnDeregister, UnListVMs, UnPurge, UnDone, UnGoes
    <2> QED
      BY <2>1, <2>2, <2>3, <2>4, UnFields
  <1>2. \A s \in Slots : Name(s)' = Name(s)
    BY <1>1 DEF Name
  <1>3. UnKeeps' = UnKeeps
    BY <1>1 DEF UnKeeps
  <1>4. Disabled' /\ UnitsGone'
    BY <1>1, <1>2 DEF Torn, Disabled, UnitsGone
  <1>5. RecordsGone'
    <2>1. CASE UnDeregister
      <3>1. un'.at = "listVMs" /\ ~unFailed' => offline' = {} /\ online' = {}
        BY <2>1, UnFields DEF UnDeregister, UnGoes, DeleteRunners, UnGood, UnBad
      <3>2. un'.at \in {"listVMs", "failed"}
        BY <2>1, UnFields DEF UnDeregister, UnGoes
      <3> QED
        BY <3>1, <3>2 DEF RecordsGone
    <2>2. CASE ~UnDeregister
      <3>1. un.at \in {"listVMs", "purge"} /\ UNCHANGED <<offline, online>>
        BY <2>2 DEF UnListVMs, UnPurge, UnDone, UnGoes, vars, world, records
      <3> QED
        BY <1>1, <3>1 DEF Torn, RecordsGone
    <2> QED
      BY <2>1, <2>2
  <1>6. VMsGone'
    <2>1. CASE UnDeregister
      <3>1. un'.at \in {"listVMs", "failed"}
        BY <2>1, UnFields DEF UnDeregister, UnGoes
      <3> QED
        BY <3>1 DEF VMsGone
    <2>2. CASE UnListVMs
      <3>1. UNCHANGED vms
        BY <2>2 DEF UnListVMs, world
      <3>2. un'.at = "failed" \/ (un'.at = "purge" /\ un'.todo = vms \ UnKeeps)
        BY <2>2, UnFields DEF UnListVMs
      <3> QED
        BY <1>3, <3>1, <3>2 DEF VMsGone
    <2>3. CASE UnPurge
      <3>1. PICK n \in un.todo :
                /\ un.at = "purge" /\ un'.at = "purge" /\ un'.todo = un.todo \ {n}
                /\ ~unFailed' => vms' = vms \ {n}
        BY <2>3, UnFields DEF UnPurge, UnBad
      <3> QED
        BY <1>1, <1>3, <3>1 DEF Torn, VMsGone
    <2>4. CASE UnDone
      <3>1. un.at = "purge" /\ un'.at = "done" /\ un.todo = {} /\ UNCHANGED vms
        BY <2>4, UnFields DEF UnDone, UnGoes, vars, world
      <3> QED
        BY <1>1, <1>3, <3>1 DEF Torn, VMsGone
    <2> QED
      BY <2>1, <2>2, <2>3, <2>4
  <1> QED
    BY <1>4, <1>5, <1>6 DEF Torn

LEMMA TornStep == UnTypeOK /\ Torn /\ [UnNext]_allVars => Torn'
  <1> SUFFICES ASSUME UnTypeOK, Torn, [UnNext]_allVars
               PROVE  Torn'
    OBVIOUS
  <1>1. CASE UNCHANGED allVars
    <2>1. UNCHANGED <<worker, instance, vms, offline, online, enabled, un, excused,
                      unFailed>>
      BY <1>1 DEF allVars, unVars, vars, workerVars, world, records
    <2>2. UnKeeps' = UnKeeps /\ \A s \in Slots : Name(s)' = Name(s)
      BY <2>1 DEF UnKeeps, Name
    <2> QED
      BY <2>1, <2>2 DEF Torn, Disabled, UnitsGone, RecordsGone, VMsGone
  <1> QED
    BY <1>1, TornByFleet, TornByArrival, TornByStop, TornByPurge DEF UnNext, UnStep

(* An uninstall that ends without a failing call has taken everything down *)
(* for good, for any number of slots, whatever workers, sweeps and a prune *)
(* under way did meanwhile, except for what reached systemd or multipassd  *)
(* too late to be listed.                                                  *)
THEOREM TeardownIsComplete == UnSpec => []TeardownComplete
  <1>1. UnInit => Torn
    BY DEF UnInit, Torn, Disabled, UnitsGone, RecordsGone, VMsGone
  <1>2. Torn => TeardownComplete
    BY DEF Torn, UnitsGone, RecordsGone, VMsGone, TeardownComplete
  <1> QED
    BY <1>1, <1>2, TornStep, UnTypesOK, PTL DEF UnSpec
=============================================================================
