------------------------ MODULE AdmissionGateProofs ------------------------
(***************************************************************************)
(* Proofs about AdmissionGate, for any set of workers, any retry bound and *)
(* any host: type correctness, that launches are serialised, and that they *)
(* are staggered: the reading that admits a launch reflects every live     *)
(* worker's VM that showed within settle_seconds of its start.             *)
(***************************************************************************)
EXTENDS AdmissionGate, TLAPS

(* What makes serialisation inductive: the lock file and the workers'      *)
(* locations agree.                                                        *)
LockAgrees == \A w \in Workers : pc[w] \in Holding <=> lock = w

(* Once the settle pause has run its length, the worker's VM shows in the  *)
(* readings or has been noted as slow.                                     *)
Settled(w) == pc[w] = "running" \/ (pc[w] = "settle" /\ slept[w] = SettleTime)

SettledShown == \A w \in Workers : Settled(w) => vm[w] = "up" \/ w \in slow

(* A worker in the settle pause has started its VM. *)
LaunchedShown == \A w \in Workers : pc[w] = "settle" => vm[w] # "none"

(* The pause of a launch starts from nothing. *)
PauseFresh == \A w \in Workers : pc[w] # "settle" => slept[w] = 0

GateInv ==
    /\ TypeOK /\ LockAgrees /\ PauseFresh /\ LaunchedShown /\ SettledShown
    /\ NoStaleGrant

USE DEF Locations, Holding, Launching

(* Every step of the gate keeps the variables within their types. *)
LEMMA TypeStep == TypeOK /\ [Next]_vars => TypeOK'
<1> SUFFICES ASSUME TypeOK, [Next]_vars PROVE TypeOK'
  OBVIOUS
<1> USE GateAssumption DEF TypeOK, Goto, pause
<1>1. CASE HostChanges
  BY <1>1 DEF HostChanges
<1>2. ASSUME NEW w \in Workers, WorkerStep(w) PROVE TypeOK'
  <2>1. CASE Acquire(w)  BY <2>1 DEF Acquire
  <2>2. CASE LockTaken(w)  BY <2>2 DEF LockTaken
  <2>3. CASE LockBusy(w)  BY <2>3 DEF LockBusy
  <2>4. CASE LockTimeout(w)  BY <2>4 DEF LockTimeout
  <2>5. CASE Granted(w)  BY <2>5 DEF Granted, VisibleVMs
  <2>6. CASE Clone(w)  BY <2>6 DEF Clone
  <2>7. CASE Start(w)  BY <2>7 DEF Start
  <2>8. CASE Settle(w)  BY <2>8 DEF Settle
  <2>9. CASE LaunchFails(w)  BY <2>9 DEF LaunchFails
  <2>10. CASE Finish(w)  BY <2>10 DEF Finish
  <2>11. CASE Cleanup(w)  BY <2>11 DEF Cleanup
  <2>12. CASE Dies(w)  BY <2>12 DEF Dies
  <2>13. CASE Relaunch(w)  BY <2>13 DEF Relaunch
  <2>14. CASE LockError(w)  BY <2>14 DEF LockError
  <2>15. CASE SleepTick(w)  BY <2>15 DEF SleepTick
  <2> QED
    BY <1>2, <2>1, <2>2, <2>3, <2>4, <2>5, <2>6, <2>7, <2>8, <2>9, <2>10,
       <2>11, <2>12, <2>13, <2>14, <2>15 DEF WorkerStep
<1>3. ASSUME NEW w \in Workers, VmVisible(w) PROVE TypeOK'
  BY <1>3 DEF VmVisible
<1>4. CASE UNCHANGED vars
  BY <1>4 DEF vars, pause
<1> QED
  BY <1>1, <1>2, <1>3, <1>4 DEF Next

(* Only the holder moves within the holding locations, and it gives up the *)
(* lock exactly where it leaves them.                                      *)
LEMMA LockStep == TypeOK /\ LockAgrees /\ [Next]_vars => LockAgrees'
<1> SUFFICES ASSUME TypeOK, LockAgrees, [Next]_vars PROVE LockAgrees'
  OBVIOUS
<1> USE GateAssumption DEF TypeOK, LockAgrees, Goto, pause
<1>1. CASE HostChanges
  BY <1>1 DEF HostChanges
<1>2. ASSUME NEW w \in Workers, WorkerStep(w) PROVE LockAgrees'
  <2>1. CASE Acquire(w)  BY <2>1 DEF Acquire
  <2>2. CASE LockTaken(w)  BY <2>2 DEF LockTaken
  <2>3. CASE LockBusy(w)  BY <2>3 DEF LockBusy
  <2>4. CASE LockTimeout(w)  BY <2>4 DEF LockTimeout
  <2>5. CASE Granted(w)  BY <2>5 DEF Granted
  <2>6. CASE Clone(w)  BY <2>6 DEF Clone
  <2>7. CASE Start(w)  BY <2>7 DEF Start
  <2>8. CASE Settle(w)  BY <2>8 DEF Settle
  <2>9. CASE LaunchFails(w)  BY <2>9 DEF LaunchFails
  <2>10. CASE Finish(w)  BY <2>10 DEF Finish
  <2>11. CASE Cleanup(w)  BY <2>11 DEF Cleanup
  <2>12. CASE Dies(w)  BY <2>12 DEF Dies
  <2>13. CASE Relaunch(w)  BY <2>13 DEF Relaunch
  <2>14. CASE LockError(w)  BY <2>14 DEF LockError
  <2>15. CASE SleepTick(w)  BY <2>15 DEF SleepTick
  <2> QED
    BY <1>2, <2>1, <2>2, <2>3, <2>4, <2>5, <2>6, <2>7, <2>8, <2>9, <2>10,
       <2>11, <2>12, <2>13, <2>14, <2>15 DEF WorkerStep
<1>3. ASSUME NEW w \in Workers, VmVisible(w) PROVE LockAgrees'
  BY <1>3 DEF VmVisible
<1>4. CASE UNCHANGED vars
  BY <1>4 DEF vars, pause
<1> QED
  BY <1>1, <1>2, <1>3, <1>4 DEF Next

(* A grant is never made stale: whoever could start another VM would need  *)
(* the lock that the admitted worker holds.                                *)
LEMMA GrantStep ==
    GateInv /\ [Next]_vars
        => PauseFresh' /\ LaunchedShown' /\ SettledShown' /\ NoStaleGrant'
<1> SUFFICES ASSUME GateInv, [Next]_vars
             PROVE  PauseFresh' /\ LaunchedShown' /\ SettledShown' /\ NoStaleGrant'
  OBVIOUS
<1> USE GateAssumption
    DEF GateInv, TypeOK, LockAgrees, PauseFresh, LaunchedShown, SettledShown,
        Settled, NoStaleGrant, Goto, pause
<1>1. CASE HostChanges
  BY <1>1 DEF HostChanges
<1>2. ASSUME NEW w \in Workers, WorkerStep(w)
      PROVE  PauseFresh' /\ LaunchedShown' /\ SettledShown' /\ NoStaleGrant'
  <2>1. CASE Acquire(w)  BY <2>1 DEF Acquire
  <2>2. CASE LockTaken(w)  BY <2>2 DEF LockTaken
  <2>3. CASE LockBusy(w)  BY <2>3 DEF LockBusy
  <2>4. CASE LockTimeout(w)  BY <2>4 DEF LockTimeout
  <2>5. CASE Granted(w)  BY <2>5 DEF Granted, VisibleVMs
  <2>6. CASE Clone(w)  BY <2>6 DEF Clone
  <2>7. CASE Start(w)  BY <2>7 DEF Start
  <2>8. CASE Settle(w)  BY <2>8 DEF Settle
  <2>9. CASE LaunchFails(w)  BY <2>9 DEF LaunchFails
  <2>10. CASE Finish(w)  BY <2>10 DEF Finish
  <2>11. CASE Cleanup(w)  BY <2>11 DEF Cleanup
  <2>12. CASE Dies(w)  BY <2>12 DEF Dies
  <2>13. CASE Relaunch(w)  BY <2>13 DEF Relaunch
  <2>14. CASE LockError(w)  BY <2>14 DEF LockError
  <2>15. CASE SleepTick(w)
    <3>1. /\ UNCHANGED <<pc, vm, accounted>>
          /\ pc[w] = "settle"
          /\ slept[w] + 1 = SettleTime /\ vm[w] = "booting" => w \in slow'
          /\ slow \subseteq slow'
      BY <2>15 DEF SleepTick
    <3>2. slept'[w] = slept[w] + 1 /\ \A v \in Workers \ {w} : slept'[v] = slept[v]
      BY <2>15 DEF SleepTick
    <3>3. vm[w] # "none"
      BY <3>1 DEF LaunchedShown
    <3>4. PauseFresh'
      BY <3>1, <3>2
    <3>5. SettledShown'
      BY <3>1, <3>2, <3>3
    <3>6. NoStaleGrant'
      BY <3>1
    <3> QED
      BY <3>1, <3>3, <3>4, <3>5, <3>6
  <2> QED
    BY <1>2, <2>1, <2>2, <2>3, <2>4, <2>5, <2>6, <2>7, <2>8, <2>9, <2>10,
       <2>11, <2>12, <2>13, <2>14, <2>15 DEF WorkerStep
<1>3. ASSUME NEW w \in Workers, VmVisible(w)
      PROVE  PauseFresh' /\ LaunchedShown' /\ SettledShown' /\ NoStaleGrant'
  BY <1>3 DEF VmVisible
<1>4. CASE UNCHANGED vars
  BY <1>4 DEF vars, pause
<1> QED
  BY <1>1, <1>2, <1>3, <1>4 DEF Next

(* The invariant holds in every reachable state. *)
THEOREM GateInvariant == SafetySpec => []GateInv
<1>1. Init => GateInv
  BY GateAssumption
  DEF Init, GateInv, TypeOK, LockAgrees, PauseFresh, LaunchedShown,
      SettledShown, Settled, NoStaleGrant
<1>2. GateInv /\ [Next]_vars => GateInv'
  BY TypeStep, LockStep, GrantStep DEF GateInv
<1> QED
  BY <1>1, <1>2, PTL DEF SafetySpec

(* Launches are serialised whatever fails: at most one worker is between   *)
(* Flock::lock and the drop of its guard (admission.rs, worker.rs).        *)
THEOREM LaunchesSerialized == SafetySpec => []GateExclusion
<1>1. GateInv => GateExclusion
  BY DEF GateInv, LockAgrees, GateExclusion
<1> QED
  BY <1>1, GateInvariant, PTL

(* The reading that admits a launch reflects the VM of every other live    *)
(* worker that showed within settle_seconds of its start, for any number   *)
(* of workers and any settle_seconds, 0 included.                          *)
THEOREM GrantsNeverStale == SafetySpec => []NoStaleGrant
<1>1. GateInv => NoStaleGrant
  BY DEF GateInv
<1> QED
  BY <1>1, GateInvariant, PTL

(* The gate's variables keep their types. *)
THEOREM GateTypes == SafetySpec => []TypeOK
<1>1. GateInv => TypeOK
  BY DEF GateInv
<1> QED
  BY <1>1, GateInvariant, PTL

(* The lock file names the worker whose turn it is. *)
LockTurn ==
    /\ TurnHolder = lock
    /\ TurnAdmitted = (lock # NoWorker /\ pc[lock] # "pressure")

LEMMA HolderIsLock == GateInv => LockTurn
  <1> SUFFICES ASSUME TypeOK, LockAgrees PROVE LockTurn
    BY DEF GateInv
  <1> USE DEF LockTurn
  <1>1. CASE lock = NoWorker
    BY <1>1, GateAssumption DEF LockAgrees, TurnHolder, TurnAdmitted
  <1>2. CASE lock \in Workers
    <2>1. \A w \in Workers : pc[w] \in Holding <=> w = lock
      BY DEF LockAgrees
    <2>2. (CHOOSE w \in Workers : pc[w] \in Holding) = lock
      BY <1>2, <2>1
    <2> QED
      BY <1>2, <2>1, <2>2, GateAssumption DEF TurnHolder, TurnAdmitted
  <1> QED
    BY <1>1, <1>2 DEF TypeOK

LEMMA HolderIsLockNext == GateInv' => LockTurn'
  BY HolderIsLock, PTL

(* Both modules look at the host through the same readings. *)
LEMMA SameBlocked == Turns!Blocked(host) = Blocked(host)
  BY DEF Turns!Blocked, Turns!Decide, Turns!MemAvailable, Turns!MemPsi,
         Turns!DiskFree, Turns!Reading, Blocked, Decide, MemAvailable, MemPsi,
         DiskFree, Reading

(* Every step of the gate is a step of the turns, or leaves them alone. *)
LEMMA TurnStep ==
    ASSUME GateInv, GateInv', [Next]_vars
    PROVE  [Turns!Next]_<<TurnHolder, TurnAdmitted, host>>
  <1> DEFINE Let == lock # NoWorker /\ pc[lock] # "pressure"
  <1>0. /\ TurnHolder = lock /\ TurnAdmitted = Let
        /\ TurnHolder' = lock' /\ TurnAdmitted' = Let'
    BY HolderIsLock, HolderIsLockNext DEF LockTurn
  <1> USE <1>0, GateAssumption DEF GateInv, TypeOK, LockAgrees, Goto
  <1>1. CASE HostChanges
    <2>1. Turns!HostMoves
      BY <1>1 DEF HostChanges, Turns!HostMoves, Turns!turn
    <2> QED
      BY <2>1 DEF Turns!Next
  <1>2. ASSUME NEW w \in Workers, WorkerStep(w)
        PROVE  [Turns!Next]_<<TurnHolder, TurnAdmitted, host>>
    <2>1. CASE LockTaken(w)
      <3>1. Turns!Take(w)
        BY <2>1 DEF LockTaken, Turns!Take
      <3> QED
        BY <3>1 DEF Turns!Next
    <2>2. CASE Granted(w)
      <3>1. ~Turns!Blocked(host)
        BY <2>2, SameBlocked DEF Granted
      <3>2. lock = w /\ lock' = w /\ pc[w] = "pressure" /\ pc'[w] = "clone"
        BY <2>2 DEF Granted
      <3>3. UNCHANGED host
        BY <2>2 DEF Granted
      <3>4. TurnHolder = w /\ TurnHolder' = w /\ ~TurnAdmitted /\ TurnAdmitted' = TRUE
        BY <3>2
      <3>5. Turns!Admit
        BY <3>1, <3>3, <3>4 DEF Turns!Admit
      <3> QED
        BY <3>5 DEF Turns!Next
    <2>3. CASE Settle(w)
      <3>1. Turns!Leave
        BY <2>3 DEF Settle, Turns!Leave
      <3> QED
        BY <3>1 DEF Turns!Next
    <2>4. CASE LaunchFails(w)
      <3>1. /\ pc[w] \in Launching /\ lock' = NoWorker
            /\ UNCHANGED host
        BY <2>4 DEF LaunchFails
      <3>2. TurnHolder = w /\ TurnHolder' = NoWorker /\ TurnAdmitted' = FALSE
        BY <3>1
      <3>3. Turns!Leave
        BY <3>1, <3>2 DEF Turns!Leave
      <3> QED
        BY <3>3 DEF Turns!Next
    <2>5. CASE Dies(w) /\ lock = w
      <3>1. Turns!Leave
        BY <2>5 DEF Dies, Turns!Leave
      <3> QED
        BY <3>1 DEF Turns!Next
    <2>6. CASE Dies(w) /\ lock # w
      BY <2>6 DEF Dies
    <2>7. CASE Acquire(w) \/ LockBusy(w) \/ LockTimeout(w) \/ LockError(w)
      BY <2>7 DEF Acquire, LockBusy, LockTimeout, LockError
    <2>8. CASE Clone(w) \/ Start(w) \/ SleepTick(w)
      BY <2>8 DEF Clone, Start, SleepTick
    <2>9. CASE Finish(w) \/ Cleanup(w) \/ Relaunch(w)
      BY <2>9 DEF Finish, Cleanup, Relaunch
    <2> QED
      BY <1>2, <2>1, <2>2, <2>3, <2>4, <2>5, <2>6, <2>7, <2>8, <2>9
      DEF WorkerStep
  <1>3. ASSUME NEW w \in Workers, VmVisible(w)
        PROVE  UNCHANGED <<TurnHolder, TurnAdmitted, host>>
    BY <1>3 DEF VmVisible
  <1>4. CASE UNCHANGED vars
    BY <1>4 DEF vars, pause
  <1> QED
    BY <1>1, <1>2, <1>3, <1>4 DEF Next

(* The gate implements the turns of LaunchTurns, for any number of         *)
(* workers, through failures, deaths and relaunches; TakesTurns adds their *)
(* liveness, which stays with TLC.                                         *)
THEOREM GateTakesTurns == SafetySpec => Turns!SafetySpec
<1>1. Init => Turns!Init
  <2> SUFFICES ASSUME Init PROVE Turns!Init
    OBVIOUS
  <2>1. \A w \in Workers : pc[w] \notin Holding
    BY DEF Init
  <2> QED
    BY <2>1 DEF Init, Turns!Init, TurnHolder, TurnAdmitted
<1>2. GateInv /\ GateInv' /\ [Next]_vars
        => [Turns!Next]_<<Turns!turn, host>>
  BY TurnStep DEF Turns!turn
<1> QED
  BY <1>1, <1>2, GateInvariant, PTL DEF SafetySpec, Turns!SafetySpec
=============================================================================
