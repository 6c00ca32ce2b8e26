-------------------------- MODULE SupervisorProofs --------------------------
(***************************************************************************)
(* Proofs about the supervisor, for every fleet validate() accepts, every  *)
(* queue and host, and any number of failing calls, dying workers and      *)
(* restarts: its pure functions, the types, the launch budget, that a pool *)
(* is never over-provisioned, and that a stop hits only aged workers.      *)
(***************************************************************************)
EXTENDS Supervisor, FiniteSetTheorems, WellFoundedInduction, TLAPS

(* desired() never leaves a pool's bounds, also where the saturating sum   *)
(* of busy, queued and min_warm would.                                     *)
THEOREM DesiredInBounds ==
    ASSUME NEW busy \in Nat, NEW queued \in Nat,
           NEW max \in 0..U32Max, NEW minWarm \in 0..max
    PROVE  /\ Desired(busy, queued, minWarm, max) \in minWarm..max
           /\ busy + queued + minWarm <= max =>
                Desired(busy, queued, minWarm, max) = busy + queued + minWarm
  BY SupervisorAssumption DEF Desired, Clamp, SatAdd, Smaller, Larger

(* What a pool wants is within its configured bounds in every state of the *)
(* supervisor, whatever the counts of runners and jobs it has read.        *)
THEOREM WantedInBounds ==
    ASSUME NEW p \in PoolIds, Cardinality(BusyOf(p)) \in Nat, Queued(p) \in Nat
    PROVE  Wanted(p) \in Pools[p].min_warm .. Pools[p].max
  <1>1. /\ Pools[p].max \in 0..U32Max
        /\ Pools[p].min_warm \in 0..Pools[p].max
    BY SupervisorAssumption DEF ValidPools
  <1> QED
    BY <1>1, DesiredInBounds DEF Wanted

(* headroom_vms(): as long as the quotient fits a u32, that many busy VMs  *)
(* fit into the memory above min_avail_mib; below it there is no headroom. *)
THEOREM HeadroomFits ==
    ASSUME NEW avail \in Nat, NEW minAvail \in Nat, NEW reserve \in Nat \ {0},
           Larger(avail - minAvail, 0) \div reserve <= U32Max
    PROVE  /\ HeadroomVms(avail, minAvail, reserve) \in Nat
           /\ avail <= minAvail => HeadroomVms(avail, minAvail, reserve) = 0
           /\ minAvail <= avail =>
                minAvail + HeadroomVms(avail, minAvail, reserve) * reserve <= avail
  <1> DEFINE spare == Larger(avail - minAvail, 0)
             vms == spare \div reserve
  <1>1. spare \in Nat /\ Larger(reserve, 1) = reserve
    BY DEF Larger
  <1>2. vms \in Nat /\ vms * reserve <= spare /\ (spare = 0 => vms = 0)
    BY <1>1 DEF Larger
  <1>3. vms % (U32Max + 1) = vms
    <2>1. U32Max \in Nat
      BY SupervisorAssumption
    <2>2. vms <= U32Max
      BY <1>1 DEF Larger
    <2> HIDE DEF vms
    <2> QED
      BY <1>2, <2>1, <2>2
  <1>4. HeadroomVms(avail, minAvail, reserve) = vms
    BY <1>1, <1>3 DEF HeadroomVms
  <1>5. /\ avail <= minAvail => spare = 0
        /\ minAvail <= avail => spare = avail - minAvail
    BY DEF Larger
  <1> HIDE DEF spare, vms
  <1> QED
    BY <1>1, <1>2, <1>4, <1>5

-----------------------------------------------------------------------------
(* Slots are few, and every slot has its pool. *)

LEMMA PoolsAreSequence == Len(Pools) \in Nat /\ PoolIds = DOMAIN Pools
  <1>1. \A T : \A s \in Seq(T) : Len(s) \in Nat /\ 1..Len(s) = DOMAIN s
    OBVIOUS
  <1>2. PICK T : Pools \in Seq(T)
    BY SupervisorAssumption
  <1> QED
    BY <1>1, <1>2 DEF PoolIds

LEMMA SlotFacts ==
    /\ AllSlots \subseteq 0..U32Max
    /\ IsFiniteSet(AllSlots)
    /\ \A p \in PoolIds : Slots(p) \subseteq AllSlots /\ IsFiniteSet(Slots(p))
    /\ \A p, q \in PoolIds : p # q => Slots(p) \cap Slots(q) = {}
  <1>1. \A p \in PoolIds : Slots(p) \subseteq 0..U32Max
    BY SupervisorAssumption DEF ValidPools, Slots
  <1>2. AllSlots \subseteq 0..U32Max
    BY <1>1 DEF AllSlots
  <1>3. IsFiniteSet(0..U32Max)
    BY FS_Interval, SupervisorAssumption
  <1>4. \A S \in SUBSET (0..U32Max) : IsFiniteSet(S)
    BY <1>3, FS_Subset
  <1>5. \A p \in PoolIds : Slots(p) \subseteq AllSlots
    BY DEF AllSlots
  <1>6. \A p, q \in PoolIds : p # q => Slots(p) \cap Slots(q) = {}
    BY SupervisorAssumption DEF ValidPools
  <1> QED
    BY <1>1, <1>2, <1>4, <1>5, <1>6

(* Sets of slots can be counted. *)
LEMMA CountSlots ==
    ASSUME NEW S, S \subseteq AllSlots
    PROVE  IsFiniteSet(S) /\ Cardinality(S) \in Nat
  BY SlotFacts, FS_Subset, FS_CardinalityType

LEMMA CountFewer ==
    ASSUME NEW S, S \subseteq AllSlots, NEW T, T \subseteq S
    PROVE  Cardinality(T) <= Cardinality(S)
  BY CountSlots, FS_Subset

LEMMA GreatestNatural ==
    ASSUME NEW n \in Nat, NEW S, S \subseteq 0..n, S # {}
    PROVE  \E x \in S : \A y \in S : y <= x
  <1> DEFINE Below == {n - y : y \in S}
  <1>1. Below \subseteq Nat /\ Below # {}
    <2>1. \A y \in S : n - y \in Nat /\ n - y \in Below
      OBVIOUS
    <2> QED
      BY <2>1
  <1>2. PICK z \in Below : \A y \in Below : ~(<<y, z>> \in OpToRel(<, Nat))
    BY <1>1, NatLessThanWellFounded, WFMin
  <1>3. \A y \in Below : y < z => <<y, z>> \in OpToRel(<, Nat)
    BY <1>1 DEF OpToRel
  <1>4. \A y \in Below : ~(y < z)
    BY <1>2, <1>3, Zenon
  <1>5. PICK x \in S : z = n - x
    OBVIOUS
  <1>6. \A y \in S : ~(n - y < n - x)
    BY <1>4, <1>5
  <1> QED
    BY <1>6

(* take(n) of the sorted slots takes at most n. *)
LEMMA LowestFew ==
    ASSUME NEW S, S \subseteq AllSlots, NEW n \in Nat
    PROVE  Lowest(S, n) \subseteq S /\ Cardinality(Lowest(S, n)) <= n
  <1> DEFINE L == Lowest(S, n)
  <1>1. L \subseteq S
    BY DEF Lowest
  <1>2. CASE L = {}
    BY <1>1, <1>2, FS_EmptySet
  <1>3. CASE L # {}
    <2>1. L \subseteq 0..U32Max /\ U32Max \in Nat
      BY <1>1, SlotFacts, SupervisorAssumption
    <2>2. PICK m \in L : \A y \in L : y <= m
      BY <1>3, <2>1, GreatestNatural
    <2> DEFINE Under == {t \in S : t < m}
    <2>3. L \ {m} \subseteq Under
      BY <1>1, <2>1, <2>2
    <2>4. Cardinality(Under) < n
      BY <2>2 DEF Lowest
    <2>5. IsFiniteSet(L) /\ Under \subseteq AllSlots
      BY <1>1, CountSlots
    <2>6. Cardinality(L \ {m}) = Cardinality(L) - 1
      BY <2>2, <2>5, FS_RemoveElement
    <2>7. Cardinality(L \ {m}) <= Cardinality(Under)
      BY <2>3, <2>5, CountFewer
    <2>8. Cardinality(L) \in Nat /\ Cardinality(Under) \in Nat
      BY <1>1, <2>5, CountSlots
    <2> HIDE DEF L, Under
    <2>9. Cardinality(L) <= n
      BY <2>4, <2>6, <2>7, <2>8
    <2> QED
      BY <1>1, <2>9 DEF L
  <1> QED
    BY <1>2, <1>3

-----------------------------------------------------------------------------
(* What reconcile() computes from what it has read. *)

LEMMA QueuedType ==
    ASSUME cached \in [Labels -> 0..MaxQueue], NEW p \in PoolIds
    PROVE  Queued(p) \in 0..MaxQueue
  <1> DEFINE Q == {cached[l] : l \in Pools[p].labels}
  <1>1. Pools[p].labels # {} /\ Pools[p].labels \subseteq Labels
    BY SupervisorAssumption DEF ValidPools, Labels
  <1>2. Q # {} /\ Q \subseteq 0..MaxQueue
    BY <1>1
  <1>3. \E q \in Q : \A r \in Q : r <= q
    BY <1>2, GreatestNatural, SupervisorAssumption
  <1>4. \E q \in Q : \A l \in Pools[p].labels : cached[l] <= q
    BY <1>3
  <1>5. Queued(p) \in Q
    BY <1>4 DEF Queued
  <1> QED
    BY <1>2, <1>5

LEMMA HeadroomType ==
    ASSUME NEW host \in Hosts
    PROVE  HeadroomVms(MemAvailable(host), MinAvail, BusyReserve) \in 0..U32Max
  <1>1. /\ MemAvailable(host) \in Nat /\ MinAvail \in Nat /\ BusyReserve \in Nat
        /\ U32Max \in Nat
    BY ResourcesAssumption, SupervisorAssumption DEF MemAvailable, Reading
  <1>2. /\ Larger(MemAvailable(host) - MinAvail, 0) \in Nat
        /\ Larger(BusyReserve, 1) \in Nat \ {0}
    BY <1>1 DEF Larger
  <1>3. \A a \in Nat, b \in Nat \ {0} : (a \div b) \in Nat
    OBVIOUS
  <1>4. \A a \in Nat : a % (U32Max + 1) \in 0..U32Max
    BY <1>1
  <1> QED
    BY <1>2, <1>3, <1>4 DEF HeadroomVms

(* The counts of a pool.  Every unit of the pool that list_active showed   *)
(* is counted as present, by its runner or as one still to come online.    *)
LEMMA PoolCounts ==
    ASSUME active \subseteq AllSlots, NEW p \in PoolIds
    PROVE  /\ Cardinality(BusyOf(p)) \in Nat
           /\ Present(p) \in Nat
           /\ Cardinality(ActiveOf(p)) <= Present(p)
  <1> DEFINE I == IdleOf(p)
             B == BusyOf(p)
             A == ActiveOf(p)
             O == A \ OnlineSlots(p)
  <1>1. I \subseteq AllSlots /\ B \subseteq AllSlots /\ A \subseteq AllSlots
    BY DEF IdleOf, BusyOf, ActiveOf, Mine
  <1>2. A \subseteq (I \union B) \union O
    BY DEF OnlineSlots, IdleOf, BusyOf, Online
  <1> HIDE DEF I, B, A
  <1>3. /\ IsFiniteSet(I) /\ IsFiniteSet(B) /\ IsFiniteSet(O)
        /\ IsFiniteSet(I \union B)
        /\ Cardinality(I) \in Nat /\ Cardinality(B) \in Nat
        /\ Cardinality(A) \in Nat /\ Cardinality(O) \in Nat
        /\ Cardinality(I \cap B) \in Nat
        /\ Cardinality((I \union B) \cap O) \in Nat
    BY <1>1, CountSlots
  <1>4. Cardinality(A) <= Cardinality((I \union B) \union O)
    BY <1>1, <1>2, CountFewer
  <1>5. Cardinality(I \union B)
          = Cardinality(I) + Cardinality(B) - Cardinality(I \cap B)
    BY <1>3, FS_Union
  <1>6. Cardinality((I \union B) \union O)
          = Cardinality(I \union B) + Cardinality(O) - Cardinality((I \union B) \cap O)
    BY <1>3, FS_Union
  <1>7. Cardinality(A) <= Cardinality(I) + Cardinality(B) + Cardinality(O)
    BY <1>3, <1>4, <1>5, <1>6
  <1>8. Present(p) = Cardinality(I) + Cardinality(B) + Cardinality(O)
    BY DEF Present, I, B, A
  <1> QED
    BY <1>3, <1>7, <1>8 DEF B, A

LEMMA WantedType ==
    ASSUME TypeOK, NEW p \in PoolIds
    PROVE  Wanted(p) \in 0..U32Max
  <1>1. Cardinality(BusyOf(p)) \in Nat /\ Queued(p) \in Nat
    BY PoolCounts, QueuedType, SupervisorAssumption DEF TypeOK
  <1>2. /\ Wanted(p) \in Pools[p].min_warm .. Pools[p].max
        /\ Pools[p].max \in 1..U32Max /\ Pools[p].min_warm \in 0..Pools[p].max
    BY <1>1, WantedInBounds, SupervisorAssumption DEF ValidPools
  <1> QED
    BY <1>2, SupervisorAssumption

-----------------------------------------------------------------------------
(* Types. *)

(* The slots being launched, or considered for stopping, are those of the  *)
(* pool that is being reconciled.                                          *)
PoolAtHand ==
    pc \in {"launch", "stop"} => pool \in PoolIds /\ todo \subseteq Slots(pool)

LEMMA PlanTypes ==
    ASSUME TypeOK, PlanPool
    PROVE  TypeOK' /\ PoolAtHand'
  <1>1. pool \in PoolIds /\ pool' = pool
    BY DEF PlanPool
  <1>2. want' \in 0..U32Max
    BY <1>1, WantedType DEF PlanPool
  <1>3. todo' \subseteq Slots(pool) /\ todo' \subseteq AllSlots
    <2>1. \A n : Lowest(Slots(pool) \ active, n) \subseteq Slots(pool)
      BY DEF Lowest
    <2>2. Slots(pool) \subseteq AllSlots
      BY <1>1, SlotFacts
    <2> QED
      BY <2>1, <2>2 DEF PlanPool, ActiveOf
  <1>4. excess' \in Nat
    <2>0. /\ active \subseteq AllSlots
          /\ U32Max \in Nat
      BY SupervisorAssumption DEF TypeOK
    <2>1. Wanted(pool) - Present(pool) \in Int
      <3>1. Wanted(pool) \in 0..U32Max
        BY <1>1, WantedType
      <3>2. Present(pool) \in Nat
        BY <1>1, <2>0, PoolCounts
      <3> QED
        BY ONLY <2>0, <3>1, <3>2
    <2> QED
      BY <2>1 DEF PlanPool, ExcessOf
  <1>5. pc' \in {"launch", "stop"}
    BY DEF PlanPool
  <1>6. UNCHANGED <<worldVars, budget, stateVars, seen, active, blind, blocked,
                    headroom, launched, starts, pool, age>>
    BY DEF PlanPool
  <1>7. TypeOK'
    BY <1>2, <1>3, <1>4, <1>5, <1>6
    DEF TypeOK, worldVars, budget, stateVars, starts
  <1> QED
    BY <1>1, <1>3, <1>7 DEF PoolAtHand

LEMMA FaultsType ==
    ASSUME TypeOK, Fault \/ NoFault
    PROVE  faults' \in 0..MaxFaults
  <1>1. MaxFaults \in Nat /\ faults \in 0..MaxFaults
    BY SupervisorAssumption DEF TypeOK
  <1> QED
    BY <1>1 DEF Fault, NoFault

LEMMA UnitCalls ==
    ASSUME TypeOK, NEW s \in AllSlots,
           (\E ok \in BOOLEAN : RunTransient(s, ok)) \/ StopUnit(s)
    PROVE  /\ unit' \in [AllSlots -> {"none", "active", "stopping", "failed"}]
           /\ faults' \in 0..MaxFaults
  <1>1. Fault \/ NoFault
    BY DEF RunTransient, StopUnit
  <1>2. unit' \in [AllSlots -> {"none", "active", "stopping", "failed"}]
    BY DEF TypeOK, RunTransient, StopUnit, WithReset
  <1> QED
    BY <1>1, <1>2, FaultsType

LEMMA QueueMoves ==
    ASSUME TypeOK, NEW l \in Labels, NEW n \in 0..MaxQueue,
           queue' = [queue EXCEPT ![l] = n]
    PROVE  queue' \in [Labels -> 0..MaxQueue]
  BY DEF TypeOK

(* Workers, runners, jobs: nothing of the cycle's changes. *)
LEMMA WorldTypes ==
    ASSUME TypeOK, PoolAtHand, WorldStep
    PROVE  TypeOK' /\ PoolAtHand'
  <1>1. MaxJobs \in Nat /\ MaxQueue \in Nat /\ IdleTimeout \in Nat
    BY SupervisorAssumption
  <1>2. UNCHANGED <<pc, cycleVars, cached, cycle, idleSince>>
    BY DEF WorldStep, WorkerLives, Sweep, Register, Connect, TakeJob, FinishJob,
           WorkerFails, WorkerKilled, StopEnds, JobQueued, stateVars
  <1>3. faults' \in 0..MaxFaults
    <2>1. Fault \/ NoFault
      BY DEF WorldStep, WorkerLives, Sweep, Register, Connect, TakeJob, FinishJob,
             WorkerFails, WorkerKilled, StopEnds, JobQueued, budget, NoFault
    <2> QED
      BY <2>1, FaultsType
  <1>4. jobs' \in 0..MaxJobs
    <2>1. UNCHANGED jobs \/ (jobs < MaxJobs /\ jobs' = jobs + 1)
      BY DEF WorldStep, WorkerLives, Sweep, Register, Connect, TakeJob, FinishJob,
             WorkerFails, WorkerKilled, StopEnds, JobQueued, budget
    <2> QED
      BY <1>1, <2>1 DEF TypeOK
  <1>5. queue' \in [Labels -> 0..MaxQueue]
    <2>1. \/ UNCHANGED queue
          \/ \E s \in AllSlots : TakeJob(s)
          \/ JobQueued
      BY DEF WorldStep, WorkerLives, Sweep, Register, Connect, FinishJob,
             WorkerFails, WorkerKilled, StopEnds
    <2>2. CASE UNCHANGED queue
      BY <2>2 DEF TypeOK
    <2>3. CASE \E s \in AllSlots : TakeJob(s)
      <3>1. PICK s \in AllSlots : TakeJob(s)
        BY <2>3
      <3>2. PoolOf(s) \in PoolIds
        BY <3>1 DEF PoolOf, AllSlots
      <3>3. PICK l \in Pools[PoolOf(s)].labels :
                queue[l] > 0 /\ queue' = [queue EXCEPT ![l] = queue[l] - 1]
        BY <3>1 DEF TakeJob
      <3>4. l \in Labels
        BY <3>2 DEF Labels
      <3>5. queue[l] \in 0..MaxQueue
        BY <3>4 DEF TypeOK
      <3>6. queue[l] - 1 \in 0..MaxQueue
        BY <1>1, <3>3, <3>5
      <3> QED
        BY <3>3, <3>4, <3>6, QueueMoves
    <2>4. CASE JobQueued
      <3>1. PICK l \in Labels :
                queue[l] < MaxQueue /\ queue' = [queue EXCEPT ![l] = queue[l] + 1]
        BY <2>4 DEF JobQueued
      <3>2. queue[l] \in 0..MaxQueue
        BY DEF TypeOK
      <3>3. queue[l] + 1 \in 0..MaxQueue
        BY <1>1, <3>1, <3>2
      <3> QED
        BY <3>1, <3>3, QueueMoves
    <2> QED
      BY <2>1, <2>2, <2>3, <2>4
  <1> USE <1>1
      DEF TypeOK, budget, stateVars, WorldStep, WorkerLives, Sweep, Register,
          Connect, TakeJob, FinishJob, WorkerFails, WorkerKilled, StopEnds, JobQueued
  <1>6. unit' \in [AllSlots -> {"none", "active", "stopping", "failed"}]
    OBVIOUS
  <1>7. orphan' \in [AllSlots -> BOOLEAN] /\ renamed' \in [AllSlots -> BOOLEAN]
    OBVIOUS
  <1>8. age' \in [AllSlots -> 0..IdleTimeout]
    <2>1. UNCHANGED age \/ \E s \in AllSlots : age' = [age EXCEPT ![s] = 0]
      OBVIOUS
    <2>2. age \in [AllSlots -> 0..IdleTimeout] /\ 0 \in 0..IdleTimeout
      OBVIOUS
    <2> QED
      BY ONLY <2>1, <2>2
  <1>9. runner' \in [AllSlots -> {"none", "offline", "idle", "busy"}]
    <2>1. UNCHANGED runner \/ \E s \in AllSlots :
              \/ runner' = [runner EXCEPT ![s] = "none"]
              \/ runner' = [runner EXCEPT ![s] = "offline"]
              \/ runner' = [runner EXCEPT ![s] = "idle"]
              \/ runner' = [runner EXCEPT ![s] = "busy"]
      OBVIOUS
    <2> QED
      BY ONLY TypeOK, <2>1 DEF TypeOK
  <1> QED
    BY ONLY TypeOK, PoolAtHand, <1>2, <1>3, <1>4, <1>5, <1>6, <1>7, <1>8, <1>9
    DEF TypeOK, PoolAtHand, cycleVars, starts

LEMMA EndCycleTypes ==
    ASSUME EndCycle
    PROVE  /\ seen' \in [AllSlots -> {"none", "offline", "idle", "busy"}]
           /\ active' \subseteq AllSlots /\ blind' \in BOOLEAN /\ blocked' \in BOOLEAN
           /\ headroom' \in 0..U32Max /\ launched' \in Nat
           /\ pool' \in 1..Len(Pools) + 1
           /\ want' \in 0..U32Max /\ todo' \subseteq AllSlots /\ excess' \in Nat
           /\ started' \subseteq AllSlots /\ unanswered' \subseteq AllSlots
  <1>1. U32Max \in Nat /\ Len(Pools) \in Nat
    BY SupervisorAssumption, PoolsAreSequence
  <1>2. blind' \in BOOLEAN /\ blocked' \in BOOLEAN
    BY DEF EndCycle
  <1>3. /\ seen' \in [AllSlots -> {"none", "offline", "idle", "busy"}]
        /\ active' \subseteq AllSlots /\ todo' \subseteq AllSlots
        /\ started' \subseteq AllSlots /\ unanswered' \subseteq AllSlots
    BY DEF EndCycle, NothingSeen
  <1>4. /\ headroom' \in 0..U32Max /\ launched' \in Nat
        /\ pool' \in 1..Len(Pools) + 1
        /\ want' \in 0..U32Max /\ excess' \in Nat
    BY <1>1 DEF EndCycle
  <1> QED
    BY <1>2, <1>3, <1>4

(* reconcile() and the loop around it. *)
LEMMA ReconcileTypes ==
    ASSUME TypeOK, PoolAtHand, Reconcile \/ Restart
    PROVE  TypeOK' /\ PoolAtHand'
  <1>0. /\ IdleTimeout \in Nat /\ MaxQueue \in Nat /\ Len(Pools) \in Nat
        /\ U32Max \in Nat /\ QueuedEvery \in Nat
    BY SupervisorAssumption, PoolsAreSequence
  <1> USE DEF worldVars, budget, stateVars, cycleVars, starts
  <1>1. CASE ListRunners
    <2>1. faults' \in 0..MaxFaults
      BY <1>1, FaultsType DEF ListRunners
    <2>2. idleSince' \in [AllSlots -> {Unset} \union 0..IdleTimeout]
      <3>1. \A s \in AllSlots : IdleEntry(s) \in {Unset} \union 0..IdleTimeout
        BY <1>0 DEF TypeOK, IdleEntry, Unset, Larger
      <3> QED
        BY <1>1, <3>1 DEF ListRunners, TypeOK
    <2>3. /\ renamed' \in [AllSlots -> BOOLEAN]
          /\ seen' \in [AllSlots -> {"none", "offline", "idle", "busy"}]
      BY <1>1 DEF ListRunners, TypeOK
    <2>4. pc' \in {"resetFailed", "sleep"}
          /\ UNCHANGED <<worldVars, jobs, cached, cycle, active, blind, blocked,
                         headroom, launched, starts, pool, want, todo, excess, age>>
      BY <1>1 DEF ListRunners
    <2> QED
      BY ONLY TypeOK, <2>1, <2>2, <2>3, <2>4 DEF TypeOK, PoolAtHand, worldVars, starts
  <1>2. CASE ResetFailed
    <2>1. faults' \in 0..MaxFaults
      BY <1>2, FaultsType DEF ResetFailed
    <2>2. unit' \in [AllSlots -> {"none", "active", "stopping", "failed"}]
      BY <1>2 DEF ResetFailed, WithReset, TypeOK
    <2>3. pc' = "queued"
          /\ UNCHANGED <<runner, orphan, queue, jobs, stateVars, cycleVars, age>>
      BY <1>2 DEF ResetFailed
    <2> QED
      BY ONLY TypeOK, <2>1, <2>2, <2>3
      DEF TypeOK, PoolAtHand, stateVars, cycleVars, starts
  <1>3. CASE ScanQueued
    <2>1. faults' \in 0..MaxFaults
      BY <1>3, FaultsType DEF ScanQueued
    <2>2. cached' \in [Labels -> 0..MaxQueue]
      BY <1>3 DEF ScanQueued, Undercounts, TypeOK
    <2>3. cycle' \in 0..Larger(QueuedEvery, 1) - 1
      <3>1. Larger(QueuedEvery, 1) \in Nat \ {0}
        BY <1>0 DEF Larger
      <3>2. cycle + 1 \in Nat
        BY <3>1 DEF TypeOK
      <3>3. (cycle + 1) % Larger(QueuedEvery, 1) \in 0..Larger(QueuedEvery, 1) - 1
        BY <3>1, <3>2
      <3> QED
        BY <1>3, <3>3 DEF ScanQueued
    <2>4. pc' = "listActive"
          /\ UNCHANGED <<worldVars, jobs, idleSince, renamed, cycleVars, age>>
      BY <1>3 DEF ScanQueued
    <2> QED
      BY ONLY TypeOK, <2>1, <2>2, <2>3, <2>4
      DEF TypeOK, PoolAtHand, worldVars, cycleVars, starts
  <1>4. CASE ListActive
    <2>1. faults' \in 0..MaxFaults
      BY <1>4, FaultsType DEF ListActive
    <2>2. active' \subseteq AllSlots /\ blind' \in BOOLEAN
      BY <1>4 DEF ListActive, ActiveUnits
    <2>3. pc' = "readHost"
          /\ UNCHANGED <<worldVars, jobs, stateVars, seen, blocked, headroom,
                         launched, starts, pool, want, todo, excess, age>>
      BY <1>4 DEF ListActive
    <2> QED
      BY ONLY TypeOK, <2>1, <2>2, <2>3
      DEF TypeOK, PoolAtHand, worldVars, stateVars, starts
  <1>5. CASE ReadHost
    <2>1. headroom' \in 0..U32Max
      BY <1>5, HeadroomType DEF ReadHost
    <2>2. blocked' \in BOOLEAN
      BY <1>5 DEF ReadHost, Blocked, Decide
    <2>3. pc' = "plan"
          /\ UNCHANGED <<worldVars, budget, stateVars, seen, active, blind,
                         launched, starts, pool, want, todo, excess, age>>
      BY <1>5 DEF ReadHost
    <2> QED
      BY ONLY TypeOK, <2>1, <2>2, <2>3
         DEF TypeOK, PoolAtHand, worldVars, budget, stateVars, starts
  <1>6. CASE PlanPool
    BY <1>6, PlanTypes
  <1>7. CASE LaunchOne
    <2>1. PICK s \in todo :
              /\ todo' = todo \ {s}
              /\ \/ RunTransient(s, TRUE) /\ launched' = launched + 1
                     /\ headroom' = Larger(headroom - 1, 0)
                 \/ RunTransient(s, FALSE) /\ UNCHANGED <<launched, headroom>>
      BY <1>7 DEF LaunchOne, Lowest
    <2>2. /\ unit' \in [AllSlots -> {"none", "active", "stopping", "failed"}]
          /\ faults' \in 0..MaxFaults
      <3>1. s \in AllSlots
        BY DEF TypeOK
      <3> QED
        BY <2>1, <3>1, UnitCalls
    <2>3. headroom \in 0..U32Max /\ launched \in Nat
      BY DEF TypeOK
    <2>4. headroom' \in 0..U32Max /\ launched' \in Nat
      <3>1. Larger(headroom - 1, 0) \in 0..U32Max /\ launched + 1 \in Nat
        BY <1>0, <2>3 DEF Larger
      <3> QED
        BY <2>1, <2>3, <3>1
    <2>5. pc = "launch"
          /\ UNCHANGED <<runner, orphan, queue, jobs, stateVars, pc, seen, active,
                         blind, blocked, pool, want, excess, age>>
      BY <1>7 DEF LaunchOne
    <2>6. started' \subseteq AllSlots /\ unanswered' \subseteq AllSlots
      BY <1>7 DEF LaunchOne, Started, TypeOK
    <2> QED
      BY ONLY TypeOK, PoolAtHand, <2>1, <2>2, <2>4, <2>5, <2>6
      DEF TypeOK, PoolAtHand, stateVars, starts
  <1>8. CASE StopOne
    <2>1. PICK s \in todo :
              /\ todo' = todo \ {s}
              /\ \/ StopUnit(s) /\ excess' = excess - 1
                 \/ UNCHANGED <<unit, faults, excess>>
      BY <1>8 DEF StopOne, Oldest
    <2>2. /\ unit' \in [AllSlots -> {"none", "active", "stopping", "failed"}]
          /\ faults' \in 0..MaxFaults
      <3>1. s \in AllSlots
        BY DEF TypeOK
      <3>2. CASE StopUnit(s)
        BY <3>1, <3>2, UnitCalls
      <3> QED
        BY <2>1, <3>2 DEF TypeOK
    <2>3. excess \in Nat /\ excess > 0
      BY <1>8 DEF TypeOK, StopOne
    <2>4. excess' \in Nat
      BY <2>1, <2>3
    <2>5. pc = "stop"
          /\ UNCHANGED <<runner, orphan, queue, jobs, stateVars, pc, seen, active,
                         blind, blocked, headroom, launched, starts, pool, want, age>>
      BY <1>8 DEF StopOne
    <2> QED
      BY ONLY TypeOK, PoolAtHand, <2>1, <2>2, <2>4, <2>5
      DEF TypeOK, PoolAtHand, stateVars, starts
  <1>9. CASE NextPool
    <2>1. pool' \in 1..Len(Pools) + 1
      BY <1>0, <1>9 DEF NextPool, PoolAtHand, PoolIds
    <2>2. /\ want' = 0 /\ todo' = {} /\ excess' = 0 /\ pc' = "plan"
          /\ UNCHANGED <<worldVars, budget, stateVars, seen, active, blind, blocked,
                         headroom, launched, starts, age>>
      BY <1>9 DEF NextPool
    <2> QED
      BY ONLY TypeOK, <1>0, <2>1, <2>2
      DEF TypeOK, PoolAtHand, worldVars, budget, stateVars, starts
  <1>10. CASE WriteStatus
    <2>1. EndCycle /\ pc' = "sleep" /\ UNCHANGED <<worldVars, budget, stateVars, age>>
      BY <1>10 DEF WriteStatus
    <2> QED
      BY ONLY TypeOK, <2>1, EndCycleTypes
      DEF TypeOK, PoolAtHand, worldVars, budget, stateVars, starts
  <1>11. CASE Sleep
    <2>1. \A f : \A s \in AllSlots :
              f[s] \in {Unset} \union 0..IdleTimeout =>
                  Aged(f)[s] \in {Unset} \union 0..IdleTimeout
                  /\ (f[s] # Unset => Aged(f)[s] \in 0..IdleTimeout)
      BY <1>0 DEF Aged, Unset, Smaller
    <2>2. idleSince' \in [AllSlots -> {Unset} \union 0..IdleTimeout]
      <3>1. \A s \in AllSlots : idleSince[s] \in {Unset} \union 0..IdleTimeout
        BY DEF TypeOK
      <3>2. idleSince' = [s \in AllSlots |-> Aged(idleSince)[s]]
        BY <1>11 DEF Sleep, Aged
      <3> QED
        BY <2>1, <3>1, <3>2
    <2>3. age' \in [AllSlots -> 0..IdleTimeout]
      <3>1. \A s \in AllSlots : age[s] \in 0..IdleTimeout /\ age[s] # Unset
        BY <1>0 DEF TypeOK, Unset
      <3>2. \A s \in AllSlots : Aged(age)[s] \in 0..IdleTimeout
        BY <2>1, <3>1
      <3> QED
        BY <1>0, <1>11, <3>2 DEF Sleep
    <2>4. /\ EndCycle /\ pc' = "listRunners"
          /\ UNCHANGED <<worldVars, budget, renamed, cached, cycle>>
      BY <1>11 DEF Sleep
    <2> QED
      BY ONLY TypeOK, <2>2, <2>3, <2>4, EndCycleTypes
      DEF TypeOK, PoolAtHand, worldVars, budget, starts
  <1>12. CASE Restart
    <2>1. faults' \in 0..MaxFaults
      BY <1>12, FaultsType DEF Restart
    <2>2. /\ cached' \in [Labels -> 0..MaxQueue]
          /\ cycle' \in 0..Larger(QueuedEvery, 1) - 1
          /\ idleSince' \in [AllSlots -> {Unset} \union 0..IdleTimeout]
          /\ renamed' \in [AllSlots -> BOOLEAN]
      BY <1>0, <1>12 DEF Restart, NoQueue, Larger
    <2>3. EndCycle /\ pc' = "listRunners" /\ UNCHANGED <<worldVars, jobs, age>>
      BY <1>12 DEF Restart
    <2> QED
      BY ONLY TypeOK, <2>1, <2>2, <2>3, EndCycleTypes
      DEF TypeOK, PoolAtHand, worldVars, starts
  <1> QED
    BY <1>1, <1>2, <1>3, <1>4, <1>5, <1>6, <1>7, <1>8, <1>9, <1>10, <1>11, <1>12
    DEF Reconcile

LEMMA TypeStep == TypeOK /\ PoolAtHand /\ [Next]_vars => TypeOK' /\ PoolAtHand'
  <1> SUFFICES ASSUME TypeOK, PoolAtHand, [Next]_vars
               PROVE  TypeOK' /\ PoolAtHand'
    OBVIOUS
  <1>1. CASE UNCHANGED vars
    BY <1>1 DEF TypeOK, PoolAtHand, vars, worldVars, budget, stateVars, cycleVars, starts
  <1> QED
    BY <1>1, WorldTypes, ReconcileTypes DEF Next

(* Every variable of the supervisor and of its world keeps its type; a     *)
(* cycle never works on the slots of another pool than the one at hand.    *)
THEOREM SupervisorTypes == SafetySpec => []TypeOK /\ []PoolAtHand
  <1>1. Init => TypeOK /\ PoolAtHand
    <2> SUFFICES ASSUME Init
                 PROVE  TypeOK /\ PoolAtHand
      OBVIOUS
    <2>1. /\ MaxFaults \in Nat /\ MaxJobs \in Nat /\ MaxQueue \in Nat
          /\ IdleTimeout \in Nat /\ U32Max \in Nat /\ Len(Pools) \in Nat
          /\ 0 \in 0..Larger(QueuedEvery, 1) - 1
      BY SupervisorAssumption, PoolsAreSequence DEF Larger
    <2>2. blind \in BOOLEAN /\ blocked \in BOOLEAN
      BY DEF Init
    <2> QED
      BY <2>1, <2>2 DEF Init, TypeOK, PoolAtHand, NoQueue, NothingSeen
  <1> QED
    BY <1>1, TypeStep, PTL DEF SafetySpec

-----------------------------------------------------------------------------
(* The launch budget of a cycle. *)

LEMMA PlannedFew ==
    ASSUME TypeOK, PlanPool, launched <= MaxLaunch, todo' # {}, pc' = "launch"
    PROVE  /\ Cardinality(todo') \in Nat
           /\ Cardinality(todo') <= Wanted(pool) - Present(pool)
           /\ Cardinality(todo') <= MaxLaunch - launched
  <1> DEFINE deficit == Wanted(pool) - Present(pool)
             free == Slots(pool) \ active
  <1>1. pool \in PoolIds
    BY DEF PlanPool
  <1>2. deficit \in Int
    <2>1. active \subseteq AllSlots /\ U32Max \in Nat
      BY SupervisorAssumption DEF TypeOK
    <2>2. Present(pool) \in Nat
      BY <1>1, <2>1, PoolCounts
    <2>3. Wanted(pool) \in Nat
      BY <1>1, <2>1, WantedType
    <2> QED
      BY <2>2, <2>3
  <1>3. deficit > 0 /\ todo' = Lowest(free, CanLaunch(deficit))
    BY DEF PlanPool
  <1>4. launched \in Nat /\ headroom \in Nat /\ MaxLaunch \in Nat
    BY SupervisorAssumption DEF TypeOK
  <1> HIDE DEF deficit
  <1>5. /\ CanLaunch(deficit) \in Nat
        /\ CanLaunch(deficit) <= deficit
        /\ CanLaunch(deficit) <= MaxLaunch - launched
    BY <1>2, <1>3, <1>4 DEF CanLaunch, Smaller, Larger
  <1>6. free \subseteq AllSlots
    BY <1>1, SlotFacts
  <1>7. todo' \subseteq AllSlots /\ Cardinality(todo') <= CanLaunch(deficit)
    BY <1>3, <1>5, <1>6, LowestFew
  <1>8. Cardinality(todo') \in Nat
    BY <1>7, CountSlots
  <1> QED
    BY <1>2, <1>4, <1>5, <1>7, <1>8 DEF deficit

LEMMA LaunchOneTakes ==
    ASSUME TypeOK, LaunchOne
    PROVE  \E s \in todo :
              /\ todo' = todo \ {s}
              /\ Cardinality(todo) \in Nat
              /\ Cardinality(todo') = Cardinality(todo) - 1
              /\ launched' \in {launched, launched + 1}
              /\ \E ok \in BOOLEAN : RunTransient(s, ok)
  <1>1. PICK s \in todo :
            /\ todo' = todo \ {s}
            /\ launched' \in {launched, launched + 1}
            /\ \E ok \in BOOLEAN : RunTransient(s, ok)
    BY DEF LaunchOne, Lowest
  <1>2. IsFiniteSet(todo) /\ Cardinality(todo) \in Nat
    BY CountSlots DEF TypeOK
  <1>3. Cardinality(todo \ {s}) = Cardinality(todo) - 1
    BY <1>2, FS_RemoveElement
  <1> QED
    BY <1>1, <1>2, <1>3

(* The counter reconcile() keeps, with the launches still to come.         *)
CounterBounded == launched + Pending <= MaxLaunch

LEMMA CounterStep ==
    TypeOK /\ TypeOK' /\ CounterBounded /\ [Next]_vars => CounterBounded'
  <1> SUFFICES ASSUME TypeOK, TypeOK', CounterBounded, [Next]_vars
               PROVE  CounterBounded'
    OBVIOUS
  <1>1. /\ launched \in Nat /\ launched' \in Nat /\ MaxLaunch \in Nat
        /\ Cardinality(todo) \in Nat
    BY CountSlots, SupervisorAssumption DEF TypeOK
  <1>2. launched <= MaxLaunch
    BY <1>1 DEF CounterBounded, Pending
  <1>3. CASE PlanPool
    <2>1. launched' = launched
      BY <1>3 DEF PlanPool
    <2>2. CASE pc' = "launch" /\ todo' # {}
      BY <1>1, <1>2, <1>3, <2>1, <2>2, PlannedFew DEF CounterBounded, Pending
    <2>3. CASE pc' = "launch" /\ todo' = {}
      BY <1>1, <1>2, <2>1, <2>3, FS_EmptySet DEF CounterBounded, Pending
    <2>4. CASE pc' # "launch"
      BY <1>1, <1>2, <2>1, <2>4 DEF CounterBounded, Pending
    <2> QED
      BY <2>2, <2>3, <2>4
  <1>4. CASE LaunchOne
    <2>1. pc = "launch" /\ pc' = "launch"
      BY <1>4 DEF LaunchOne
    <2>2. /\ Cardinality(todo') = Cardinality(todo) - 1
          /\ launched' <= launched + 1
      BY <1>1, <1>4, LaunchOneTakes
    <2> QED
      BY <1>1, <2>1, <2>2 DEF CounterBounded, Pending
  <1>5. CASE UNCHANGED vars \/ WorldStep
    <2>1. UNCHANGED <<pc, launched, todo>>
      BY <1>5 DEF vars, WorldStep, cycleVars
    <2> QED
      BY <2>1 DEF CounterBounded, Pending
  <1>6. CASE Restart \/ (Reconcile /\ ~PlanPool /\ ~LaunchOne)
    <2>1. /\ pc' # "launch"
          /\ launched' = launched \/ launched' = 0
      BY <1>6 DEF Restart, Reconcile, ListRunners, ResetFailed, ScanQueued, ListActive,
                  ReadHost, StopOne, NextPool, WriteStatus, Sleep, EndCycle, cycleVars
    <2>2. launched + 0 <= MaxLaunch /\ 0 + 0 <= MaxLaunch
      BY <1>1, <1>2
    <2>3. launched' + 0 <= MaxLaunch
      BY ONLY <2>1, <2>2, Zenon
    <2>4. CounterBounded' = (launched' + 0 <= MaxLaunch)
      BY ONLY <2>1 DEF CounterBounded, Pending
    <2> QED
      BY ONLY <2>3, <2>4
  <1> QED
    BY <1>3, <1>4, <1>5, <1>6 DEF Next

(* The counter's bound is an invariant. *)
LEMMA CounterInvariant == SafetySpec => []CounterBounded
  <1>1. Init => CounterBounded
    BY SupervisorAssumption DEF Init, CounterBounded, Pending
  <1> QED
    BY <1>1, CounterStep, SupervisorTypes, PTL DEF SafetySpec

(* A launch makes no unit active but its own. *)
LEMMA LaunchStartsOne ==
    ASSUME TypeOK, NEW s \in AllSlots, \E ok \in BOOLEAN : RunTransient(s, ok),
           NEW t \in AllSlots, unit'[t] = "active", t # s
    PROVE  unit[t] = "active"
  BY DEF RunTransient, WithReset, TypeOK

(* No slot of a pool whose launches are still to come has been started.    *)
NotYetStarted(p) == started \cap Slots(p) = {}

UntouchedPools ==
    \A p \in PoolIds :
        p > pool \/ (p = pool /\ pc \notin {"launch", "stop"}) => NotYetStarted(p)

(* What the counter knows of the workers started, and each pool's share.   *)
CountedStarts == Cardinality(started \ unanswered) <= launched

PoolPending(p) == IF p = pool THEN Pending ELSE 0

PoolShares ==
    \A p \in PoolIds :
        Cardinality(started \cap Slots(p)) + PoolPending(p) <= MaxLaunch

StartsInv == UntouchedPools /\ CountedStarts /\ PoolShares

(* A launch starts at most the unit it is for, of the pool at hand, and    *)
(* either spends budget or is one that gave no answer.                     *)
LEMMA LaunchOneStarts ==
    ASSUME TypeOK, PoolAtHand, LaunchOne
    PROVE  \E s \in Slots(pool) :
              /\ started' \subseteq started \union {s}
              /\ \/ launched' = launched + 1 /\ UNCHANGED unanswered
                 \/ /\ launched' = launched
                    /\ started' \ unanswered' \subseteq started \ unanswered
  <1>1. pc = "launch" /\ todo \subseteq Slots(pool) /\ todo \subseteq AllSlots
    BY DEF LaunchOne, PoolAtHand, TypeOK
  <1>2. PICK s \in todo :
            \/ /\ RunTransient(s, TRUE) /\ launched' = launched + 1
               /\ UNCHANGED unanswered
            \/ /\ RunTransient(s, FALSE) /\ launched' = launched
               /\ unanswered' = unanswered \union Started
    BY DEF LaunchOne, Lowest
  <1>3. started' = started \union Started
    BY DEF LaunchOne
  <1>4. \E ok \in BOOLEAN : RunTransient(s, ok)
    BY <1>2
  <1>5. Started \subseteq {s}
    BY <1>1, <1>4, LaunchStartsOne DEF Started
  <1> QED
    BY <1>1, <1>2, <1>3, <1>5

(* Everything else leaves the history alone, or begins a cycle afresh.     *)
LEMMA StartsFrame ==
    ASSUME [Next]_vars, ~LaunchOne
    PROVE  \/ /\ UNCHANGED <<started, unanswered, launched>>
              /\ \/ UNCHANGED <<pc, pool, todo>>
                 \/ UNCHANGED pool /\ pc' \notin {"launch", "stop"}
                                   /\ pc \notin {"launch", "stop"}
                 \/ UNCHANGED pool /\ pc = "stop" /\ pc' = "stop"
                 \/ pool' = pool + 1 /\ pc' = "plan"
                 \/ PlanPool /\ UNCHANGED pool /\ pc = "plan"
                             /\ pc' \in {"launch", "stop"}
           \/ EndCycle /\ pc' \in {"listRunners", "sleep"}
  <1> USE DEF cycleVars, starts
  <1>1. CASE WorldStep \/ UNCHANGED vars
    BY <1>1 DEF WorldStep, vars
  <1>2. CASE ListRunners \/ ResetFailed \/ ScanQueued \/ ListActive \/ ReadHost
    BY <1>2 DEF ListRunners, ResetFailed, ScanQueued, ListActive, ReadHost
  <1>3. CASE PlanPool
    BY <1>3 DEF PlanPool
  <1>4. CASE StopOne
    BY <1>4 DEF StopOne
  <1>5. CASE NextPool
    BY <1>5 DEF NextPool
  <1>6. CASE WriteStatus \/ Sleep \/ Restart
    BY <1>6 DEF WriteStatus, Sleep, Restart
  <1> QED
    BY <1>1, <1>2, <1>3, <1>4, <1>5, <1>6 DEF Next, Reconcile

LEMMA UntouchedStep ==
    TypeOK /\ PoolAtHand /\ UntouchedPools /\ [Next]_vars => UntouchedPools'
  <1> SUFFICES ASSUME TypeOK, PoolAtHand, UntouchedPools, [Next]_vars,
                      NEW p \in PoolIds,
                      p > pool' \/ (p = pool' /\ pc' \notin {"launch", "stop"})
               PROVE  started' \cap Slots(p) = {}
    BY DEF UntouchedPools, NotYetStarted
  <1>1. p \in Nat /\ pool \in Nat
    BY PoolsAreSequence DEF PoolIds, TypeOK
  <1>2. CASE LaunchOne
    <2>1. pc = "launch" /\ UNCHANGED <<pc, pool>> /\ pool \in PoolIds
      BY <1>2 DEF LaunchOne, PoolAtHand
    <2>2. PICK s \in Slots(pool) : started' \subseteq started \union {s}
      BY <1>2, LaunchOneStarts
    <2>3. p > pool /\ s \notin Slots(p)
      BY <1>1, <2>1, <2>2, SlotFacts
    <2> QED
      BY <2>2, <2>3 DEF UntouchedPools, NotYetStarted
  <1>3. CASE ~LaunchOne
    <2>1. CASE EndCycle
      BY <2>1 DEF EndCycle
    <2>2. CASE ~EndCycle
      <3>1. /\ UNCHANGED started
            /\ p > pool \/ (p = pool /\ pc \notin {"launch", "stop"})
        BY <1>1, <1>3, <2>2, StartsFrame
      <3> QED
        BY <3>1 DEF UntouchedPools, NotYetStarted
    <2> QED
      BY <2>1, <2>2
  <1> QED
    BY <1>2, <1>3

(* One slot more is at most one more to count. *)
LEMMA CountOneMore ==
    ASSUME NEW S, S \subseteq AllSlots, NEW s \in AllSlots,
           NEW T, T \subseteq S \union {s}
    PROVE  /\ Cardinality(T) \in Nat /\ Cardinality(S) \in Nat
           /\ Cardinality(T) <= Cardinality(S) + 1
  <1>1. IsFiniteSet(S) /\ Cardinality(S) \in Nat
    BY CountSlots
  <1>2. Cardinality(T) <= Cardinality(S \union {s}) /\ S \union {s} \subseteq AllSlots
    BY CountFewer
  <1>3. Cardinality(S \union {s})
          = IF s \in S THEN Cardinality(S) ELSE Cardinality(S) + 1
    BY <1>1, FS_AddElement
  <1>4. Cardinality(T) \in Nat
    BY <1>2, CountSlots
  <1> QED
    BY <1>1, <1>2, <1>3, <1>4

LEMMA CountedStep ==
    TypeOK /\ TypeOK' /\ PoolAtHand /\ CountedStarts /\ [Next]_vars
        => CountedStarts'
  <1> SUFFICES ASSUME TypeOK, TypeOK', PoolAtHand, CountedStarts, [Next]_vars
               PROVE  CountedStarts'
    OBVIOUS
  <1> DEFINE S == started \ unanswered
             T == started' \ unanswered'
  <1>1. /\ S \subseteq AllSlots /\ T \subseteq AllSlots
        /\ Cardinality(S) \in Nat /\ Cardinality(T) \in Nat
        /\ launched \in Nat /\ Cardinality(S) <= launched
    BY CountSlots DEF TypeOK, CountedStarts
  <1>2. CASE LaunchOne
    <2>1. pool \in PoolIds
      BY <1>2 DEF LaunchOne, PoolAtHand
    <2>2. PICK s \in Slots(pool) :
              /\ started' \subseteq started \union {s}
              /\ \/ launched' = launched + 1 /\ UNCHANGED unanswered
                 \/ launched' = launched /\ T \subseteq S
      BY <1>2, LaunchOneStarts
    <2>3. s \in AllSlots
      BY <2>1, SlotFacts
    <2>4. ASSUME launched' = launched + 1, UNCHANGED unanswered
          PROVE  Cardinality(T) <= launched'
      <3>1. T \subseteq S \union {s}
        BY <2>2, <2>4
      <3>2. Cardinality(T) <= Cardinality(S) + 1
        BY <1>1, <2>3, <3>1, CountOneMore
      <3> HIDE DEF S, T
      <3> QED
        BY <1>1, <2>4, <3>2
    <2>5. ASSUME launched' = launched, T \subseteq S
          PROVE  Cardinality(T) <= launched'
      <3>1. Cardinality(T) <= Cardinality(S)
        BY <1>1, <2>5, CountFewer
      <3> HIDE DEF S, T
      <3> QED
        BY <1>1, <2>5, <3>1
    <2> QED
      BY <2>2, <2>4, <2>5 DEF CountedStarts
  <1>3. CASE ~LaunchOne
    <2>1. CASE UNCHANGED <<started, unanswered, launched>>
      BY <2>1 DEF CountedStarts
    <2>2. CASE EndCycle
      <3>1. T = {} /\ launched' = 0
        BY <2>2 DEF EndCycle
      <3> QED
        BY <3>1, FS_EmptySet DEF CountedStarts
    <2> QED
      BY <1>3, <2>1, <2>2, StartsFrame
  <1> QED
    BY <1>2, <1>3

LEMMA SharesStep ==
    TypeOK /\ TypeOK' /\ PoolAtHand /\ CounterBounded /\ UntouchedPools
        /\ PoolShares /\ [Next]_vars
    => PoolShares'
  <1> SUFFICES ASSUME TypeOK, TypeOK', PoolAtHand, CounterBounded,
                      UntouchedPools, PoolShares, [Next]_vars, NEW p \in PoolIds
               PROVE  Cardinality(started' \cap Slots(p)) + PoolPending(p)'
                        <= MaxLaunch
    BY DEF PoolShares
  <1> DEFINE S == started \cap Slots(p)
             T == started' \cap Slots(p)
  <1>1. /\ S \subseteq AllSlots /\ T \subseteq AllSlots
        /\ Cardinality(S) \in Nat /\ Cardinality(T) \in Nat
    BY CountSlots DEF TypeOK
  <1>2. /\ Cardinality(todo) \in Nat /\ Cardinality(todo') \in Nat
        /\ MaxLaunch \in Nat /\ launched \in Nat
        /\ PoolPending(p) \in Nat /\ Pending \in Nat
    BY CountSlots, SupervisorAssumption DEF TypeOK, PoolPending, Pending
  <1>3. Cardinality(S) + PoolPending(p) <= MaxLaunch
    BY DEF PoolShares
  <1>4. launched <= MaxLaunch
    BY <1>2 DEF CounterBounded
  <1>5. CASE LaunchOne
    <2>1. /\ pc = "launch" /\ pc' = "launch" /\ UNCHANGED pool
          /\ pool \in PoolIds
      BY <1>5 DEF LaunchOne, PoolAtHand
    <2>2. PICK s \in Slots(pool) : started' \subseteq started \union {s}
      BY <1>5, LaunchOneStarts
    <2>3. Cardinality(todo') = Cardinality(todo) - 1
      BY <1>5, LaunchOneTakes
    <2>4. CASE p = pool
      <3>1. s \in AllSlots /\ T \subseteq S \union {s}
        BY <2>1, <2>2, SlotFacts
      <3>2. Cardinality(T) <= Cardinality(S) + 1
        BY <1>1, <3>1, CountOneMore
      <3>3. /\ PoolPending(p) = Cardinality(todo)
            /\ PoolPending(p)' = Cardinality(todo')
        BY <2>1, <2>4 DEF PoolPending, Pending
      <3> HIDE DEF S, T
      <3>4. Cardinality(T) + Cardinality(todo') <= MaxLaunch
        BY ONLY <1>1, <1>2, <1>3, <2>3, <3>2, <3>3
      <3> QED
        BY <3>3, <3>4 DEF T
    <2>5. CASE p # pool
      <3>1. T \subseteq S
        BY <2>1, <2>2, <2>5, SlotFacts
      <3>2. Cardinality(T) <= Cardinality(S)
        BY <1>1, <3>1, CountFewer
      <3>3. PoolPending(p) = 0 /\ PoolPending(p)' = 0
        BY <2>1, <2>5 DEF PoolPending
      <3> HIDE DEF S, T
      <3>4. Cardinality(T) + 0 <= MaxLaunch
        BY ONLY <1>1, <1>2, <1>3, <3>2, <3>3
      <3> QED
        BY <3>3, <3>4 DEF T
    <2> QED
      BY <2>4, <2>5
  <1>6. CASE PlanPool /\ p = pool
    <2>1. /\ pc = "plan" /\ UNCHANGED <<started, pool>>
          /\ pc' \in {"launch", "stop"}
      BY <1>6 DEF PlanPool, starts
    <2>2. T = {}
      BY <1>6, <2>1 DEF UntouchedPools, NotYetStarted
    <2>3. Cardinality(T) = 0
      BY <2>2, FS_EmptySet
    <2>4. PoolPending(p)' <= MaxLaunch /\ PoolPending(p)' \in Nat
      <3>1. PoolPending(p)' = IF pc' = "launch" THEN Cardinality(todo') ELSE 0
        BY <1>6, <2>1 DEF PoolPending, Pending
      <3>2. CASE pc' = "launch" /\ todo' # {}
        BY <1>2, <1>4, <1>6, <3>1, <3>2, PlannedFew
      <3>3. CASE pc' # "launch" \/ todo' = {}
        BY <1>2, <3>1, <3>3, FS_EmptySet
      <3> QED
        BY <3>2, <3>3
    <2> HIDE DEF T
    <2> QED
      BY <1>2, <2>3, <2>4 DEF T
  <1>7. CASE PlanPool /\ p # pool
    <2>1. UNCHANGED <<started, pool>>
      BY <1>7 DEF PlanPool, starts
    <2>2. T = S /\ PoolPending(p) = 0 /\ PoolPending(p)' = 0
      BY <1>7, <2>1 DEF PoolPending
    <2> QED
      BY <1>3, <2>2
  <1>8. CASE ~LaunchOne /\ ~PlanPool /\ EndCycle
    <2>1. T = {} /\ todo' = {}
      BY <1>8 DEF EndCycle
    <2>2. Cardinality(T) = 0 /\ PoolPending(p)' = 0
      BY <2>1, FS_EmptySet DEF PoolPending, Pending
    <2> QED
      BY <1>2, <2>2
  <1>9. CASE ~LaunchOne /\ ~PlanPool /\ ~EndCycle
    <2>1. /\ UNCHANGED started
          /\ UNCHANGED <<pc, pool, todo>> \/ pc' # "launch"
      BY <1>9, StartsFrame
    <2>2. CASE UNCHANGED <<pc, pool, todo>>
      <3>1. PoolPending(p)' = PoolPending(p)
        BY <2>2 DEF PoolPending, Pending
      <3> QED
        BY <1>3, <2>1, <3>1
    <2>3. CASE pc' # "launch"
      <3>1. PoolPending(p)' = 0 /\ T = S
        BY <2>1, <2>3 DEF PoolPending, Pending
      <3> HIDE DEF S, T
      <3>2. Cardinality(T) + 0 <= MaxLaunch
        BY <1>1, <1>2, <1>3, <3>1
      <3> QED
        BY <3>1, <3>2 DEF T
    <2> QED
      BY <2>1, <2>2, <2>3
  <1> QED
    BY <1>5, <1>6, <1>7, <1>8, <1>9

(* The counter misses exactly the workers that gave no answer. *)
LEMMA BudgetFollows ==
    ASSUME TypeOK, CounterBounded, CountedStarts, PoolShares
    PROVE  LaunchBudget
  <1>1. /\ started \subseteq AllSlots /\ unanswered \subseteq AllSlots
        /\ MaxLaunch \in Nat /\ launched \in Nat
    BY SupervisorAssumption DEF TypeOK
  <1>2. Pending \in Nat /\ \A p \in PoolIds : PoolPending(p) \in Nat
    BY CountSlots DEF TypeOK, Pending, PoolPending
  <1> DEFINE S == started \ unanswered
             U == S \union unanswered
  <1>3. /\ IsFiniteSet(S) /\ IsFiniteSet(unanswered)
        /\ Cardinality(S) \in Nat /\ Cardinality(unanswered) \in Nat
        /\ Cardinality(started) \in Nat
    BY <1>1, CountSlots
  <1>4. Cardinality(U) = Cardinality(S) + Cardinality(unanswered)
                           - Cardinality(S \cap unanswered)
    BY <1>3, FS_Union
  <1>5. S \cap unanswered = {} /\ Cardinality(S \cap unanswered) = 0
    BY FS_EmptySet
  <1>6. Cardinality(started) <= Cardinality(U)
    BY <1>1, CountFewer
  <1>7. Cardinality(S) <= launched /\ launched + Pending <= MaxLaunch
    BY DEF CountedStarts, CounterBounded
  <1>8. Cardinality(started) + Pending <= MaxLaunch + Cardinality(unanswered)
    <2> HIDE DEF S, U
    <2> QED
      BY <1>1, <1>2, <1>3, <1>4, <1>5, <1>6, <1>7
  <1>9. ASSUME NEW p \in PoolIds
        PROVE  Cardinality(started \cap Slots(p)) <= MaxLaunch
    <2>1. Cardinality(started \cap Slots(p)) \in Nat
      BY <1>1, CountSlots
    <2>2. Cardinality(started \cap Slots(p)) + PoolPending(p) <= MaxLaunch
      BY DEF PoolShares
    <2> QED
      BY <1>1, <1>2, <2>1, <2>2
  <1> QED
    BY <1>8, <1>9 DEF LaunchBudget

(* max_launch_per_poll bounds the workers a cycle starts over all its      *)
(* pools, whatever the pools, the queue and the host, and whichever        *)
(* launches fail; what goes beyond it was started by a systemd-run that    *)
(* timed out, and within each pool the bound holds even then.              *)
THEOREM LaunchesBounded == SafetySpec => []LaunchBudget
  <1>1. Init => StartsInv
    <2> SUFFICES ASSUME Init PROVE StartsInv
      OBVIOUS
    <2>1. Cardinality({}) = 0 /\ MaxLaunch \in Nat
      BY FS_EmptySet, SupervisorAssumption
    <2>2. started = {} /\ unanswered = {} /\ launched = 0 /\ pc = "listRunners"
      BY DEF Init
    <2>3. UntouchedPools
      BY <2>2 DEF UntouchedPools, NotYetStarted
    <2>4. CountedStarts
      BY <2>1, <2>2 DEF CountedStarts
    <2>5. PoolShares
      <3>1. \A p \in PoolIds : started \cap Slots(p) = {} /\ PoolPending(p) = 0
        BY <2>2 DEF PoolPending, Pending
      <3> QED
        BY <2>1, <3>1 DEF PoolShares
    <2> QED
      BY <2>3, <2>4, <2>5 DEF StartsInv
  <1>2. TypeOK /\ TypeOK' /\ PoolAtHand /\ CounterBounded /\ StartsInv
            /\ [Next]_vars
          => StartsInv'
    BY UntouchedStep, CountedStep, SharesStep DEF StartsInv
  <1>3. TypeOK /\ CounterBounded /\ StartsInv => LaunchBudget
    BY BudgetFollows DEF StartsInv
  <1> QED
    BY <1>1, <1>2, <1>3, SupervisorTypes, CounterInvariant, PTL DEF SafetySpec

-----------------------------------------------------------------------------
(* Over-provisioning. *)

(* list_active knew of every unit that is active now, in the pools whose   *)
(* plan is still to come: between the list and the plan units of theirs    *)
(* may end, but only the supervisor starts one, and only for the pool at   *)
(* hand.                                                                   *)
StillToPlan(p) == p > pool \/ (p = pool /\ pc \in {"readHost", "plan"})

UnitsOf(p) == {s \in Slots(p) : unit[s] = "active"}

ActiveKnown ==
    (pc \in {"readHost", "plan", "launch", "stop"} /\ ~blind) =>
        \A p \in PoolIds : StillToPlan(p) => UnitsOf(p) \subseteq active

(* Nothing but the launch of the pool at hand makes a unit active. *)
LEMMA OnlyLaunchStarts ==
    ASSUME TypeOK, [Next]_vars, ~LaunchOne, NEW s \in AllSlots,
           unit'[s] = "active"
    PROVE  unit[s] = "active"
  <1>1. CASE UNCHANGED unit
    BY <1>1
  <1>2. CASE WorldStep
    BY <1>2 DEF WorldStep, WorkerLives, Sweep, Register, Connect, TakeJob,
                FinishJob, WorkerFails, WorkerKilled, StopEnds, JobQueued, TypeOK
  <1>3. CASE ResetFailed
    BY <1>3 DEF ResetFailed, WithReset
  <1>4. CASE StopOne
    <2>1. UNCHANGED unit \/ \E t \in AllSlots : StopUnit(t)
      BY <1>4 DEF StopOne, Oldest, TypeOK
    <2> QED
      BY <2>1 DEF StopUnit, WithReset, TypeOK
  <1>5. UNCHANGED unit \/ WorldStep \/ ResetFailed \/ StopOne
    BY DEF Next, Reconcile, Restart, ListRunners, ScanQueued, ListActive,
           ReadHost, PlanPool, NextPool, WriteStatus, Sleep, vars, worldVars
  <1> QED
    BY <1>1, <1>2, <1>3, <1>4, <1>5

LEMMA ActiveKnownStep ==
    TypeOK /\ PoolAtHand /\ ActiveKnown /\ [Next]_vars => ActiveKnown'
  <1> SUFFICES ASSUME TypeOK, PoolAtHand, ActiveKnown, [Next]_vars,
                      pc' \in {"readHost", "plan", "launch", "stop"}, ~blind',
                      NEW p \in PoolIds, StillToPlan(p)',
                      NEW s \in Slots(p), unit'[s] = "active"
               PROVE  s \in active'
    BY DEF ActiveKnown, UnitsOf
  <1>1. s \in AllSlots /\ p \in Nat /\ pool \in Nat
    BY SlotFacts, PoolsAreSequence DEF PoolIds, TypeOK
  <1>2. CASE ListActive
    <2>1. unit[s] = "active" /\ active' = ActiveUnits
      BY <1>2 DEF ListActive, worldVars
    <2> QED
      BY <1>1, <2>1 DEF ActiveUnits
  <1>3. CASE LaunchOne
    <2>1. /\ pc = "launch" /\ pc' = "launch"
          /\ UNCHANGED <<pool, active, blind>>
      BY <1>3 DEF LaunchOne
    <2>2. p > pool
      BY <2>1 DEF StillToPlan
    <2>3. PICK t \in todo : \E ok \in BOOLEAN : RunTransient(t, ok)
      BY <1>3, LaunchOneTakes
    <2>4. t \in Slots(pool) /\ pool \in PoolIds /\ t \in AllSlots
      BY <2>1 DEF PoolAtHand, TypeOK
    <2>5. s # t
      BY <1>1, <2>2, <2>4, SlotFacts
    <2>6. unit[s] = "active"
      BY <1>1, <2>3, <2>4, <2>5, LaunchStartsOne
    <2> QED
      BY <2>1, <2>2, <2>6 DEF ActiveKnown, StillToPlan, UnitsOf
  <1>4. CASE ~ListActive /\ ~LaunchOne
    <2>1. unit[s] = "active"
      BY <1>1, <1>4, OnlyLaunchStarts
    <2>2. /\ UNCHANGED <<active, blind>>
          /\ pc \in {"readHost", "plan", "launch", "stop"}
          /\ \/ UNCHANGED <<pc, pool>>
             \/ pc = "readHost" /\ pc' = "plan" /\ UNCHANGED pool
             \/ pc = "plan" /\ pc' \in {"launch", "stop"} /\ UNCHANGED pool
             \/ pc' = "plan" /\ pool' = pool + 1
      BY <1>4 DEF Next, Reconcile, Restart, ListRunners, ResetFailed, ScanQueued,
                  ReadHost, PlanPool, StopOne, NextPool, WriteStatus, Sleep,
                  EndCycle, WorldStep, vars, cycleVars
    <2>3. StillToPlan(p)
      BY <1>1, <2>2 DEF StillToPlan
    <2> QED
      BY <2>1, <2>2, <2>3 DEF ActiveKnown, UnitsOf
  <1> QED
    BY <1>2, <1>3, <1>4

LEMMA OverProvisionStep ==
    TypeOK /\ TypeOK' /\ PoolAtHand /\ CounterBounded /\ ActiveKnown
        /\ NoOverProvision /\ [Next]_vars
    => NoOverProvision'
  <1> SUFFICES ASSUME TypeOK, TypeOK', PoolAtHand, CounterBounded, ActiveKnown,
                      NoOverProvision, [Next]_vars
               PROVE  NoOverProvision'
    OBVIOUS
  <1>0. NoOverProvision' = ((pc' = "launch" /\ todo' # {} /\ ~blind') =>
            Cardinality(UnitsOf(pool)') + Cardinality(todo') <= want')
    BY ONLY DEF NoOverProvision, UnitsOf
  <1> SUFFICES ASSUME pc' = "launch", todo' # {}, ~blind'
               PROVE  Cardinality(UnitsOf(pool)') + Cardinality(todo') <= want'
    BY <1>0
  <1>1. CASE PlanPool
    <2>1. /\ pool \in PoolIds /\ UNCHANGED <<unit, pool, active, blind>>
          /\ pc = "plan" /\ want' = Wanted(pool)
      BY <1>1 DEF PlanPool, worldVars
    <2>2. active \subseteq AllSlots
      BY DEF TypeOK
    <2>3. UnitsOf(pool)' \subseteq ActiveOf(pool) /\ ActiveOf(pool) \subseteq AllSlots
      BY <2>1, <2>2 DEF ActiveKnown, StillToPlan, UnitsOf, ActiveOf
    <2>4. Cardinality(UnitsOf(pool)') <= Cardinality(ActiveOf(pool))
      BY <2>3, CountFewer
    <2>5. Cardinality(ActiveOf(pool)) <= Present(pool)
      BY <2>1, <2>2, PoolCounts
    <2>6. launched <= MaxLaunch
      BY <2>1, SupervisorAssumption DEF CounterBounded, Pending, TypeOK
    <2>7. /\ Cardinality(todo') \in Nat
          /\ Cardinality(todo') <= Wanted(pool) - Present(pool)
      BY <1>1, <2>6, PlannedFew
    <2>8. /\ Cardinality(UnitsOf(pool)') \in Nat /\ Cardinality(ActiveOf(pool)) \in Nat
          /\ Present(pool) \in Nat /\ Wanted(pool) \in Nat
      BY <2>1, <2>2, <2>3, CountSlots, PoolCounts, WantedType, SupervisorAssumption
    <2> HIDE DEF UnitsOf
    <2> QED
      BY <2>1, <2>4, <2>5, <2>7, <2>8
  <1>2. CASE LaunchOne
    <2>1. pc = "launch" /\ UNCHANGED <<pool, want, blind>>
      BY <1>2 DEF LaunchOne
    <2>2. PICK s \in todo :
              /\ todo' = todo \ {s}
              /\ Cardinality(todo) \in Nat
              /\ Cardinality(todo') = Cardinality(todo) - 1
              /\ \E ok \in BOOLEAN : RunTransient(s, ok)
      BY <1>2, LaunchOneTakes
    <2>3. s \in AllSlots /\ pool \in PoolIds /\ Slots(pool) \subseteq AllSlots
      BY <2>1, SlotFacts DEF TypeOK, PoolAtHand
    <2>4. UnitsOf(pool)' \subseteq UnitsOf(pool) \union {s}
      BY <2>1, <2>2, <2>3, LaunchStartsOne DEF UnitsOf
    <2>5. UnitsOf(pool) \subseteq AllSlots /\ UnitsOf(pool) \union {s} \subseteq AllSlots
      BY <2>3 DEF UnitsOf
    <2> DEFINE U == UnitsOf(pool)
               V == UnitsOf(pool)'
    <2>6. Cardinality(V) <= Cardinality(U \union {s})
      BY <2>4, <2>5, CountFewer
    <2>7. IsFiniteSet(U) /\ Cardinality(U) \in Nat /\ Cardinality(V) \in Nat
      BY <2>4, <2>5, CountSlots
    <2>8. Cardinality(U \union {s}) <= Cardinality(U) + 1
      <3>1. Cardinality(U \union {s})
              = IF s \in U THEN Cardinality(U) ELSE Cardinality(U) + 1
        BY <2>7, FS_AddElement
      <3> HIDE DEF U
      <3> QED
        BY ONLY <2>7, <3>1
    <2>9. Cardinality(U \union {s}) \in Nat
      BY <2>5, CountSlots
    <2>10. Cardinality(U) + Cardinality(todo) <= want
      BY <2>1, <2>2 DEF NoOverProvision, UnitsOf
    <2>11. want \in Nat
      BY SupervisorAssumption DEF TypeOK
    <2> HIDE DEF U, V
    <2>12. Cardinality(V) + Cardinality(todo') <= want
      BY <2>2, <2>6, <2>7, <2>8, <2>9, <2>10, <2>11
    <2> QED
      BY <2>1, <2>12 DEF V
  <1>3. CASE ~PlanPool /\ ~LaunchOne
    <2>1. pc = "launch" /\ UNCHANGED <<pool, todo, want, blind>>
      BY <1>3 DEF Next, Reconcile, Restart, ListRunners, ResetFailed, ScanQueued,
                  ListActive, ReadHost, StopOne, NextPool, WriteStatus, Sleep,
                  EndCycle, WorldStep, vars, cycleVars
    <2>2. pool \in PoolIds /\ Slots(pool) \subseteq AllSlots
      BY <2>1, SlotFacts DEF PoolAtHand
    <2>3. UnitsOf(pool)' \subseteq UnitsOf(pool)
      BY <1>3, <2>1, <2>2, OnlyLaunchStarts DEF UnitsOf
    <2>4. UnitsOf(pool) \subseteq AllSlots
      BY <2>2 DEF UnitsOf
    <2> DEFINE U == UnitsOf(pool)
               V == UnitsOf(pool)'
    <2>5. Cardinality(V) <= Cardinality(U)
      BY <2>3, <2>4, CountFewer
    <2>6. Cardinality(U) + Cardinality(todo) <= want
      BY <2>1 DEF NoOverProvision, UnitsOf
    <2>7. Cardinality(U) \in Nat /\ Cardinality(V) \in Nat
      BY <2>3, <2>4, CountSlots
    <2>9. Cardinality(todo) \in Nat /\ want \in Nat
      <3>1. todo \subseteq AllSlots /\ want \in 0..U32Max /\ U32Max \in Nat
        BY SupervisorAssumption DEF TypeOK
      <3>2. Cardinality(todo) \in Nat
        BY ONLY <3>1, CountSlots
      <3> QED
        BY ONLY <3>1, <3>2
    <2> HIDE DEF U, V
    <2>8. Cardinality(V) + Cardinality(todo) <= want
      BY <2>5, <2>6, <2>7, <2>9
    <2> QED
      BY <2>1, <2>8 DEF V
  <1> QED
    BY <1>1, <1>2, <1>3

(* A launch never takes a pool above what the plan wanted, however the     *)
(* runners, the units and the queue change between the three reads of a    *)
(* cycle and its launches, unless list_active failed in this cycle.        *)
THEOREM NeverOverProvisioned == SafetySpec => []NoOverProvision
  <1>1. Init => ActiveKnown /\ NoOverProvision
    BY DEF Init, ActiveKnown, NoOverProvision
  <1> QED
    BY <1>1, ActiveKnownStep, OverProvisionStep, SupervisorTypes, CounterInvariant, PTL
    DEF SafetySpec

-----------------------------------------------------------------------------
(* The age of what is stopped. *)

(* An entry of idle_since is no older than the runner it stands for; from  *)
(* the sleep to the next list it may stand for one that is gone.           *)
AgesAgree ==
    \A s \in AllSlots :
        (/\ idleSince[s] # Unset /\ ~renamed[s]
         /\ pc \in {"sleep", "listRunners"} => runner[s] # "none")
            => idleSince[s] <= age[s]

(* What becomes of a slot's runner and its name outside the supervisor. *)
LEMMA WorldAges ==
    ASSUME TypeOK, WorldStep, NEW s \in AllSlots
    PROVE  /\ UNCHANGED <<pc, idleSince>>
           /\ \/ idleSince[s] # Unset => renamed'[s]
              \/ /\ renamed'[s] = renamed[s] /\ age'[s] = age[s]
                 /\ runner'[s] # "none" => runner[s] # "none"
  <1>1. UNCHANGED <<pc, idleSince>>
    BY DEF WorldStep, WorkerLives, Sweep, Register, Connect, TakeJob, FinishJob,
           WorkerFails, WorkerKilled, StopEnds, JobQueued, stateVars
  <1>2. CASE Register(s)
    <2>1. renamed' = [renamed EXCEPT ![s] = (idleSince[s] # Unset)]
      BY <1>2 DEF Register
    <2>2. renamed'[s] = (idleSince[s] # Unset)
      BY <2>1 DEF TypeOK
    <2> QED
      BY <1>1, <2>2
  <1>3. CASE ~Register(s)
    <2>1. renamed'[s] = renamed[s] /\ age'[s] = age[s]
      BY <1>3 DEF WorldStep, WorkerLives, Sweep, Register, Connect, TakeJob, FinishJob,
                  WorkerFails, WorkerKilled, StopEnds, JobQueued, stateVars, TypeOK
    <2>2. runner'[s] # "none" => runner[s] # "none"
      BY <1>3 DEF WorldStep, WorkerLives, Sweep, Register, Connect, TakeJob, FinishJob,
                  WorkerFails, WorkerKilled, StopEnds, JobQueued, TypeOK
    <2> QED
      BY <1>1, <2>1, <2>2
  <1> QED
    BY <1>2, <1>3

LEMMA AgesStep == TypeOK /\ AgesAgree /\ [Next]_vars => AgesAgree'
  <1> SUFFICES ASSUME TypeOK, AgesAgree, [Next]_vars
               PROVE  AgesAgree'
    OBVIOUS
  <1> SUFFICES ASSUME NEW s \in AllSlots,
                      /\ idleSince'[s] # Unset /\ ~renamed'[s]
                      /\ pc' \in {"sleep", "listRunners"} => runner'[s] # "none"
               PROVE  idleSince'[s] <= age'[s]
    BY Zenon DEF AgesAgree
  <1>1. /\ IdleTimeout \in Nat
        /\ idleSince[s] \in {Unset} \union 0..IdleTimeout
        /\ age[s] \in 0..IdleTimeout
    BY SupervisorAssumption DEF TypeOK
  <1>2. CASE WorldStep
    <2>1. UNCHANGED <<pc, idleSince>>
      BY <1>2, WorldAges
    <2>2. /\ renamed'[s] = renamed[s] /\ age'[s] = age[s]
          /\ runner'[s] # "none" => runner[s] # "none"
      BY <1>2, <2>1, WorldAges
    <2>3. idleSince[s] <= age[s]
      BY <2>1, <2>2 DEF AgesAgree
    <2> QED
      BY <2>1, <2>2, <2>3
  <1>3. CASE ListRunners
    <2>1. UNCHANGED <<age, runner>> /\ pc = "listRunners"
      BY <1>3 DEF ListRunners, worldVars
    <2>2. CASE UNCHANGED <<idleSince, renamed>> /\ pc' = "sleep"
      BY <2>1, <2>2 DEF AgesAgree
    <2>3. CASE idleSince' = [t \in AllSlots |-> IdleEntry(t)]
      <3>1. idleSince'[s] = IdleEntry(s)
        BY <2>3
      <3>2. runner[s] = "idle"
        BY <3>1 DEF IdleEntry
      <3>3. CASE renamed[s]
        <4>1. idleSince'[s] = 0
          BY <3>1, <3>2, <3>3 DEF IdleEntry
        <4> QED
          BY <1>1, <2>1, <4>1
      <3>4. CASE ~renamed[s]
        <4>1. idleSince'[s] = Larger(idleSince[s], 0)
          BY <3>1, <3>2, <3>4 DEF IdleEntry
        <4>2. CASE idleSince[s] = Unset
          BY <1>1, <2>1, <4>1, <4>2 DEF Larger, Unset
        <4>3. CASE idleSince[s] # Unset
          <5>1. idleSince[s] <= age[s]
            BY <3>2, <3>4, <4>3 DEF AgesAgree
          <5> QED
            BY <1>1, <2>1, <4>1, <4>3, <5>1 DEF Larger
        <4> QED
          BY <4>2, <4>3
      <3> QED
        BY <3>3, <3>4
    <2> QED
      BY <1>3, <2>2, <2>3 DEF ListRunners
  <1>4. CASE Sleep
    <2>1. /\ pc = "sleep" /\ pc' = "listRunners"
          /\ UNCHANGED <<runner, renamed>>
          /\ idleSince'[s] = Aged(idleSince)[s]
          /\ age'[s] = IF runner[s] = "none" THEN 0 ELSE Aged(age)[s]
      BY <1>4 DEF Sleep, worldVars, Aged
    <2>2. runner[s] # "none" /\ age[s] # Unset
      BY <1>1, <2>1 DEF Unset
    <2>3. /\ age'[s] = Smaller(age[s] + 1, IdleTimeout)
          /\ idleSince[s] # Unset
          /\ idleSince'[s] = Smaller(idleSince[s] + 1, IdleTimeout)
      BY <2>1, <2>2 DEF Aged
    <2>4. idleSince[s] <= age[s]
      BY <2>1, <2>2, <2>3 DEF AgesAgree
    <2> QED
      BY <1>1, <2>3, <2>4 DEF Smaller
  <1>5. CASE Restart
    BY <1>5 DEF Restart
  <1>6. CASE UNCHANGED vars
    BY <1>6 DEF vars, worldVars, stateVars, AgesAgree
  <1>7. CASE Reconcile /\ ~ListRunners /\ ~Sleep
    <2>1. /\ UNCHANGED <<idleSince, renamed, runner, age>>
          /\ pc' \notin {"sleep", "listRunners"}
               => pc \notin {"sleep", "listRunners"}
      BY <1>7 DEF Reconcile, ResetFailed, ScanQueued, ListActive, ReadHost, PlanPool,
                  LaunchOne, StopOne, NextPool, WriteStatus, worldVars, stateVars
    <2> QED
      BY <2>1 DEF AgesAgree
  <1> QED
    BY <1>2, <1>3, <1>4, <1>5, <1>6, <1>7 DEF Next

(* Only a scale-down takes a unit from active to stopping. *)
LEMMA OnlyStopStops ==
    ASSUME TypeOK, [Next]_vars, NEW s \in AllSlots,
           unit[s] = "active", unit'[s] = "stopping"
    PROVE  pc = "stop" /\ LongIdle(s)
  <1>1. CASE WorldStep
    BY <1>1 DEF WorldStep, WorkerLives, Sweep, Register, Connect, TakeJob,
                FinishJob, WorkerFails, WorkerKilled, StopEnds, JobQueued, TypeOK
  <1>2. CASE ResetFailed
    BY <1>2 DEF ResetFailed, WithReset
  <1>3. CASE LaunchOne
    <2>1. PICK t \in todo : \E ok \in BOOLEAN : RunTransient(t, ok)
      BY <1>3, LaunchOneTakes
    <2> QED
      BY <2>1 DEF RunTransient, WithReset, TypeOK
  <1>4. CASE StopOne
    <2>1. PICK t \in todo : UNCHANGED unit \/ (LongIdle(t) /\ StopUnit(t))
      BY <1>4 DEF StopOne, Oldest
    <2>2. LongIdle(t) /\ StopUnit(t)
      BY <2>1
    <2>3. t = s
      BY <2>2 DEF StopUnit, WithReset, TypeOK
    <2> QED
      BY <1>4, <2>2, <2>3 DEF StopOne
  <1>5. CASE UNCHANGED unit
    BY <1>5
  <1> QED
    BY <1>1, <1>2, <1>3, <1>4, <1>5
    DEF Next, Reconcile, Restart, ListRunners, ScanQueued, ListActive,
        ReadHost, PlanPool, NextPool, WriteStatus, Sleep, vars, worldVars

(* A stop hits only a worker whose runner has been registered for          *)
(* idle_timeout, or one whose runner was replaced while the cycle ran:     *)
(* whatever is renamed, restarted or killed in between, no VM inherits the *)
(* age of another.                                                         *)
THEOREM StopsAreAged == SafetySpec => StopsOnlyAged
  <1> DEFINE Step == \A s \in AllSlots :
                        (unit[s] = "active" /\ unit'[s] = "stopping")
                            => age[s] >= IdleTimeout \/ renamed[s]
  <1>1. Init => AgesAgree
    BY DEF Init, AgesAgree
  <1>2. TypeOK /\ AgesAgree /\ [Next]_vars => [Step]_vars
    <2> SUFFICES ASSUME TypeOK, AgesAgree, [Next]_vars, NEW s \in AllSlots,
                        unit[s] = "active", unit'[s] = "stopping", ~renamed[s]
                 PROVE  age[s] >= IdleTimeout
      OBVIOUS
    <2>1. pc = "stop" /\ LongIdle(s)
      BY OnlyStopStops
    <2>2. idleSince[s] # Unset /\ idleSince[s] >= IdleTimeout
      BY <2>1 DEF LongIdle
    <2>3. idleSince[s] <= age[s]
      BY <2>1, <2>2 DEF AgesAgree
    <2>4. /\ IdleTimeout \in Nat /\ age[s] \in Int /\ idleSince[s] \in Int
      BY SupervisorAssumption DEF TypeOK, Unset
    <2> QED
      BY <2>2, <2>3, <2>4
  <1> QED
    BY <1>1, <1>2, AgesStep, SupervisorTypes, PTL DEF SafetySpec, StopsOnlyAged
=============================================================================
