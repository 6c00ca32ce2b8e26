------------------------ MODULE HealthMonitorProofs ------------------------
(***************************************************************************)
(* Proofs about HealthMonitor, for every grace period, registration        *)
(* timeout and query time: a runner is recycled neither before a whole     *)
(* grace period without an Online answer, nor after one of unhealthy ones. *)
(***************************************************************************)
EXTENDS HealthMonitor, TLAPS

(* unhealthy_since is bracketed by the two histories: it is no older than  *)
(* the last Online answer and no younger than the unhealthy answers since. *)
SinceBracketed ==
    /\ since # Unset => confirmed <= since /\ since <= away
    /\ since = Unset => confirmed = 0 /\ answer \notin {"Offline", "Absent"}

(* Going to sleep on an unhealthy answer means the grace is not over. *)
SleepInGrace ==
    pc = "sleep" /\ answer \in {"Offline", "Absent"} => since < Grace

RecycledAtGrace == pc = "recycled" => since = Grace

MonitorInv ==
    TypeOK /\ SinceBracketed /\ SleepInGrace /\ RecycledAtGrace

USE DEF Final, RunnerStates, Unset

(* Every step keeps the variables within their types. *)
LEMMA TypeStep == TypeOK /\ [Next]_vars => TypeOK'
<1> SUFFICES ASSUME TypeOK, [Next]_vars PROVE TypeOK'
  OBVIOUS
<1> USE MonitorAssumption DEF TypeOK
<1>1. CASE RegCheckChild
  BY <1>1 DEF RegCheckChild
<1>2. CASE MonCheckChild
  BY <1>2 DEF MonCheckChild
<1>3. CASE MonSleep
  BY <1>3 DEF MonSleep, TimePasses, Elapsed, AtMost
<1>4. ASSUME NEW d \in 0..QueryTime, NEW b \in BOOLEAN, RegQuery(d, b)
      PROVE  TypeOK'
  BY <1>4 DEF RegQuery, DeadlinePassed, AtMost
<1>5. ASSUME NEW d \in 0..QueryTime, NEW b \in BOOLEAN, MonQuery(d, b)
      PROVE  TypeOK'
  <2>1. CASE RunnerState(b) = "Online"
    BY <1>5, <2>1 DEF MonQuery
  <2>2. CASE RunnerState(b) = "Unknown"
    BY <1>5, <2>2 DEF MonQuery, UnhealthyFor, GraceOver, TimePasses, Elapsed,
                        AtMost
  <2>3. CASE RunnerState(b) \in {"Absent", "Offline"}
    BY <1>5, <2>3 DEF MonQuery, UnhealthyFor, GraceOver, TimePasses, Elapsed,
                        AtMost
  <2> QED
    BY <1>5, <2>1, <2>2, <2>3 DEF MonQuery
<1>6. CASE GitHubStep
  BY <1>6 DEF GitHubStep, Env, RecordListed, RunnerConnects, RunnerDrops,
              Deregistered, ChildExits
<1>7. CASE Terminated \/ UNCHANGED vars
  BY <1>7 DEF Terminated, vars
<1> QED
  BY <1>1, <1>2, <1>3, <1>4, <1>5, <1>6, <1>7 DEF Next, Queried

(* The answer and the clocks move together. *)
LEMMA BracketStep ==
    MonitorInv /\ [Next]_vars
        => SinceBracketed' /\ SleepInGrace' /\ RecycledAtGrace'
<1> SUFFICES ASSUME MonitorInv, [Next]_vars
             PROVE  SinceBracketed' /\ SleepInGrace' /\ RecycledAtGrace'
  OBVIOUS
<1> USE MonitorAssumption
    DEF MonitorInv, TypeOK, SinceBracketed, SleepInGrace, RecycledAtGrace
<1>1. CASE RegCheckChild
  BY <1>1 DEF RegCheckChild
<1>2. CASE MonCheckChild
  BY <1>2 DEF MonCheckChild
<1>3. CASE MonSleep
  BY <1>3 DEF MonSleep, TimePasses, Elapsed, AtMost
<1>4. ASSUME NEW d \in 0..QueryTime, NEW b \in BOOLEAN, RegQuery(d, b)
      PROVE  SinceBracketed' /\ SleepInGrace' /\ RecycledAtGrace'
  BY <1>4 DEF RegQuery
<1>5. ASSUME NEW d \in 0..QueryTime, NEW b \in BOOLEAN, MonQuery(d, b)
      PROVE  SinceBracketed' /\ SleepInGrace' /\ RecycledAtGrace'
  <2>1. CASE RunnerState(b) = "Online"
    BY <1>5, <2>1 DEF MonQuery
  <2>2. CASE RunnerState(b) = "Unknown"
    BY <1>5, <2>2 DEF MonQuery, UnhealthyFor, GraceOver, TimePasses, Elapsed,
                        AtMost
  <2>3. CASE RunnerState(b) \in {"Absent", "Offline"}
    BY <1>5, <2>3 DEF MonQuery, UnhealthyFor, GraceOver, TimePasses, Elapsed,
                        AtMost
  <2> QED
    BY <1>5, <2>1, <2>2, <2>3 DEF MonQuery
<1>6. CASE GitHubStep
  BY <1>6 DEF GitHubStep, Env
<1>7. CASE Terminated \/ UNCHANGED vars
  BY <1>7 DEF Terminated, vars
<1> QED
  BY <1>1, <1>2, <1>3, <1>4, <1>5, <1>6, <1>7 DEF Next, Queried

(* The invariant holds in every reachable state. *)
THEOREM MonitorInvariant == Spec => []MonitorInv
<1>1. Init => MonitorInv
  <2>1. Init => TypeOK
    <3> SUFFICES ASSUME Init PROVE TypeOK
      OBVIOUS
    <3>1. child \in BOOLEAN /\ gone \in BOOLEAN
      BY Zenon DEF Init
    <3>2. /\ age \in 0..(RegTimeout + 1) /\ since \in {Unset} \union 0..Grace
          /\ away \in 0..Grace /\ confirmed \in 0..Grace
      BY MonitorAssumption DEF Init
    <3>3. /\ pc \in {"registering", "regQuery", "monitoring", "query", "sleep"}
                    \union Final
          /\ record \in {"absent", "offline", "online"}
          /\ answer \in RunnerStates \union {"none"}
      BY DEF Init
    <3> QED
      BY <3>1, <3>2, <3>3 DEF TypeOK
  <2>2. Init => SinceBracketed /\ SleepInGrace /\ RecycledAtGrace
    BY DEF Init, SinceBracketed, SleepInGrace, RecycledAtGrace
  <2> QED
    BY <2>1, <2>2 DEF MonitorInv
<1>2. MonitorInv /\ [Next]_vars => MonitorInv'
  BY TypeStep, BracketStep DEF MonitorInv
<1> QED
  BY <1>1, <1>2, PTL DEF Spec

(* health_monitor never recycles a runner within a grace period of its     *)
(* last Online answer, whatever the grace and however slow the queries.    *)
THEOREM NoEarlyRecycle == Spec => []RecycledOnlyAfterGrace
<1>1. MonitorInv => RecycledOnlyAfterGrace
  BY MonitorAssumption
  DEF MonitorInv, TypeOK, SinceBracketed, RecycledAtGrace,
      RecycledOnlyAfterGrace
<1> QED
  BY <1>1, MonitorInvariant, PTL

(* Nor does it sleep on once the grace has passed in unhealthy answers. *)
THEOREM NoLateRecycle == Spec => []ReapedWithinGrace
<1>1. MonitorInv => ReapedWithinGrace
  BY MonitorAssumption
  DEF MonitorInv, TypeOK, SinceBracketed, SleepInGrace, ReapedWithinGrace
<1> QED
  BY <1>1, MonitorInvariant, PTL

(* The monitor's variables keep their types. *)
THEOREM MonitorTypes == Spec => []TypeOK
<1>1. MonitorInv => TypeOK
  BY DEF MonitorInv
<1> QED
  BY <1>1, MonitorInvariant, PTL

PhaseFits ==
    /\ pc \in {"registering", "regQuery"} => Phase = "registering"
    /\ pc \in {"monitoring", "query", "sleep"} => Phase = "monitoring"
    /\ pc \in Final => Phase = "over"

LEMMA PhaseNow == TypeOK => PhaseFits
  BY DEF Phase, TypeOK, PhaseFits

LEMMA PhaseNext == TypeOK' => PhaseFits'
  BY PhaseNow, PTL

(* Every step of the loops is a verdict of RunnerWatch, a move of the      *)
(* world or a stutter.                                                     *)
LEMMA WatchStep ==
    ASSUME TypeOK, TypeOK', [Next]_vars
    PROVE  [Watch!Next]_<<Phase, child, record>>
<1>0. PhaseFits /\ PhaseFits'
  BY PhaseNow, PhaseNext
<1> USE <1>0 DEF PhaseFits
<1>1. CASE RegCheckChild
  <2>1. CASE child
    BY <1>1, <2>1 DEF RegCheckChild
  <2>2. CASE ~child
    <3>1. Watch!NeverRegisters /\ UNCHANGED <<child, record>>
      BY <1>1, <2>2 DEF RegCheckChild, Watch!NeverRegisters
    <3> QED
      BY <3>1 DEF Watch!Next, Watch!Verdict
  <2> QED
    BY <2>1, <2>2
<1>2. CASE MonCheckChild
  <2>1. CASE child
    BY <1>2, <2>1 DEF MonCheckChild
  <2>2. CASE ~child
    <3>1. Watch!ChildGone /\ UNCHANGED <<child, record>>
      BY <1>2, <2>2 DEF MonCheckChild, Watch!ChildGone
    <3> QED
      BY <3>1 DEF Watch!Next, Watch!Verdict
  <2> QED
    BY <2>1, <2>2
<1>3. CASE MonSleep
  BY <1>3 DEF MonSleep
<1>4. ASSUME NEW d \in 0..QueryTime, NEW b \in BOOLEAN, RegQuery(d, b)
      PROVE  [Watch!Next]_<<Phase, child, record>>
  <2>1. UNCHANGED <<child, record>> /\ Phase = "registering"
    BY <1>4 DEF RegQuery
  <2>2. CASE pc' = "monitoring"
    <3>1. RunnerState(b) \in {"Online", "Offline"} => record # "absent"
      BY DEF RunnerState, TypeOK
    <3>2. Watch!Registers
      BY <1>4, <2>1, <2>2, <3>1 DEF RegQuery, Watch!Registers
    <3> QED
      BY <2>1, <3>2 DEF Watch!Next, Watch!Verdict
  <2>3. CASE pc' = "failed"
    <3>1. Watch!NeverRegisters
      BY <2>1, <2>3 DEF Watch!NeverRegisters
    <3> QED
      BY <2>1, <3>1 DEF Watch!Next, Watch!Verdict
  <2>4. CASE pc' = "registering"
    BY <2>1, <2>4
  <2> QED
    BY <1>4, <2>2, <2>3, <2>4 DEF RegQuery
<1>5. ASSUME NEW d \in 0..QueryTime, NEW b \in BOOLEAN, MonQuery(d, b)
      PROVE  [Watch!Next]_<<Phase, child, record>>
  <2>1. UNCHANGED <<child, record>> /\ Phase = "monitoring"
    BY <1>5 DEF MonQuery
  <2>2. CASE pc' = "recycled"
    <3>1. RunnerState(b) \in {"Absent", "Offline"}
      BY <1>5, <2>2 DEF MonQuery
    <3>2. record # "online"
      BY <3>1 DEF RunnerState, TypeOK
    <3>3. Watch!Recycles
      BY <2>1, <2>2, <3>2 DEF Watch!Recycles
    <3> QED
      BY <2>1, <3>3 DEF Watch!Next, Watch!Verdict
  <2>3. CASE pc' = "sleep"
    BY <2>1, <2>3
  <2> QED
    BY <1>5, <2>2, <2>3 DEF MonQuery
<1>6. CASE GitHubStep
  <2>1. UNCHANGED Phase
    BY <1>6 DEF GitHubStep, Env, Phase
  <2>2. Phase # "over"
    BY <1>6 DEF GitHubStep, Env, TypeOK
  <2>3. Watch!World \/ UNCHANGED <<child, record>>
    BY <1>6, <2>1, <2>2
    DEF GitHubStep, Env, RecordListed, RunnerConnects, RunnerDrops,
        Deregistered, ChildExits, Watch!World
  <2> QED
    BY <2>1, <2>3 DEF Watch!Next
<1>7. CASE Terminated \/ UNCHANGED vars
  BY <1>7 DEF Terminated, vars, Phase
<1> QED
  BY <1>1, <1>2, <1>3, <1>4, <1>5, <1>6, <1>7 DEF Next, Queried

(* For every grace, timeout and query time the loops come to no verdict    *)
(* but those of RunnerWatch, on which Worker rests; that they come to one  *)
(* (WatchesRunner) stays with TLC.                                         *)
THEOREM MonitorWatchesRunner ==
    Spec => Watch!Init /\ [][Watch!Next]_<<Phase, child, record>>
<1>1. Init => Watch!Init
  BY DEF Init, Watch!Init, Phase
<1>2. TypeOK /\ TypeOK' /\ [Next]_vars
        => [Watch!Next]_<<Phase, child, record>>
  BY WatchStep
<1> QED
  BY <1>1, <1>2, MonitorTypes, PTL DEF Spec
=============================================================================
