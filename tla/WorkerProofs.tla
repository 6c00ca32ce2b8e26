---------------------------- MODULE WorkerProofs ----------------------------
(***************************************************************************)
(* Proofs about the workers of a slot, for every number of VM names,       *)
(* faults and signals: that the two threads of a worker never tear down    *)
(* together, that a worker no signal has reached leaves nothing behind,    *)
(* and that the slot has been swept when a worker comes to its clone.      *)
(***************************************************************************)
EXTENDS Worker, TLAPS

-----------------------------------------------------------------------------
(* One teardown at a time.  CleanupOnce is not inductive: the swap of      *)
(* `cleaned` protects the steps of cleanup() only because a thread inside  *)
(* them implies that the flag is set, and because nothing clears it while  *)
(* the process lives.                                                      *)

(* The strengthening: whoever is inside cleanup() has set `cleaned`. *)
CleanupInv ==
    /\ pc \in [Threads -> Locations]
    /\ cleaned \in BOOLEAN
    /\ \A t \in Threads : pc[t] \in CleanupBody => cleaned = TRUE
    /\ CleanupOnce

(* Moving a thread to a location outside cleanup()'s body, with the flag   *)
(* as it was, disturbs nothing.                                            *)
LEMMA GotoOutside ==
    ASSUME CleanupInv, NEW t \in Threads, NEW l \in Locations \ CleanupBody,
           Goto(t, l), cleaned' = cleaned
    PROVE  CleanupInv'
  BY DEF CleanupInv, CleanupOnce, Goto, Threads

(* Moving on inside the body, likewise. *)
LEMMA GotoInside ==
    ASSUME CleanupInv, NEW t \in Threads, NEW l \in Locations,
           pc[t] \in CleanupBody, Goto(t, l), cleaned' = cleaned
    PROVE  CleanupInv'
  BY DEF CleanupInv, CleanupOnce, Goto, Threads

(* All threads of a process that begins or ends are outside the body. *)
LEMMA AllOutside ==
    ASSUME cleaned' \in BOOLEAN, pc' \in [Threads -> Locations \ CleanupBody]
    PROVE  CleanupInv'
  BY DEF CleanupInv, CleanupOnce, Threads

LEMMA Places ==
    /\ "main" \in Threads
    /\ "signal" \in Threads
    /\ MainLocations \subseteq Locations \ CleanupBody
    /\ {"sigwait", "swap", "exit"} \subseteq Locations \ CleanupBody
    /\ CleanupBody \subseteq Locations
  BY DEF Threads, MainLocations, Locations, CleanupBody

(* Every step of lifecycle() leaves the main thread outside the body: it   *)
(* goes on, or returns to the swap.                                        *)
LEMMA MainStepPreserves ==
    ASSUME CleanupInv, MainStep
    PROVE  CleanupInv'
  <1> DEFINE Moves == \E l \in MainLocations \union {"swap"} : Goto("main", l)
  <1>0. ASSUME cleaned' = cleaned, Moves
        PROVE  CleanupInv'
    BY <1>0, GotoOutside, Places
  <1>1. CASE Precheck
    BY <1>0, <1>1 DEF Precheck, Return, flags, MainLocations
  <1>2. CASE SweepStateFile
    BY <1>0, <1>2 DEF SweepStateFile, flags, MainLocations
  <1>3. CASE SweepList
    BY <1>0, <1>3 DEF SweepList, flags, MainLocations
  <1>4. CASE SweepOne
    BY <1>4 DEF SweepOne, flags, CleanupInv, CleanupOnce
  <1>5. CASE SweepDone
    BY <1>0, <1>5 DEF SweepDone, flags, MainLocations
  <1>6. CASE WriteState
    BY <1>0, <1>6 DEF WriteState, flags, MainLocations
  <1>7. CASE RegToken
    BY <1>0, <1>7 DEF RegToken, Return, flags, MainLocations
  <1>8. CASE GateAcquire
    BY <1>0, <1>8 DEF GateAcquire, Return, flags, MainLocations
  <1>9. CASE CloneBegin
    BY <1>0, <1>9 DEF CloneBegin, flags, MainLocations
  <1>10. CASE CloneReturns
    BY <1>0, <1>10 DEF CloneReturns, Return, flags, MainLocations
  <1>11. CASE MarkCreated
    BY <1>0, <1>11 DEF MarkCreated, flags, MainLocations
  <1>12. CASE StartVM
    BY <1>0, <1>12 DEF StartVM, Return, flags, MainLocations
  <1>13. CASE SettleAndDrop
    BY <1>0, <1>13 DEF SettleAndDrop, flags, MainLocations
  <1>14. CASE WaitCloudInit
    BY <1>0, <1>14 DEF WaitCloudInit, Return, flags, MainLocations
  <1>15. CASE ConfigSh
    BY <1>0, <1>15 DEF ConfigSh, RegistrationFails, Return, flags, MainLocations
  <1>16. CASE GenerateJitconfig
    BY <1>0, <1>16 DEF GenerateJitconfig, RegistrationFails, Return, flags,
                       MainLocations
  <1>17. CASE SpawnChild
    BY <1>0, <1>17 DEF SpawnChild, Return, flags, MainLocations
  <1>18. CASE StoreChild
    BY <1>0, <1>18 DEF StoreChild, flags, MainLocations
  <1>19. CASE WaitRegistration
    BY <1>0, <1>19 DEF WaitRegistration, Return, flags, MainLocations
  <1>20. CASE HealthMonitorReturns
    BY <1>0, <1>20 DEF HealthMonitorReturns, Return, flags, MainLocations
  <1> QED
    BY <1>1, <1>2, <1>3, <1>4, <1>5, <1>6, <1>7, <1>8, <1>9, <1>10, <1>11,
       <1>12, <1>13, <1>14, <1>15, <1>16, <1>17, <1>18, <1>19, <1>20
    DEF MainStep

(* A process that ends takes both its threads out of the body. *)
LEMMA EndedPreserves ==
    ASSUME CleanupInv, Ended, cleaned' = cleaned
    PROVE  CleanupInv'
  <1>1. pc' \in [Threads -> Locations \ CleanupBody]
    BY Places DEF Ended
  <1> QED
    BY <1>1, AllOutside DEF CleanupInv

(* cleanup(): the swap admits a thread only if the flag was clear, and     *)
(* then no other thread is inside.                                         *)
LEMMA CleanupStepPreserves ==
    ASSUME CleanupInv, NEW t \in Threads, CleanupStep(t)
    PROVE  CleanupInv'
  <1>1. CASE CleanupSwap(t)
    <2>1. CASE cleaned = TRUE
      <3>1. Goto(t, "exit") /\ cleaned' = cleaned
        BY <1>1, <2>1 DEF CleanupSwap
      <3> QED
        BY <3>1, GotoOutside, Places
    <2>2. CASE cleaned = FALSE
      <3>1. Goto(t, "child") /\ cleaned' = TRUE
        BY <1>1, <2>2 DEF CleanupSwap
      <3>2. \A u \in Threads : pc[u] \notin CleanupBody
        BY <2>2 DEF CleanupInv
      <3> QED
        BY <3>1, <3>2, Places
        DEF CleanupInv, CleanupOnce, Goto, Threads, Locations, CleanupBody
    <2> QED
      BY <2>1, <2>2 DEF CleanupInv
  <1> DEFINE MovesOn == pc[t] \in CleanupBody
                        /\ \E l \in CleanupBody \union {"exit"} : Goto(t, l)
  <1>0. ASSUME cleaned' = cleaned, MovesOn
        PROVE  CleanupInv'
    BY <1>0, GotoInside, Places
  <1>2. CASE CleanupChild(t)
    BY <1>0, <1>2 DEF CleanupChild, At, flags, CleanupBody
  <1>3. CASE CleanupChildWait(t)
    BY <1>0, <1>3 DEF CleanupChildWait, At, flags, CleanupBody
  <1>4. CASE CleanupList(t)
    BY <1>0, <1>4 DEF CleanupList, At, flags, CleanupBody
  <1>5. CASE CleanupDelete(t)
    BY <1>0, <1>5 DEF CleanupDelete, At, flags, CleanupBody
  <1>6. CASE CleanupPurge(t)
    BY <1>0, <1>6 DEF CleanupPurge, At, flags, CleanupBody
  <1>7. CASE CleanupRemove(t)
    BY <1>0, <1>7 DEF CleanupRemove, At, flags, CleanupBody
  <1>8. CASE Exit(t)
    BY <1>8, EndedPreserves DEF Exit, flags
  <1> QED
    BY <1>1, <1>2, <1>3, <1>4, <1>5, <1>6, <1>7, <1>8 DEF CleanupStep

(* The flag and the exclusion it gives, at every step of the system. *)
THEOREM CleanupInvariant == SafetySpec => []CleanupInv
  <1>1. Init => CleanupInv
    BY Places DEF Init, CleanupInv, CleanupOnce, Threads, CleanupBody
  <1>2. CleanupInv /\ [Next]_vars => CleanupInv'
    <2> SUFFICES ASSUME CleanupInv, [Next]_vars
                 PROVE  CleanupInv'
      OBVIOUS
    <2>1. CASE Launch
      <3>1. pc' \in [Threads -> Locations \ CleanupBody] /\ cleaned' = FALSE
        BY <2>1, Places DEF Launch, MainLocations
      <3> QED
        BY <3>1, AllOutside
    <2>2. ASSUME NEW n \in Names, DaemonCloned(n)
          PROVE  CleanupInv'
      BY <2>2 DEF DaemonCloned, flags, CleanupInv, CleanupOnce
    <2>3. CASE MainStep
      BY <2>3, MainStepPreserves
    <2>4. ASSUME NEW t \in Threads, CleanupStep(t)
          PROVE  CleanupInv'
      BY <2>4, CleanupStepPreserves
    <2>5. CASE Signal
      BY <2>5, GotoOutside, Places DEF Signal, flags
    <2>6. CASE Killed
      BY <2>6, EndedPreserves DEF Killed, flags
    <2>7. CASE RunnerConnects
      BY <2>7 DEF RunnerConnects, flags, CleanupInv, CleanupOnce
    <2>8. CASE JobDone
      BY <2>8 DEF JobDone, flags, CleanupInv, CleanupOnce
    <2>9. CASE RunnerFails
      BY <2>9 DEF RunnerFails, flags, CleanupInv, CleanupOnce
    <2>10. CASE UNCHANGED vars
      BY <2>10 DEF vars, flags, CleanupInv, CleanupOnce
    <2> QED
      BY <2>1, <2>2, <2>3, <2>4, <2>5, <2>6, <2>7, <2>8, <2>9, <2>10 DEF Next
  <1> QED
    BY <1>1, <1>2, PTL DEF SafetySpec

(* The main thread's CleanupGuard and the signal thread never run the body *)
(* of cleanup() at the same time, whatever fails and whenever the signal   *)
(* comes.                                                                  *)
THEOREM TeardownExclusive == SafetySpec => []CleanupOnce
  <1>1. CleanupInv => CleanupOnce
    BY DEF CleanupInv
  <1> QED
    BY <1>1, CleanupInvariant, PTL

-----------------------------------------------------------------------------
(* Types. *)

(* Ctx is built under a name nobody has used. *)
LEMMA UnusedName ==
    ASSUME Launch
    PROVE  me' \in Names /\ vm[me'] = "absent" /\ record[me'] = "absent"
  BY DEF Launch, Unused

(* The steps of lifecycle(), variable by variable. *)
LEMMA MainTypes ==
    ASSUME TypeOK, MainStep
    PROVE  TypeOK'
  <1> USE WorkerAssumption
      DEF TypeOK, Fault, NoFault, ident, flags, childVars, scratch, worldVars,
          budget, history, MainStep, Precheck, SweepStateFile, SweepList,
          SweepOne, SweepDone, WriteState, RegToken, GateAcquire, CloneBegin,
          CloneReturns, MarkCreated, StartVM, SettleAndDrop, WaitCloudInit,
          ConfigSh, GenerateJitconfig, SpawnChild, StoreChild, WaitRegistration,
          HealthMonitorReturns, RegistrationFails, Reap, Purged, Disconnected,
          Return
  <1>1. pc' \in [Threads -> Locations]
    BY DEF Goto, Threads, Locations, MainLocations, CleanupBody
  <1>2. /\ useJit' \in BOOLEAN /\ running' \in BOOLEAN
        /\ me' \in Names \union {NoName}
    OBVIOUS
  <1>3. cleaned' \in BOOLEAN /\ created' \in BOOLEAN /\ guard' \in BOOLEAN
    OBVIOUS
  <1>4. /\ stored' \in BOOLEAN /\ child' \in BOOLEAN
        /\ mutex' \in Threads \union {NoThread}
    OBVIOUS
  <1>5. todo' \subseteq Names /\ found' \in BOOLEAN
    BY DEF Listed
  <1>6. vm' \in [Names -> {"absent", "cloning", "stopped", "running"}]
    OBVIOUS
  <1>7. record' \in [Names -> {"absent", "offline", "online"}]
    OBVIOUS
  <1>8. slotFile' \in Names \union {NoName}
    OBVIOUS
  <1>9. faults' \in 0..MaxFaults /\ signals' \in 0..MaxSignals
    OBVIOUS
  <1>10. dirty' \in BOOLEAN /\ missed' \in BOOLEAN /\ late' \subseteq Names
    OBVIOUS
  <1> QED
    BY ONLY <1>1, <1>2, <1>3, <1>4, <1>5, <1>6, <1>7, <1>8, <1>9, <1>10
    DEF TypeOK

(* The steps of cleanup(), the world's steps, and the process's end. *)
LEMMA TypeStep == TypeOK /\ [Next]_vars => TypeOK'
  <1> SUFFICES ASSUME TypeOK, [Next]_vars, ~MainStep
               PROVE  TypeOK'
    BY MainTypes
  <1>0. Launch => me' \in Names
    BY UnusedName
  <1> USE WorkerAssumption
      DEF TypeOK, Fault, NoFault, ident, flags, childVars, scratch, worldVars,
          budget, history, vars, Next, CleanupStep, CleanupSwap, CleanupChild,
          CleanupChildWait, CleanupList, CleanupDelete, CleanupPurge,
          CleanupRemove, Exit, Ended, Purged, Disconnected, Launch,
          DaemonCloned, Signal, Killed, RunnerConnects, JobDone, RunnerFails
  <1>1. pc' \in [Threads -> Locations]
    BY DEF Goto, Threads, Locations, MainLocations, CleanupBody
  <1>2. /\ useJit' \in BOOLEAN /\ running' \in BOOLEAN
        /\ me' \in Names \union {NoName}
    <2>1. useJit' \in BOOLEAN /\ running' \in BOOLEAN
      OBVIOUS
    <2>2. me' \in Names \/ me' = me
      BY <1>0
    <2> QED
      BY <2>1, <2>2
  <1>3. cleaned' \in BOOLEAN /\ created' \in BOOLEAN /\ guard' \in BOOLEAN
    OBVIOUS
  <1>4. /\ stored' \in BOOLEAN /\ child' \in BOOLEAN
        /\ mutex' \in Threads \union {NoThread}
    OBVIOUS
  <1>5. todo' \subseteq Names /\ found' \in BOOLEAN
    OBVIOUS
  <1>6. vm' \in [Names -> {"absent", "cloning", "stopped", "running"}]
    OBVIOUS
  <1>7. record' \in [Names -> {"absent", "offline", "online"}]
    OBVIOUS
  <1>8. slotFile' \in Names \union {NoName}
    OBVIOUS
  <1>9. faults' \in 0..MaxFaults /\ signals' \in 0..MaxSignals
    OBVIOUS
  <1>10. dirty' \in BOOLEAN /\ missed' \in BOOLEAN /\ late' \subseteq Names
    OBVIOUS
  <1> QED
    BY ONLY <1>1, <1>2, <1>3, <1>4, <1>5, <1>6, <1>7, <1>8, <1>9, <1>10
    DEF TypeOK

(* Every variable of a worker and of the world around it keeps its type.   *)
THEOREM WorkerTypes == SafetySpec => []TypeOK
  <1>1. Init => TypeOK
    <2> SUFFICES ASSUME Init
                 PROVE  TypeOK
      OBVIOUS
    <2>1. /\ useJit \in BOOLEAN /\ running \in BOOLEAN /\ cleaned \in BOOLEAN
          /\ created \in BOOLEAN /\ guard \in BOOLEAN /\ stored \in BOOLEAN
          /\ child \in BOOLEAN /\ found \in BOOLEAN /\ dirty \in BOOLEAN
          /\ missed \in BOOLEAN
      BY DEF Init
    <2>2. /\ me \in Names \union {NoName} /\ slotFile \in Names \union {NoName}
          /\ pc \in [Threads -> Locations] /\ mutex \in Threads \union {NoThread}
          /\ todo \subseteq Names /\ late \subseteq Names
          /\ vm \in [Names -> {"absent", "cloning", "stopped", "running"}]
          /\ record \in [Names -> {"absent", "offline", "online"}]
      BY Places DEF Init
    <2>3. faults \in 0..MaxFaults /\ signals \in 0..MaxSignals
      BY WorkerAssumption DEF Init
    <2> QED
      BY <2>1, <2>2, <2>3 DEF TypeOK
  <1> QED
    BY <1>1, TypeStep, PTL DEF SafetySpec

-----------------------------------------------------------------------------
(* The sweep. *)

(* A VM of the slot that the sweep had to know of: another one, that       *)
(* exists, was not completed after the list was made, and no call failed.  *)
Owed(n) ==
    n # me /\ vm[n] \in {"stopped", "running"} /\ ~missed /\ n \notin late

SweptInv ==
    /\ pc["main"] = "sweep" => \A n \in Names : Owed(n) => n \in todo
    /\ pc["main"] \in {"writeState", "regToken", "gate", "clone"} =>
          \A n \in Names : ~Owed(n)

(* lifecycle() comes to the clone by way of the sweep only, and the sweep   *)
(* reaps what it has listed.                                               *)
LEMMA MainSwept ==
    ASSUME TypeOK, SweptInv, MainStep
    PROVE  SweptInv'
  <1> USE DEF TypeOK, SweptInv, Owed, At, Goto, Fault, NoFault, Threads, ident,
          flags, childVars, scratch, worldVars, budget, history
  <1>1. CASE Precheck
    BY <1>1 DEF Precheck, Return
  <1>2. CASE SweepStateFile
    BY <1>2 DEF SweepStateFile, Reap, Purged, Disconnected
  <1>3. CASE SweepList
    BY <1>3 DEF SweepList, Listed
  <1>4. CASE SweepOne
    BY <1>4 DEF SweepOne, Reap, Purged, Disconnected
  <1>5. CASE SweepDone
    BY <1>5 DEF SweepDone
  <1>6. CASE WriteState
    BY <1>6 DEF WriteState
  <1>7. CASE RegToken
    BY <1>7 DEF RegToken, Return
  <1>8. CASE GateAcquire
    BY <1>8 DEF GateAcquire, Return
  <1>9. CASE CloneBegin
    BY <1>9 DEF CloneBegin
  <1>10. CASE CloneReturns
    BY <1>10 DEF CloneReturns, Return
  <1>11. CASE MarkCreated
    BY <1>11 DEF MarkCreated
  <1>12. CASE StartVM
    BY <1>12 DEF StartVM, Return
  <1>13. CASE SettleAndDrop
    BY <1>13 DEF SettleAndDrop
  <1>14. CASE WaitCloudInit
    BY <1>14 DEF WaitCloudInit, Return
  <1>15. CASE ConfigSh
    BY <1>15 DEF ConfigSh, RegistrationFails, Return
  <1>16. CASE GenerateJitconfig
    BY <1>16 DEF GenerateJitconfig, RegistrationFails, Return
  <1>17. CASE SpawnChild
    BY <1>17 DEF SpawnChild, Return
  <1>18. CASE StoreChild
    BY <1>18 DEF StoreChild
  <1>19. CASE WaitRegistration
    BY <1>19 DEF WaitRegistration, Return
  <1>20. CASE HealthMonitorReturns
    BY <1>20 DEF HealthMonitorReturns, Return
  <1> QED
    BY <1>1, <1>2, <1>3, <1>4, <1>5, <1>6, <1>7, <1>8, <1>9, <1>10,
       <1>11, <1>12, <1>13, <1>14, <1>15, <1>16, <1>17, <1>18, <1>19,
       <1>20
    DEF MainStep

(* cleanup() makes no VM.                                                  *)
LEMMA CleanupSwept ==
    ASSUME TypeOK, SweptInv, NEW t \in Threads, CleanupStep(t)
    PROVE  SweptInv'
  <1> USE DEF TypeOK, SweptInv, Owed, At, Goto, Fault, NoFault, Threads, ident,
          flags, childVars, scratch, worldVars, budget, history
  <1>1. CASE CleanupSwap(t)
    BY <1>1 DEF CleanupSwap
  <1>2. CASE CleanupChild(t)
    BY <1>2 DEF CleanupChild
  <1>3. CASE CleanupChildWait(t)
    BY <1>3 DEF CleanupChildWait, Disconnected
  <1>4. CASE CleanupList(t)
    BY <1>4 DEF CleanupList
  <1>5. CASE CleanupDelete(t)
    BY <1>5 DEF CleanupDelete
  <1>6. CASE CleanupPurge(t)
    BY <1>6 DEF CleanupPurge, Purged, Disconnected
  <1>7. CASE CleanupRemove(t)
    BY <1>7 DEF CleanupRemove
  <1>8. CASE Exit(t)
    BY <1>8 DEF Exit, Ended
  <1> QED
    BY <1>1, <1>2, <1>3, <1>4, <1>5, <1>6, <1>7, <1>8 DEF CleanupStep

LEMMA SweptStep == TypeOK /\ SweptInv /\ [Next]_vars => SweptInv'
  <1> SUFFICES ASSUME TypeOK, SweptInv, [Next]_vars
               PROVE  SweptInv'
    OBVIOUS
  <1> USE DEF TypeOK, SweptInv, Owed, At, Goto, Fault, NoFault, Threads, ident,
          flags, childVars, scratch, worldVars, budget, history
  <1>1. CASE Launch
    BY <1>1, UnusedName DEF Launch
  <1>2. ASSUME NEW n \in Names, DaemonCloned(n)
        PROVE  SweptInv'
    BY <1>2 DEF DaemonCloned
  <1>3. CASE MainStep
    BY <1>3, MainSwept
  <1>4. ASSUME NEW t \in Threads, CleanupStep(t)
        PROVE  SweptInv'
    BY <1>4, CleanupSwept
  <1>5. CASE Signal
    BY <1>5 DEF Signal
  <1>6. CASE Killed
    BY <1>6 DEF Killed, Ended
  <1>7. CASE RunnerConnects
    BY <1>7 DEF RunnerConnects
  <1>8. CASE JobDone
    BY <1>8 DEF JobDone
  <1>9. CASE RunnerFails
    BY <1>9 DEF RunnerFails, Disconnected
  <1>10. CASE UNCHANGED vars
    BY <1>10 DEF vars
  <1> QED
    BY <1>1, <1>2, <1>3, <1>4, <1>5, <1>6, <1>7, <1>8, <1>9, <1>10 DEF Next

(* A worker comes to its clone with no other VM left in the slot, save     *)
(* where a call of its sweep failed or multipassd completed the clone of a *)
(* dead worker after the sweep had listed the VMs.                         *)
THEOREM CloneAfterSweep == SafetySpec => []SweptBeforeClone
  <1>1. Init => SweptInv
    BY DEF Init, SweptInv, Threads
  <1>2. SweptInv => SweptBeforeClone
    BY DEF SweptInv, Owed, SweptBeforeClone, At
  <1> QED
    BY <1>1, <1>2, SweptStep, WorkerTypes, PTL DEF SafetySpec

-----------------------------------------------------------------------------
(* A worker that no signal has reached leaves nothing behind.  CleanExit   *)
(* says so of the process's end only; the invariant says at each location  *)
(* of the main thread what is known of the worker's own VM and record, and *)
(* that `created` tells cleanup() whether there is a VM to purge.          *)

OwnAbsent == vm[me] = "absent" /\ record[me] = "absent"

BeforeClone ==
    {"precheck", "sweepFile", "sweepList", "sweep", "writeState", "regToken",
     "gate", "clone"}

AfterCreated ==
    {"start", "settle", "cloudInit", "config", "jit", "spawn", "store",
     "registering", "monitoring"}

(* The signal thread sleeps, and nobody has run cleanup() yet. *)
MainAlone ==
    running => /\ me \in Names
               /\ pc["signal"] = "sigwait" /\ pc["main"] # "sigwait"
               /\ pc["main"] \in MainLocations \union {"swap"}
                     => cleaned = FALSE

(* The way up to the clone and past it. *)
OnTheWay ==
    /\ pc["main"] \in BeforeClone => created = FALSE /\ OwnAbsent
    /\ pc["main"] = "sweep" => me \notin todo
    /\ pc["main"] = "cloning" => created = FALSE /\ record[me] = "absent"
                                 /\ vm[me] \in {"cloning", "stopped"}
    /\ pc["main"] = "created" => record[me] = "absent" /\ vm[me] = "stopped"
    /\ pc["main"] \in AfterCreated => created = TRUE /\ vm[me] # "cloning"

(* What cleanup() has achieved so far, if nothing has failed. *)
TearingDown ==
    ~dirty =>
        /\ pc["main"] \in CleanupBody \union {"swap"} =>
              vm[me] # "cloning" /\ (created = FALSE => OwnAbsent)
        /\ pc["main"] = "delete" => found \/ record[me] = "absent"
        /\ pc["main"] = "purge" => record[me] = "absent"
        /\ pc["main"] \in {"remove", "exit"} => OwnAbsent

OwnInv ==
    signals = 0 =>
        /\ MainAlone
        /\ running => OnTheWay /\ TearingDown
        /\ CleanExit

(* lifecycle(): `created` is set as soon as the clone is known to exist.   *)
LEMMA MainOwn ==
    ASSUME TypeOK, OwnInv, MainStep
    PROVE  OwnInv'
  <1> USE WorkerAssumption
      DEF TypeOK, OwnInv, MainAlone, OnTheWay, TearingDown, CleanExit, OwnAbsent,
          BeforeClone, AfterCreated, MainLocations, CleanupBody, At, Goto, Fault,
          NoFault, Threads, ident, flags, childVars, scratch, worldVars,
          budget, history
  <1>1. CASE Precheck
    BY <1>1 DEF Precheck, Return
  <1>2. CASE SweepStateFile
    BY <1>2 DEF SweepStateFile, Reap, Purged, Disconnected
  <1>3. CASE SweepList
    BY <1>3 DEF SweepList, Listed
  <1>4. CASE SweepOne
    BY <1>4 DEF SweepOne, Reap, Purged, Disconnected
  <1>5. CASE SweepDone
    BY <1>5 DEF SweepDone
  <1>6. CASE WriteState
    BY <1>6 DEF WriteState
  <1>7. CASE RegToken
    BY <1>7 DEF RegToken, Return
  <1>8. CASE GateAcquire
    BY <1>8 DEF GateAcquire, Return
  <1>9. CASE CloneBegin
    BY <1>9 DEF CloneBegin
  <1>10. CASE CloneReturns
    BY <1>10 DEF CloneReturns, Return
  <1>11. CASE MarkCreated
    BY <1>11 DEF MarkCreated
  <1>12. CASE StartVM
    BY <1>12 DEF StartVM, Return
  <1>13. CASE SettleAndDrop
    BY <1>13 DEF SettleAndDrop
  <1>14. CASE WaitCloudInit
    BY <1>14 DEF WaitCloudInit, Return
  <1>15. CASE ConfigSh
    BY <1>15 DEF ConfigSh, RegistrationFails, Return
  <1>16. CASE GenerateJitconfig
    BY <1>16 DEF GenerateJitconfig, RegistrationFails, Return
  <1>17. CASE SpawnChild
    BY <1>17 DEF SpawnChild, Return
  <1>18. CASE StoreChild
    BY <1>18 DEF StoreChild
  <1>19. CASE WaitRegistration
    BY <1>19 DEF WaitRegistration, Return
  <1>20. CASE HealthMonitorReturns
    BY <1>20 DEF HealthMonitorReturns, Return
  <1> QED
    BY <1>1, <1>2, <1>3, <1>4, <1>5, <1>6, <1>7, <1>8, <1>9, <1>10,
       <1>11, <1>12, <1>13, <1>14, <1>15, <1>16, <1>17, <1>18, <1>19,
       <1>20
    DEF MainStep

(* cleanup(): each step achieves its part, or sets `dirty`.                *)
LEMMA CleanupOwn ==
    ASSUME TypeOK, OwnInv, NEW t \in Threads, CleanupStep(t)
    PROVE  OwnInv'
  <1> USE WorkerAssumption
      DEF TypeOK, OwnInv, MainAlone, OnTheWay, TearingDown, CleanExit, OwnAbsent,
          BeforeClone, AfterCreated, MainLocations, CleanupBody, At, Goto, Fault,
          NoFault, Threads, ident, flags, childVars, scratch, worldVars,
          budget, history
  <1>1. CASE CleanupSwap(t)
    BY <1>1 DEF CleanupSwap
  <1>2. CASE CleanupChild(t)
    BY <1>2 DEF CleanupChild
  <1>3. CASE CleanupChildWait(t)
    BY <1>3 DEF CleanupChildWait, Disconnected
  <1>4. CASE CleanupList(t)
    BY <1>4 DEF CleanupList
  <1>5. CASE CleanupDelete(t)
    BY <1>5 DEF CleanupDelete
  <1>6. CASE CleanupPurge(t)
    BY <1>6 DEF CleanupPurge, Purged, Disconnected
  <1>7. CASE CleanupRemove(t)
    BY <1>7 DEF CleanupRemove
  <1>8. CASE Exit(t)
    BY <1>8 DEF Exit, Ended
  <1> QED
    BY <1>1, <1>2, <1>3, <1>4, <1>5, <1>6, <1>7, <1>8 DEF CleanupStep

LEMMA OwnStep == TypeOK /\ OwnInv /\ [Next]_vars => OwnInv'
  <1> SUFFICES ASSUME TypeOK, OwnInv, [Next]_vars
               PROVE  OwnInv'
    OBVIOUS
  <1> USE WorkerAssumption
      DEF TypeOK, OwnInv, MainAlone, OnTheWay, TearingDown, CleanExit, OwnAbsent,
          BeforeClone, AfterCreated, MainLocations, CleanupBody, At, Goto, Fault,
          NoFault, Threads, ident, flags, childVars, scratch, worldVars,
          budget, history
  <1>1. CASE Launch
    BY <1>1, UnusedName DEF Launch
  <1>2. ASSUME NEW n \in Names, DaemonCloned(n)
        PROVE  OwnInv'
    BY <1>2 DEF DaemonCloned
  <1>3. CASE MainStep
    BY <1>3, MainOwn
  <1>4. ASSUME NEW t \in Threads, CleanupStep(t)
        PROVE  OwnInv'
    BY <1>4, CleanupOwn
  <1>5. CASE Signal
    BY <1>5 DEF Signal
  <1>6. CASE Killed
    BY <1>6 DEF Killed, Ended
  <1>7. CASE RunnerConnects
    BY <1>7 DEF RunnerConnects
  <1>8. CASE JobDone
    BY <1>8 DEF JobDone
  <1>9. CASE RunnerFails
    BY <1>9 DEF RunnerFails, Disconnected
  <1>10. CASE UNCHANGED vars
    BY <1>10 DEF vars
  <1> QED
    BY <1>1, <1>2, <1>3, <1>4, <1>5, <1>6, <1>7, <1>8, <1>9, <1>10 DEF Next

(* On its own, by the end of its job or by an error at any step, a worker  *)
(* leaves neither its VM nor its record behind, unless a call that cleanup *)
(* rests on failed or the process was killed.                              *)
THEOREM AloneLeavesNothing == SafetySpec => []UnsignalledCleanExit
  <1>1. Init => OwnInv
    BY WorkerAssumption DEF Init, OwnInv, MainAlone, CleanExit
  <1>2. OwnInv => UnsignalledCleanExit
    BY DEF OwnInv, UnsignalledCleanExit
  <1> QED
    BY <1>1, <1>2, OwnStep, WorkerTypes, PTL DEF SafetySpec
=============================================================================
