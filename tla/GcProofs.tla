------------------------------ MODULE GcProofs ------------------------------
(***************************************************************************)
(* Proofs about prune and the sweeps beside it, for any pools and bases,   *)
(* any number of workers launched and of failing calls and crashes: what   *)
(* names tell (which other slots' VMs a sweep reaches, and when prune      *)
(* finds the slot of a VM), the types, that base images are kept, that a   *)
(* sweep takes no VM beyond that reach and that prune spares the workers   *)
(* it saw active.                                                          *)
(***************************************************************************)
EXTENDS Gc, TLAPS

(* What names tell. *)

LEMMA PoolOfSlot ==
    ASSUME NEW s \in Slots
    PROVE  \E p \in DOMAIN Pools :
              s \in Pools[p].slots /\ PoolName(s) = Pools[p].name
  <1>1. \E p \in DOMAIN Pools : s \in Pools[p].slots
    BY DEF Slots
  <1> QED
    BY <1>1 DEF PoolName

LEMMA PoolNames ==
    ASSUME NEW s \in Slots
    PROVE  /\ Len(PoolName(s)) \in Nat
           /\ \E T : PoolName(s) \in Seq(T)
  <1>1. PICK p \in DOMAIN Pools : PoolName(s) = Pools[p].name
    BY PoolOfSlot
  <1>2. PICK T : PoolName(s) \in Seq(T)
    BY <1>1, GcAssumption DEF IsName
  <1> QED
    BY <1>2

(* vm_name() and slot_vm_prefix(), part by part. *)
LEMMA NameParts ==
    ASSUME NEW s \in Slots, NEW i
    PROVE  LET pool == PoolName(s)
               name == VmName(pool, s, i)
               prefix == SlotVmPrefix(pool, s)
           IN  /\ Len(name) = Len(pool) + 2 /\ Len(prefix) = Len(pool) + 1
               /\ \A k \in 1..Len(pool) : name[k] = pool[k] /\ prefix[k] = pool[k]
               /\ name[Len(pool) + 1] = s /\ name[Len(pool) + 2] = i
               /\ prefix[Len(pool) + 1] = s
  <1> DEFINE pool == PoolName(s)
  <1>1. PICK T : pool \in Seq(T)
    BY PoolNames
  <1> DEFINE U == T \union {s, i}
  <1>2. pool \in Seq(U) /\ <<s, i>> \in Seq(U) /\ <<s>> \in Seq(U)
    BY <1>1
  <1> HIDE DEF pool, U
  <1>3. /\ Len(pool \o <<s, i>>) = Len(pool) + 2
        /\ \A k \in 1..Len(pool) : (pool \o <<s, i>>)[k] = pool[k]
        /\ (pool \o <<s, i>>)[Len(pool) + 1] = s
        /\ (pool \o <<s, i>>)[Len(pool) + 2] = i
    BY <1>2
  <1>4. /\ Len(pool \o <<s>>) = Len(pool) + 1
        /\ \A k \in 1..Len(pool) : (pool \o <<s>>)[k] = pool[k]
        /\ (pool \o <<s>>)[Len(pool) + 1] = s
    BY <1>2
  <1> QED
    BY <1>3, <1>4 DEF VmName, SlotVmPrefix, pool

(* A worker's VM carries the prefix of its slot. *)
LEMMA OwnPrefix ==
    ASSUME NEW s \in Slots, NEW i
    PROVE  StartsWith(VmName(PoolName(s), s, i), SlotVmPrefix(PoolName(s), s))
  <1> DEFINE n == Len(PoolName(s))
             name == VmName(PoolName(s), s, i)
             prefix == SlotVmPrefix(PoolName(s), s)
  <1>1. n \in Nat
    BY PoolNames
  <1>2. /\ Len(name) = n + 2 /\ Len(prefix) = n + 1
        /\ \A k \in 1..n : name[k] = prefix[k]
        /\ name[n + 1] = prefix[n + 1]
    BY NameParts
  <1> HIDE DEF n, name, prefix
  <1>3. \A k \in 1..(n + 1) : name[k] = prefix[k]
    BY <1>1, <1>2
  <1>4. StartsWith(name, prefix)
    BY <1>1, <1>2, <1>3 DEF StartsWith
  <1> QED
    BY <1>4 DEF name, prefix

(* Two names that agree part by part are the same. *)
LEMMA SameParts ==
    ASSUME NEW a, NEW b, IsName(a), IsName(b), Len(a) = Len(b),
           \A k \in 1..Len(a) : a[k] = b[k]
    PROVE  a = b
  <1>1. PICK A : a \in Seq(A)
    BY DEF IsName
  <1>2. PICK B : b \in Seq(B)
    BY DEF IsName
  <1>3. a \in Seq(A \union B) /\ b \in Seq(A \union B)
    BY <1>1, <1>2
  <1> QED
    BY <1>3

LEMMA PoolIsName ==
    ASSUME NEW s \in Slots
    PROVE  IsName(PoolName(s)) /\ IsName(SlotVmPrefix(PoolName(s), s))
  <1>1. IsName(PoolName(s))
    BY PoolOfSlot, GcAssumption
  <1>2. PICK T : PoolName(s) \in Seq(T)
    BY PoolNames
  <1> DEFINE prefix == PoolName(s) \o <<s>>
  <1>3. PoolName(s) \in Seq(T \union {s}) /\ <<s>> \in Seq(T \union {s})
    BY <1>2
  <1>4. prefix \in Seq(T \union {s})
    BY <1>3
  <1> HIDE DEF prefix
  <1>5. prefix \in Seq({prefix[k] : k \in DOMAIN prefix})
    BY <1>4
  <1> QED
    BY <1>1, <1>5 DEF IsName, SlotVmPrefix, prefix

(* The VMs of other slots that a sweep finds by its prefix are exactly     *)
(* those of the pools called after the sweeping slot: the hyphen at the    *)
(* end of slot_vm_prefix() keeps slot 2 from slot 20, and a slot from      *)
(* every other slot of its pool, but not slot 2 of ci from a pool ci-2.    *)
THEOREM SweepReach ==
    ASSUME NEW s \in Slots, NEW t \in Slots, s # t, NEW i
    PROVE  StartsWith(VmName(PoolName(t), t, i), SlotVmPrefix(PoolName(s), s))
               <=> NamedAfter(t, s)
  <1> DEFINE a == PoolName(t)
             b == PoolName(s)
             name == VmName(a, t, i)
             prefix == SlotVmPrefix(b, s)
  <1>1. Len(a) \in Nat /\ Len(b) \in Nat
    BY PoolNames
  <1>2. /\ Len(name) = Len(a) + 2 /\ Len(prefix) = Len(b) + 1
        /\ \A k \in 1..Len(a) : name[k] = a[k]
        /\ name[Len(a) + 1] = t
        /\ \A k \in 1..Len(b) : prefix[k] = b[k]
        /\ prefix[Len(b) + 1] = s
    BY NameParts
  <1>3. IsName(a) /\ IsName(prefix)
    BY PoolIsName
  <1>4. NamedAfter(t, s) <=> (a = prefix \/ StartsWith(a, prefix))
    BY DEF NamedAfter, SlotVmPrefix
  <1> HIDE DEF a, b, name, prefix
  <1>5. ASSUME StartsWith(name, prefix)
        PROVE  a = prefix \/ StartsWith(a, prefix)
    <2>1. Len(b) <= Len(a) /\ \A k \in 1..(Len(b) + 1) : name[k] = prefix[k]
      BY <1>1, <1>2, <1>5 DEF StartsWith
    <2>2. Len(b) # Len(a)
      BY <1>1, <1>2, <2>1
    <2>3. Len(prefix) <= Len(a) /\ \A k \in 1..Len(prefix) : a[k] = prefix[k]
      BY <1>1, <1>2, <2>1, <2>2
    <2>4. CASE Len(prefix) = Len(a)
      BY <1>3, <2>3, <2>4, SameParts
    <2>5. CASE Len(prefix) < Len(a)
      BY <2>3, <2>5 DEF StartsWith
    <2> QED
      BY <1>1, <1>2, <2>3, <2>4, <2>5
  <1>6. ASSUME a = prefix \/ StartsWith(a, prefix)
        PROVE  StartsWith(name, prefix)
    <2>1. Len(prefix) <= Len(a) /\ \A k \in 1..Len(prefix) : a[k] = prefix[k]
      BY <1>1, <1>2, <1>6 DEF StartsWith
    <2> QED
      BY <1>1, <1>2, <2>1 DEF StartsWith
  <1>7. StartsWith(name, prefix) <=> NamedAfter(t, s)
    BY <1>4, <1>5, <1>6
  <1> QED
    BY <1>7 DEF name, prefix, a, b

(* Of the pools listed before a slot's own, only those that shadow it fit  *)
(* the name of its VM.                                                     *)
LEMMA EarlierFits ==
    ASSUME NEW s \in Slots, ~Shadowed(s), NEW i,
           NEW p \in DOMAIN Pools, s \in Pools[p].slots,
           PoolName(s) = Pools[p].name,
           NEW q \in DOMAIN Pools, q < p
    PROVE  SlotOfVm(Pools[q].name, VmName(PoolName(s), s, i)) = NoSlot
  <1> DEFINE a == PoolName(s)
             c == Pools[q].name
             name == VmName(a, s, i)
             prefix == SlotVmPrefix(a, s)
  <1>1. SlotOfVm(c, a) = NoSlot /\ c # prefix
    BY DEF Shadowed, SlotVmPrefix
  <1>2. p \in Nat /\ q \in Nat
    <2>1. \A T : \A seq \in Seq(T) : DOMAIN seq \subseteq Nat
      OBVIOUS
    <2> QED
      BY <2>1, GcAssumption
  <1>3. a # c
    BY <1>2, GcAssumption
  <1>4. IsName(a) /\ IsName(c) /\ IsName(prefix)
    BY PoolIsName, GcAssumption
  <1>5. Len(a) \in Nat /\ Len(c) \in Nat
    BY <1>4 DEF IsName
  <1>6. /\ Len(name) = Len(a) + 2 /\ Len(prefix) = Len(a) + 1
        /\ \A k \in 1..Len(a) : name[k] = a[k] /\ prefix[k] = a[k]
        /\ name[Len(a) + 1] = s /\ prefix[Len(a) + 1] = s
    BY NameParts
  <1> HIDE DEF a, c, name, prefix
  <1> SUFFICES ASSUME SlotOfVm(c, name) # NoSlot
               PROVE  FALSE
    BY DEF a, c, name
  <1>7. StartsWith(name, c) /\ name[Len(c) + 1] \in Nat
    BY DEF SlotOfVm
  <1>8. Len(c) < Len(a) + 2 /\ \A k \in 1..Len(c) : name[k] = c[k]
    BY <1>6, <1>7 DEF StartsWith
  <1>9. CASE Len(c) < Len(a)
    <2>1. StartsWith(a, c)
      BY <1>5, <1>6, <1>8, <1>9 DEF StartsWith
    <2>2. a[Len(c) + 1] = name[Len(c) + 1]
      BY <1>5, <1>6, <1>9
    <2>3. a[Len(c) + 1] \in Nat
      BY <1>7, <2>2
    <2>4. SlotOfVm(c, a) = a[Len(c) + 1]
      BY <2>1, <2>3 DEF SlotOfVm
    <2> QED
      BY <1>1, <2>3, <2>4, NamingAssumption
  <1>10. CASE Len(c) = Len(a)
    <2>1. \A k \in 1..Len(a) : a[k] = c[k]
      BY <1>6, <1>8, <1>10
    <2> QED
      BY <1>3, <1>4, <1>10, <2>1, SameParts
  <1>11. CASE Len(c) = Len(a) + 1
    <2>1. \A k \in 1..Len(c) : c[k] = prefix[k]
      BY <1>5, <1>6, <1>8, <1>11
    <2> QED
      BY <1>1, <1>4, <1>6, <1>11, <2>1, SameParts
  <1> QED
    BY <1>5, <1>8, <1>9, <1>10, <1>11

(* gc finds the slot of a worker's VM from its name, unless an earlier     *)
(* pool shadows the slot.                                                  *)
LEMMA FoundSlot ==
    ASSUME NEW s \in Slots, ~Shadowed(s), NEW i
    PROVE  SlotFound(VmName(PoolName(s), s, i)) = s
  <1> DEFINE name == VmName(PoolName(s), s, i)
             fits == {p \in DOMAIN Pools : SlotOfVm(Pools[p].name, name) # NoSlot}
  <1>1. PICK p \in DOMAIN Pools :
            s \in Pools[p].slots /\ PoolName(s) = Pools[p].name
    BY PoolOfSlot
  <1>2. s \in Nat /\ s # NoSlot
    BY GcAssumption, NamingAssumption
  <1>3. SlotOfVm(Pools[p].name, name) = s
    <2>1. /\ Len(PoolName(s)) \in Nat /\ Len(name) = Len(PoolName(s)) + 2
          /\ \A k \in 1..Len(PoolName(s)) : name[k] = PoolName(s)[k]
          /\ name[Len(PoolName(s)) + 1] = s
      BY PoolNames, NameParts
    <2> HIDE DEF name
    <2>2. StartsWith(name, PoolName(s))
      BY <2>1 DEF StartsWith
    <2> QED
      BY <1>1, <1>2, <2>1, <2>2 DEF SlotOfVm
  <1>4. DOMAIN Pools \subseteq Nat
    <2>1. \A T : \A seq \in Seq(T) : DOMAIN seq \subseteq Nat
      OBVIOUS
    <2> QED
      BY <2>1, GcAssumption
  <1>5. \A q \in fits : ~(q < p)
    BY <1>1, EarlierFits
  <1>6. p \in fits /\ \A q \in fits : p <= q
    <2>1. p \in fits
      BY <1>2, <1>3
    <2>2. fits \subseteq Nat /\ p \in Nat
      BY <1>4
    <2> HIDE DEF fits
    <2> QED
      BY <1>5, <2>1, <2>2
  <1>7. (CHOOSE r \in fits : \A q \in fits : r <= q) = p
    <2>1. fits \subseteq Nat
      BY <1>4
    <2> HIDE DEF fits
    <2> QED
      BY <1>6, <2>1
  <1>8. SlotFound(name) = SlotOfVm(Pools[p].name, name)
    <2>1. fits # {}
      BY <1>6
    <2> HIDE DEF name
    <2> QED
      BY <1>7, <2>1 DEF SlotFound
  <1> QED
    BY <1>3, <1>8

-----------------------------------------------------------------------------
(* Types. *)

(* A worker is the first or a later one of its slot. *)
Launched == \A s \in Slots : worker[s] # "none" => instance[s] >= 1

LEMMA NamesKnown ==
    ASSUME TypeOK, Launched, NEW s \in Slots, worker[s] # "none"
    PROVE  Name(s) \in AllNames
  <1>1. instance[s] \in 1..MaxInstances
    BY GcAssumption DEF TypeOK, Launched
  <1> QED
    BY <1>1 DEF Name, AllNames

LEMMA WorkerTypes ==
    ASSUME TypeOK, Launched, NEW s \in Slots, WorkerStep(s)
    PROVE  TypeOK' /\ Launched'
  <1>1. MaxInstances \in Nat /\ MaxFaults \in Nat
    BY GcAssumption
  <1>2. UNCHANGED gcVars
    BY DEF WorkerStep, Launch, SweepLeftovers, CloneVM, Register, Connect, Cleanup, Crash
  <1>3. faults' \in 0..MaxFaults
    <2>1. faults \in 0..MaxFaults
      BY DEF TypeOK
    <2>2. UNCHANGED faults \/ Fault
      BY DEF WorkerStep, Launch, SweepLeftovers, CloneVM, Register, Connect, Cleanup,
             Crash
    <2> QED
      BY <1>1, <2>1, <2>2 DEF Fault
  <1>4. worker' \in [Slots -> {"none", "sweep", "clone", "cloned", "running"}]
    BY DEF TypeOK, WorkerStep, Launch, SweepLeftovers, CloneVM, Register, Connect,
           Cleanup, Crash, WorkerAt, workerVars
  <1>5. instance' \in [Slots -> 0..MaxInstances] /\ Launched'
    <2>1. CASE Launch(s)
      <3>1. /\ instance[s] \in 0..MaxInstances /\ instance[s] < MaxInstances
            /\ instance' = [instance EXCEPT ![s] = instance[s] + 1]
            /\ worker' = [worker EXCEPT ![s] = "sweep"]
        BY <2>1 DEF Launch, WorkerAt, TypeOK
      <3>2. instance[s] + 1 \in 1..MaxInstances
        BY <1>1, <3>1
      <3>3. instance' \in [Slots -> 0..MaxInstances]
        BY <3>1, <3>2 DEF TypeOK
      <3>4. \A t \in Slots : worker'[t] # "none" => instance'[t] >= 1
        BY <3>1, <3>2 DEF TypeOK, Launched
      <3> QED
        BY <3>3, <3>4 DEF Launched
    <2>2. CASE ~Launch(s)
      <3>1. UNCHANGED instance
        BY <2>2 DEF WorkerStep, SweepLeftovers, CloneVM, Register, Connect, Cleanup,
                    Crash, workerVars
      <3>2. \A t \in Slots : worker'[t] # "none" => worker[t] # "none"
        BY <2>2 DEF WorkerStep, SweepLeftovers, CloneVM, Register, Connect, Cleanup,
                    Crash, WorkerAt, workerVars, TypeOK
      <3> QED
        BY <3>1, <3>2 DEF TypeOK, Launched
    <2> QED
      BY <2>1, <2>2
  <1>6. /\ vms' \subseteq AllNames /\ cloning' \subseteq AllNames
        /\ offline' \subseteq AllNames /\ online' \subseteq AllNames
    <2>1. worker[s] # "none" => Name(s) \in AllNames
      BY NamesKnown
    <2> QED
      BY <2>1 DEF TypeOK, WorkerStep, Launch, SweepLeftovers, CloneVM, Register,
         Connect, Cleanup, Crash, WorkerAt, MayFinishClone, workerVars, world, records
  <1>7. settled' \subseteq Slots
    BY DEF TypeOK, WorkerStep, Launch, SweepLeftovers, CloneVM, Register, Connect,
           Cleanup, Crash
  <1> QED
    BY ONLY TypeOK, <1>2, <1>3, <1>4, <1>5, <1>6, <1>7 DEF TypeOK, gcVars

LEMMA GcTypes ==
    ASSUME TypeOK, Launched, GcStep \/ Disconnect \/ DaemonCloned
    PROVE  TypeOK' /\ Launched'
  <1>1. MaxFaults \in Nat
    BY GcAssumption
  <1> USE DEF GcStep, GcListActive, GcListVMs, GcPurge, GcPurged, GcListRunners,
              GcDelete, GcDone, GcEnds, Disconnect, DaemonCloned, workerVars, world,
              records, gcVars
  <1>2. UNCHANGED workerVars
    OBVIOUS
  <1>3. faults' \in 0..MaxFaults
    <2>1. faults \in 0..MaxFaults
      BY DEF TypeOK
    <2>2. UNCHANGED faults \/ Fault
      BY DEF NoFault
    <2> QED
      BY <1>1, <2>1, <2>2 DEF Fault
  <1>4. /\ vms' \subseteq AllNames /\ cloning' \subseteq AllNames
        /\ offline' \subseteq AllNames /\ online' \subseteq AllNames
    BY DEF TypeOK
  <1>5. gc' \in {"idle", "listVMs", "purge", "listRunners", "delete"}
    BY DEF TypeOK
  <1>6. active' \subseteq Slots /\ settled' \subseteq Slots
    BY DEF TypeOK
  <1>7. todo' \subseteq AllNames
    BY DEF TypeOK, Orphans
  <1> QED
    BY ONLY TypeOK, Launched, <1>2, <1>3, <1>4, <1>5, <1>6, <1>7
    DEF TypeOK, Launched, workerVars

LEMMA GcTypeStep == TypeOK /\ Launched /\ [Next]_vars => TypeOK' /\ Launched'
  <1> SUFFICES ASSUME TypeOK, Launched, [Next]_vars
               PROVE  TypeOK' /\ Launched'
    OBVIOUS
  <1>1. CASE UNCHANGED vars
    BY <1>1 DEF TypeOK, Launched, vars, workerVars, world, records, gcVars
  <1> QED
    BY <1>1, WorkerTypes, GcTypes DEF Next

LEMMA GcTypeInit == Init => TypeOK /\ Launched
  <1> SUFFICES ASSUME Init
               PROVE  TypeOK /\ Launched
    OBVIOUS
  <1>1. MaxInstances \in Nat /\ MaxFaults \in Nat
    BY GcAssumption
  <1> QED
    BY <1>1 DEF Init, TypeOK, Launched, AllNames

(* Every name prune or a sweep ever deals with is that of a base image or  *)
(* of a VM that a worker of some slot was launched for.                    *)
THEOREM GcTypesOK == SafetySpec => []TypeOK
  <1> QED
    BY GcTypeInit, GcTypeStep, PTL DEF SafetySpec

-----------------------------------------------------------------------------
(* Base images. *)

(* prune has no base image on its list. *)
BasesUnlisted == gc = "purge" => todo \cap BaseNames = {}

(* No sweep and no cleanup takes a base image that is not called like the  *)
(* VM of a slot.                                                           *)
LEMMA OwnNotBase ==
    ASSUME NEW s \in Slots
    PROVE  Name(s) \notin SafeBases /\ Leftovers(s) \cap SafeBases = {}
  <1>1. \A b \in SafeBases : ~StartsWith(b, SlotVmPrefix(PoolName(s), s))
    BY DEF SafeBases, SlotVmPrefix
  <1> QED
    BY <1>1, OwnPrefix DEF Name, Leftovers

LEMMA BasesStep ==
    ASSUME BasesUnlisted, [Next]_vars
    PROVE  BasesUnlisted' /\ (BasesKept => BasesKept')
  <1> USE DEF BasesKept
  <1>0. SafeBases \subseteq BaseNames
    BY DEF SafeBases
  <1>1. ASSUME NEW s \in Slots, WorkerStep(s)
        PROVE  BasesUnlisted' /\ (BasesKept => BasesKept')
    <2>1. UNCHANGED <<gc, todo>>
      BY <1>1 DEF WorkerStep, Launch, SweepLeftovers, CloneVM, Register, Connect,
                  Cleanup, Crash, gcVars
    <2>2. BasesKept => BasesKept'
      BY <1>1, OwnNotBase
      DEF BasesKept, WorkerStep, Launch, SweepLeftovers, CloneVM, Register, Connect,
          Cleanup, Crash, world
    <2> QED
      BY <2>1, <2>2 DEF BasesUnlisted
  <1>2. CASE Disconnect \/ DaemonCloned
    BY <1>2 DEF Disconnect, DaemonCloned, gcVars, BasesKept, BasesUnlisted
  <1>3. CASE GcStep
    <2>1. BasesKept => BasesKept'
      BY <1>0, <1>3 DEF GcStep, GcListActive, GcListVMs, GcPurge, GcPurged,
                        GcListRunners, GcDelete, GcDone, world, BasesUnlisted
    <2>2. BasesUnlisted'
      BY <1>3 DEF GcStep, GcListActive, GcListVMs, GcPurge, GcPurged, GcListRunners,
                  GcDelete, GcDone, GcEnds, Orphans, BasesUnlisted
    <2> QED
      BY <2>1, <2>2
  <1>4. CASE UNCHANGED vars
    BY <1>4 DEF vars, world, gcVars, BasesKept, BasesUnlisted
  <1> QED
    BY <1>1, <1>2, <1>3, <1>4 DEF Next

(* No sweep, no cleanup and no prune ever takes a base image that is not   *)
(* called like the VM of a slot, whatever pool names it starts with.       *)
THEOREM BasesSurvive == SafetySpec => []BasesKept
  <1>1. Init => BasesKept /\ BasesUnlisted
    BY DEF Init, BasesKept, BasesUnlisted, SafeBases
  <1>2. BasesKept /\ BasesUnlisted /\ [Next]_vars => BasesKept' /\ BasesUnlisted'
    BY BasesStep
  <1> QED
    BY <1>1, <1>2, PTL DEF SafetySpec

-----------------------------------------------------------------------------
(* Live workers. *)

(* However the pools are named, a sweep takes no VM of another slot of its *)
(* pool, nor one of a pool that is not called after the sweeping slot.     *)
THEOREM SweepsStayHome == SafetySpec => SweepOwnSlot
  <1> DEFINE Home == \A s, t \in Slots :
                  (SweepLeftovers(s) /\ t # s /\ ~NamedAfter(t, s))
                      => \A i \in 1..MaxInstances :
                            VmName(PoolName(t), t, i) \in vms
                                => VmName(PoolName(t), t, i) \in vms'
  <1>1. Home
    BY SweepReach DEF SweepLeftovers, Leftovers
  <1> QED
    BY <1>1, PTL DEF SafetySpec, SweepOwnSlot

(* prune's list holds no VM of a worker that it saw active and that lives  *)
(* on, unless the VM reads as one of another slot.                         *)
SettledUnlisted ==
    /\ settled \subseteq active
    /\ \A s \in settled : s \in Slots /\ worker[s] # "none"
    /\ gc = "purge" => \A s \in settled : ~Shadowed(s) => Name(s) \notin todo

LEMMA SettledStep ==
    ASSUME TypeOK, SettledUnlisted, [Next]_vars
    PROVE  SettledUnlisted'
  <1>1. ASSUME NEW s \in Slots, WorkerStep(s)
        PROVE  SettledUnlisted'
    <2>1. UNCHANGED <<gc, todo, active>> /\ settled' \subseteq settled
      BY <1>1 DEF WorkerStep, Launch, SweepLeftovers, CloneVM, Register, Connect,
                  Cleanup, Crash, gcVars
    <2>2. \A t \in settled' : worker'[t] # "none"
      BY <1>1 DEF WorkerStep, Launch, SweepLeftovers, CloneVM, Register, Connect,
                  Cleanup, Crash, WorkerAt, workerVars, SettledUnlisted, TypeOK
    <2>3. \A t \in settled : instance'[t] = instance[t]
      BY <1>1 DEF WorkerStep, Launch, SweepLeftovers, CloneVM, Register, Connect,
                  Cleanup, Crash, WorkerAt, workerVars, SettledUnlisted, TypeOK
    <2> QED
      BY <2>1, <2>2, <2>3 DEF SettledUnlisted, Name
  <1>2. CASE Disconnect \/ DaemonCloned
    BY <1>2 DEF Disconnect, DaemonCloned, gcVars, workerVars, SettledUnlisted, Name
  <1>3. CASE GcListVMs
    <2>1. UNCHANGED workerVars
      BY <1>3 DEF GcListVMs
    <2>2. CASE GcEnds
      BY <2>1, <2>2 DEF GcEnds, SettledUnlisted
    <2>3. CASE todo' = Orphans /\ UNCHANGED <<active, settled>>
      <3>1. ASSUME NEW s \in settled, ~Shadowed(s)
            PROVE  Name(s) \notin Orphans
        <4>1. s \in Slots /\ s \in active
          BY DEF SettledUnlisted
        <4>2. SlotFound(Name(s)) = s
          BY <3>1, <4>1, FoundSlot DEF Name
        <4> QED
          BY <4>1, <4>2 DEF Orphans
      <3> QED
        BY <2>1, <2>3, <3>1 DEF SettledUnlisted, Name, workerVars
    <2> QED
      BY <1>3, <2>2, <2>3 DEF GcListVMs
  <1>4. CASE GcStep /\ ~GcListVMs
    BY <1>4 DEF GcStep, GcListActive, GcPurge, GcPurged, GcListRunners, GcDelete,
                GcDone, GcEnds, workerVars, SettledUnlisted, Name
  <1>5. CASE UNCHANGED vars
    BY <1>5 DEF vars, workerVars, gcVars, SettledUnlisted, Name
  <1> QED
    BY <1>1, <1>2, <1>3, <1>4, <1>5 DEF Next

(* prune spares every worker that it saw active and that has lived on,     *)
(* whatever is launched, swept or crashes around it, unless the name of an *)
(* earlier pool makes its VM read as one of another slot.                  *)
THEOREM SettledSurvive == SafetySpec => SettledSpared
  <1> DEFINE Spared ==
                 \A s \in settled :
                     GcPurge /\ ~Shadowed(s) /\ Name(s) \in vms => Name(s) \in vms'
  <1>1. Init => SettledUnlisted
    BY DEF Init, SettledUnlisted
  <1>2. TypeOK /\ SettledUnlisted /\ [Next]_vars => SettledUnlisted'
    BY SettledStep
  <1>3. SettledUnlisted /\ [Next]_vars => [Spared]_vars
    BY DEF SettledUnlisted, GcPurge
  <1> QED
    BY <1>1, <1>2, <1>3, GcTypesOK, PTL DEF SafetySpec, SettledSpared
=============================================================================
