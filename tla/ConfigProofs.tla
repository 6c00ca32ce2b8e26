---------------------------- MODULE ConfigProofs ----------------------------
(***************************************************************************)
(* Proofs about validate(), for every number of pools and every width of   *)
(* the slot numbers: comparing neighbours in the sorted list is enough to  *)
(* keep all pools apart, also where slot_base + max wraps around.          *)
(***************************************************************************)
EXTENDS Config, WellFoundedInduction, TLAPS

LEMMA SlotNumbers ==
    ASSUME NEW pool, IsPool(pool)
    PROVE  pool.slot_base \in Nat /\ SlotEnd(pool) \in Nat
  <1>1. pool.slot_base \in Nat /\ pool.max \in Nat
    BY ConfigAssumption DEF IsPool
  <1> QED
    BY <1>1, ConfigAssumption DEF SlotEnd

LEMMA LeastNatural ==
    ASSUME NEW S, S \subseteq Nat, S # {}
    PROVE  \E x \in S : \A y \in S : x <= y
  <1>1. PICK x \in S : \A y \in S : ~(<<y, x>> \in OpToRel(<, Nat))
    BY NatLessThanWellFounded, WFMin
  <1>2. \A y \in S : y < x => <<y, x>> \in OpToRel(<, Nat)
    BY DEF OpToRel
  <1>3. \A y \in S : ~(y < x)
    BY <1>1, <1>2, Zenon
  <1> QED
    BY <1>3

(* The least of a set of pools in the order of SortsBefore: by start, then *)
(* by end, then by index.                                                  *)
LEMMA LeastPool ==
    ASSUME NEW pools, NEW n \in Nat, DOMAIN pools = 1..n,
           \A p \in DOMAIN pools : IsPool(pools[p]),
           NEW T, T \subseteq DOMAIN pools, T # {}
    PROVE  \E r \in T : \A s \in T : ~SortsBefore(pools, s, r)
  <1> DEFINE Start(p) == pools[p].slot_base
             End(p) == SlotEnd(pools[p])
             T1 == {p \in T : \A s \in T : Start(p) <= Start(s)}
             T2 == {p \in T1 : \A s \in T1 : End(p) <= End(s)}
  <1>1. \A p \in T : p \in Nat /\ Start(p) \in Nat /\ End(p) \in Nat
    BY ConfigAssumption DEF IsPool, SlotEnd
  <1>2. T1 # {}
    <2>1. {Start(p) : p \in T} \subseteq Nat /\ {Start(p) : p \in T} # {}
      BY <1>1
    <2>2. PICK x \in {Start(p) : p \in T} : \A y \in {Start(p) : p \in T} : x <= y
      BY <2>1, LeastNatural
    <2>3. PICK p \in T : x = Start(p)
      OBVIOUS
    <2>4. \A q \in T : Start(p) <= Start(q)
      BY <2>2, <2>3
    <2> QED
      BY <2>4
  <1>3. T2 # {}
    <2>1. {End(p) : p \in T1} \subseteq Nat /\ {End(p) : p \in T1} # {}
      BY <1>1, <1>2
    <2>2. PICK x \in {End(p) : p \in T1} : \A y \in {End(p) : p \in T1} : x <= y
      BY <2>1, LeastNatural
    <2>3. PICK p \in T1 : x = End(p)
      OBVIOUS
    <2>4. \A q \in T1 : End(p) <= End(q)
      BY <2>2, <2>3
    <2> QED
      BY <2>4
  <1>4. PICK r \in T2 : \A s \in T2 : r <= s
    BY <1>1, <1>3, LeastNatural
  <1>5. ASSUME NEW s \in T, SortsBefore(pools, s, r)
        PROVE  FALSE
    <2>1. r \in T1 /\ r \in T
      BY <1>4
    <2>2. Start(r) <= Start(s)
      BY <2>1
    <2>3. Start(s) = Start(r)
      BY <1>1, <1>5, <2>1, <2>2 DEF SortsBefore
    <2>4. s \in T1
      BY <2>1, <2>3
    <2>5. End(r) <= End(s)
      BY <1>4, <2>4
    <2>6. End(s) = End(r) /\ s < r
      BY <1>1, <1>5, <2>1, <2>3, <2>5 DEF SortsBefore
    <2>7. s \in T2
      BY <1>4, <2>4, <2>6
    <2> QED
      BY <1>1, <1>4, <2>1, <2>6, <2>7
  <1> QED
    BY <1>4, <1>5

(* Two pools are in order one way or the other. *)
LEMMA SortsTotal ==
    ASSUME NEW pools, NEW n \in Nat, DOMAIN pools = 1..n,
           \A p \in DOMAIN pools : IsPool(pools[p]),
           NEW p \in DOMAIN pools, NEW q \in DOMAIN pools, p # q
    PROVE  SortsBefore(pools, p, q) \/ SortsBefore(pools, q, p)
  <1>1. \A r \in DOMAIN pools : pools[r].slot_base \in Nat /\ SlotEnd(pools[r]) \in Nat
    BY SlotNumbers
  <1> QED
    BY <1>1 DEF SortsBefore

(* What precedes in the order ends before what follows begins.             *)
LEMMA SortedApart ==
    ASSUME NEW pools, NEW n \in Nat, DOMAIN pools = 1..n,
           \A p \in DOMAIN pools : IsPool(pools[p]), NoOverlap(pools),
           NEW p \in DOMAIN pools, NEW q \in DOMAIN pools,
           SortsBefore(pools, p, q)
    PROVE  SlotEnd(pools[p]) <= pools[q].slot_base
  <1> DEFINE After == {r \in DOMAIN pools : SortsBefore(pools, p, r)}
  <1>1. PICK r \in After : \A s \in After : ~SortsBefore(pools, s, r)
    BY LeastPool
  <1>2. Adjacent(pools, p, r)
    BY <1>1 DEF Adjacent
  <1>3. SlotEnd(pools[p]) <= pools[r].slot_base
    BY <1>1, <1>2 DEF NoOverlap
  <1>4. r = q \/ SortsBefore(pools, r, q)
    BY <1>1, SortsTotal
  <1>5. pools[r].slot_base <= pools[q].slot_base
    BY <1>1, <1>4 DEF SortsBefore, IsPool
  <1> QED
    BY <1>1, <1>3, <1>5, SlotNumbers

(* No two pools of a configuration that validate() accepts share a slot,   *)
(* whatever their slot_base and max: a range that wraps around is empty    *)
(* rather than overlapping another.                                        *)
THEOREM SlotsDisjoint ==
    ASSUME NEW cfg, IsConfig(cfg), Valid(cfg),
           NEW p \in DOMAIN cfg.pools, NEW q \in DOMAIN cfg.pools, p # q
    PROVE  SlotsOf(cfg.pools[p]) \cap SlotsOf(cfg.pools[q]) = {}
  <1> DEFINE pools == cfg.pools
  <1>1. PICK n \in Nat : DOMAIN pools = 1..n
    BY DEF IsConfig
  <1>2. (\A r \in DOMAIN pools : IsPool(pools[r])) /\ NoOverlap(pools)
    BY DEF IsConfig, Valid
  <1>3. \A r \in DOMAIN pools :
            pools[r].slot_base \in Nat /\ SlotEnd(pools[r]) \in Nat
    BY <1>2, SlotNumbers
  <1> HIDE DEF pools
  <1>4. \/ SlotEnd(pools[p]) <= pools[q].slot_base
        \/ SlotEnd(pools[q]) <= pools[p].slot_base
    BY <1>1, <1>2, SortsTotal, SortedApart DEF pools
  <1>5. SlotsOf(pools[p]) \cap SlotsOf(pools[q]) = {}
    BY <1>3, <1>4 DEF SlotsOf, pools
  <1> QED
    BY <1>5 DEF pools

(* Every slot of a pool fits 32 bits; a pool keeps all of its max slots    *)
(* exactly if its range does not wrap around.                              *)
THEOREM SlotsWithinWidth ==
    ASSUME NEW pool, IsPool(pool)
    PROVE  /\ SlotsOf(pool) \subseteq 0..(U32 - 1)
           /\ pool.slot_base + pool.max < U32 =>
                SlotsOf(pool) = pool.slot_base .. (pool.slot_base + pool.max - 1)
           /\ pool.slot_base + pool.max >= U32 => SlotsOf(pool) = {}
  <1>1. pool.slot_base \in 0..(U32 - 1) /\ pool.max \in 0..(U32 - 1) /\ U32 \in Nat \ {0}
    BY ConfigAssumption DEF IsPool
  <1> DEFINE a == pool.slot_base
             m == pool.max
  <1>2. CASE a + m < U32
    <2>1. SlotEnd(pool) = a + m
      BY <1>1, <1>2 DEF SlotEnd
    <2> QED
      BY <1>1, <1>2, <2>1 DEF SlotsOf
  <1>3. CASE a + m >= U32
    <2>1. SlotEnd(pool) = a + m - U32
      BY <1>1, <1>3 DEF SlotEnd
    <2> QED
      BY <1>1, <1>3, <2>1 DEF SlotsOf
  <1> QED
    BY <1>1, <1>2, <1>3

(* base_for() of a pool that validate() accepts is one of the configured   *)
(* bases, and the one the pool names if it names one.                      *)
THEOREM BaseForDefined ==
    ASSUME NEW cfg, IsConfig(cfg), Valid(cfg), NEW p \in DOMAIN cfg.pools
    PROVE  /\ \E b \in DOMAIN cfg.bases : BaseFor(cfg, cfg.pools[p]) = cfg.bases[b]
           /\ cfg.pools[p].base # NoBase
                => BaseFor(cfg, cfg.pools[p]) = cfg.pools[p].base
  <1>1. cfg.pools[p].base # NoBase =>
            \E b \in DOMAIN cfg.bases : cfg.bases[b] = cfg.pools[p].base
    BY DEF Valid, ValidPool
  <1>2. 1 \in DOMAIN cfg.bases
    BY DEF IsConfig, Valid
  <1> QED
    BY <1>1, <1>2 DEF BaseFor
=============================================================================
