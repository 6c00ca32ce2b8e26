------------------------------- MODULE Config -------------------------------
(***************************************************************************)
(* The configuration and its checks (src/src/config.rs).  A configuration  *)
(* is a record: `version`; `scope`, which of repo and org are set; `bases`,*)
(* the names of the base images; and `pools`.  slot_base + max is computed *)
(* in 32 bits: a release build wraps around.                               *)
(***************************************************************************)
EXTENDS Integers, Sequences, FiniteSets

CONSTANTS
    ValidNames,       \* what valid_name() accepts
    NoBase,           \* a pool without `base`
    CurrentVersion,   \* CURRENT_VERSION
    U32               \* 2^32

ASSUME ConfigAssumption ==
    U32 \in Nat \ {0} /\ CurrentVersion \in 0..(U32 - 1)

(* What serde reads into a Pool and a Config, valid or not. *)
IsPool(pool) ==
    /\ pool = [name |-> pool.name, labels |-> pool.labels, base |-> pool.base,
               min_warm |-> pool.min_warm, max |-> pool.max,
               slot_base |-> pool.slot_base]
    /\ pool.min_warm \in 0..(U32 - 1)
    /\ pool.slot_base \in 0..(U32 - 1) /\ pool.max \in 0..(U32 - 1)

IsConfig(cfg) ==
    /\ cfg = [version |-> cfg.version, scope |-> cfg.scope,
              bases |-> cfg.bases, pools |-> cfg.pools]
    /\ cfg.version \in 0..(U32 - 1)
    /\ cfg.bases \in Seq({cfg.bases[b] : b \in DOMAIN cfg.bases})
    /\ cfg.pools \in Seq({cfg.pools[p] : p \in DOMAIN cfg.pools})
    /\ \A p \in DOMAIN cfg.pools : IsPool(cfg.pools[p])

SlotEnd(pool) == (pool.slot_base + pool.max) % U32

(* Pool::slots() *)
SlotsOf(pool) == pool.slot_base .. (SlotEnd(pool) - 1)

Distinct(names) == \A i, j \in DOMAIN names : names[i] = names[j] => i = j

(* `ranges` sorted: by start, then by end.  Pools with equal ranges follow *)
(* each other in the order of their names, here in that of the file.       *)
SortsBefore(pools, p, q) ==
    \/ pools[p].slot_base < pools[q].slot_base
    \/ /\ pools[p].slot_base = pools[q].slot_base
       /\ \/ SlotEnd(pools[p]) < SlotEnd(pools[q])
          \/ SlotEnd(pools[p]) = SlotEnd(pools[q]) /\ p < q

(* ranges.windows(2) *)
Adjacent(pools, p, q) ==
    /\ SortsBefore(pools, p, q)
    /\ \A r \in DOMAIN pools :
          ~(SortsBefore(pools, p, r) /\ SortsBefore(pools, r, q))

NoOverlap(pools) ==
    \A p, q \in DOMAIN pools :
        Adjacent(pools, p, q) => SlotEnd(pools[p]) <= pools[q].slot_base

ValidPool(pool, bases) ==
    /\ pool.max > 0
    /\ pool.min_warm <= pool.max
    /\ pool.labels # {}
    /\ pool.name \in ValidNames
    /\ pool.base # NoBase => \E b \in DOMAIN bases : bases[b] = pool.base

(* Config::validate() *)
Valid(cfg) ==
    /\ Cardinality(cfg.scope) = 1
    /\ cfg.bases # <<>> /\ Distinct(cfg.bases)
    /\ \A b \in DOMAIN cfg.bases : cfg.bases[b] \in ValidNames
    /\ cfg.pools # <<>>
    /\ Distinct([p \in DOMAIN cfg.pools |-> cfg.pools[p].name])
    /\ \A p \in DOMAIN cfg.pools : ValidPool(cfg.pools[p], cfg.bases)
    /\ NoOverlap(cfg.pools)

(* migrate() *)
MigratedAgain(cfg) == \* mutant: one version up, without looking at it
    [cfg EXCEPT !.version = @ + 1]

Migrated(cfg) ==
    IF cfg.version < CurrentVersion
      THEN [cfg EXCEPT !.version = CurrentVersion] ELSE cfg

(* base_for() *)
BaseFor(cfg, pool) ==
    IF \E b \in DOMAIN cfg.bases : cfg.bases[b] = pool.base
      THEN pool.base ELSE cfg.bases[1]
=============================================================================
