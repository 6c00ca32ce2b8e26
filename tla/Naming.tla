------------------------------- MODULE Naming -------------------------------
(***************************************************************************)
(* The names vmfleet gives its VMs and finds them by (src/src/naming.rs).  *)
(* A name is the sequence of the parts between its hyphens, without the    *)
(* leading "vmfleet"; <ts>-<pid>, which tells the instances of a slot      *)
(* apart, is one part.  valid_name() in src/src/config.rs allows hyphens   *)
(* in a pool's name, so a pool's name is a sequence of parts as well.      *)
(***************************************************************************)
EXTENDS Naturals, Sequences

CONSTANT NoSlot   \* None: the name is not that of a VM of the pool

ASSUME NamingAssumption == NoSlot \notin Nat

IsName(name) == name \in Seq({name[k] : k \in DOMAIN name})

(* vm_name() *)
VmName(pool, slot, instance) == pool \o <<slot, instance>>

(* slot_vm_prefix(): it ends with a hyphen, so it matches whole parts. *)
PoolPrefix(pool, slot) == pool \* mutant: without the slot

SlotVmPrefix(pool, slot) == pool \o <<slot>>

StartsWith(name, prefix) ==
    Len(prefix) < Len(name) /\ \A k \in 1..Len(prefix) : name[k] = prefix[k]

(* slot_of_vm(): the part after the pool's name, if it is a number. *)
SlotOfVm(pool, name) ==
    IF StartsWith(name, pool) /\ name[Len(pool) + 1] \in Nat
      THEN name[Len(pool) + 1] ELSE NoSlot
=============================================================================
