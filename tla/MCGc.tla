-------------------------------- MODULE MCGc --------------------------------
(* Gc for TLC.  Parts of names are model values, slots are numbers.  The   *)
(* names of HyphenPools collide: a VM of slot 2 of ci reads as one of pool *)
(* ci-2, and a sweep of that slot finds the VMs of ci-2.                   *)
EXTENDS Gc

CONSTANTS ci, large, base

HyphenPools ==
    << [name |-> <<ci, 2>>, slots |-> {10}], [name |-> <<ci>>, slots |-> {2}] >>

PlainPools ==
    << [name |-> <<ci>>, slots |-> {2}], [name |-> <<large>>, slots |-> {10}] >>

(* A base image that carries the prefix of a pool. *)
PoolBases == { <<ci, base>> }

(* vmfleet-ci-base, and one that is called like a VM of slot 2. *)
Bases == PoolBases \union { <<ci, 2, base>> }
=============================================================================
