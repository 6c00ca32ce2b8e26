----------------------------- MODULE MCUninstall -----------------------------
(* Uninstall for TLC: the fleet of Gc with one pool of two slots.          *)
EXTENDS Uninstall

CONSTANTS ci, base

OnePool == << [name |-> <<ci>>, slots |-> {2, 3}] >>

(* A base image that carries the prefix of the pool. *)
Bases == { <<ci, base>> }
=============================================================================
