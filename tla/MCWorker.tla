------------------------------ MODULE MCWorker ------------------------------
(* Worker for TLC.  A run needs one name more than faults and signals can  *)
(* leave behind, or the slot runs out of names that only a model reuses.   *)
EXTENDS Worker
=============================================================================
