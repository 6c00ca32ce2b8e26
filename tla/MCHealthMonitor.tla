-------------------------- MODULE MCHealthMonitor --------------------------
(* HealthMonitor for TLC; its constants are numbers given in the cfg. *)
EXTENDS HealthMonitor
=============================================================================
