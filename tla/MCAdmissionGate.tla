-------------------------- MODULE MCAdmissionGate --------------------------
(* AdmissionGate for TLC: the thresholds are scaled down to single digits; *)
(* the host readings sit on both sides of each of them, on the boundary,   *)
(* and include readings that cannot be taken.                              *)
EXTENDS AdmissionGate

MCHosts ==
    { [avail |-> 4, psi |-> 1, disk |-> 3],                    \* clear
      [avail |-> 4, psi |-> 1, disk |-> Unreadable],           \* clear: MAX
      [avail |-> 3, psi |-> 1, disk |-> 3],                    \* low memory
      [avail |-> Unreadable, psi |-> 1, disk |-> 3],           \* blocked: 0
      [avail |-> 4, psi |-> Unreadable, disk |-> 2],           \* low disk
      [avail |-> 4, psi |-> 2, disk |-> 3] }                   \* at psi_max
=============================================================================
