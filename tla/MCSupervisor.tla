---------------------------- MODULE MCSupervisor ----------------------------
(* Supervisor for TLC: one pool of two slots; and two pools that compete   *)
(* for one launch per cycle.                                               *)
EXTENDS Supervisor

OnePool ==
    << [labels |-> {"a"}, min_warm |-> 1, max |-> 2, slot_base |-> 1] >>

TwoPools ==
    << [labels |-> {"a"}, min_warm |-> 1, max |-> 1, slot_base |-> 1],
       [labels |-> {"b"}, min_warm |-> 1, max |-> 1, slot_base |-> 2] >>

(* Room for two VMs, for one, and a blocked host. *)
MCHosts ==
    { [avail |-> 4, psi |-> 0, disk |-> 1],
      [avail |-> 3, psi |-> 0, disk |-> 1],
      [avail |-> 3, psi |-> 1, disk |-> 1] }

(* Room for two VMs more at every reading. *)
ClearHosts == { [avail |-> 4, psi |-> 0, disk |-> 1] }
=============================================================================
