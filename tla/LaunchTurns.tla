---------------------------- MODULE LaunchTurns ----------------------------
(***************************************************************************)
(* What the admission gate promises, without its lock file and without the *)
(* steps of a launch: the workers that create VMs take turns, a turn begun *)
(* is admitted to create its VM only at a moment when the host is clear,   *)
(* an admitted turn comes to an end, and so does the wait of a turn on a   *)
(* host that stays clear.  AdmissionGate implements it.                    *)
(***************************************************************************)
EXTENDS Resources

CONSTANTS Workers, NoWorker

VARIABLES
    holder,     \* the worker whose turn it is, or NoWorker
    admitted,   \* it has been let through to create its VM
    host        \* what the host would report now

turn == <<holder, admitted>>

Init == holder = NoWorker /\ admitted = FALSE /\ host \in Hosts

Take(w) ==
    /\ holder = NoWorker
    /\ holder' = w /\ admitted' = FALSE
    /\ UNCHANGED host

Admit ==
    /\ holder # NoWorker /\ ~admitted /\ ~Blocked(host)
    /\ admitted' = TRUE
    /\ UNCHANGED <<holder, host>>

Leave ==
    /\ holder # NoWorker
    /\ holder' = NoWorker /\ admitted' = FALSE
    /\ UNCHANGED host

HostMoves == host' \in Hosts /\ UNCHANGED turn

Next == (\E w \in Workers : Take(w)) \/ Admit \/ Leave \/ HostMoves

SafetySpec == Init /\ [][Next]_<<turn, host>>

Spec == SafetySpec /\ WF_turn(Admit) /\ WF_turn(admitted /\ Leave)
=============================================================================
