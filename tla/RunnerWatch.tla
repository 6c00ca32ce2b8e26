---------------------------- MODULE RunnerWatch ----------------------------
(***************************************************************************)
(* What a worker concludes about its runner, without the loops, clocks and *)
(* queries it takes: it passes from registering to monitoring only while   *)
(* GitHub has a record, gives up a monitored runner only when run.sh has   *)
(* ended or at a moment when the runner is not online, and never goes on   *)
(* watching for ever once run.sh has ended.  HealthMonitor implements it;  *)
(* Worker has these verdicts in the place of the loops.                    *)
(***************************************************************************)
VARIABLES
    phase,      \* registering, monitoring, over
    child,      \* run.sh is alive
    record      \* GitHub's runner record

watch == <<phase, child, record>>

Init ==
    /\ phase = "registering" /\ child = TRUE
    /\ record \in {"absent", "offline"}

Registers ==
    /\ phase = "registering" /\ record # "absent"
    /\ phase' = "monitoring"

(* run.sh has ended, or the deadline passed with the record absent or with *)
(* no answer.                                                              *)
NeverRegisters == phase = "registering" /\ phase' = "over"

Recycles ==
    /\ phase = "monitoring" /\ record # "online"
    /\ phase' = "over"

ChildGone ==
    /\ phase # "over" /\ ~child
    /\ phase' = "over"

Verdict ==
    /\ Registers \/ NeverRegisters \/ Recycles \/ ChildGone
    /\ UNCHANGED <<child, record>>

(* run.sh only ever ends, and not at the moment its record changes; the    *)
(* record comes, connects, drops and goes.                                 *)
World ==
    /\ phase # "over" /\ UNCHANGED phase
    /\ \/ child /\ child' = FALSE /\ UNCHANGED record
       \/ record' \in {"absent", "offline"} /\ UNCHANGED child
       \/ child /\ record = "offline" /\ record' = "online" /\ UNCHANGED child

Next == Verdict \/ World

Spec == Init /\ [][Next]_watch /\ WF_watch(ChildGone /\ UNCHANGED <<child, record>>)
=============================================================================
