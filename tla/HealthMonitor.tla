--------------------------- MODULE HealthMonitor ---------------------------
(***************************************************************************)
(* How a worker watches its runner once run.sh has been spawned:           *)
(* wait_registration() and then health_monitor() of src/src/worker.rs,     *)
(* with runner_state() and child_alive().  A turn of either loop checks    *)
(* that the run.sh child lives, asks GitHub for the runner's record, acts  *)
(* on the answer and sleeps one poll interval, the unit of time here.  A   *)
(* query may itself take time, because the client retries.                 *)
(***************************************************************************)
EXTENDS Integers

CONSTANTS
    Grace,        \* offline_grace_seconds, in polls
    RegTimeout,   \* registration_timeout_seconds, in polls
    QueryTime     \* longest a query takes, in polls

ASSUME MonitorAssumption ==
    Grace \in Nat /\ RegTimeout \in Nat /\ QueryTime \in Nat

VARIABLES
    pc,          \* location of the worker's main thread
    child,       \* the `multipass exec ... run.sh` child is alive
    record,      \* GitHub's record of the runner: absent, offline, online
    gone,        \* GitHub has deregistered the ephemeral runner for good
    age,         \* time spent in wait_registration
    since,       \* time since unhealthy_since was set, or Unset
    answer,      \* history: the last answer of runner_state in the monitor
    away,        \* history: time since the last Online answer
    confirmed    \* history: part of it spent after an unhealthy answer

vars == <<pc, child, record, gone, age, since, answer, away, confirmed>>

Unset == -1

RunnerStates == {"Online", "Offline", "Absent", "Unknown"}

(* The loops end: the runner is recycled, run.sh exited, or registration   *)
(* failed.  lifecycle() returns in all three and cleanup follows.          *)
Final == {"recycled", "exited", "failed"}

AtMost(n, cap) == IF n < cap THEN n ELSE cap

(* Instant::elapsed(): time d later.  Values beyond the last comparison    *)
(* that looks at them are not told apart.                                  *)
Elapsed(t, d) == IF t = Unset THEN Unset ELSE AtMost(t + d, Grace)

-----------------------------------------------------------------------------
RunnerStateOrAbsent(answered) == \* mutant: a failed query counts as Absent
    CASE ~answered \/ record = "absent" -> "Absent"
      [] answered /\ record = "online"  -> "Online"
      [] answered /\ record = "offline" -> "Offline"

(* runner_state(): the record by name, or Unknown when the query fails. *)
RunnerState(answered) ==
    CASE ~answered            -> "Unknown"
      [] record = "online"    -> "Online"
      [] record = "offline"   -> "Offline"
      [] record = "absent"    -> "Absent"

(* The record exists (JIT configuration or config.sh made it) but GitHub's *)
(* list may not show it yet.                                               *)
Init ==
    /\ pc = "registering"
    /\ child = TRUE
    /\ record \in {"absent", "offline"}
    /\ gone = FALSE
    /\ age = 0
    /\ since = Unset
    /\ answer = "none"
    /\ away = 0
    /\ confirmed = 0

(* History of the monitor's time: d has passed since the last answer. *)
TimePasses(d) ==
    /\ away' = AtMost(away + d, Grace)
    /\ confirmed' = IF answer \in {"Offline", "Absent"}
                       THEN AtMost(confirmed + d, Grace) ELSE confirmed

-----------------------------------------------------------------------------
(* `while child_alive(ctx)` of wait_registration; bail! when it fails. *)
RegCheckChild ==
    /\ pc = "registering"
    /\ pc' = IF child THEN "regQuery" ELSE "failed"
    /\ UNCHANGED <<child, record, gone, age, since, answer, away, confirmed>>

(* The deadline of wait_registration. *)
NoDeadline(spent) == FALSE \* mutant: not checked

DeadlinePassed(spent) == spent > RegTimeout

(* The body of the loop: a record that exists, online or not, counts as    *)
(* registered; otherwise the deadline is checked and the loop sleeps.      *)
RegQuery(d, answered) ==
    /\ pc = "regQuery"
    /\ LET registered == RunnerState(answered) \in {"Online", "Offline"}
           spent == AtMost(age + d, RegTimeout + 1)
       IN  \/ registered /\ pc' = "monitoring" /\ age' = 0
           \/ ~registered /\ DeadlinePassed(spent)
              /\ pc' = "failed" /\ age' = spent
           \/ ~registered /\ ~DeadlinePassed(spent)
              /\ pc' = "registering" /\ age' = spent + 1
    /\ UNCHANGED <<child, record, gone, since, answer, away, confirmed>>

(* `while child_alive(ctx)` of health_monitor. *)
MonCheckChild ==
    /\ pc = "monitoring"
    /\ pc' = IF child THEN "query" ELSE "exited"
    /\ UNCHANGED <<child, record, gone, age, since, answer, away, confirmed>>

(* unhealthy_since.get_or_insert_with(now), looked at d later. *)
UnhealthyForRestarted(d) == 0 \* mutant: insert() for get_or_insert_with()

UnhealthyFor(d) == IF since = Unset THEN 0 ELSE Elapsed(since, d)

(* since.elapsed() >= offline_grace *)
GraceOverEarly(t) == t + 1 >= Grace \* mutant: off by one poll

GraceOverStrict(t) == t > Grace \* mutant: off by one the other way

GraceOver(t) == t >= Grace

(* The match on runner_state(): Online clears unhealthy_since, Unknown     *)
(* leaves it alone, Absent and Offline set it once and compare it.         *)
MonQuery(d, answered) ==
    LET s == RunnerState(answered) IN
    /\ pc = "query"
    /\ answer' = s
    /\ \/ /\ s = "Online"
          /\ since' = Unset /\ pc' = "sleep"
          /\ away' = 0 /\ confirmed' = 0
       \/ /\ s = "Unknown"
          /\ since' = Elapsed(since, d) /\ pc' = "sleep"
          /\ TimePasses(d)
       \/ /\ s \in {"Absent", "Offline"}
          /\ since' = UnhealthyFor(d)
          /\ pc' = IF GraceOver(UnhealthyFor(d)) THEN "recycled" ELSE "sleep"
          /\ TimePasses(d)
    /\ UNCHANGED <<child, record, gone, age>>

(* thread::sleep(poll) of health_monitor. *)
MonSleep ==
    /\ pc = "sleep"
    /\ pc' = "monitoring"
    /\ since' = Elapsed(since, 1)
    /\ TimePasses(1)
    /\ UNCHANGED <<child, record, gone, age, answer>>

-----------------------------------------------------------------------------
(* run.sh and GitHub, outside this repository. *)
Env(step) ==
    /\ pc \notin Final
    /\ step
    /\ UNCHANGED <<pc, age, since, answer, away, confirmed>>

RecordListed == ~gone /\ record = "absent" /\ record' = "offline"
                /\ UNCHANGED <<child, gone>>

RunnerConnects == child /\ record = "offline" /\ record' = "online"
                  /\ UNCHANGED <<child, gone>>

RunnerDrops == record = "online" /\ record' = "offline"
               /\ UNCHANGED <<child, gone>>

(* The job is done or the session is lost: an ephemeral runner's record    *)
(* goes, while its run.sh may stay and retry for ever (a zombie).          *)
Deregistered == record # "absent" /\ record' = "absent" /\ gone' = TRUE
                /\ UNCHANGED child

ChildExits == child /\ child' = FALSE /\ UNCHANGED <<record, gone>>

GitHubStep ==
    \/ Env(RecordListed) \/ Env(RunnerConnects) \/ Env(RunnerDrops)
    \/ Env(Deregistered) \/ Env(ChildExits)

Queried(answered) ==
    \E d \in 0..QueryTime : RegQuery(d, answered) \/ MonQuery(d, answered)

(* The worker has stopped watching: nothing more happens here. *)
Terminated == pc \in Final /\ UNCHANGED vars

Next ==
    \/ RegCheckChild \/ MonCheckChild \/ MonSleep
    \/ Queried(TRUE) \/ Queried(FALSE)
    \/ GitHubStep \/ Terminated

(* The thread runs: its sleeps end and its queries return, answered or not. *)
Spec ==
    /\ Init /\ [][Next]_vars
    /\ WF_vars(RegCheckChild \/ MonCheckChild \/ MonSleep
               \/ Queried(TRUE) \/ Queried(FALSE))

-----------------------------------------------------------------------------
TypeOK ==
    /\ pc \in {"registering", "regQuery", "monitoring", "query", "sleep"}
              \union Final
    /\ child \in BOOLEAN /\ gone \in BOOLEAN
    /\ record \in {"absent", "offline", "online"}
    /\ age \in 0..(RegTimeout + 1)
    /\ since \in {Unset} \union 0..Grace
    /\ answer \in RunnerStates \union {"none"}
    /\ away \in 0..Grace
    /\ confirmed \in 0..Grace

(* A runner is recycled only after a whole grace period without a single   *)
(* Online answer, however queries fail and records flap in between: an     *)
(* Online answer clears unhealthy_since and nothing sets it back in time.  *)
RecycledOnlyAfterGrace == pc = "recycled" => away = Grace

(* The counterpart: the monitor never goes back to sleep on an unhealthy   *)
(* answer once a grace period of unhealthy answers has gone by.            *)
ReapedWithinGrace ==
    pc = "sleep" /\ answer \in {"Offline", "Absent"} => confirmed < Grace

(* A zombie (run.sh alive, runner never online again) is reaped in the     *)
(* end, unless from some point on no query of GitHub is answered.          *)
ZombieReaped ==
    ([]<><<Queried(TRUE)>>_vars /\ <>[](record # "online")) => <>(pc \in Final)

(* Registration comes to a verdict even if no query is ever answered:      *)
(* the deadline is checked on every turn of wait_registration's loop.      *)
RegistrationDecided ==
    pc = "registering" ~> pc \in {"monitoring", "failed"}

(* The verdict so far. *)
Phase ==
    CASE pc \in {"registering", "regQuery"} -> "registering"
      [] pc \in {"monitoring", "query", "sleep"} -> "monitoring"
      [] pc \in Final -> "over"

Watch == INSTANCE RunnerWatch WITH phase <- Phase

(* The two loops come to no other verdict than the ones RunnerWatch        *)
(* allows, which Worker relies on: in particular a monitored runner is     *)
(* never given up while it is online and run.sh alive, however many        *)
(* queries fail; and they do not outlive run.sh for ever.                  *)
WatchesRunner == Watch!Spec
=============================================================================
