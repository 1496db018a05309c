----------------------------- MODULE JobContract -----------------------------
(***************************************************************************)
(* What the service promises about a job, with no worker, broker, lease or  *)
(* sweeper in sight: a job is submitted once, is started at most            *)
(* MaxAttempts times, has at most one outcome, and only a job that failed   *)
(* or was cancelled can be reopened.  A job that was never started succeeds *)
(* only at once and with the result of one that was.  Several jobs may move *)
(* in one step, because one transaction of the sweeper settles many rows.   *)
(***************************************************************************)
EXTENDS Naturals

CONSTANTS Jobs, MaxAttempts

VARIABLE promise    \* what a client that polls sees of every job

Outcomes == {"succeeded", "failed", "cancelled"}

Phases == {"absent", "waiting", "running"} \cup Outcomes

Promises == [phase : Phases, starts : 0 .. MaxAttempts]

Absent == [phase |-> "absent", starts |-> 0]

Fresh == [phase |-> "waiting", starts |-> 0]

(***************************************************************************)
(* How one job may move from s to t.                                       *)
(***************************************************************************)
Submit(s, t) == s = Absent /\ t = Fresh

Start(s, t) == /\ s.phase = "waiting" /\ s.starts < MaxAttempts
               /\ t = [phase |-> "running", starts |-> s.starts + 1]

GiveBack(s, t) == /\ s.phase = "running" /\ s.starts < MaxAttempts
                  /\ t = [s EXCEPT !.phase = "waiting"]

Conclude(s, t) == /\ s.phase = "running"
                  /\ \E o \in Outcomes : t = [s EXCEPT !.phase = o]

Withdraw(s, t) == /\ s.phase = "waiting"
                  /\ \E o \in {"failed", "cancelled"} : t = [s EXCEPT !.phase = o]

Reopen(s, t) == s.phase \in {"failed", "cancelled"} /\ t = Fresh

JobStep(s, t) == Submit(s, t) \/ Start(s, t) \/ GiveBack(s, t)
                   \/ Conclude(s, t) \/ Withdraw(s, t) \/ Reopen(s, t)

(***************************************************************************)
(* How a job may appear with the result of another one.                    *)
(***************************************************************************)
Earned(s) == s.phase = "succeeded" /\ s.starts > 0

Reuse(s, t) == /\ s = Absent /\ t = [phase |-> "succeeded", starts |-> 0]
               /\ \E k \in Jobs : Earned(promise[k])

Init == promise = [j \in Jobs |-> Absent]

Next == /\ promise' \in [Jobs -> Promises]
        /\ \A j \in Jobs : \/ promise'[j] = promise[j]
                          \/ JobStep(promise[j], promise'[j])
                          \/ Reuse(promise[j], promise'[j])

Spec == Init /\ [][Next]_promise
=============================================================================
