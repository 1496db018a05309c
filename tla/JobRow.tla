------------------------------- MODULE JobRow -------------------------------
(***************************************************************************)
(* One row of the jobs table, and what each statement of the service does   *)
(* to it.  Every operator that returns a row is the SET list of one UPDATE  *)
(* (or of one ORM object flushed by one transaction); the WHERE clauses are *)
(* the predicates.  Timestamps are kept as what the code asks of them:      *)
(*   alive    heartbeat_at is younger than stale_heartbeat_s                *)
(*   overdue  created_at is older than queued_ttl_s                         *)
(*   recent   last_dispatched_at is set and younger than redispatch_after_s *)
(*   backoff  next_retry_at is set and still in the future                  *)
(* owner is worker_id: 0 is NULL, and every execution of the task draws a   *)
(* worker_id of its own, so the n-th claim of a job is identified with n.   *)
(***************************************************************************)
EXTENDS Naturals

CONSTANT MaxAttempts    \* settings.max_attempts, copied to every row

ASSUME MaxAttemptsAssumption == MaxAttempts \in Nat \ {0}

WaitingStatuses  == {"QUEUED", "RETRYING"}
ActiveStatuses   == WaitingStatuses \cup {"PROCESSING"}
TerminalStatuses == {"SUCCEEDED", "FAILED", "CANCELLED"}

\* EXTRACTION_ERROR stands for every code of a document's own fault, and
\* INFRASTRUCTURE_ERROR for both codes of an error taken for temporary.
ErrorCodes == {"WORKER_LOST", "EXPIRED", "INFRASTRUCTURE_ERROR", "EXTRACTION_ERROR"}

\* ABSENT stands for a job whose row has not been committed yet.
Row == [status   : {"ABSENT"} \cup ActiveStatuses \cup TerminalStatuses,
        attempts : 0 .. MaxAttempts,
        owner    : Nat,
        cancel   : BOOLEAN,
        alive    : BOOLEAN,
        overdue  : BOOLEAN,
        recent   : BOOLEAN,
        backoff  : BOOLEAN,
        error    : ErrorCodes \cup {"none"},
        finished : BOOLEAN]

NoRow == [status |-> "ABSENT", attempts |-> 0, owner |-> 0, cancel |-> FALSE,
          alive |-> FALSE, overdue |-> FALSE, recent |-> FALSE, backoff |-> FALSE,
          error |-> "none", finished |-> FALSE]

Waiting(r)  == r.status \in WaitingStatuses
Running(r)  == r.status = "PROCESSING"
Terminal(r) == r.status \in TerminalStatuses

(***************************************************************************)
(* Guards                                                                  *)
(***************************************************************************)
\* Mutant: whatever is asked for is claimed.
ClaimableAnyStatus(r) == ~r.cancel

Claimable(r) == Waiting(r) /\ ~r.cancel /\ r.attempts < MaxAttempts

\* Mutant: any running row is taken for one's own.
OwnedByAnyone(r, t) == Running(r)

\* Mutant: the row may have been settled meanwhile.
OwnedBySettled(r, t) == r.owner = t

\* The fence of every write a worker makes: still PROCESSING, still mine.
OwnedBy(r, t) == Running(r) /\ r.owner = t

Stale(r) == Running(r) /\ ~r.alive

Expired(r) == Waiting(r) /\ r.overdue

\* Mutant: only QUEUED jobs are looked for.
NeedsMessageQueued(r) == r.status = "QUEUED" /\ ~r.recent /\ ~r.backoff

NeedsMessage(r) == Waiting(r) /\ ~r.recent /\ ~r.backoff

(***************************************************************************)
(* Writes                                                                  *)
(***************************************************************************)
Dispatched(r) == [r EXCEPT !.recent = TRUE]

DispatchFailed(r) == [r EXCEPT !.recent = FALSE]

Created(r) == Dispatched([NoRow EXCEPT !.status = "QUEUED"])

\* The row of an upload answered with an earlier result.
Reused(r) == [NoRow EXCEPT !.status = "SUCCEEDED", !.finished = TRUE]

\* Mutant: the attempt is not counted.
ClaimedUncounted(r, t) == [r EXCEPT !.status = "PROCESSING", !.owner = t, !.alive = TRUE,
                                    !.backoff = FALSE, !.error = "none"]

Claimed(r, t) == [r EXCEPT !.status = "PROCESSING", !.attempts = @ + 1, !.owner = t,
                           !.alive = TRUE, !.backoff = FALSE, !.error = "none"]

Beaten(r) == [r EXCEPT !.alive = TRUE]

Succeeded(r) == [r EXCEPT !.status = "SUCCEEDED", !.finished = TRUE]

MarkFailed(r, code) == [r EXCEPT !.status = "FAILED", !.error = code, !.finished = TRUE]

Cancelled(r) == [r EXCEPT !.status = "CANCELLED", !.finished = TRUE]

RetryScheduled(r) == Dispatched([r EXCEPT !.status = "RETRYING", !.owner = 0, !.backoff = TRUE])

\* Mutant: one attempt too many.
TransientFailureLate(r) == IF r.attempts > MaxAttempts
                             THEN MarkFailed(r, "INFRASTRUCTURE_ERROR")
                             ELSE RetryScheduled(r)

\* The worker's way out of an error it takes for temporary.
TransientFailure(r) == IF r.attempts >= MaxAttempts
                         THEN MarkFailed(r, "INFRASTRUCTURE_ERROR")
                         ELSE RetryScheduled(r)

CancelRequested(r) == IF Waiting(r) THEN Cancelled([r EXCEPT !.cancel = TRUE])
                                    ELSE [r EXCEPT !.cancel = TRUE]

ManuallyRetried(r) == Dispatched([r EXCEPT !.status = "QUEUED", !.attempts = 0, !.cancel = FALSE,
                                           !.finished = FALSE, !.error = "none",
                                           !.overdue = FALSE])

Requeued(r) == Dispatched([r EXCEPT !.status = "QUEUED", !.owner = 0])

\* Mutant: a job out of attempts is put back like any other.
AfterStaleRequeues(r) == IF ~Stale(r)     THEN r
                         ELSE IF r.cancel THEN Cancelled(r)
                         ELSE Requeued(r)

\* Mutant: a job out of attempts is left alone.
AfterStaleForgets(r) == IF ~Stale(r) \/ r.attempts >= MaxAttempts THEN r
                        ELSE IF r.cancel                          THEN Cancelled(r)
                        ELSE Requeued(r)

\* The sweeper's loop over stale rows ...
AfterStale(r) == IF ~Stale(r)                     THEN r
                 ELSE IF r.cancel                 THEN Cancelled(r)
                 ELSE IF r.attempts >= MaxAttempts THEN MarkFailed(r, "WORKER_LOST")
                 ELSE Requeued(r)

\* Mutant: nothing expires.
AfterExpiryNever(r) == r

\* ... whose result its query for expired rows already sees (the session
\* flushes before it selects) ...
AfterExpiry(r) == IF Expired(r) THEN MarkFailed(r, "EXPIRED") ELSE r

\* ... and the write of its third loop, for a waiting row without a message.
Redispatched(r) == Dispatched([r EXCEPT !.status = "QUEUED"])
=============================================================================
