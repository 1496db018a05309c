------------------------- MODULE JobLifecycle_proofs -------------------------
(***************************************************************************)
(* Proofs about JobLifecycle, for any jobs, workers, bounds and             *)
(* environment: what each write of JobRow does to a row; types; what a step *)
(* may do to one row (RowMoves, RowEffects), and the properties of rows that *)
(* follow with no action in sight; what a step may do to one worker slot     *)
(* (SlotMoves), and the properties of executions.                           *)
(***************************************************************************)
EXTENDS JobLifecycle, TLAPS

(***************************************************************************)
(* What each write of JobRow does to a row, stated once: it yields a row,   *)
(* and this is its effect on status, attempts, owner and the request to     *)
(* cancel.  What follows cites these and leaves the writes folded.          *)
(***************************************************************************)
\* r and s differ at most in what the clock and the publisher change.
SameButTime(r, s) == /\ s.status = r.status /\ s.attempts = r.attempts /\ s.owner = r.owner
                     /\ s.cancel = r.cancel /\ s.error = r.error

LEMMA AttemptRange == /\ 0 \in 0 .. MaxAttempts
                      /\ \A r \in Row : r.attempts \in 0 .. MaxAttempts /\ r.attempts \in Nat
  <1>1. 0 \in 0 .. MaxAttempts
    BY MaxAttemptsAssumption
  <1>2. \A r \in Row : r.attempts \in 0 .. MaxAttempts
    BY DEF Row
  <1> QED
    BY <1>1, <1>2, MaxAttemptsAssumption

LEMMA NoRowIsRow == NoRow \in Row
  BY AttemptRange DEF NoRow, Row

LEMMA DispatchedRow ==
  ASSUME NEW r \in Row
  PROVE  Dispatched(r) \in Row /\ SameButTime(r, Dispatched(r))
  BY DEF Dispatched, Row, SameButTime

LEMMA DispatchFailedRow ==
  ASSUME NEW r \in Row
  PROVE  DispatchFailed(r) \in Row /\ SameButTime(r, DispatchFailed(r))
  BY DEF DispatchFailed, Row, SameButTime

LEMMA BeatenRow ==
  ASSUME NEW r \in Row
  PROVE  Beaten(r) \in Row /\ SameButTime(r, Beaten(r))
  BY DEF Beaten, Row, SameButTime

LEMMA AgedRow ==
  ASSUME NEW r \in Row, NEW b \in BOOLEAN
  PROVE  /\ [r EXCEPT !.alive = b] \in Row   /\ SameButTime(r, [r EXCEPT !.alive = b])
         /\ [r EXCEPT !.recent = b] \in Row  /\ SameButTime(r, [r EXCEPT !.recent = b])
         /\ [r EXCEPT !.backoff = b] \in Row /\ SameButTime(r, [r EXCEPT !.backoff = b])
         /\ [r EXCEPT !.overdue = b] \in Row /\ SameButTime(r, [r EXCEPT !.overdue = b])
  BY DEF Row, SameButTime

LEMMA CreatedRow ==
  ASSUME NEW r
  PROVE  /\ Created(r) \in Row
         /\ Created(r).status = "QUEUED" /\ Created(r).attempts = 0
         /\ Created(r).owner = 0 /\ ~Created(r).cancel
  <1> DEFINE q == [NoRow EXCEPT !.status = "QUEUED"]
  <1>1. q \in Row
    BY NoRowIsRow DEF Row, ActiveStatuses, WaitingStatuses
  <1>2. q.status = "QUEUED" /\ q.attempts = 0 /\ q.owner = 0 /\ ~q.cancel
    BY DEF NoRow
  <1>3. Created(r) = Dispatched(q)
    BY DEF Created
  <1> QED
    BY <1>1, <1>2, <1>3, DispatchedRow DEF SameButTime

LEMMA ReusedRow ==
  ASSUME NEW r
  PROVE  /\ Reused(r) \in Row
         /\ Reused(r).status = "SUCCEEDED" /\ Reused(r).attempts = 0 /\ ~Reused(r).cancel
  <1>1. Reused(r) = [NoRow EXCEPT !.status = "SUCCEEDED", !.finished = TRUE]
    BY DEF Reused
  <1>2. Reused(r) \in Row
    BY <1>1, NoRowIsRow DEF Row, TerminalStatuses
  <1>3. Reused(r).status = "SUCCEEDED" /\ Reused(r).attempts = 0 /\ ~Reused(r).cancel
    BY <1>1 DEF NoRow
  <1> QED
    BY <1>2, <1>3

LEMMA ClaimedRow ==
  ASSUME NEW r \in Row, NEW t \in Nat, Claimable(r)
  PROVE  /\ Claimed(r, t) \in Row
         /\ Claimed(r, t).status = "PROCESSING" /\ Claimed(r, t).attempts = r.attempts + 1
         /\ Claimed(r, t).owner = t /\ Claimed(r, t).cancel = r.cancel
  <1> DEFINE n == r.attempts + 1
  <1>1. n \in 0 .. MaxAttempts
    BY AttemptRange, MaxAttemptsAssumption DEF Claimable
  <1>2. Claimed(r, t) = [r EXCEPT !.status = "PROCESSING", !.attempts = n, !.owner = t,
                                  !.alive = TRUE, !.backoff = FALSE, !.error = "none"]
    BY DEF Claimed
  <1> HIDE DEF n
  <1>3. Claimed(r, t) \in Row
    BY <1>1, <1>2 DEF Row, ActiveStatuses
  <1>4. /\ Claimed(r, t).status = "PROCESSING" /\ Claimed(r, t).attempts = n
        /\ Claimed(r, t).owner = t /\ Claimed(r, t).cancel = r.cancel
    BY <1>2 DEF Row
  <1> QED
    BY <1>3, <1>4 DEF n

LEMMA SucceededRow ==
  ASSUME NEW r \in Row
  PROVE  /\ Succeeded(r) \in Row
         /\ Succeeded(r).status = "SUCCEEDED" /\ Succeeded(r).attempts = r.attempts
         /\ Succeeded(r).owner = r.owner /\ Succeeded(r).cancel = r.cancel
  BY DEF Succeeded, Row, TerminalStatuses

LEMMA MarkFailedRow ==
  ASSUME NEW r \in Row, NEW c \in ErrorCodes
  PROVE  /\ MarkFailed(r, c) \in Row
         /\ MarkFailed(r, c).status = "FAILED" /\ MarkFailed(r, c).attempts = r.attempts
         /\ MarkFailed(r, c).owner = r.owner /\ MarkFailed(r, c).cancel = r.cancel
  BY DEF MarkFailed, Row, TerminalStatuses

LEMMA CancelledRow ==
  ASSUME NEW r \in Row
  PROVE  /\ Cancelled(r) \in Row
         /\ Cancelled(r).status = "CANCELLED" /\ Cancelled(r).attempts = r.attempts
         /\ Cancelled(r).owner = r.owner /\ Cancelled(r).cancel = r.cancel
  BY DEF Cancelled, Row, TerminalStatuses

LEMMA RetryScheduledRow ==
  ASSUME NEW r \in Row
  PROVE  /\ RetryScheduled(r) \in Row
         /\ RetryScheduled(r).status = "RETRYING" /\ RetryScheduled(r).attempts = r.attempts
         /\ RetryScheduled(r).owner = 0 /\ RetryScheduled(r).cancel = r.cancel
  <1> DEFINE q == [r EXCEPT !.status = "RETRYING", !.owner = 0, !.backoff = TRUE]
  <1>1. /\ q \in Row /\ q.status = "RETRYING" /\ q.attempts = r.attempts
        /\ q.owner = 0 /\ q.cancel = r.cancel
    BY DEF Row, ActiveStatuses, WaitingStatuses
  <1>2. RetryScheduled(r) = Dispatched(q)
    BY DEF RetryScheduled
  <1> QED
    BY <1>1, <1>2, DispatchedRow DEF SameButTime

LEMMA TransientFailureRow ==
  ASSUME NEW r \in Row
  PROVE  /\ TransientFailure(r) \in Row
         /\ TransientFailure(r).attempts = r.attempts
         /\ TransientFailure(r).owner \in {0, r.owner}
         /\ TransientFailure(r).cancel = r.cancel
         /\ \/ TransientFailure(r).status = "FAILED"
            \/ TransientFailure(r).status = "RETRYING" /\ r.attempts < MaxAttempts
  <1>1. CASE r.attempts >= MaxAttempts
    BY <1>1, MarkFailedRow DEF TransientFailure, ErrorCodes
  <1>2. CASE ~(r.attempts >= MaxAttempts)
    <2>1. r.attempts < MaxAttempts
      BY <1>2, AttemptRange, MaxAttemptsAssumption
    <2> QED
      BY <1>2, <2>1, RetryScheduledRow DEF TransientFailure
  <1> QED
    BY <1>1, <1>2

LEMMA CancelRequestedRow ==
  ASSUME NEW r \in Row
  PROVE  /\ CancelRequested(r) \in Row
         /\ CancelRequested(r).status = IF Waiting(r) THEN "CANCELLED" ELSE r.status
         /\ CancelRequested(r).attempts = r.attempts
         /\ CancelRequested(r).owner = r.owner /\ CancelRequested(r).cancel
  <1> DEFINE q == [r EXCEPT !.cancel = TRUE]
  <1>1. /\ q \in Row /\ q.status = r.status /\ q.attempts = r.attempts
        /\ q.owner = r.owner /\ q.cancel
    BY DEF Row
  <1>2. CancelRequested(r) = IF Waiting(r) THEN Cancelled(q) ELSE q
    BY DEF CancelRequested
  <1> QED
    BY <1>1, <1>2, CancelledRow

LEMMA ManuallyRetriedRow ==
  ASSUME NEW r \in Row
  PROVE  /\ ManuallyRetried(r) \in Row
         /\ ManuallyRetried(r).status = "QUEUED" /\ ManuallyRetried(r).attempts = 0
         /\ ManuallyRetried(r).owner = r.owner /\ ~ManuallyRetried(r).cancel
  <1> DEFINE q == [r EXCEPT !.status = "QUEUED", !.attempts = 0, !.cancel = FALSE,
                            !.finished = FALSE, !.error = "none", !.overdue = FALSE]
  <1>1. q \in Row
    BY AttemptRange DEF Row, ActiveStatuses, WaitingStatuses
  <1>2. q.status = "QUEUED" /\ q.attempts = 0 /\ q.owner = r.owner /\ ~q.cancel
    BY DEF Row
  <1>3. ManuallyRetried(r) = Dispatched(q)
    BY DEF ManuallyRetried
  <1> QED
    BY <1>1, <1>2, <1>3, DispatchedRow DEF SameButTime

LEMMA RequeuedRow ==
  ASSUME NEW r \in Row
  PROVE  /\ Requeued(r) \in Row
         /\ Requeued(r).status = "QUEUED" /\ Requeued(r).attempts = r.attempts
         /\ Requeued(r).owner = 0 /\ Requeued(r).cancel = r.cancel
  <1> DEFINE q == [r EXCEPT !.status = "QUEUED", !.owner = 0]
  <1>1. /\ q \in Row /\ q.status = "QUEUED" /\ q.attempts = r.attempts
        /\ q.owner = 0 /\ q.cancel = r.cancel
    BY DEF Row, ActiveStatuses, WaitingStatuses
  <1>2. Requeued(r) = Dispatched(q)
    BY DEF Requeued
  <1> QED
    BY <1>1, <1>2, DispatchedRow DEF SameButTime

LEMMA RedispatchedRow ==
  ASSUME NEW r \in Row
  PROVE  /\ Redispatched(r) \in Row
         /\ Redispatched(r).status = "QUEUED" /\ Redispatched(r).attempts = r.attempts
         /\ Redispatched(r).owner = r.owner /\ Redispatched(r).cancel = r.cancel
  <1> DEFINE q == [r EXCEPT !.status = "QUEUED"]
  <1>1. /\ q \in Row /\ q.status = "QUEUED" /\ q.attempts = r.attempts
        /\ q.owner = r.owner /\ q.cancel = r.cancel
    BY DEF Row, ActiveStatuses, WaitingStatuses
  <1>2. Redispatched(r) = Dispatched(q)
    BY DEF Redispatched
  <1> QED
    BY <1>1, <1>2, DispatchedRow DEF SameButTime

LEMMA AfterStaleRow ==
  ASSUME NEW r \in Row
  PROVE  /\ AfterStale(r) \in Row
         /\ AfterStale(r).attempts = r.attempts /\ AfterStale(r).cancel = r.cancel
         /\ AfterStale(r).owner \in {0, r.owner}
         /\ \/ ~Stale(r) /\ AfterStale(r) = r
            \/ Stale(r) /\ r.cancel /\ AfterStale(r).status = "CANCELLED"
            \/ Stale(r) /\ ~r.cancel /\ AfterStale(r).status = "FAILED"
            \/ Stale(r) /\ ~r.cancel /\ r.attempts < MaxAttempts /\ AfterStale(r).status = "QUEUED"
  <1>1. CASE ~Stale(r)
    BY <1>1 DEF AfterStale
  <1>2. CASE Stale(r) /\ r.cancel
    BY <1>2, CancelledRow DEF AfterStale
  <1>3. CASE Stale(r) /\ ~r.cancel /\ r.attempts >= MaxAttempts
    BY <1>3, MarkFailedRow DEF AfterStale, ErrorCodes
  <1>4. CASE Stale(r) /\ ~r.cancel /\ ~(r.attempts >= MaxAttempts)
    <2>1. r.attempts < MaxAttempts
      BY <1>4, AttemptRange, MaxAttemptsAssumption
    <2> QED
      BY <1>4, <2>1, RequeuedRow DEF AfterStale
  <1> QED
    BY <1>1, <1>2, <1>3, <1>4

LEMMA AfterExpiryRow ==
  ASSUME NEW r \in Row
  PROVE  /\ AfterExpiry(r) \in Row
         /\ AfterExpiry(r).attempts = r.attempts /\ AfterExpiry(r).cancel = r.cancel
         /\ AfterExpiry(r).owner = r.owner
         /\ \/ ~Expired(r) /\ AfterExpiry(r) = r
            \/ Waiting(r) /\ AfterExpiry(r).status = "FAILED"
  <1>1. CASE ~Expired(r)
    BY <1>1 DEF AfterExpiry
  <1>2. CASE Expired(r)
    BY <1>2, MarkFailedRow DEF AfterExpiry, ErrorCodes, Expired
  <1> QED
    BY <1>1, <1>2

\* What the first two loops of a sweep make of a row.
LEMMA SettledRow ==
  ASSUME NEW r \in Row
  PROVE  LET s == AfterExpiry(AfterStale(r)) IN
         /\ s \in Row /\ s.attempts = r.attempts /\ s.cancel = r.cancel
         /\ s.owner \in {0, r.owner}
         /\ \/ s = r
            \/ Stale(r) /\ r.cancel /\ s.status = "CANCELLED"
            \/ Stale(r) /\ ~r.cancel /\ r.attempts < MaxAttempts /\ s.status = "QUEUED"
            \/ ((Stale(r) /\ ~r.cancel) \/ Waiting(r)) /\ s.status = "FAILED"
  <1> DEFINE q == AfterStale(r)
             s == AfterExpiry(q)
  <1>1. /\ q \in Row /\ q.attempts = r.attempts /\ q.cancel = r.cancel /\ q.owner \in {0, r.owner}
        /\ \/ ~Stale(r) /\ q = r
           \/ Stale(r) /\ r.cancel /\ q.status = "CANCELLED"
           \/ Stale(r) /\ ~r.cancel /\ q.status = "FAILED"
           \/ Stale(r) /\ ~r.cancel /\ r.attempts < MaxAttempts /\ q.status = "QUEUED"
    BY AfterStaleRow
  <1> HIDE DEF q
  <1>2. /\ s \in Row /\ s.attempts = q.attempts /\ s.cancel = q.cancel /\ s.owner = q.owner
        /\ s = q \/ (Waiting(q) /\ s.status = "FAILED")
    BY <1>1, AfterExpiryRow
  <1> HIDE DEF s
  <1>3. Waiting(q) => Waiting(r) \/ (Stale(r) /\ ~r.cancel)
    BY <1>1 DEF Waiting, WaitingStatuses
  <1>4. /\ s \in Row /\ s.attempts = r.attempts /\ s.cancel = r.cancel
        /\ s.owner \in {0, r.owner}
        /\ \/ s = r
           \/ Stale(r) /\ r.cancel /\ s.status = "CANCELLED"
           \/ Stale(r) /\ ~r.cancel /\ r.attempts < MaxAttempts /\ s.status = "QUEUED"
           \/ ((Stale(r) /\ ~r.cancel) \/ Waiting(r)) /\ s.status = "FAILED"
    BY <1>1, <1>2, <1>3
  <1> QED
    BY <1>4 DEF s, q

(***************************************************************************)
(* Types.  An idle slot holds no message; any other knows its job, and has  *)
(* the verdict it is finishing with.                                       *)
(***************************************************************************)
SlotOK(e) == IF e.pc = "idle" THEN ~e.held
             ELSE e.job \in Jobs /\ (e.pc = "finishing" => e.verdict # "none")

SlotsOK == \A w \in Workers : SlotOK(exec[w])

TypeInv == TypeOK /\ SlotsOK

LEMMA IdleSlot == Idle \in Execution
  BY LifecycleAssumption DEF Idle, Execution, Verdicts

LEMMA InitTypeInv == Init => TypeInv
  BY LifecycleAssumption, NoRowIsRow, IdleSlot
     DEF Init, TypeInv, TypeOK, SlotsOK, SlotOK, Idle, NoSweep, Sweep, Artifacts

\* An action that rewrites one busy slot and keeps its job leaves SlotsOK.
LEMMA KeepsSlots ==
  ASSUME TypeInv, NEW w \in Workers, NEW e \in Execution,
         SlotOK(e), exec' = [exec EXCEPT ![w] = e]
  PROVE  exec' \in [Workers -> Execution] /\ SlotsOK'
  BY DEF TypeInv, TypeOK, SlotsOK

LEMMA VerdictRow ==
  ASSUME NEW r \in Row, NEW v \in {"CANCELLED", "FAILED", "RETRY"}
  PROVE  /\ Verdict(r, v) \in Row
         /\ Verdict(r, v).attempts = r.attempts /\ Verdict(r, v).cancel = r.cancel
         /\ Verdict(r, v).owner \in {0, r.owner}
         /\ \/ v = "CANCELLED" /\ Verdict(r, v).status = "CANCELLED"
            \/ Verdict(r, v).status = "FAILED"
            \/ Verdict(r, v).status = "RETRYING" /\ r.attempts < MaxAttempts
  <1>1. CASE v = "CANCELLED"
    BY <1>1, CancelledRow DEF Verdict
  <1>2. CASE v = "FAILED"
    BY <1>2, MarkFailedRow DEF Verdict, ErrorCodes
  <1>3. CASE v = "RETRY"
    BY <1>3, TransientFailureRow DEF Verdict
  <1> QED
    BY <1>1, <1>2, <1>3

LEMMA NextTypeInv == TypeInv /\ [Next]_vars => TypeInv'
  <1> SUFFICES ASSUME TypeInv, [Next]_vars PROVE TypeInv'
    OBVIOUS
  <1> USE DEF TypeInv, TypeOK
  <1>1. ASSUME NEW j \in Jobs, Upload(j) PROVE TypeInv'
    BY <1>1, CreatedRow DEF Upload, SetRow, Enqueue, SlotsOK
  <1>2. ASSUME NEW j \in Jobs, CancelJob(j) PROVE TypeInv'
    BY <1>2, CancelRequestedRow DEF CancelJob, SetRow, SlotsOK
  <1>3. ASSUME NEW j \in Jobs, RetryJob(j) PROVE TypeInv'
    BY <1>3, ManuallyRetriedRow DEF RetryJob, SetRow, Enqueue, SlotsOK
  <1>4. ASSUME NEW j \in Jobs, Publish(j) PROVE TypeInv'
    BY <1>4 DEF Publish, SlotsOK
  <1>5. ASSUME NEW j \in Jobs, PublishFails(j) PROVE TypeInv'
    BY <1>5, DispatchFailedRow DEF PublishFails, SetRow, SlotsOK
  <1>6. ASSUME NEW j \in Jobs, PublishLost(j) PROVE TypeInv'
    BY <1>6 DEF PublishLost, SlotsOK
  <1>7. ASSUME NEW j \in Jobs, Time(j) PROVE TypeInv'
    <2>1. CASE AgeHeartbeat(j)
      BY <2>1, AgedRow DEF AgeHeartbeat, SetRow, SlotsOK
    <2>2. CASE AgeDispatch(j)
      BY <2>2, AgedRow DEF AgeDispatch, SetRow, SlotsOK
    <2>3. CASE AgeBackoff(j)
      BY <2>3, AgedRow DEF AgeBackoff, SetRow, SlotsOK
    <2>4. CASE AgeQueue(j)
      BY <2>4, AgedRow DEF AgeQueue, SetRow, SlotsOK
    <2> QED
      BY <1>7, <2>1, <2>2, <2>3, <2>4 DEF Time
  <1>8. ASSUME NEW j \in Jobs, RestoreOrphan(j) PROVE TypeInv'
    BY <1>8 DEF RestoreOrphan, SlotsOK
  <1>9. ASSUME NEW w \in Workers, NEW j \in Jobs, Receive(w, j) PROVE TypeInv'
    <2> DEFINE e == [Idle EXCEPT !.pc = "received", !.job = j, !.held = TRUE]
    <2>1. e \in Execution /\ SlotOK(e)
      BY IdleSlot DEF Execution, SlotOK
    <2>2. ready' \in [Jobs -> Nat]
      BY <1>9 DEF Receive
    <2> HIDE DEF e
    <2>3. exec' \in [Workers -> Execution] /\ SlotsOK'
      BY <1>9, <2>1, KeepsSlots DEF Receive, e
    <2> QED
      BY <1>9, <2>2, <2>3 DEF Receive
  <1>10. ASSUME NEW w \in Workers, exec[w].pc # "idle"
         PROVE  /\ exec[w] \in Execution /\ exec[w].job \in Jobs /\ job[exec[w].job] \in Row
                /\ SlotOK(exec[w]) /\ (exec[w].pc = "finishing" => exec[w].verdict # "none")
    BY <1>10 DEF SlotsOK, SlotOK, Idle
  <1>11. ASSUME NEW w \in Workers, FinalCheck(w) PROVE TypeInv'
    <2> DEFINE e == [exec[w] EXCEPT !.pc = "committing"]
    <2>1. exec[w].pc # "idle"
      BY <1>11 DEF FinalCheck
    <2>2. e \in Execution /\ SlotOK(e)
      BY <1>10, <2>1 DEF Execution, SlotOK, Verdicts
    <2> HIDE DEF e
    <2>3. exec' \in [Workers -> Execution] /\ SlotsOK'
      BY <1>11, <2>2, KeepsSlots DEF FinalCheck, e
    <2> QED
      BY <1>11, <2>3 DEF FinalCheck
  <1>12. ASSUME NEW w \in Workers, StopLost(w) PROVE TypeInv'
    <2> DEFINE e == [exec[w] EXCEPT !.pc = "acking"]
    <2>1. exec[w].pc # "idle"
      BY <1>12 DEF StopLost, AtCheckpoint
    <2>2. e \in Execution /\ SlotOK(e)
      BY <1>10, <2>1 DEF Execution, SlotOK, Verdicts
    <2> HIDE DEF e
    <2>3. exec' \in [Workers -> Execution] /\ SlotsOK'
      BY <1>12, <2>2, KeepsSlots DEF StopLost, e
    <2> QED
      BY <1>12, <2>3 DEF StopLost
  <1>13. ASSUME NEW w \in Workers, StopCancelled(w) PROVE TypeInv'
    <2> DEFINE e == [exec[w] EXCEPT !.pc = "finishing", !.verdict = "CANCELLED"]
    <2>1. exec[w].pc # "idle"
      BY <1>13 DEF StopCancelled, AtCheckpoint
    <2>2. e \in Execution /\ SlotOK(e)
      BY <1>10, <2>1 DEF Execution, SlotOK, Verdicts
    <2> HIDE DEF e
    <2>3. exec' \in [Workers -> Execution] /\ SlotsOK'
      BY <1>13, <2>2, KeepsSlots DEF StopCancelled, e
    <2> QED
      BY <1>13, <2>3 DEF StopCancelled
  <1>14. ASSUME NEW w \in Workers, FinishUnavailable(w) PROVE TypeInv'
    <2> DEFINE e == [exec[w] EXCEPT !.pc = "acking"]
    <2>1. exec[w].pc # "idle"
      BY <1>14 DEF FinishUnavailable
    <2>2. e \in Execution /\ SlotOK(e)
      BY <1>10, <2>1 DEF Execution, SlotOK, Verdicts
    <2> HIDE DEF e
    <2>3. exec' \in [Workers -> Execution] /\ SlotsOK'
      BY <1>14, <2>2, KeepsSlots DEF FinishUnavailable, e
    <2> QED
      BY <1>14, <2>3 DEF FinishUnavailable
  <1>15. ASSUME NEW w \in Workers, Extracted(w) PROVE TypeInv'
    <2> DEFINE e == [exec[w] EXCEPT !.pc = "storing"]
    <2>1. exec[w].pc # "idle"
      BY <1>15 DEF Extracted
    <2>2. e \in Execution /\ SlotOK(e)
      BY <1>10, <2>1 DEF Execution, SlotOK, Verdicts
    <2> HIDE DEF e
    <2>3. exec' \in [Workers -> Execution] /\ SlotsOK'
      BY <1>15, <2>2, KeepsSlots DEF Extracted, e
    <2>4. job' \in [Jobs -> Row]
      BY <1>15, <1>10, <2>1, BeatenRow DEF Extracted, Report, SetRow
    <2> QED
      BY <1>15, <2>3, <2>4 DEF Extracted
  <1>16. ASSUME NEW w \in Workers, RestoreHeld(w) PROVE TypeInv'
    <2> DEFINE e == [exec[w] EXCEPT !.held = FALSE]
    <2>1. exec[w].pc # "idle"
      BY <1>16 DEF RestoreHeld, SlotsOK, SlotOK, Idle
    <2>2. e \in Execution /\ SlotOK(e)
      BY <1>10, <2>1 DEF Execution, SlotOK, Verdicts
    <2> HIDE DEF e
    <2>3. exec' \in [Workers -> Execution] /\ SlotsOK'
      BY <1>16, <2>2, KeepsSlots DEF RestoreHeld, e
    <2>4. ready' \in [Jobs -> Nat]
      BY <1>16, <1>10, <2>1 DEF RestoreHeld
    <2> QED
      BY <1>16, <2>3, <2>4 DEF RestoreHeld
  <1>17. ASSUME NEW w \in Workers, Page(w) PROVE TypeInv'
    BY <1>17, <1>10, BeatenRow DEF Page, Report, SetRow, SlotsOK
  <1>18. ASSUME NEW w \in Workers, Raise(w) PROVE TypeInv'
    <2>1. PICK v \in {"FAILED", "RETRY"} :
            exec' = [exec EXCEPT ![w] = [@ EXCEPT !.pc = "finishing", !.verdict = v]]
      BY <1>18 DEF Raise
    <2> DEFINE e == [exec[w] EXCEPT !.pc = "finishing", !.verdict = v]
    <2>2. e \in Execution /\ SlotOK(e)
      BY <1>10, <1>18 DEF Raise, Execution, Verdicts, SlotOK
    <2> HIDE DEF e
    <2>3. exec' \in [Workers -> Execution] /\ SlotsOK'
      BY <2>1, <2>2, KeepsSlots DEF e
    <2> QED
      BY <1>18, <2>3 DEF Raise
  <1>19. ASSUME NEW w \in Workers, Store(w) PROVE TypeInv'
    <2> DEFINE a == exec[w].stored + 1
               e == [exec[w] EXCEPT !.stored = a]
    <2>1. exec[w] \in Execution /\ exec[w].job \in Jobs /\ exec[w].pc = "storing"
      BY <1>10, <1>19 DEF Store
    <2>2. a \in Artifacts /\ a \in 0 .. NArtifacts /\ exec[w].token \in Nat
      BY <1>19, <2>1, LifecycleAssumption DEF Store, Execution, Artifacts
    <2> HIDE DEF a
    <2>3. e \in Execution /\ SlotOK(e)
      BY <2>1, <2>2 DEF Execution, SlotOK
    <2> HIDE DEF e
    <2>4. exec' \in [Workers -> Execution] /\ SlotsOK'
      BY <1>19, <2>3, KeepsSlots DEF Store, e, a
    <2>5. art' \in [Jobs -> [Artifacts -> Nat]]
      BY <1>19, <2>1, <2>2 DEF Store, a
    <2> QED
      BY <1>19, <2>4, <2>5 DEF Store
  <1>20. ASSUME NEW w \in Workers, Claim(w) PROVE TypeInv'
    <2> DEFINE j == exec[w].job
               t == claims[j] + 1
               c == [exec[w] EXCEPT !.pc = "extracting", !.token = t]
               d == [exec[w] EXCEPT !.pc = "acking"]
    <2>1. exec[w] \in Execution /\ j \in Jobs /\ job[j] \in Row /\ t \in Nat
      BY <1>10, <1>20 DEF Claim
    <2>2. CASE Claimable(job[j])
      <3>1. Claimed(job[j], t) \in Row
        BY <2>1, <2>2, ClaimedRow
      <3>2. job' \in [Jobs -> Row] /\ claims' \in [Jobs -> Nat]
        BY <1>20, <2>1, <2>2, <3>1 DEF Claim, SetRow, WorkerId
      <3> HIDE DEF t
      <3>3. c \in Execution /\ SlotOK(c)
        BY <2>1 DEF Execution, SlotOK
      <3> HIDE DEF c
      <3>4. exec' \in [Workers -> Execution] /\ SlotsOK'
        BY <1>20, <2>2, <3>3, KeepsSlots DEF Claim, WorkerId, c, t
      <3> QED
        BY <1>20, <3>2, <3>4 DEF Claim
    <2>3. CASE ~Claimable(job[j])
      <3>1. d \in Execution /\ SlotOK(d)
        BY <2>1 DEF Execution, SlotOK
      <3> HIDE DEF d
      <3>2. exec' \in [Workers -> Execution] /\ SlotsOK'
        BY <1>20, <2>3, <3>1, KeepsSlots DEF Claim, d
      <3> QED
        BY <1>20, <2>3, <3>2 DEF Claim
    <2> QED
      BY <2>2, <2>3
  <1>21. ASSUME NEW w \in Workers, Beat(w) PROVE TypeInv'
    <2> DEFINE j == exec[w].job
               c == [exec[w] EXCEPT !.stop = job[j].cancel]
               d == [exec[w] EXCEPT !.lost = TRUE]
    <2>1. /\ exec[w] \in Execution /\ exec[w].pc # "idle" /\ j \in Jobs /\ job[j] \in Row
          /\ exec[w].pc = "finishing" => exec[w].verdict # "none"
      BY <1>10, <1>21 DEF Beat, Busy
    <2>2. job[j].cancel \in BOOLEAN
      BY <2>1 DEF Row
    <2>3. c \in Execution /\ SlotOK(c)
      BY <2>1, <2>2 DEF Execution, SlotOK
    <2>4. d \in Execution /\ SlotOK(d)
      BY <2>1 DEF Execution, SlotOK
    <2> HIDE DEF c, d
    <2>5. job' \in [Jobs -> Row]
      BY <1>21, <2>1, BeatenRow DEF Beat, SetRow
    <2>6. exec' \in [Workers -> Execution] /\ SlotsOK'
      BY <1>21, <2>3, <2>4, KeepsSlots DEF Beat, c, d
    <2> QED
      BY <1>21, <2>5, <2>6 DEF Beat
  <1>22. ASSUME NEW w \in Workers, Succeed(w) PROVE TypeInv'
    <2> DEFINE j == exec[w].job
               c == [exec[w] EXCEPT !.pc = "acking"]
               d == [exec[w] EXCEPT !.pc = "finishing", !.verdict = "RETRY"]
    <2>1. exec[w] \in Execution /\ exec[w].pc # "idle" /\ j \in Jobs /\ job[j] \in Row
      BY <1>10, <1>22 DEF Succeed
    <2>2. c \in Execution /\ SlotOK(c)
      BY <2>1 DEF Execution, SlotOK
    <2>3. d \in Execution /\ SlotOK(d)
      BY <2>1 DEF Execution, SlotOK, Verdicts
    <2> HIDE DEF c, d
    <2>4. job' \in [Jobs -> Row]
      BY <1>22, <2>1, SucceededRow DEF Succeed, SetRow
    <2>5. exec' \in [Workers -> Execution] /\ SlotsOK'
      BY <1>22, <2>2, <2>3, KeepsSlots DEF Succeed, c, d
    <2> QED
      BY <1>22, <2>4, <2>5 DEF Succeed
  <1>23. ASSUME NEW w \in Workers, Finish(w) PROVE TypeInv'
    <2> DEFINE j == exec[w].job
               r == Verdict(job[j], exec[w].verdict)
               c == [exec[w] EXCEPT !.pc = "acking"]
    <2>1. /\ exec[w] \in Execution /\ exec[w].pc = "finishing" /\ j \in Jobs /\ job[j] \in Row
          /\ exec[w].verdict \in {"CANCELLED", "FAILED", "RETRY"}
      BY <1>10, <1>23 DEF Finish, Execution, Verdicts
    <2>2. c \in Execution /\ SlotOK(c)
      BY <2>1 DEF Execution, SlotOK
    <2> HIDE DEF c
    <2>3. exec' \in [Workers -> Execution] /\ SlotsOK'
      BY <1>23, <2>2, KeepsSlots DEF Finish, c
    <2>4. r \in Row
      BY <2>1, VerdictRow
    <2> HIDE DEF r
    <2>5. job' \in [Jobs -> Row]
      BY <1>23, <2>1, <2>4 DEF Finish, SetRow, r
    <2>6. outbox' \in [Jobs -> Nat]
      BY <1>23, <2>1 DEF Finish, Enqueue
    <2> QED
      BY <1>23, <2>3, <2>5, <2>6 DEF Finish
  <1>24. ASSUME NEW w \in Workers, exec' = [exec EXCEPT ![w] = Idle]
         PROVE  exec' \in [Workers -> Execution] /\ SlotsOK'
    BY <1>24, IdleSlot DEF SlotsOK, SlotOK, Idle
  <1>25. ASSUME NEW w \in Workers, ClaimUnavailable(w) PROVE TypeInv'
    <2>1. exec[w].job \in Jobs
      BY <1>10, <1>25 DEF ClaimUnavailable
    <2>2. ready' \in [Jobs -> Nat]
      BY <1>25, <2>1 DEF ClaimUnavailable
    <2> QED
      BY <1>24, <1>25, <2>2 DEF ClaimUnavailable
  <1>26. ASSUME NEW w \in Workers, Ack(w) PROVE TypeInv'
    BY <1>24, <1>26 DEF Ack
  <1>27. ASSUME NEW w \in Workers, Crash(w) PROVE TypeInv'
    <2>1. exec[w].job \in Jobs
      BY <1>10, <1>27 DEF Crash
    <2>2. ready' \in [Jobs -> Nat]
      BY <1>27, <2>1 DEF Crash
    <2>3. orphan' \in [Jobs -> Nat]
      BY <1>27, <2>1 DEF Crash
    <2> QED
      BY <1>24, <1>27, <2>2, <2>3 DEF Crash
  <1>28. CASE Flush
    <2>1. \A w \in Workers : [exec[w] EXCEPT !.held = FALSE] \in Execution
      BY DEF Execution
    <2>2. exec' \in [Workers -> Execution]
      BY <1>28, <2>1 DEF Flush
    <2>3. ASSUME NEW w \in Workers PROVE SlotOK(exec'[w])
      <3> DEFINE e == [exec[w] EXCEPT !.held = FALSE]
      <3>1. exec[w] \in Execution /\ SlotOK(exec[w]) /\ exec'[w] = e
        BY <1>28 DEF Flush, SlotsOK
      <3> QED
        BY <3>1 DEF SlotOK, Execution
    <2> QED
      BY <1>28, <2>2, <2>3 DEF Flush, SlotsOK
  <1>29. ASSUME NEW skip \in SUBSET Jobs, SweepStart(skip) PROVE TypeInv'
    <2> DEFINE found == {j \in Jobs \ skip : Stale(job[j]) \/ Expired(job[j])}
               rows == [j \in Jobs |-> IF j \in found THEN job[j] ELSE NoRow]
    <2>1. found \in SUBSET Jobs /\ rows \in [Jobs -> Row]
      BY NoRowIsRow
    <2>2. sweep' = [phase |-> "lists", locked |-> found, rows |-> rows, seen |-> {}]
      BY <1>29 DEF SweepStart
    <2> HIDE DEF found, rows
    <2>3. sweep' \in Sweep
      BY <2>1, <2>2 DEF Sweep
    <2> QED
      BY <1>29, <2>3 DEF SweepStart, SlotsOK
  <1>30. CASE SweepLists
    BY <1>30 DEF SweepLists, Sweep, SlotsOK
  <1>31. CASE SweepUnacked
    BY <1>31 DEF SweepUnacked, Sweep, SlotsOK
  <1>32. CASE SweepBlind
    BY <1>32 DEF SweepBlind, Sweep, SlotsOK
  <1>33. ASSUME NEW missing, NEW j \in Jobs PROVE Swept(j, missing) \in Row
    BY SettledRow, RedispatchedRow DEF Swept, Sweep
  <1>34. NoSweep \in Sweep
    BY NoRowIsRow DEF NoSweep, Sweep
  <1>35. ASSUME NEW skip \in SUBSET Jobs, SweepCommit(skip) PROVE TypeInv'
    BY <1>33, <1>34, <1>35 DEF SweepCommit, SlotsOK
  <1>36. CASE SweepCommitBlind
    BY <1>33, <1>34, <1>36 DEF SweepCommitBlind, SlotsOK
  <1>37. CASE SweepAborts
    BY <1>34, <1>37 DEF SweepAborts, SlotsOK
  <1>38. CASE UNCHANGED vars
    BY <1>38 DEF vars, SlotsOK
  <1>39. ASSUME NEW j \in Jobs, NEW k \in Jobs, UploadCached(j, k) PROVE TypeInv'
    BY <1>39, ReusedRow DEF UploadCached, SetRow, SlotsOK
  <1> QED
    BY <1>1, <1>2, <1>3, <1>4, <1>5, <1>6, <1>7, <1>8, <1>9, <1>11, <1>12, <1>13, <1>14, <1>15,
       <1>16, <1>17, <1>18, <1>19, <1>20, <1>21, <1>22, <1>23, <1>25, <1>26, <1>27, <1>28, <1>29,
       <1>30, <1>31, <1>32, <1>35, <1>36, <1>37, <1>38, <1>39
       DEF Next, Api, Publisher, Worker, Task, Sweeper

\* Type correctness: rows, slots and counters keep their shape for any
\* number of jobs and workers in any environment.
THEOREM TypeCorrect == Spec => []TypeOK
  <1>1. TypeInv => TypeOK
    BY DEF TypeInv
  <1> QED
    BY InitTypeInv, NextTypeInv, <1>1, PTL DEF Spec

(***************************************************************************)
(* The rows a sweep has locked are still as it read them.                  *)
(***************************************************************************)
LockedInv == \A j \in sweep.locked :
  sweep.rows[j] = job[j] /\ (Stale(job[j]) \/ Expired(job[j]))

LEMMA InitLocked == Init => LockedInv
  BY DEF Init, LockedInv, NoSweep

LEMMA NextLocked == TypeInv /\ LockedInv /\ [Next]_vars => LockedInv'
  <1> SUFFICES ASSUME TypeInv, LockedInv, [Next]_vars PROVE LockedInv'
    OBVIOUS
  <1> USE DEF TypeInv, TypeOK
  <1>1. ASSUME sweep'.locked = sweep.locked, sweep'.rows = sweep.rows,
               \A j \in sweep.locked : job'[j] = job[j]
        PROVE  LockedInv'
    BY <1>1 DEF LockedInv
  <1>2. ASSUME UNCHANGED <<job, sweep>> PROVE LockedInv'
    BY <1>1, <1>2
  <1>3. ASSUME NEW i \in Jobs, NEW r, UNCHANGED sweep, Unlocked(i), job' = [job EXCEPT ![i] = r]
        PROVE  LockedInv'
    BY <1>1, <1>3 DEF Unlocked, Sweep
  <1>4. ASSUME NEW i \in Jobs, Api(i) PROVE LockedInv'
    <2>1. CASE Upload(i)
      <3>1. Unlocked(i)
        BY <2>1 DEF LockedInv, Upload, Unlocked, Stale, Expired, Running, Waiting, WaitingStatuses
      <3> QED
        BY <1>3, <2>1, <3>1 DEF Upload, SetRow
    <2>2. ASSUME NEW k \in Jobs, UploadCached(i, k) PROVE LockedInv'
      <3>1. Unlocked(i)
        BY <2>2 DEF LockedInv, UploadCached, Unlocked, Stale, Expired, Running, Waiting, WaitingStatuses
      <3> QED
        BY <1>3, <2>2, <3>1 DEF UploadCached, SetRow
    <2> QED
      BY <1>3, <1>4, <2>1, <2>2 DEF Api, CancelJob, RetryJob, SetRow
  <1>5. ASSUME NEW i \in Jobs, Publisher(i) \/ Time(i) \/ RestoreOrphan(i) PROVE LockedInv'
    BY <1>2, <1>3, <1>5 DEF Publisher, Publish, PublishFails, PublishLost, RestoreOrphan,
         Time, AgeHeartbeat, AgeDispatch, AgeBackoff, AgeQueue, SetRow
  <1>6. ASSUME NEW w \in Workers, exec[w].pc # "idle" PROVE exec[w].job \in Jobs
    BY <1>6 DEF SlotsOK, SlotOK
  <1>7. ASSUME NEW w \in Workers, Claim(w) \/ Beat(w) \/ Page(w) \/ Extracted(w) \/ Succeed(w) \/ Finish(w)
        PROVE  LockedInv'
    <2>1. exec[w].job \in Jobs /\ Unlocked(exec[w].job) /\ UNCHANGED sweep
      BY <1>6, <1>7 DEF Claim, Beat, Page, Extracted, Succeed, Finish, Report, Busy
    <2>2. UNCHANGED job \/ \E r : job' = [job EXCEPT ![exec[w].job] = r]
      BY <1>7 DEF Claim, Beat, Page, Extracted, Succeed, Finish, Report, SetRow
    <2> QED
      BY <1>2, <1>3, <2>1, <2>2
  <1>8. ASSUME NEW w \in Workers,
               \/ \E i \in Jobs : Receive(w, i)
               \/ ClaimUnavailable(w) \/ Store(w) \/ FinalCheck(w) \/ StopLost(w)
               \/ StopCancelled(w) \/ Raise(w) \/ FinishUnavailable(w) \/ Ack(w)
               \/ Crash(w) \/ RestoreHeld(w)
        PROVE  LockedInv'
    BY <1>2, <1>8 DEF Receive, ClaimUnavailable, Store, FinalCheck, StopLost, StopCancelled,
                      Raise, FinishUnavailable, Ack, Crash, RestoreHeld
  <1>9. ASSUME NEW skip \in SUBSET Jobs, SweepStart(skip) PROVE LockedInv'
    BY <1>9 DEF SweepStart, LockedInv
  <1>10. CASE SweepLists \/ SweepUnacked \/ SweepBlind
    BY <1>1, <1>10 DEF SweepLists, SweepUnacked, SweepBlind, Sweep
  <1>11. ASSUME sweep' = NoSweep PROVE LockedInv'
    BY <1>11 DEF NoSweep, LockedInv
  <1>12. CASE (\E skip \in SUBSET Jobs : SweepCommit(skip)) \/ SweepCommitBlind \/ SweepAborts
    BY <1>11, <1>12 DEF SweepCommit, SweepCommitBlind, SweepAborts
  <1>13. CASE Flush \/ UNCHANGED vars
    BY <1>2, <1>13 DEF Flush, vars
  <1> QED
    BY <1>4, <1>5, <1>7, <1>8, <1>9, <1>10, <1>12, <1>13 DEF Next, Worker, Task, Sweeper

(***************************************************************************)
(* How a step may change the row of j.                                     *)
(***************************************************************************)
\* w claims j.
Takes(w, j) == /\ exec[w].pc = "received" /\ exec[w].job = j
               /\ Claimable(job[j])
               /\ job'[j] = Claimed(job[j], claims[j] + 1)

\* w, whose job j still is, settles it or gives it back.
Ends(w, j) == /\ exec[w].job = j /\ Owns(w) /\ exec'[w] # exec[w]
              /\ \/ exec[w].pc = "committing" /\ job'[j] = Succeeded(job[j])
                 \/ exec[w].pc = "finishing"  /\ job'[j] = Verdict(job[j], exec[w].verdict)

SweptOver(j) == \/ j \in sweep.locked /\ job'[j] = AfterExpiry(AfterStale(job[j]))
                \/ Waiting(job[j]) /\ job'[j] = Redispatched(job[j])

\* j appears with the result of k.
Copies(k, j) == /\ job[j].status = "ABSENT" /\ Reusable(k)
                /\ job'[j] = Reused(job[j]) /\ cached'[j] = k

OwnStep(j) ==
  \/ /\ claims'[j] = claims[j] /\ retries'[j] = retries[j]
     /\ \/ SameButTime(job[j], job'[j])
        \/ job[j].status = "ABSENT" /\ job'[j] = Created(job[j])
        \/ job[j].status \in ActiveStatuses /\ job'[j] = CancelRequested(job[j])
        \/ \E w \in Workers : Ends(w, j)
        \/ SweptOver(j)
  \/ /\ claims'[j] = claims[j] /\ retries'[j] = retries[j] + 1
     /\ job[j].status \in {"FAILED", "CANCELLED"} /\ job'[j] = ManuallyRetried(job[j])
  \/ /\ claims'[j] = claims[j] + 1 /\ retries'[j] = retries[j]
     /\ \E w \in Workers : Takes(w, j)

RowStep(j) == \/ cached'[j] = cached[j] /\ OwnStep(j)
              \/ /\ claims'[j] = claims[j] /\ retries'[j] = retries[j]
                 /\ \E k \in Jobs : Copies(k, j)

LEMMA Reflexive == \A r : SameButTime(r, r)
  BY DEF SameButTime

LEMMA RowMoves ==
  ASSUME TypeInv, LockedInv, [Next]_vars, NEW j \in Jobs
  PROVE  RowStep(j)
  <1> USE DEF TypeInv, TypeOK
  <1>1. ASSUME UNCHANGED <<job, claims, retries, cached>> PROVE RowStep(j)
    BY <1>1, Reflexive DEF RowStep, OwnStep
  <1>2. ASSUME NEW i \in Jobs, Api(i) PROVE RowStep(j)
    <2>1. CASE i # j
      BY <1>2, <2>1, Reflexive DEF Api, Upload, UploadCached, CancelJob, RetryJob, SetRow, RowStep, OwnStep
    <2>2. CASE i = j /\ (Upload(i) \/ CancelJob(i) \/ RetryJob(i))
      BY <2>2 DEF Upload, CancelJob, RetryJob, SetRow, RowStep, OwnStep
    <2>3. ASSUME i = j, NEW k \in Jobs, UploadCached(i, k) PROVE RowStep(j)
      BY <2>3 DEF UploadCached, SetRow, RowStep, Copies
    <2> QED
      BY <1>2, <2>1, <2>2, <2>3 DEF Api
  <1>3. ASSUME NEW i \in Jobs, NEW r, UNCHANGED <<claims, retries, cached>>,
               job' = [job EXCEPT ![i] = r], SameButTime(job[i], r)
        PROVE  RowStep(j)
    BY <1>3, Reflexive DEF RowStep, OwnStep
  <1>4. ASSUME NEW i \in Jobs, Time(i) PROVE RowStep(j)
    <2>1. CASE AgeHeartbeat(i)
      BY <1>3, <2>1, AgedRow DEF AgeHeartbeat, SetRow
    <2>2. CASE AgeDispatch(i)
      BY <1>3, <2>2, AgedRow DEF AgeDispatch, SetRow
    <2>3. CASE AgeBackoff(i)
      BY <1>3, <2>3, AgedRow DEF AgeBackoff, SetRow
    <2>4. CASE AgeQueue(i)
      BY <1>3, <2>4, AgedRow DEF AgeQueue, SetRow
    <2> QED
      BY <1>4, <2>1, <2>2, <2>3, <2>4 DEF Time
  <1>5. ASSUME NEW i \in Jobs, Publisher(i) PROVE RowStep(j)
    <2>1. CASE PublishFails(i)
      BY <1>3, <2>1, DispatchFailedRow DEF PublishFails, SetRow
    <2> QED
      BY <1>1, <1>5, <2>1 DEF Publisher, Publish, PublishLost
  <1>6. ASSUME NEW w \in Workers, exec[w].pc # "idle"
        PROVE  exec[w].job \in Jobs /\ job[exec[w].job] \in Row
    BY <1>6 DEF SlotsOK, SlotOK
  <1>7. ASSUME NEW w \in Workers, Claim(w) PROVE RowStep(j)
    <2>1. CASE exec[w].job # j
      BY <1>6, <1>7, <2>1, Reflexive DEF Claim, SetRow, RowStep, OwnStep
    <2>2. CASE exec[w].job = j
      BY <1>6, <1>7, <2>2, Reflexive DEF Claim, SetRow, WorkerId, RowStep, OwnStep, Takes
    <2> QED
      BY <2>1, <2>2
  <1>8. ASSUME NEW w \in Workers, Beat(w) PROVE RowStep(j)
    <2>1. CASE Owns(w)
      <3>1. exec[w].pc # "idle"
        BY <1>8 DEF Beat, Busy
      <3> QED
        BY <1>3, <1>6, <1>8, <2>1, <3>1, BeatenRow DEF Beat, SetRow
    <2> QED
      BY <1>1, <1>8, <2>1 DEF Beat
  <1>9. ASSUME NEW w \in Workers, exec[w].pc # "idle", Report(w), UNCHANGED <<claims, retries, cached>>
        PROVE  RowStep(j)
    BY <1>3, <1>6, <1>9, BeatenRow, Reflexive DEF Report, SetRow
  <1>10. ASSUME NEW w \in Workers, Page(w) \/ Extracted(w) PROVE RowStep(j)
    BY <1>9, <1>10 DEF Page, Extracted
  <1>11. ASSUME NEW w \in Workers, Succeed(w) PROVE RowStep(j)
    <2>1. exec[w].pc = "committing" /\ exec[w].job \in Jobs
      BY <1>6, <1>11 DEF Succeed
    <2>2. exec'[w] # exec[w]
      <3>1. exec'[w].pc # "committing"
        BY <1>11, <2>1 DEF Succeed, Execution
      <3> QED
        BY <2>1, <3>1
    <2>3. CASE exec[w].job # j
      BY <1>11, <2>1, <2>3, Reflexive DEF Succeed, SetRow, RowStep, OwnStep
    <2>4. CASE exec[w].job = j
      BY <1>11, <2>1, <2>2, <2>4, Reflexive DEF Succeed, SetRow, RowStep, OwnStep, Ends
    <2> QED
      BY <2>3, <2>4
  <1>12. ASSUME NEW w \in Workers, Finish(w) PROVE RowStep(j)
    <2>1. exec[w].pc = "finishing" /\ exec[w].job \in Jobs
      BY <1>6, <1>12 DEF Finish
    <2>2. exec'[w] # exec[w]
      <3>1. exec'[w].pc # "finishing"
        BY <1>12, <2>1 DEF Finish, Execution
      <3> QED
        BY <2>1, <3>1
    <2>3. CASE exec[w].job # j
      BY <1>12, <2>1, <2>3, Reflexive DEF Finish, SetRow, RowStep, OwnStep
    <2>4. CASE exec[w].job = j
      BY <1>12, <2>1, <2>2, <2>4, Reflexive DEF Finish, SetRow, RowStep, OwnStep, Ends
    <2> QED
      BY <2>3, <2>4
  <1>13. ASSUME NEW missing, missing \subseteq {i \in Jobs : Waiting(job[i])},
                job' = [i \in Jobs |-> Swept(i, missing)], UNCHANGED <<claims, retries, cached>>
         PROVE  RowStep(j)
    BY <1>13, Reflexive DEF Swept, SweptOver, RowStep, OwnStep, LockedInv
  <1>14. ASSUME NEW skip \in SUBSET Jobs, SweepCommit(skip) PROVE RowStep(j)
    <2>1. PICK T \in Selections(Candidates(skip)) :
            job' = [i \in Jobs |-> Swept(i, T \ sweep.seen)]
      BY <1>14 DEF SweepCommit
    <2>2. T \subseteq Candidates(skip)
      BY <2>1 DEF Selections
    <2>3. T \ sweep.seen \subseteq {i \in Jobs : Waiting(job[i])}
      BY <2>2 DEF Candidates, NeedsMessage
    <2> QED
      BY <1>13, <1>14, <2>1, <2>3 DEF SweepCommit
  <1>15. CASE SweepCommitBlind
    BY <1>13, <1>15 DEF SweepCommitBlind
  <1>16. ASSUME NEW w \in Workers,
                \/ \E i \in Jobs : Receive(w, i)
                \/ ClaimUnavailable(w) \/ Store(w) \/ FinalCheck(w) \/ StopLost(w)
                \/ StopCancelled(w) \/ Raise(w) \/ FinishUnavailable(w) \/ Ack(w)
                \/ Crash(w) \/ RestoreHeld(w)
         PROVE  RowStep(j)
    BY <1>1, <1>16 DEF Receive, ClaimUnavailable, Store, FinalCheck, StopLost, StopCancelled,
                       Raise, FinishUnavailable, Ack, Crash, RestoreHeld
  <1>17. CASE SweepLists \/ SweepUnacked \/ SweepBlind \/ SweepAborts \/ Flush
              \/ (\E skip \in SUBSET Jobs : SweepStart(skip))
              \/ (\E i \in Jobs : RestoreOrphan(i)) \/ UNCHANGED vars
    BY <1>1, <1>17 DEF SweepLists, SweepUnacked, SweepBlind, SweepAborts, Flush, SweepStart,
                       RestoreOrphan, vars
  <1> QED
    BY <1>2, <1>4, <1>5, <1>7, <1>8, <1>10, <1>11, <1>12, <1>14, <1>15, <1>16, <1>17
       DEF Next, Worker, Task, Sweeper

(***************************************************************************)
(* The same step, told by the fields that the properties speak of.         *)
(***************************************************************************)
Counts(j, c, n) == claims'[j] = claims[j] + c /\ retries'[j] = retries[j] + n

Kept(r, s) == s.attempts = r.attempts /\ s.cancel = r.cancel

\* A worker that owned it, or the sweeper, took j out of PROCESSING.
Left(r, s) == /\ r.status = "PROCESSING" /\ Kept(r, s)
              /\ \/ s.status \in {"SUCCEEDED", "FAILED", "CANCELLED"}
                 \/ s.status \in {"QUEUED", "RETRYING"} /\ r.attempts < MaxAttempts

EndedStep(j) == \E w \in Workers :
  /\ exec[w].job = j /\ Owns(w) /\ exec'[w] # exec[w] /\ Left(job[j], job'[j])
  /\ job'[j].status = "SUCCEEDED" => exec[w].pc = "committing"
  /\ job'[j].status = "CANCELLED" => exec[w].pc = "finishing" /\ exec[w].verdict = "CANCELLED"

SweptStep(j) ==
  /\ Kept(job[j], job'[j])
  /\ \/ /\ j \in sweep.locked /\ Stale(job[j]) /\ Left(job[j], job'[j])
        /\ job'[j].status \in {"QUEUED", "FAILED", "CANCELLED"}
        /\ job'[j].status = "CANCELLED" <=> job[j].cancel
     \/ Waiting(job[j]) /\ job'[j].status \in {"QUEUED", "FAILED"}

OwnEffect(j) ==
  \/ Counts(j, 0, 0) /\ SameButTime(job[j], job'[j])
  \/ /\ Counts(j, 0, 0) /\ job[j].status = "ABSENT"
     /\ job'[j].status = "QUEUED" /\ job'[j].attempts = 0 /\ ~job'[j].cancel
  \/ /\ Counts(j, 0, 0) /\ job[j].status \in ActiveStatuses
     /\ job'[j].status = IF Waiting(job[j]) THEN "CANCELLED" ELSE job[j].status
     /\ job'[j].attempts = job[j].attempts /\ job'[j].owner = job[j].owner /\ job'[j].cancel
  \/ Counts(j, 0, 0) /\ EndedStep(j)
  \/ Counts(j, 0, 0) /\ SweptStep(j)
  \/ /\ Counts(j, 0, 1) /\ job[j].status \in {"FAILED", "CANCELLED"}
     /\ job'[j] = ManuallyRetried(job[j])
     /\ job'[j].status = "QUEUED" /\ job'[j].attempts = 0 /\ ~job'[j].cancel
  \/ /\ Counts(j, 1, 0) /\ Claimable(job[j])
     /\ job'[j].status = "PROCESSING" /\ job'[j].attempts = job[j].attempts + 1
     /\ job'[j].owner = claims[j] + 1 /\ job'[j].cancel = job[j].cancel

RowEffect(j) ==
  /\ job'[j] \in Row
  /\ \/ cached'[j] = cached[j] /\ OwnEffect(j)
     \/ /\ Counts(j, 0, 0) /\ job[j].status = "ABSENT"
        /\ job'[j].status = "SUCCEEDED" /\ job'[j].attempts = 0 /\ ~job'[j].cancel
        /\ \E k \in Jobs : Reusable(k) /\ cached'[j] = k

LEMMA RowEffects ==
  ASSUME TypeInv, TypeInv', LockedInv, [Next]_vars, NEW j \in Jobs
  PROVE  RowEffect(j)
  <1>1. RowStep(j)
    BY RowMoves
  <1>2. job[j] \in Row /\ job'[j] \in Row /\ claims[j] \in Nat /\ retries[j] \in Nat
    BY DEF TypeInv, TypeOK
  <1>3. /\ claims'[j] = claims[j] <=> claims'[j] = claims[j] + 0
        /\ retries'[j] = retries[j] <=> retries'[j] = retries[j] + 0
    BY <1>2
  <1>4. ASSUME NEW w \in Workers, Ends(w, j) PROVE EndedStep(j)
    <2>1. job[j].status = "PROCESSING"
      BY <1>4 DEF Ends, Owns, OwnedBy, Running
    <2>2. CASE exec[w].pc = "committing" /\ job'[j] = Succeeded(job[j])
      BY <1>2, <1>4, <2>1, <2>2, SucceededRow DEF Ends, EndedStep, Left, Kept
    <2>3. CASE exec[w].pc = "finishing" /\ job'[j] = Verdict(job[j], exec[w].verdict)
      <3>1. exec[w].verdict \in {"CANCELLED", "FAILED", "RETRY"}
        BY <2>3 DEF TypeInv, TypeOK, SlotsOK, SlotOK, Execution, Verdicts
      <3> QED
        BY <1>2, <1>4, <2>1, <2>3, <3>1, VerdictRow DEF Ends, EndedStep, Left, Kept
    <2> QED
      BY <1>4, <2>2, <2>3 DEF Ends
  <1>5. ASSUME SweptOver(j) PROVE SweptStep(j) \/ SameButTime(job[j], job'[j])
    <2>1. CASE j \in sweep.locked /\ job'[j] = AfterExpiry(AfterStale(job[j]))
      BY <1>2, <2>1, SettledRow, Reflexive DEF SweptStep, Left, Kept, Stale, Running
    <2>2. CASE Waiting(job[j]) /\ job'[j] = Redispatched(job[j])
      BY <1>2, <2>2, RedispatchedRow DEF SweptStep, Kept
    <2> QED
      BY <1>5, <2>1, <2>2 DEF SweptOver
  <1>6. ASSUME job[j].status = "ABSENT", job'[j] = Created(job[j]), Counts(j, 0, 0)
        PROVE  OwnEffect(j)
    BY <1>2, <1>6, CreatedRow DEF OwnEffect
  <1>7. ASSUME job[j].status \in ActiveStatuses, job'[j] = CancelRequested(job[j]), Counts(j, 0, 0)
        PROVE  OwnEffect(j)
    BY <1>2, <1>7, CancelRequestedRow DEF OwnEffect
  <1>8. ASSUME job[j].status \in {"FAILED", "CANCELLED"}, job'[j] = ManuallyRetried(job[j]),
               Counts(j, 0, 1)
        PROVE  OwnEffect(j)
    BY <1>2, <1>8, ManuallyRetriedRow DEF OwnEffect
  <1>9. ASSUME NEW w \in Workers, Takes(w, j), Counts(j, 1, 0)
        PROVE  OwnEffect(j)
    <2>1. claims[j] + 1 \in Nat
      BY <1>2
    <2> QED
      BY <1>2, <1>9, <2>1, ClaimedRow DEF OwnEffect, Takes
  <1>10. ASSUME OwnStep(j) PROVE OwnEffect(j)
    <2>1. CASE Counts(j, 0, 0)
      BY <1>2, <1>4, <1>5, <1>6, <1>7, <1>10, <2>1 DEF OwnStep, OwnEffect, Counts
    <2> QED
      BY <1>3, <1>8, <1>9, <1>10, <2>1 DEF OwnStep, Counts
  <1>11. ASSUME NEW k \in Jobs, Copies(k, j), Counts(j, 0, 0) PROVE RowEffect(j)
    BY <1>2, <1>11, ReusedRow DEF Copies, RowEffect
  <1> QED
    BY <1>1, <1>2, <1>3, <1>10, <1>11 DEF RowStep, RowEffect, Counts
\* The part of the invariant that RowEffects needs.
BaseInv == TypeInv /\ LockedInv

LEMMA InitBase == Init => BaseInv
  BY InitTypeInv, InitLocked DEF BaseInv

LEMMA NextBase == BaseInv /\ [Next]_vars => BaseInv'
  BY NextTypeInv, NextLocked DEF BaseInv

(***************************************************************************)
(* Attempts                                                                *)
(***************************************************************************)
\* Only what was claimed runs, and only what ran succeeds by its own work.
AttemptsOK(j) == /\ Waiting(job[j]) => job[j].attempts < MaxAttempts
                 /\ job[j].status = "ABSENT" => job[j].attempts = 0 /\ ~job[j].cancel
                 /\ Running(job[j]) => job[j].attempts > 0
                 /\ Reusable(j) => job[j].attempts > 0

AttemptsInv == \A j \in Jobs : AttemptsOK(j)

LEMMA InitAttempts == Init => AttemptsInv
  BY DEF Init, AttemptsInv, AttemptsOK, NoRow, Waiting, WaitingStatuses, Running, Reusable

LEMMA NextAttempts == BaseInv /\ BaseInv' /\ AttemptsInv /\ [Next]_vars => AttemptsInv'
  <1> SUFFICES ASSUME BaseInv, BaseInv', AttemptsInv, [Next]_vars, NEW j \in Jobs
               PROVE  AttemptsOK(j)'
    BY DEF AttemptsInv
  <1>1. RowEffect(j)
    BY RowEffects DEF BaseInv
  <1>2. AttemptsOK(j)
    BY DEF AttemptsInv
  <1>3. 0 < MaxAttempts /\ job[j].attempts \in Nat
    BY MaxAttemptsAssumption, AttemptRange DEF BaseInv, TypeInv, TypeOK
  <1>4. /\ Waiting(job'[j]) => job'[j].attempts < MaxAttempts
        /\ job'[j].status = "ABSENT" => job'[j].attempts = 0 /\ ~job'[j].cancel
    BY <1>1, <1>2, <1>3
       DEF RowEffect, OwnEffect, SameButTime, EndedStep, SweptStep, Left, Kept, Waiting,
           WaitingStatuses, ActiveStatuses, AttemptsOK
  <1>5. job'[j].status = "PROCESSING" => job'[j].attempts > 0
    BY <1>1, <1>2, <1>3
       DEF RowEffect, OwnEffect, SameButTime, EndedStep, SweptStep, Left, Kept, Waiting,
           WaitingStatuses, ActiveStatuses, AttemptsOK, Running
  <1>6. job'[j].status = "SUCCEEDED" /\ cached'[j] = NoJob => job'[j].attempts > 0
    BY <1>1, <1>2, LifecycleAssumption
       DEF RowEffect, OwnEffect, SameButTime, EndedStep, SweptStep, Left, Kept, Waiting,
           WaitingStatuses, ActiveStatuses, AttemptsOK, Running, Reusable
  <1> QED
    BY <1>4, <1>5, <1>6 DEF AttemptsOK, Running, Reusable, Waiting

\* No worker, sweep or manual retry leaves a job waiting that no claim could
\* take for want of attempts.
THEOREM AttemptLeft == Spec => []WaitingHasAttemptLeft
  <1>1. AttemptsInv => WaitingHasAttemptLeft
    BY DEF AttemptsInv, AttemptsOK, WaitingHasAttemptLeft
  <1> QED
    BY InitBase, NextBase, InitAttempts, NextAttempts, <1>1, PTL DEF Spec

(***************************************************************************)
(* How often a job can be started                                          *)
(***************************************************************************)
\* Every claim is either still counted in attempts or paid for by a retry.
ClaimsInv == \A j \in Jobs : claims[j] <= MaxAttempts * retries[j] + job[j].attempts

LEMMA InitClaims == Init => ClaimsInv
  BY MaxAttemptsAssumption DEF Init, ClaimsInv, NoRow

LEMMA NextClaims == BaseInv /\ BaseInv' /\ AttemptsInv /\ ClaimsInv /\ [Next]_vars => ClaimsInv'
  <1> SUFFICES ASSUME BaseInv, BaseInv', AttemptsInv, ClaimsInv, [Next]_vars, NEW j \in Jobs
               PROVE  claims'[j] <= MaxAttempts * retries'[j] + job'[j].attempts
    BY DEF ClaimsInv
  <1>1. RowEffect(j)
    BY RowEffects DEF BaseInv
  <1>2. claims[j] <= MaxAttempts * retries[j] + job[j].attempts
    BY DEF ClaimsInv
  <1>3. /\ claims[j] \in Nat /\ retries[j] \in Nat /\ MaxAttempts \in Nat
        /\ job[j].attempts \in Nat /\ job[j].attempts <= MaxAttempts
    BY MaxAttemptsAssumption, AttemptRange DEF BaseInv, TypeInv, TypeOK
  <1> DEFINE m == MaxAttempts * retries[j]
  <1>4. m \in Nat /\ MaxAttempts * (retries[j] + 1) = m + MaxAttempts /\ retries[j] + 0 = retries[j]
    BY <1>3
  <1>5. ASSUME Counts(j, 0, 0), job'[j].attempts = job[j].attempts
        PROVE  claims'[j] <= MaxAttempts * retries'[j] + job'[j].attempts
    BY <1>2, <1>3, <1>5 DEF Counts
  <1>6. ASSUME Counts(j, 0, 1), job'[j].attempts = 0
        PROVE  claims'[j] <= MaxAttempts * retries'[j] + job'[j].attempts
    <2>1. claims'[j] = claims[j] /\ MaxAttempts * retries'[j] = m + MaxAttempts
      BY <1>3, <1>4, <1>6 DEF Counts
    <2> HIDE DEF m
    <2> QED
      BY <1>2, <1>3, <1>4, <1>6, <2>1 DEF m
  <1>7. ASSUME Counts(j, 1, 0), job'[j].attempts = job[j].attempts + 1
        PROVE  claims'[j] <= MaxAttempts * retries'[j] + job'[j].attempts
    <2>1. claims'[j] = claims[j] + 1 /\ MaxAttempts * retries'[j] = m
      BY <1>3, <1>4, <1>7 DEF Counts
    <2> HIDE DEF m
    <2> QED
      BY <1>2, <1>3, <1>4, <1>7, <2>1 DEF m
  <1> HIDE DEF m
  <1>8. job[j].status = "ABSENT" => job[j].attempts = 0
    BY DEF AttemptsInv, AttemptsOK
  <1> QED
    BY <1>1, <1>5, <1>6, <1>7, <1>8 DEF RowEffect, OwnEffect, SameButTime, EndedStep, SweptStep, Left, Kept

\* A submission is started at most max_attempts times, however its messages
\* are repeated and whoever gives the job back.
THEOREM AttemptsBounded == Spec => []AttemptsAreBounded
  <1>1. BaseInv /\ ClaimsInv => AttemptsAreBounded
    <2> SUFFICES ASSUME BaseInv, ClaimsInv, NEW j \in Jobs
                 PROVE  claims[j] <= MaxAttempts * (retries[j] + 1)
      BY DEF AttemptsAreBounded
    <2>1. /\ claims[j] \in Nat /\ retries[j] \in Nat /\ MaxAttempts \in Nat
          /\ job[j].attempts \in Nat /\ job[j].attempts <= MaxAttempts
      BY MaxAttemptsAssumption, AttemptRange DEF BaseInv, TypeInv, TypeOK
    <2> DEFINE m == MaxAttempts * retries[j]
    <2>2. m \in Nat /\ MaxAttempts * (retries[j] + 1) = m + MaxAttempts
      BY <2>1
    <2>3. claims[j] <= m + job[j].attempts
      BY DEF ClaimsInv
    <2> HIDE DEF m
    <2> QED
      BY <2>1, <2>2, <2>3
  <1> QED
    BY InitBase, NextBase, InitAttempts, NextAttempts, InitClaims, NextClaims, <1>1,
       PTL DEF Spec

(***************************************************************************)
(* What a step may never do                                                *)
(***************************************************************************)
\* An outcome changes only by POST /retry, and a success never does.
THEOREM OutcomesAreFinal == Spec => OutcomeIsFinal
  <1> DEFINE Final(j) == Terminal(job[j]) =>
        \/ /\ job'[j].status = job[j].status   /\ job'[j].error = job[j].error
           /\ job'[j].attempts = job[j].attempts /\ job'[j].owner = job[j].owner
        \/ job[j].status # "SUCCEEDED" /\ job'[j] = ManuallyRetried(job[j])
  <1>1. ASSUME BaseInv, BaseInv', [Next]_vars, NEW j \in Jobs PROVE Final(j)
    <2>1. RowEffect(j)
      BY <1>1, RowEffects DEF BaseInv
    <2> QED
      BY <2>1 DEF RowEffect, OwnEffect, SameButTime, EndedStep, SweptStep, Left, Claimable, Waiting, Terminal,
                  WaitingStatuses, TerminalStatuses, ActiveStatuses
  <1>2. BaseInv /\ BaseInv' /\ [Next]_vars => [\A j \in Jobs : Final(j)]_vars
    BY <1>1
  <1> QED
    BY InitBase, NextBase, <1>2, PTL DEF Spec, OutcomeIsFinal

\* No step loses an accepted cancellation, whatever a sweep had read before it
\* came, and none takes the job out of PROCESSING against it but its owner's.
THEOREM CancelsAreHeeded == Spec => CancelIsHeeded
  <1> DEFINE Heeded(j) == job[j].cancel =>
        \/ /\ job'[j].cancel
           /\ Running(job[j]) => \/ job'[j].status \in {"PROCESSING", "CANCELLED"}
                                \/ \E w \in Workers : exec[w].job = j /\ Owns(w) /\ exec'[w] # exec[w]
        \/ Terminal(job[j]) /\ job'[j] = ManuallyRetried(job[j])
  <1>1. ASSUME BaseInv, BaseInv', AttemptsInv, [Next]_vars, NEW j \in Jobs PROVE Heeded(j)
    <2>1. RowEffect(j) /\ (job[j].status = "ABSENT" => ~job[j].cancel)
      BY <1>1, RowEffects DEF BaseInv, AttemptsInv, AttemptsOK
    <2> QED
      BY <2>1 DEF RowEffect, OwnEffect, SameButTime, EndedStep, SweptStep, Kept, Left, Claimable, Waiting,
                  Running, Terminal, WaitingStatuses, TerminalStatuses, ActiveStatuses
  <1>2. BaseInv /\ BaseInv' /\ AttemptsInv /\ [Next]_vars => [\A j \in Jobs : Heeded(j)]_vars
    BY <1>1
  <1> QED
    BY InitBase, NextBase, InitAttempts, NextAttempts, <1>2, PTL DEF Spec, CancelIsHeeded

\* A running job with a fresh heartbeat leaves PROCESSING only by its owner:
\* what a sweep decided from the rows it locked still holds at its commit.
THEOREM LeasesAreRespected == Spec => LeaseIsRespected
  <1> DEFINE Respected(j) == Running(job[j]) /\ job[j].alive /\ ~Running(job'[j]) =>
               \E w \in Workers : exec[w].job = j /\ Owns(w) /\ exec'[w] # exec[w]
  <1>1. ASSUME BaseInv, BaseInv', [Next]_vars, NEW j \in Jobs PROVE Respected(j)
    <2>1. RowEffect(j)
      BY <1>1, RowEffects DEF BaseInv
    <2> QED
      BY <2>1 DEF RowEffect, OwnEffect, SameButTime, EndedStep, SweptStep, Claimable, Waiting, Running, Stale,
                  WaitingStatuses, ActiveStatuses
  <1>2. BaseInv /\ BaseInv' /\ [Next]_vars => [\A j \in Jobs : Respected(j)]_vars
    BY <1>1
  <1> QED
    BY InitBase, NextBase, <1>2, PTL DEF Spec, LeaseIsRespected

(***************************************************************************)
(* The contract.  Every way a row can change is a step of JobContract, or   *)
(* none of its business.                                                   *)
(***************************************************************************)
LEMMA Phases ==
  /\ PhaseOf("ABSENT") = "absent" /\ PhaseOf("QUEUED") = "waiting" /\ PhaseOf("RETRYING") = "waiting"
  /\ PhaseOf("PROCESSING") = "running" /\ PhaseOf("SUCCEEDED") = "succeeded"
  /\ PhaseOf("FAILED") = "failed" /\ PhaseOf("CANCELLED") = "cancelled"
  BY DEF PhaseOf, WaitingStatuses

LEMMA PromiseOfRow == \A r \in Row : Promise(r) \in Contract!Promises
  BY Phases DEF Promise, Row, ActiveStatuses, WaitingStatuses, TerminalStatuses,
                Contract!Promises, Contract!Phases, Contract!Outcomes

\* The steps of the contract in terms of rows.
LEMMA ContractMoves ==
  ASSUME NEW r \in Row, NEW s \in Row
  PROVE  /\ r.status = "ABSENT" /\ r.attempts = 0 /\ s.status = "QUEUED" /\ s.attempts = 0
            => Contract!Submit(Promise(r), Promise(s))
         /\ r.status = "ABSENT" /\ r.attempts = 0 /\ s.status = "SUCCEEDED" /\ s.attempts = 0
            => Promise(r) = Contract!Absent /\ Promise(s) = [phase |-> "succeeded", starts |-> 0]
         /\ Waiting(r) /\ r.attempts < MaxAttempts /\ s.status = "PROCESSING"
            /\ s.attempts = r.attempts + 1 => Contract!Start(Promise(r), Promise(s))
         /\ r.status = "PROCESSING" /\ r.attempts < MaxAttempts /\ Waiting(s)
            /\ s.attempts = r.attempts => Contract!GiveBack(Promise(r), Promise(s))
         /\ r.status = "PROCESSING" /\ Terminal(s)
            /\ s.attempts = r.attempts => Contract!Conclude(Promise(r), Promise(s))
         /\ Waiting(r) /\ s.status \in {"FAILED", "CANCELLED"}
            /\ s.attempts = r.attempts => Contract!Withdraw(Promise(r), Promise(s))
         /\ r.status \in {"FAILED", "CANCELLED"} /\ s.status = "QUEUED" /\ s.attempts = 0
            => Contract!Reopen(Promise(r), Promise(s))
         /\ s.status = r.status /\ s.attempts = r.attempts => Promise(s) = Promise(r)
         /\ Waiting(r) /\ Waiting(s) /\ s.attempts = r.attempts => Promise(s) = Promise(r)
  <1> DEFINE p == Promise(r)
             q == Promise(s)
  <1>1. /\ p = [phase |-> PhaseOf(r.status), starts |-> r.attempts]
        /\ q = [phase |-> PhaseOf(s.status), starts |-> s.attempts]
    BY DEF Promise
  <1>2. \A x : [p EXCEPT !.phase = x] = [phase |-> x, starts |-> r.attempts]
    BY <1>1
  <1>3. /\ Waiting(r) => PhaseOf(r.status) = "waiting"
        /\ Waiting(s) => PhaseOf(s.status) = "waiting"
    BY Phases DEF Waiting, WaitingStatuses
  <1>4. Terminal(s) => PhaseOf(s.status) \in Contract!Outcomes
    BY Phases DEF Terminal, TerminalStatuses, Contract!Outcomes
  <1> HIDE DEF p, q
  <1>5. p.phase = PhaseOf(r.status) /\ p.starts = r.attempts
    BY <1>1
  <1>6. r.status = "ABSENT" /\ r.attempts = 0 /\ s.status = "QUEUED" /\ s.attempts = 0
          => Contract!Submit(p, q)
    BY <1>1, Phases DEF Contract!Submit, Contract!Absent, Contract!Fresh
  <1>7. Waiting(r) /\ r.attempts < MaxAttempts /\ s.status = "PROCESSING" /\ s.attempts = r.attempts + 1
          => Contract!Start(p, q)
    BY <1>1, <1>3, <1>5, Phases DEF Contract!Start
  <1>8. r.status = "PROCESSING" /\ r.attempts < MaxAttempts /\ Waiting(s) /\ s.attempts = r.attempts
          => Contract!GiveBack(p, q)
    BY <1>1, <1>2, <1>3, <1>5, Phases DEF Contract!GiveBack
  <1>9. r.status = "PROCESSING" /\ Terminal(s) /\ s.attempts = r.attempts => Contract!Conclude(p, q)
    BY <1>1, <1>2, <1>4, <1>5, Phases DEF Contract!Conclude
  <1>10. Waiting(r) /\ s.status \in {"FAILED", "CANCELLED"} /\ s.attempts = r.attempts
          => Contract!Withdraw(p, q)
    BY <1>1, <1>2, <1>3, <1>5, Phases DEF Contract!Withdraw
  <1>11. r.status \in {"FAILED", "CANCELLED"} /\ s.status = "QUEUED" /\ s.attempts = 0
          => Contract!Reopen(p, q)
    BY <1>1, <1>5, Phases DEF Contract!Reopen, Contract!Fresh
  <1>12. /\ s.status = r.status /\ s.attempts = r.attempts => q = p
         /\ Waiting(r) /\ Waiting(s) /\ s.attempts = r.attempts => q = p
    BY <1>1, <1>3
  <1>13. r.status = "ABSENT" /\ r.attempts = 0 /\ s.status = "SUCCEEDED" /\ s.attempts = 0
          => p = Contract!Absent /\ q = [phase |-> "succeeded", starts |-> 0]
    BY <1>1, Phases DEF Contract!Absent
  <1> QED
    BY <1>6, <1>7, <1>8, <1>9, <1>10, <1>11, <1>12, <1>13 DEF p, q

LEMMA ContractStep ==
  ASSUME BaseInv, BaseInv', AttemptsInv, [Next]_vars, NEW j \in Jobs
  PROVE  \/ Promise(job'[j]) = Promise(job[j])
         \/ Contract!JobStep(Promise(job[j]), Promise(job'[j]))
         \/ Contract!Reuse(Promise(job[j]), Promise(job'[j]))
  <1> DEFINE r == job[j]
             s == job'[j]
             Copied == /\ r.status = "ABSENT" /\ s.status = "SUCCEEDED" /\ s.attempts = 0
                       /\ \E k \in Jobs : Reusable(k)
  <1>1. RowEffect(j) /\ r \in Row /\ s \in Row
    BY RowEffects DEF BaseInv, TypeInv, TypeOK
  <1>2. /\ Waiting(r) => r.attempts < MaxAttempts
        /\ r.status = "ABSENT" => r.attempts = 0
    BY DEF AttemptsInv, AttemptsOK
  <1>3. \/ r.status = "ABSENT" /\ s.status = "QUEUED" /\ s.attempts = 0
        \/ Waiting(r) /\ s.status = "PROCESSING" /\ s.attempts = r.attempts + 1
        \/ r.status = "PROCESSING" /\ r.attempts < MaxAttempts /\ Waiting(s) /\ s.attempts = r.attempts
        \/ r.status = "PROCESSING" /\ Terminal(s) /\ s.attempts = r.attempts
        \/ Waiting(r) /\ s.status \in {"FAILED", "CANCELLED"} /\ s.attempts = r.attempts
        \/ r.status \in {"FAILED", "CANCELLED"} /\ s.status = "QUEUED" /\ s.attempts = 0
        \/ s.status = r.status /\ s.attempts = r.attempts
        \/ Waiting(r) /\ Waiting(s) /\ s.attempts = r.attempts
        \/ Copied
    BY <1>1 DEF RowEffect, OwnEffect, SameButTime, EndedStep, SweptStep, Left, Kept, Claimable, Waiting,
                Terminal, WaitingStatuses, TerminalStatuses, ActiveStatuses
  <1>4. ASSUME NEW k \in Jobs, Reusable(k) PROVE Contract!Earned(promises[k])
    BY <1>4, Phases DEF AttemptsInv, AttemptsOK, Reusable, promises, Promise, Contract!Earned
  <1>5. ASSUME Copied PROVE Contract!Reuse(Promise(r), Promise(s))
    <2>1. \E k \in Jobs : Contract!Earned(promises[k])
      BY <1>4, <1>5
    <2>2. Promise(r) = Contract!Absent /\ Promise(s) = [phase |-> "succeeded", starts |-> 0]
      BY <1>1, <1>2, <1>5, ContractMoves
    <2> HIDE DEF r, s
    <2> QED
      BY <2>1, <2>2 DEF Contract!Reuse
  <1> HIDE DEF r, s, Copied
  <1>6. \/ Promise(s) = Promise(r)
        \/ Contract!JobStep(Promise(r), Promise(s))
        \/ Contract!Reuse(Promise(r), Promise(s))
    BY <1>1, <1>2, <1>3, <1>5, ContractMoves DEF Contract!JobStep
  <1> QED
    BY <1>6 DEF r, s

\* Seen through GET /v1/jobs/{id}, API, workers, sweeper and broker together
\* keep the contract of JobContract.
THEOREM KeepsContract == Spec => ImplementsContract
  <1>1. Init => Contract!Init
    BY Phases DEF Init, Contract!Init, Contract!Absent, promises, Promise, NoRow
  <1>2. BaseInv /\ BaseInv' /\ AttemptsInv /\ [Next]_vars => [Contract!Next]_promises
    <2> SUFFICES ASSUME BaseInv, BaseInv', AttemptsInv, [Next]_vars PROVE Contract!Next
      OBVIOUS
    <2>1. \A j \in Jobs : job'[j] \in Row
      BY DEF BaseInv, TypeInv, TypeOK
    <2>2. promises' \in [Jobs -> Contract!Promises]
      BY <2>1, PromiseOfRow DEF promises
    <2> QED
      BY <2>2, ContractStep DEF Contract!Next, promises
  <1> QED
    BY InitBase, NextBase, InitAttempts, NextAttempts, <1>1, <1>2, PTL
       DEF Spec, ImplementsContract, Contract!Spec

(***************************************************************************)
(* How a step may change the slot of w.                                    *)
(***************************************************************************)
InBusy(e) == e.pc \in Busy

\* Nothing seen, stored or decided yet.
Blank(e) == ~e.stop /\ e.stored = 0 /\ e.verdict = "none"

\* w claims its job and draws a worker_id; every other slot stays as it is.
Started(w) == LET j == exec[w].job IN
  /\ exec[w].pc = "received" /\ exec'[w].pc = "extracting" /\ j \in Jobs
  /\ exec'[w].job = j /\ exec'[w].token = claims[j] + 1 /\ claims'[j] = claims[j] + 1
  /\ exec'[w].stop = exec[w].stop /\ exec'[w].stored = exec[w].stored
  /\ exec'[w].verdict = exec[w].verdict
  /\ \A v \in Workers : v # w => exec'[v] = exec[v]

\* w goes on with the execution it is in.
GoesOn(w) == LET e == exec[w]
                 f == exec'[w] IN
  /\ InBusy(e) /\ InBusy(f) /\ f.job = e.job /\ f.token = e.token
  /\ f.stop = e.stop \/ (Owns(w) /\ f.stop = job[e.job].cancel)
  /\ \/ f.verdict = e.verdict
     \/ f.verdict \in {"FAILED", "RETRY"}
     \/ f.verdict = "CANCELLED" /\ e.stop
  /\ f.stored = e.stored \/ (f.stored = e.stored + 1 /\ art'[e.job][f.stored] = e.token)
  /\ f.pc = "committing" => e.pc = "committing" \/ e.stored = NArtifacts
  /\ f.pc = "committing" => f.stored = e.stored

\* At most its message was given back by the broker.
Stays(w) == LET e == exec[w]
                f == exec'[w] IN
  /\ f.pc = e.pc /\ f.job = e.job /\ f.token = e.token
  /\ f.stop = e.stop /\ f.stored = e.stored /\ f.verdict = e.verdict

SlotStep(w) ==
  \/ Stays(w)
  \/ exec'[w].pc \in {"idle", "acking"}
  \/ exec'[w].pc = "received" /\ Blank(exec'[w])
  \/ Started(w)
  \/ GoesOn(w)

LEMMA SlotMoves ==
  ASSUME TypeInv, [Next]_vars, NEW w \in Workers
  PROVE  SlotStep(w)
  <1> USE DEF TypeInv, TypeOK
  <1>1. ASSUME UNCHANGED exec PROVE SlotStep(w)
    BY <1>1 DEF SlotStep, Stays
  <1>2. ASSUME NEW v \in Workers, NEW e, exec' = [exec EXCEPT ![v] = e], v = w => SlotStep(w)
        PROVE  SlotStep(w)
    BY <1>2 DEF SlotStep, Stays
  <1>3. ASSUME NEW v \in Workers, NEW j \in Jobs, Receive(v, j) PROVE SlotStep(w)
    <2> DEFINE e == [Idle EXCEPT !.pc = "received", !.job = j, !.held = TRUE]
    <2>1. e.pc = "received" /\ Blank(e)
      BY DEF Idle, Blank
    <2> HIDE DEF e
    <2>2. exec' = [exec EXCEPT ![v] = e]
      BY <1>3 DEF Receive, e
    <2> QED
      BY <1>2, <2>1, <2>2 DEF SlotStep
  <1>4. ASSUME NEW v \in Workers, NEW pc \in {"idle", "acking"}, exec'[v].pc = pc,
               \E e : exec' = [exec EXCEPT ![v] = e]
        PROVE  SlotStep(w)
    BY <1>2, <1>4 DEF SlotStep
  <1>5. ASSUME NEW v \in Workers, exec' = [exec EXCEPT ![v] = Idle] PROVE SlotStep(w)
    BY <1>4, <1>5 DEF Idle
  <1>6. ASSUME NEW v \in Workers, exec' = [exec EXCEPT ![v].pc = "acking"] PROVE SlotStep(w)
    BY <1>2, <1>6 DEF SlotStep, Execution
  <1>7. ASSUME NEW v \in Workers, Claim(v) PROVE SlotStep(w)
    <2>1. exec[v].pc = "received" /\ exec[v].job \in Jobs /\ exec[v] \in Execution
      BY <1>7 DEF Claim, SlotsOK, SlotOK
    <2> DEFINE t == claims[exec[v].job] + 1
               e == [exec[v] EXCEPT !.pc = "extracting", !.token = t]
    <2>2. CASE Claimable(job[exec[v].job]) /\ v = w
      <3>1. exec' = [exec EXCEPT ![v] = e] /\ claims'[exec[v].job] = t
        BY <1>7, <2>1, <2>2 DEF Claim, WorkerId
      <3> HIDE DEF t
      <3>2. /\ e.pc = "extracting" /\ e.token = t /\ e.job = exec[v].job
            /\ e.stop = exec[v].stop /\ e.stored = exec[v].stored /\ e.verdict = exec[v].verdict
        BY <2>1 DEF Execution
      <3> HIDE DEF e
      <3>3. exec'[w] = e /\ \A u \in Workers : u # w => exec'[u] = exec[u]
        BY <2>2, <3>1
      <3> QED
        BY <2>1, <2>2, <3>1, <3>2, <3>3 DEF SlotStep, Started, t
    <2>3. CASE Claimable(job[exec[v].job]) /\ v # w
      BY <1>1, <1>2, <1>7, <2>3 DEF Claim
    <2>4. CASE ~Claimable(job[exec[v].job])
      BY <1>6, <1>7, <2>4 DEF Claim
    <2> QED
      BY <2>2, <2>3, <2>4
  <1>8. ASSUME NEW v \in Workers,
               Beat(v) \/ Extracted(v) \/ Store(v) \/ FinalCheck(v) \/ StopCancelled(v) \/ Raise(v)
        PROVE  SlotStep(w)
    <2>1. exec[v] \in Execution /\ (exec[v].pc # "idle" => exec[v].job \in Jobs)
      BY DEF SlotsOK, SlotOK
    <2>2. ASSUME Beat(v), v = w PROVE GoesOn(w)
      BY <2>1, <2>2 DEF Beat, GoesOn, InBusy, Busy, Execution
    <2>3. ASSUME Extracted(v), v = w PROVE GoesOn(w)
      BY <2>1, <2>3 DEF Extracted, GoesOn, InBusy, Busy, Execution
    <2>4. ASSUME FinalCheck(v), v = w PROVE GoesOn(w)
      BY <2>1, <2>4 DEF FinalCheck, GoesOn, InBusy, Busy, Execution
    <2>5. ASSUME StopCancelled(v), v = w PROVE GoesOn(w)
      BY <2>1, <2>5 DEF StopCancelled, AtCheckpoint, GoesOn, InBusy, Busy, Execution
    <2>6. ASSUME Raise(v), v = w PROVE GoesOn(w)
      BY <2>1, <2>6 DEF Raise, GoesOn, InBusy, Busy, Execution
    <2>7. ASSUME Store(v), v = w PROVE GoesOn(w)
      <3> DEFINE a == exec[v].stored + 1
      <3>1. a \in Artifacts /\ exec[v].pc = "storing" /\ exec[v].job \in Jobs
        BY <2>1, <2>7, LifecycleAssumption DEF Store, Artifacts, Execution
      <3>2. art'[exec[v].job][a] = exec[v].token
        BY <2>7, <3>1 DEF Store
      <3>3. exec'[w] = [exec[w] EXCEPT !.stored = a]
        BY <2>7 DEF Store
      <3> HIDE DEF a
      <3>4. /\ exec'[w].pc = "storing" /\ exec'[w].job = exec[w].job /\ exec'[w].token = exec[w].token
            /\ exec'[w].stop = exec[w].stop /\ exec'[w].verdict = exec[w].verdict /\ exec'[w].stored = a
        BY <2>1, <2>7, <3>1, <3>3 DEF Execution
      <3> QED
        BY <2>7, <3>1, <3>2, <3>4 DEF GoesOn, InBusy, Busy, a
    <2>8. \E e : exec' = [exec EXCEPT ![v] = e]
      BY <1>8 DEF Beat, Extracted, Store, FinalCheck, StopCancelled, Raise
    <2> QED
      BY <1>2, <1>8, <2>2, <2>3, <2>4, <2>5, <2>6, <2>7, <2>8 DEF SlotStep
  <1>9. ASSUME NEW v \in Workers, Succeed(v) PROVE SlotStep(w)
    <2>1. CASE exec' = [exec EXCEPT ![v].pc = "acking"]
      BY <1>6, <2>1
    <2>2. CASE exec' = [exec EXCEPT ![v] = [@ EXCEPT !.pc = "finishing", !.verdict = "RETRY"]]
      <3>1. ASSUME v = w PROVE GoesOn(w)
        BY <1>9, <2>2, <3>1 DEF Succeed, GoesOn, InBusy, Busy, Execution
      <3> QED
        BY <1>2, <2>2, <3>1 DEF SlotStep
    <2> QED
      BY <1>9, <2>1, <2>2 DEF Succeed
  <1>10. ASSUME NEW v \in Workers, Ack(v) \/ Crash(v) \/ ClaimUnavailable(v) PROVE SlotStep(w)
    BY <1>5, <1>10 DEF Ack, Crash, ClaimUnavailable
  <1>11. ASSUME NEW v \in Workers, StopLost(v) \/ Finish(v) \/ FinishUnavailable(v) PROVE SlotStep(w)
    BY <1>6, <1>11 DEF StopLost, Finish, FinishUnavailable
  <1>12. ASSUME NEW v \in Workers, RestoreHeld(v) PROVE SlotStep(w)
    BY <1>12 DEF RestoreHeld, SlotStep, Stays, Execution
  <1>13. CASE Flush
    BY <1>13 DEF Flush, SlotStep, Stays, Execution
  <1>14. ASSUME NEW j \in Jobs, Api(j) \/ Publisher(j) \/ Time(j) \/ RestoreOrphan(j) PROVE SlotStep(w)
    BY <1>1, <1>14 DEF Api, Upload, UploadCached, CancelJob, RetryJob, Publisher, Publish, PublishFails, PublishLost,
         Time, AgeHeartbeat, AgeDispatch, AgeBackoff, AgeQueue, RestoreOrphan
  <1>15. ASSUME NEW v \in Workers, Page(v) PROVE SlotStep(w)
    BY <1>1, <1>15 DEF Page
  <1>16. CASE Sweeper \/ UNCHANGED vars
    BY <1>1, <1>16 DEF Sweeper, SweepStart, SweepLists, SweepUnacked, SweepBlind, SweepCommit,
         SweepCommitBlind, SweepAborts, vars
  <1> QED
    BY <1>3, <1>7, <1>8, <1>9, <1>10, <1>11, <1>12, <1>13, <1>14, <1>15, <1>16 DEF Next, Worker, Task
\* An artifact is only ever replaced by one of an execution under way.
LEMMA ArtifactMoves ==
  ASSUME TypeInv, [Next]_vars, NEW j \in Jobs, NEW a \in Artifacts
  PROVE  \/ art'[j][a] = art[j][a]
         \/ \E w \in Workers : InBusy(exec[w]) /\ exec[w].job = j /\ art'[j][a] = exec[w].token
  <1> DEFINE Moves == \/ art'[j][a] = art[j][a]
                      \/ \E w \in Workers : InBusy(exec[w]) /\ exec[w].job = j
                                             /\ art'[j][a] = exec[w].token
  <1>1. CASE UNCHANGED art
    BY <1>1
  <1>2. ASSUME NEW w \in Workers, Store(w) PROVE Moves
    <2> DEFINE i == exec[w].job
               b == exec[w].stored + 1
    <2>1. exec[w] \in Execution /\ exec[w].pc = "storing" /\ exec[w].stored < NArtifacts
      BY <1>2 DEF Store, TypeInv, TypeOK
    <2>2. i \in Jobs /\ InBusy(exec[w])
      BY <2>1 DEF TypeInv, SlotsOK, SlotOK, InBusy, Busy
    <2>3. b \in Artifacts
      BY <2>1, LifecycleAssumption DEF Execution, Artifacts
    <2>4. art' = [art EXCEPT ![i] = [art[i] EXCEPT ![b] = exec[w].token]]
      BY <1>2 DEF Store
    <2> HIDE DEF i, b
    <2>5. art'[j][a] = IF i = j /\ b = a THEN exec[w].token ELSE art[j][a]
      BY <2>2, <2>3, <2>4 DEF TypeInv, TypeOK
    <2> QED
      BY <2>2, <2>5 DEF i
  <1>3. UNCHANGED art \/ \E w \in Workers : Store(w)
    BY DEF Next, Api, Upload, UploadCached, CancelJob, RetryJob, Publisher, Publish, PublishFails, PublishLost,
           Time, AgeHeartbeat, AgeDispatch, AgeBackoff, AgeQueue, RestoreOrphan, Worker, Task,
           Receive, Claim, ClaimUnavailable, Beat, Page, Extracted, FinalCheck, StopLost,
           StopCancelled, Raise, Succeed, Finish, FinishUnavailable, Ack, Crash, RestoreHeld, Flush,
           Sweeper, SweepStart, SweepLists, SweepUnacked, SweepBlind, SweepCommit, SweepCommitBlind,
           SweepAborts, vars
  <1> QED
    BY <1>1, <1>2, <1>3

(***************************************************************************)
(* The inductive invariant about executions                                *)
(***************************************************************************)
\* A worker_id was drawn by a claim of the job it works on ...
TokenInv == \A w \in Workers : InBusy(exec[w]) =>
  exec[w].token > 0 /\ exec[w].token <= claims[exec[w].job]

\* ... and by no other execution of it.
DistinctInv == \A v, w \in Workers :
  InBusy(exec[v]) /\ InBusy(exec[w]) /\ exec[v].job = exec[w].job /\ exec[v].token = exec[w].token
    => v = w

BlankInv == \A w \in Workers : exec[w].pc = "received" => Blank(exec[w])

\* The owner of a job knows of a cancellation only if there is one.
StopInv == \A w \in Workers :
  InBusy(exec[w]) /\ Owns(w) /\ (exec[w].stop \/ exec[w].verdict = "CANCELLED")
    => job[exec[w].job].cancel

\* What an execution has put is in the store, if not necessarily its own.
StoredInv == \A w \in Workers : InBusy(exec[w]) =>
  /\ \A a \in Artifacts : a <= exec[w].stored => art[exec[w].job][a] > 0
  /\ exec[w].pc = "committing" => exec[w].stored = NArtifacts

OwnInv == BaseInv /\ TokenInv /\ DistinctInv /\ BlankInv

LEMMA InitOwn == Init => OwnInv
  BY InitBase DEF Init, OwnInv, TokenInv, DistinctInv, BlankInv, Idle, InBusy, Busy

LEMMA NextBlank == OwnInv /\ [Next]_vars => BlankInv'
  <1> SUFFICES ASSUME OwnInv, [Next]_vars, NEW w \in Workers, exec'[w].pc = "received"
               PROVE  Blank(exec'[w])
    BY DEF BlankInv
  <1>1. SlotStep(w)
    BY SlotMoves DEF OwnInv, BaseInv
  <1> QED
    BY <1>1 DEF SlotStep, Stays, Started, GoesOn, InBusy, Busy, OwnInv, BlankInv, Blank

\* A busy slot was busy with the same execution, or has just claimed its job.
LEMMA BusyCame ==
  ASSUME OwnInv, [Next]_vars, NEW w \in Workers, InBusy(exec'[w])
  PROVE  /\ exec'[w].job = exec[w].job /\ exec[w].job \in Jobs
         /\ \/ InBusy(exec[w]) /\ exec'[w].token = exec[w].token
            \/ Started(w)
  <1>1. SlotStep(w)
    BY SlotMoves DEF OwnInv, BaseInv
  <1>2. exec[w].pc # "idle" => exec[w].job \in Jobs
    BY DEF OwnInv, BaseInv, TypeInv, SlotsOK, SlotOK
  <1> QED
    BY <1>1, <1>2 DEF SlotStep, Stays, Started, GoesOn, InBusy, Busy

LEMMA ClaimsGrow ==
  ASSUME BaseInv, BaseInv', [Next]_vars, NEW j \in Jobs
  PROVE  claims[j] \in Nat /\ claims'[j] \in Nat /\ claims[j] <= claims'[j]
  <1>1. RowEffect(j) /\ claims[j] \in Nat /\ claims'[j] \in Nat
    BY RowEffects DEF BaseInv, TypeInv, TypeOK
  <1> QED
    BY <1>1 DEF RowEffect, OwnEffect, Counts

LEMMA NextToken == OwnInv /\ BaseInv' /\ [Next]_vars => TokenInv'
  <1> SUFFICES ASSUME OwnInv, BaseInv', [Next]_vars, NEW w \in Workers, InBusy(exec'[w])
               PROVE  exec'[w].token > 0 /\ exec'[w].token <= claims'[exec'[w].job]
    BY DEF TokenInv
  <1>1. /\ exec'[w].job = exec[w].job /\ exec[w].job \in Jobs
        /\ (InBusy(exec[w]) /\ exec'[w].token = exec[w].token) \/ Started(w)
    BY BusyCame
  <1>2. /\ claims[exec[w].job] \in Nat /\ claims'[exec[w].job] \in Nat
        /\ claims[exec[w].job] <= claims'[exec[w].job]
    BY <1>1, ClaimsGrow DEF OwnInv
  <1>3. exec[w].token \in Nat
    BY DEF OwnInv, BaseInv, TypeInv, TypeOK, Execution
  <1> QED
    BY <1>1, <1>2, <1>3 DEF OwnInv, TokenInv, Started

LEMMA NextDistinct == OwnInv /\ BaseInv' /\ [Next]_vars => DistinctInv'
  <1> SUFFICES ASSUME OwnInv, BaseInv', [Next]_vars, NEW v \in Workers, NEW w \in Workers,
                      InBusy(exec'[v]), InBusy(exec'[w]), exec'[v].job = exec'[w].job,
                      exec'[v].token = exec'[w].token, v # w
               PROVE  FALSE
    BY DEF DistinctInv
  <1>1. \A u \in {v, w} :
          /\ exec'[u].job = exec[u].job /\ exec[u].job \in Jobs
          /\ (InBusy(exec[u]) /\ exec'[u].token = exec[u].token) \/ Started(u)
    BY BusyCame
  <1>2. ASSUME NEW x \in {v, w}, NEW y \in {v, w}, x # y, Started(x) PROVE FALSE
    <2>1. exec'[y] = exec[y] /\ InBusy(exec[y])
      BY <1>2 DEF Started, InBusy, Busy
    <2>2. exec[y].token <= claims[exec[y].job] /\ exec[y].token \in Nat /\ claims[exec[y].job] \in Nat
      BY <1>1, <2>1 DEF OwnInv, TokenInv, BaseInv, TypeInv, TypeOK, Execution
    <2>3. exec'[x].token = claims[exec[x].job] + 1 /\ exec[x].job = exec[y].job
      BY <1>1, <1>2 DEF Started
    <2> QED
      BY <1>2, <2>1, <2>2, <2>3
  <1>3. CASE ~Started(v) /\ ~Started(w)
    BY <1>1, <1>3 DEF OwnInv, DistinctInv
  <1> QED
    BY <1>2, <1>3

LEMMA NextOwn == OwnInv /\ [Next]_vars => OwnInv'
  BY NextBase, NextBlank, NextToken, NextDistinct DEF OwnInv

\* However its message is repeated, restored or lost, and however late a
\* given-up execution wakes, a job is never taken by two for theirs.
THEOREM AtMostOneOwner == Spec => []OneOwner
  <1>1. OwnInv => OneOwner
    BY DEF OwnInv, DistinctInv, OneOwner, Owns, OwnedBy, InBusy
  <1> QED
    BY InitOwn, NextOwn, <1>1, PTL DEF Spec
(***************************************************************************)
(* Cancellation                                                            *)
(***************************************************************************)
CancelInv == StopInv /\ CancelledOnlyOnRequest

LEMMA InitCancel == Init => CancelInv
  BY DEF Init, CancelInv, StopInv, CancelledOnlyOnRequest, NoRow, Idle, InBusy, Busy

\* Who owns a job after a step owned it before, or has just claimed it.
LEMMA OwnerCame ==
  ASSUME OwnInv, BaseInv', [Next]_vars, NEW w \in Workers,
         InBusy(exec[w]), InBusy(exec'[w]), exec'[w].job = exec[w].job, exec'[w].token = exec[w].token,
         Owns(w)'
  PROVE  /\ Owns(w)
         /\ job[exec[w].job].cancel => job'[exec[w].job].cancel
  <1> DEFINE j == exec[w].job
  <1>1. j \in Jobs /\ exec[w].token <= claims[j] /\ exec[w].token \in Nat /\ claims[j] \in Nat
    BY DEF OwnInv, TokenInv, BaseInv, TypeInv, TypeOK, SlotsOK, SlotOK, Execution, InBusy, Busy
  <1>2. RowEffect(j)
    BY <1>1, RowEffects DEF OwnInv, BaseInv
  <1>3. job'[j].status = "PROCESSING" /\ job'[j].owner = exec[w].token
    BY DEF Owns, OwnedBy, Running
  <1>4. job'[j].owner # claims[j] + 1
    BY <1>1, <1>3
  <1> HIDE DEF j
  <1>5. job[j].status = "PROCESSING" /\ job[j].owner = exec[w].token /\ (job[j].cancel => job'[j].cancel)
    BY <1>2, <1>3, <1>4
       DEF RowEffect, OwnEffect, SameButTime, EndedStep, SweptStep, Left, Waiting, WaitingStatuses, ActiveStatuses
  <1> QED
    BY <1>5 DEF j, Owns, OwnedBy, Running

LEMMA NextStop == OwnInv /\ BaseInv' /\ StopInv /\ [Next]_vars => StopInv'
  <1> SUFFICES ASSUME OwnInv, BaseInv', StopInv, [Next]_vars, NEW w \in Workers,
                      InBusy(exec'[w]), Owns(w)', exec'[w].stop \/ exec'[w].verdict = "CANCELLED"
               PROVE  job'[exec'[w].job].cancel
    BY DEF StopInv
  <1>1. SlotStep(w) /\ exec'[w].job = exec[w].job
    BY SlotMoves, BusyCame DEF OwnInv, BaseInv
  <1>2. ~Started(w)
    BY DEF Started, OwnInv, BlankInv, Blank
  <1>3. InBusy(exec[w]) /\ exec'[w].token = exec[w].token
    BY <1>2, BusyCame
  <1>4. Owns(w) /\ (job[exec[w].job].cancel => job'[exec[w].job].cancel)
    BY <1>1, <1>3, OwnerCame
  <1>5. (exec[w].stop \/ exec[w].verdict = "CANCELLED") => job[exec[w].job].cancel
    BY <1>3, <1>4 DEF StopInv
  <1>6. job[exec[w].job].cancel
    BY <1>1, <1>2, <1>5 DEF SlotStep, Stays, GoesOn, InBusy, Busy
  <1> QED
    BY <1>1, <1>4, <1>6

LEMMA NextCancelled ==
  OwnInv /\ BaseInv' /\ CancelInv /\ [Next]_vars => CancelledOnlyOnRequest'
  <1> SUFFICES ASSUME OwnInv, BaseInv', CancelInv, [Next]_vars, NEW j \in Jobs,
                      job'[j].status = "CANCELLED"
               PROVE  job'[j].cancel
    BY DEF CancelledOnlyOnRequest
  <1>1. RowEffect(j)
    BY RowEffects DEF OwnInv, BaseInv
  <1>2. job[j].status = "CANCELLED" => job[j].cancel
    BY DEF CancelInv, CancelledOnlyOnRequest
  <1>3. ASSUME EndedStep(j) PROVE job'[j].cancel
    BY <1>3 DEF EndedStep, Left, Kept, CancelInv, StopInv, InBusy, Busy
  <1> QED
    BY <1>1, <1>2, <1>3 DEF RowEffect, OwnEffect, SameButTime, SweptStep, Kept

\* No flag an earlier attempt's heartbeat has read can cancel a job that was
\* retried since: CANCELLED is always somebody's standing wish.
THEOREM CancelledIsRequested == Spec => []CancelledOnlyOnRequest
  <1>1. CancelInv => CancelledOnlyOnRequest
    BY DEF CancelInv
  <1>2. OwnInv => BaseInv
    BY DEF OwnInv
  <1>3. OwnInv /\ BaseInv' /\ CancelInv /\ [Next]_vars => CancelInv'
    BY NextStop, NextCancelled DEF CancelInv
  <1> QED
    BY InitOwn, NextOwn, InitCancel, <1>1, <1>2, <1>3, PTL DEF Spec

(***************************************************************************)
(* The artifacts of a result                                               *)
(***************************************************************************)
\* A copied result is that of a job that succeeded by its own work.
CopiesInv == \A j \in Jobs : cached[j] # NoJob => Reusable(cached[j])

ResultInv == StoredInv /\ CopiesInv /\ ResultIsComplete

LEMMA InitResult == Init => ResultInv
  BY DEF Init, ResultInv, CopiesInv, StoredInv, ResultIsComplete, NoRow, Idle, InBusy, Busy

LEMMA ArtifactsStay ==
  ASSUME OwnInv, [Next]_vars, NEW j \in Jobs, NEW a \in Artifacts, art[j][a] > 0
  PROVE  art'[j][a] > 0
  BY ArtifactMoves DEF OwnInv, BaseInv, TokenInv

LEMMA NextStored == OwnInv /\ StoredInv /\ [Next]_vars => StoredInv'
  <1> SUFFICES ASSUME OwnInv, StoredInv, [Next]_vars, NEW w \in Workers, InBusy(exec'[w])
               PROVE  /\ \A a \in Artifacts : a <= exec'[w].stored => art'[exec'[w].job][a] > 0
                      /\ exec'[w].pc = "committing" => exec'[w].stored = NArtifacts
    BY DEF StoredInv
  <1> DEFINE j == exec[w].job
  <1>1. SlotStep(w) /\ exec'[w].job = j /\ j \in Jobs
    BY SlotMoves, BusyCame DEF OwnInv, BaseInv
  <1>2. exec[w].stored \in Nat /\ exec[w].token \in Nat
    BY LifecycleAssumption DEF OwnInv, BaseInv, TypeInv, TypeOK, Execution
  <1>3. CASE Started(w)
    <2>1. exec'[w].stored = 0
      BY <1>3 DEF Started, OwnInv, BlankInv, Blank
    <2>2. \A a \in Artifacts : ~(a <= 0)
      BY LifecycleAssumption DEF Artifacts
    <2> QED
      BY <1>3, <2>1, <2>2 DEF Started
  <1>4. CASE ~Started(w)
    <2>1. InBusy(exec[w]) /\ exec[w].token > 0
      BY <1>4, BusyCame DEF OwnInv, TokenInv
    <2>2. \A a \in Artifacts : a <= exec[w].stored => art'[j][a] > 0
      BY <1>1, <2>1, ArtifactsStay DEF StoredInv
    <2>3. \/ exec'[w].stored = exec[w].stored
          \/ exec'[w].stored = exec[w].stored + 1 /\ art'[j][exec'[w].stored] = exec[w].token
      BY <1>1, <1>4, <2>1 DEF SlotStep, Stays, GoesOn, InBusy, Busy
    <2>4. \A a \in Artifacts : a <= exec[w].stored + 1 => a <= exec[w].stored \/ a = exec[w].stored + 1
      BY <1>2 DEF Artifacts
    <2>5. \A a \in Artifacts : a <= exec'[w].stored => art'[j][a] > 0
      BY <2>1, <2>2, <2>3, <2>4
    <2>6. exec'[w].pc = "committing" => exec'[w].stored = NArtifacts
      BY <1>1, <1>4, <2>1 DEF SlotStep, Stays, GoesOn, StoredInv, InBusy, Busy
    <2> QED
      BY <1>1, <2>5, <2>6
  <1> QED
    BY <1>3, <1>4

LEMMA ReusableStays ==
  ASSUME BaseInv, BaseInv', [Next]_vars, NEW k \in Jobs, Reusable(k)
  PROVE  Reusable(k)'
  <1>1. RowEffect(k)
    BY RowEffects DEF BaseInv
  <1> QED
    BY <1>1 DEF RowEffect, OwnEffect, SameButTime, EndedStep, SweptStep, Left, Claimable, Waiting, Stale,
                Running, WaitingStatuses, ActiveStatuses, Reusable

LEMMA NextCopies == BaseInv /\ BaseInv' /\ CopiesInv /\ [Next]_vars => CopiesInv'
  <1> SUFFICES ASSUME BaseInv, BaseInv', CopiesInv, [Next]_vars, NEW j \in Jobs, cached'[j] # NoJob
               PROVE  LET k == cached'[j] IN job'[k].status = "SUCCEEDED" /\ cached'[k] = NoJob
    BY DEF CopiesInv, Reusable
  <1>1. RowEffect(j)
    BY RowEffects DEF BaseInv
  <1>2. cached'[j] \in Jobs /\ Reusable(cached'[j])
    BY <1>1 DEF RowEffect, CopiesInv, BaseInv, TypeInv, TypeOK
  <1> QED
    BY <1>2, ReusableStays DEF Reusable

LEMMA NextComplete == OwnInv /\ BaseInv' /\ ResultInv /\ [Next]_vars => ResultIsComplete'
  <1> SUFFICES ASSUME OwnInv, BaseInv', ResultInv, [Next]_vars, NEW j \in Jobs,
                      job'[j].status = "SUCCEEDED", NEW a \in Artifacts
               PROVE  art'[ResultOf(j)'][a] > 0
    BY DEF ResultIsComplete
  <1>1. RowEffect(j)
    BY RowEffects DEF OwnInv, BaseInv
  <1>2. ASSUME NEW k \in Jobs, Reusable(k) PROVE art[k][a] > 0
    BY <1>2 DEF ResultInv, ResultIsComplete, ResultOf, Reusable
  <1>3. a <= NArtifacts
    BY LifecycleAssumption DEF Artifacts
  <1>4. ASSUME EndedStep(j) PROVE art[j][a] > 0
    BY <1>3, <1>4 DEF EndedStep, ResultInv, StoredInv, InBusy, Busy
  <1>5. CASE cached'[j] = NoJob
    <2>1. EndedStep(j) \/ Reusable(j)
      BY <1>1, <1>5, LifecycleAssumption
         DEF RowEffect, OwnEffect, SameButTime, SweptStep, Waiting, WaitingStatuses, ActiveStatuses,
             Reusable
    <2>2. art'[j][a] > 0
      BY <1>2, <1>4, <2>1, ArtifactsStay
    <2> QED
      BY <1>5, <2>2 DEF ResultOf
  <1>6. CASE cached'[j] # NoJob
    <2> DEFINE k == cached'[j]
    <2>1. k \in Jobs /\ Reusable(k)
      BY <1>1, <1>6 DEF RowEffect, ResultInv, CopiesInv, BaseInv, TypeInv, TypeOK
    <2> HIDE DEF k
    <2>2. art'[k][a] > 0
      BY <1>2, <2>1, ArtifactsStay
    <2> QED
      BY <1>6, <2>2 DEF ResultOf, k
  <1> QED
    BY <1>5, <1>6

\* SUCCEEDED is visible only once every artifact it points at is stored, be it
\* the job's own or that of the job its result was copied from.
THEOREM ResultsAreComplete == Spec => []ResultIsComplete
  <1>1. ResultInv => ResultIsComplete
    BY DEF ResultInv
  <1>2. OwnInv => BaseInv
    BY DEF OwnInv
  <1>3. OwnInv /\ BaseInv' /\ ResultInv /\ [Next]_vars => ResultInv'
    BY NextStored, NextCopies, NextComplete DEF ResultInv, OwnInv
  <1> QED
    BY InitOwn, NextOwn, InitResult, <1>1, <1>2, <1>3, PTL DEF Spec

(***************************************************************************)
(* Superseded executions                                                   *)
(***************************************************************************)
\* Whatever a superseded execution still does, it changes no row and
\* dispatches nothing: the fence on status and worker_id stops all of it.
THEOREM SupersededAreInert == Spec => SupersededIsInert
  <1> DEFINE Inert(w) == exec[w].pc \in Busy /\ ~Owns(w) /\ exec'[w] # exec[w]
                           => UNCHANGED <<job, outbox>>
  <1>1. ASSUME BaseInv, [Next]_vars, NEW w \in Workers,
               exec[w].pc \in Busy, ~Owns(w), exec'[w] # exec[w]
        PROVE  UNCHANGED <<job, outbox>>
    <2>1. exec[w].job \in Jobs /\ job \in [Jobs -> Row] /\ exec \in [Workers -> Execution]
      BY <1>1 DEF BaseInv, TypeInv, TypeOK, SlotsOK, SlotOK, Busy
    <2>2. ASSUME NEW v \in Workers, v # w, exec'[v] # exec[v], \E e : exec' = [exec EXCEPT ![v] = e]
          PROVE  FALSE
      BY <1>1, <2>1, <2>2
    <2>3. ASSUME NEW v \in Workers, v # w, Worker(v) PROVE exec' = exec \/ \E e : exec' = [exec EXCEPT ![v] = e]
      BY <2>3 DEF Worker, Task, Receive, Claim, ClaimUnavailable, Beat, Page, Extracted, Store, FinalCheck,
           StopLost, StopCancelled, Raise, Succeed, Finish, FinishUnavailable, Ack, Crash, RestoreHeld
    <2>4. ASSUME NEW v \in Workers, Worker(v) PROVE v = w
      BY <1>1, <2>1, <2>3, <2>4
    <2>5. ASSUME Worker(w) PROVE UNCHANGED <<job, outbox>>
      <3>1. [job EXCEPT ![exec[w].job] = job[exec[w].job]] = job
        BY <2>1
      <3>2. CASE Extracted(w) \/ Page(w) \/ Succeed(w)
        BY <1>1, <3>1, <3>2 DEF Extracted, Page, Succeed, Report, SetRow
      <3>3. CASE Finish(w) \/ Beat(w)
        BY <1>1, <3>3 DEF Finish, Beat
      <3>4. CASE Store(w) \/ FinalCheck(w) \/ StopLost(w) \/ StopCancelled(w) \/ Raise(w)
                 \/ FinishUnavailable(w) \/ Ack(w) \/ Crash(w) \/ RestoreHeld(w) \/ ClaimUnavailable(w)
        BY <3>4 DEF Store, FinalCheck, StopLost, StopCancelled, Raise, FinishUnavailable, Ack, Crash,
                    RestoreHeld, ClaimUnavailable
      <3>5. ~Claim(w) /\ \A j \in Jobs : ~Receive(w, j)
        BY <1>1 DEF Claim, Receive, Busy
      <3> QED
        BY <2>5, <3>2, <3>3, <3>4, <3>5 DEF Worker, Task
    <2>6. CASE Flush
      BY <2>6 DEF Flush
    <2>7. CASE (\E j \in Jobs : Api(j) \/ Publisher(j) \/ Time(j) \/ RestoreOrphan(j))
               \/ Sweeper \/ UNCHANGED vars
      <3>1. exec' = exec
        BY <2>7 DEF Api, Upload, UploadCached, CancelJob, RetryJob, Publisher, Publish, PublishFails, PublishLost,
             Time, AgeHeartbeat, AgeDispatch, AgeBackoff, AgeQueue, RestoreOrphan,
             Sweeper, SweepStart, SweepLists, SweepUnacked, SweepBlind, SweepCommit, SweepCommitBlind,
             SweepAborts, vars
      <3> QED
        BY <1>1, <3>1
    <2> QED
      BY <1>1, <2>4, <2>5, <2>6, <2>7 DEF Next
  <1>2. BaseInv /\ [Next]_vars => [\A w \in Workers : Inert(w)]_vars
    BY <1>1
  <1> QED
    BY InitBase, NextBase, <1>2, PTL DEF Spec, SupersededIsInert
=============================================================================
