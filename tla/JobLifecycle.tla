---------------------------- MODULE JobLifecycle ----------------------------
(***************************************************************************)
(* The life of a job across the four parties that share it: the API, the    *)
(* workers (each with its heartbeat thread), the recovery sweeper and the   *)
(* broker.  Postgres is the only shared truth: an action that touches a row *)
(* is one transaction.  The broker carries nothing but job ids and may      *)
(* lose, keep, repeat or delay them; the object store keeps the artifacts   *)
(* of a job under keys made of the job's id.                                *)
(***************************************************************************)
EXTENDS JobRow, FiniteSets

CONSTANTS Jobs, NoJob,
          Workers,            \* slots that execute process_document
          NArtifacts,         \* objects one execution stores, in order
          SweepLimit,         \* LIMIT of the sweeper's third query
          Environment,        \* which of the events below this instance lets happen
          MaxMessages,        \* bound: messages of one job, and dispatches not yet published
          MaxManualRetries    \* bound: POST /retry per job

EnvironmentEvents == {"crash", "flush", "broker_down", "db_down", "restore", "expiry",
                      "sweep_abort", "contention", "cancel", "retry"}

ASSUME LifecycleAssumption ==
  /\ NoJob \notin Jobs
  /\ NArtifacts \in Nat \ {0}
  /\ SweepLimit \in Nat \ {0}
  /\ Environment \subseteq EnvironmentEvents
  /\ MaxMessages \in Nat \ {0}
  /\ MaxManualRetries \in Nat

VARIABLES
  job,      \* the committed rows
  claims,   \* how many times each job was claimed: the last worker_id drawn for it
  exec,     \* what each worker slot is doing
  art,      \* which execution wrote each stored artifact (0: no such object)
  outbox,   \* dispatches committed but not yet published, per job
  ready,    \* messages waiting in a queue, per job
  orphan,   \* unacked messages whose consumer is gone, per job
  sweep,    \* the sweeper's open transaction
  retries,  \* manual retries so far (counts towards MaxManualRetries)
  cached    \* cached_from_job_id: the job whose result keys were copied

vars == <<job, claims, exec, art, outbox, ready, orphan, sweep, retries, cached>>

Artifacts == 1 .. NArtifacts

Verdicts == {"none", "CANCELLED", "FAILED", "RETRY"}

\* pc: received -> extracting -> storing -> committing -> acking, or
\* finishing(verdict) -> acking after an exception.
Execution ==
  [pc      : {"idle", "received", "extracting", "storing", "committing", "finishing", "acking"},
   job     : Jobs \cup {NoJob},
   token   : Nat,                 \* worker_id of this execution (0 before the claim)
   held    : BOOLEAN,             \* its message is still in the broker, unacked
   lost    : BOOLEAN,             \* heartbeat.lost
   stop    : BOOLEAN,             \* heartbeat.cancel_requested
   stored  : 0 .. NArtifacts,
   verdict : Verdicts]

Idle == [pc |-> "idle", job |-> NoJob, token |-> 0, held |-> FALSE, lost |-> FALSE,
         stop |-> FALSE, stored |-> 0, verdict |-> "none"]

\* locked: the jobs it selected FOR UPDATE; rows: what it read of them, and
\* writes its verdicts from; seen: the jobs in its snapshot of the broker.
Sweep == [phase : {"idle", "lists", "unacked", "commit", "blind"},
          locked : SUBSET Jobs, rows : [Jobs -> Row], seen : SUBSET Jobs]

NoSweep == [phase |-> "idle", locked |-> {}, rows |-> [j \in Jobs |-> NoRow], seen |-> {}]

Init ==
  /\ job     = [j \in Jobs |-> NoRow]
  /\ claims  = [j \in Jobs |-> 0]
  /\ exec    = [w \in Workers |-> Idle]
  /\ art     = [j \in Jobs |-> [a \in Artifacts |-> 0]]
  /\ outbox  = [j \in Jobs |-> 0]
  /\ ready   = [j \in Jobs |-> 0]
  /\ orphan  = [j \in Jobs |-> 0]
  /\ sweep   = NoSweep
  /\ retries = [j \in Jobs |-> 0]
  /\ cached  = [j \in Jobs |-> NoJob]

(***************************************************************************)
(* Rows, locks and messages                                                *)
(***************************************************************************)
\* Mutant: the rows are selected without FOR UPDATE.
UnlockedAlways(j) == TRUE

\* A row the sweeper selected FOR UPDATE: everybody else's UPDATE waits.
Unlocked(j) == j \notin sweep.locked

SetRow(j, r) == job' = [job EXCEPT ![j] = r]

Enqueue(j) == outbox' = [outbox EXCEPT ![j] = @ + 1]

Holders(j) == {w \in Workers : exec[w].job = j /\ exec[w].held}

Reserved(j) == orphan[j] > 0 \/ Holders(j) # {}

InBroker(j) == ready[j] > 0 \/ Reserved(j)

Messages(j) == ready[j] + orphan[j] + Cardinality(Holders(j))

Busy == {"extracting", "storing", "committing", "finishing"}

Owns(w) == OwnedBy(job[exec[w].job], exec[w].token)

(***************************************************************************)
(* The API                                                                 *)
(***************************************************************************)
\* POST /v1/documents, after the file is stored: the row and its dispatch.
\* It happens to any file: a new one, new options, or force=true.
Upload(j) ==
  /\ job[j].status = "ABSENT"
  /\ SetRow(j, Created(job[j]))
  /\ Enqueue(j)
  /\ UNCHANGED <<claims, exec, art, ready, orphan, sweep, retries, cached>>

\* Mutant: a job that still runs is as good as one that succeeded.
ReusableRunning(k) == job[k].status \in {"PROCESSING", "SUCCEEDED"} /\ cached[k] = NoJob

\* k succeeded by its own work (a copy is never copied).
Reusable(k) == job[k].status = "SUCCEEDED" /\ cached[k] = NoJob

\* The same bytes and options as those of k: the row is committed as a
\* success that points at the artifacts of k, and nothing is dispatched.
UploadCached(j, k) ==
  /\ job[j].status = "ABSENT"
  /\ Reusable(k)
  /\ SetRow(j, Reused(job[j]))
  /\ cached' = [cached EXCEPT ![j] = k]
  /\ UNCHANGED <<claims, exec, art, outbox, ready, orphan, sweep, retries>>

\* POST /v1/jobs/{id}/cancel
CancelJob(j) ==
  /\ "cancel" \in Environment
  /\ Unlocked(j)
  /\ job[j].status \in ActiveStatuses
  /\ SetRow(j, CancelRequested(job[j]))
  /\ UNCHANGED <<claims, exec, art, outbox, ready, orphan, sweep, retries, cached>>

\* POST /v1/jobs/{id}/retry
RetryJob(j) ==
  /\ "retry" \in Environment
  /\ Unlocked(j)
  /\ job[j].status \in {"FAILED", "CANCELLED"}
  /\ retries[j] < MaxManualRetries
  /\ retries' = [retries EXCEPT ![j] = @ + 1]
  /\ SetRow(j, ManuallyRetried(job[j]))
  /\ Enqueue(j)
  /\ UNCHANGED <<claims, exec, art, ready, orphan, sweep, cached>>

(***************************************************************************)
(* Publishing, in the after_commit hook of whoever dispatched               *)
(***************************************************************************)
Publish(j) ==
  /\ outbox[j] > 0
  /\ Messages(j) < MaxMessages
  /\ outbox' = [outbox EXCEPT ![j] = @ - 1]
  /\ ready'  = [ready EXCEPT ![j] = @ + 1]
  /\ UNCHANGED <<job, claims, exec, art, orphan, sweep, retries, cached>>

\* The broker refuses: a second transaction clears last_dispatched_at.
PublishFails(j) ==
  /\ "broker_down" \in Environment
  /\ outbox[j] > 0
  /\ Unlocked(j)
  /\ outbox' = [outbox EXCEPT ![j] = @ - 1]
  /\ SetRow(j, DispatchFailed(job[j]))
  /\ UNCHANGED <<claims, exec, art, ready, orphan, sweep, retries, cached>>

\* The process dies after its commit, never hears that it was made, or that
\* second transaction fails too: nothing is published and nobody notices.
PublishLost(j) ==
  /\ Environment \cap {"crash", "db_down"} # {}
  /\ outbox[j] > 0
  /\ outbox' = [outbox EXCEPT ![j] = @ - 1]
  /\ UNCHANGED <<job, claims, exec, art, ready, orphan, sweep, retries, cached>>

(***************************************************************************)
(* A worker slot                                                           *)
(***************************************************************************)
Receive(w, j) ==
  /\ exec[w].pc = "idle"
  /\ ready[j] > 0
  /\ ready' = [ready EXCEPT ![j] = @ - 1]
  /\ exec'  = [exec EXCEPT ![w] = [Idle EXCEPT !.pc = "received", !.job = j, !.held = TRUE]]
  /\ UNCHANGED <<job, claims, art, outbox, orphan, sweep, retries, cached>>

\* Mutant: host and pid only, which a restarted process may get again.
RecycledId(j) == 1

\* _worker_id(): drawn per execution, so never one that was used before.
WorkerId(j) == claims[j] + 1

Claim(w) ==
  LET j == exec[w].job IN
  /\ exec[w].pc = "received"
  /\ Unlocked(j)
  /\ IF Claimable(job[j])
       THEN /\ claims' = [claims EXCEPT ![j] = @ + 1]
            /\ SetRow(j, Claimed(job[j], WorkerId(j)))
            /\ exec' = [exec EXCEPT ![w] = [@ EXCEPT !.pc = "extracting", !.token = WorkerId(j)]]
       ELSE /\ exec' = [exec EXCEPT ![w].pc = "acking"]
            /\ UNCHANGED <<job, claims>>
  /\ UNCHANGED <<art, outbox, ready, orphan, sweep, retries, cached>>

\* Postgres is away while claiming: the task publishes itself again (or, if
\* the broker refuses that too, fails) and its message is acknowledged.
ClaimUnavailable(w) ==
  LET j == exec[w].job IN
  /\ "db_down" \in Environment
  /\ exec[w].pc = "received"
  /\ \/ /\ exec[w].held \/ Messages(j) < MaxMessages
        /\ ready' = [ready EXCEPT ![j] = @ + 1]
     \/ "broker_down" \in Environment /\ ready' = ready
  /\ exec' = [exec EXCEPT ![w] = Idle]
  /\ UNCHANGED <<job, claims, art, outbox, orphan, sweep, retries, cached>>

\* One beat of the heartbeat thread.
Beat(w) ==
  LET j == exec[w].job IN
  /\ exec[w].pc \in Busy
  /\ Unlocked(j)
  /\ IF Owns(w)
       THEN /\ SetRow(j, Beaten(job[j]))
            /\ exec' = [exec EXCEPT ![w].stop = job[j].cancel]
       ELSE /\ exec' = [exec EXCEPT ![w].lost = TRUE]
            /\ UNCHANGED job
  /\ UNCHANGED <<claims, art, outbox, ready, orphan, sweep, retries, cached>>

\* progress.check() raises nothing: what the heartbeat thread last saw.
CheckPasses(w) == ~exec[w].lost /\ ~exec[w].stop

\* Mutant: the heartbeat of whoever runs the job now is refreshed.
ReportUnfenced(w) ==
  LET j == exec[w].job IN
  /\ Unlocked(j)
  /\ SetRow(j, Beaten(job[j]))

\* progress.set(): a fenced write that also refreshes the heartbeat.
Report(w) ==
  LET j == exec[w].job IN
  /\ Unlocked(j)
  /\ SetRow(j, IF Owns(w) THEN Beaten(job[j]) ELSE job[j])

AtCheckpoint(w) ==
  \/ exec[w].pc = "extracting"
  \/ exec[w].pc = "storing" /\ exec[w].stored = NArtifacts

\* Between two pages.
Page(w) ==
  /\ exec[w].pc = "extracting"
  /\ CheckPasses(w)
  /\ Report(w)
  /\ UNCHANGED <<claims, exec, art, outbox, ready, orphan, sweep, retries, cached>>

\* Mutant: the row is updated without waiting for the artifacts.
ExtractedCommits(w) ==
  /\ exec[w].pc = "extracting"
  /\ CheckPasses(w)
  /\ Report(w)
  /\ exec' = [exec EXCEPT ![w].pc = "committing"]
  /\ UNCHANGED <<claims, art, outbox, ready, orphan, sweep, retries, cached>>

Extracted(w) ==
  /\ exec[w].pc = "extracting"
  /\ CheckPasses(w)
  /\ Report(w)
  /\ exec' = [exec EXCEPT ![w].pc = "storing"]
  /\ UNCHANGED <<claims, art, outbox, ready, orphan, sweep, retries, cached>>

\* The next of the artifacts, under its fixed key: whatever was there is gone.
Store(w) ==
  LET j == exec[w].job
      a == exec[w].stored + 1 IN
  /\ exec[w].pc = "storing"
  /\ exec[w].stored < NArtifacts
  /\ art'  = [art EXCEPT ![j] = [@ EXCEPT ![a] = exec[w].token]]
  /\ exec' = [exec EXCEPT ![w].stored = a]
  /\ UNCHANGED <<job, claims, outbox, ready, orphan, sweep, retries, cached>>

FinalCheck(w) ==
  /\ exec[w].pc = "storing"
  /\ exec[w].stored = NArtifacts
  /\ CheckPasses(w)
  /\ exec' = [exec EXCEPT ![w].pc = "committing"]
  /\ UNCHANGED <<job, claims, art, outbox, ready, orphan, sweep, retries, cached>>

\* raise LostOwnership
StopLost(w) ==
  /\ AtCheckpoint(w)
  /\ exec[w].lost
  /\ exec' = [exec EXCEPT ![w].pc = "acking"]
  /\ UNCHANGED <<job, claims, art, outbox, ready, orphan, sweep, retries, cached>>

\* raise JobCancelled
StopCancelled(w) ==
  /\ AtCheckpoint(w)
  /\ ~exec[w].lost
  /\ exec[w].stop
  /\ exec' = [exec EXCEPT ![w] = [@ EXCEPT !.pc = "finishing", !.verdict = "CANCELLED"]]
  /\ UNCHANGED <<job, claims, art, outbox, ready, orphan, sweep, retries, cached>>

\* Any other exception: the document's fault or the soft time limit (FAILED),
\* or something that is taken for temporary (RETRY).
Raise(w) ==
  /\ exec[w].pc \in {"extracting", "storing", "committing"}
  /\ \E v \in {"FAILED", "RETRY"} :
       exec' = [exec EXCEPT ![w] = [@ EXCEPT !.pc = "finishing", !.verdict = v]]
  /\ UNCHANGED <<job, claims, art, outbox, ready, orphan, sweep, retries, cached>>

\* The fenced UPDATE to SUCCEEDED.  If the connection breaks while it
\* commits, the worker takes a success for a temporary error.
Succeed(w) ==
  LET j == exec[w].job IN
  /\ exec[w].pc = "committing"
  /\ Unlocked(j)
  /\ SetRow(j, IF Owns(w) THEN Succeeded(job[j]) ELSE job[j])
  /\ \/ exec' = [exec EXCEPT ![w].pc = "acking"]
     \/ /\ "db_down" \in Environment
        /\ Owns(w)
        /\ exec' = [exec EXCEPT ![w] = [@ EXCEPT !.pc = "finishing", !.verdict = "RETRY"]]
  /\ UNCHANGED <<claims, art, outbox, ready, orphan, sweep, retries, cached>>

Verdict(r, v) == CASE v = "CANCELLED" -> Cancelled(r)
                   [] v = "FAILED"    -> MarkFailed(r, "EXTRACTION_ERROR")
                   [] v = "RETRY"     -> TransientFailure(r)

\* _finish and _transient_failure: lock the row, look again, then write.
Finish(w) ==
  LET j == exec[w].job
      r == Verdict(job[j], exec[w].verdict) IN
  /\ exec[w].pc = "finishing"
  /\ Unlocked(j)
  /\ IF Owns(w)
       THEN /\ SetRow(j, r)
            /\ IF r.status = "RETRYING" THEN Enqueue(j) ELSE UNCHANGED outbox
       ELSE UNCHANGED <<job, outbox>>
  /\ exec' = [exec EXCEPT ![w].pc = "acking"]
  /\ UNCHANGED <<claims, art, ready, orphan, sweep, retries, cached>>

\* Not even that: the row stays PROCESSING and nobody beats for it.
FinishUnavailable(w) ==
  /\ "db_down" \in Environment
  /\ exec[w].pc = "finishing"
  /\ exec' = [exec EXCEPT ![w].pc = "acking"]
  /\ UNCHANGED <<job, claims, art, outbox, ready, orphan, sweep, retries, cached>>

Ack(w) ==
  /\ exec[w].pc = "acking"
  /\ exec' = [exec EXCEPT ![w] = Idle]
  /\ UNCHANGED <<job, claims, art, outbox, ready, orphan, sweep, retries, cached>>

\* Killed: with its host (the message stays unacked), alone (the parent gives
\* the message back) or by the hard time limit (the parent acknowledges it).
Crash(w) ==
  LET j == exec[w].job IN
  /\ "crash" \in Environment
  /\ exec[w].pc # "idle"
  /\ exec' = [exec EXCEPT ![w] = Idle]
  /\ IF exec[w].held
       THEN \/ orphan' = [orphan EXCEPT ![j] = @ + 1] /\ UNCHANGED ready
            \/ ready'  = [ready EXCEPT ![j] = @ + 1]  /\ UNCHANGED orphan
            \/ exec[w].pc \in Busy /\ UNCHANGED <<ready, orphan>>
       ELSE UNCHANGED <<ready, orphan>>
  /\ UNCHANGED <<job, claims, art, outbox, sweep, retries, cached>>

(***************************************************************************)
(* The broker on its own                                                   *)
(***************************************************************************)
\* The visibility timeout puts an unacked message back in its queue, whether
\* its consumer is gone ...
RestoreOrphan(j) ==
  /\ orphan[j] > 0
  /\ orphan' = [orphan EXCEPT ![j] = @ - 1]
  /\ ready'  = [ready EXCEPT ![j] = @ + 1]
  /\ UNCHANGED <<job, claims, exec, art, outbox, sweep, retries, cached>>

\* ... or only slow.
RestoreHeld(w) ==
  /\ "restore" \in Environment
  /\ exec[w].held
  /\ exec'  = [exec EXCEPT ![w].held = FALSE]
  /\ ready' = [ready EXCEPT ![exec[w].job] = @ + 1]
  /\ UNCHANGED <<job, claims, art, outbox, orphan, sweep, retries, cached>>

\* Redis restarts empty.
Flush ==
  /\ "flush" \in Environment
  /\ ready'  = [j \in Jobs |-> 0]
  /\ orphan' = [j \in Jobs |-> 0]
  /\ exec'   = [w \in Workers |-> [exec[w] EXCEPT !.held = FALSE]]
  /\ UNCHANGED <<job, claims, art, outbox, sweep, retries, cached>>

(***************************************************************************)
(* Time, observed where the code reads it.  The sweeper compares with the   *)
(* instant its transaction began, so the rows it locked do not age.         *)
(***************************************************************************)
AgeHeartbeat(j) ==
  /\ Unlocked(j) /\ Running(job[j]) /\ job[j].alive
  /\ SetRow(j, [job[j] EXCEPT !.alive = FALSE])
  /\ UNCHANGED <<claims, exec, art, outbox, ready, orphan, sweep, retries, cached>>

AgeDispatch(j) ==
  /\ Unlocked(j) /\ Waiting(job[j]) /\ job[j].recent
  /\ outbox[j] < MaxMessages
  /\ SetRow(j, [job[j] EXCEPT !.recent = FALSE])
  /\ UNCHANGED <<claims, exec, art, outbox, ready, orphan, sweep, retries, cached>>

AgeBackoff(j) ==
  /\ Unlocked(j) /\ Waiting(job[j]) /\ job[j].backoff
  /\ SetRow(j, [job[j] EXCEPT !.backoff = FALSE])
  /\ UNCHANGED <<claims, exec, art, outbox, ready, orphan, sweep, retries, cached>>

AgeQueue(j) ==
  /\ "expiry" \in Environment
  /\ Unlocked(j) /\ job[j].status \in ActiveStatuses /\ ~job[j].overdue
  /\ SetRow(j, [job[j] EXCEPT !.overdue = TRUE])
  /\ UNCHANGED <<claims, exec, art, outbox, ready, orphan, sweep, retries, cached>>

(***************************************************************************)
(* The recovery sweeper: one transaction under an advisory lock.  skip is   *)
(* the set of rows that some other transaction holds when it selects        *)
(* (FOR UPDATE SKIP LOCKED).                                               *)
(***************************************************************************)
MaySkip(skip) == skip = {} \/ "contention" \in Environment

SweepStart(skip) ==
  /\ MaySkip(skip)
  /\ sweep.phase = "idle"
  /\ LET found == {j \in Jobs \ skip : Stale(job[j]) \/ Expired(job[j])} IN
       sweep' = [phase  |-> "lists",
                 locked |-> found,
                 rows   |-> [j \in Jobs |-> IF j \in found THEN job[j] ELSE NoRow],
                 seen   |-> {}]
  /\ UNCHANGED <<job, claims, exec, art, outbox, ready, orphan, retries, cached>>

\* The snapshot of the broker reads the queues first ...
SweepLists ==
  /\ sweep.phase = "lists"
  /\ sweep' = [sweep EXCEPT !.phase = "unacked", !.seen = {j \in Jobs : ready[j] > 0}]
  /\ UNCHANGED <<job, claims, exec, art, outbox, ready, orphan, retries, cached>>

\* ... and the unacked hash next.
SweepUnacked ==
  /\ sweep.phase = "unacked"
  /\ sweep' = [sweep EXCEPT !.phase = "commit", !.seen = @ \cup {j \in Jobs : Reserved(j)}]
  /\ UNCHANGED <<job, claims, exec, art, outbox, ready, orphan, retries, cached>>

\* A RedisError: without a snapshot the third query is left out.
SweepBlind ==
  /\ "broker_down" \in Environment
  /\ sweep.phase \in {"lists", "unacked"}
  /\ sweep' = [sweep EXCEPT !.phase = "blind"]
  /\ UNCHANGED <<job, claims, exec, art, outbox, ready, orphan, retries, cached>>

\* The third query may return any SweepLimit of its rows: it has no ORDER BY.
Candidates(skip) == {j \in Jobs \ (sweep.locked \cup skip) : NeedsMessage(job[j])}

Selections(S) == {T \in SUBSET S : \/ T = S /\ Cardinality(S) <= SweepLimit
                                   \/ Cardinality(T) = SweepLimit}

Swept(j, missing) == IF j \in sweep.locked THEN AfterExpiry(AfterStale(sweep.rows[j]))
                     ELSE IF j \in missing  THEN Redispatched(job[j])
                     ELSE job[j]

\* dispatch() was called for j in this transaction.
SweptDispatch(j, missing) == \/ /\ j \in sweep.locked /\ Stale(sweep.rows[j])
                                /\ Waiting(AfterStale(sweep.rows[j]))
                             \/ j \in missing

SweepCommit(skip) ==
  /\ MaySkip(skip)
  /\ sweep.phase = "commit"
  /\ \E T \in Selections(Candidates(skip)) :
       LET missing == T \ sweep.seen IN
       /\ job'    = [j \in Jobs |-> Swept(j, missing)]
       /\ outbox' = [j \in Jobs |-> IF SweptDispatch(j, missing) THEN outbox[j] + 1 ELSE outbox[j]]
  /\ sweep' = NoSweep
  /\ UNCHANGED <<claims, exec, art, ready, orphan, retries, cached>>

SweepCommitBlind ==
  /\ sweep.phase = "blind"
  /\ job'    = [j \in Jobs |-> Swept(j, {})]
  /\ outbox' = [j \in Jobs |-> IF SweptDispatch(j, {}) THEN outbox[j] + 1 ELSE outbox[j]]
  /\ sweep'  = NoSweep
  /\ UNCHANGED <<claims, exec, art, ready, orphan, retries, cached>>

\* The sweeping process dies or loses Postgres: all of it rolls back.
SweepAborts ==
  /\ "sweep_abort" \in Environment
  /\ sweep.phase # "idle"
  /\ sweep' = NoSweep
  /\ UNCHANGED <<job, claims, exec, art, outbox, ready, orphan, retries, cached>>

(***************************************************************************)
(* The system                                                              *)
(***************************************************************************)
Api(j) == Upload(j) \/ (\E k \in Jobs : UploadCached(j, k)) \/ CancelJob(j) \/ RetryJob(j)

Publisher(j) == Publish(j) \/ PublishFails(j) \/ PublishLost(j)

Task(w) ==
  \/ Claim(w) \/ ClaimUnavailable(w) \/ Page(w) \/ Extracted(w) \/ Store(w) \/ FinalCheck(w)
  \/ StopLost(w) \/ StopCancelled(w) \/ Raise(w) \/ Succeed(w) \/ Finish(w)
  \/ FinishUnavailable(w) \/ Ack(w)

\* The steps a live task goes on to take by itself.
Progress(w) == Extracted(w) \/ Store(w) \/ FinalCheck(w) \/ StopLost(w) \/ StopCancelled(w)
                 \/ Succeed(w) \/ Finish(w) \/ Ack(w)

Worker(w) == (\E j \in Jobs : Receive(w, j)) \/ Task(w) \/ Beat(w) \/ Crash(w) \/ RestoreHeld(w)

Time(j) == AgeHeartbeat(j) \/ AgeDispatch(j) \/ AgeBackoff(j) \/ AgeQueue(j)

Sweeper ==
  \/ \E skip \in SUBSET Jobs : SweepStart(skip) \/ SweepCommit(skip)
  \/ SweepLists \/ SweepUnacked \/ SweepBlind \/ SweepCommitBlind \/ SweepAborts

Next ==
  \/ \E j \in Jobs : Api(j) \/ Publisher(j) \/ Time(j) \/ RestoreOrphan(j)
  \/ \E w \in Workers : Worker(w)
  \/ Sweeper
  \/ Flush

Spec == Init /\ [][Next]_vars
(***************************************************************************)
(* Fairness.  Workers and publishing processes run, clocks advance, and the *)
(* beat schedule keeps starting sweeps.  Strong fairness stands for "not    *)
(* every single time": Postgres is not away at every claim, and a worker    *)
(* waiting for a row lock gets it.  Nothing here says that the broker is    *)
(* ever up, that a worker is spared, or that a client acts.                 *)
(***************************************************************************)
Fairness ==
  /\ \A j \in Jobs : /\ WF_vars(Publisher(j)) /\ WF_vars(RestoreOrphan(j))
                     /\ WF_vars(AgeHeartbeat(j)) /\ WF_vars(AgeDispatch(j))
                     /\ WF_vars(AgeBackoff(j)) /\ WF_vars(AgeQueue(j))
  /\ \A w \in Workers : /\ WF_vars(\E j \in Jobs : Receive(w, j))
                        /\ SF_vars(Claim(w))
                        /\ SF_vars(Progress(w))
  /\ WF_vars(Sweeper)

LiveSpec == Spec /\ Fairness

\* The broker is up again and again: some dispatch gets through, some
\* snapshot of it is complete.
BrokerRecovers == /\ \A j \in Jobs : SF_vars(Publish(j))
                  /\ SF_vars(SweepLists) /\ SF_vars(SweepUnacked)

BrokerLiveSpec == LiveSpec /\ BrokerRecovers

(***************************************************************************)
(* Types                                                                   *)
(***************************************************************************)
TypeOK ==
  /\ job     \in [Jobs -> Row]
  /\ claims  \in [Jobs -> Nat]
  /\ exec    \in [Workers -> Execution]
  /\ art     \in [Jobs -> [Artifacts -> Nat]]
  /\ outbox  \in [Jobs -> Nat]
  /\ ready   \in [Jobs -> Nat]
  /\ orphan  \in [Jobs -> Nat]
  /\ sweep   \in Sweep
  /\ retries \in [Jobs -> Nat]
  /\ cached  \in [Jobs -> Jobs \cup {NoJob}]
(***************************************************************************)
(* Safety                                                                  *)
(***************************************************************************)
\* Two executions never both take a job for theirs, however often its message
\* is repeated, restored or lost, and however late a given-up execution wakes
\* (claim, worker_id, the sweeper).
OneOwner ==
  \A v, w \in Workers :
    /\ exec[v].pc \in Busy /\ exec[w].pc \in Busy /\ exec[v].job = exec[w].job
    /\ Owns(v) /\ Owns(w)
    => v = w

\* The job whose artifacts the result keys of j name.
ResultOf(j) == IF cached[j] = NoJob THEN j ELSE cached[j]

\* SUCCEEDED is visible only once every artifact it points at is stored,
\* also when the execution that stored them lost the job meanwhile, or when
\* they are those of an earlier job with the same file and options.
ResultIsComplete ==
  \A j \in Jobs : job[j].status = "SUCCEEDED" => \A a \in Artifacts : art[ResultOf(j)][a] > 0

\* CANCELLED is always somebody's wish: no flag read by the heartbeat of an
\* earlier attempt can cancel a job that was retried since.
CancelledOnlyOnRequest ==
  \A j \in Jobs : job[j].status = "CANCELLED" => job[j].cancel

\* A document that kills its workers does so at most max_attempts times per
\* submission, whoever counts the attempt: worker, sweeper or duplicate.
AttemptsAreBounded ==
  \A j \in Jobs : claims[j] <= MaxAttempts * (retries[j] + 1)

\* The sweeper and the workers never leave a job waiting with no attempt
\* left, where no claim could ever take it.
WaitingHasAttemptLeft ==
  \A j \in Jobs : Waiting(job[j]) => job[j].attempts < MaxAttempts

\* Comment in recover_jobs: a cancelled job is not put back where "no worker
\* would ever claim" it.  A worker's transient failure does exactly that.
WaitingIsClaimable ==
  \A j \in Jobs : Waiting(job[j]) => Claimable(job[j])

\* Docstring of LostOwnership: an execution that lost its job stops "without
\* writing results"; so the artifacts of a success are those of its attempt.
ResultIsOfItsAttempt ==
  \A j \in Jobs : job[j].status = "SUCCEEDED" =>
    \A a \in Artifacts : art[ResultOf(j)][a] = job[ResultOf(j)].owner

(***************************************************************************)
(* What a step may never do                                                *)
(***************************************************************************)
\* A success is for good, and any other outcome is only ever left through
\* POST /retry, which hands out a full set of attempts and drops the request
\* to cancel.
OutcomeIsFinal ==
  [][\A j \in Jobs : Terminal(job[j]) =>
       \/ /\ job'[j].status = job[j].status   /\ job'[j].error = job[j].error
          /\ job'[j].attempts = job[j].attempts /\ job'[j].owner = job[j].owner
       \/ job[j].status # "SUCCEEDED" /\ job'[j] = ManuallyRetried(job[j])]_vars

\* Whatever a superseded execution still does (beat, report, succeed, fail,
\* retry, cancel), it changes no row and dispatches nothing.
SupersededIsInert ==
  [][\A w \in Workers : exec[w].pc \in Busy /\ ~Owns(w) /\ exec'[w] # exec[w] =>
       UNCHANGED <<job, outbox>>]_vars

\* An accepted cancellation is not lost in between: whatever the sweeper read
\* before it came, the request stays on the row until POST /retry drops it, and
\* a running job leaves PROCESSING as CANCELLED, or by the outcome its owner
\* had already come to; never put back, failed or forgotten by a sweep.
CancelIsHeeded ==
  [][\A j \in Jobs : job[j].cancel =>
       \/ /\ job'[j].cancel
          /\ Running(job[j]) => \/ job'[j].status \in {"PROCESSING", "CANCELLED"}
                               \/ \E w \in Workers : exec[w].job = j /\ Owns(w) /\ exec'[w] # exec[w]
       \/ Terminal(job[j]) /\ job'[j] = ManuallyRetried(job[j])]_vars

\* While its heartbeat is fresh, a running job leaves PROCESSING only by the
\* hand of the execution that owns it: the sweeper's verdict is still true
\* when it commits.
LeaseIsRespected ==
  [][\A j \in Jobs : Running(job[j]) /\ job[j].alive /\ ~Running(job'[j]) =>
       \E w \in Workers : exec[w].job = j /\ Owns(w) /\ exec'[w] # exec[w]]_vars

(***************************************************************************)
(* The contract this implements                                            *)
(***************************************************************************)
PhaseOf(status) == CASE status = "ABSENT"         -> "absent"
                     [] status \in WaitingStatuses -> "waiting"
                     [] status = "PROCESSING"      -> "running"
                     [] status = "SUCCEEDED"       -> "succeeded"
                     [] status = "FAILED"          -> "failed"
                     [] status = "CANCELLED"       -> "cancelled"

Promise(r) == [phase |-> PhaseOf(r.status), starts |-> r.attempts]

promises == [j \in Jobs |-> Promise(job[j])]

Contract == INSTANCE JobContract WITH promise <- promises

\* Seen through GET /v1/jobs/{id}, the four parties keep the contract.
ImplementsContract == Contract!Spec

(***************************************************************************)
(* Progress                                                                *)
(***************************************************************************)
\* recover_jobs: "every job eventually reaches a terminal state", whatever
\* the broker loses and however often workers die.
EventuallyTerminal ==
  \A j \in Jobs : job[j].status \in ActiveStatuses ~> Terminal(job[j])

\* A waiting job whose message is nowhere does not stay that way: it is
\* dispatched again, or settled.
LostMessageIsReplaced ==
  \A j \in Jobs : Waiting(job[j]) /\ ~InBroker(j) ~> InBroker(j) \/ ~Waiting(job[j])
=============================================================================
