------------------------------ MODULE Webhook ------------------------------
(***************************************************************************)
(* The callback of one job that was uploaded with a callback_url.  Whoever  *)
(* settles the job schedules docintel.send_webhook inside its transaction   *)
(* (notify_terminal), one second ahead; the task reads the committed row    *)
(* when it runs, and posts what it read.  The message is not part of the    *)
(* transaction: it survives a rollback and may be consumed before the       *)
(* commit.  The job itself moves as JobContract lets it, which is what      *)
(* JobLifecycle implements; it was queued (an upload answered from the cache *)
(* is settled by the API itself, which never calls notify_terminal).        *)
(***************************************************************************)
EXTENDS Naturals, Sequences

CONSTANTS MaxAttempts,    \* settings.max_attempts
          MaxRetries,     \* max_retries of the task
          MaxOutcomes,    \* bound: outcomes committed
          MaxSettlings,   \* bound: transactions that settle the job, rolled back or not
          Environment     \* which of the events below this instance lets happen

\* bad_post: an exception of the POST that is no httpx.HTTPError, such as
\* httpx.InvalidURL or the time limit of the task.
EnvironmentEvents == {"broker_down", "db_down", "flush", "rollback", "receiver_down", "bad_post",
                      "crash", "slow_commit"}

ASSUME WebhookAssumption ==
  /\ MaxAttempts \in Nat \ {0}
  /\ MaxRetries \in Nat
  /\ MaxOutcomes \in Nat \ {0}
  /\ MaxSettlings \in Nat \ {0}
  /\ Environment \subseteq EnvironmentEvents

VARIABLES
  row,       \* the committed row of the job: its phase, and the attempts it has had
  tx,        \* the last transaction that settled the job: its number, what it wants to write
  outcomes,  \* the outcomes committed, in order: the phase, and which transaction it was
  notes,     \* the message of each settling transaction
  news,      \* what the receiver accepted
  excused    \* the transactions whose notification was lost in a way the code admits

vars == <<row, tx, outcomes, notes, news, excused>>

Job == INSTANCE JobContract WITH Jobs <- {"job"}, promise <- [j \in {"job"} |-> row]

Settlings == 1 .. MaxSettlings

\* What a POST says: the phase of the job, and how many outcomes it had by
\* then (the receiver can tell them apart by the timestamps of the payload).
Payload == [phase : Job!Phases, nth : 0 .. MaxOutcomes]

Unsent == [state |-> "unsent", tries |-> 0, saw |-> [phase |-> "waiting", nth |-> 0]]

Queued(n) == [Unsent EXCEPT !.state = "queued", !.tries = n]

Done == [Unsent EXCEPT !.state = "done"]

Init == /\ row      = Job!Fresh
        /\ tx       = [open |-> FALSE, nth |-> 0, to |-> Job!Fresh]
        /\ outcomes = <<>>
        /\ notes    = [k \in Settlings |-> Unsent]
        /\ news     = {}
        /\ excused  = {}

(***************************************************************************)
(* The job.  An open transaction holds the lock of the row.                 *)
(***************************************************************************)
Moves == /\ ~tx.open
         /\ row' \in Job!Promises
         /\ UNCHANGED <<tx, outcomes, notes, news, excused>>

Start == Moves /\ Job!Start(row, row')

GiveBack == Moves /\ Job!GiveBack(row, row')

Reopen == Moves /\ Len(outcomes) < MaxOutcomes /\ Job!Reopen(row, row')

\* What process_document, _finish, _transient_failure, recover_jobs and
\* cancel_job write before they call notify_terminal.
Settled == {r \in Job!Promises : Job!Conclude(row, r) \/ Job!Withdraw(row, r)}

\* notify_terminal: the message leaves now, or never.
Settle ==
  /\ ~tx.open
  /\ tx.nth < MaxSettlings
  /\ Len(outcomes) < MaxOutcomes
  /\ \E r \in Settled : tx' = [open |-> TRUE, nth |-> tx.nth + 1, to |-> r]
  /\ \/ /\ notes' = [notes EXCEPT ![tx.nth + 1] = Queued(0)]
        /\ UNCHANGED excused
     \/ /\ "broker_down" \in Environment
        /\ excused' = excused \cup {tx.nth + 1}
        /\ UNCHANGED notes
  /\ UNCHANGED <<row, outcomes, news>>

Commit ==
  /\ tx.open
  /\ row' = tx.to
  /\ outcomes' = Append(outcomes, [phase |-> tx.to.phase, by |-> tx.nth])
  /\ tx' = [tx EXCEPT !.open = FALSE, !.to = Job!Fresh]
  /\ UNCHANGED <<notes, news, excused>>

Rollback ==
  /\ "rollback" \in Environment
  /\ tx.open
  /\ tx' = [tx EXCEPT !.open = FALSE, !.to = Job!Fresh]
  /\ UNCHANGED <<row, outcomes, notes, news, excused>>

(***************************************************************************)
(* send_webhook                                                            *)
(***************************************************************************)
\* Its transaction has not ended.
Early(k) == tx.open /\ tx.nth = k

\* Mutant: the payload is the job of the settling session.
SeenInSession == [phase |-> IF tx.open THEN tx.to.phase ELSE row.phase,
                  nth   |-> IF tx.open THEN Len(outcomes) + 1 ELSE Len(outcomes)]

\* job_to_out of the committed row.
Seen == [phase |-> row.phase, nth |-> Len(outcomes)]

Read(k) ==
  /\ notes[k].state = "queued"
  /\ Early(k) => "slow_commit" \in Environment
  /\ notes' = [notes EXCEPT ![k].state = "posting", ![k].saw = Seen]
  /\ excused' = IF Early(k) THEN excused \cup {k} ELSE excused
  /\ UNCHANGED <<row, tx, outcomes, news>>

\* Postgres is away: not an error that is retried, so the message is acknowledged.
ReadFails(k) ==
  /\ "db_down" \in Environment
  /\ notes[k].state = "queued"
  /\ notes' = [notes EXCEPT ![k] = Done]
  /\ excused' = excused \cup {k}
  /\ UNCHANGED <<row, tx, outcomes, news>>

\* Whether or not the event can be recorded afterwards, the message is gone.
Accepted(k) ==
  /\ notes[k].state = "posting"
  /\ notes' = [notes EXCEPT ![k] = Done]
  /\ news'  = news \cup {notes[k].saw}
  /\ UNCHANGED <<row, tx, outcomes, excused>>

\* Mutant: retried without end.
RefusedForever(k) ==
  /\ "receiver_down" \in Environment
  /\ notes[k].state = "posting"
  /\ notes' = [notes EXCEPT ![k] = Queued(notes[k].tries + 1)]
  /\ news' \in {news, news \cup {notes[k].saw}}
  /\ UNCHANGED <<row, tx, outcomes, excused>>

\* httpx.HTTPError: an error status, or no answer (the receiver may have
\* accepted the POST all the same).  Retried with backoff, then given up; so
\* is a retry that cannot be published.
Refused(k) ==
  /\ "receiver_down" \in Environment
  /\ notes[k].state = "posting"
  /\ \/ /\ notes[k].tries < MaxRetries
        /\ notes' = [notes EXCEPT ![k] = Queued(notes[k].tries + 1)]
        /\ UNCHANGED excused
     \/ /\ notes[k].tries = MaxRetries \/ "broker_down" \in Environment
        /\ notes' = [notes EXCEPT ![k] = Done]
        /\ excused' = excused \cup {k}
  /\ news' \in {news, news \cup {notes[k].saw}}
  /\ UNCHANGED <<row, tx, outcomes>>

\* Any other exception is not retried at all.
PostBreaks(k) ==
  /\ "bad_post" \in Environment
  /\ notes[k].state = "posting"
  /\ notes' = [notes EXCEPT ![k] = Done]
  /\ excused' = excused \cup {k}
  /\ news' \in {news, news \cup {notes[k].saw}}
  /\ UNCHANGED <<row, tx, outcomes>>

\* Mutant: acknowledged on receipt, and so gone with its worker.
CrashAckedEarly(k) ==
  /\ "crash" \in Environment
  /\ notes[k].state = "posting"
  /\ notes' = [notes EXCEPT ![k] = Done]
  /\ news' \in {news, news \cup {notes[k].saw}}
  /\ UNCHANGED <<row, tx, outcomes, excused>>

\* The worker is killed before it acknowledges: the message is delivered again.
Crash(k) ==
  /\ "crash" \in Environment
  /\ notes[k].state = "posting"
  /\ notes' = [notes EXCEPT ![k] = Queued(notes[k].tries)]
  /\ news' \in {news, news \cup {notes[k].saw}}
  /\ UNCHANGED <<row, tx, outcomes, excused>>

\* Redis restarts empty.  No sweeper looks for webhooks.
Flush ==
  /\ "flush" \in Environment
  /\ LET gone == {k \in Settlings : notes[k].state = "queued"} IN
       /\ gone # {}
       /\ notes' = [k \in Settlings |-> IF k \in gone THEN Done ELSE notes[k]]
       /\ excused' = excused \cup gone
  /\ UNCHANGED <<row, tx, outcomes, news>>

Posted(k) == Accepted(k) \/ Refused(k) \/ PostBreaks(k)

Next ==
  \/ Start \/ GiveBack \/ Reopen
  \/ Settle \/ Commit \/ Rollback
  \/ \E k \in Settlings : Read(k) \/ ReadFails(k) \/ Posted(k) \/ Crash(k)
  \/ Flush

Spec == Init /\ [][Next]_vars

\* Workers take messages, and not every single one of them is killed at it.
Fairness == \A k \in Settlings : WF_vars(Read(k)) /\ SF_vars(Posted(k))

LiveSpec == Spec /\ Fairness

(***************************************************************************)
(* Properties                                                              *)
(***************************************************************************)
TypeOK ==
  /\ row \in Job!Promises
  /\ tx \in [open : BOOLEAN, nth : 0 .. MaxSettlings, to : Job!Promises]
  /\ outcomes \in Seq([phase : Job!Outcomes, by : Settlings])
  /\ Len(outcomes) <= MaxOutcomes
  /\ notes \in [Settlings -> [state : {"unsent", "queued", "posting", "done"},
                              tries : 0 .. MaxRetries, saw : Payload]]
  /\ news \subseteq Payload
  /\ excused \subseteq Settlings

\* An outcome the receiver hears of is one the job really had: nothing a
\* transaction wrote and rolled back is ever announced, although its message
\* went out (notify_terminal before the commit, send_webhook reads the row).
NewsIsTrue ==
  \A e \in news : e.phase \in Job!Outcomes =>
    e.nth \in 1 .. Len(outcomes) /\ outcomes[e.nth].phase = e.phase

Announced(n) == /\ n <= Len(outcomes)
                /\ \E e \in news : e.nth = n /\ e.phase = outcomes[n].phase

LostOnTheWay(n) == n <= Len(outcomes) /\ outcomes[n].by \in excused

Superseded(n) == Len(outcomes) > n \/ row.phase \notin Job!Outcomes

\* An outcome is announced unless the job is reopened before, the broker
\* refused or lost the message or its retry, the receiver refused it to the
\* last retry, Postgres was away when the message was taken, the POST failed
\* with an error that is not retried, or the message was read before the
\* commit.  A killed worker is no excuse, nor is a transaction that rolled back.
SettledIsAnnounced ==
  \A n \in 1 .. MaxOutcomes :
    Len(outcomes) >= n ~> Announced(n) \/ Superseded(n) \/ LostOnTheWay(n)

\* The upload form and the README promise a "webhook POSTed when the job
\* finishes"; with broker, workers and receiver all up, one read before the
\* commit posts an unfinished job and the outcome is never announced.
FinishedIsAnnounced ==
  \A n \in 1 .. MaxOutcomes : Len(outcomes) >= n ~> Announced(n) \/ Superseded(n)
=============================================================================
