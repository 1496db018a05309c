--------------------------- MODULE Webhook_proofs ---------------------------
(***************************************************************************)
(* Proofs about the callback of a job: for any number of attempts, retries,  *)
(* outcomes and transactions, whatever fails.                               *)
(***************************************************************************)
EXTENDS Webhook, TLAPS

\* While a transaction that settles the job is open, an outcome may still be
\* added; it has a number, and it writes an outcome.
SettlingIsSound ==
  tx.open => /\ Len(outcomes) < MaxOutcomes
             /\ tx.nth \in Settlings
             /\ tx.to.phase \in Job!Outcomes

\* A job that is settled is so by the last outcome committed.
RowIsLastOutcome ==
  row.phase \in Job!Outcomes =>
    Len(outcomes) >= 1 /\ outcomes[Len(outcomes)].phase = row.phase

IsTrue(e) ==
  e.phase \in Job!Outcomes => e.nth \in 1 .. Len(outcomes) /\ outcomes[e.nth].phase = e.phase

\* What a worker read from the row and is about to post is true, and stays so.
SawIsTrue == \A k \in Settlings : notes[k].state = "posting" => IsTrue(notes[k].saw)

IInv == TypeOK /\ SettlingIsSound /\ RowIsLastOutcome /\ SawIsTrue /\ NewsIsTrue

LEMMA PhaseFacts ==
  /\ Job!Outcomes = {"succeeded", "failed", "cancelled"}
  /\ Job!Phases = {"absent", "waiting", "running", "succeeded", "failed", "cancelled"}
  /\ Job!Promises = [phase : Job!Phases, starts : 0 .. MaxAttempts]
  /\ Job!Fresh = [phase |-> "waiting", starts |-> 0]
BY DEF Job!Outcomes, Job!Phases, Job!Promises, Job!Fresh

LEMMA FreshIsPromise == Job!Fresh \in Job!Promises /\ Job!Fresh.phase = "waiting"
BY PhaseFacts, WebhookAssumption

LEMMA UnsentTyped ==
  /\ Unsent \in [state : {"unsent", "queued", "posting", "done"}, tries : 0 .. MaxRetries, saw : Payload]
  /\ Unsent.state = "unsent"
BY PhaseFacts, WebhookAssumption DEF Unsent, Payload

Note == [state : {"unsent", "queued", "posting", "done"}, tries : 0 .. MaxRetries, saw : Payload]

LEMMA QueuedTyped ==
  ASSUME NEW n \in 0 .. MaxRetries
  PROVE  Queued(n) \in Note /\ Queued(n).state = "queued"
BY UnsentTyped DEF Queued, Note

LEMMA DoneTyped == Done \in Note /\ Done.state = "done"
BY UnsentTyped DEF Done, Note

LEMMA InitIInv == Init => IInv
<1> SUFFICES ASSUME Init PROVE IInv
  OBVIOUS
<1>1. row = Job!Fresh /\ tx = [open |-> FALSE, nth |-> 0, to |-> Job!Fresh] /\ outcomes = <<>>
      /\ notes = [k \in Settlings |-> Unsent] /\ news = {} /\ excused = {}
  BY DEF Init
<1>2. tx \in [open : BOOLEAN, nth : 0 .. MaxSettlings, to : Job!Promises]
  BY <1>1, FreshIsPromise, WebhookAssumption
<1>3. notes \in [Settlings -> Note]
  BY <1>1, UnsentTyped DEF Note
<1>4. outcomes \in Seq([phase : Job!Outcomes, by : Settlings]) /\ Len(outcomes) <= MaxOutcomes
  BY <1>1, WebhookAssumption
<1>5. TypeOK
  BY <1>1, <1>2, <1>3, <1>4, FreshIsPromise DEF TypeOK, Note
<1>6. row.phase \notin Job!Outcomes
  BY <1>1, FreshIsPromise, PhaseFacts
<1>7. SawIsTrue
  BY <1>1, UnsentTyped DEF SawIsTrue
<1> QED
  BY <1>1, <1>5, <1>6, <1>7 DEF IInv, SettlingIsSound, RowIsLastOutcome, NewsIsTrue

(***************************************************************************)
(* The job and its transactions                                            *)
(***************************************************************************)
\* Started, given back or reopened, a job is not settled.
LEMMA MovesUnsettled ==
  Start \/ GiveBack \/ Reopen =>
    row'.phase \notin Job!Outcomes /\ row' \in Job!Promises /\ UNCHANGED <<tx, outcomes, notes, news, excused>>
<1>1. Start => row'.phase = "running"
  BY DEF Start, Job!Start
<1>2. GiveBack => row'.phase = "waiting"
  <2> SUFFICES ASSUME GiveBack PROVE row'.phase = "waiting"
    OBVIOUS
  <2>1. row' \in Job!Promises /\ row' = [row EXCEPT !.phase = "waiting"]
    BY DEF GiveBack, Moves, Job!GiveBack
  <2> QED
    BY <2>1, PhaseFacts
<1>3. Reopen => row'.phase = "waiting"
  BY FreshIsPromise DEF Reopen, Job!Reopen
<1> QED
  BY <1>1, <1>2, <1>3, PhaseFacts DEF Start, GiveBack, Reopen, Moves

LEMMA MovesKeep == IInv /\ (Start \/ GiveBack \/ Reopen) => IInv'
<1> SUFFICES ASSUME IInv, Start \/ GiveBack \/ Reopen PROVE IInv'
  OBVIOUS
<1>1. row'.phase \notin Job!Outcomes /\ row' \in Job!Promises /\ UNCHANGED <<tx, outcomes, notes, news, excused>>
  BY MovesUnsettled
<1> QED
  BY <1>1 DEF IInv, TypeOK, SettlingIsSound, RowIsLastOutcome, SawIsTrue, IsTrue, NewsIsTrue

LEMMA SettledPhase ==
  ASSUME NEW r \in Settled
  PROVE  r \in Job!Promises /\ r.phase \in Job!Outcomes
<1>1. r \in Job!Promises
  BY DEF Settled
<1>2. PICK o \in Job!Outcomes : r = [row EXCEPT !.phase = o]
  BY PhaseFacts DEF Settled, Job!Conclude, Job!Withdraw
<1>3. r.phase = o
  BY <1>1, <1>2, PhaseFacts
<1> QED
  BY <1>1, <1>3

LEMMA SettleKeeps == IInv /\ Settle => IInv'
<1> SUFFICES ASSUME IInv, Settle PROVE IInv'
  OBVIOUS
<1>1. /\ ~tx.open /\ tx.nth \in 0 .. MaxSettlings /\ tx.nth < MaxSettlings /\ Len(outcomes) < MaxOutcomes
      /\ UNCHANGED <<row, outcomes, news>>
  BY DEF IInv, TypeOK, Settle
<1>2. PICK r \in Settled : tx' = [open |-> TRUE, nth |-> tx.nth + 1, to |-> r]
  BY DEF Settle
<1>3. tx.nth + 1 \in Settlings /\ tx.nth + 1 \in 0 .. MaxSettlings
  BY <1>1, WebhookAssumption DEF Settlings
<1>4. /\ tx' \in [open : BOOLEAN, nth : 0 .. MaxSettlings, to : Job!Promises]
      /\ tx'.nth \in Settlings /\ tx'.to.phase \in Job!Outcomes
  BY <1>2, <1>3, SettledPhase
<1>5. Queued(0) \in Note /\ Queued(0).state = "queued"
  BY QueuedTyped, WebhookAssumption
<1>6. notes' = notes \/ notes' = [notes EXCEPT ![tx.nth + 1] = Queued(0)]
  BY DEF Settle
<1>7. notes \in [Settlings -> Note]
  BY DEF IInv, TypeOK, Note
<1>8. notes' \in [Settlings -> Note]
  BY <1>3, <1>5, <1>6, <1>7
<1>9. \A k \in Settlings : notes'[k].state = "posting" => notes'[k] = notes[k]
  BY <1>3, <1>5, <1>6, <1>7
<1>10. excused' \subseteq Settlings
  BY <1>3 DEF Settle, IInv, TypeOK
<1>11. TypeOK'
  BY <1>1, <1>4, <1>8, <1>10 DEF IInv, TypeOK, Note
<1>12. SawIsTrue'
  BY <1>1, <1>9 DEF IInv, SawIsTrue, IsTrue
<1> QED
  BY <1>1, <1>4, <1>11, <1>12 DEF IInv, SettlingIsSound, RowIsLastOutcome, NewsIsTrue

\* One more outcome: those before stay what they were.
LEMMA CommitKeeps == IInv /\ Commit => IInv'
<1> SUFFICES ASSUME IInv, Commit PROVE IInv'
  OBVIOUS
<1> DEFINE e == [phase |-> tx.to.phase, by |-> tx.nth]
           n == Len(outcomes)
<1>1. /\ tx.open /\ tx.nth \in Settlings /\ tx.to.phase \in Job!Outcomes /\ tx.to \in Job!Promises
      /\ tx \in [open : BOOLEAN, nth : 0 .. MaxSettlings, to : Job!Promises] /\ n < MaxOutcomes
      /\ outcomes \in Seq([phase : Job!Outcomes, by : Settlings])
  BY DEF IInv, TypeOK, SettlingIsSound, Commit
<1>2. /\ row' = tx.to /\ outcomes' = Append(outcomes, e)
      /\ tx' = [tx EXCEPT !.open = FALSE, !.to = Job!Fresh] /\ UNCHANGED <<notes, news, excused>>
  BY DEF Commit
<1>3. e \in [phase : Job!Outcomes, by : Settlings] /\ e.phase = tx.to.phase
  BY <1>1
<1> HIDE DEF e
<1>4. n \in Nat /\ MaxOutcomes \in Nat
  BY <1>1, WebhookAssumption
<1>5. /\ outcomes' \in Seq([phase : Job!Outcomes, by : Settlings])
      /\ Len(outcomes') = n + 1 /\ outcomes'[n + 1] = e
      /\ \A i \in 1 .. n : outcomes'[i] = outcomes[i]
  BY <1>1, <1>2, <1>3
<1>6. tx' \in [open : BOOLEAN, nth : 0 .. MaxSettlings, to : Job!Promises] /\ ~tx'.open
  BY <1>1, <1>2, FreshIsPromise
<1>7. Len(outcomes') <= MaxOutcomes
  BY <1>1, <1>4, <1>5
<1>8. TypeOK'
  BY <1>1, <1>2, <1>5, <1>6, <1>7 DEF IInv, TypeOK
<1>9. ASSUME NEW p, IsTrue(p) PROVE IsTrue(p)'
  BY <1>4, <1>5, <1>9 DEF IsTrue
<1>10. SawIsTrue' /\ NewsIsTrue'
  BY <1>2, <1>4, <1>5 DEF IInv, SawIsTrue, IsTrue, NewsIsTrue
<1>11. RowIsLastOutcome'
  BY <1>2, <1>3, <1>4, <1>5 DEF RowIsLastOutcome
<1> QED
  BY <1>6, <1>8, <1>10, <1>11 DEF IInv, SettlingIsSound

LEMMA RollbackKeeps == IInv /\ Rollback => IInv'
<1> SUFFICES ASSUME IInv, Rollback PROVE IInv'
  OBVIOUS
<1>1. /\ tx' = [tx EXCEPT !.open = FALSE, !.to = Job!Fresh]
      /\ tx \in [open : BOOLEAN, nth : 0 .. MaxSettlings, to : Job!Promises]
      /\ UNCHANGED <<row, outcomes, notes, news, excused>>
  BY DEF IInv, TypeOK, Rollback
<1>2. tx' \in [open : BOOLEAN, nth : 0 .. MaxSettlings, to : Job!Promises] /\ ~tx'.open
  BY <1>1, FreshIsPromise
<1> QED
  BY <1>1, <1>2 DEF IInv, TypeOK, SettlingIsSound, RowIsLastOutcome, SawIsTrue, IsTrue, NewsIsTrue

(***************************************************************************)
(* The messages                                                            *)
(***************************************************************************)
\* A step that moves messages and touches neither the row nor the outcomes:
\* what it starts to post and what it brings to the receiver must be true.
LEMMA MessagesKeep ==
  ASSUME IInv, UNCHANGED <<row, tx, outcomes>>, notes' \in [Settlings -> Note],
         \A k \in Settlings : notes'[k].state = "posting" => notes'[k] = notes[k] \/ IsTrue(notes'[k].saw),
         news' \subseteq Payload, \A p \in news' : p \in news \/ IsTrue(p),
         excused' \subseteq Settlings
  PROVE  IInv'
<1>1. TypeOK'
  BY DEF IInv, TypeOK, Note
<1>2. SawIsTrue'
  BY DEF IInv, SawIsTrue, IsTrue
<1>3. NewsIsTrue'
  BY DEF IInv, NewsIsTrue, IsTrue
<1> QED
  BY <1>1, <1>2, <1>3 DEF IInv, SettlingIsSound, RowIsLastOutcome

LEMMA ReadKeeps ==
  ASSUME IInv, NEW k \in Settlings, Read(k)
  PROVE  IInv'
<1>1. notes \in [Settlings -> Note] /\ UNCHANGED <<row, tx, outcomes, news>> /\ excused' \subseteq Settlings
  BY DEF IInv, TypeOK, Note, Read
<1>2. Len(outcomes) \in 0 .. MaxOutcomes /\ row.phase \in Job!Phases
  BY PhaseFacts DEF IInv, TypeOK
<1>3. Seen \in Payload /\ IsTrue(Seen)
  BY <1>2 DEF Seen, Payload, IsTrue, IInv, RowIsLastOutcome
<1>4. notes' = [notes EXCEPT ![k].state = "posting", ![k].saw = Seen]
  BY DEF Read
<1> HIDE DEF Seen
<1>5. notes' \in [Settlings -> Note] /\ notes'[k].saw = Seen
  BY <1>1, <1>3, <1>4 DEF Note
<1>6. \A j \in Settlings : notes'[j] = notes[j] \/ notes'[j].saw = Seen
  BY <1>1, <1>4, <1>5
<1>7. news \subseteq Payload
  BY DEF IInv, TypeOK
<1> QED
  BY <1>1, <1>3, <1>5, <1>6, <1>7, MessagesKeep

LEMMA ReadFailsKeeps ==
  ASSUME IInv, NEW k \in Settlings, ReadFails(k)
  PROVE  IInv'
<1>1. /\ notes \in [Settlings -> Note] /\ news \subseteq Payload /\ excused \subseteq Settlings
      /\ notes' = [notes EXCEPT ![k] = Done] /\ excused' = excused \cup {k}
      /\ UNCHANGED <<row, tx, outcomes, news>>
  BY DEF IInv, TypeOK, Note, ReadFails
<1>2. /\ notes' \in [Settlings -> Note]
      /\ \A j \in Settlings : notes'[j].state = "posting" => notes'[j] = notes[j]
  BY <1>1, DoneTyped
<1> QED
  BY <1>1, <1>2, MessagesKeep

LEMMA PostingIsTrue ==
  ASSUME IInv, NEW k \in Settlings, notes[k].state = "posting"
  PROVE  notes[k].saw \in Payload /\ IsTrue(notes[k].saw) /\ notes[k].tries \in 0 .. MaxRetries
BY DEF IInv, TypeOK, SawIsTrue

\* The end of a POST: the message is gone or queued again, and the receiver
\* may know what it said.
LEMMA PostEndsKeep ==
  ASSUME IInv, NEW k \in Settlings, notes[k].state = "posting",
         UNCHANGED <<row, tx, outcomes>>,
         notes' = [notes EXCEPT ![k] = Done]
           \/ \E n \in 0 .. MaxRetries : notes' = [notes EXCEPT ![k] = Queued(n)],
         news' = news \/ news' = news \cup {notes[k].saw},
         excused' = excused \/ excused' = excused \cup {k}
  PROVE  IInv'
<1>1. notes \in [Settlings -> Note] /\ news \subseteq Payload /\ excused \subseteq Settlings
  BY DEF IInv, TypeOK, Note
<1>2. notes[k].saw \in Payload /\ IsTrue(notes[k].saw)
  BY PostingIsTrue
<1>3. PICK new \in Note : notes' = [notes EXCEPT ![k] = new] /\ new.state # "posting"
  BY QueuedTyped, DoneTyped
<1>4. notes' \in [Settlings -> Note]
  BY <1>1, <1>3
<1>5. \A j \in Settlings : notes'[j].state = "posting" => notes'[j] = notes[j]
  BY <1>1, <1>3
<1>6. news' \subseteq Payload /\ \A p \in news' : p \in news \/ IsTrue(p)
  BY <1>1, <1>2
<1>7. excused' \subseteq Settlings
  BY <1>1
<1> QED
  BY <1>4, <1>5, <1>6, <1>7, MessagesKeep

LEMMA AcceptedKeeps ==
  ASSUME IInv, NEW k \in Settlings, Accepted(k)
  PROVE  IInv'
BY PostEndsKeep DEF Accepted

LEMMA RefusedKeeps ==
  ASSUME IInv, NEW k \in Settlings, Refused(k)
  PROVE  IInv'
<1>1. /\ notes[k].state = "posting" /\ UNCHANGED <<row, tx, outcomes>>
      /\ news' = news \/ news' = news \cup {notes[k].saw}
  BY DEF Refused
<1>2. CASE notes[k].tries < MaxRetries /\ notes' = [notes EXCEPT ![k] = Queued(notes[k].tries + 1)]
           /\ excused' = excused
  <2>1. notes[k].tries \in 0 .. MaxRetries
    BY <1>1, PostingIsTrue
  <2>2. notes[k].tries + 1 \in 0 .. MaxRetries
    BY <1>2, <2>1, WebhookAssumption
  <2> QED
    BY <1>1, <1>2, <2>2, PostEndsKeep
<1>3. CASE notes' = [notes EXCEPT ![k] = Done] /\ excused' = excused \cup {k}
  BY <1>1, <1>3, PostEndsKeep
<1> QED
  BY <1>2, <1>3 DEF Refused

LEMMA PostBreaksKeeps ==
  ASSUME IInv, NEW k \in Settlings, PostBreaks(k)
  PROVE  IInv'
BY PostEndsKeep DEF PostBreaks

LEMMA CrashKeeps ==
  ASSUME IInv, NEW k \in Settlings, Crash(k)
  PROVE  IInv'
<1>1. /\ notes[k].state = "posting" /\ UNCHANGED <<row, tx, outcomes, excused>>
      /\ notes' = [notes EXCEPT ![k] = Queued(notes[k].tries)]
      /\ news' = news \/ news' = news \cup {notes[k].saw}
  BY DEF Crash
<1>2. notes[k].tries \in 0 .. MaxRetries
  BY <1>1, PostingIsTrue
<1> QED
  BY <1>1, <1>2, PostEndsKeep

LEMMA FlushKeeps == IInv /\ Flush => IInv'
<1> SUFFICES ASSUME IInv, Flush PROVE IInv'
  OBVIOUS
<1> DEFINE gone == {k \in Settlings : notes[k].state = "queued"}
<1>1. /\ notes' = [k \in Settlings |-> IF k \in gone THEN Done ELSE notes[k]]
      /\ excused' = excused \cup gone /\ UNCHANGED <<row, tx, outcomes, news>>
  BY DEF Flush
<1>2. notes \in [Settlings -> Note] /\ news \subseteq Payload /\ excused \subseteq Settlings
  BY DEF IInv, TypeOK, Note
<1>3. gone \subseteq Settlings
  OBVIOUS
<1> HIDE DEF gone
<1>4. notes' \in [Settlings -> Note]
  BY <1>1, <1>2, DoneTyped
<1>5. \A k \in Settlings : notes'[k].state = "posting" => notes'[k] = notes[k]
  BY <1>1, <1>2, DoneTyped
<1> QED
  BY <1>1, <1>2, <1>3, <1>4, <1>5, MessagesKeep

THEOREM IInvCorrect == Spec => []IInv
<1>1. IInv /\ Next => IInv'
  <2> SUFFICES ASSUME IInv, Next PROVE IInv'
    OBVIOUS
  <2>1. CASE Start \/ GiveBack \/ Reopen
    BY <2>1, MovesKeep
  <2>2. CASE Settle \/ Commit \/ Rollback
    BY <2>2, SettleKeeps, CommitKeeps, RollbackKeeps
  <2>3. ASSUME NEW k \in Settlings, Read(k) \/ ReadFails(k) \/ Posted(k) \/ Crash(k) PROVE IInv'
    BY <2>3, ReadKeeps, ReadFailsKeeps, AcceptedKeeps, RefusedKeeps, PostBreaksKeeps, CrashKeeps
       DEF Posted
  <2>4. CASE Flush
    BY <2>4, FlushKeeps
  <2> QED
    BY <2>1, <2>2, <2>3, <2>4 DEF Next
<1>2. IInv /\ UNCHANGED vars => IInv'
  BY DEF vars, IInv, TypeOK, SettlingIsSound, RowIsLastOutcome, SawIsTrue, IsTrue, NewsIsTrue
<1> QED
  BY InitIInv, <1>1, <1>2, PTL DEF Spec

\* The row, the outcomes and the messages keep their types; a message is never
\* retried more than MaxRetries times.
THEOREM TypeCorrect == Spec => []TypeOK
<1>1. IInv => TypeOK
  BY DEF IInv
<1> QED
  BY IInvCorrect, <1>1, PTL

\* The receiver hears of no outcome the job did not have, whatever is rolled
\* back, crashes, is lost or repeated: send_webhook reads the committed row.
THEOREM NewsCorrect == Spec => []NewsIsTrue
<1>1. IInv => NewsIsTrue
  BY DEF IInv
<1> QED
  BY IInvCorrect, <1>1, PTL
=============================================================================
