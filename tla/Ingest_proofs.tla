---------------------------- MODULE Ingest_proofs ----------------------------
(***************************************************************************)
(* The safety of the upload for any number of concurrent requests and any   *)
(* files they may carry: an invariant on what each stage of a request has   *)
(* already secured, and one on where cached results come from.              *)
(***************************************************************************)
EXTENDS Ingest, TLAPS

(***************************************************************************)
(* Formats                                                                 *)
(***************************************************************************)
LEMMA KindsAre ==
  Kinds = {"pdf", "image", "text", "html", "docx", "pptx", "xlsx", "eml", "rtf"}
BY DEF Kinds, FORMATS

\* Detection yields a kind of the table, or none.
LEMMA KindTyped ==
  ASSUME NEW content \in Content, NEW ext
  PROVE  KindOf(content, ext) \in Kinds \cup {"none"}
<1>1. Container(content) => Sniffed(content.members) \in {"docx", "pptx", "xlsx"}
  BY DEF Container, Sniffed, Content
<1>2. CASE content.mime \in Kinds
  BY <1>2, KindsAre DEF KindOf, Container
<1>3. CASE content.mime \notin Kinds /\ Container(content)
  BY <1>1, <1>3, KindsAre DEF KindOf, Container
<1>4. CASE content.mime \notin Kinds /\ ~Container(content)
  BY <1>4, KindsAre DEF KindOf
<1> QED BY <1>2, <1>3, <1>4

\* The name under which a document is stored, and a worker gives it to the
\* extractor of its kind, tells a flavour of that kind; detection by that name
\* finds the kind again.
THEOREM CanonicalAgrees ==
  ASSUME NEW content \in Content, NEW ext, Supported(content, ext)
  PROVE  /\ CanonicalExtension(content, ext) \in ExtensionsOf(KindOf(content, ext))
         /\ KindOf(content, CanonicalExtension(content, ext)) = KindOf(content, ext)
<1> DEFINE kind == KindOf(content, ext)
           name == CanonicalExtension(content, ext)
<1>1. kind \in Kinds
  BY KindTyped DEF Supported
<1>2. \A k \in Kinds : Head(FORMATS[k].extensions) \in ExtensionsOf(k)
  BY KindsAre DEF FORMATS, ExtensionsOf
<1>3. name \in ExtensionsOf(kind)
  BY <1>1, <1>2 DEF CanonicalExtension
<1>4. CASE content.mime \in Kinds \/ Container(content)
  <2>1. KindOf(content, name) = kind
    BY <1>4, KindsAre DEF KindOf, Container
  <2> QED BY <1>3, <2>1
<1>5. CASE content.mime = "text/x"
  <2>1. ext = ".eml" => kind = "eml" /\ name = ".eml"
    BY <1>3, <1>5, KindsAre DEF KindOf, Container, ExtensionsOf, FORMATS
  <2>2. ext # ".eml" => kind = "text" /\ name # ".eml"
    BY <1>3, <1>5, KindsAre DEF KindOf, Container, ExtensionsOf, FORMATS
  <2>3. KindOf(content, name) = kind
    BY <1>5, <2>1, <2>2, KindsAre DEF KindOf, Container
  <2> QED BY <1>3, <2>3
<1>6. CASE content.mime \notin Kinds \cup {"text/x"} /\ ~Container(content)
  <2>1. kind = "text" /\ ext \in ExtensionsOf("text")
    BY <1>6 DEF KindOf, Supported
  <2>2. name = ext
    BY <2>1 DEF CanonicalExtension
  <2> QED BY <1>3, <2>2
<1> QED BY <1>4, <1>5, <1>6

\* A file that is not refused gets an extension of its kind and a queue.
LEMMA FormatTyped ==
  ASSUME NEW u \in Upload, Supported(u.content, u.ext)
  PROVE  /\ KeyOf(u) \in Key
         /\ RouteQueue(u.content, u.ext, u.options) \in {"light", "heavy", "layout"}
<1> DEFINE kind == KindOf(u.content, u.ext)
<1>1. kind \in Kinds
  BY KindTyped DEF Supported, Upload
<1>2. \A k \in Kinds : FORMATS[k].queue \in {"light", "heavy"}
  BY KindsAre DEF FORMATS
<1>3. CanonicalExtension(u.content, u.ext) \in ExtensionsOf(kind)
  BY CanonicalAgrees DEF Upload
<1>4. CanonicalExtension(u.content, u.ext) \in Extensions
  BY <1>1, <1>3 DEF Extensions
<1>5. KeyOf(u) \in Key
  BY <1>4 DEF KeyOf, Key, Upload
<1>6. RouteQueue(u.content, u.ext, u.options) \in {"light", "heavy", "layout"}
  BY <1>1, <1>2 DEF RouteQueue
<1> QED BY <1>5, <1>6

\* Two names for the same bytes.
LEMMA OneKind ==
  ASSUME NEW content \in Content, NEW e, NEW f,
         Supported(content, e), Supported(content, f)
  PROVE  KindOf(content, e) = KindOf(content, f)
           \/ {KindOf(content, e), KindOf(content, f)} = {"text", "eml"}
<1>1. CASE content.mime \in Kinds \/ Container(content)
  BY <1>1, KindsAre DEF KindOf, Container
<1>2. CASE content.mime \notin Kinds /\ ~Container(content)
  BY <1>2, KindsAre DEF KindOf, Supported
<1> QED BY <1>1, <1>2

(***************************************************************************)
(* The invariant                                                           *)
(***************************************************************************)
Fits(u) == Acceptable(u) /\ u.size <= MaxUpload

\* The stages of a request that may have a spool file.
Spooling == {"spooling", "inspecting", "storing", "dead"}

\* What a request has secured by its stage, and a job by being recorded.
StageInv ==
  \A q \in Requests :
    /\ req[q].buffered <= MaxBody
    /\ req[q].stage = "inspecting" => upload[q].size <= MaxUpload
    /\ req[q].stage \in {"storing", "recording"} => Fits(upload[q])
    /\ req[q].stage = "recording" => KeyOf(upload[q]) \in bucket
    /\ q \in temp => req[q].stage \in Spooling
    /\ jobs[q].status # "none" => Fits(upload[q]) /\ KeyOf(upload[q]) \in bucket

\* A job has its own result, or that of one which has its own.
CacheInv ==
  \A q \in Requests :
    /\ jobs[q].status # "SUCCEEDED" => jobs[q].cached_from = NoJob
    /\ jobs[q].status = "SUCCEEDED" /\ jobs[q].cached_from = NoJob => jobs[q].result = q
    /\ jobs[q].cached_from # NoJob =>
         LET p == jobs[q].cached_from IN
           /\ ~upload[q].force
           /\ jobs[p].status = "SUCCEEDED" /\ jobs[p].cached_from = NoJob /\ jobs[q].result = p
           /\ upload[p].content = upload[q].content /\ upload[p].options = upload[q].options

\* Only a request that was answered has a job, and not always a good answer.
AcceptedInv == \A q \in Requests :
  jobs[q].status # "none" => req[q].stage \in {"accepted", "unavailable"}

IInv == TypeOK /\ StageInv /\ AcceptedInv /\ CacheInv

\* Records and sequences changed in one place keep their types.
LEMMA RowTyped ==
  ASSUME NEW row \in Rows, NEW s \in Statuses, NEW p \in Requests \cup {NoJob}
  PROVE  /\ [row EXCEPT !.status = s] \in Rows
         /\ [row EXCEPT !.status = s, !.result = p] \in Rows
BY DEF Rows

LEMMA ReqTyped ==
  ASSUME NEW r \in [stage : Stages, buffered : Nat]
  PROVE  [r EXCEPT !.buffered = @ + 1] \in [stage : Stages, buffered : Nat]
OBVIOUS

LEMMA InitEstablishes ==
  ASSUME Init PROVE IInv
<1>1. TypeOK
  BY IngestAssumption DEF Init, TypeOK, NoRow, Rows, Stages, InFlight, Statuses
<1>2. StageInv /\ AcceptedInv /\ CacheInv
  BY IngestAssumption DEF Init, StageInv, AcceptedInv, CacheInv, NoRow, MaxBody
<1> QED BY <1>1, <1>2 DEF IInv

\* Every action of a request that creates no job: its stage, its spool file
\* and the bucket are all that changes.
Upkeep(q) ==
  \/ Arrive(q) \/ Receive(q) \/ Disconnect(q) \/ Spool(q) \/ Spooled(q) \/ Refused(q)
  \/ Probe(q) \/ Put(q) \/ StorageFails(q) \/ RecordFails(q)

LEMMA TypePreserved ==
  ASSUME IInv, [Next]_vars PROVE TypeOK'
<1> USE IngestAssumption
<1>1. TypeOK /\ StageInv
  BY DEF IInv
<1>2. CASE UNCHANGED vars
  BY <1>1, <1>2 DEF vars, TypeOK
<1>3. ASSUME NEW q \in Requests, Upkeep(q) PROVE TypeOK'
  <2>1. jobs' = jobs /\ finished' = finished /\ upload' = upload
    BY <1>3 DEF Upkeep, Arrive, Receive, Disconnect, Spool, Spooled, Refused, Probe, Put,
                StorageFails, RecordFails
  <2>2. req' \in [Requests -> [stage : Stages, buffered : Nat]]
    <3>1. \/ \E stage \in Stages : To(q, stage)
          \/ req' = [req EXCEPT ![q].buffered = @ + 1]
      BY <1>3 DEF Upkeep, Arrive, Receive, Disconnect, Spool, Spooled, Refused,
                Probe, Put, StorageFails, RecordFails, Stages, InFlight
    <3>2. CASE \E stage \in Stages : To(q, stage)
      BY <1>1, <3>2 DEF TypeOK, To
    <3>3. CASE req' = [req EXCEPT ![q].buffered = @ + 1]
      <4>1. [req[q] EXCEPT !.buffered = @ + 1] \in [stage : Stages, buffered : Nat]
        BY <1>1, ReqTyped DEF TypeOK
      <4>2. req' = [req EXCEPT ![q] = [req[q] EXCEPT !.buffered = @ + 1]]
        BY <3>3
      <4> QED BY <1>1, <4>1, <4>2 DEF TypeOK
    <3> QED BY <3>1, <3>2, <3>3
  <2>3. temp' \subseteq Requests
    BY <1>1, <1>3 DEF TypeOK, Upkeep, Arrive, Receive, Disconnect, Spool, Spooled, Refused,
                Probe, Put, StorageFails, RecordFails
  <2>4. bucket' \subseteq bucket \cup {KeyOf(upload[q])}
    BY <1>3 DEF Upkeep, Arrive, Receive, Disconnect, Spool, Spooled, Refused, Probe, Put,
                StorageFails, RecordFails
  <2>5. bucket' = bucket \/ KeyOf(upload[q]) \in Key
    <3>1. CASE req[q].stage = "storing"
      BY <1>1, <3>1, FormatTyped DEF TypeOK, StageInv, Fits, Acceptable
    <3>2. CASE req[q].stage # "storing"
      BY <1>3, <3>2 DEF Upkeep, Arrive, Receive, Disconnect, Spool, Spooled, Refused, Probe,
                Put, StorageFails, RecordFails
    <3> QED BY <3>1, <3>2
  <2> QED BY <1>1, <2>1, <2>2, <2>3, <2>4, <2>5 DEF TypeOK
<1>4. ASSUME NEW q \in Requests, NEW stage \in {"accepted", "unavailable"}, Records(q, stage)
      PROVE  TypeOK'
  <2>1. req' \in [Requests -> [stage : Stages, buffered : Nat]]
    BY <1>1, <1>4 DEF TypeOK, Records, To, Stages
  <2>2. RouteQueue(upload[q].content, upload[q].ext, upload[q].options) \in {"light", "heavy", "layout"}
    BY <1>1, <1>4, FormatTyped DEF TypeOK, StageInv, Fits, Acceptable, Records
  <2>3. /\ jobs' \in [Requests -> Rows]
        /\ finished' \in Seq(Requests)
    <3>1. CASE Candidates(q) = {} /\ jobs' = [jobs EXCEPT ![q] = Queued(q)] /\ UNCHANGED finished
      BY <1>1, <2>2, <3>1 DEF TypeOK, Queued, NoRow, Rows, Statuses
    <3>2. CASE \E p \in Candidates(q) :
                 /\ jobs' = [jobs EXCEPT ![q] = [Queued(q) EXCEPT !.status = "SUCCEEDED",
                                                   !.cached_from = p, !.result = jobs[p].result]]
                 /\ finished' = Append(finished, q)
      <4>1. PICK p \in Candidates(q) :
                 /\ jobs' = [jobs EXCEPT ![q] = [Queued(q) EXCEPT !.status = "SUCCEEDED",
                                                   !.cached_from = p, !.result = jobs[p].result]]
                 /\ finished' = Append(finished, q)
        BY <3>2
      <4>2. p \in Requests
        BY <4>1 DEF Candidates
      <4>3. finished' \in Seq(Requests)
        BY <1>1, <4>1 DEF TypeOK
      <4>4. [Queued(q) EXCEPT !.status = "SUCCEEDED", !.cached_from = p, !.result = jobs[p].result]
              \in Rows
        BY <1>1, <2>2, <4>2 DEF TypeOK, Queued, NoRow, Rows, Statuses
      <4> QED BY <1>1, <4>1, <4>3, <4>4 DEF TypeOK
    <3> QED BY <1>4, <3>1, <3>2 DEF Records
  <2> QED BY <1>1, <1>4, <2>1, <2>3 DEF TypeOK, Records
<1>5. ASSUME NEW q \in Requests, Succeed(q) \/ Fail(q) \/ Retry(q) PROVE TypeOK'
  <2>1. finished' \in Seq(Requests)
    <3>1. finished' = finished \/ finished' = Append(finished, q)
      BY <1>5 DEF Succeed, Fail, Retry
    <3>2. finished \in Seq(Requests) /\ q \in Requests
      BY <1>1 DEF TypeOK
    <3> QED BY <3>1, <3>2
  <2>2. \E row \in Rows :
          jobs' = [jobs EXCEPT ![q] = row]
    <3>1. CASE Succeed(q)
      <4>1. jobs' = [jobs EXCEPT ![q] = [jobs[q] EXCEPT !.status = "SUCCEEDED", !.result = q]]
        BY <1>1, <1>5, <3>1 DEF TypeOK, Succeed
      <4>2. [jobs[q] EXCEPT !.status = "SUCCEEDED", !.result = q]
              \in Rows
        BY <1>1, RowTyped DEF TypeOK, Statuses
      <4> QED BY <4>1, <4>2
    <3>2. CASE Fail(q)
      <4>1. jobs' = [jobs EXCEPT ![q] = [jobs[q] EXCEPT !.status = "FAILED"]]
        BY <1>1, <3>2 DEF TypeOK, Fail
      <4>2. [jobs[q] EXCEPT !.status = "FAILED"]
              \in Rows
        BY <1>1, RowTyped DEF TypeOK, Statuses
      <4> QED BY <4>1, <4>2
    <3>3. CASE Retry(q)
      <4>1. jobs' = [jobs EXCEPT ![q] = [jobs[q] EXCEPT !.status = "QUEUED"]]
        BY <1>1, <3>3 DEF TypeOK, Retry
      <4>2. [jobs[q] EXCEPT !.status = "QUEUED"]
              \in Rows
        BY <1>1, RowTyped DEF TypeOK, Statuses
      <4> QED BY <4>1, <4>2
    <3> QED BY <1>5, <3>1, <3>2, <3>3
  <2>3. UNCHANGED <<req, upload, temp, bucket>>
    BY <1>5 DEF Succeed, Fail, Retry
  <2> QED BY <1>1, <2>1, <2>2, <2>3 DEF TypeOK
<1>6. CASE Crash
  BY <1>1, <1>6 DEF TypeOK, Crash, Stages
<1> QED BY <1>2, <1>3, <1>4, <1>5, <1>6 DEF Next, Upkeep, Record, RecordUnanswered

LEMMA StagePreserved ==
  ASSUME IInv, [Next]_vars PROVE StageInv' /\ AcceptedInv'
<1> USE IngestAssumption
<1>1. TypeOK /\ StageInv /\ AcceptedInv
  BY DEF IInv
<1>2. CASE UNCHANGED vars
  BY <1>1, <1>2 DEF vars, StageInv, AcceptedInv, Fits
<1>3. ASSUME NEW q \in Requests, Upkeep(q) PROVE StageInv' /\ AcceptedInv'
  <2>1. jobs' = jobs /\ upload' = upload /\ bucket \subseteq bucket'
    BY <1>3 DEF Upkeep, Arrive, Receive, Disconnect, Spool, Spooled, Refused, Probe, Put,
                StorageFails, RecordFails
  <2>2. jobs[q].status = "none"
    BY <1>1, <1>3 DEF AcceptedInv, Upkeep, Arrive, Receive, Disconnect, Spool, Spooled, Refused,
                Probe, Put, StorageFails, RecordFails
  <2>3. \A r \in Requests \ {q} : req'[r] = req[r] /\ (r \in temp' <=> r \in temp)
    BY <1>1, <1>3 DEF TypeOK, Upkeep, Arrive, Receive, Disconnect, Spool, Spooled, Refused,
                Probe, Put, StorageFails, RecordFails, To
  <2>4. req'[q].buffered <= MaxBody
    BY <1>1, <1>3 DEF TypeOK, StageInv, MaxBody, Upkeep, Arrive, Receive, Disconnect, Spool,
                Spooled, Refused, Probe, Put, StorageFails, RecordFails, To
  <2>5. /\ req'[q].stage = "inspecting" => upload[q].size <= MaxUpload
        /\ req'[q].stage \in {"storing", "recording"} => Fits(upload[q])
        /\ req'[q].stage = "recording" => KeyOf(upload[q]) \in bucket'
        /\ q \in temp' => req'[q].stage \in Spooling
    <3>1. CASE Arrive(q) \/ Disconnect(q) \/ Spool(q)
      BY <1>1, <3>1 DEF TypeOK, StageInv, Spooling, Arrive, Disconnect, Spool, To
    <3>2. CASE Receive(q)
      <4>1. req'[q].stage \in {"receiving", "refused"} /\ q \notin temp'
        BY <1>1, <3>2 DEF TypeOK, StageInv, Spooling, Receive, To
      <4> QED BY <4>1
    <3>3. CASE Spooled(q) \/ Refused(q) \/ RecordFails(q)
      <4>1. /\ req[q].stage \in {"spooling", "inspecting", "recording"}
            /\ \E stage \in {"inspecting", "refused", "unavailable"} :
                 /\ To(q, stage)
                 /\ stage = "inspecting" => upload[q].size <= MaxUpload
                 /\ stage # "inspecting" => q \notin temp'
        BY <1>1, <3>3 DEF StageInv, Spooling, Spooled, Refused, RecordFails
      <4>2. PICK stage \in {"inspecting", "refused", "unavailable"} :
                 /\ To(q, stage)
                 /\ stage = "inspecting" => upload[q].size <= MaxUpload
                 /\ stage # "inspecting" => q \notin temp'
        BY <4>1
      <4>3. req'[q].stage = stage
        BY <1>1, <4>2 DEF TypeOK, To
      <4> QED BY <4>2, <4>3 DEF Spooling
    <3>4. CASE Probe(q)
      BY <1>1, <3>4 DEF TypeOK, StageInv, Fits, Spooling, Probe, To
    <3>5. CASE Put(q) \/ StorageFails(q)
      BY <1>1, <3>5 DEF TypeOK, StageInv, Fits, Spooling, Put, StorageFails, To
    <3> QED BY <1>3, <3>1, <3>3, <3>4, <3>5, <3>2 DEF Upkeep
  <2> QED BY <1>1, <2>1, <2>2, <2>3, <2>4, <2>5 DEF StageInv, AcceptedInv, Fits
<1>4. ASSUME NEW q \in Requests, NEW stage \in {"accepted", "unavailable"}, Records(q, stage)
      PROVE  StageInv' /\ AcceptedInv'
  <2>1. /\ req' = [req EXCEPT ![q] = [stage |-> stage, buffered |-> 0]]
        /\ UNCHANGED <<upload, temp, bucket>>
        /\ req[q].stage = "recording"
    BY <1>4 DEF Records, To
  <2>2. \A r \in Requests \ {q} : jobs'[r] = jobs[r]
    BY <1>1, <1>4 DEF TypeOK, Records
  <2>3. q \notin temp
    BY <1>1, <2>1 DEF StageInv, Spooling
  <2> QED BY <1>1, <2>1, <2>2, <2>3 DEF TypeOK, StageInv, AcceptedInv, Fits, MaxBody
<1>5. ASSUME NEW q \in Requests, Succeed(q) \/ Fail(q) \/ Retry(q) PROVE StageInv' /\ AcceptedInv'
  <2>1. \A r \in Requests : jobs'[r].status # "none" => jobs[r].status # "none"
    BY <1>1, <1>5 DEF TypeOK, Succeed, Fail, Retry
  <2>2. UNCHANGED <<req, upload, temp, bucket>>
    BY <1>5 DEF Succeed, Fail, Retry
  <2> QED BY <1>1, <2>1, <2>2 DEF StageInv, AcceptedInv, Fits
<1>6. CASE Crash
  BY <1>1, <1>6 DEF TypeOK, StageInv, AcceptedInv, Fits, Crash, InFlight, Spooling, MaxBody
<1> QED BY <1>2, <1>3, <1>4, <1>5, <1>6 DEF Next, Upkeep, Record, RecordUnanswered
LEMMA CachePreserved ==
  ASSUME IInv, [Next]_vars PROVE CacheInv'
<1> USE IngestAssumption
<1>1. TypeOK /\ AcceptedInv /\ CacheInv
  BY DEF IInv
<1>2. CASE UNCHANGED <<jobs, upload>>
  BY <1>1, <1>2 DEF CacheInv
<1>3. ASSUME NEW q \in Requests, NEW stage \in {"accepted", "unavailable"}, Records(q, stage)
      PROVE  CacheInv'
  <2>1. jobs[q].status = "none" /\ UNCHANGED upload
    BY <1>1, <1>3 DEF AcceptedInv, Records
  <2>2. CASE jobs' = [jobs EXCEPT ![q] = Queued(q)]
    BY <1>1, <2>1, <2>2 DEF TypeOK, CacheInv, Queued, NoRow
  <2>3. CASE \E p \in Candidates(q) :
               jobs' = [jobs EXCEPT ![q] = [Queued(q) EXCEPT !.status = "SUCCEEDED",
                                                !.cached_from = p, !.result = jobs[p].result]]
    <3>1. PICK p \in Candidates(q) :
               jobs' = [jobs EXCEPT ![q] = [Queued(q) EXCEPT !.status = "SUCCEEDED",
                                                !.cached_from = p, !.result = jobs[p].result]]
      BY <2>3
    <3>2. p \in Requests /\ Reusable(p, q) /\ ~upload[q].force
      BY <3>1 DEF Candidates
    <3>3. jobs[p].result = p /\ p # q
      BY <1>1, <2>1, <3>2 DEF CacheInv, Reusable
    <3>4. /\ jobs'[q].status = "SUCCEEDED" /\ jobs'[q].cached_from = p /\ jobs'[q].result = p
          /\ \A r \in Requests \ {q} : jobs'[r] = jobs[r]
      BY <1>1, <3>1, <3>3 DEF TypeOK, Queued, NoRow
    <3>5. p # NoJob /\ jobs'[p].status = "SUCCEEDED" /\ jobs'[p].cached_from = NoJob
      BY <3>2, <3>3, <3>4, IngestAssumption DEF Reusable
    <3>6. \A r \in Requests : jobs[r].cached_from # q
      BY <1>1, <2>1, IngestAssumption DEF TypeOK, CacheInv
    <3>7. \A r \in Requests \ {q} : jobs[r].cached_from # NoJob =>
            jobs[r].cached_from \in Requests \ {q}
      BY <1>1, <3>6 DEF TypeOK, Rows
    <3> QED BY <1>1, <2>1, <3>2, <3>3, <3>4, <3>5, <3>7 DEF CacheInv, Reusable
  <2> QED BY <1>3, <2>2, <2>3 DEF Records
<1>4. ASSUME NEW p \in Requests, Succeed(p) \/ Fail(p) \/ Retry(p) PROVE CacheInv'
  <2>1. /\ jobs[p].status \in {"QUEUED", "FAILED"}
        /\ jobs'[p].cached_from = jobs[p].cached_from
        /\ jobs'[p].status = "SUCCEEDED" => jobs'[p].result = p
        /\ \A r \in Requests \ {p} : jobs'[r] = jobs[r]
        /\ UNCHANGED upload
    BY <1>1, <1>4 DEF TypeOK, Rows, Succeed, Fail, Retry
  <2>2. jobs[p].cached_from = NoJob
    BY <1>1, <2>1 DEF CacheInv
  <2>3. \A r \in Requests : jobs[r].cached_from # NoJob =>
          jobs[r].cached_from \in Requests \ {p}
    BY <1>1, <2>1 DEF TypeOK, Rows, CacheInv
  <2> QED BY <1>1, <2>1, <2>2, <2>3 DEF CacheInv
<1> QED
  BY <1>2, <1>3, <1>4 DEF Next, Record, RecordUnanswered, vars, Arrive, Receive, Disconnect, Spool, Spooled, Refused, Probe,
     Put, StorageFails, RecordFails, Crash

LEMMA Inductive == Spec => []IInv
<1>1. Init => IInv
  BY InitEstablishes
<1>2. IInv /\ [Next]_vars => IInv'
  BY TypePreserved, StagePreserved, CachePreserved DEF IInv
<1> QED BY <1>1, <1>2, PTL DEF Spec

(***************************************************************************)
(* Theorems                                                                *)
(***************************************************************************)
\* Whatever the clients send, the requests, jobs and keys have their types.
THEOREM TypeCorrect == Spec => []TypeOK
<1>1. IInv => TypeOK
  BY DEF IInv
<1> QED BY <1>1, Inductive, PTL

\* No client makes the service buffer, or record, more than its limits allow.
THEOREM SizesBounded == Spec => []SizesAreBounded
<1>1. IInv => SizesAreBounded
  BY IngestAssumption DEF IInv, TypeOK, StageInv, SizesAreBounded, Fits, Acceptable, Upload
<1> QED BY <1>1, Inductive, PTL

\* A recorded job finds its bytes in the object store.
THEOREM DocumentsAreStored == Spec => []DocumentIsStored
<1>1. IInv => DocumentIsStored
  BY DEF IInv, StageInv, DocumentIsStored
<1> QED BY <1>1, Inductive, PTL

\* An answered request has removed its spool file.
THEOREM SpoolsAreRemoved == Spec => []SpoolIsRemoved
<1>1. IInv => SpoolIsRemoved
  BY DEF IInv, TypeOK, StageInv, SpoolIsRemoved, Spooling, InFlight
<1> QED BY <1>1, Inductive, PTL

\* A cached answer is the result of a job on the same bytes and options.
THEOREM CacheSound == Spec => []CacheIsSound
<1>1. IInv => CacheIsSound
  BY IngestAssumption DEF IInv, TypeOK, Rows, CacheInv, CacheIsSound
<1> QED BY <1>1, Inductive, PTL

\* Two names do not make two kinds of the same bytes, mails in text aside.
THEOREM KindsFollowContent == Spec => []KindIsOfContent
<1>1. ASSUME IInv PROVE KindIsOfContent
  <2>1. ASSUME NEW p \in Requests, NEW q \in Requests,
               jobs[p].status # "none", jobs[q].status # "none",
               upload[p].content = upload[q].content
        PROVE  LET kp == KindOf(upload[p].content, upload[p].ext)
                   kq == KindOf(upload[q].content, upload[q].ext) IN
               kp = kq \/ {kp, kq} = {"text", "eml"}
    <3>1. /\ Supported(upload[p].content, upload[p].ext)
          /\ Supported(upload[q].content, upload[q].ext)
          /\ upload[p].content \in Content
      BY <1>1, <2>1, IngestAssumption DEF IInv, TypeOK, StageInv, Fits, Acceptable, Upload
    <3> QED BY <2>1, <3>1, OneKind
  <2> QED BY <2>1 DEF KindIsOfContent
<1> QED BY <1>1, Inductive, PTL
==============================================================================
