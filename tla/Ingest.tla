------------------------------- MODULE Ingest -------------------------------
(***************************************************************************)
(* POST /v1/documents, run for many clients at once: the body passes the    *)
(* size guard while it is parsed, is spooled to a temporary file and        *)
(* hashed, its format detected, the bytes put into the object store under a *)
(* key made of hash and extension, and only then the document and its job   *)
(* are recorded, as a fresh job or, when some job already extracted the     *)
(* same bytes with the same options, as a copy of its result.  A request    *)
(* creates at most one job, so jobs go by the request that created them.    *)
(***************************************************************************)
EXTENDS Naturals, Formats

CONSTANTS Requests, NoJob,
          Uploads,       \* what clients may send
          MaxUpload,     \* settings.max_upload_bytes, in messages of the body
          Envelope,      \* what BodySizeLimit allows on top for multipart
          Environment    \* which of the events below this instance lets happen

EnvironmentEvents == {"crash", "db_down", "storage_down", "disk_full"}

Options == [pipeline : {"standard", "layout"}, ocr_mode : {"auto", "force", "off"}]

\* content stands for the bytes and so for their SHA-256; size is that of the
\* file, body that of the request around it; declared: it has a content-length.
Upload == [content : Content, ext : Extensions, size : Nat, body : Nat, declared : BOOLEAN,
           options : Options, force : BOOLEAN]

MaxBody == MaxUpload + Envelope

ASSUME IngestAssumption ==
  /\ NoJob \notin Requests
  /\ Uploads \subseteq Upload
  /\ \A u \in Uploads : u.size <= u.body
  /\ \A u, v \in Uploads : u.content = v.content => u.size = v.size
  /\ MaxUpload \in Nat /\ Envelope \in Nat
  /\ Environment \subseteq EnvironmentEvents

VARIABLES
  req,       \* the progress of every request: its stage, and how much of the body it buffered
  upload,    \* what it uploads
  temp,      \* the requests whose spool file is on the disk of the API
  bucket,    \* keys of the documents bucket
  jobs,      \* the job each request recorded
  finished   \* jobs in the order they succeeded (finished_at)

vars == <<req, upload, temp, bucket, jobs, finished>>

Key == [sha256 : Content, extension : Extensions]

KeyOf(u) == [sha256 |-> u.content, extension |-> CanonicalExtension(u.content, u.ext)]

InFlight == {"receiving", "spooling", "inspecting", "storing", "recording"}

Stages == InFlight \cup {"idle", "accepted", "refused", "unavailable", "dead"}

Statuses == {"none", "QUEUED", "SUCCEEDED", "FAILED"}

Rows == [status : Statuses, queue : {"none", "light", "heavy", "layout"},
         cached_from : Requests \cup {NoJob}, result : Requests \cup {NoJob}]

\* queue: where the job was sent; result: the job whose objects it points at.
NoRow == [status |-> "none", queue |-> "none", cached_from |-> NoJob, result |-> NoJob]

Init ==
  /\ req      = [q \in Requests |-> [stage |-> "idle", buffered |-> 0]]
  /\ upload   \in [Requests -> Uploads]
  /\ temp     = {}
  /\ bucket   = {}
  /\ jobs     = [q \in Requests |-> NoRow]
  /\ finished = <<>>

To(q, stage) == req' = [req EXCEPT ![q] = [stage |-> stage, buffered |-> 0]]

(***************************************************************************)
(* BodySizeLimit and the parser of the body                                *)
(***************************************************************************)
\* A content-length above the limit is refused before anything is read.
Arrive(q) ==
  /\ req[q].stage = "idle"
  /\ To(q, IF upload[q].declared /\ upload[q].body > MaxBody THEN "refused" ELSE "receiving")
  /\ UNCHANGED <<upload, temp, bucket, jobs, finished>>

\* Mutant: only a declared length is checked.
ReceiveUnlimited(q) ==
  /\ req[q].stage = "receiving"
  /\ req[q].buffered < upload[q].body
  /\ req' = [req EXCEPT ![q].buffered = @ + 1]
  /\ UNCHANGED <<upload, temp, bucket, jobs, finished>>

\* limited_receive: one more message, or _TooLarge, which the parser lets
\* through to the handler of HTTP errors.
Receive(q) ==
  /\ req[q].stage = "receiving"
  /\ req[q].buffered < upload[q].body
  /\ IF req[q].buffered + 1 > MaxBody THEN To(q, "refused")
                                      ELSE req' = [req EXCEPT ![q].buffered = @ + 1]
  /\ UNCHANGED <<upload, temp, bucket, jobs, finished>>

\* The client goes away before the end of the body.
Disconnect(q) ==
  /\ req[q].stage = "receiving"
  /\ To(q, "refused")
  /\ UNCHANGED <<upload, temp, bucket, jobs, finished>>

(***************************************************************************)
(* Spooling and inspection                                                 *)
(***************************************************************************)
Spool(q) ==
  /\ req[q].stage = "receiving"
  /\ req[q].buffered = upload[q].body
  /\ To(q, "spooling")
  /\ temp' = temp \cup {q}
  /\ UNCHANGED <<upload, bucket, jobs, finished>>

Spooled(q) ==
  /\ req[q].stage = "spooling"
  /\ upload[q].size <= MaxUpload
  /\ To(q, "inspecting")
  /\ UNCHANGED <<upload, temp, bucket, jobs, finished>>

Acceptable(u) == u.size > 0 /\ Supported(u.content, u.ext)

\* Mutant: an exception while spooling leaves the file behind.
RefusedLeaking(q) ==
  /\ \/ req[q].stage = "spooling" /\ (upload[q].size > MaxUpload \/ "disk_full" \in Environment)
     \/ req[q].stage = "inspecting" /\ ~Acceptable(upload[q])
  /\ To(q, "refused")
  /\ temp' = IF req[q].stage = "inspecting" THEN temp \ {q} ELSE temp
  /\ UNCHANGED <<upload, bucket, jobs, finished>>

\* Too large or not to be written; then empty, or of an unsupported format.
Refused(q) ==
  /\ \/ req[q].stage = "spooling" /\ (upload[q].size > MaxUpload \/ "disk_full" \in Environment)
     \/ req[q].stage = "inspecting" /\ ~Acceptable(upload[q])
  /\ To(q, "refused")
  /\ temp' = temp \ {q}
  /\ UNCHANGED <<upload, bucket, jobs, finished>>

(***************************************************************************)
(* Storage                                                                 *)
(***************************************************************************)
\* exists(): a file that is there already is not uploaded again.
Probe(q) ==
  /\ req[q].stage = "inspecting"
  /\ Acceptable(upload[q])
  /\ IF KeyOf(upload[q]) \in bucket THEN To(q, "recording") /\ temp' = temp \ {q}
                                    ELSE To(q, "storing")   /\ UNCHANGED temp
  /\ UNCHANGED <<upload, bucket, jobs, finished>>

Put(q) ==
  /\ req[q].stage = "storing"
  /\ bucket' = bucket \cup {KeyOf(upload[q])}
  /\ To(q, "recording")
  /\ temp' = temp \ {q}
  /\ UNCHANGED <<upload, jobs, finished>>

\* StorageError from exists() or upload_file(): a 503.  An upload whose
\* answer was lost may be there all the same.
StorageFails(q) ==
  /\ "storage_down" \in Environment
  /\ \/ req[q].stage = "inspecting" /\ Acceptable(upload[q]) /\ UNCHANGED bucket
     \/ req[q].stage = "storing" /\ bucket' \in {bucket, bucket \cup {KeyOf(upload[q])}}
  /\ To(q, "unavailable")
  /\ temp' = temp \ {q}
  /\ UNCHANGED <<upload, jobs, finished>>

(***************************************************************************)
(* The transaction                                                         *)
(***************************************************************************)
\* Mutant: the options are not part of the key.
ReusableAnyOptions(p, q) ==
  /\ jobs[p].status = "SUCCEEDED"
  /\ jobs[p].cached_from = NoJob
  /\ upload[p].content = upload[q].content

\* The WHERE of the cache lookup.
Reusable(p, q) ==
  /\ jobs[p].status = "SUCCEEDED"
  /\ jobs[p].cached_from = NoJob
  /\ upload[p].content = upload[q].content
  /\ upload[p].options = upload[q].options

Candidates(q) == IF upload[q].force THEN {} ELSE {p \in Requests : Reusable(p, q)}

\* ORDER BY finished_at DESC LIMIT 1
IsLatest(p, C) == /\ p \in C
                  /\ \E n \in DOMAIN finished :
                       finished[n] = p /\ \A k \in n + 1 .. Len(finished) : finished[k] \notin C

Queued(q) == [NoRow EXCEPT !.status = "QUEUED",
                           !.queue  = RouteQueue(upload[q].content, upload[q].ext, upload[q].options)]

\* Mutant: the job is recorded while the bytes are still on their way.
RecordUnstored(q) ==
  /\ req[q].stage \in {"storing", "recording"}
  /\ To(q, "accepted")
  /\ jobs' = [jobs EXCEPT ![q] = Queued(q)]
  /\ temp' = temp \ {q}
  /\ UNCHANGED <<upload, bucket, finished>>

Records(q, stage) ==
  /\ req[q].stage = "recording"
  /\ To(q, stage)
  /\ \/ /\ Candidates(q) = {}
        /\ jobs' = [jobs EXCEPT ![q] = Queued(q)]
        /\ UNCHANGED finished
     \/ \E p \in Candidates(q) :
          /\ IsLatest(p, Candidates(q))
          /\ jobs' = [jobs EXCEPT ![q] = [Queued(q) EXCEPT !.status = "SUCCEEDED", !.cached_from = p,
                                                           !.result = jobs[p].result]]
          /\ finished' = Append(finished, q)
  /\ UNCHANGED <<upload, temp, bucket>>

Record(q) == Records(q, "accepted")

\* The commit is made and its answer lost: the client is told 503 although
\* its document is being processed.
RecordUnanswered(q) == "db_down" \in Environment /\ Records(q, "unavailable")

\* OperationalError: a 503, and no row.
RecordFails(q) ==
  /\ "db_down" \in Environment
  /\ req[q].stage = "recording"
  /\ To(q, "unavailable")
  /\ UNCHANGED <<upload, temp, bucket, jobs, finished>>

(***************************************************************************)
(* Around it                                                               *)
(***************************************************************************)
\* What the workers make of a queued job: its own result, or a failure,
\* when the document is bad or its bytes are gone.  A retry queues it again.
Succeed(p) ==
  /\ jobs[p].status = "QUEUED"
  /\ KeyOf(upload[p]) \in bucket
  /\ jobs' = [jobs EXCEPT ![p].status = "SUCCEEDED", ![p].result = p]
  /\ finished' = Append(finished, p)
  /\ UNCHANGED <<req, upload, temp, bucket>>

Fail(p) ==
  /\ jobs[p].status = "QUEUED"
  /\ jobs' = [jobs EXCEPT ![p].status = "FAILED"]
  /\ UNCHANGED <<req, upload, temp, bucket, finished>>

Retry(p) ==
  /\ jobs[p].status = "FAILED"
  /\ jobs' = [jobs EXCEPT ![p].status = "QUEUED"]
  /\ UNCHANGED <<req, upload, temp, bucket, finished>>

\* The API process dies with every request in it; its spool files stay.
Crash ==
  /\ "crash" \in Environment
  /\ \E q \in Requests : req[q].stage \in InFlight
  /\ req' = [q \in Requests |-> IF req[q].stage \in InFlight THEN [stage |-> "dead", buffered |-> 0]
                                                             ELSE req[q]]
  /\ UNCHANGED <<upload, temp, bucket, jobs, finished>>

Next ==
  \/ \E q \in Requests : \/ Arrive(q) \/ Receive(q) \/ Disconnect(q)
                         \/ Spool(q) \/ Spooled(q) \/ Refused(q) \/ Probe(q) \/ Put(q)
                         \/ StorageFails(q) \/ Record(q) \/ RecordUnanswered(q)
                         \/ RecordFails(q)
                         \/ Succeed(q) \/ Fail(q) \/ Retry(q)
  \/ Crash

Spec == Init /\ [][Next]_vars

(***************************************************************************)
(* Properties                                                              *)
(***************************************************************************)
TypeOK ==
  /\ req \in [Requests -> [stage : Stages, buffered : Nat]]
  /\ upload \in [Requests -> Uploads]
  /\ temp \subseteq Requests
  /\ bucket \subseteq Key
  /\ jobs \in [Requests -> Rows]
  /\ finished \in Seq(Requests)

\* The two size limits together: whatever length a request declares or hides,
\* the parser buffers no more than MaxBody, and no job is recorded for a file
\* that is empty or above the upload limit.
SizesAreBounded ==
  \A q \in Requests :
    /\ req[q].buffered <= MaxBody
    /\ jobs[q].status # "none" => upload[q].size \in 1 .. MaxUpload

\* The claim check can be redeemed: a job is only recorded once its bytes are
\* stored, whichever of two identical uploads stored them and whichever died.
DocumentIsStored == \A q \in Requests : jobs[q].status # "none" => KeyOf(upload[q]) \in bucket

\* No request that was answered leaves its spool file behind, on any path.
SpoolIsRemoved == \A q \in temp : req[q].stage \in InFlight \cup {"dead"}

\* A cached answer is the result of a job that extracted the same bytes with
\* the same options itself, and a forced upload never gets one.
CacheIsSound ==
  \A q \in Requests : LET p == jobs[q].cached_from IN p # NoJob =>
    /\ ~upload[q].force
    /\ jobs[p].status = "SUCCEEDED" /\ jobs[p].result = p /\ jobs[q].result = p
    /\ upload[p].content = upload[q].content /\ upload[p].options = upload[q].options

\* "File-type detection by content, not by the name the client sent": two
\* jobs for the same bytes are of one kind, whatever their files are called;
\* the one exception is text that is only declared to be a mail.
KindIsOfContent ==
  \A p, q \in Requests :
    LET kp == KindOf(upload[p].content, upload[p].ext)
        kq == KindOf(upload[q].content, upload[q].ext) IN
    /\ jobs[p].status # "none" /\ jobs[q].status # "none"
    /\ upload[p].content = upload[q].content
    => kp = kq \/ {kp, kq} = {"text", "eml"}

\* detect_format: "Plain text files keep their declared flavour"; but a file
\* first uploaded as .txt and then as .csv is answered with the text result.
CacheKeepsFlavour ==
  \A q \in Requests : LET p == jobs[q].cached_from IN p # NoJob =>
    KeyOf(upload[p]).extension = KeyOf(upload[q]).extension
=============================================================================
