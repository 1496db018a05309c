# Formal model of the document intelligence pipeline

TLA+ modules, TLC configurations and TLAPS proofs for the service in this
repository: an HTTP API that takes documents, workers that extract text,
Markdown and retrieval chunks from them, a sweeper that repairs what crashes and
a lossy broker leave behind, and webhooks that announce the outcome.

Contents: [1 The system](#1-the-system), [2 Modules](#2-modules),
[3 Runs](#3-runs), [4 Fairness](#4-fairness), [5 Proofs](#5-proofs),
[6 Disagreements found](#6-disagreements-found),
[7 Not modelled](#7-not-modelled), [8 Plan](#8-plan),
[9 How to run it](#9-how-to-run-it).

## 1 The system

```
 client --POST--> API ---row, dispatch---> Postgres <---claim, beat, settle--- workers
                   |  \__document________> object store <------artifacts------   |  ^
                   |                                                             |  |
                   +--after commit: job id--> Redis (queues, unacked hash) ------+--+
                                                ^  reads queues, republishes
                            beat --> sweeper ---+--> Postgres (stale, expired, silent rows)
```

Postgres is the only shared truth. The broker carries job ids and may lose,
keep, repeat or delay them. The object store keeps documents under keys made of
hash and extension, and artifacts under keys made of the job's id.

### Components

| component (source) | state | operations | what makes it correct |
|---|---|---|---|
| **Job rows** (`db.py`, `jobs.py`, `worker/tasks.py`, `api/main.py`) | `status`, `attempts`, `worker_id`, `heartbeat_at`, `dispatched_at`, `next_attempt_at`, `cancel_requested`, `error`, `finished_at` | create, dispatch, claim, beat, succeed, fail, give back, cancel, retry, re-queue, expire | outcomes are final, a waiting row can be claimed, attempts stay below the limit |
| **Dispatch** (`jobs.py`) | hooks of an open transaction | publish after the commit, withdraw `dispatched_at` when publishing fails | a lost message is replaced |
| **Workers and heartbeat** (`worker/tasks.py`) | per execution: `worker_id`, `lost`, `cancel_requested`, what it stored | claim, check points, store artifacts, settle, acknowledge | one owner per job, a superseded execution is inert, a success has all its artifacts |
| **Sweeper** (`jobs.py: recover_jobs`) | one transaction: rows locked, a snapshot of the broker | stale rows, expired rows, rows without message | every job ends, leases are respected |
| **Broker** (Redis through Celery) | queues, unacked hash | deliver, acknowledge, restore, lose | external |
| **Upload** (`api/main.py`, `storage.py`) | request body, spool file, bucket, job rows | size guard, spool, detect, store, look up the cache, record | document stored before the job, no spool left, sound cache, sizes bounded |
| **Format detection** (`extraction/formats.py`) | none | `detect_format`, `route_queue` | the kind follows the content |
| **PDF pages** (`extraction/pdf.py`, `ocr.py`) | page results | text layer or OCR, coverage guard | no text lost |
| **Page layout** (`layout.py`, `pdf_markdown.py`, `markdown.py`) | none | `xy_cut`, `page_to_markdown`, OCR lines | text kept, reading order kept |
| **Extraction loops** (`mail.py`, `image.py`, `office.py`, `layout_pipeline.py`) | pages so far, warnings, list of attachments, cache of pictures, cells seen | one attachment, frame, batch, slide, picture or sheet; skip, cut, fail, stop | pages numbered through, everything accounted for or announced, options respected |
| **Chunking** (`chunking.py`) | heading stack, page, open chunk, chunks | read blocks and page markers, split, pack, carry headings, overlap | nothing lost, budget kept, overlap in its section, pages traced |
| **Webhook** (`jobs.py: notify_terminal`, `tasks.py: send_webhook`) | the message, its retries | send in the settling transaction, read, POST, retry | the news is true, an outcome is announced |
| **Reading results** (`api/main.py`, `schemas.py`) | none | GET result, text, Markdown, chunks | sees complete results only |
| **Text, HTML, RTF** (`text.py`) | none | blocks in any order | - |
| **OCR engines, enrichment, statistics, configuration, UI** | - | - | - |

### How they interact

* API to workers: a row and a message with its id. The message is sent by an
  `after_commit` hook; row and message are not atomic.
* Workers to Postgres: `claim()` takes the row under its lock and gives it the
  execution's `worker_id`. Everything later is fenced: it locks the row and does
  nothing unless status is PROCESSING and `worker_id` is still its own.
* Heartbeat to worker: a thread of the same process updates `heartbeat_at` and
  raises two flags, `lost` and `cancel_requested`. The worker looks at them at
  check points and may be late.
* Sweeper to everybody: one transaction locks stale and expired rows
  (`SKIP LOCKED`), reads the queues and then the unacked hash of Redis, and
  dispatches what is in neither.
* Workers to the object store: artifacts are written one by one, unfenced.
* Settling transaction to receiver: a message is sent *before* the commit, with
  one second of countdown; its consumer reads the row.

### What is hard

Interleavings of API, workers, heartbeat threads and sweeper on a row; flags and
snapshots that are stale when used; processes that die between commit and
publish, between claim and acknowledgement, between one artifact and the next;
messages lost, repeated, restored to a second worker while the first goes on;
Postgres or Redis away at the moment they are needed; a counter compared in
three places; progress in spite of all that. Then, sequentially: the four fall-backs
of format detection, the recursive cut of a page, indices moved by five
line-merging rules, headings carried from chunk to chunk, page numbers kept through
attachments that fail, batches that share a converter, pictures that come again
after a limit, code fences that swallow page markers. `PROJECT.json` lists each
hazard at its line with the properties that would notice it going wrong.

## 2 Modules

```
JobRow <-- JobLifecycle <-- MCJobLifecycle          Formats <-- Ingest <-- MCIngest
                |  Contract == INSTANCE JobContract
                v
            JobContract <--INSTANCE-- Webhook

SeqFolds <-- Chunking, PageLayout, Extractors
             Chunking, PageLayout, Extractors <-- Extraction <-- MCExtraction

JobLifecycle_proofs, Ingest_proofs and Webhook_proofs extend the module they are named after;
SeqFolds_proofs <-- Chunking_proofs, Extractors_proofs, PageLayout_proofs <-- Extraction_proofs
```

### JobRow - one row

A row is a record, an UPDATE an operator from row to row, a WHERE clause a
predicate (`Claimable`, `OwnedBy`, `Stale`, `Expired`, `NeedsMessage`).
Timestamps are replaced by what the code asks of them, compared with now:
`heartbeat_at` by `alive`, `dispatched_at` by `recent`, `next_attempt_at` by
`backoff`, age by `overdue`. `worker_id` is `owner`, a number; 0 is NULL.

### JobLifecycle - API, workers, heartbeat, sweeper, broker

One action per transaction, per look at a flag, per artifact, per message step.

| action | code |
|---|---|
| `Upload`, `CancelJob`, `RetryJob` | the handlers of `api/main.py` and `dispatch` |
| `UploadCached` | an upload found in the result cache: its row is committed SUCCEEDED at once, with the keys of another job's result, and nothing is dispatched (`cached` is `cached_from_job_id`, `ResultOf` follows the keys) |
| `Publish`, `PublishFails`, `PublishLost` | the `after_commit` hook: sent; refused and `dispatched_at` withdrawn; the process dies or the second transaction fails |
| `Receive`, `Claim`, `ClaimUnavailable` | the worker reserves a message; `claim()`; Postgres away |
| `Beat` | one beat of the heartbeat thread, flags included |
| `Page`, `Extracted`, `Store`, `FinalCheck` | progress, end of extraction, one artifact, the last check |
| `StopLost`, `StopCancelled`, `Raise` | the exceptions of `process_document` |
| `Succeed`, `Finish`, `FinishUnavailable`, `Ack` | the fenced settling transactions, and `acks_late` |
| `Crash` | the process, its host, or the hard time limit (which acknowledges) |
| `RestoreOrphan`, `RestoreHeld`, `Flush` | visibility timeout and lost data of Redis |
| `AgeHeartbeat`, `AgeDispatch`, `AgeBackoff`, `AgeQueue` | time |
| `SweepStart`, `SweepLists`, `SweepUnacked`, `SweepBlind`, `SweepCommit`, `SweepCommitBlind`, `SweepAborts` | `recover_jobs`: lock, read the queues, read the unacked hash, broker away, verdicts and third query, rollback |

`Environment` says which unfriendly events an instance lets happen, so that each
run can afford larger numbers elsewhere; the theorems hold for every subset.

Modelling decisions:

* A beat in flight when its task ends is left out: it is fenced by `worker_id`
  and writes only the heartbeat.
* `set_progress` at the ends is a fenced UPDATE with no look at the flags, as in
  `Beat`; the throttled one of `Page` either writes nothing or is one.
* The sweeper's session flushes before its third query, so a job re-queued by
  the loop of stale rows can be expired by the same sweep, its message already
  registered. `Swept` and `SweptDispatch` keep that.
* `claims` counts the claims of a job. It is how `worker_id`s (UUIDs in the code)
  are told apart, and history for `AttemptsAreBounded`.
* Artifacts hold the `worker_id` that wrote them; their content is nothing else.

### JobContract - what a client is promised

Per job: absent, waiting, running or an outcome, with the number of starts. Steps:
submit, start (below the limit), give back (below the limit), conclude, withdraw,
reopen (not a success); and `Reuse`: a job never started appears as a success, which needs
another one that `Earned` its own by being started. JobLifecycle implements it with the mapping `promises`;
Webhook is built on it, so it need not know of workers and sweepers.

### Webhook - notification

`Settle` opens the settling transaction and sends the message, `Commit` or
`Rollback` end it, `Read` and `Accepted` or `Refused` are the task's two halves,
`Crash` and `Flush` what can happen to it. Only `httpx.HTTPError` is retried: a database that is away at the
read (`ReadFails`), any other exception of the POST (`PostBreaks`) and a retry that the broker refuses (in `Refused`)
end the task, acknowledged. A read of an open
transaction sees the old row, as READ COMMITTED does. `excused` records the
notes for which the code itself gives no promise.

### Formats, Ingest - upload

`Formats` translates `detect_format`, `canonical_extension` and `route_queue`. A
content is what libmagic, the ZIP directory and charset_normalizer say of the
bytes. `Ingest` runs the upload handler for many requests: `Receive` (with
`BodySizeLimit` counting messages), `Spool`, `Spooled`, `Refused`, `Probe`, `Put`, `Record`,
and their failures; after `RecordUnanswered` the row is there although the client was told 503. The content record stands for bytes and SHA-256. Sizes are
counted in messages of the body. The guard's 413 and the handler's own
refusals are one stage. Workers are three actions on
the recorded job (`Succeed`, `Fail`, `Retry`), as JobLifecycle allows.
A request creates at most one job, so jobs go by their request. Bucket retention
is not modelled: a document that is gone by then is a `Fail`.

### PageLayout, Extractors, Chunking, Extraction - from documents to chunks

`PageLayout` is pure: `XYCut` as a recursive function on sets of boxes, table regions
(ruled grids) and runs of rows, headings, wrapped headings, lists, waiting
bullets, and the reading order of OCR output. A line is what the code asks of it:
heading level by size, bold, kind, indented, ends with a full stop, number of
cells. Lines have one height. Boxes with equal corners are allowed: the code keeps them in
file order, the model reads any of them first. `ExtractionAssumption` says what the
table finder gives (`AreGrids`: no line is in cells of two grids) and that a box has lines and
a positive width. Left out: the font profile behind `level`, compaction of
one-word OCR paragraphs, truncation of tables. A page also says whether its layout analysis raises (`breaks`: it is
plain text then, past the guard) and, for a scan Tesseract has read, the order its engine gave the lines
(`numbered`): the code takes that text as it is. Its paragraphs are not told apart.

`Extractors` has the loops of `extract_document` that read a document item by item.
A page of the result records, besides its number and its parts, which item it came from.

| actions | code |
|---|---|
| `ReadMessage`, `SkipAttachment`, `AttachmentFails`, `ExtractAttachment`, `FinishMail` | `extract_eml`: the message, one turn of the loop over attachments in each of its ways out, the list on the first page |
| `ImageUnread`, `TooManyFrames`, `ReadFrame`, `FinishImage` | `extract_image` |
| `ConvertBatch`, `FinishLayout` | `extract_layout`: one converter, with or without full-page OCR, for a batch of pages |
| `OpenSlide`, `ReadPicture`, `PictureFails`, `FinishOffice` | `extract_pptx`, `extract_docx` and `EmbeddedImageOcr`: its cache and its limit |
| `ReadSheet`, `FinishWorkbook` | `extract_xlsx`: the limits on cells and on rows of a Markdown table |
| `Stop` | `check_cancelled` and every exception, at the places where they can be raised |

What a parser makes of an attachment, a frame or a page is chosen with the
document, and so is what a picture turns out to be (text, blank, too small or damaged). Parts
of a page are blocks; the content of a block is a tag. An attachment brings the method of each of its pages
and its warnings (`said`) into the mail's result. Metadata, warnings about a page's confidence and durations are left out.

`Chunking` is the state machine of `chunk_markdown`: `Read` (heading stack, splitting of
oversized blocks), `Pack`, `Finish`. Token counts are taken as additive, and a hard split keeps tokens only:
a character that it cuts in two (`chunking.py:196`) is not told apart. Headings have titles, as they are all that the code
compares (`TopTitle`); their places in the document are there for the properties. An overlap is the blocks it may
repeat (`prefix`, by `Ending`), those of the chunk before and of *its* overlap. A part
carries the page the code says it is on, and, for the property alone, the pages it
really is on. `ChunkingSpec` is the chunker on its own, whatever blocks it is given, and
`SeqFolds` the two loops over sequences it shares with `Extractors`: a sum and a filter.

`Extraction` composes them: `ExtractPage` is one turn of the loop of
`extract_pdf` (unreadable page, text layer or OCR, coverage guard), `ExtractItem` a step of
`Extractors`, `JoinPages` puts a marker before each page, and `ReadMarker`, `ReadPart` and
`ReadFence` read the joined Markdown as `parse_blocks` does: between two fences
everything is code, markers included. `PackBlock` and `FinishChunks` pack. A document
of kind `text` stands for the parsers of `text.py`: `ReadAny` reads blocks in any order.

## 3 Runs

| run | instance | properties | what it shows |
|---|---|---|---|
| `workers` | 1 job, 2 workers, 1 attempt, 1 message besides restored ones, 1 manual retry; cancel, retry, restored messages | `TypeOK`, `OneOwner`, `WaitingHasAttemptLeft`, `CancelledOnlyOnRequest`, `OutcomeIsFinal`, `LeaseIsRespected`, `SupersededIsInert`, `CancelIsHeeded` | a message given to a second worker while the first goes on is harmless; a stale cancellation of an earlier attempt cannot cancel a retried job; late writes do not touch an outcome; an accepted cancellation stays on the row and is the outcome unless the owner had come to another |
| `jobs` | 2 jobs, 1 worker, LIMIT 1; expiry, aborted sweeps, contended locks; either job may be answered from the cache | `ImplementsContract`, `ResultIsComplete` | the refinement, with a sweep over several rows and a third query that does not see all of them; a copied result is complete, too |
| `expiry` | 1 job, 1 worker, 2 attempts; crashes, broker and Postgres away, lost data, expiry, cancel | `EventuallyTerminal` | every job ends although the broker may be gone for good |
| `redelivery` | 1 job, 1 worker, 2 attempts, 2 artifacts; crashes, broker and Postgres away | `ResultIsComplete`, `AttemptsAreBounded`, `EventuallyTerminal`, `LostMessageIsReplaced` | every job ends *without* the 24-hour limit when the broker returns |
| `webhook` | 2 outcomes, 2 settlings, 1 retry, every failure, Postgres away and POSTs that break among them | `TypeOK`, `NewsIsTrue`, `SettledIsAnnounced` | nothing false is announced; an outcome is announced unless one of the listed excuses applies |
| `upload` | 3 requests, 12 kinds of upload, all failures | `SizesAreBounded`, `DocumentIsStored`, `SpoolIsRemoved`, `CacheIsSound`, `KindIsOfContent` | identical uploads side by side |
| `chunks` | every sequence of up to 5 of 10 block shapes (three headings, two titles); pages of up to 4 of 11 boxes (3 with a whole or an incomplete grid), or all but one; pages whose analysis raises; two-page documents of scans and unreadable pages; scans in an order of Tesseract's; mails of up to 3 of 7 attachments (limit 2); images of up to 4 frames (limit 3); layout documents of up to 5 pages in batches of 2; slides and bodies with up to 4 pictures (limit 2); workbooks around limits of 6 cells and 2 table rows | `NothingIsLost`, `SplitIsFaithful`, `ContentFits`, `OverlapStaysInSection`, `CountKeepsUp`, `TextIsKept`, `ReadingOrderIsKept`, `LoopTypeOK`, `AttachmentsAreAccountedFor`, `PicturesAreRead`, `ScannedPagesAreOcred`, `NothingIsCutSilently`, `PagesAreTraced` | from document to chunk nothing is lost or misplaced beyond the guard's tenth, nothing is left out without a word (with the exceptions of section 6), and a chunk's pages are those its text is on |
| `cancel`, `overwrite`, `early`, `flavour`, `ocroff` | the smallest instance that shows it | one each | a disagreement, see section 6 |

Why the bounds are enough to be interesting:

* Two workers, with the visibility timeout to give the message of one to the other, are
  the least at which a job is processed twice;
  a third execution meets the same row as the second one did. Two attempts (in `expiry`
  and `redelivery`) are the least at which an attempt is given back and the next one
  is the last; in `workers` the manual retry gives the second one.
* `MaxMessages` bounds copies of a message and dispatches waiting to be
  published; actions that would exceed it wait. `MaxManualRetries` bounds POST /retry.
  No other counter needs a bound: `claims` is bounded by `AttemptsAreBounded`.
* Two jobs with `SweepLimit` 1 is the least instance in which the third query
  leaves a row out.
* In `upload`, three requests allow a fresh job, a copy, and a third request
  between them (a retry, a crash or another flavour). `MaxUpload` 2 and `Envelope` 1
  have the body limit, the file limit and both limits exceeded.
* In `chunks`, a budget of 48 tokens and shapes of 4 to 110 tokens reach a full
  chunk, a chunk closed by a heading, carried headings, overlap refused and taken,
  blocks split by every rule including the hard split, and a row above the budget.
  Two of the three headings share a title and one does not, so an overlap can meet both; the headings
  of *pages* have one title, as their chunks are about page numbers.
  The boxes reach horizontal and vertical cuts, nested ones, titles over two
  columns, sidebars, unruled tables, lone bullets, wrapped headings and pages that
  the coverage guard sends back to plain text.
* The limits of the extraction loops are small, so that every one of them is reached,
  passed by one and passed by more: `MaxAttachments` 2 with three attachments,
  `MaxFrames` 3 with four frames, `BatchPages` 2 with five pages (a last batch of one),
  `MaxPictures` 2 with four pictures that repeat, `MaxCells` 6 with rows of 1 and 3 cells,
  `MaxTableRows` 1 with three rows. The attachments include a fence left open, one that
  closes it, a result without pages, and one with a warning and a scanned page.
* `CHECK_DEADLOCK FALSE` stands where the system stops: all requests answered, all
  messages consumed, the document chunked. JobLifecycle never stops (the sweeper
  runs on), so its runs check for deadlock.
* Symmetry over workers or requests is used in runs without liveness only.

## 4 Fairness

* `LiveSpec` (JobLifecycle): weak fairness for publishing hooks, the visibility timeout,
  clocks, receiving, and the sweeper, which Celery beat starts again and again.
  Strong fairness for claiming and for a worker's progress: it says only that Postgres is
  not away at *every* claim, that a worker waiting for a row lock gets it in the end,
  and that extraction ends (the task has a hard time limit). No fairness for clients,
  crashes, or the broker: `EventuallyTerminal` in run `expiry` holds with a
  broker that never answers, through the 24-hour limit.
* `BrokerLiveSpec` adds that the broker is up again and again: some publish gets
  through, some snapshot is complete. Used in `redelivery`, where nothing expires.
* Webhook: messages are taken (WF) and not every execution is killed (SF).

No fairness is assumed of crashes *not* happening: the number of attempts bounds them.

## 5 Proofs

The theorems hold for any sets of jobs, workers and requests, any number of
attempts, artifacts and sweep limit, and any `Environment`, under the assumptions
`MaxAttemptsAssumption`, `LifecycleAssumption`, `IngestAssumption`, `ChunkingAssumption`,
`PageLayoutAssumption`, `ExtractorsAssumption`, `SourcesAssumption` and `ExtractionAssumption`, which TLC
evaluates on every run. The last two say what a parser or a third-party library gives: sequences of pages,
each a sequence of parts that `parse_blocks` knows (`AreParts`), boxes with lines, grids that share no line.
No assumption relates a document to a limit or a setting.

**JobLifecycle_proofs** has four sections. *Rows*: every UPDATE maps rows to rows, and what it
leaves alone. *Types*: `TypeCorrect`. The inductive invariant is `TypeInv`, `TypeOK` with
`SlotsOK`: a slot that is not idle has a job, one that finishes has its verdict, an
idle one holds no message. Without it `job[exec[w].job]` might not be a row.

*What happens to rows*:

1. `LockedInv`: while the sweeper's transaction is open, the rows it read and
   locked are still the committed ones, as nobody else may UPDATE them, and each
   is stale or expired. This is what makes writing verdicts from an earlier read safe, and fails
   without FOR UPDATE.
2. `RowMoves` and `RowEffects`: a step of the four parties changes a row in one of
   eight ways: not at all but for time, created, created as a copy, asked to cancel, ended by its
   owner, swept, retried by hand, claimed. Nothing after them looks at an
   action again as far as rows are concerned.
3. From there: `AttemptsInv` (a waiting row has an attempt left) gives `AttemptLeft`;
   `ClaimsInv`, claims <= MaxAttempts * retries + attempts, gives
   `AttemptsBounded`; `OutcomesAreFinal`, `CancelsAreHeeded` and `LeasesAreRespected` are read
   off the effects; `ContractStep` maps each effect to a step of JobContract or a stutter,
   which gives `KeepsContract`, the refinement.

*What happens to executions*:

1. `SlotMoves` and `ArtifactMoves` sum up the steps for slots and artifacts
   in the same way.
2. `TokenInv` (a running execution's token was drawn, that is, at most `claims`), `DistinctInv` (no
   two running executions of one job share one) and `BlankInv` (a message just received has no
   flags) give `AtMostOneOwner`.
3. `StopInv`: a raised stop flag of an execution that *still owns* its row means the row
   has a request to cancel. A manual retry clears the request but the
   row's owner changes with the next claim, so the stale flag is harmless:
   `CancelledIsRequested`.
4. `StoredInv`: what an execution counts as stored exists, whoever overwrote it
   since: `ResultsAreComplete`. A copy has its result from a job that succeeded, and a success is never
   claimed again, so its keys stay written.
5. `SupersededAreInert` from the fences.

**Ingest_proofs**: `TypeCorrect`, `SizesBounded`, `DocumentsAreStored`, `SpoolsAreRemoved`, `CacheSound` and
`KindsFollowContent`. The inductive invariant is `TypeOK`, `StageInv` (what each
stage has established: accepted format, size, spool, stored key),
`AcceptedInv` (a job exists only for an accepted request) and `CacheInv` (results are of jobs
that extracted them, and a success is never retried). `CanonicalAgrees` is about
detection itself: the extension in a document's key is one of its kind and is detected as that kind again.

**Webhook_proofs**: `TypeCorrect` and `NewsCorrect`. An outcome is announced by way of two
earlier states, the commit and the read, and `IInv` ties them together: an open
transaction still has a number free and writes an outcome (`SettlingIsSound`); a settled
row shows the last outcome committed (`RowIsLastOutcome`), which makes what `Read` takes from
it true; what a worker is about to post is true and stays true as outcomes are only
appended (`SawIsTrue`). Without the last, `Accepted` could not be shown to preserve
`NewsIsTrue`.

**Extractors_proofs**: `LoopTypeCorrect` and `ScannedPagesOcred`, for every document that
`SourcesAssumption` admits and every limit. The lemmas on sequences say what `Append`, `\o` and
EXCEPT do to a sequence of pages numbered through. `Inv` adds to `LoopTypeOK` that a running loop
outside of mails has one page per item it opened, that a mail has a first page before any
attachment, and that only an open slide has pictures left: without it a page could take the
number of another. `ScannedPagesOcred` rests on `BatchIsOcred`: a batch with a scanned page is converted
as if full-page OCR were on for each of them.

`AttachmentsAccountedFor` and `PicturesRead`: for a mail, `MailInv`
adds that the first page is the message itself, and `OneMoreAttachment` says what one more turn of
the loop must do to the list, the warnings and the pages, whichever way it goes; each
action is then shown to do that. For pictures, `PicInv` has three parts: recognitions are counted by
the cache (`RecognisedOnce`, by `FS_AddElement`), only what OCR read is shown (`OnlyWhatOcrRead`), and
a picture shown before is shown again unless it is still waiting on the open slide
(`ShownAgain`), which is what the property lacks to be inductive.

`NothingCutSilently`: `CutInv` says it of the items opened so far, while the loop still runs. For
a workbook it needs two facts that reach past the open sheet: the count of cells passes its
limit only in a sheet that is cut (`CountWithinLimit`), so the sheet after which the loop ends
has its warning; and a sheet that is not cut has each of its rows among `Filled` (`RowsInTable`).
For a mail, each warning of an attachment is among the mail's own (`AttachmentsAreTold`).

**SeqFolds_proofs**: what the loops over sequences compute. The library's induction theorems take
an operator as a parameter, so induction is done over *sets*: `LeastNumber` (a nonempty set of
numbers has a least one, from the well-founded order of finite sets) gives
`Induction` and `SeqInduction` for any set T of numbers or sequences, and `Recursion` shows that a loop of
n turns over a set of values has a run. From there `Total` adds up over `Append` and `\o`,
`Picked` returns elements at increasing positions and all of those asked for
(`PickedPositions`), and `FlattenSeq` distributes over `Append` and `\o`.

**Chunking_proofs**: all five properties of the chunker, for every document (any number of
blocks, any sizes), every chunk size and every overlap, as theorems of `ChunkingSpec`. `MovesIs` and `Emits` say
what one block does to the packer: the chunks so far stay, at most one is added, and its
blocks and what is left of `current` are the old `current`. `ChunkingInv` has these parts:

* `HeldBlocks` (chunks, `current` and `pending` are, part by part, the document, `Covers`), which gives `LosesNothing`;
  the property alone says nothing of a step that moves parts between `current` and a chunk;
* what `current_tokens` counts, separators included, against the tokens of `current` *with* its headings
  (`CountsTokens`), from which `FitsBudget` follows: what is flushed was counted below
  the budget, or is one block that did not fit on its own;
* the stack of headings: levels increase and positions do, and blocks
  in document order carry stacks whose first heading changes only forward (`Sections`, `Rank`). `OverlapsInSection` needs it: the
  code compares the *titles* of the headings that two chunks *open* under, and what it repeats may reach back over
  headings and into the overlap before. The theorem says that all of it is of the section the chunk opens in, unless
  another heading has that section's title: equal titles then are equal headings, and no other top-level section
  lies between;
* what is waiting in `pending` is a suffix of one block's parts, and the whole of
  it when its first part is there (`Waiting`, `Whole`): `SplitsFaithfully`, by induction over the units that `Fill` packs.

**PageLayout_proofs**: what `XYCut` and the reading of a page compute, for every set of boxes.

* The cut is recursive in the *set* of boxes. `RankedRecursion` shows, once, that a recursive function has
  its values if each call is made on something of a smaller rank: the size of the set for the cut, the blocks still ahead for the
  loop that gathers runs of rows.
* `UpperBlocksFirst`: the order has each box, none twice, and of two boxes that share
  a column the one that starts higher first. Induction over the set: a horizontal cut puts the upper side
  first, a vertical one never separates two boxes that overlap in x, and what is not cut is sorted by corner.
* From boxes to lines: a line is added to a part (`AddLine`), and parts are closed, merged and
  listed. `FinalParts`, `Lists` and `Spells` say of each of these steps that the parts read exactly the lines so
  far, in the same order; wrapped headings, lists, runs of rows, lone bullets and OCR output keep that.
* From an order of boxes to an order of words: `KeepsOrder` carries any relation on lines through the same
  steps. The text layer gets its relation from `UpperBlocksFirst`, tables in place of the lines they cover.
* A scan has no XY-cut: its lines are gathered into visual lines, each open to
  a box that is near the *mean* of the centres it has. `Sided` is the invariant: at the last line `t` of a row,
  each visual line is wholly above or wholly below the row's end. The mean of a visual line that ends at `t` is at
  most the centre of `t` (`TotalAtMost`), and that is too far from a box half a line below (`NearIs`).

**Extraction_proofs** puts them together, for every document and any settings.

1. `TextKept`: `PdfPages` says that a page in the result is `PageResult` of its item. What is
   read from the text layer reads lines of it, none twice; the coverage guard then gives nine of ten
   words, or the plain text, which reads them all.
2. `LoopsKeepPromises`: the invariants of Extractors are kept by the loop of `extract_pdf` too, for
   which pages must be *sequences of well-formed parts*: with what `PageLayout_proofs` shows, they are.
3. `TracesPages`. A chunk's pages pass three hands, and `ExtractionInv` says of each what it holds.
   *Joining*: `OnPages` gives each part of the whole Markdown its page and its place on it, through offsets at which pages
   begin. *Reading*: what is left to read is a suffix of that (`Left`), and `Due` says what the page number
   is worth at this point: no page still to be read is before it; and if every page closes its fences, the reader is
   outside of code, that is, either at a marker, or on the page it thinks it is on, after an even number of
   fences (`EvenUpTo`). That parity is what the property lacks to be inductive: a block of code runs to the *next* fence, and
   only parity puts that one on the same page (`CodeRead`).
   *Packing*: `Traced` of pending parts, `current` and chunks, which every move of the packer keeps, headings carried
   over and overlaps included (`MovesTrace`).
4. `UpperBoxesFirst`: the same invariant as `TextKept`, `PdfPages`, with the order of `PageLayout_proofs` for each of
   the ways a page is read: text layer, OCR, plain text of the guard. It is for pages
   whose tables cut no box sideways (`Straight`) and scans whose lines stand in rows (`Level`). Neither can be
   left out: TLC finds boxes that do not overlap, with a table across one of them, and five slanted lines of
   a scan, that the code reads out of order. Excepted are also scans in an order of
   Tesseract's, which the code does not touch. All pages of the instance but these satisfy both (`SourcesAreOrdered`).
5. `ChunksKeepPromises`: the five properties of the chunker for what this reader feeds it, because
   every step of `ExtractionNext` is a read of a well-formed block (`ShapesOfParts`), a pack, a finish or a
   stutter of Chunking.

Model-checked only:

* liveness (`EventuallyTerminal`, `LostMessageIsReplaced`, `SettledIsAnnounced`), which needs fairness and ENABLED.

The five disagreements are counterexamples of TLC.

## 6 Disagreements found

| run | what the repository says | what happens |
|---|---|---|
| `cancel` | a cancelled job is not re-queued where "no worker would ever claim" it (`jobs.py:148`) | a cancellation accepted between the last beat and a temporary failure leaves a RETRYING row with `cancel_requested`: no claim takes it, the sweeper dispatches it again and again, and it ends as EXPIRED after 24 hours (`tasks.py:321`) |
| `overwrite` | an execution that lost its job stops "without writing results" (`tasks.py:34`) | it stores the artifact it is at; the object of one attempt belongs to another (`tasks.py:174`) |
| `early` | "URL to POST the job to when it finishes" (`api/main.py:172`) | the message is consumed before a slow commit, the unfinished job is posted, and the outcome never (`jobs.py:248`) |
| `flavour` | "Plain text files keep their declared flavour" (`formats.py:146`) | the same bytes uploaded as `.txt` and then `.csv` get the text result from the cache (`api/main.py:230`) |
| `ocroff` | "off: never OCR" (`api/main.py:162`) | with `pipeline=layout` scanned pages are read by OCR all the same (`layout_pipeline.py:116`) |

Others are described here without a run of their own:

* `pdf.py:125` says that layout analysis must never silently drop text, but the guard
  compares with 0.9, so up to a tenth of a page's words can go unnoticed. `TextIsKept`
  states the bound the code keeps; the instance contains pages that lose a line this way.
* `chunking.py:231` joins prose "inside the same top-level section", but compares titles (`chunking.py:233`): under two
  headings of the same title the end of one section is repeated in the next. `OverlapStaysInSection` excepts such titles,
  and the instance contains them.
* An outcome is never announced, as nothing sends again, when Postgres is away as `send_webhook` reads the row, when
  the POST raises anything but an `httpx.HTTPError` (as for a malformed URL), or when its retry cannot be published
  (`tasks.py:343`). `SettledIsAnnounced` lists these.
* "webhook POSTed when the job finishes" (`README.md:63`) is not so of an upload answered from the cache: it finishes at once,
  its outcome is in the answer, and its `callback_url` is recorded and never called (`api/main.py:229`).
* A commit whose answer is lost gives the client a 503 for a job that is then processed (`api/main.py:254`).
* `storage.py:64` speaks of bytes stored once; they are stored once per extension.
* `layout_pipeline.py:115` says that digital pages have OCR for their bitmaps only; in a
  batch with a scanned page they are read with full-page OCR like the scanned one.
* With `pipeline=layout` an image is one page (`layout_pipeline.py:107`): the further frames of a TIFF are
  left out without a word, while the other pipeline reads them all. `NothingIsCutSilently` leaves the layout pipeline out.
* Pictures beyond the fiftieth recognised are left out silently (`office.py:74`); on slides so
  are pictures whose recognition raises ValueError (`office.py:272`), which in a docx ends the extraction. Neither
  counts towards the limit nor is remembered, so a slide's picture is tried again wherever it recurs.
* An attachment that raises anything but an `ExtractionError` fails the whole mail (`mail.py:98`).
* A code fence that a page leaves open swallows the page markers after it
  (`chunking.py:131`), so chunks may claim too few pages. `PagesAreTraced` states exactly this exception.
* `pdf_markdown.py:64` takes words out of the text for a table by their centres, and `layout.py:20` joins a box to a visual
  line by the mean height of the line so far. So a table that cuts a box sideways, or slanted OCR lines,
  can be read out of order; `ReadingOrderIsKept` excepts pages with these.

## 7 Not modelled

* OCR engines, layout models, font profiles, enrichment (`enrich.py`): numerical code and
  regular expressions around third-party models. What they make of a page is chosen with the document.
* The parsers of `text.py`: their blocks are `ReadAny`, their exceptions are `Raise` of JobLifecycle.
* How shapes, paragraphs and headers of Office documents are rendered, and metadata.
* Reading results: read-only, on top of `ResultIsComplete`. The JSON Lines transfer of chunks
  is a matter of characters (see the hazards), of which the model has none.
* A line of a document that is itself written like a page marker, which the chunker would
  take for one (`chunking.py:115`): the parts of a page are headings, tables, lists, paragraphs and fences (`IsPart`).
* Statistics, health, listings, UI, configuration, schema creation, benchmarks and
  scripts: no state of their own, or constants of the modules.
* Order of the webhooks of one job: no document promises anything (see the hazards).
* Callbacks of cache hits: there is no message to model (see section 6).
* Starvation by the LIMIT of the third query: it has no ORDER BY, so progress of
  a particular row among more than 500 depends on the database's choice. Only safety is
  checked with a limit below the number of jobs.

## 8 Plan

Done, in this order (the most important behaviour first): JobRow, JobContract, JobLifecycle with its
runs and proofs; Webhook; Formats and Ingest with proofs; Chunking, PageLayout,
Extraction; Extractors with proofs, page provenance through the chunker; proofs about Webhook;
induction over sequences, and with it the proofs about Chunking; recursion over sets, and with it those about
PageLayout; the composition in Extraction, down to the pages of a chunk; reading order from the
cut to the finished Markdown.

Next, extending the model:

1. A reader interleaved with retries and overwrites of artifacts.
2. Bucket retention against the result cache: a cached result whose objects are gone.
3. Starvation by the third query's LIMIT, with the fairness it would need.

Next, proving: what these would add. Of what the runs check today only liveness has no theorem.

## 9 How to run it

From this directory, with the configurations named in `PROJECT.json`:

```
tlc -workers 2 -config MCJobLifecycle_workers.cfg MCJobLifecycle
tlapm JobLifecycle_proofs.tla
```

The largest runs have up to about 1.4 million distinct
states and take one to two minutes. Every property of a passing run has a mutant in
`PROJECT.json`: a definition changed the way a plausible bug would change it, with which
the same run reports the property violated.
