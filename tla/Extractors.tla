----------------------------- MODULE Extractors -----------------------------
(***************************************************************************)
(* extract_document for the documents that are read item by item: the       *)
(* attachments of a mail, the frames of an image, the batches of pages of    *)
(* the layout pipeline, the slides and pictures of an Office document, the   *)
(* sheets of a workbook.  Each loop appends pages to one result, may be      *)
(* stopped where it calls check_cancelled or something raises, and leaves    *)
(* things out at limits of its own.                                         *)
(*                                                                         *)
(* A document is [kind, layout, items].  layout: pipeline=layout applies.   *)
(* Items of a mail are [size, format, pages, said], with the pages and the   *)
(* warnings of the result for the attachment, of an image the parts that OCR *)
(* makes of a frame (with gif for the whole), of a PDF in the layout         *)
(* pipeline [scanned, parts], of a pptx or docx the keys of the pictures of  *)
(* a slide or of the body (with looks, what each picture turns out to be),   *)
(* of an xlsx the rows [cells, blank] of a sheet.                           *)
(***************************************************************************)
EXTENDS Integers, Sequences, FiniteSets, SeqFolds

CONSTANTS
  Sources,         \* documents an instance reads
  MaxAttachments,  \* attachments of a mail that are looked at
  MaxFrames,       \* frames an image may have
  BatchPages,      \* pages the layout models convert at a time
  MaxPictures,     \* MAX_EMBEDDED_IMAGES
  MaxCells,        \* MAX_XLSX_CELLS
  MaxTableRows     \* rows of a Markdown table, its header aside

Modes == {"auto", "force", "off"}

ASSUME ExtractorsAssumption ==
  /\ {MaxAttachments, MaxPictures, MaxCells, MaxTableRows} \subseteq Nat
  /\ {MaxFrames, BatchPages} \subseteq Nat \ {0}

\* Parts of the Markdown of a page, as parse_blocks tells them apart; no text
\* of a document reads like a page marker.
IsPart(p) == /\ p.kind \in {"heading", "table", "paragraph", "list", "fence"}
             /\ IsSeq(p.ids)
             /\ p.kind = "heading" => p.level \in 1 .. 6

AreParts(parts) == IsSeq(parts) /\ \A k \in DOMAIN parts : IsPart(parts[k])

ASSUME SourcesAssumption == \A s \in Sources :
  /\ s.layout \in BOOLEAN /\ (s.layout => s.kind \in {"pdf", "image"})
  /\ IsSeq(s.items)
  /\ s.kind = "image" => s.items # <<>> /\ \A i \in DOMAIN s.items : AreParts(s.items[i])
  /\ s.kind = "pdf" /\ s.layout => \A i \in DOMAIN s.items : AreParts(s.items[i].parts)
  /\ s.kind = "mail" => \A i \in DOMAIN s.items : LET a == s.items[i] IN
       IsSeq(a.said) /\ IsSeq(a.pages) /\ \A k \in DOMAIN a.pages : AreParts(a.pages[k].parts)
  /\ s.kind \in {"pptx", "docx"} => /\ IsFiniteSet(DOMAIN s.looks)
                                    /\ \A i \in DOMAIN s.items : s.items[i] \in Seq(DOMAIN s.looks)
  /\ s.kind = "xlsx" => \A i \in DOMAIN s.items : s.items[i] \in Seq([cells : Nat, blank : BOOLEAN])

VARIABLES
  source,     \* the document
  ocr_mode,   \* ctx.ocr_mode
  turn,       \* items the loop has opened
  todo,       \* pictures of the open slide still to be rendered
  output,     \* pages of the result
  warnings,   \* what the result says is missing, and of which item
  listing,    \* info of the attachments so far
  cache,      \* EmbeddedImageOcr.cache: what is known of each picture
  processed,  \* EmbeddedImageOcr.processed
  cells_seen, \* cells of the sheets so far
  outcome     \* running, done, or stopped by an exception

loopvars == <<source, ocr_mode, turn, todo, output, warnings, listing, cache, processed,
              cells_seen, outcome>>

Items == source.items

Section(level) == [kind |-> "heading", level |-> level, ids |-> <<"title">>]

Body(kind, ids) == [kind |-> kind, level |-> 0, ids |-> ids]

\* from and nth: the item a page comes from, and which of its pages it is.
PageOf(number, from, nth, method, parts) ==
  [number |-> number, from |-> from, nth |-> nth, method |-> method, parts |-> parts]

Warn(at, what) == warnings' = Append(warnings, [at |-> at, what |-> what])

WarnAll(at, said) == warnings' = warnings \o [i \in DOMAIN said |-> [at |-> at, what |-> said[i]]]

Running(kinds) == outcome = "running" /\ source.kind \in kinds /\ ~source.layout

Looks == IF source.kind \in {"pptx", "docx"} THEN source.looks ELSE <<>>

ExtractorsInit ==
  /\ source \in Sources
  /\ ocr_mode \in Modes
  /\ turn = 0
  /\ todo = <<>>
  /\ output = <<>>
  /\ warnings = <<>>
  /\ listing = <<>>
  /\ cache = [k \in DOMAIN Looks |-> "unknown"]
  /\ processed = 0
  /\ cells_seen = 0
  /\ outcome = "running"

(***************************************************************************)
(* Mail                                                                    *)
(***************************************************************************)
\* Subject, headers and body are the first page.
ReadMessage ==
  /\ Running({"mail"})
  /\ output = <<>>
  /\ output' = <<PageOf(1, 0, 1, "parser",
                   <<Section(1), Body("table", <<"field", "from", "to">>), Body("paragraph", <<"body">>)>>)>>
  /\ UNCHANGED <<source, ocr_mode, turn, todo, warnings, listing, cache, processed, cells_seen, outcome>>

AtAttachment == Running({"mail"}) /\ output # <<>> /\ turn < Len(Items)

\* Neither one too many, nor empty, nor above the upload limit.
Acceptable(a) == turn < MaxAttachments /\ a.size = "fits"

\* Mutant: a skipped attachment is not put on the list.
SkipAttachmentUnlisted ==
  /\ AtAttachment
  /\ ~Acceptable(Items[turn + 1]) \/ Items[turn + 1].format \in {"eml", "unsupported"}
  /\ turn' = turn + 1
  /\ UNCHANGED <<source, ocr_mode, todo, output, warnings, listing, cache, processed, cells_seen, outcome>>

SkipAttachment ==
  /\ AtAttachment
  /\ ~Acceptable(Items[turn + 1]) \/ Items[turn + 1].format \in {"eml", "unsupported"}
  /\ listing' = Append(listing, "skipped")
  /\ turn' = turn + 1
  /\ UNCHANGED <<source, ocr_mode, todo, output, warnings, cache, processed, cells_seen, outcome>>

\* Its extractor raises an ExtractionError: the mail goes on without it.
AttachmentFails ==
  /\ AtAttachment
  /\ Acceptable(Items[turn + 1])
  /\ Items[turn + 1].format = "document"
  /\ listing' = Append(listing, "failed")
  /\ Warn(turn + 1, "attachment_failed")
  /\ turn' = turn + 1
  /\ UNCHANGED <<source, ocr_mode, todo, output, cache, processed, cells_seen, outcome>>

\* The pages of an attachment under a heading of its own.
Titled(nth, parts) == IF nth = 1 THEN <<Section(2)>> \o parts ELSE parts

\* Mutant: pages keep the numbers they have in the attachment.
AttachedOwnNumbers(pages) ==
  [k \in DOMAIN pages |-> PageOf(k, turn + 1, k, pages[k].method, Titled(k, pages[k].parts))]

Attached(pages) ==
  [k \in DOMAIN pages |->
     PageOf(Len(output) + k, turn + 1, k, pages[k].method, Titled(k, pages[k].parts))]

\* Its warnings become warnings of the mail.
ExtractAttachment ==
  /\ AtAttachment
  /\ Acceptable(Items[turn + 1])
  /\ Items[turn + 1].format = "document"
  /\ listing' = Append(listing, "processed")
  /\ output' = output \o Attached(Items[turn + 1].pages)
  /\ WarnAll(turn + 1, Items[turn + 1].said)
  /\ turn' = turn + 1
  /\ UNCHANGED <<source, ocr_mode, todo, cache, processed, cells_seen, outcome>>

\* The list of the attachments goes to the end of the first page.
FinishMail ==
  /\ Running({"mail"})
  /\ output # <<>>
  /\ turn = Len(Items)
  /\ output' = IF listing = <<>> THEN output
               ELSE [output EXCEPT ![1].parts = @ \o <<Section(2), Body("list", listing)>>]
  /\ outcome' = "done"
  /\ UNCHANGED <<source, ocr_mode, turn, todo, warnings, listing, cache, processed, cells_seen>>

(***************************************************************************)
(* Images                                                                  *)
(***************************************************************************)
Animated == source.gif /\ Len(Items) > 1

\* The first frame of a GIF, all frames of anything else.
Frames == IF Animated THEN 1 ELSE Len(Items)

ImageUnread ==
  /\ Running({"image"})
  /\ ocr_mode = "off"
  /\ output' = <<PageOf(1, 1, 1, "none", <<>>)>>
  /\ Warn(0, "ocr_disabled")
  /\ outcome' = "done"
  /\ UNCHANGED <<source, ocr_mode, turn, todo, listing, cache, processed, cells_seen>>

\* LimitExceededError, for a GIF as well.
TooManyFrames ==
  /\ Running({"image"})
  /\ ocr_mode # "off"
  /\ Len(Items) > MaxFrames
  /\ outcome' = "stopped"
  /\ UNCHANGED <<source, ocr_mode, turn, todo, output, warnings, listing, cache, processed, cells_seen>>

ReadFrame ==
  /\ Running({"image"})
  /\ ocr_mode # "off"
  /\ Len(Items) <= MaxFrames
  /\ turn < Frames
  /\ output' = Append(output, PageOf(turn + 1, turn + 1, 1, "ocr", Items[turn + 1]))
  /\ turn' = turn + 1
  /\ UNCHANGED <<source, ocr_mode, todo, warnings, listing, cache, processed, cells_seen, outcome>>

FinishImage ==
  /\ Running({"image"})
  /\ ocr_mode # "off"
  /\ turn = Frames
  /\ Len(Items) <= MaxFrames
  /\ IF Animated THEN Warn(0, "first_frame_only") ELSE UNCHANGED warnings
  /\ outcome' = "done"
  /\ UNCHANGED <<source, ocr_mode, turn, todo, output, listing, cache, processed, cells_seen>>

(***************************************************************************)
(* The layout pipeline.  It never looks at ocr_mode, and takes an image for *)
(* one page.                                                               *)
(***************************************************************************)
InLayout == outcome = "running" /\ source.layout

LayoutPages == IF source.kind = "image" THEN 1 ELSE Len(Items)

Scanned(i) == source.kind = "image" \/ Items[i].scanned

\* Mutant: the slice starts one page late.
NeedsFullPageOcrLate(start, end) == \E i \in start + 1 .. end : Scanned(i)

NeedsFullPageOcr(start, end) == \E i \in start .. end : Scanned(i)

BatchEnd == IF turn + BatchPages < LayoutPages THEN turn + BatchPages ELSE LayoutPages

\* What the models make of a page: a scanned one is blank without full-page OCR.
Converted(i, full) ==
  IF Scanned(i) /\ ~full THEN <<>> ELSE IF source.kind = "image" THEN Items[1] ELSE Items[i].parts

Exported(i, full) ==
  PageOf(i, i, 1, IF Scanned(i) THEN "layout_ocr" ELSE "layout", Converted(i, full))

ConvertBatch ==
  /\ InLayout
  /\ turn < LayoutPages
  /\ LET full == NeedsFullPageOcr(turn + 1, BatchEnd) IN
       output' = output \o [k \in 1 .. BatchEnd - turn |-> Exported(turn + k, full)]
  /\ \/ UNCHANGED warnings
     \/ Warn(turn + 1, "partially_converted")
  /\ turn' = BatchEnd
  /\ UNCHANGED <<source, ocr_mode, todo, listing, cache, processed, cells_seen, outcome>>

FinishLayout ==
  /\ InLayout
  /\ turn = LayoutPages
  /\ LayoutPages > 0
  /\ outcome' = "done"
  /\ UNCHANGED <<source, ocr_mode, turn, todo, output, warnings, listing, cache, processed, cells_seen>>

(***************************************************************************)
(* Office documents                                                        *)
(***************************************************************************)
\* A slide is a page under a heading; the body of a docx is the only page.
OpenSlide ==
  /\ Running({"pptx", "docx"})
  /\ todo = <<>>
  /\ turn < Len(Items)
  /\ output' = Append(output, PageOf(turn + 1, turn + 1, 1, "parser",
                                IF source.kind = "pptx" THEN <<Section(2)>> ELSE <<>>))
  /\ todo' = Items[turn + 1]
  /\ turn' = turn + 1
  /\ UNCHANGED <<source, ocr_mode, warnings, listing, cache, processed, cells_seen, outcome>>

AtPicture == Running({"pptx", "docx"}) /\ todo # <<>>

\* EmbeddedImageOcr gets as far as the OCR engine with this picture.
Recognises(key) ==
  /\ ocr_mode # "off"
  /\ cache[key] = "unknown"
  /\ processed < MaxPictures
  /\ source.looks[key] \in {"text", "blank"}

\* What the cache says of it afterwards.
Learned(key) ==
  IF ocr_mode = "off" \/ cache[key] # "unknown" \/ processed >= MaxPictures THEN cache[key]
  ELSE IF source.looks[key] = "text" THEN "text" ELSE "nothing"

Shown(parts, key) == IF Learned(key) = "text" THEN Append(parts, Body("paragraph", <<key>>)) ELSE parts

\* Mutant: the result of the OCR is not cached.
ReadPictureUncached ==
  LET key == Head(todo) IN
  /\ AtPicture
  /\ processed' = IF Recognises(key) THEN processed + 1 ELSE processed
  /\ output' = [output EXCEPT ![Len(output)].parts = Shown(@, key)]
  /\ todo' = Tail(todo)
  /\ UNCHANGED <<source, ocr_mode, turn, warnings, listing, cache, cells_seen, outcome>>

ReadPicture ==
  LET key == Head(todo) IN
  /\ AtPicture
  /\ cache' = [cache EXCEPT ![key] = Learned(key)]
  /\ processed' = IF Recognises(key) THEN processed + 1 ELSE processed
  /\ output' = [output EXCEPT ![Len(output)].parts = Shown(@, key)]
  /\ todo' = Tail(todo)
  /\ UNCHANGED <<source, ocr_mode, turn, warnings, listing, cells_seen, outcome>>

\* On a slide a ValueError of the OCR engine costs no more than the text of
\* this paste: the failure is neither counted nor cached, so the picture is
\* tried again wherever it comes next.  In a docx it ends the extraction.
PictureFails ==
  /\ AtPicture
  /\ source.kind = "pptx"
  /\ Recognises(Head(todo))
  /\ todo' = Tail(todo)
  /\ UNCHANGED <<source, ocr_mode, turn, output, warnings, listing, cache, processed, cells_seen, outcome>>

FinishOffice ==
  /\ Running({"pptx", "docx"})
  /\ todo = <<>>
  /\ turn = Len(Items)
  /\ output' = IF output = <<>> THEN <<PageOf(1, 1, 1, "parser", <<>>)>> ELSE output
  /\ outcome' = "done"
  /\ UNCHANGED <<source, ocr_mode, turn, todo, warnings, listing, cache, processed, cells_seen>>

(***************************************************************************)
(* Workbooks                                                               *)
(***************************************************************************)
\* Cells of the first k rows of a sheet.
CellsUpTo(sheet, k) == Total([i \in 1 .. k |-> sheet[i].cells])

\* Rows before the one that passes the limit.
Within(sheet) == {k \in DOMAIN sheet : cells_seen + CellsUpTo(sheet, k) <= MaxCells}

Filled(sheet) == Picked([k \in DOMAIN sheet |-> k], {k \in Within(sheet) : ~sheet[k].blank})

\* The rows of the Markdown table: its header and MaxTableRows more.
TableRows(rows) == IF Len(rows) > MaxTableRows + 1 THEN SubSeq(rows, 1, MaxTableRows + 1) ELSE rows

Cut(sheet) == Within(sheet) # DOMAIN sheet

\* Mutant: the Markdown table loses its last rows without a word.
NoticesCut(sheet) == IF Cut(sheet) THEN <<"truncated">> ELSE <<>>

Notices(sheet) ==
  (IF Cut(sheet) THEN <<"truncated">> ELSE <<>>)
    \o (IF Len(Filled(sheet)) > MaxTableRows + 1 THEN <<"long_table">> ELSE <<>>)

\* The row that passes the limit counts, those after it are not read.
CountedRows(sheet) == IF Cut(sheet) THEN Cardinality(Within(sheet)) + 1 ELSE Len(sheet)

ReadSheet ==
  LET sheet == Items[turn + 1]
      rows  == TableRows(Filled(sheet))
      said  == Notices(sheet) IN
  /\ Running({"xlsx"})
  /\ turn < Len(Items)
  /\ cells_seen <= MaxCells
  /\ output' = Append(output, PageOf(turn + 1, turn + 1, 1, "parser",
                 <<Section(2), IF rows = <<>> THEN Body("paragraph", <<"empty_sheet">>) ELSE Body("table", rows)>>))
  /\ WarnAll(turn + 1, said)
  /\ cells_seen' = cells_seen + CellsUpTo(sheet, CountedRows(sheet))
  /\ turn' = turn + 1
  /\ UNCHANGED <<source, ocr_mode, todo, listing, cache, processed, outcome>>

FinishWorkbook ==
  /\ Running({"xlsx"})
  /\ turn = Len(Items) \/ cells_seen > MaxCells
  /\ outcome' = "done"
  /\ UNCHANGED <<source, ocr_mode, turn, todo, output, warnings, listing, cache, processed, cells_seen>>

(***************************************************************************)
(* The loops                                                               *)
(***************************************************************************)
\* Before the first page, before an item of any loop (that over the pages of a
\* PDF is in Extraction), and before a picture is recognised: the document is
\* damaged or too large, the job was cancelled or taken away, time is up, or
\* something unexpected is raised (inside an attachment, too).
MayStop ==
  \/ Running({"mail", "pdf", "pptx", "docx", "xlsx"}) /\ output = <<>>
  \/ AtAttachment /\ Acceptable(Items[turn + 1])
  \/ Running({"image"}) /\ ocr_mode # "off" /\ turn < Frames
  \/ Running({"pdf"}) /\ turn < Len(Items)
  \/ InLayout /\ (turn < LayoutPages \/ LayoutPages = 0)
  \/ Running({"pptx", "docx"}) /\ todo = <<>> /\ turn < Len(Items)
  \/ AtPicture /\ Recognises(Head(todo))
  \/ Running({"xlsx"}) /\ turn < Len(Items) /\ cells_seen <= MaxCells

Stop ==
  /\ MayStop
  /\ outcome' = "stopped"
  /\ UNCHANGED <<source, ocr_mode, turn, todo, output, warnings, listing, cache, processed, cells_seen>>

MailNext   == ReadMessage \/ SkipAttachment \/ AttachmentFails \/ ExtractAttachment \/ FinishMail
ImageNext  == ImageUnread \/ TooManyFrames \/ ReadFrame \/ FinishImage
LayoutNext == ConvertBatch \/ FinishLayout
OfficeNext == OpenSlide \/ ReadPicture \/ PictureFails \/ FinishOffice
SheetNext  == ReadSheet \/ FinishWorkbook

LoopNext == MailNext \/ ImageNext \/ LayoutNext \/ OfficeNext \/ SheetNext \/ Stop

ExtractorsSpec == ExtractorsInit /\ [][LoopNext]_loopvars

(***************************************************************************)
(* Properties                                                              *)
(***************************************************************************)
\* Types, and that every loop numbers its pages 1, 2, 3 and on, whatever it
\* skips: the markers in the Markdown and the reader's page numbers rest on it.
LoopTypeOK ==
  /\ ocr_mode \in Modes
  /\ turn \in 0 .. Len(Items)
  /\ todo \in Seq(DOMAIN Looks)
  /\ IsSeq(output) /\ \A i \in DOMAIN output : output[i].number = i /\ AreParts(output[i].parts)
  /\ IsSeq(warnings)
  /\ listing \in Seq({"skipped", "failed", "processed"})
  /\ cache \in [DOMAIN Looks -> {"unknown", "text", "nothing"}]
  /\ processed \in 0 .. MaxPictures
  /\ outcome \in {"running", "done", "stopped"}

\* Every attachment looked at so far is on the list, a failed one with a
\* warning; what is listed as processed has all its pages in the result,
\* after the mail and in the order of the attachments, and nothing else has;
\* in the end the reader finds the whole list on the first page.
AttachmentsAreAccountedFor ==
  source.kind = "mail" =>
    /\ Len(listing) = turn
    /\ \A t \in DOMAIN listing :
         /\ listing[t] = "failed" => \E w \in DOMAIN warnings : warnings[w].at = t
         /\ listing[t] = "processed" => \A k \in DOMAIN Items[t].pages :
              \E i \in DOMAIN output : output[i].from = t /\ output[i].nth = k
    /\ \A i \in DOMAIN output : i > 1 =>
         /\ output[i].from \in DOMAIN listing /\ listing[output[i].from] = "processed"
         /\ \/ output[i - 1].from < output[i].from
            \/ output[i - 1].from = output[i].from /\ output[i - 1].nth + 1 = output[i].nth
    /\ outcome = "done" /\ Items # <<>> =>
         /\ turn = Len(Items)
         /\ output[1].parts[Len(output[1].parts)] = Body("list", listing)

ShownOn(i, key) == \E n \in DOMAIN output[i].parts : output[i].parts[n] = Body("paragraph", <<key>>)

\* A picture is recognised with success once however often it is pasted, and
\* the limit is one on such recognitions (one that fails is repeated at each
\* paste and never counts); only what OCR read is shown, and what was read
\* once is shown wherever the picture comes again.
PicturesAreRead ==
  source.kind \in {"pptx", "docx"} =>
    /\ processed <= MaxPictures
    /\ processed = Cardinality({k \in DOMAIN Looks :
                     cache[k] # "unknown" /\ source.looks[k] \in {"text", "blank"}})
    /\ \A i \in DOMAIN output, k \in DOMAIN Looks : ShownOn(i, k) =>
         /\ cache[k] = "text" /\ source.looks[k] = "text"
         /\ \A j \in i + 1 .. turn - 1 : (\E n \in DOMAIN Items[j] : Items[j][n] = k) => ShownOn(j, k)

\* Every page without a text layer was converted with full-page OCR, whatever
\* batch it fell into, and every page is exported once, in its place.
ScannedPagesAreOcred ==
  source.layout => /\ Len(output) = turn
                   /\ \A i \in DOMAIN output :
                        /\ output[i].from = i
                        /\ output[i].parts = Converted(i, TRUE)

Said(at, what) == \E w \in DOMAIN warnings : warnings[w] = [at |-> at, what |-> what]

\* What is left out of the result is announced in it: frames of a GIF, rows
\* and sheets of a workbook beyond its limits, attachments and what is left
\* out of them, unreadable pages of a PDF.  The exceptions are frames in the layout pipeline and pictures
\* beyond the limit on recognitions.
NothingIsCutSilently ==
  outcome = "done" /\ ~source.layout =>
    \A t \in DOMAIN Items :
      /\ source.kind = "pdf" /\ ~Items[t].readable => Said(t, "unreadable")
      /\ source.kind = "image" /\ t > Len(output) => Said(0, "first_frame_only") \/ Said(0, "ocr_disabled")
      /\ source.kind = "xlsx" =>
           IF t > Len(output) THEN Said(Len(output), "truncated")
           ELSE \A k \in DOMAIN Items[t] : ~Items[t][k].blank =>
                  \/ Said(t, "truncated") \/ Said(t, "long_table")
                  \/ \E n \in DOMAIN output[t].parts[2].ids : output[t].parts[2].ids[n] = k
      /\ source.kind = "mail" =>
           LET listed == output[1].parts[Len(output[1].parts)].ids IN
           /\ listed[t] \in {"processed", "skipped", "failed"}
           /\ listed[t] = "processed" => \A n \in DOMAIN Items[t].said : Said(t, Items[t].said[n])

\* "off: never OCR", says the description of ocr_mode in the API; the layout
\* pipeline reads scanned pages all the same.
OcrModeIsRespected ==
  ocr_mode = "off" => \A i \in DOMAIN output : output[i].method \notin {"ocr", "layout_ocr"}
=============================================================================
