----------------------------- MODULE Extraction -----------------------------
(***************************************************************************)
(* run_extraction: an extractor makes the pages of the result (extract_pdf   *)
(* here, from the text layer of each page or by OCR, the other loops in      *)
(* Extractors), their Markdown is joined with a marker before each page, and *)
(* the chunker reads it, which tells pages apart by these markers.  A        *)
(* document of kind "text" stands for a page that one of the parsers wrote:  *)
(* its blocks come in any order.                                            *)
(***************************************************************************)
EXTENDS Chunking, PageLayout, Extractors

CONSTANTS MaxBlocks,    \* bound: blocks of a text document
          MinText,      \* settings.pdf_min_text_chars, in lines
          Little,       \* the 200 characters a scan may have on top, in lines
          LineTokens,   \* the tokens of a line
          Titles        \* the titles a heading of a page may have

\* A page of a PDF: is it readable; boxes and grids of the text layer; does
\* its layout analysis raise; do images cover it (more than 60 %); the lines
\* that OCR finds on it, and their order if it is the engine that orders them.
ASSUME ExtractionAssumption ==
  /\ {MaxBlocks, MinText, Little} \subseteq Nat /\ LineTokens \in Nat \ {0} /\ Titles \subseteq STRING
  /\ \A s \in Sources : s.kind = "pdf" /\ ~s.layout =>
       \A i \in DOMAIN s.items : LET d == s.items[i] IN
         /\ d.readable \in BOOLEAN /\ d.covered \in BOOLEAN /\ d.breaks \in BOOLEAN
         /\ AreBoxes(d.boxes) /\ AreGrids(d.grids, d.boxes)
         /\ AreBoxes(d.scan) /\ \A b \in d.scan : Len(b.lines) = 1
         /\ d.numbered # <<>> => /\ IsSeq(d.numbered) /\ IsInjective(d.numbered)
                                 /\ Range(d.numbered) = LinesOf(d.scan)

VARIABLES
  script,  \* parts of the Markdown that the chunker has not read yet
  page,    \* the page of the last marker it read
  joined   \* the Markdown was handed to the chunker

allvars == <<loopvars, script, page, joined, vars>>

Lines(boxes) == Cardinality(LinesOf(boxes))

NeedsOcr(p) ==
  \/ ocr_mode = "force"
  \/ /\ ocr_mode = "auto"
     /\ \/ Lines(p.boxes) < MinText
        \/ p.covered /\ Lines(p.boxes) < Little

\* In auto mode whichever is richer.
UsesOcr(p) == NeedsOcr(p) /\ ~(ocr_mode = "auto" /\ Lines(p.boxes) > Lines(p.scan))

Words(ids) == {id \in ids : Line(id).kind # "bullet"}

Held(parts) == UNION {{parts[i].ids[k] : k \in DOMAIN parts[i].ids} : i \in DOMAIN parts}

Lost(p, parts) ==
  10 * Cardinality(Words(Held(parts))) < 9 * Cardinality(Words(LinesOf(p.boxes)))

\* Mutant: no coverage guard.
CoveredAlways(p, parts) == parts

\* The coverage guard: when layout analysis loses a tenth of the words, the
\* Markdown of the page is its plain text.
Covered(p, parts) == IF Lost(p, parts) THEN PlainMarkdown(p.boxes) ELSE parts

\* If layout analysis raises, the page has no Markdown either.
LayerMarkdown(p) == IF p.breaks THEN PlainMarkdown(p.boxes) ELSE Covered(p, PageMarkdown(p))

\* RapidOCR gives boxes, which are put in order; Tesseract text, in which the
\* lines are in the order of its own blocks, and whose paragraphs are not told
\* apart here.
OcrMarkdown(p) ==
  IF p.numbered = <<>> THEN ScanMarkdown(p.scan) ELSE <<Part("paragraph", 0, p.numbered)>>

PageResult(p) ==
  CASE ~p.readable                -> [method |-> "error", parts |-> <<>>]
    [] p.readable /\ UsesOcr(p)   -> [method |-> "ocr", parts |-> OcrMarkdown(p)]
    [] p.readable /\ ~UsesOcr(p)  -> [method |-> "text_layer", parts |-> LayerMarkdown(p)]

\* A part of the Markdown as a block for the chunker: the first row of a
\* table with more than one is its header; any headings may have one title.
Shape(part, title) ==
  LET units(n) == [i \in 1 .. n |-> LineTokens]  n == Len(part.ids) IN
  CASE part.kind = "heading"             -> [kind |-> "heading", units |-> <<n * LineTokens>>,
                                             header |-> 0, level |-> part.level, title |-> title]
    [] part.kind = "table" /\ n > 1      -> [kind |-> "table", units |-> units(n - 1),
                                             header |-> LineTokens, level |-> 0, title |-> "none"]
    [] part.kind = "table" /\ n <= 1     -> [kind |-> "table", units |-> units(n),
                                             header |-> 0, level |-> 0, title |-> "none"]
    [] part.kind \in {"paragraph", "list"} -> [kind |-> "paragraph", units |-> units(n),
                                             header |-> 0, level |-> 0, title |-> "none"]

\* Only PDFs, images and pictures ask for ocr_mode.
ExtractionInit ==
  /\ Init
  /\ ExtractorsInit
  /\ source.kind \notin {"pdf", "image", "pptx", "docx"} => ocr_mode = "auto"
  /\ script = <<>>
  /\ page = 1
  /\ joined = FALSE

(***************************************************************************)
(* Pages                                                                   *)
(***************************************************************************)
\* One turn of the loop of extract_pdf.
ExtractPage ==
  /\ Running({"pdf"})
  /\ turn < Len(Items)
  /\ LET r == PageResult(Items[turn + 1]) IN
       /\ output' = Append(output, PageOf(turn + 1, turn + 1, 1, r.method, r.parts))
       /\ IF r.method = "error" THEN Warn(turn + 1, "unreadable") ELSE UNCHANGED warnings
  /\ turn' = turn + 1
  /\ UNCHANGED <<source, ocr_mode, todo, listing, cache, processed, cells_seen, outcome>>
  /\ UNCHANGED <<script, page, joined, vars>>

FinishPdf ==
  /\ Running({"pdf"})
  /\ Items # <<>>
  /\ turn = Len(Items)
  /\ outcome' = "done"
  /\ UNCHANGED <<source, ocr_mode, turn, todo, output, warnings, listing, cache, processed, cells_seen>>
  /\ UNCHANGED <<script, page, joined, vars>>

ExtractItem == LoopNext /\ UNCHANGED <<script, page, joined, vars>>

\* ExtractionResult.markdown: markers only if there is more than one page.  A
\* part also says which page it is really on.
Marked(i) ==
  LET body == output[i].parts
      leaf == [kind |-> "marker", level |-> 0, ids |-> <<output[i].number>>] IN
  [k \in 1 .. Len(body) + 1 |->
     [part |-> IF k = 1 THEN leaf ELSE body[k - 1], on |-> i]]

Markdown == IF Len(output) = 1 THEN Tail(Marked(1))
            ELSE FlattenSeq([i \in DOMAIN output |-> Marked(i)])

JoinPages ==
  /\ outcome = "done"
  /\ ~joined
  /\ script' = Markdown
  /\ joined' = TRUE
  /\ UNCHANGED <<loopvars, page, vars>>

(***************************************************************************)
(* Reading the Markdown                                                    *)
(***************************************************************************)
Place(origin) == [page |-> page, origin |-> origin]

Comes(kinds) == pending = <<>> /\ script # <<>> /\ Head(script).part.kind \in kinds

ReadMarker ==
  /\ Comes({"marker"})
  /\ page' = Head(script).part.ids[1]
  /\ script' = Tail(script)
  /\ UNCHANGED <<loopvars, joined, vars>>

ReadPart ==
  /\ Comes({"heading", "table", "paragraph", "list"})
  /\ \E title \in Titles : Read(Shape(Head(script).part, title), Place({Head(script).on}))
  /\ script' = Tail(script)
  /\ UNCHANGED <<loopvars, page, joined>>

\* Where the block of code ends that starts with the next part: at the next
\* fence, or with the document.
FenceEnd == Min({Len(script)} \cup {i \in 2 .. Len(script) : script[i].part.kind = "fence"})

\* Whatever stands between two fences is code, markers of pages included.
ReadFence ==
  /\ Comes({"fence"})
  /\ Read([kind |-> "code", units |-> [i \in 1 .. FenceEnd |-> LineTokens], header |-> 0, level |-> 0, title |-> "none"],
          Place({script[i].on : i \in 1 .. FenceEnd}))
  /\ script' = SubSeq(script, FenceEnd + 1, Len(script))
  /\ UNCHANGED <<loopvars, page, joined>>

\* A block of a document that one of the parsers wrote.
ReadAny ==
  /\ source.kind = "text"
  /\ Len(document) < MaxBlocks
  /\ \E s \in Shapes : Read(s, Place({1}))
  /\ UNCHANGED <<loopvars, script, page, joined>>

PackBlock == Pack /\ UNCHANGED <<loopvars, script, page, joined>>

FinishChunks ==
  /\ joined \/ source.kind = "text"
  /\ script = <<>>
  /\ Finish
  /\ UNCHANGED <<loopvars, script, page, joined>>

ExtractionNext ==
  \/ ExtractPage \/ FinishPdf \/ ExtractItem \/ JoinPages
  \/ ReadMarker \/ ReadPart \/ ReadFence \/ ReadAny
  \/ PackBlock \/ FinishChunks

ExtractionSpec == ExtractionInit /\ [][ExtractionNext]_allvars

(***************************************************************************)
(* Properties                                                              *)
(***************************************************************************)
IsPdf == source.kind = "pdf" /\ ~source.layout

\* The lines of a page result in the order they are read.
Reading(i) == FlattenSeq([k \in DOMAIN output[i].parts |-> output[i].parts[k].ids])

Origin(i) == LinesOf(IF output[i].method = "ocr" THEN Items[i].scan ELSE Items[i].boxes)

\* "Layout analysis must never silently drop text", as far as its guard goes:
\* a page that could be read has in its Markdown only lines of what it was
\* read from, none twice, and at least nine of ten of its words, through
\* grids, columns, table rows, wrapped headings, lists and lone bullets; in
\* auto mode what it was read from has no fewer lines than its text layer.
TextIsKept ==
  IsPdf => \A i \in DOMAIN output : output[i].method # "error" =>
    /\ Range(Reading(i)) \subseteq Origin(i)
    /\ IsInjective(Reading(i))
    /\ 10 * Cardinality(Words(Range(Reading(i)))) >= 9 * Cardinality(Words(Origin(i)))
    /\ ocr_mode = "auto" => Lines(Items[i].boxes) <= Cardinality(Origin(i))

\* "XY-cut gives the reading order": of two boxes one of which is above the
\* other in the same column, the upper one is read first, however gaps,
\* columns, grids and merging rearrange the page.  This holds of every page
\* without tables, of one whose tables lie Straight, and of a scan that is Level
\* and was read by RapidOCR: with Tesseract the order is the engine's own.
ReadingOrderIsKept ==
  IsPdf => \A i \in DOMAIN output :
    LET s == Reading(i) IN
    (IF output[i].method = "ocr" THEN Items[i].numbered = <<>> /\ Level(Items[i].scan)
                                 ELSE Straight(Items[i])) =>
      \A m, n \in DOMAIN s : Above(s[m][1], s[n][1]) => m < n

FencesClosed == \A i \in DOMAIN output :
  Cardinality({k \in DOMAIN output[i].parts : output[i].parts[k].kind = "fence"}) % 2 = 0

\* "Each chunk keeps its page range": from the numbers an extractor gives its
\* pages through markers, splitting and headings moved from chunk to chunk,
\* a chunk claims exactly the pages its lines are on, provided every page
\* closes its code fences.  One that does not may keep later pages from being
\* noticed, but no block is ever said to be on a page after its own.
PagesAreTraced ==
  \A i \in DOMAIN packer.chunks :
    LET c     == packer.chunks[i]
        truth == UNION {c.blocks[k].origin : k \in DOMAIN c.blocks} IN
    /\ \A k \in DOMAIN c.blocks : c.blocks[k].page <= Min(c.blocks[k].origin)
    /\ FencesClosed => c.page_start = Min(truth) /\ c.page_end = Max(truth)
=============================================================================
