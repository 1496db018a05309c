-------------------------- MODULE Extraction_proofs --------------------------
(***************************************************************************)
(* Proofs about run_extraction, where the extractors, the reading order of  *)
(* a page and the chunker meet: for every document, at any settings.        *)
(***************************************************************************)
EXTENDS Extraction, Extractors_proofs, Chunking_proofs, PageLayout_proofs

(***************************************************************************)
(* The lines in the Markdown of a page                                     *)
(***************************************************************************)
Entries(s) == {s[i] : i \in 1 .. Len(s)}

LEMMA EntriesConcat ==
  ASSUME NEW S, NEW s \in Seq(S), NEW t \in Seq(S)
  PROVE  Entries(s \o t) = Entries(s) \cup Entries(t)
<1>1. /\ Len(s) \in Nat /\ Len(t) \in Nat /\ Len(s \o t) = Len(s) + Len(t)
      /\ \A i \in 1 .. Len(s) : (s \o t)[i] = s[i]
      /\ \A i \in 1 .. Len(t) : (s \o t)[Len(s) + i] = t[i]
  BY ConcatIs
<1>2. ASSUME NEW i \in 1 .. Len(s \o t)
      PROVE  (s \o t)[i] \in Entries(s) \cup Entries(t)
  <2>1. CASE i <= Len(s)
    BY <1>1, <2>1 DEF Entries
  <2>2. CASE i > Len(s)
    <3>1. i - Len(s) \in 1 .. Len(t) /\ Len(s) + (i - Len(s)) = i
      BY <1>1, <2>2
    <3> QED
      BY <1>1, <3>1 DEF Entries
  <2> QED
    BY <1>1, <2>1, <2>2
<1>3. \A i \in 1 .. Len(s) : s[i] \in Entries(s \o t)
  BY <1>1 DEF Entries
<1>4. ASSUME NEW i \in 1 .. Len(t)
      PROVE  t[i] \in Entries(s \o t)
  <2>1. Len(s) + i \in 1 .. Len(s \o t)
    BY <1>1
  <2> QED
    BY <1>1, <2>1 DEF Entries
<1> QED
  BY <1>2, <1>3, <1>4 DEF Entries

LEMMA EntriesFlatten ==
  ASSUME NEW S, NEW ss \in Seq(Seq(S))
  PROVE  Entries(FlattenSeq(ss)) = UNION {Entries(ss[k]) : k \in 1 .. Len(ss)}
<1> DEFINE n == Len(ss)
           upto(k) == UNION {Entries(ss[i]) : i \in 1 .. k}
<1>1. n \in Nat /\ \A k \in 1 .. n : ss[k] \in Seq(S)
  OBVIOUS
<1>2. PICK so \in [0 .. n -> Seq(S)] :
        /\ so[0] = <<>> /\ so[n] = FlattenSeq(ss)
        /\ \A k \in 1 .. n : so[k] = so[k - 1] \o ss[k]
  BY FlatSteps
<1> DEFINE T == {k \in 0 .. n : Entries(so[k]) = upto(k)}
<1>3. 0 \in T
  <2>1. Entries(<<>>) = {} /\ upto(0) = {}
    BY DEF Entries
  <2> QED
    BY <1>1, <1>2, <2>1
<1>4. ASSUME NEW k \in 0 .. n - 1, k \in T
      PROVE  k + 1 \in T
  <2>1. /\ k + 1 \in 1 .. n /\ k + 1 \in 0 .. n /\ (k + 1) - 1 = k /\ k \in 0 .. n
        /\ 1 .. k + 1 = (1 .. k) \cup {k + 1}
    BY <1>1
  <2>2. so[k + 1] = so[k] \o ss[k + 1] /\ so[k] \in Seq(S) /\ ss[k + 1] \in Seq(S)
    BY <1>1, <1>2, <2>1
  <2>3. Entries(so[k + 1]) = Entries(so[k]) \cup Entries(ss[k + 1])
    BY <2>2, EntriesConcat
  <2>4. Entries(so[k]) = upto(k)
    BY <1>4
  <2>5. upto(k + 1) = upto(k) \cup Entries(ss[k + 1])
    BY <2>1
  <2> HIDE DEF upto
  <2> QED
    BY <2>1, <2>3, <2>4, <2>5
<1>5. \A k \in 0 .. n : k \in T
  <2> HIDE DEF T
  <2> QED
    BY <1>1, <1>3, <1>4, UpTo
<1>6. n \in T
  <2>1. n \in 0 .. n
    BY <1>1
  <2> HIDE DEF T, n
  <2> QED
    BY <1>5, <2>1
<1>7. Entries(so[n]) = upto(n)
  BY <1>6
<1> QED
  BY <1>2, <1>7

\* The coverage guard looks at the lines that the Markdown reads.
LEMMA HeldRead ==
  ASSUME NEW I, NEW parts \in Seq(PartsOver(I))
  PROVE  Held(parts) = Entries(Reads(parts))
<1>1. /\ IdsOf(parts) \in Seq(Seq(I)) /\ Len(IdsOf(parts)) = Len(parts)
      /\ \A k \in 1 .. Len(parts) : IdsOf(parts)[k] = parts[k].ids
  BY IdsAre
<1>2. Entries(Reads(parts)) = UNION {Entries(IdsOf(parts)[k]) : k \in 1 .. Len(IdsOf(parts))}
  BY <1>1, EntriesFlatten DEF Reads
<1>3. Len(parts) \in Nat /\ DOMAIN parts = 1 .. Len(parts) /\ \A k \in 1 .. Len(parts) : parts[k] \in PartsOver(I)
  OBVIOUS
<1>4. \A k \in 1 .. Len(parts) : parts[k].ids \in Seq(I) /\ DOMAIN parts[k].ids = 1 .. Len(parts[k].ids)
  <2>1. \A k \in 1 .. Len(parts) : parts[k].ids \in Seq(I)
    BY <1>3 DEF PartsOver
  <2> QED
    BY <2>1
<1>5. \A k \in 1 .. Len(parts) :
        Entries(IdsOf(parts)[k]) = {parts[k].ids[j] : j \in DOMAIN parts[k].ids}
  BY <1>1, <1>4 DEF Entries
<1> DEFINE held(k) == {parts[k].ids[j] : j \in DOMAIN parts[k].ids}
<1>6. Held(parts) = UNION {held(k) : k \in 1 .. Len(parts)}
  BY <1>3 DEF Held
<1>7. Entries(Reads(parts)) = UNION {Entries(IdsOf(parts)[k]) : k \in 1 .. Len(parts)}
  BY <1>1, <1>2
<1>8. \A k \in 1 .. Len(parts) : Entries(IdsOf(parts)[k]) = held(k)
  BY <1>5
<1> HIDE DEF held
<1> QED
  BY <1>6, <1>7, <1>8

LEMMA FewerWords ==
  ASSUME NEW S, IsFiniteSet(S), NEW T, T \subseteq S
  PROVE  /\ IsFiniteSet(Words(T)) /\ Cardinality(Words(T)) \in Nat
         /\ IsFiniteSet(T) /\ Cardinality(T) \in Nat
<1>1. Words(T) \subseteq S
  BY DEF Words
<1>2. IsFiniteSet(Words(T)) /\ IsFiniteSet(T)
  BY <1>1, FS_Subset
<1> QED
  BY <1>2, FS_CardinalityType

\* A page of a document, as the extractor may find it.
IsPdfPage(p) ==
  /\ p.readable \in BOOLEAN /\ p.covered \in BOOLEAN /\ p.breaks \in BOOLEAN
  /\ AreBoxes(p.boxes) /\ AreGrids(p.grids, p.boxes)
  /\ AreBoxes(p.scan) /\ \A b \in p.scan : Len(b.lines) = 1
  /\ p.numbered # <<>> => /\ IsSeq(p.numbered) /\ IsInjective(p.numbered)
                          /\ Range(p.numbered) = LinesOf(p.scan)

From(p, method) == LinesOf(IF method = "ocr" THEN p.scan ELSE p.boxes)

\* Are the boxes read from top to bottom?
OrderOf(p, r) ==
  (IF r.method = "ocr" THEN p.numbered = <<>> /\ Level(p.scan) ELSE Straight(p)) =>
    KeepsOrder(Reads(r.parts), Aboves(From(p, r.method)))

\* What TextIsKept and ReadingOrderIsKept say of one page.
KeptOf(p, r) ==
  /\ OrderOf(p, r)
  /\ FinalParts(r.parts, From(p, r.method))
  /\ Lists(Reads(r.parts), From(p, r.method))
  /\ 10 * Cardinality(Words(Entries(Reads(r.parts)))) >= 9 * Cardinality(Words(From(p, r.method)))
  /\ ocr_mode = "auto" => Lines(p.boxes) <= Cardinality(From(p, r.method))

\* A Markdown that has every line has every word.
LEMMA SpelledIsKept ==
  ASSUME NEW I, IsFiniteSet(I), NEW s, Spells(s, I)
  PROVE  10 * Cardinality(Words(Entries(s))) >= 9 * Cardinality(Words(I))
<1>1. s \in Seq(I) /\ I \subseteq Entries(s)
  BY DEF Spells, Lists, Entries
<1>2. Entries(s) = I
  BY <1>1 DEF Entries
<1>3. Cardinality(Words(I)) \in Nat
  BY FewerWords
<1> QED
  BY <1>2, <1>3

\* The lines of a scan in an order of their own, as one paragraph.
LEMMA NumberedIs ==
  ASSUME NEW s, IsSeq(s), s # <<>>, IsInjective(s), NEW I, Range(s) = I
  PROVE  /\ FinalParts(<<Part("paragraph", 0, s)>>, I)
         /\ Spells(Reads(<<Part("paragraph", 0, s)>>), I)
<1> DEFINE p == Part("paragraph", 0, s)
<1>1. DOMAIN s = 1 .. Len(s) /\ Len(s) \in Nat
  BY SeqShape
<1>2. I = {s[i] : i \in DOMAIN s}
  BY DEF Range
<1>3. s \in Seq(I)
  BY <1>2 DEF IsSeq
<1>4. Spells(s, I)
  BY <1>1, <1>2, <1>3 DEF Spells, Lists, OneByOne, IsInjective
<1>5. p \in PartsOver(I) /\ p.kind = "paragraph" /\ p.ids = s
  BY <1>3 DEF Part, PartsOver, PartKinds
<1>6. GoodPart(p)
  BY <1>5 DEF GoodPart
<1> HIDE DEF p
<1>7. FinalParts(<<p>>, I) /\ Reads(<<p>>) = p.ids
  BY <1>5, <1>6, FinalOne
<1> QED
  BY <1>4, <1>5, <1>7 DEF p

LEMMA ScanIsKept ==
  ASSUME NEW p, IsPdfPage(p), UsesOcr(p)
  PROVE  KeptOf(p, [method |-> "ocr", parts |-> OcrMarkdown(p)])
<1> DEFINE r == [method |-> "ocr", parts |-> OcrMarkdown(p)]
           I == LinesOf(p.scan)
<1>1. r.method = "ocr" /\ r.parts = OcrMarkdown(p) /\ From(p, r.method) = I
  BY DEF From
<1>2. /\ FinalParts(r.parts, I) /\ Spells(Reads(r.parts), I)
      /\ p.numbered = <<>> /\ Level(p.scan) => KeepsOrder(Reads(r.parts), Aboves(I))
  <2>1. CASE p.numbered = <<>>
    <3>1. r.parts = ScanMarkdown(p.scan)
      BY <1>1, <2>1 DEF OcrMarkdown
    <3> QED
      BY <3>1, ScanMarkdownIs DEF IsPdfPage
  <2>2. CASE p.numbered # <<>>
    <3>1. r.parts = <<Part("paragraph", 0, p.numbered)>>
      BY <1>1, <2>2 DEF OcrMarkdown
    <3>2. IsSeq(p.numbered) /\ IsInjective(p.numbered) /\ Range(p.numbered) = I
      BY <2>2 DEF IsPdfPage
    <3> HIDE DEF r, I
    <3> QED
      BY <2>2, <3>1, <3>2, NumberedIs
  <2> QED
    BY <2>1, <2>2
<1>3. IsFiniteSet(I) /\ IsFiniteSet(LinesOf(p.boxes))
  BY LinesAre DEF IsPdfPage
<1>4. 10 * Cardinality(Words(Entries(Reads(r.parts)))) >= 9 * Cardinality(Words(I))
  BY <1>2, <1>3, SpelledIsKept
<1>5. ocr_mode = "auto" => Lines(p.boxes) <= Cardinality(I)
  <2>1. Lines(p.boxes) \in Nat /\ Cardinality(I) \in Nat /\ Lines(p.scan) = Cardinality(I)
    BY <1>3, FS_CardinalityType DEF Lines
  <2> QED
    BY <2>1 DEF UsesOcr
<1>6. FinalParts(r.parts, I) /\ Lists(Reads(r.parts), I)
  BY <1>2 DEF Spells
<1>7. OrderOf(p, r)
  <2> HIDE DEF I
  <2> QED
    BY <1>1, <1>2 DEF OrderOf
<1> HIDE DEF I
<1> QED
  BY <1>1, <1>4, <1>5, <1>6, <1>7 DEF KeptOf

LEMMA LayerIsKept ==
  ASSUME NEW p, IsPdfPage(p)
  PROVE  KeptOf(p, [method |-> "text_layer", parts |-> LayerMarkdown(p)])
<1> DEFINE I     == LinesOf(p.boxes)
           page_ == PageMarkdown(p)
           parts == LayerMarkdown(p)
           r     == [method |-> "text_layer", parts |-> parts]
<1>1. r.method = "text_layer" /\ r.parts = parts /\ From(p, r.method) = I
  BY DEF From
<1>2. IsFiniteSet(I) /\ Cardinality(I) \in Nat /\ Lines(p.boxes) = Cardinality(I)
  BY LinesAre, FS_CardinalityType DEF IsPdfPage, Lines
<1>3. /\ FinalParts(page_, I) /\ Lists(Reads(page_), I)
      /\ Straight(p) => KeepsOrder(Reads(page_), Aboves(I))
  BY PageMarkdownIs DEF IsPdfPage
<1>4. /\ FinalParts(PlainMarkdown(p.boxes), I)
      /\ Spells(Reads(PlainMarkdown(p.boxes)), I)
      /\ KeepsOrder(Reads(PlainMarkdown(p.boxes)), Aboves(I))
  BY PlainMarkdownIs DEF IsPdfPage
<1>5. /\ FinalParts(parts, I) /\ Lists(Reads(parts), I)
      /\ 10 * Cardinality(Words(Entries(Reads(parts)))) >= 9 * Cardinality(Words(I))
  <2>1. CASE p.breaks \/ Lost(p, page_)
    <3>1. parts = PlainMarkdown(p.boxes)
      BY <2>1 DEF LayerMarkdown, Covered
    <3>2. FinalParts(parts, I) /\ Lists(Reads(parts), I)
      BY <1>4, <3>1 DEF Spells
    <3> HIDE DEF parts
    <3> QED
      BY <1>2, <1>4, <3>1, <3>2, SpelledIsKept
  <2>2. CASE ~p.breaks /\ ~Lost(p, page_)
    <3>1. parts = page_
      BY <2>2 DEF LayerMarkdown, Covered
    <3>2. page_ \in Seq(PartsOver(I))
      BY <1>3 DEF FinalParts
    <3>3. Held(page_) = Entries(Reads(page_))
      BY <3>2, HeldRead
    <3>4. Entries(Reads(page_)) \subseteq I
      BY <1>3 DEF Lists, Entries
    <3>5. Cardinality(Words(Entries(Reads(page_)))) \in Nat /\ Cardinality(Words(I)) \in Nat
      BY <1>2, <3>4, FewerWords
    <3>6. ~(10 * Cardinality(Words(Entries(Reads(page_)))) < 9 * Cardinality(Words(I)))
      BY <2>2, <3>3 DEF Lost
    <3> HIDE DEF parts, page_
    <3> QED
      BY <1>3, <3>1, <3>2, <3>5, <3>6
  <2> QED
    BY <2>1, <2>2
<1>6. Straight(p) => KeepsOrder(Reads(parts), Aboves(I))
  <2>1. parts = PlainMarkdown(p.boxes) \/ parts = page_
    BY DEF LayerMarkdown, Covered
  <2> HIDE DEF I, parts, page_
  <2> QED
    BY <1>3, <1>4, <2>1
<1>7. KeptOf(p, r)
  <2> HIDE DEF I, parts, r
  <2> QED
    BY <1>1, <1>2, <1>5, <1>6 DEF KeptOf, OrderOf
<1> QED
  BY <1>7

\* What extract_pdf makes of a page it can read.
LEMMA PageIsKept ==
  ASSUME NEW p, IsPdfPage(p), PageResult(p).method # "error"
  PROVE  KeptOf(p, PageResult(p))
<1>1. p.readable
  BY DEF PageResult, IsPdfPage
<1>2. CASE UsesOcr(p)
  BY <1>1, <1>2, ScanIsKept DEF PageResult
<1>3. CASE ~UsesOcr(p)
  BY <1>1, <1>3, LayerIsKept DEF PageResult
<1> QED
  BY <1>2, <1>3

\* A page's Markdown is made of well-formed parts, whatever way it came.
LEMMA FinalAreParts ==
  ASSUME NEW I, NEW parts, FinalParts(parts, I)
  PROVE  AreParts(parts)
<1>1. parts \in Seq(PartsOver(I)) /\ \A i \in 1 .. Len(parts) : parts[i].ids # <<>> /\ GoodPart(parts[i])
  BY DEF FinalParts
<1>2. IsSeq(parts) /\ DOMAIN parts = 1 .. Len(parts)
  BY <1>1, SeqElements, SeqIs
<1>3. ASSUME NEW i \in DOMAIN parts
      PROVE  IsPart(parts[i])
  <2>1. parts[i] \in PartsOver(I) /\ parts[i].ids # <<>> /\ GoodPart(parts[i])
    BY <1>1, <1>2
  <2>2. /\ parts[i].kind \in {"heading", "table", "paragraph", "list"}
        /\ parts[i].level \in 0 .. 6 /\ parts[i].ids \in Seq(I)
    BY <2>1 DEF PartsOver, PartKinds, GoodPart
  <2>3. parts[i].kind = "heading" => parts[i].level \in 1 .. 6
    BY <2>1, <2>2 DEF GoodPart
  <2>4. IsSeq(parts[i].ids)
    BY <2>2, SeqElements
  <2> QED
    BY <2>2, <2>3, <2>4 DEF IsPart
<1> QED
  BY <1>2, <1>3 DEF AreParts

LEMMA PageIsParts ==
  ASSUME NEW p, IsPdfPage(p)
  PROVE  AreParts(PageResult(p).parts)
<1>1. CASE ~p.readable
  BY <1>1, NoParts DEF PageResult
<1>2. CASE p.readable
  <2>1. PageResult(p).method # "error"
    BY <1>2 DEF PageResult
  <2> QED
    BY <2>1, PageIsKept, FinalAreParts DEF KeptOf
<1> QED
  BY <1>1, <1>2

(***************************************************************************)
(* The loop of extract_pdf                                                 *)
(***************************************************************************)
\* The pages so far are what PageResult makes of the pages of the document.
PdfPages ==
  /\ source \in Sources
  /\ IsPdf => /\ turn \in 0 .. Len(Items) /\ IsSeq(output) /\ Len(output) = turn
              /\ \A i \in 1 .. turn :
                   /\ output[i].method = PageResult(Items[i]).method
                   /\ output[i].parts = PageResult(Items[i]).parts

LEMMA PdfPageIs ==
  ASSUME source \in Sources, IsPdf, NEW i \in 1 .. Len(Items)
  PROVE  IsPdfPage(Items[i])
<1>1. i \in DOMAIN source.items
  BY SourceFacts DEF Items
<1> QED
  BY <1>1, ExtractionAssumption DEF IsPdf, IsPdfPage, Items

LEMMA PdfStarts == ExtractionInit => PdfPages
<1> SUFFICES ASSUME ExtractionInit
             PROVE  PdfPages
  OBVIOUS
<1>1. source \in Sources /\ turn = 0 /\ output = <<>>
  BY DEF ExtractionInit, ExtractorsInit
<1>2. Len(Items) \in Nat /\ IsSeq(output) /\ Len(output) = 0
  BY <1>1, SourceFacts, EmptyIsSeq
<1> QED
  BY <1>1, <1>2 DEF PdfPages

\* Only ExtractPage adds to the pages of a PDF that is not laid out.
LEMMA OthersLeavePdf ==
  ASSUME IsPdf, LoopNext
  PROVE  UNCHANGED <<source, ocr_mode, turn, output>>
<1>1. source.kind = "pdf" /\ ~source.layout
  BY DEF IsPdf
<1>2. ~MailNext
  BY <1>1 DEF MailNext, ReadMessage, SkipAttachment, AttachmentFails, ExtractAttachment, FinishMail,
              AtAttachment, Running
<1>3. ~ImageNext
  BY <1>1 DEF ImageNext, ImageUnread, TooManyFrames, ReadFrame, FinishImage, Running
<1>4. ~LayoutNext
  BY <1>1 DEF LayoutNext, ConvertBatch, FinishLayout, InLayout
<1>5. ~OfficeNext
  BY <1>1 DEF OfficeNext, OpenSlide, ReadPicture, PictureFails, FinishOffice, AtPicture, Running
<1>6. ~SheetNext
  BY <1>1 DEF SheetNext, ReadSheet, FinishWorkbook, Running
<1>7. Stop
  BY <1>2, <1>3, <1>4, <1>5, <1>6 DEF LoopNext
<1> QED
  BY <1>7 DEF Stop

LEMMA PdfStutters ==
  ASSUME PdfPages, UNCHANGED <<source, ocr_mode, turn, output>>
  PROVE  PdfPages'
BY DEF PdfPages, IsPdf, Items, PageResult, UsesOcr, NeedsOcr

LEMMA PdfPageAdded ==
  ASSUME PdfPages, ExtractPage
  PROVE  PdfPages'
<1> DEFINE r == PageResult(Items[turn + 1])
           e == PageOf(turn + 1, turn + 1, 1, r.method, r.parts)
<1>1. /\ IsPdf /\ source' = source /\ ocr_mode' = ocr_mode /\ turn' = turn + 1 /\ turn < Len(Items)
      /\ output' = Append(output, e)
  BY DEF ExtractPage, Running, IsPdf
<1>2. source \in Sources /\ Items' = Items /\ IsPdf' = IsPdf /\ Len(Items) \in Nat
  BY <1>1, SourceFacts DEF PdfPages, Items, IsPdf
<1>3. turn \in Nat /\ IsSeq(output) /\ Len(output) = turn
  BY <1>1, <1>2 DEF PdfPages
<1>4. /\ IsSeq(output') /\ Len(output') = turn + 1 /\ output'[turn + 1] = e
      /\ \A i \in 1 .. turn : output'[i] = output[i]
  BY <1>1, <1>3, AppendIsSeq
<1>5. e.method = r.method /\ e.parts = r.parts
  BY DEF PageOf
<1>6. \A i : PageResult(Items[i])' = PageResult(Items[i])
  BY <1>1 DEF Items, PageResult, UsesOcr, NeedsOcr
<1>7. ASSUME NEW i \in 1 .. turn + 1
      PROVE  /\ output'[i].method = PageResult(Items[i])'.method
             /\ output'[i].parts = PageResult(Items[i])'.parts
  <2>1. CASE i = turn + 1
    BY <1>4, <1>5, <1>6, <2>1
  <2>2. CASE i # turn + 1
    <3>1. i \in 1 .. turn
      BY <1>3, <2>2
    <3> QED
      BY <1>1, <1>4, <1>6, <3>1 DEF PdfPages
  <2> QED
    BY <2>1, <2>2
<1> QED
  BY <1>1, <1>2, <1>3, <1>4, <1>7 DEF PdfPages

LEMMA PdfStep ==
  ASSUME PdfPages, [ExtractionNext]_allvars
  PROVE  PdfPages'
<1>1. CASE ExtractPage
  BY <1>1, PdfPageAdded
<1>2. CASE ExtractItem
  <2>1. LoopNext
    BY <1>2 DEF ExtractItem
  <2>2. CASE IsPdf
    BY <2>1, <2>2, OthersLeavePdf, PdfStutters
  <2>3. CASE ~IsPdf
    BY <2>1, <2>3, SourceStays DEF PdfPages, IsPdf
  <2> QED
    BY <2>2, <2>3
<1>3. CASE FinishPdf
  BY <1>3, PdfStutters DEF FinishPdf
<1>4. CASE JoinPages \/ ReadMarker \/ ReadPart \/ ReadFence \/ ReadAny \/ PackBlock \/ FinishChunks
  <2>1. UNCHANGED loopvars
    BY <1>4 DEF JoinPages, ReadMarker, ReadPart, ReadFence, ReadAny, PackBlock, FinishChunks
  <2> QED
    BY <2>1, PdfStutters DEF loopvars
<1>5. CASE UNCHANGED allvars
  BY <1>5, PdfStutters DEF allvars, loopvars
<1> QED
  BY <1>1, <1>2, <1>3, <1>4, <1>5 DEF ExtractionNext

LEMMA PdfPagesKeepText == PdfPages => TextIsKept
<1> SUFFICES ASSUME PdfPages, IsPdf, NEW i \in DOMAIN output, output[i].method # "error"
             PROVE  /\ Range(Reading(i)) \subseteq Origin(i)
                    /\ IsInjective(Reading(i))
                    /\ 10 * Cardinality(Words(Range(Reading(i)))) >= 9 * Cardinality(Words(Origin(i)))
                    /\ ocr_mode = "auto" => Lines(Items[i].boxes) <= Cardinality(Origin(i))
  BY DEF TextIsKept
<1> DEFINE p == Items[i]
           r == PageResult(p)
<1>1. i \in 1 .. turn /\ i \in 1 .. Len(Items) /\ source \in Sources
  BY SeqShape, SourceFacts DEF PdfPages
<1>2. output[i].method = r.method /\ output[i].parts = r.parts
  BY <1>1 DEF PdfPages
<1>3. KeptOf(p, r)
  BY <1>1, <1>2, PdfPageIs, PageIsKept
<1> DEFINE s == Reads(r.parts)
           I == From(p, r.method)
<1>4. Reading(i) = s /\ Origin(i) = I
  BY <1>2 DEF Reading, Reads, IdsOf, Origin, From
<1>5. Lists(s, I)
  BY <1>3 DEF KeptOf
<1>6. s \in Seq(I) /\ DOMAIN s = 1 .. Len(s) /\ OneByOne(s)
  BY <1>5 DEF Lists
<1>7. Range(s) = Entries(s)
  BY <1>6 DEF Range, Entries
<1>8. Range(s) \subseteq I /\ IsInjective(s)
  BY <1>6 DEF Range, IsInjective, OneByOne
<1>9. /\ 10 * Cardinality(Words(Entries(s))) >= 9 * Cardinality(Words(I))
      /\ ocr_mode = "auto" => Lines(p.boxes) <= Cardinality(I)
  BY <1>3 DEF KeptOf
<1> HIDE DEF s, I, r
<1>10. Range(Reading(i)) \subseteq Origin(i) /\ IsInjective(Reading(i))
  BY <1>4, <1>8
<1>11. 10 * Cardinality(Words(Range(Reading(i)))) >= 9 * Cardinality(Words(Origin(i)))
  <2>1. Words(Range(Reading(i))) = Words(Entries(s)) /\ Words(Origin(i)) = Words(I)
    BY <1>4, <1>7
  <2> QED
    BY <1>9, <2>1
<1>12. ocr_mode = "auto" => Lines(Items[i].boxes) <= Cardinality(Origin(i))
  BY <1>4, <1>9
<1> QED
  BY <1>10, <1>11, <1>12

\* "Layout analysis must never silently drop text", as far as its guard goes:
\* whatever boxes, grids and scans a PDF has, each of its pages keeps, once,
\* nine of ten of its words, and in auto mode has no fewer lines than its
\* text layer (page_to_markdown and the coverage guard of extract_pdf).
THEOREM TextKept == ExtractionSpec => []TextIsKept
<1>1. PdfPages /\ [ExtractionNext]_allvars => PdfPages'
  BY PdfStep
<1> QED
  BY PdfStarts, PdfPagesKeepText, <1>1, PTL DEF ExtractionSpec

LEMMA PdfPagesKeepOrder == PdfPages => ReadingOrderIsKept
<1> SUFFICES ASSUME PdfPages, IsPdf, NEW i \in DOMAIN output,
                    IF output[i].method = "ocr" THEN Items[i].numbered = <<>> /\ Level(Items[i].scan)
                                                ELSE Straight(Items[i]),
                    NEW m \in DOMAIN Reading(i), NEW n \in DOMAIN Reading(i),
                    Above(Reading(i)[m][1], Reading(i)[n][1])
             PROVE  m < n
  BY DEF ReadingOrderIsKept
<1> DEFINE p == Items[i]
           r == PageResult(p)
           s == Reads(r.parts)
           I == From(p, r.method)
<1>1. i \in 1 .. turn /\ i \in 1 .. Len(Items) /\ source \in Sources
  BY SeqShape, SourceFacts DEF PdfPages
<1>2. output[i].method = r.method /\ output[i].parts = r.parts
  BY <1>1 DEF PdfPages
<1>3. Reading(i) = s
  BY <1>2 DEF Reading, Reads, IdsOf
<1>4. CASE r.method = "error"
  <2>1. r.parts = <<>>
    BY <1>4 DEF PageResult
  <2>2. s = <<>>
    BY <2>1, ReadsNothing
  <2>3. m \notin DOMAIN s
    BY <2>2
  <2> QED
    BY <1>3, <2>3
<1>5. CASE r.method # "error"
  <2>1. KeptOf(p, r)
    BY <1>1, <1>5, PdfPageIs, PageIsKept
  <2>2. KeepsOrder(s, Aboves(I)) /\ Lists(s, I)
    BY <1>2, <2>1 DEF KeptOf, OrderOf
  <2> HIDE DEF s, I
  <2>3. m \in 1 .. Len(s) /\ n \in 1 .. Len(s) /\ s[m] \in I /\ s[n] \in I
    BY <1>3, <2>2 DEF Lists
  <2>4. <<s[m], s[n]>> \in Aboves(I)
    BY <1>3, <2>3 DEF Aboves
  <2> QED
    BY <2>2, <2>3, <2>4 DEF KeepsOrder
<1> QED
  BY <1>4, <1>5

\* "XY-cut gives the reading order": on every page of a PDF that has an order,
\* whatever its boxes, columns and tables, a box is read before each box below
\* it in its column, from the cut at the gaps through the groups, the rows of
\* tables, wrapped headings and visual lines of OCR to the page's Markdown
\* (_xy_cut, page_to_markdown, reading_order_markdown).
THEOREM UpperBoxesFirst == ExtractionSpec => []ReadingOrderIsKept
<1>1. PdfPages /\ [ExtractionNext]_allvars => PdfPages'
  BY PdfStep
<1> QED
  BY PdfStarts, PdfPagesKeepOrder, <1>1, PTL DEF ExtractionSpec

(***************************************************************************)
(* The loops of Extractors, next to that of extract_pdf                    *)
(***************************************************************************)
\* What Extractors_proofs shows of the loops on their own.
LoopsInv == Inv /\ MailInv /\ PicInv /\ ScannedPagesAreOcred /\ CutInv

LEMMA LoopsStart == ExtractorsInit => LoopsInv
BY InvInit, MailStarts, PicturesStart, CutStarts DEF LoopsInv, ExtractorsInit, ScannedPagesAreOcred

LEMMA LoopsStutter == LoopsInv /\ UNCHANGED loopvars => LoopsInv'
<1> SUFFICES ASSUME LoopsInv, UNCHANGED loopvars
             PROVE  LoopsInv'
  OBVIOUS
<1>1. Inv' /\ CutInv'
  BY StutterStep, CutStutters DEF LoopsInv
<1>2. MailInv'
  BY MailStutters DEF LoopsInv
<1>3. PicInv'
  BY PicturesStutter DEF LoopsInv
<1>4. ScannedPagesAreOcred'
  BY DEF LoopsInv, ScannedPagesAreOcred, loopvars, Converted, Scanned, Items
<1> QED
  BY <1>1, <1>2, <1>3, <1>4 DEF LoopsInv

LEMMA LoopsKeep == LoopsInv /\ LoopNext => LoopsInv'
<1> SUFFICES ASSUME LoopsInv, LoopNext
             PROVE  LoopsInv'
  OBVIOUS
<1>1. Inv'
  BY MailStep, ImageStep, LayoutStep, OfficeStep, SheetStep, StopStep DEF LoopsInv, LoopNext
<1>2. MailInv' /\ PicInv' /\ ScannedPagesAreOcred' /\ CutInv'
  BY MailKept, PicturesKept, LayoutKept, CutKept DEF LoopsInv
<1> QED
  BY <1>1, <1>2 DEF LoopsInv

\* A step of the loop over the pages of a PDF says nothing of other documents.
LEMMA PdfLeavesOthers ==
  ASSUME IsPdf, UNCHANGED source
  PROVE  MailInv' /\ PicInv' /\ ScannedPagesAreOcred' /\ (UnreadableIsTold' => CutInv')
<1>1. source'.kind = "pdf" /\ ~source'.layout
  BY DEF IsPdf
<1> QED
  BY <1>1 DEF MailInv, AttachmentsAreAccountedFor, PicInv, Office, ScannedPagesAreOcred, CutInv

LEMMA PageExtracted ==
  ASSUME LoopsInv, ExtractPage
  PROVE  LoopsInv'
<1> DEFINE r == PageResult(Items[turn + 1])
<1>1. /\ IsPdf /\ turn < Len(Items) /\ turn' = turn + 1 /\ outcome = "running"
      /\ UNCHANGED <<source, ocr_mode, todo, listing, cache, processed, cells_seen, outcome>>
      /\ output' = Append(output, PageOf(turn + 1, turn + 1, 1, r.method, r.parts))
      /\ IF r.method = "error" THEN Warn(turn + 1, "unreadable") ELSE UNCHANGED warnings
  BY DEF ExtractPage, Running, IsPdf
<1>2. Inv /\ source \in Sources /\ Len(output) = turn /\ Items' = Items
  BY <1>1 DEF LoopsInv, Inv, IsPdf, Items
<1>3. turn + 1 \in 1 .. Len(Items) /\ turn \in 0 .. Len(Items) /\ Len(Items) \in Nat
  BY <1>1, <1>2, Before
<1>4. IsPdfPage(Items[turn + 1])
  BY <1>1, <1>2, <1>3, PdfPageIs
<1>5. AreParts(r.parts)
  BY <1>4, PageIsParts
<1>6. r.method = "error" <=> ~Items[turn + 1].readable
  BY <1>4 DEF PageResult, IsPdfPage
<1> HIDE DEF r
<1>7. Numbered(output') /\ Len(output') = turn'
  <2>1. Numbered(output')
    BY <1>1, <1>2, <1>5, NumberedAppend, Before
  <2> QED
    BY <1>1, <1>2, <2>1, AppendIsSeq, Before
<1>8. IsSeq(warnings') /\ IsSeq(warnings)
  <2>1. IsSeq(warnings)
    BY <1>2, Before
  <2>2. IsSeq(Append(warnings, [at |-> turn + 1, what |-> "unreadable"]))
    BY <2>1, AppendIsSeq
  <2>3. warnings' = warnings \/ warnings' = Append(warnings, [at |-> turn + 1, what |-> "unreadable"])
    BY <1>1 DEF Warn
  <2> QED
    BY <2>1, <2>2, <2>3
<1>9. Inv'
  BY <1>1, <1>2, <1>3, <1>7, <1>8, InvKept, Before DEF IsPdf
<1>10. \A t : Said(t, "unreadable") => Said(t, "unreadable")'
  <2>1. CASE r.method = "error"
    <3>1. /\ Len(warnings') = Len(warnings) + 1 /\ Len(warnings) \in Nat /\ DOMAIN warnings = 1 .. Len(warnings)
          /\ DOMAIN warnings' = 1 .. Len(warnings') /\ \A i \in 1 .. Len(warnings) : warnings'[i] = warnings[i]
      BY <1>1, <1>8, <2>1, AppendIsSeq, SeqShape DEF Warn
    <3>2. \A i \in DOMAIN warnings : i \in DOMAIN warnings' /\ warnings'[i] = warnings[i]
      BY <3>1
    <3> QED
      BY <3>2 DEF Said
  <2>2. CASE r.method # "error"
    BY <1>1, <2>2 DEF Said
  <2> QED
    BY <2>1, <2>2
<1>11. ASSUME NEW t, t = turn + 1, ~Items[t].readable
       PROVE  Said(t, "unreadable")'
  <2>1. Warn(t, "unreadable")
    BY <1>1, <1>6, <1>11
  <2> QED
    BY <1>8, <2>1, WarningSays
<1>12. UnreadableIsTold'
  <2>1. UnreadableIsTold
    BY <1>1 DEF LoopsInv, CutInv, IsPdf
  <2>2. ASSUME NEW t \in 1 .. turn', ~Items[t].readable
        PROVE  Said(t, "unreadable")'
    <3>1. CASE t = turn + 1
      BY <1>11, <2>2, <3>1
    <3>2. CASE t # turn + 1
      <4>1. t \in 1 .. turn
        BY <1>1, <1>3, <3>2
      <4>2. Said(t, "unreadable")
        BY <2>1, <2>2, <4>1 DEF UnreadableIsTold
      <4> QED
        BY <1>10, <4>2
    <3> QED
      BY <3>1, <3>2
  <2> QED
    BY <1>1, <1>2, <2>2 DEF UnreadableIsTold
<1> QED
  BY <1>1, <1>9, <1>12, PdfLeavesOthers DEF LoopsInv

LEMMA PdfFinished ==
  ASSUME LoopsInv, FinishPdf
  PROVE  LoopsInv'
<1>1. /\ IsPdf /\ turn = Len(Items) /\ outcome' = "done"
      /\ UNCHANGED <<source, ocr_mode, turn, todo, output, warnings, listing, cache, processed, cells_seen>>
  BY DEF FinishPdf, Running, IsPdf
<1>2. Inv
  BY DEF LoopsInv
<1>3. Inv'
  BY <1>1, <1>2, InvKept, Before DEF Inv
<1>4. UnreadableIsTold'
  BY <1>1 DEF LoopsInv, CutInv, IsPdf, UnreadableIsTold, Said, Items
<1> QED
  BY <1>1, <1>3, <1>4, PdfLeavesOthers DEF LoopsInv

LEMMA LoopsStep ==
  ASSUME LoopsInv, [ExtractionNext]_allvars
  PROVE  LoopsInv'
<1>1. CASE ExtractItem
  BY <1>1, LoopsKeep DEF ExtractItem
<1>2. CASE JoinPages \/ ReadMarker \/ ReadPart \/ ReadFence \/ ReadAny \/ PackBlock \/ FinishChunks
  <2>1. UNCHANGED loopvars
    BY <1>2 DEF JoinPages, ReadMarker, ReadPart, ReadFence, ReadAny, PackBlock, FinishChunks
  <2> QED
    BY <2>1, LoopsStutter
<1>3. CASE UNCHANGED allvars
  <2>1. UNCHANGED loopvars
    BY <1>3 DEF allvars
  <2> QED
    BY <2>1, LoopsStutter
<1> QED
  BY <1>1, <1>2, <1>3, PageExtracted, PdfFinished DEF ExtractionNext

\* What the loops of extract_document promise holds in run_extraction, where
\* extract_pdf is one of them: pages are numbered through, attachments and
\* pictures accounted for, scanned pages of the layout pipeline read, and
\* whatever is left out, unreadable pages of a PDF included, is announced.
THEOREM LoopsKeepPromises ==
  ExtractionSpec => [](/\ LoopTypeOK /\ AttachmentsAreAccountedFor /\ PicturesAreRead
                       /\ ScannedPagesAreOcred /\ NothingIsCutSilently)
<1>1. LoopsInv /\ [ExtractionNext]_allvars => LoopsInv'
  BY LoopsStep
<1>2. ExtractionInit => LoopsInv
  BY LoopsStart DEF ExtractionInit
<1>3. LoopsInv => /\ LoopTypeOK /\ AttachmentsAreAccountedFor /\ PicturesAreRead
                  /\ ScannedPagesAreOcred /\ NothingIsCutSilently
  BY PicturesTold, NothingIsCut DEF LoopsInv, Inv, MailInv
<1> QED
  BY <1>1, <1>2, <1>3, PTL DEF ExtractionSpec

(***************************************************************************)
(* The Markdown of a document                                              *)
(***************************************************************************)
\* Where each of the sequences ends in their concatenation.
Laid(ss, off) ==
  /\ off \in [0 .. Len(ss) -> Nat] /\ off[0] = 0 /\ off[Len(ss)] = Len(FlattenSeq(ss))
  /\ \A i \in 1 .. Len(ss) :
       /\ off[i] = off[i - 1] + Len(ss[i])
       /\ \A k \in 1 .. Len(ss[i]) : FlattenSeq(ss)[off[i - 1] + k] = ss[i][k]

LEMMA LaidOut ==
  ASSUME NEW S, NEW ss \in Seq(Seq(S))
  PROVE  \E off : Laid(ss, off)
<1> DEFINE n == Len(ss)
<1>1. n \in Nat /\ \A k \in 1 .. n : ss[k] \in Seq(S) /\ Len(ss[k]) \in Nat
  BY SeqIs
<1>2. PICK so \in [0 .. n -> Seq(S)] :
        /\ so[0] = <<>> /\ so[n] = FlattenSeq(ss)
        /\ \A k \in 1 .. n : so[k] = so[k - 1] \o ss[k]
  BY FlatSteps
<1> HIDE DEF n
<1> DEFINE off == [k \in 0 .. n |-> Len(so[k])]
<1>3. \A k \in 0 .. n : so[k] \in Seq(S) /\ Len(so[k]) \in Nat
  BY <1>2, SeqIs
<1>4. ASSUME NEW i \in 1 .. n
      PROVE  /\ i - 1 \in 0 .. n /\ i \in 0 .. n
             /\ Len(so[i]) = Len(so[i - 1]) + Len(ss[i])
             /\ \A k \in 1 .. Len(so[i - 1]) : so[i][k] = so[i - 1][k]
             /\ \A k \in 1 .. Len(ss[i]) : so[i][Len(so[i - 1]) + k] = ss[i][k]
  <2>1. i - 1 \in 0 .. n /\ i \in 0 .. n
    BY <1>1
  <2>2. so[i] = so[i - 1] \o ss[i] /\ so[i - 1] \in Seq(S) /\ ss[i] \in Seq(S)
    BY <1>1, <1>2, <1>3, <2>1
  <2> QED
    BY <2>1, <2>2, ConcatIs
\* What comes first in the concatenation stays there.
<1> DEFINE T == {d \in 0 .. n : \A i \in 0 .. d : /\ Len(so[i]) <= Len(so[d])
                                                  /\ \A k \in 1 .. Len(so[i]) : so[d][k] = so[i][k]}
<1>5. 0 \in T
  <2>1. 0 \in 0 .. n /\ \A i \in 0 .. 0 : i = 0
    BY <1>1
  <2> QED
    BY <1>3, <2>1
<1>6. ASSUME NEW d \in 0 .. n - 1, d \in T
      PROVE  d + 1 \in T
  <2>1. d + 1 \in 1 .. n /\ d + 1 \in 0 .. n /\ (d + 1) - 1 = d /\ d \in 0 .. n
    BY <1>1
  <2>2. ASSUME NEW i \in 0 .. d + 1
        PROVE  /\ Len(so[i]) <= Len(so[d + 1])
               /\ \A k \in 1 .. Len(so[i]) : so[d + 1][k] = so[i][k]
    <3>1. CASE i = d + 1
      BY <1>3, <2>1, <3>1
    <3>2. CASE i # d + 1
      <4>1. i \in 0 .. d /\ i \in 0 .. n
        BY <1>1, <2>1, <3>2
      <4>2. Len(so[i]) <= Len(so[d]) /\ \A k \in 1 .. Len(so[i]) : so[d][k] = so[i][k]
        BY <1>6, <4>1
      <4>3. /\ Len(so[d + 1]) = Len(so[d]) + Len(ss[d + 1])
            /\ \A k \in 1 .. Len(so[d]) : so[d + 1][k] = so[d][k]
        <5>1. /\ Len(so[d + 1]) = Len(so[(d + 1) - 1]) + Len(ss[d + 1])
              /\ \A k \in 1 .. Len(so[(d + 1) - 1]) : so[d + 1][k] = so[(d + 1) - 1][k]
          BY ONLY <1>4, <2>1
        <5> QED
          BY <2>1, <5>1
      <4>4. Len(so[i]) \in Nat /\ Len(so[d]) \in Nat /\ Len(ss[d + 1]) \in Nat
        BY <1>1, <1>3, <2>1, <4>1
      <4>5. Len(so[i]) <= Len(so[d + 1]) /\ \A k \in 1 .. Len(so[i]) : k \in 1 .. Len(so[d])
        <5> DEFINE x == Len(so[i])
                   y == Len(so[d])
                   z == Len(ss[d + 1])
                   w == Len(so[d + 1])
        <5>1. x <= y /\ w = y + z /\ x \in Nat /\ y \in Nat /\ z \in Nat
          BY <4>2, <4>3, <4>4
        <5> HIDE DEF x, y, z, w
        <5>2. x <= w /\ \A k \in 1 .. x : k \in 1 .. y
          BY ONLY <5>1
        <5> QED
          BY <5>2 DEF x, y, w
      <4>6. \A k \in 1 .. Len(so[i]) : so[d + 1][k] = so[i][k]
        BY ONLY <4>2, <4>3, <4>5
      <4> QED
        BY <4>5, <4>6
    <3> QED
      BY <3>1, <3>2
  <2> QED
    BY <2>1, <2>2
<1>7. \A i \in 0 .. n : \A k \in 1 .. Len(so[i]) : so[n][k] = so[i][k]
  <2>1. n \in T
    <3> HIDE DEF T
    <3>1. \A d \in 0 .. n : d \in T
      BY <1>1, <1>5, <1>6, UpTo
    <3> QED
      BY <1>1, <3>1
  <2> QED
    BY <2>1
<1>8. off \in [0 .. n -> Nat] /\ \A k \in 0 .. n : off[k] = Len(so[k])
  BY <1>3
<1> HIDE DEF off, T
<1>9. off[0] = 0 /\ off[n] = Len(FlattenSeq(ss))
  <2>1. 0 \in 0 .. n /\ n \in 0 .. n /\ Len(<<>>) = 0
    BY <1>1
  <2> QED
    BY <1>2, <1>8, <2>1
<1>10. ASSUME NEW i \in 1 .. n
       PROVE  /\ off[i] = off[i - 1] + Len(ss[i])
              /\ \A k \in 1 .. Len(ss[i]) : FlattenSeq(ss)[off[i - 1] + k] = ss[i][k]
  <2>1. /\ i - 1 \in 0 .. n /\ i \in 0 .. n
        /\ Len(so[i]) = Len(so[i - 1]) + Len(ss[i])
        /\ \A k \in 1 .. Len(ss[i]) : so[i][Len(so[i - 1]) + k] = ss[i][k]
    BY <1>4
  <2>2. off[i] = Len(so[i]) /\ off[i - 1] = Len(so[i - 1])
    BY <1>8, <2>1
  <2>3. Len(so[i - 1]) \in Nat /\ Len(ss[i]) \in Nat
    BY <1>1, <1>3, <2>1
  <2>4. ASSUME NEW k \in 1 .. Len(ss[i])
        PROVE  so[n][off[i - 1] + k] = ss[i][k]
    <3>1. off[i - 1] + k \in 1 .. Len(so[i])
      BY <2>1, <2>2, <2>3
    <3> QED
      BY <1>7, <2>1, <2>2, <3>1
  <2> QED
    BY <1>2, <2>1, <2>2, <2>4
<1>11. Laid(ss, off)
  BY <1>8, <1>9, <1>10 DEF Laid, n
<1> QED
  BY <1>11

\* Every place in the concatenation is in one of them, and those before it
\* end before it.
LEMMA LaidPlaces ==
  ASSUME NEW S, NEW ss \in Seq(Seq(S)), NEW off, Laid(ss, off)
  PROVE  /\ \A i, j \in 0 .. Len(ss) : i <= j => off[i] <= off[j]
         /\ \A m \in 1 .. off[Len(ss)] : \E i \in 1 .. Len(ss) :
              \E k \in 1 .. Len(ss[i]) : m = off[i - 1] + k
<1> DEFINE n == Len(ss)
<1>1. n \in Nat /\ \A k \in 1 .. n : ss[k] \in Seq(S) /\ Len(ss[k]) \in Nat
  BY SeqIs
<1>2. /\ off \in [0 .. n -> Nat] /\ off[0] = 0
      /\ \A i \in 1 .. n : off[i] = off[i - 1] + Len(ss[i])
  BY DEF Laid
<1> HIDE DEF n
<1> DEFINE T == {d \in 0 .. n : /\ \A i \in 0 .. d : off[i] <= off[d]
                                /\ \A m \in 1 .. off[d] : \E i \in 1 .. d :
                                     \E k \in 1 .. Len(ss[i]) : m = off[i - 1] + k}
<1>3. 0 \in T
  <2>1. 0 \in 0 .. n /\ (\A i \in 0 .. 0 : i = 0) /\ (\A m \in 1 .. 0 : FALSE)
    BY <1>1
  <2> QED
    BY <1>2, <2>1
<1>4. ASSUME NEW d \in 0 .. n - 1, d \in T
      PROVE  d + 1 \in T
  <2>1. d + 1 \in 1 .. n /\ d + 1 \in 0 .. n /\ (d + 1) - 1 = d /\ d \in 0 .. n
    BY <1>1
  <2>2. off[d + 1] = off[d] + Len(ss[d + 1]) /\ off[d] \in Nat /\ Len(ss[d + 1]) \in Nat
    BY <1>1, <1>2, <2>1
  <2>3. ASSUME NEW i \in 0 .. d + 1
        PROVE  off[i] <= off[d + 1]
    <3>1. CASE i = d + 1
      BY <2>2, <3>1
    <3>2. CASE i # d + 1
      <4>1. i \in 0 .. d /\ i \in 0 .. n
        BY <1>1, <2>1, <3>2
      <4>2. i \in 0 .. d /\ off[i] \in Nat
        BY <1>2, <4>1
      <4>3. off[i] <= off[d]
        BY <1>4, <4>2
      <4> QED
        BY <2>2, <4>2, <4>3
    <3> QED
      BY <3>1, <3>2
  <2>4. ASSUME NEW m \in 1 .. off[d + 1]
        PROVE  \E i \in 1 .. d + 1 : \E k \in 1 .. Len(ss[i]) : m = off[i - 1] + k
    <3>1. CASE m <= off[d]
      <4>1. m \in 1 .. off[d]
        BY <2>2, <3>1
      <4>2. PICK i \in 1 .. d : \E k \in 1 .. Len(ss[i]) : m = off[i - 1] + k
        BY <1>4, <4>1
      <4>3. i \in 1 .. d + 1
        BY <2>1
      <4> QED
        BY <4>2, <4>3
    <3>2. CASE m > off[d]
      <4>1. m - off[d] \in 1 .. Len(ss[d + 1]) /\ m = off[d] + (m - off[d]) /\ d + 1 \in 1 .. d + 1
        BY <2>1, <2>2, <3>2, SMTT(30)
      <4> QED
        BY <2>1, <4>1
    <3> QED
      BY <2>2, <3>1, <3>2
  <2> QED
    BY <2>1, <2>3, <2>4
<1>5. \A d \in 0 .. n : d \in T
  <2> HIDE DEF T
  <2> QED
    BY <1>1, <1>3, <1>4, UpTo
<1>6. n \in 0 .. n
  BY <1>1
<1>7. \A i, j \in 0 .. n : i <= j => off[i] <= off[j]
  <2> SUFFICES ASSUME NEW i \in 0 .. n, NEW j \in 0 .. n, i <= j
               PROVE  off[i] <= off[j]
    OBVIOUS
  <2>1. i \in 0 .. j
    BY <1>1
  <2> QED
    BY <1>5, <2>1
<1>8. \A m \in 1 .. off[n] : \E i \in 1 .. n : \E k \in 1 .. Len(ss[i]) : m = off[i - 1] + k
  BY <1>5, <1>6
<1> QED
  BY <1>7, <1>8 DEF n

\* The Markdown with a marker before each page, one page or not.
AllMarked == FlattenSeq([i \in DOMAIN output |-> Marked(i)])

PartsOn(i) == output[i].parts

\* Page i of the Markdown follows off[i - 1] other parts, its marker first.
OnPage(all, off, i) ==
  /\ off[i] = off[i - 1] + 1 + Len(PartsOn(i))
  /\ all[off[i - 1] + 1].on = i
  /\ all[off[i - 1] + 1].part.kind = "marker" /\ all[off[i - 1] + 1].part.ids[1] = i
  /\ \A k \in 1 .. Len(PartsOn(i)) : /\ all[off[i - 1] + 1 + k].on = i
                                     /\ all[off[i - 1] + 1 + k].part = PartsOn(i)[k]

OnPages(all, off) ==
  /\ IsSeq(all) /\ off \in [0 .. Len(output) -> Nat] /\ off[0] = 0 /\ off[Len(output)] = Len(all)
  /\ \A i \in 1 .. Len(output) : OnPage(all, off, i)
  /\ \A i, j \in 0 .. Len(output) : i <= j => off[i] <= off[j]
  /\ \A m \in 1 .. Len(all) : \E i \in 1 .. Len(output) :
       \E k \in 0 .. Len(PartsOn(i)) : m = off[i - 1] + 1 + k

LEMMA MarkedIs ==
  ASSUME Numbered(output), NEW i \in 1 .. Len(output)
  PROVE  /\ IsSeq(Marked(i)) /\ AreParts(PartsOn(i)) /\ Len(PartsOn(i)) \in Nat
         /\ Len(Marked(i)) = Len(PartsOn(i)) + 1
         /\ Marked(i)[1].on = i /\ Marked(i)[1].part.kind = "marker" /\ Marked(i)[1].part.ids[1] = i
         /\ \A k \in 1 .. Len(PartsOn(i)) : Marked(i)[k + 1].on = i /\ Marked(i)[k + 1].part = PartsOn(i)[k]
<1> DEFINE n == Len(PartsOn(i))
           leaf == [kind |-> "marker", level |-> 0, ids |-> <<output[i].number>>]
<1>1. i \in DOMAIN output
  BY SeqShape DEF Numbered
<1>2. output[i].number = i /\ AreParts(PartsOn(i))
  BY <1>1, NumberedTyped DEF PartsOn
<1>3. n \in Nat
  BY <1>2, SeqShape DEF AreParts
<1>4. Marked(i) = [k \in 1 .. n + 1 |-> [part |-> IF k = 1 THEN leaf ELSE PartsOn(i)[k - 1], on |-> i]]
  BY DEF Marked, PartsOn
<1>5. leaf.kind = "marker" /\ leaf.ids[1] = i
  BY <1>2
<1> HIDE DEF leaf, n
<1>6. n + 1 \in Nat /\ 1 \in 1 .. n + 1 /\ \A k \in 1 .. n : k + 1 \in 1 .. n + 1 /\ k + 1 # 1 /\ (k + 1) - 1 = k
  BY <1>3
<1>7. Marked(i) = [k \in 1 .. n + 1 |-> Marked(i)[k]]
  BY <1>4
<1>8. IsSeq(Marked(i)) /\ Len(Marked(i)) = n + 1
  BY ONLY <1>6, <1>7, FunctionIsSeq
<1>9. Marked(i)[1] = [part |-> leaf, on |-> i]
  BY <1>4, <1>6
<1>10. \A k \in 1 .. n : Marked(i)[k + 1] = [part |-> PartsOn(i)[k], on |-> i]
  BY <1>4, <1>6
<1>11. Marked(i)[1].on = i /\ Marked(i)[1].part = leaf
  BY <1>9
<1>12. ASSUME NEW k \in 1 .. n
       PROVE  Marked(i)[k + 1].on = i /\ Marked(i)[k + 1].part = PartsOn(i)[k]
  <2> DEFINE e == Marked(i)[k + 1]
             p == PartsOn(i)[k]
  <2>1. e = [part |-> p, on |-> i]
    BY <1>10
  <2> HIDE DEF e, p
  <2>2. e.on = i /\ e.part = p
    BY ONLY <2>1
  <2> QED
    BY <2>2 DEF e, p
<1>13. /\ IsSeq(Marked(i)) /\ AreParts(PartsOn(i)) /\ n \in Nat /\ Len(Marked(i)) = n + 1
       /\ Marked(i)[1].on = i /\ Marked(i)[1].part.kind = "marker" /\ Marked(i)[1].part.ids[1] = i
  BY ONLY <1>2, <1>3, <1>5, <1>8, <1>11
<1> QED
  BY ONLY <1>12, <1>13 DEF n

LEMMA PagesLaidOut ==
  ASSUME Numbered(output)
  PROVE  \E off : OnPages(AllMarked, off)
<1> DEFINE n  == Len(output)
           ss == [i \in DOMAIN output |-> Marked(i)]
           S  == UNION {{Marked(i)[k] : k \in DOMAIN Marked(i)} : i \in 1 .. n}
<1>1. n \in Nat /\ DOMAIN output = 1 .. n
  BY SeqShape DEF Numbered
<1>2. \A i \in 1 .. n : /\ IsSeq(Marked(i)) /\ Len(PartsOn(i)) \in Nat /\ Len(Marked(i)) = Len(PartsOn(i)) + 1
                        /\ Marked(i) \in Seq(S)
  <2>1. ASSUME NEW i \in 1 .. n
        PROVE  /\ IsSeq(Marked(i)) /\ Len(PartsOn(i)) \in Nat /\ Len(Marked(i)) = Len(PartsOn(i)) + 1
               /\ Marked(i) \in Seq(S)
    <3> DEFINE Z == {Marked(i)[k] : k \in DOMAIN Marked(i)}
    <3>1. IsSeq(Marked(i)) /\ Len(PartsOn(i)) \in Nat /\ Len(Marked(i)) = Len(PartsOn(i)) + 1
      BY MarkedIs
    <3>2. Marked(i) \in Seq(Z)
      BY <3>1 DEF IsSeq
    <3>3. Z \subseteq S
      OBVIOUS
    <3> HIDE DEF Z, S
    <3>4. Marked(i) \in Seq(S)
      BY <3>2, <3>3
    <3> QED
      BY <3>1, <3>4
  <2> QED
    BY <2>1
<1> HIDE DEF S, n
<1> DEFINE Z == Seq(S)
<1>3. ss \in [1 .. n -> Z] /\ \A i \in 1 .. n : ss[i] = Marked(i)
  BY <1>1, <1>2
<1> HIDE DEF Z
<1>4. ss \in Seq(Z) /\ Len(ss) = n
  BY ONLY <1>1, <1>3, SeqFrom
<1>5. AllMarked = FlattenSeq(ss)
  BY DEF AllMarked
<1> HIDE DEF ss
<1> USE DEF Z
<1>6. PICK off : Laid(ss, off)
  BY <1>4, LaidOut
<1>7. /\ off \in [0 .. n -> Nat] /\ off[0] = 0 /\ off[n] = Len(AllMarked)
      /\ \A i \in 1 .. n : /\ off[i] = off[i - 1] + Len(Marked(i))
                           /\ \A k \in 1 .. Len(Marked(i)) : AllMarked[off[i - 1] + k] = Marked(i)[k]
  BY <1>3, <1>4, <1>5, <1>6 DEF Laid
<1>8. /\ \A i, j \in 0 .. n : i <= j => off[i] <= off[j]
      /\ \A m \in 1 .. off[n] : \E i \in 1 .. n : \E k \in 1 .. Len(ss[i]) : m = off[i - 1] + k
  BY <1>4, <1>6, LaidPlaces
<1>9. IsSeq(AllMarked)
  BY <1>4, <1>5, FlattenIsSeq, SeqElements
<1>10. ASSUME NEW i \in 1 .. n
       PROVE  /\ off[i] = off[i - 1] + 1 + Len(PartsOn(i))
              /\ AllMarked[off[i - 1] + 1] = Marked(i)[1]
              /\ \A k \in 1 .. Len(PartsOn(i)) : AllMarked[off[i - 1] + 1 + k] = Marked(i)[k + 1]
  <2>1. i - 1 \in 0 .. n
    BY ONLY <1>1
  <2>2. i - 1 \in 0 .. n /\ off[i - 1] \in Nat /\ Len(PartsOn(i)) \in Nat /\ Len(Marked(i)) = Len(PartsOn(i)) + 1
    BY <1>2, <1>7, <2>1
  <2>3. 1 \in 1 .. Len(Marked(i)) /\ \A k \in 1 .. Len(PartsOn(i)) :
          k + 1 \in 1 .. Len(Marked(i)) /\ off[i - 1] + 1 + k = off[i - 1] + (k + 1)
    BY <2>2, SMTT(30)
  <2> DEFINE a == off[i - 1]
             b == Len(PartsOn(i))
             c == Len(Marked(i))
  <2>4. off[i] = a + c /\ \A k \in 1 .. c : AllMarked[a + k] = Marked(i)[k]
    BY <1>7
  <2>5. a \in Nat /\ b \in Nat /\ c = b + 1
    BY <2>2
  <2>6. 1 \in 1 .. c /\ \A k \in 1 .. b : k + 1 \in 1 .. c /\ a + 1 + k = a + (k + 1)
    BY <2>3
  <2> HIDE DEF a, b, c
  <2>7. off[i] = a + 1 + b
    BY ONLY <2>4, <2>5
  <2>8. AllMarked[a + 1] = Marked(i)[1] /\ \A k \in 1 .. b : AllMarked[a + 1 + k] = Marked(i)[k + 1]
    BY ONLY <2>4, <2>6
  <2> QED
    BY <2>7, <2>8 DEF a, b
<1>11. ASSUME NEW m \in 1 .. Len(AllMarked)
       PROVE  \E i \in 1 .. n : \E k \in 0 .. Len(PartsOn(i)) : m = off[i - 1] + 1 + k
  <2>1. PICK i \in 1 .. n : \E k \in 1 .. Len(Marked(i)) : m = off[i - 1] + k
    BY <1>3, <1>7, <1>8
  <2>2. PICK k \in 1 .. Len(Marked(i)) : m = off[i - 1] + k
    BY <2>1
  <2>3. i - 1 \in 0 .. n
    BY ONLY <1>1
  <2>4. i - 1 \in 0 .. n /\ off[i - 1] \in Nat /\ Len(PartsOn(i)) \in Nat /\ Len(Marked(i)) = Len(PartsOn(i)) + 1
    BY <1>2, <1>7, <2>3
  <2>5. k - 1 \in 0 .. Len(PartsOn(i)) /\ m = off[i - 1] + 1 + (k - 1)
    BY <2>2, <2>4
  <2> QED
    BY <2>5
<1>12. \A i \in 1 .. n :
         /\ Marked(i)[1].on = i /\ Marked(i)[1].part.kind = "marker" /\ Marked(i)[1].part.ids[1] = i
         /\ \A k \in 1 .. Len(PartsOn(i)) : Marked(i)[k + 1].on = i /\ Marked(i)[k + 1].part = PartsOn(i)[k]
  BY MarkedIs DEF n
<1>13. \A i \in 1 .. n : OnPage(AllMarked, off, i)
  BY ONLY <1>10, <1>12, SMTT(30) DEF OnPage
<1>14. OnPages(AllMarked, off)
  BY ONLY <1>7, <1>8, <1>9, <1>11, <1>13 DEF OnPages, n
<1> QED
  BY <1>14

\* What is at a place of the Markdown.
LEMMA PlaceIs ==
  ASSUME Numbered(output), NEW all, NEW off, OnPages(all, off),
         NEW i \in 1 .. Len(output), NEW k \in 0 .. Len(PartsOn(i))
  PROVE  /\ Len(output) \in Nat /\ Len(all) \in Nat /\ Len(PartsOn(i)) \in Nat
         /\ off[i - 1] \in Nat /\ off[i - 1] + 1 + k \in 1 .. Len(all)
         /\ all[off[i - 1] + 1 + k].on = i
         /\ k = 0 => /\ all[off[i - 1] + 1 + k].part.kind = "marker"
                     /\ all[off[i - 1] + 1 + k].part.ids[1] = i
         /\ k > 0 => /\ all[off[i - 1] + 1 + k].part = PartsOn(i)[k]
                     /\ IsPart(PartsOn(i)[k])
<1> DEFINE a == off[i - 1]
           b == Len(PartsOn(i))
           n == Len(output)
<1>1. n \in Nat /\ Len(all) \in Nat
  BY SeqShape DEF Numbered, OnPages
<1>2. b \in Nat /\ AreParts(PartsOn(i))
  BY MarkedIs
<1>3. i - 1 \in 0 .. n /\ i \in 0 .. n /\ n \in 0 .. n
  BY <1>1
<1>4. OnPage(all, off, i) /\ a \in Nat /\ off[i] <= off[n] /\ off[n] = Len(all)
  BY <1>3, SMTT(30) DEF OnPages
<1>5. off[i] = a + 1 + b /\ all[a + 1].on = i
      /\ all[a + 1].part.kind = "marker" /\ all[a + 1].part.ids[1] = i
      /\ \A j \in 1 .. b : all[a + 1 + j].on = i /\ all[a + 1 + j].part = PartsOn(i)[j]
  BY <1>4 DEF OnPage
<1>6. DOMAIN PartsOn(i) = 1 .. b
  BY <1>2, SeqShape DEF AreParts
<1>7. k > 0 => k \in 1 .. b
  BY <1>2
<1> HIDE DEF a, b, n
<1>8. a + 1 + k \in 1 .. Len(all) /\ (k = 0 => a + 1 + k = a + 1)
  BY <1>1, <1>2, <1>4, <1>5 DEF b
<1>9. k > 0 => IsPart(PartsOn(i)[k])
  BY <1>2, <1>6, <1>7 DEF AreParts
<1>10. all[a + 1 + k].on = i
  BY <1>2, <1>5, <1>7, <1>8 DEF b
<1> QED
  BY <1>1, <1>2, <1>4, <1>5, <1>7, <1>8, <1>9, <1>10 DEF a, b, n

LEMMA EntriesAre ==
  ASSUME Numbered(output), NEW all, NEW off, OnPages(all, off), NEW m \in 1 .. Len(all)
  PROVE  /\ all[m].on \in 1 .. Len(output)
         /\ \/ all[m].part.kind = "marker" /\ all[m].part.ids[1] = all[m].on
            \/ IsPart(all[m].part)
<1>1. PICK i \in 1 .. Len(output) : \E k \in 0 .. Len(PartsOn(i)) : m = off[i - 1] + 1 + k
  BY DEF OnPages
<1>2. PICK k \in 0 .. Len(PartsOn(i)) : m = off[i - 1] + 1 + k
  BY <1>1
<1>3. Len(PartsOn(i)) \in Nat
  BY PlaceIs
<1>4. all[m].on = i
  BY <1>2, PlaceIs
<1>5. CASE k = 0
  <2>1. all[m].part.kind = "marker" /\ all[m].part.ids[1] = i
    BY <1>2, <1>5, PlaceIs
  <2> QED
    BY <1>4, <2>1
<1>6. CASE k > 0
  <2>1. IsPart(all[m].part)
    BY <1>2, <1>6, PlaceIs
  <2> QED
    BY <1>4, <2>1
<1> QED
  BY <1>3, <1>5, <1>6

\* Pages come in their order.
LEMMA PagesRise ==
  ASSUME Numbered(output), NEW all, NEW off, OnPages(all, off),
         NEW m \in 1 .. Len(all), NEW l \in 1 .. Len(all), m <= l
  PROVE  all[m].on <= all[l].on
<1> DEFINE n == Len(output)
<1>1. PICK i \in 1 .. n : \E k \in 0 .. Len(PartsOn(i)) : m = off[i - 1] + 1 + k
  BY DEF OnPages
<1>2. PICK j \in 1 .. n : \E k \in 0 .. Len(PartsOn(j)) : l = off[j - 1] + 1 + k
  BY DEF OnPages
<1>3. PICK k \in 0 .. Len(PartsOn(i)) : m = off[i - 1] + 1 + k
  BY <1>1
<1>4. PICK h \in 0 .. Len(PartsOn(j)) : l = off[j - 1] + 1 + h
  BY <1>2
<1>5. all[m].on = i /\ n \in Nat /\ off[i - 1] \in Nat /\ Len(PartsOn(i)) \in Nat
  BY <1>3, PlaceIs
<1>6. all[l].on = j /\ off[j - 1] \in Nat /\ Len(PartsOn(j)) \in Nat
  BY <1>4, PlaceIs
<1>7. SUFFICES ASSUME j < i
               PROVE  FALSE
  BY <1>5, <1>6
<1>8. j <= i - 1 /\ j \in 0 .. n /\ i - 1 \in 0 .. n
  BY <1>5, <1>7
<1>9. off[j] <= off[i - 1] /\ off[j] = off[j - 1] + 1 + Len(PartsOn(j))
  BY <1>8 DEF OnPages, OnPage
<1> DEFINE a == off[i - 1]
           b == off[j - 1]
           c == Len(PartsOn(i))
           d == Len(PartsOn(j))
<1>10. /\ m = a + 1 + k /\ l = b + 1 + h /\ b + 1 + d <= a /\ m <= l
       /\ a \in Nat /\ b \in Nat /\ c \in Nat /\ d \in Nat /\ k \in 0 .. c /\ h \in 0 .. d
  BY <1>3, <1>4, <1>5, <1>6, <1>9
<1> HIDE DEF a, b, c, d
<1> QED
  BY ONLY <1>10

LEMMA NextPlace ==
  ASSUME Numbered(output), NEW all, NEW off, OnPages(all, off),
         NEW i \in 1 .. Len(output), NEW k \in 0 .. Len(PartsOn(i)), off[i - 1] + 1 + k < Len(all)
  PROVE  \/ k + 1 \in 1 .. Len(PartsOn(i)) /\ off[i - 1] + 1 + k + 1 = off[i - 1] + 1 + (k + 1)
         \/ /\ i + 1 \in 1 .. Len(output) /\ 0 \in 0 .. Len(PartsOn(i + 1))
            /\ off[i - 1] + 1 + k + 1 = off[(i + 1) - 1] + 1 + 0
<1> DEFINE n == Len(output)
           b == Len(PartsOn(i))
           a == off[i - 1]
<1>1. n \in Nat /\ Len(all) \in Nat /\ b \in Nat /\ a \in Nat
  BY PlaceIs
<1>2. off[i] = a + 1 + b /\ off[n] = Len(all)
  BY DEF OnPages, OnPage
<1>3. CASE k < b
  <2>1. k + 1 \in 1 .. b /\ a + 1 + k + 1 = a + 1 + (k + 1)
    BY <1>1, <1>3
  <2> QED
    BY <2>1
<1>4. CASE k = b
  <2>1. i # n
    BY <1>1, <1>2, <1>4
  <2>2. i + 1 \in 1 .. n /\ (i + 1) - 1 = i
    BY <1>1, <2>1
  <2>3. Len(PartsOn(i + 1)) \in Nat
    BY <2>2, MarkedIs
  <2>4. a + 1 + k + 1 = off[i] + 1 + 0 /\ 0 \in 0 .. Len(PartsOn(i + 1))
    BY <1>1, <1>2, <1>4, <2>3
  <2> QED
    BY <2>2, <2>4
<1> QED
  BY <1>1, <1>3, <1>4

(***************************************************************************)
(* How much of the Markdown was read                                       *)
(***************************************************************************)
Fences(i, k) == {j \in 1 .. k : PartsOn(i)[j].kind = "fence"}

EvenUpTo(i, k) == Cardinality(Fences(i, k)) % 2 = 0

LEMMA FencesCount ==
  ASSUME NEW i, NEW k \in Nat
  PROVE  /\ EvenUpTo(i, 0)
         /\ PartsOn(i)[k + 1].kind = "fence" => (EvenUpTo(i, k + 1) <=> ~EvenUpTo(i, k))
         /\ \A l \in Nat : k <= l /\ (\A j \in k + 1 .. l : PartsOn(i)[j].kind # "fence") =>
              (EvenUpTo(i, l) <=> EvenUpTo(i, k))
<1>1. EvenUpTo(i, 0)
  <2>1. Fences(i, 0) = {} /\ Cardinality({}) = 0
    BY FS_EmptySet DEF Fences
  <2> QED
    BY <2>1 DEF EvenUpTo
<1>2. ASSUME PartsOn(i)[k + 1].kind = "fence"
      PROVE  EvenUpTo(i, k + 1) <=> ~EvenUpTo(i, k)
  <2> DEFINE c == Cardinality(Fences(i, k))
  <2>1. Fences(i, k) \subseteq 1 .. k /\ IsFiniteSet(1 .. k)
    BY FS_Interval DEF Fences
  <2>2. IsFiniteSet(Fences(i, k)) /\ c \in Nat
    BY <2>1, FS_Subset, FS_CardinalityType
  <2>3. Fences(i, k + 1) = Fences(i, k) \cup {k + 1} /\ k + 1 \notin Fences(i, k)
    BY <1>2 DEF Fences
  <2>4. Cardinality(Fences(i, k + 1)) = c + 1
    BY <2>2, <2>3, FS_AddElement
  <2> HIDE DEF c
  <2>5. (c + 1) % 2 = 0 <=> ~(c % 2 = 0)
    BY ONLY <2>2
  <2> QED
    BY <2>4, <2>5 DEF EvenUpTo, c
<1>3. ASSUME NEW l \in Nat, k <= l, \A j \in k + 1 .. l : PartsOn(i)[j].kind # "fence"
      PROVE  EvenUpTo(i, l) <=> EvenUpTo(i, k)
  <2>1. \A j \in 1 .. l : j \in 1 .. k \/ j \in k + 1 .. l
    BY <1>3
  <2>2. Fences(i, l) = Fences(i, k)
    BY <1>3, <2>1 DEF Fences
  <2> QED
    BY <2>2 DEF EvenUpTo
<1> QED
  BY <1>1, <1>2, <1>3

\* s is what of the Markdown all is left after pos parts.
Left(all, pos, s) ==
  /\ pos \in 0 .. Len(all) /\ IsSeq(s) /\ Len(s) = Len(all) - pos
  /\ \A j \in 1 .. Len(s) : s[j] = all[pos + j]

\* What is left is on pages from pg on.  If pages close their fences, the next
\* part is outside of code, and on pg unless it is a marker.
Due(all, off, pos, pg) ==
  /\ pg \in Nat
  /\ \A m \in pos + 1 .. Len(all) : pg <= all[m].on
  /\ FencesClosed /\ pos < Len(all) =>
       \E i \in 1 .. Len(output) : \E k \in 0 .. Len(PartsOn(i)) :
         /\ pos + 1 = off[i - 1] + 1 + k
         /\ k > 0 => pg = i /\ EvenUpTo(i, k - 1)

LEMMA LeftShorter ==
  ASSUME NEW all, IsSeq(all), NEW pos, NEW s, Left(all, pos, s), NEW e \in 1 .. Len(s)
  PROVE  Left(all, pos + e, SubSeq(s, e + 1, Len(s)))
<1> DEFINE n == Len(s)
           S == {s[j] : j \in DOMAIN s}
           t == SubSeq(s, e + 1, n)
<1>1. n \in Nat /\ Len(all) \in Nat /\ pos \in 0 .. Len(all) /\ n = Len(all) - pos
  BY SeqShape DEF Left
<1>2. s \in Seq(S)
  BY DEF Left, IsSeq
<1> HIDE DEF S
<1>3. e + 1 \in 1 .. Len(s) + 1 /\ Len(s) \in 0 .. Len(s) /\ e + 1 <= Len(s) + 1
  BY <1>1 DEF n
<1>4. t \in Seq(S) /\ Len(t) = n - (e + 1) + 1 /\ \A j \in 1 .. n - (e + 1) + 1 : t[j] = s[e + 1 + j - 1]
  BY <1>2, <1>3, SubSeqIs DEF n
<1>5. IsSeq(t)
  BY <1>4, SeqElements
<1>6. \A j \in 1 .. n : s[j] = all[pos + j]
  BY DEF Left, n
<1> HIDE DEF t
<1>7. Len(t) = Len(all) - (pos + e) /\ pos + e \in 0 .. Len(all)
  BY <1>1, <1>4 DEF n
<1> HIDE DEF n
<1>8. ASSUME NEW j \in 1 .. Len(t)
      PROVE  t[j] = all[(pos + e) + j]
  <2>1. j \in 1 .. n - (e + 1) + 1 /\ e + 1 + j - 1 = e + j /\ e + j \in 1 .. n /\ pos + (e + j) = (pos + e) + j
    BY <1>1, <1>4, SMTT(30) DEF n
  <2> QED
    BY <1>4, <1>6, <2>1
<1>9. Left(all, pos + e, t)
  BY <1>5, <1>7, <1>8 DEF Left
<1> QED
  BY <1>9 DEF t, n

LEMMA TailLeft ==
  ASSUME NEW all, IsSeq(all), NEW pos, NEW s, Left(all, pos, s), s # <<>>
  PROVE  /\ Left(all, pos + 1, Tail(s)) /\ pos + 1 \in 1 .. Len(all)
         /\ Head(s) = all[pos + 1] /\ Head(s) = s[1] /\ 1 \in 1 .. Len(s)
<1>1. Len(s) \in Nat /\ Len(s) # 0 /\ Len(all) \in Nat
  BY SeqShape DEF Left
<1>2. 1 \in 1 .. Len(s) /\ pos \in Nat
  BY <1>1 DEF Left
<1>3. Left(all, pos + 1, SubSeq(s, 1 + 1, Len(s)))
  BY <1>2, LeftShorter
<1>4. Tail(s) = SubSeq(s, 1 + 1, Len(s))
  <2> DEFINE S == {s[j] : j \in DOMAIN s}
  <2>1. s \in Seq(S)
    BY DEF Left, IsSeq
  <2> HIDE DEF S
  <2>2. Tail(s) \in Seq(S) /\ Len(Tail(s)) = Len(s) - 1 /\ \A j \in 1 .. Len(s) - 1 : Tail(s)[j] = s[j + 1]
    BY <2>1, TailIs
  <2>3. 1 + 1 \in 1 .. Len(s) + 1 /\ Len(s) \in 0 .. Len(s) /\ 1 + 1 <= Len(s) + 1
    BY <1>1
  <2>4. /\ SubSeq(s, 1 + 1, Len(s)) \in Seq(S) /\ Len(SubSeq(s, 1 + 1, Len(s))) = Len(s) - (1 + 1) + 1
        /\ \A j \in 1 .. Len(s) - (1 + 1) + 1 : SubSeq(s, 1 + 1, Len(s))[j] = s[1 + 1 + j - 1]
    BY <2>1, <2>3, SubSeqIs
  <2> DEFINE t == Tail(s)
             u == SubSeq(s, 1 + 1, Len(s))
             n == Len(s)
  <2>5. /\ Len(t) = Len(u) /\ t \in Seq(S) /\ u \in Seq(S) /\ Len(t) = n - 1 /\ n \in Nat
        /\ \A j \in 1 .. n - 1 : t[j] = s[j + 1]
        /\ \A j \in 1 .. n - (1 + 1) + 1 : u[j] = s[1 + 1 + j - 1]
    BY <1>1, <2>2, <2>4
  <2> HIDE DEF t, u, n
  <2>6. ASSUME NEW j \in 1 .. Len(t)
        PROVE  t[j] = u[j]
    <3>1. j \in 1 .. n - 1 /\ j \in 1 .. n - (1 + 1) + 1 /\ 1 + 1 + j - 1 = j + 1
      BY ONLY <2>5
    <3> QED
      BY <2>5, <3>1
  <2>7. t = u
    BY ONLY <2>5, <2>6, SeqEqual
  <2> QED
    BY <2>7 DEF t, u, n
<1>5. Head(s) = s[1]
  <2>1. s \in Seq({s[j] : j \in DOMAIN s})
    BY DEF Left, IsSeq
  <2> QED
    BY <1>1, <2>1, TailIs
<1>6. s[1] = all[pos + 1] /\ pos + 1 \in 1 .. Len(all)
  BY <1>1, <1>2 DEF Left
<1> QED
  BY <1>2, <1>3, <1>4, <1>5, <1>6

LEMMA EvenPages ==
  ASSUME Numbered(output), FencesClosed, NEW i \in 1 .. Len(output)
  PROVE  EvenUpTo(i, Len(PartsOn(i)))
<1>1. i \in DOMAIN output
  BY SeqShape DEF Numbered
<1>2. DOMAIN PartsOn(i) = 1 .. Len(PartsOn(i))
  BY MarkedIs, SeqShape DEF AreParts
<1>3. Cardinality({k \in DOMAIN PartsOn(i) : PartsOn(i)[k].kind = "fence"}) % 2 = 0
  BY <1>1 DEF FencesClosed, PartsOn
<1> QED
  BY <1>2, <1>3 DEF EvenUpTo, Fences

\* After a part outside of code the next one is outside of code.
LEMMA DueAfter ==
  ASSUME Numbered(output), NEW all, NEW off, OnPages(all, off),
         NEW i \in 1 .. Len(output), NEW k \in 0 .. Len(PartsOn(i)),
         NEW pg \in Nat, pg <= i, FencesClosed => pg = i /\ EvenUpTo(i, k)
  PROVE  Due(all, off, off[i - 1] + 1 + k, pg)
<1> DEFINE m == off[i - 1] + 1 + k
<1>1. m \in 1 .. Len(all) /\ all[m].on = i /\ Len(all) \in Nat /\ Len(PartsOn(i)) \in Nat /\ Len(output) \in Nat
  BY PlaceIs
<1>2. m < Len(all) =>
        \/ k + 1 \in 1 .. Len(PartsOn(i)) /\ m + 1 = off[i - 1] + 1 + (k + 1)
        \/ /\ i + 1 \in 1 .. Len(output) /\ 0 \in 0 .. Len(PartsOn(i + 1))
           /\ m + 1 = off[(i + 1) - 1] + 1 + 0
  BY NextPlace
<1> HIDE DEF m
<1>3. ASSUME NEW l \in m + 1 .. Len(all)
      PROVE  pg <= all[l].on
  <2>1. l \in 1 .. Len(all) /\ m <= l
    BY <1>1
  <2>2. all[m].on <= all[l].on /\ all[l].on \in 1 .. Len(output)
    BY <1>1, <2>1, PagesRise, EntriesAre
  <2> QED
    BY <1>1, <2>2
<1>4. ASSUME FencesClosed, m < Len(all)
      PROVE  \E j \in 1 .. Len(output) : \E h \in 0 .. Len(PartsOn(j)) :
               m + 1 = off[j - 1] + 1 + h /\ (h > 0 => pg = j /\ EvenUpTo(j, h - 1))
  <2>1. CASE k + 1 \in 1 .. Len(PartsOn(i)) /\ m + 1 = off[i - 1] + 1 + (k + 1)
    <3>1. k + 1 \in 0 .. Len(PartsOn(i)) /\ (k + 1) - 1 = k
      BY <1>1, <2>1
    <3> QED
      BY <1>4, <2>1, <3>1
  <2>2. CASE /\ i + 1 \in 1 .. Len(output) /\ 0 \in 0 .. Len(PartsOn(i + 1))
             /\ m + 1 = off[(i + 1) - 1] + 1 + 0
    <3>1. ~(0 > 0)
      OBVIOUS
    <3> QED
      BY <2>2, <3>1
  <2> QED
    BY <1>2, <1>4, <2>1, <2>2
<1>5. Due(all, off, m, pg)
  BY <1>3, <1>4 DEF Due
<1> QED
  BY <1>5 DEF m

LEMMA MarkerRead ==
  ASSUME Numbered(output), NEW all, NEW off, OnPages(all, off), NEW pos, NEW pg, NEW s,
         Left(all, pos, s), Due(all, off, pos, pg), s # <<>>, Head(s).part.kind = "marker"
  PROVE  Left(all, pos + 1, Tail(s)) /\ Due(all, off, pos + 1, Head(s).part.ids[1])
<1>1. /\ Left(all, pos + 1, Tail(s)) /\ pos + 1 \in 1 .. Len(all) /\ Head(s) = all[pos + 1]
  BY TailLeft, SMTT(30) DEF OnPages
<1>2. PICK i \in 1 .. Len(output) : \E k \in 0 .. Len(PartsOn(i)) : pos + 1 = off[i - 1] + 1 + k
  BY <1>1 DEF OnPages
<1>3. PICK k \in 0 .. Len(PartsOn(i)) : pos + 1 = off[i - 1] + 1 + k
  BY <1>2
<1>4. k = 0
  <2>1. SUFFICES ASSUME k > 0
                 PROVE  FALSE
    BY PlaceIs
  <2>2. IsPart(all[pos + 1].part)
    BY <1>3, <2>1, PlaceIs, SMTT(30)
  <2> QED
    BY <1>1, <2>2 DEF IsPart
<1>5. Head(s).part.ids[1] = i /\ Len(output) \in Nat
  BY <1>1, <1>3, <1>4, PlaceIs
<1>6. EvenUpTo(i, 0)
  BY FencesCount
<1>7. Due(all, off, off[i - 1] + 1 + k, i)
  <2>1. i \in Nat /\ i <= i
    BY <1>5
  <2> QED
    BY <1>4, <1>6, <2>1, DueAfter
<1> QED
  BY <1>1, <1>3, <1>5, <1>7

\* A part that is neither a marker nor a fence.
LEMMA PartRead ==
  ASSUME Numbered(output), NEW all, NEW off, OnPages(all, off), NEW pos, NEW pg, NEW s,
         Left(all, pos, s), Due(all, off, pos, pg), s # <<>>,
         Head(s).part.kind # "marker", Head(s).part.kind # "fence"
  PROVE  /\ Left(all, pos + 1, Tail(s)) /\ Due(all, off, pos + 1, pg)
         /\ IsPart(Head(s).part) /\ Head(s).on \in Nat /\ pg <= Head(s).on
         /\ FencesClosed => Head(s).on = pg
<1>1. /\ Left(all, pos + 1, Tail(s)) /\ pos + 1 \in 1 .. Len(all) /\ Head(s) = all[pos + 1]
      /\ pos \in 0 .. Len(all)
  <2>1. IsSeq(all)
    BY DEF OnPages
  <2>2. pos \in 0 .. Len(all)
    BY DEF Left
  <2> QED
    BY <2>1, <2>2, TailLeft
<1>2. \E i \in 1 .. Len(output) : \E k \in 0 .. Len(PartsOn(i)) :
        /\ pos + 1 = off[i - 1] + 1 + k
        /\ FencesClosed /\ k > 0 => pg = i /\ EvenUpTo(i, k - 1)
  <2>1. CASE FencesClosed
    <3>1. Len(all) \in Nat
      BY SeqShape DEF OnPages
    <3>2. pos < Len(all)
      BY <1>1, <3>1
    <3> QED
      BY <2>1, <3>2 DEF Due
  <2>2. CASE ~FencesClosed
    BY <1>1, <2>2 DEF OnPages
  <2> QED
    BY <2>1, <2>2
<1>3. PICK i \in 1 .. Len(output) : \E k \in 0 .. Len(PartsOn(i)) :
        /\ pos + 1 = off[i - 1] + 1 + k
        /\ FencesClosed /\ k > 0 => pg = i /\ EvenUpTo(i, k - 1)
  BY <1>2
<1>4. PICK k \in 0 .. Len(PartsOn(i)) :
        /\ pos + 1 = off[i - 1] + 1 + k
        /\ FencesClosed /\ k > 0 => pg = i /\ EvenUpTo(i, k - 1)
  BY <1>3
<1>5. Head(s).on = i /\ Len(PartsOn(i)) \in Nat /\ Len(output) \in Nat
  BY <1>1, <1>4, PlaceIs, SMTT(30)
<1>6. k > 0
  <2>1. k = 0 => Head(s).part.kind = "marker"
    BY <1>1, <1>4, PlaceIs
  <2> QED
    BY <1>5, <2>1
<1>7. Head(s).part = PartsOn(i)[k] /\ IsPart(Head(s).part)
  BY <1>1, <1>4, <1>6, PlaceIs, SMTT(30)
<1>8. pg <= i /\ pg \in Nat
  <2>1. pos + 1 \in pos + 1 .. Len(all)
    BY <1>1
  <2> QED
    BY <1>1, <1>5, <2>1 DEF Due
<1>9. FencesClosed => EvenUpTo(i, k)
  <2>1. k - 1 \in Nat /\ (k - 1) + 1 = k /\ k \in Nat /\ k - 1 <= k /\ \A j \in (k - 1) + 1 .. k : j = k
    BY <1>5, <1>6
  <2>2. EvenUpTo(i, k) <=> EvenUpTo(i, k - 1)
    BY <1>7, <2>1, FencesCount
  <2> QED
    BY <1>4, <1>6, <2>2
<1>10. Due(all, off, off[i - 1] + 1 + k, pg)
  BY <1>4, <1>6, <1>8, <1>9, DueAfter
<1> QED
  BY <1>1, <1>4, <1>5, <1>6, <1>7, <1>8, <1>10

\* A block of code, from a fence to the next or to the end.
LEMMA CodeRead ==
  ASSUME Numbered(output), NEW all, NEW off, OnPages(all, off), NEW pos, NEW pg, NEW s,
         Left(all, pos, s), Due(all, off, pos, pg), s # <<>>, Head(s).part.kind = "fence",
         NEW e, e = Min({Len(s)} \cup {j \in 2 .. Len(s) : s[j].part.kind = "fence"})
  PROVE  /\ e \in 1 .. Len(s) /\ Left(all, pos + e, SubSeq(s, e + 1, Len(s)))
         /\ Due(all, off, pos + e, pg)
         /\ \A j \in 1 .. e : s[j].on \in Nat /\ pg <= s[j].on /\ (FencesClosed => s[j].on = pg)
<1> DEFINE T == {Len(s)} \cup {j \in 2 .. Len(s) : s[j].part.kind = "fence"}
<1>1. /\ Len(s) \in Nat /\ 1 \in 1 .. Len(s) /\ IsSeq(all) /\ Len(all) \in Nat /\ pos \in 0 .. Len(all)
      /\ Len(s) = Len(all) - pos /\ \A j \in 1 .. Len(s) : s[j] = all[pos + j]
      /\ Head(s) = s[1] /\ Len(output) \in Nat
  <2>1. IsSeq(all) /\ IsSeq(s) /\ pos \in 0 .. Len(all) /\ Len(s) = Len(all) - pos
        /\ \A j \in 1 .. Len(s) : s[j] = all[pos + j]
    BY DEF OnPages, Left
  <2>2. Len(s) \in Nat /\ Len(all) \in Nat /\ Len(output) \in Nat
    BY <2>1, SeqShape DEF Numbered
  <2>3. Head(s) = s[1] /\ 1 \in 1 .. Len(s)
    BY <2>1, TailLeft
  <2> QED
    BY <2>1, <2>2, <2>3
<1>2. /\ T \subseteq 1 .. Len(s) /\ T \subseteq Nat /\ T # {} /\ Len(s) \in T
      /\ \A j \in T : j = Len(s) \/ (j \in 2 .. Len(s) /\ s[j].part.kind = "fence")
  BY <1>1
<1>3. \A j \in 2 .. Len(s) : s[j].part.kind = "fence" => j \in T
  OBVIOUS
<1>4. e = Min(T)
  OBVIOUS
<1> HIDE DEF T
<1>5. e \in T /\ e \in 1 .. Len(s) /\ \A j \in T : e <= j
  BY <1>2, <1>4, LeastOf
<1>6. Left(all, pos + e, SubSeq(s, e + 1, Len(s)))
  BY <1>1, <1>5, LeftShorter
<1>7. ASSUME NEW j \in 1 .. e
      PROVE  s[j] = all[pos + j] /\ s[j].on \in Nat /\ pg <= s[j].on
  <2>1. j \in 1 .. Len(s) /\ pos + j \in 1 .. Len(all) /\ pos + j \in pos + 1 .. Len(all)
    BY <1>1, <1>5
  <2>2. s[j] = all[pos + j]
    BY <1>1, <2>1
  <2>3. all[pos + j].on \in 1 .. Len(output)
    BY <2>1, EntriesAre
  <2>4. pg <= all[pos + j].on
    BY <2>1 DEF Due
  <2> QED
    BY <1>1, <2>2, <2>3, <2>4, SMTT(30)
\* Where the last part of the code is.
<1>8. PICK l \in 1 .. Len(output) : \E h \in 0 .. Len(PartsOn(l)) : pos + e = off[l - 1] + 1 + h
  <2>1. pos + e \in 1 .. Len(all)
    BY <1>1, <1>5
  <2> QED
    BY <2>1 DEF OnPages
<1>9. PICK h \in 0 .. Len(PartsOn(l)) : pos + e = off[l - 1] + 1 + h
  BY <1>8
<1>10. all[pos + e].on = l
  BY <1>9, PlaceIs, SMTT(30)
<1>11. pg \in Nat /\ pg <= l
  <2>1. e \in 1 .. e
    BY <1>1, <1>5
  <2> QED
    BY <1>7, <1>10, <2>1 DEF Due
<1>12. CASE ~FencesClosed
  <2>1. Due(all, off, pos + e, pg)
    BY <1>9, <1>11, <1>12, DueAfter
  <2> QED
    BY <1>5, <1>6, <1>7, <1>12, <2>1
<1>13. CASE FencesClosed
  <2>1. pos < Len(all)
    BY <1>1
  <2>2. PICK i \in 1 .. Len(output) : \E k \in 0 .. Len(PartsOn(i)) :
          pos + 1 = off[i - 1] + 1 + k /\ (k > 0 => pg = i /\ EvenUpTo(i, k - 1))
    BY <1>13, <2>1 DEF Due
  <2>3. PICK k \in 0 .. Len(PartsOn(i)) :
          pos + 1 = off[i - 1] + 1 + k /\ (k > 0 => pg = i /\ EvenUpTo(i, k - 1))
    BY <2>2
  <2> DEFINE b == Len(PartsOn(i))
             a == off[i - 1]
             n == Len(s)
             w == Len(all)
  <2>4. a \in Nat /\ b \in Nat /\ k \in 0 .. b /\ pos + 1 = a + 1 + k /\ pos \in Nat
    BY <1>1, <2>3, PlaceIs
  <2>5. k # 0
    <3>1. k = 0 => s[1].part.kind = "marker"
      <4>1. s[1] = all[pos + 1]
        BY <1>1
      <4> QED
        BY <2>3, <4>1, PlaceIs, SMTT(30)
    <3> QED
      BY <1>1, <3>1
  <2> HIDE DEF a, b, n, w
  <2>6. pos = a + k /\ k \in 0 .. b /\ a \in Nat /\ b \in Nat
    BY ONLY <2>4
  <2>7. pg = i /\ EvenUpTo(i, k - 1) /\ k \in 1 .. b /\ k \in Nat
    BY ONLY <2>3, <2>6, <2>5
  <2>8. n \in Nat /\ w \in Nat /\ n = w - pos /\ pos \in Nat /\ e \in 1 .. n /\ e \in Nat
    BY <1>1, <1>5 DEF n, w
  \* The parts of page i from there on.
  <2>9. a \in Nat /\ b \in Nat /\ k \in Nat /\ 1 <= k /\ k <= b /\ pos = a + k
    BY ONLY <2>6, <2>7
  <2>10. ASSUME NEW j \in k .. b
        PROVE  /\ j - k + 1 \in 1 .. n /\ s[j - k + 1].on = i
               /\ s[j - k + 1].part = PartsOn(i)[j] /\ pos + (j - k + 1) = a + 1 + j
    <3>1. j \in 0 .. b /\ j > 0 /\ pos + (j - k + 1) = a + 1 + j
      BY ONLY <2>9, <2>10
    <3>2. a + 1 + j \in 1 .. w /\ all[a + 1 + j].on = i /\ all[a + 1 + j].part = PartsOn(i)[j]
      <4>1. j \in 0 .. Len(PartsOn(i))
        BY <3>1 DEF b
      <4>2. /\ off[i - 1] + 1 + j \in 1 .. Len(all) /\ all[off[i - 1] + 1 + j].on = i
            /\ j > 0 => all[off[i - 1] + 1 + j].part = PartsOn(i)[j]
        BY <4>1, PlaceIs
      <4> QED
        BY <3>1, <4>2 DEF a, w
    <3>3. a + 1 + j <= w /\ j \in Nat /\ k <= j
      BY ONLY <3>1, <3>2, <2>10, <2>9, <2>8
    <3>4. j - k + 1 \in 1 .. n
      BY ONLY <2>8, <2>9, <3>3
    <3>5. s[j - k + 1] = all[a + 1 + j]
      BY <1>1, <3>1, <3>4 DEF n
    <3> QED
      BY <3>1, <3>2, <3>4, <3>5
  <2>11. PartsOn(i)[k].kind = "fence"
    <3>1. k \in k .. b /\ k - k + 1 = 1
      BY ONLY <2>9
    <3> QED
      BY <1>1, <2>10, <3>1, SMTT(30)
  <2>12. ~EvenUpTo(i, k)
    <3>1. k - 1 \in Nat /\ (k - 1) + 1 = k
      BY <2>6, <2>7
    <3> QED
      BY <2>7, <2>11, <3>1, FencesCount
  \* The page closes its fences, so that there is another one on it.
  <2>13. PICK z \in k + 1 .. b : PartsOn(i)[z].kind = "fence"
    <3>1. EvenUpTo(i, b)
      BY <1>13, EvenPages DEF b
    <3>2. k \in Nat /\ b \in Nat /\ k <= b
      BY <2>6, <2>7
    <3>3. (\A j \in k + 1 .. b : PartsOn(i)[j].kind # "fence") => (EvenUpTo(i, b) <=> EvenUpTo(i, k))
      BY <3>2, FencesCount
    <3> QED
      BY <2>12, <3>1, <3>3
  <2>14. e <= z - k + 1
    <3>1. z \in k .. b
      BY <2>6, <2>7
    <3>2. z - k + 1 \in 1 .. n /\ s[z - k + 1].part.kind = "fence"
      BY <2>10, <2>13, <3>1
    <3>3. z - k + 1 \in 2 .. n
      <4>1. z \in k + 1 .. b /\ z - k + 1 <= n
        BY <2>8, <2>13, <3>2
      <4> QED
        BY ONLY <2>8, <2>9, <4>1
    <3> QED
      BY <1>3, <1>5, <3>2, <3>3 DEF n
  <2> DEFINE y == e + k - 1
  <2>15. y \in k .. b /\ y - k + 1 = e /\ y \in Nat
    <3>1. z \in Nat /\ z <= b /\ z >= k + 1
      BY ONLY <2>9, <2>13, SMTT(30)
    <3> QED
      BY ONLY <2>8, <2>9, <2>14, <3>1 DEF y
  <2> HIDE DEF y
  <2>16. y = e + k - 1
    BY DEF y
  <2>17. y > k /\ PartsOn(i)[y].kind = "fence" /\ \A j \in k + 1 .. y - 1 : PartsOn(i)[j].kind # "fence"
    <3>1. e \in 2 .. n /\ s[e].part.kind = "fence"
      <4>1. z \in k .. b
        BY <2>6, <2>7
      <4>2. z - k + 1 \in 1 .. n /\ s[z - k + 1].part.kind = "fence"
        BY <2>10, <2>13, <4>1
      <4>3. z - k + 1 \in 2 .. n
        <5>1. z \in k + 1 .. b /\ z - k + 1 <= n
          BY <2>8, <2>13, <4>2
        <5> QED
          BY ONLY <2>8, <2>9, <5>1
      <4>4. CASE e = n
        <5>1. z - k + 1 = e
          BY ONLY <2>8, <2>9, <2>14, <4>1, <4>3, <4>4
        <5> QED
          BY <4>2, <4>3, <5>1
      <4> QED
        BY <1>2, <1>5, <4>4 DEF n
    <3>2. y > k
      <4>1. e \in 2 .. n
        BY <3>1
      <4> QED
        BY ONLY <2>8, <2>9, <2>16, <4>1
    <3>3. PartsOn(i)[y].kind = "fence"
      BY <2>10, <2>15, <3>1
    <3>4. ASSUME NEW j \in k + 1 .. y - 1, PartsOn(i)[j].kind = "fence"
          PROVE  FALSE
      <4>1. j \in k + 1 .. y - 1 /\ y \in Nat /\ y <= b
        BY <2>9, <2>15
      <4>2. j \in k .. b /\ j \in Nat /\ k + 1 <= j /\ j <= y - 1
        BY ONLY <2>9, <4>1
      <4>3. j - k + 1 \in 1 .. n /\ s[j - k + 1].part.kind = "fence"
        BY <2>10, <3>4, <4>2
      <4>4. j - k + 1 \in 2 .. n /\ j - k + 1 < e
        <5>1. j - k + 1 <= n
          BY <2>8, <4>3
        <5> QED
          BY ONLY <2>8, <2>9, <2>16, <4>1, <4>2, <5>1
      <4>5. e <= j - k + 1
        BY <1>3, <1>5, <4>3, <4>4 DEF n
      <4> QED
        BY ONLY <2>8, <4>4, <4>5
    <3> QED
      BY <3>2, <3>3, <3>4
  <2>18. EvenUpTo(i, y)
    <3>1. k \in Nat /\ y - 1 \in Nat /\ k <= y - 1 /\ (y - 1) + 1 = y
      BY <2>6, <2>7, <2>15, <2>17
    <3>2. \A j \in k + 1 .. y - 1 : PartsOn(i)[j].kind # "fence"
      BY <2>17
    <3>3. EvenUpTo(i, y - 1) <=> EvenUpTo(i, k)
      BY ONLY <3>2, <3>1, FencesCount
    <3>4. PartsOn(i)[(y - 1) + 1].kind = "fence"
      BY <2>17, <3>1
    <3>5. EvenUpTo(i, (y - 1) + 1) <=> ~EvenUpTo(i, y - 1)
      BY ONLY <3>4, <3>1, FencesCount
    <3> QED
      BY <2>12, <3>1, <3>3, <3>5
  <2>19. Due(all, off, pos + e, pg)
    <3>1. y \in 0 .. b /\ pos + e = a + 1 + y /\ i <= i
      BY ONLY <1>11, <2>7, <2>8, <2>9, <2>15, <2>16
    <3>2. Due(all, off, a + 1 + y, pg)
      BY <1>11, <2>7, <2>18, <3>1, DueAfter DEF a, b
    <3> QED
      BY <3>1, <3>2
  <2>20. ASSUME NEW j \in 1 .. e
         PROVE  s[j].on = pg
    <3>1. j + k - 1 \in k .. b /\ (j + k - 1) - k + 1 = j
      BY ONLY <2>8, <2>16, <2>9, <2>15, <2>20
    <3> QED
      BY <2>7, <2>10, <3>1
  <2> QED
    BY <1>5, <1>6, <1>7, <2>19, <2>20
<1> QED
  BY <1>12, <1>13

\* The Markdown when the chunker gets it; the marker of a single page is left
\* out.
LEMMA NothingRead ==
  ASSUME Numbered(output)
  PROVE  \E off, pos : /\ OnPages(AllMarked, off) /\ Left(AllMarked, pos, Markdown)
                       /\ Due(AllMarked, off, pos, 1)
<1> DEFINE all == AllMarked
           n   == Len(output)
<1>1. PICK off : OnPages(all, off)
  BY PagesLaidOut
<1>2. n \in Nat /\ DOMAIN output = 1 .. n /\ IsSeq(all) /\ Len(all) \in Nat /\ off[0] = 0 /\ off[n] = Len(all)
  BY <1>1, SeqShape DEF Numbered, OnPages
<1> HIDE DEF all
<1>3. CASE n = 1
  <2> DEFINE b == Len(PartsOn(1))
             s == Marked(1)
  <2>1. 1 \in 1 .. Len(output) /\ 0 \in 0 .. Len(PartsOn(1)) /\ 1 - 1 = 0
    <3>1. 1 \in 1 .. Len(output)
      BY <1>3
    <3> QED
      BY <3>1, MarkedIs
  <2>2. /\ IsSeq(s) /\ b \in Nat /\ Len(s) = b + 1 /\ s # <<>>
    BY <2>1, MarkedIs, SeqShape
  <2>3. all = s
    <3> DEFINE S == {s[j] : j \in DOMAIN s}
    <3>1. s \in Seq(S)
      BY <2>2 DEF IsSeq
    <3> DEFINE ss == [i \in DOMAIN output |-> Marked(i)]
    <3>2. ss = <<s>>
      BY <1>2, <1>3
    <3> HIDE DEF S, s, ss
    <3>3. FlattenSeq(<<s>>) = s
      <4>1. <<>> \in Seq(Seq(S)) /\ <<s>> = Append(<<>>, s)
        BY <3>1
      <4>2. FlattenSeq(Append(<<>>, s)) = FlattenSeq(<<>>) \o s
        BY <3>1, <4>1, FlattenAppend
      <4>3. <<>> \o s = s
        BY <3>1, <4>1, ConcatAssociates
      <4> QED
        BY <4>1, <4>2, <4>3, FlattenEmpty
    <3>4. all = FlattenSeq(ss)
      BY DEF all, AllMarked, ss
    <3> QED
      BY <3>2, <3>3, <3>4
  <2>4. Markdown = Tail(s)
    BY <1>3 DEF Markdown
  <2> HIDE DEF s, b
  <2>5. Left(all, 0, all)
    <3>1. \A j \in 1 .. Len(all) : all[j] = all[0 + j]
      BY <1>2
    <3> QED
      BY <1>2, <3>1 DEF Left
  <2>6. Left(all, 0 + 1, Tail(all))
    BY <1>2, <2>2, <2>3, <2>5, TailLeft
  <2>7. EvenUpTo(1, 0)
    BY FencesCount
  <2>8. Due(all, off, off[1 - 1] + 1 + 0, 1)
    BY <1>1, <2>1, <2>7, DueAfter
  <2>9. off[1 - 1] + 1 + 0 = 0 + 1
    BY <1>2, <2>1
  <2>10. Due(all, off, 0 + 1, 1)
    BY <2>8, <2>9
  <2> QED
    BY <1>1, <2>3, <2>4, <2>6, <2>10 DEF all
<1>4. CASE n # 1
  <2>1. Markdown = all
    BY <1>4 DEF Markdown, all, AllMarked
  <2>2. Left(all, 0, all)
    <3>1. \A j \in 1 .. Len(all) : all[j] = all[0 + j]
      BY <1>2
    <3> QED
      BY <1>2, <3>1 DEF Left
  <2>3. ASSUME NEW m \in 0 + 1 .. Len(all)
        PROVE  1 <= all[m].on
    <3>1. m \in 1 .. Len(all)
      BY <1>2
    <3>2. all[m].on \in 1 .. n
      BY <1>1, <3>1, EntriesAre
    <3> QED
      BY <1>2, <3>2
  <2>4. ASSUME 0 < Len(all)
        PROVE  \E i \in 1 .. Len(output) : \E k \in 0 .. Len(PartsOn(i)) :
                 0 + 1 = off[i - 1] + 1 + k /\ (k > 0 => 1 = i /\ EvenUpTo(i, k - 1))
    <3>1. n # 0
      BY <1>2, <2>4
    <3>2. 1 \in 1 .. Len(output) /\ 1 - 1 = 0
      BY <1>2, <3>1
    <3>3. Len(PartsOn(1)) \in Nat
      BY <3>2, MarkedIs
    <3>4. 0 \in 0 .. Len(PartsOn(1)) /\ 0 + 1 = off[1 - 1] + 1 + 0 /\ ~(0 > 0)
      BY <1>2, <3>2, <3>3
    <3> QED
      BY <3>2, <3>4
  <2>5. Due(all, off, 0, 1)
    BY <2>3, <2>4 DEF Due
  <2> QED
    BY <1>1, <2>1, <2>2, <2>5 DEF all
<1> QED
  BY <1>3, <1>4

(***************************************************************************)
(* The pages of blocks and chunks                                          *)
(***************************************************************************)
\* A block is not said to be on a page after its own; if closed, it is said
\* to be on the one page it is on.
OnItsPage(b, closed) ==
  /\ b.origin # {} /\ \A o \in b.origin : b.page <= o
  /\ closed => b.origin = {b.page}

OnTheirPages(bs, closed) == \A k \in 1 .. Len(bs) : OnItsPage(bs[k], closed)

ClaimsPages(c, closed) ==
  /\ c.blocks # <<>> /\ OnTheirPages(c.blocks, closed)
  /\ c.page_start = Min(PagesOf(c.blocks)) /\ c.page_end = Max(PagesOf(c.blocks))

Traced(c, closed) ==
  /\ OnTheirPages(c.current, closed)
  /\ \A i \in 1 .. Len(c.chunks) : ClaimsPages(c.chunks[i], closed)

LEMMA MovesTrace ==
  ASSUME NEW c \in Packers, NEW r, Moves(c, r), NEW closed, Traced(c, closed)
  PROVE  Traced(r, closed)
<1>1. CASE KeepsAll(c, r)
  BY <1>1 DEF KeepsAll, Traced
<1>2. ASSUME NEW pre, NEW kept, Emits(c, r, pre, kept)
      PROVE  Traced(r, closed)
  <2> DEFINE e == Chunk([c EXCEPT !.current = pre], Content(pre))
             n == Len(c.chunks)
  <2>1. /\ r.chunks = Append(c.chunks, e) /\ e \in ChunkRecords /\ c.chunks \in Seq(ChunkRecords)
        /\ pre \in Seq(Block) /\ kept \in Seq(Block) /\ pre \o kept = c.current /\ Content(pre) # <<>>
        /\ r.current = kept
    BY <1>2, PackerIs DEF Emits
  <2>2. e.blocks = pre /\ e.page_start = Min(PagesOf(pre)) /\ e.page_end = Max(PagesOf(pre))
    BY DEF Chunk, Packers
  <2> HIDE DEF e
  <2>3. /\ Len(r.chunks) = n + 1 /\ r.chunks[n + 1] = e /\ n \in Nat
        /\ \A i \in 1 .. n : r.chunks[i] = c.chunks[i]
    BY <2>1, AppendIs, SeqIs
  <2>4. /\ Len(pre) \in Nat /\ Len(kept) \in Nat /\ Len(c.current) = Len(pre) + Len(kept)
        /\ \A k \in 1 .. Len(pre) : c.current[k] = pre[k]
        /\ \A k \in 1 .. Len(kept) : c.current[Len(pre) + k] = kept[k]
    <3> DEFINE q == pre \o kept
    <3>1. pre \in Seq(Block) /\ kept \in Seq(Block)
      BY <2>1
    <3>2. /\ Len(pre) \in Nat /\ Len(kept) \in Nat /\ Len(q) = Len(pre) + Len(kept)
          /\ \A k \in 1 .. Len(pre) : q[k] = pre[k]
          /\ \A k \in 1 .. Len(kept) : q[Len(pre) + k] = kept[k]
      BY ONLY <3>1, SeqIs, ConcatIs
    <3>3. q = c.current
      BY <2>1
    <3> HIDE DEF q
    <3> QED
      BY <3>2, <3>3
  <2>5. OnTheirPages(pre, closed) /\ OnTheirPages(kept, closed)
    <3>1. \A k \in 1 .. Len(pre) : k \in 1 .. Len(c.current)
      BY <2>4
    <3>2. \A k \in 1 .. Len(kept) : Len(pre) + k \in 1 .. Len(c.current)
      BY <2>4
    <3> QED
      BY <2>4, <3>1, <3>2 DEF Traced, OnTheirPages
  <2>6. pre # <<>>
    BY <2>1, ContentEmpty
  <2>7. ClaimsPages(e, closed)
    BY <2>2, <2>5, <2>6 DEF ClaimsPages
  <2> HIDE DEF n
  <2>8. ASSUME NEW i \in 1 .. n + 1
        PROVE  ClaimsPages(r.chunks[i], closed)
    <3>1. i \in 1 .. n \/ i = n + 1
      BY <2>3
    <3>2. CASE i \in 1 .. n
      BY <2>3, <3>2 DEF Traced, n
    <3>3. CASE i = n + 1
      BY <2>3, <2>7, <3>3
    <3> QED
      BY <3>1, <3>2, <3>3
  <2> QED
    BY <2>1, <2>3, <2>5, <2>8 DEF Traced
<1> QED
  BY <1>1, <1>2 DEF Moves

LEMMA PackedTraces ==
  ASSUME NEW c \in Packers, NEW b \in Block, NEW closed, Traced(c, closed), OnItsPage(b, closed)
  PROVE  Traced(Packed(c, b), closed)
<1> DEFINE r == Room(c, b)
           d == Packed(c, b)
<1>1. r \in Packers /\ Traced(r, closed)
  BY RoomIs, RoomMoves, MovesTrace
<1>2. d.chunks = r.chunks /\ d.current = Append(r.current, b)
  BY PackedIs
<1> HIDE DEF r, d
<1>3. r.current \in Seq(Block)
  BY <1>1, PackerIs
<1>4. /\ Len(d.current) = Len(r.current) + 1 /\ d.current[Len(r.current) + 1] = b
      /\ \A k \in 1 .. Len(r.current) : d.current[k] = r.current[k]
      /\ Len(r.current) \in Nat
  BY <1>2, <1>3, AppendIs, SeqIs
<1>5. ASSUME NEW k \in 1 .. Len(d.current)
      PROVE  OnItsPage(d.current[k], closed)
  <2>1. k \in 1 .. Len(r.current) \/ k = Len(r.current) + 1
    BY <1>4
  <2>2. CASE k \in 1 .. Len(r.current)
    BY <1>1, <1>4, <2>2 DEF Traced, OnTheirPages
  <2>3. CASE k = Len(r.current) + 1
    BY <1>4, <2>3
  <2> QED
    BY <2>1, <2>2, <2>3
<1> QED
  BY <1>1, <1>2, <1>5 DEF Traced, OnTheirPages, d

\* A chunk claims the pages its blocks are on.
LEMMA ClaimsAreTrue ==
  ASSUME NEW c, NEW closed, IsSeq(c.blocks), ClaimsPages(c, closed),
         \A k \in 1 .. Len(c.blocks) : c.blocks[k].origin \subseteq Nat
  PROVE  /\ \A k \in DOMAIN c.blocks : c.blocks[k].page <= Min(c.blocks[k].origin)
         /\ closed => LET truth == UNION {c.blocks[k].origin : k \in DOMAIN c.blocks} IN
              c.page_start = Min(truth) /\ c.page_end = Max(truth)
<1>1. DOMAIN c.blocks = 1 .. Len(c.blocks)
  BY SeqShape
<1>2. ASSUME NEW k \in DOMAIN c.blocks
      PROVE  c.blocks[k].page <= Min(c.blocks[k].origin)
  <2> DEFINE T == c.blocks[k].origin
  <2>1. T \subseteq Nat /\ T # {} /\ \A o \in T : c.blocks[k].page <= o
    BY <1>1, <1>2 DEF ClaimsPages, OnTheirPages, OnItsPage
  <2> HIDE DEF T
  <2>2. Min(T) \in T
    BY <2>1, LeastOf
  <2> QED
    BY <2>1, <2>2 DEF T
<1>3. ASSUME closed
      PROVE  UNION {c.blocks[k].origin : k \in DOMAIN c.blocks} = PagesOf(c.blocks)
  <2>1. \A k \in DOMAIN c.blocks : c.blocks[k].origin = {c.blocks[k].page}
    BY <1>1, <1>3 DEF ClaimsPages, OnTheirPages, OnItsPage
  <2> QED
    BY <2>1 DEF PagesOf
<1> QED
  BY <1>2, <1>3 DEF ClaimsPages

(***************************************************************************)
(* The extractors and the chunker together                                 *)
(***************************************************************************)
Nothing == /\ script = <<>> /\ pending = <<>>
           /\ packer.chunks = <<>> /\ packer.current = <<>>

\* The chunker reads what the extractor left, and nothing before that; what it
\* holds is on its page.
ReadingInv ==
  /\ source.kind = "text" => outcome = "running"
  /\ joined => /\ outcome = "done"
               /\ \E off, pos : /\ OnPages(AllMarked, off) /\ Left(AllMarked, pos, script)
                                /\ Due(AllMarked, off, pos, page)
  /\ ~joined => script = <<>> /\ page = 1
  /\ ~joined /\ source.kind # "text" => Nothing
  /\ OnTheirPages(pending, FencesClosed)
  /\ Traced(packer, FencesClosed)

ExtractionInv == LoopsInv /\ ChunkingInv /\ ReadingInv

LEMMA ReadingStarts == ExtractionInit => ReadingInv
<1> SUFFICES ASSUME ExtractionInit
             PROVE  ReadingInv
  OBVIOUS
<1>1. /\ script = <<>> /\ page = 1 /\ joined = FALSE /\ outcome = "running"
      /\ pending = <<>> /\ packer.chunks = <<>> /\ packer.current = <<>>
  BY DEF ExtractionInit, ExtractorsInit, Init
<1>2. OnTheirPages(pending, FencesClosed) /\ Traced(packer, FencesClosed)
  BY <1>1 DEF OnTheirPages, Traced
<1> QED
  BY <1>1, <1>2 DEF ReadingInv, Nothing

\* Where the blocks are depends on the pages only.
LEMMA SamePages ==
  ASSUME UNCHANGED output
  PROVE  /\ AllMarked' = AllMarked /\ FencesClosed' = FencesClosed
         /\ \A all, off : OnPages(all, off)' <=> OnPages(all, off)
         /\ \A all, off, pos, pg : Due(all, off, pos, pg)' <=> Due(all, off, pos, pg)
<1>1. \A i : PartsOn(i)' = PartsOn(i) /\ Marked(i)' = Marked(i)
  BY DEF PartsOn, Marked
<1>2. AllMarked' = AllMarked
  BY <1>1 DEF AllMarked
<1>3. FencesClosed' = FencesClosed
  BY DEF FencesClosed
<1>4. ASSUME NEW all, NEW off
      PROVE  OnPages(all, off)' <=> OnPages(all, off)
  <2>1. \A i : OnPage(all, off, i)' <=> OnPage(all, off, i)
    BY <1>1 DEF OnPage
  <2>2. Len(output)' = Len(output)
    OBVIOUS
  <2> QED
    BY <1>1, <2>1, <2>2, Zenon DEF OnPages
<1>5. ASSUME NEW all, NEW off, NEW pos, NEW pg
      PROVE  Due(all, off, pos, pg)' <=> Due(all, off, pos, pg)
  <2>1. \A i, k : EvenUpTo(i, k)' <=> EvenUpTo(i, k)
    BY <1>1 DEF EvenUpTo, Fences
  <2>2. FencesClosed' <=> FencesClosed
    BY <1>3
  <2> QED
    BY <1>1, <2>1, <2>2 DEF Due
<1> QED
  BY <1>2, <1>3, <1>4, <1>5

LEMMA LoopRuns ==
  ASSUME source \in Sources, LoopNext
  PROVE  outcome = "running" /\ source.kind # "text" /\ source' = source
<1>1. source.layout => source.kind # "text"
  BY SourcesAssumption
<1>2. CASE MailNext
  BY <1>2 DEF MailNext, ReadMessage, SkipAttachment, AttachmentFails, ExtractAttachment, FinishMail,
              AtAttachment, Running
<1>3. CASE ImageNext
  BY <1>3 DEF ImageNext, ImageUnread, TooManyFrames, ReadFrame, FinishImage, Running
<1>4. CASE LayoutNext
  BY <1>1, <1>4 DEF LayoutNext, ConvertBatch, FinishLayout, InLayout
<1>5. CASE OfficeNext
  BY <1>5 DEF OfficeNext, OpenSlide, ReadPicture, PictureFails, FinishOffice, AtPicture, Running
<1>6. CASE SheetNext
  BY <1>6 DEF SheetNext, ReadSheet, FinishWorkbook, Running
<1>7. CASE Stop
  BY <1>1, <1>7 DEF Stop, MayStop, AtAttachment, AtPicture, InLayout, Running
<1> QED
  BY <1>2, <1>3, <1>4, <1>5, <1>6, <1>7 DEF LoopNext

\* As long as the extractor works, the chunker has nothing.
LEMMA ExtractingReads ==
  ASSUME ReadingInv, outcome = "running", source.kind # "text", source' = source,
         UNCHANGED <<script, page, joined, vars>>
  PROVE  ReadingInv'
<1>1. ~joined /\ Nothing /\ script = <<>> /\ page = 1
  BY DEF ReadingInv
<1>2. /\ script' = <<>> /\ page' = 1 /\ ~joined' /\ pending' = <<>>
      /\ packer'.chunks = <<>> /\ packer'.current = <<>> /\ source'.kind # "text"
  BY <1>1 DEF Nothing, vars
<1>3. OnTheirPages(pending, FencesClosed)' /\ Traced(packer, FencesClosed)'
  BY <1>2 DEF OnTheirPages, Traced
<1> QED
  BY <1>2, <1>3 DEF ReadingInv, Nothing

LEMMA JoiningReads ==
  ASSUME ReadingInv, Numbered(output), JoinPages
  PROVE  ReadingInv'
<1>1. /\ outcome = "done" /\ ~joined /\ joined' /\ script' = Markdown
      /\ UNCHANGED <<page, output, source, outcome, pending, packer>>
  BY DEF JoinPages, loopvars, vars
<1>2. page' = 1 /\ source.kind # "text"
  BY <1>1 DEF ReadingInv
<1>3. PICK off, pos : /\ OnPages(AllMarked, off) /\ Left(AllMarked, pos, Markdown)
                      /\ Due(AllMarked, off, pos, 1)
  BY NothingRead
<1>4. /\ OnPages(AllMarked, off)' /\ Due(AllMarked, off, pos, page)'
      /\ Left(AllMarked, pos, script)'
  BY <1>1, <1>2, <1>3, SamePages DEF Left
<1>5. OnTheirPages(pending, FencesClosed)' /\ Traced(packer, FencesClosed)'
  BY <1>1, SamePages DEF ReadingInv, OnTheirPages, Traced
<1> QED
  BY <1>1, <1>2, <1>4, <1>5 DEF ReadingInv

\* What is read when something is left to be read.
LEMMA ReadingOn ==
  ASSUME ReadingInv, LoopsInv, script # <<>>
  PROVE  /\ joined /\ outcome = "done" /\ source.kind # "text" /\ Numbered(output)
         /\ \E off, pos : /\ OnPages(AllMarked, off) /\ Left(AllMarked, pos, script)
                          /\ Due(AllMarked, off, pos, page)
<1>1. joined /\ outcome = "done"
  BY DEF ReadingInv
<1>2. source.kind # "text"
  BY <1>1 DEF ReadingInv
<1>3. Numbered(output)
  BY Before DEF LoopsInv
<1> QED
  BY <1>1, <1>2, <1>3 DEF ReadingInv

\* What a step of the reader must show.
LEMMA ReadingKept ==
  ASSUME ReadingInv, joined, NEW off, NEW pos, OnPages(AllMarked, off),
         Left(AllMarked, pos, script'), Due(AllMarked, off, pos, page'),
         UNCHANGED <<loopvars, joined, packer>>, OnTheirPages(pending', FencesClosed)
  PROVE  ReadingInv'
<1>1. UNCHANGED <<output, source, outcome, joined, packer>> /\ outcome = "done"
  BY DEF loopvars, ReadingInv
<1>2. OnPages(AllMarked, off)' /\ Due(AllMarked, off, pos, page)' /\ Left(AllMarked, pos, script)'
  BY <1>1, SamePages DEF Left
<1>3. OnTheirPages(pending, FencesClosed)' /\ Traced(packer, FencesClosed)'
  BY <1>1, SamePages DEF ReadingInv, OnTheirPages, Traced
<1>4. (source.kind = "text" => outcome = "running")' /\ joined'
  BY <1>1 DEF ReadingInv
<1> QED
  BY <1>1, <1>2, <1>3, <1>4 DEF ReadingInv

LEMMA MarkerReads ==
  ASSUME ReadingInv, LoopsInv, ReadMarker
  PROVE  ReadingInv'
<1>1. /\ script # <<>> /\ Head(script).part.kind = "marker" /\ pending = <<>>
      /\ page' = Head(script).part.ids[1] /\ script' = Tail(script)
      /\ UNCHANGED <<loopvars, joined, packer, pending>>
  BY DEF ReadMarker, Comes, vars
<1>2. /\ joined /\ Numbered(output)
      /\ \E off, pos : /\ OnPages(AllMarked, off) /\ Left(AllMarked, pos, script)
                       /\ Due(AllMarked, off, pos, page)
  BY <1>1, ReadingOn
<1>3. PICK off, pos : /\ OnPages(AllMarked, off) /\ Left(AllMarked, pos, script)
                      /\ Due(AllMarked, off, pos, page)
  BY <1>2
<1>4. Left(AllMarked, pos + 1, script') /\ Due(AllMarked, off, pos + 1, page')
  BY <1>1, <1>2, <1>3, MarkerRead
<1>5. OnTheirPages(pending', FencesClosed)
  BY <1>1 DEF OnTheirPages
<1> QED
  BY <1>1, <1>2, <1>3, <1>4, <1>5, ReadingKept

\* A block that is not a heading is a shape, with whatever title.
LEMMA TextReadable ==
  ASSUME NEW kind \in {"paragraph", "table", "code"}, NEW units \in Seq(Nat), NEW header \in Nat,
         header > 0 => kind = "table" /\ units # <<>>
  PROVE  [kind |-> kind, units |-> units, header |-> header, level |-> 0, title |-> "none"] \in Readable
<1>1. "none" \in Names
  BY DEF Names
<1>2. kind \in Kinds
  BY DEF Kinds
<1> DEFINE s == [kind |-> kind, units |-> units, header |-> header, level |-> 0, title |-> "none"]
<1>3. s \in [kind : Kinds, units : Seq(Nat), header : Nat, level : Nat, title : Names]
  BY <1>1, <1>2
<1>4. s.header > 0 => s.kind = "table" /\ s.units # <<>>
  OBVIOUS
<1> QED
  BY <1>3, <1>4 DEF Readable

LEMMA ShapesOfParts ==
  ASSUME NEW part, IsPart(part), part.kind # "fence", NEW title \in Names
  PROVE  Shape(part, title) \in Readable
<1> DEFINE n == Len(part.ids)
           units(k) == [i \in 1 .. k |-> LineTokens]
<1>1. n \in Nat /\ LineTokens \in Nat
  BY SeqShape, ExtractionAssumption DEF IsPart
<1>2. \A k \in Nat : units(k) \in Seq(Nat) /\ (k > 0 => units(k) # <<>>)
  BY <1>1
<1> HIDE DEF n, units
<1>3. CASE part.kind = "heading"
  <2>1. Shape(part, title) = [kind |-> "heading", units |-> <<n * LineTokens>>, header |-> 0, level |-> part.level, title |-> title]
    BY <1>3 DEF Shape, n
  <2>2. part.level \in Nat /\ n * LineTokens \in Nat
    BY <1>1, <1>3 DEF IsPart
  <2>3. <<n * LineTokens>> \in Seq(Nat)
    BY <2>2
  <2> QED
    BY <2>1, <2>2, <2>3 DEF Readable, Kinds
<1>4. CASE part.kind = "table" /\ n > 1
  <2>1. Shape(part, title) = [kind |-> "table", units |-> units(n - 1), header |-> LineTokens, level |-> 0, title |-> "none"]
    BY <1>4 DEF Shape, n, units
  <2>2. n - 1 \in Nat /\ n - 1 > 0
    BY <1>1, <1>4
  <2>3. units(n - 1) \in Seq(Nat) /\ units(n - 1) # <<>>
    BY <1>2, <2>2
  <2> QED
    BY <1>1, <2>1, <2>3, TextReadable
<1>5. CASE part.kind = "table" /\ n <= 1
  <2>1. Shape(part, title) = [kind |-> "table", units |-> units(n), header |-> 0, level |-> 0, title |-> "none"]
    <3>1. ~(n > 1)
      BY <1>1, <1>5
    <3> QED
      BY <1>5, <3>1 DEF Shape, n, units
  <2>2. units(n) \in Seq(Nat)
    BY <1>1, <1>2
  <2> QED
    BY <1>1, <2>1, <2>2, TextReadable
<1>6. CASE part.kind \in {"paragraph", "list"}
  <2>1. Shape(part, title) = [kind |-> "paragraph", units |-> units(n), header |-> 0, level |-> 0, title |-> "none"]
    BY <1>6 DEF Shape, n, units
  <2>2. units(n) \in Seq(Nat)
    BY <1>1, <1>2
  <2> QED
    BY <1>1, <2>1, <2>2, TextReadable
<1> QED
  BY <1>1, <1>3, <1>4, <1>5, <1>6 DEF IsPart

\* The parts of a block are where the block is.
LEMMA PlacedParts ==
  ASSUME NEW s \in Readable, NEW place \in Places, ChunkingInv, Read(s, place),
         NEW closed, place.origin # {}, \A o \in place.origin : place.page <= o,
         closed => place.origin = {place.page}
  PROVE  OnTheirPages(pending', closed) /\ packer' = packer
<1> DEFINE n     == Len(document) + 1
           stack == StackFor(document, headings, s)
           ps    == Parts(s, n, stack, place)
<1>1. pending' = ps /\ packer' = packer
  BY DEF Read, StackFor
<1>2. n \in Nat /\ stack \in Seq(Heads)
  <2>1. document \in Seq(Readable) /\ headings \in Seq(Heads) /\ Ranked(headings, document)
    BY DEF ChunkingInv, ChunkingTypes
  <2> QED
    BY <2>1, SeqIs, StackForIs
<1> HIDE DEF n, stack
<1>3. PartsOf(s, n, stack, place, ps)
  BY <1>2, PartsAre
<1> HIDE DEF ps
<1>4. \A k \in 1 .. Len(ps) : ps[k].page = place.page /\ ps[k].origin = place.origin
  BY <1>3 DEF PartsOf
<1>5. OnTheirPages(ps, closed)
  BY <1>4 DEF OnTheirPages, OnItsPage
<1> QED
  BY <1>1, <1>5

LEMMA PartReads ==
  ASSUME ReadingInv, LoopsInv, ChunkingInv, ReadPart
  PROVE  ReadingInv' /\ ChunkingInv'
<1> DEFINE part  == Head(script).part
           place == Place({Head(script).on})
<1>1. /\ script # <<>> /\ part.kind \in {"heading", "table", "paragraph", "list"}
      /\ (\E title \in Titles : Read(Shape(part, title), place)) /\ script' = Tail(script)
      /\ UNCHANGED <<loopvars, page, joined>>
  BY DEF ReadPart, Comes
<1>2. /\ joined /\ Numbered(output)
      /\ \E off, pos : /\ OnPages(AllMarked, off) /\ Left(AllMarked, pos, script)
                       /\ Due(AllMarked, off, pos, page)
  BY <1>1, ReadingOn
<1>3. PICK off, pos : /\ OnPages(AllMarked, off) /\ Left(AllMarked, pos, script)
                      /\ Due(AllMarked, off, pos, page)
  BY <1>2
<1>4. part.kind \notin {"marker", "fence"}
  BY <1>1
<1> HIDE DEF part, place
<1>5. /\ Left(AllMarked, pos + 1, Tail(script)) /\ Due(AllMarked, off, pos + 1, page)
      /\ IsPart(part) /\ Head(script).on \in Nat /\ page <= Head(script).on
      /\ FencesClosed => Head(script).on = page
  <2>1. /\ Numbered(output) /\ OnPages(AllMarked, off) /\ Left(AllMarked, pos, script)
        /\ Due(AllMarked, off, pos, page) /\ script # <<>>
        /\ Head(script).part.kind # "marker" /\ Head(script).part.kind # "fence"
    BY <1>1, <1>2, <1>3, <1>4 DEF part
  <2>2. /\ Left(AllMarked, pos + 1, Tail(script)) /\ Due(AllMarked, off, pos + 1, page)
        /\ IsPart(Head(script).part) /\ Head(script).on \in Nat /\ page <= Head(script).on
        /\ FencesClosed => Head(script).on = page
    BY ONLY <2>1, PartRead
  <2> QED
    BY <2>2 DEF part
<1>6. PICK title \in Titles : Read(Shape(part, title), place)
  BY <1>1
<1> DEFINE shape == Shape(part, title)
<1>7. title \in Names
  BY <1>6, ExtractionAssumption DEF Names
<1>8. shape \in Readable /\ Read(shape, place)
  BY <1>4, <1>5, <1>6, <1>7, ShapesOfParts
<1> HIDE DEF shape
<1>9. place \in Places /\ place.page = page /\ place.origin = {Head(script).on}
  BY <1>3, <1>5 DEF Place, Places, Due, place
<1>10. Due(AllMarked, off, pos + 1, page') /\ Left(AllMarked, pos + 1, script')
  BY <1>1, <1>5
<1>11. /\ place.origin # {} /\ (\A o \in place.origin : place.page <= o)
       /\ FencesClosed => place.origin = {place.page}
  BY <1>5, <1>9
<1>12. OnTheirPages(pending', FencesClosed) /\ packer' = packer
  BY <1>1, <1>8, <1>9, <1>11, PlacedParts
<1>13. ReadingInv'
  BY <1>1, <1>2, <1>3, <1>10, <1>12, ReadingKept
<1>14. ChunkingInv'
  BY <1>1, <1>8, <1>9, ReadKeeps
<1> QED
  BY <1>13, <1>14

LEMMA FenceReads ==
  ASSUME ReadingInv, LoopsInv, ChunkingInv, ReadFence
  PROVE  ReadingInv' /\ ChunkingInv'
<1> DEFINE e     == FenceEnd
           code  == [kind |-> "code", units |-> [i \in 1 .. e |-> LineTokens], header |-> 0, level |-> 0, title |-> "none"]
           place == Place({script[i].on : i \in 1 .. e})
<1>1. /\ script # <<>> /\ Head(script).part.kind = "fence"
      /\ Read(code, place) /\ script' = SubSeq(script, e + 1, Len(script))
      /\ UNCHANGED <<loopvars, page, joined>>
  BY DEF ReadFence, Comes
<1>2. /\ joined /\ Numbered(output)
      /\ \E off, pos : /\ OnPages(AllMarked, off) /\ Left(AllMarked, pos, script)
                       /\ Due(AllMarked, off, pos, page)
  BY <1>1, ReadingOn
<1>3. PICK off, pos : /\ OnPages(AllMarked, off) /\ Left(AllMarked, pos, script)
                      /\ Due(AllMarked, off, pos, page)
  BY <1>2
<1>4. e = Min({Len(script)} \cup {j \in 2 .. Len(script) : script[j].part.kind = "fence"})
  BY DEF FenceEnd
<1> HIDE DEF e
<1>5. /\ e \in 1 .. Len(script) /\ Left(AllMarked, pos + e, SubSeq(script, e + 1, Len(script)))
      /\ Due(AllMarked, off, pos + e, page)
      /\ \A j \in 1 .. e : /\ script[j].on \in Nat /\ page <= script[j].on
                           /\ FencesClosed => script[j].on = page
  <2>1. /\ Numbered(output) /\ OnPages(AllMarked, off) /\ Left(AllMarked, pos, script)
        /\ Due(AllMarked, off, pos, page) /\ script # <<>> /\ Head(script).part.kind = "fence"
    BY <1>1, <1>2, <1>3
  <2> QED
    BY ONLY <1>4, <2>1, CodeRead
<1>6. e \in Nat /\ e > 0 /\ 1 \in 1 .. e
  <2>1. Len(script) \in Nat
    BY <1>3, SeqShape DEF Left
  <2> QED
    BY <1>5, <2>1
<1>7. code \in Readable
  <2> DEFINE units == [i \in 1 .. e |-> LineTokens]
  <2>1. units \in Seq(Nat)
    <3>1. LineTokens \in Nat
      BY ExtractionAssumption
    <3> QED
      BY <1>6, <3>1
  <2> HIDE DEF units
  <2>2. code = [kind |-> "code", units |-> units, header |-> 0, level |-> 0, title |-> "none"]
    BY DEF units
  <2> HIDE DEF code
  <2> QED
    BY <2>1, <2>2, TextReadable
<1>8. place.page = page /\ place.origin = {script[i].on : i \in 1 .. e}
  BY DEF Place
<1>9. place \in Places
  <2>1. page \in Nat /\ {script[i].on : i \in 1 .. e} \in SUBSET Nat
    BY <1>3, <1>5 DEF Due
  <2> QED
    BY <2>1 DEF Place, Places
<1> HIDE DEF code, place
<1>10. /\ place.origin # {} /\ (\A o \in place.origin : place.page <= o)
       /\ FencesClosed => place.origin = {place.page}
  BY <1>5, <1>6, <1>8
<1>11. OnTheirPages(pending', FencesClosed) /\ packer' = packer
  BY <1>1, <1>7, <1>9, <1>10, PlacedParts
<1>12. Due(AllMarked, off, pos + e, page') /\ Left(AllMarked, pos + e, script')
  BY <1>1, <1>5
<1>13. ReadingInv'
  BY <1>1, <1>2, <1>3, <1>11, <1>12, ReadingKept
<1>14. ChunkingInv'
  BY <1>1, <1>7, <1>9, ReadKeeps
<1> QED
  BY <1>13, <1>14

\* A document that one of the parsers wrote is one page.
LEMMA AnyReads ==
  ASSUME ReadingInv, ChunkingInv, ReadAny
  PROVE  ReadingInv' /\ ChunkingInv'
<1>1. PICK s \in Shapes : Read(s, Place({1}))
  BY DEF ReadAny
<1>2. source.kind = "text" /\ UNCHANGED <<loopvars, script, page, joined>>
  BY DEF ReadAny
<1>3. ~joined /\ page = 1 /\ script = <<>> /\ outcome = "running"
  BY <1>2 DEF ReadingInv
<1> DEFINE place == Place({1})
<1>4. place \in Places /\ place.page = 1 /\ place.origin = {1}
  BY <1>3 DEF Place, Places
<1>5. Read(s, place) /\ s \in Readable
  BY <1>1, ShapesAreReadable
<1> HIDE DEF place
<1>6. /\ place.origin # {} /\ (\A o \in place.origin : place.page <= o)
      /\ FencesClosed => place.origin = {place.page}
  BY <1>4
<1>7. OnTheirPages(pending', FencesClosed) /\ packer' = packer
  BY <1>4, <1>5, <1>6, PlacedParts
<1>8. /\ UNCHANGED output /\ source'.kind = "text" /\ outcome' = "running" /\ ~joined'
      /\ script' = <<>> /\ page' = 1
  BY <1>2, <1>3 DEF loopvars
<1>9. OnTheirPages(pending, FencesClosed)' /\ Traced(packer, FencesClosed)'
  BY <1>7, <1>8, SamePages DEF ReadingInv, OnTheirPages, Traced
<1>10. ReadingInv'
  BY <1>8, <1>9 DEF ReadingInv
<1>11. ChunkingInv'
  BY <1>4, <1>5, ReadKeeps
<1> QED
  BY <1>10, <1>11

\* What a step of the packer must show.
LEMMA PackingKept ==
  ASSUME ReadingInv, UNCHANGED <<loopvars, script, page, joined>>, joined \/ source.kind = "text",
         OnTheirPages(pending', FencesClosed), Traced(packer', FencesClosed)
  PROVE  ReadingInv'
<1>1. UNCHANGED <<output, source, outcome, script, page, joined>>
  BY DEF loopvars
<1>2. OnTheirPages(pending, FencesClosed)' /\ Traced(packer, FencesClosed)'
  BY <1>1, SamePages DEF OnTheirPages, Traced
<1>3. CASE joined
  <2>1. outcome = "done"
    BY <1>3 DEF ReadingInv
  <2>2. PICK off, pos : /\ OnPages(AllMarked, off) /\ Left(AllMarked, pos, script)
                        /\ Due(AllMarked, off, pos, page)
    BY <1>3 DEF ReadingInv
  <2>3. OnPages(AllMarked, off)' /\ Due(AllMarked, off, pos, page)' /\ Left(AllMarked, pos, script)'
    BY <1>1, <2>2, SamePages DEF Left
  <2>4. (source.kind = "text" => outcome = "running")' /\ joined' /\ outcome' = "done"
    BY <1>1, <1>3, <2>1 DEF ReadingInv
  <2> QED
    BY <1>2, <2>3, <2>4 DEF ReadingInv
<1>4. CASE ~joined
  <2>1. /\ source'.kind = "text" /\ outcome' = "running" /\ ~joined' /\ script' = <<>> /\ page' = 1
    BY <1>1, <1>4 DEF ReadingInv
  <2> QED
    BY <1>2, <2>1 DEF ReadingInv
<1> QED
  BY <1>3, <1>4

LEMMA PackReads ==
  ASSUME ReadingInv, ChunkingInv, PackBlock
  PROVE  ReadingInv' /\ ChunkingInv'
<1> DEFINE b == Head(pending)
<1>1. /\ pending # <<>> /\ packer' = Packed(packer, b) /\ pending' = Tail(pending)
      /\ UNCHANGED <<loopvars, script, page, joined>> /\ Pack
  BY DEF PackBlock, Pack, Packed
<1>2. pending \in Seq(Block) /\ packer \in Packers
  BY DEF ChunkingInv, ChunkingTypes
<1>3. /\ b \in Block /\ b = pending[1] /\ Len(pending) \in Nat /\ 1 \in 1 .. Len(pending)
      /\ Len(Tail(pending)) = Len(pending) - 1
      /\ \A k \in 1 .. Len(Tail(pending)) : Tail(pending)[k] = pending[k + 1] /\ k + 1 \in 1 .. Len(pending)
  BY <1>1, <1>2
<1> HIDE DEF b
<1>4. joined \/ source.kind = "text"
  BY <1>1 DEF ReadingInv, Nothing
<1>5. OnTheirPages(pending', FencesClosed)
  BY <1>1, <1>3 DEF ReadingInv, OnTheirPages
<1>6. OnItsPage(b, FencesClosed)
  BY <1>3 DEF ReadingInv, OnTheirPages
<1>7. Traced(packer, FencesClosed)
  BY DEF ReadingInv
<1>8. Traced(packer', FencesClosed)
  BY <1>1, <1>2, <1>3, <1>6, <1>7, PackedTraces
<1>9. ReadingInv'
  BY <1>1, <1>4, <1>5, <1>8, PackingKept
<1>10. ChunkingInv'
  BY <1>1, PackKeeps
<1> QED
  BY <1>9, <1>10

LEMMA FinishReads ==
  ASSUME ReadingInv, ChunkingInv, FinishChunks
  PROVE  ReadingInv' /\ ChunkingInv'
<1>1. /\ joined \/ source.kind = "text"
      /\ pending = <<>> /\ pending' = pending /\ packer' = Flush(packer)
      /\ UNCHANGED <<loopvars, script, page, joined>> /\ Finish
  BY DEF FinishChunks, Finish
<1>2. packer \in Packers
  BY DEF ChunkingInv, ChunkingTypes
<1>3. Traced(packer, FencesClosed) /\ OnTheirPages(pending', FencesClosed)
  BY <1>1 DEF ReadingInv
<1>4. Moves(packer, packer')
  BY <1>1, <1>2, FlushMoves
<1>5. Traced(packer', FencesClosed)
  BY <1>2, <1>3, <1>4, MovesTrace
<1>6. ReadingInv'
  BY <1>1, <1>3, <1>5, PackingKept
<1>7. ChunkingInv'
  BY <1>1, FinishKeeps
<1> QED
  BY <1>6, <1>7

LEMMA StutterReads ==
  ASSUME ReadingInv, UNCHANGED allvars
  PROVE  ReadingInv'
<1>1. UNCHANGED <<output, source, outcome, script, page, joined, loopvars, pending, packer>>
  BY DEF allvars, loopvars, vars
<1>2. OnTheirPages(pending', FencesClosed) /\ Traced(packer', FencesClosed)
  BY <1>1 DEF ReadingInv
<1>3. CASE joined \/ source.kind = "text"
  BY <1>1, <1>2, <1>3, PackingKept
<1>4. CASE ~(joined \/ source.kind = "text")
  <2>1. ~joined /\ Nothing /\ script = <<>> /\ page = 1 /\ source.kind # "text"
    BY <1>4 DEF ReadingInv
  <2>2. /\ script' = <<>> /\ page' = 1 /\ ~joined' /\ pending' = <<>>
        /\ packer'.chunks = <<>> /\ packer'.current = <<>> /\ source'.kind # "text"
    BY <1>1, <2>1 DEF Nothing
  <2>3. OnTheirPages(pending, FencesClosed)' /\ Traced(packer, FencesClosed)'
    BY <2>2 DEF OnTheirPages, Traced
  <2> QED
    BY <2>2, <2>3 DEF ReadingInv, Nothing
<1> QED
  BY <1>3, <1>4

\* Every step of run_extraction keeps what the extractors, the reader and the
\* packer rely on.
LEMMA ExtractionStep ==
  ASSUME ExtractionInv, [ExtractionNext]_allvars
  PROVE  ExtractionInv'
<1>1. LoopsInv /\ ChunkingInv /\ ReadingInv
  BY DEF ExtractionInv
<1>2. LoopsInv'
  BY <1>1, LoopsStep
<1>3. Numbered(output) /\ source \in Sources
  <2>1. Inv
    BY <1>1 DEF LoopsInv
  <2> QED
    BY <2>1 DEF Inv
<1>4. CASE ExtractPage \/ FinishPdf \/ ExtractItem
  <2>1. UNCHANGED <<script, page, joined, vars>>
    BY <1>4 DEF ExtractPage, FinishPdf, ExtractItem
  <2>2. outcome = "running" /\ source.kind # "text" /\ source' = source
    <3>1. CASE ExtractPage \/ FinishPdf
      BY <3>1 DEF ExtractPage, FinishPdf, Running
    <3>2. CASE ExtractItem
      BY <1>3, <3>2, LoopRuns DEF ExtractItem
    <3> QED
      BY <1>4, <3>1, <3>2
  <2>3. ChunkingInv'
    BY <1>1, <2>1, ChunkingStutters
  <2> QED
    BY <1>1, <1>2, <2>1, <2>2, <2>3, ExtractingReads DEF ExtractionInv
<1>5. CASE JoinPages \/ ReadMarker \/ UNCHANGED allvars
  <2>1. UNCHANGED vars
    BY <1>5 DEF JoinPages, ReadMarker, allvars
  <2>2. ChunkingInv'
    BY <1>1, <2>1, ChunkingStutters
  <2>3. ReadingInv'
    BY <1>1, <1>3, <1>5, JoiningReads, MarkerReads, StutterReads
  <2> QED
    BY <1>2, <2>2, <2>3 DEF ExtractionInv
<1>6. CASE ReadPart \/ ReadFence \/ ReadAny \/ PackBlock \/ FinishChunks
  <2>1. ReadingInv' /\ ChunkingInv'
    BY <1>1, <1>6, PartReads, FenceReads, AnyReads, PackReads, FinishReads
  <2> QED
    BY <1>2, <2>1 DEF ExtractionInv
<1> QED
  BY <1>4, <1>5, <1>6 DEF ExtractionNext

\* Chunks that claim the pages of their blocks claim the pages of the lines.
LEMMA ClaimsTrace == ExtractionInv => PagesAreTraced
<1> SUFFICES ASSUME ExtractionInv
             PROVE  PagesAreTraced
  OBVIOUS
<1>1. packer.chunks \in Seq(ChunkRecords) /\ DOMAIN packer.chunks = 1 .. Len(packer.chunks)
  BY PackerIs, SeqIs DEF ExtractionInv, ChunkingInv, ChunkingTypes
<1>2. ASSUME NEW i \in DOMAIN packer.chunks
      PROVE  LET c     == packer.chunks[i]
                 truth == UNION {c.blocks[k].origin : k \in DOMAIN c.blocks} IN
             /\ \A k \in DOMAIN c.blocks : c.blocks[k].page <= Min(c.blocks[k].origin)
             /\ FencesClosed => c.page_start = Min(truth) /\ c.page_end = Max(truth)
  <2> DEFINE c == packer.chunks[i]
  <2>1. c.blocks \in Seq(Block)
    <3>1. c \in ChunkRecords
      BY <1>1
    <3> QED
      BY <3>1 DEF ChunkRecords
  <2>2. ClaimsPages(c, FencesClosed)
    BY <1>1 DEF ExtractionInv, ReadingInv, Traced
  <2> HIDE DEF c
  <2>3. IsSeq(c.blocks) /\ \A k \in 1 .. Len(c.blocks) : c.blocks[k].origin \subseteq Nat
    <3> DEFINE bs == c.blocks
    <3>1. bs \in Seq(Block)
      BY <2>1
    <3> HIDE DEF bs
    <3>2. IsSeq(bs)
      BY <3>1 DEF IsSeq
    <3>3. \A k \in 1 .. Len(bs) : bs[k] \in Block
      BY <3>1
    <3>4. \A b \in Block : b.origin \subseteq Nat
      BY DEF Block
    <3> QED
      BY <3>2, <3>3, <3>4 DEF bs
  <2>4. /\ \A k \in DOMAIN c.blocks : c.blocks[k].page <= Min(c.blocks[k].origin)
        /\ FencesClosed => LET truth == UNION {c.blocks[k].origin : k \in DOMAIN c.blocks} IN
             c.page_start = Min(truth) /\ c.page_end = Max(truth)
    BY ONLY <2>2, <2>3, ClaimsAreTrue
  <2> QED
    BY <2>4 DEF c
<1> QED
  BY <1>2 DEF PagesAreTraced

\* Whatever the document, from its pages to its chunks, the invariant of
\* run_extraction: the extractor's, the chunker's, and what ties them together.
THEOREM ExtractionInvariant == ExtractionSpec => []ExtractionInv
<1>1. ExtractionInit => ExtractionInv
  BY LoopsStart, ChunkingStarts, ReadingStarts DEF ExtractionInit, ExtractionInv
<1>2. ExtractionInv /\ [ExtractionNext]_allvars => ExtractionInv'
  BY ExtractionStep
<1> QED
  BY <1>1, <1>2, PTL DEF ExtractionSpec

\* A chunk claims exactly the pages its lines are on if every page closes its
\* code fences, and no block is said to be on a page after its own if one
\* does not: the markers that _page_pieces writes and the ones chunk_markdown
\* reads, splits and carried headings keep that for every document.
THEOREM TracesPages == ExtractionSpec => []PagesAreTraced
BY ExtractionInvariant, ClaimsTrace, PTL

\* What chunk_markdown promises of any blocks it promises of those that the
\* reader finds in the Markdown of an extraction.
THEOREM ChunksKeepPromises ==
  ExtractionSpec => [](/\ NothingIsLost /\ SplitIsFaithful /\ ContentFits
                       /\ OverlapStaysInSection /\ CountKeepsUp)
<1>1. ExtractionInv => /\ NothingIsLost /\ SplitIsFaithful /\ ContentFits
                       /\ OverlapStaysInSection /\ CountKeepsUp
  BY InvLosesNothing, InvFaithful, InvFits, InvInSection, InvCounts DEF ExtractionInv
<1> QED
  BY <1>1, ExtractionInvariant, PTL
=============================================================================
