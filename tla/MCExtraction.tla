---------------------------- MODULE MCExtraction ----------------------------
(* Instances of Extraction for TLC.  The budget of a chunk is 48 tokens, the *)
(* least size of one that a heading may close 16; a line of a page has 12.   *)
(* Pages are 12 wide and lines 2 high.                                       *)
EXTENDS Extraction

Heading(level, n, title) == [kind |-> "heading", units |-> <<n>>, header |-> 0, level |-> level, title |-> title]

Text(units) == [kind |-> "paragraph", units |-> units, header |-> 0, level |-> 0, title |-> "none"]

Table(header, rows) == [kind |-> "table", units |-> rows, header |-> header, level |-> 0, title |-> "none"]

Code(lines) == [kind |-> "code", units |-> lines, header |-> 0, level |-> 0, title |-> "none"]

SomeShapes == {Heading(1, 4, "Notes"), Heading(1, 4, "Terms"), Heading(2, 17, "Notes"),
               Text(<<8>>), Text(<<47>>), Text(<<20, 20, 20>>),
               Text(<<10, 100>>), Table(6, <<20, 20, 30, 5>>), Table(6, <<60, 10>>), Code(<<30>>)}

Prose_ == [kind |-> "prose", level |-> 0, bold |-> FALSE, indented |-> FALSE, stop |-> TRUE, cells |-> 1]
Title  == [Prose_ EXCEPT !.level = 1, !.stop = FALSE]
Bold   == [Prose_ EXCEPT !.bold = TRUE, !.stop = FALSE]
Item   == [Prose_ EXCEPT !.kind = "item"]
Bullet == [Prose_ EXCEPT !.kind = "bullet"]
Indent == [Prose_ EXCEPT !.indented = TRUE]
Row    == [Prose_ EXCEPT !.cells = 2]
Head_  == [Row EXCEPT !.bold = TRUE]

Box(x0, x1, y0, lines) == [x0 |-> x0, x1 |-> x1, y0 |-> y0, lines |-> lines]

\* Boxes of a text layer: titles over the page, two columns, a list with a
\* lone bullet and an indented line, three rows of cells, a sidebar.
SomeBoxes == {Box(2, 12, 0, <<Title>>), Box(0, 8, 2, <<Title>>),
              Box(0, 5, 6, <<Bold, Prose_>>), Box(0, 5, 10, <<Item, Indent, Bullet, Bold>>),
              Box(7, 12, 7, <<Prose_, Prose_, Item>>), Box(7, 12, 14, <<Bullet>>),
              Box(0, 12, 19, <<Head_>>), Box(0, 11, 21, <<Row>>), Box(1, 10, 24, <<Row>>),
              Box(0, 3, 22, <<Bold>>), Box(2, 9, 16, <<Prose_, Row>>)}

Grid == [x0 |-> 0, x1 |-> 12, y0 |-> 19, y1 |-> 26, columns |-> 2, whole |-> TRUE]

\* What OCR finds: single lines.
SomeScans == {{}, {Box(0, 12, 0, <<Title>>), Box(6, 11, 5, <<Prose_>>), Box(0, 5, 4, <<Item>>),
                   Box(0, 5, 8, <<Prose_>>), Box(6, 12, 9, <<Prose_>>)}}

Page(boxes, grids) == [readable |-> TRUE, boxes |-> boxes, grids |-> grids, breaks |-> FALSE,
                       covered |-> FALSE, scan |-> {}, numbered |-> <<>>]

\* Few of the boxes, or all but one.
Upto(n) == {B \in SUBSET SomeBoxes : Cardinality(B) <= n} \cup {SomeBoxes \ {b} : b \in SomeBoxes}

BornDigital == {Page(B, {}) : B \in Upto(4)}
                 \cup {Page(B, {g}) : B \in Upto(3), g \in {Grid, [Grid EXCEPT !.whole = FALSE]}}

Scans == {[Page(B, {}) EXCEPT !.scan = S, !.covered = c] : B \in {{}} \cup {{b} : b \in SomeBoxes}, S \in SomeScans, c \in BOOLEAN}

\* Pages whose layout analysis raises, and scans in an order of Tesseract's.
Broken == {[Page(B, {}) EXCEPT !.breaks = TRUE] : B \in Upto(2)}

SomeOrder(boxes) == CHOOSE s \in [1 .. Cardinality(boxes) -> LinesOf(boxes)] : IsInjective(s)

TesseractScans == {[Page(B, {}) EXCEPT !.scan = S, !.numbered = SomeOrder(S)]
               : B \in {{}} \cup {{b} : b \in SomeBoxes}, S \in SomeScans \ {{}}}

Unreadable == [Page({}, {}) EXCEPT !.readable = FALSE]

Pdf(pages) == [kind |-> "pdf", layout |-> FALSE, items |-> pages]

Pdfs == {Pdf(<<p>>) : p \in BornDigital \cup Broken \cup TesseractScans}
          \cup {Pdf(<<p, q>>) : p \in Scans \cup {Unreadable}, q \in Scans}

\* Up to n of S, one after the other.
Lists(S, n) == UNION {[1 .. k -> S] : k \in 0 .. n}

Fence == Body("fence", <<"fence">>)
Para  == Body("paragraph", <<"a", "b">>)

\* Attachments: a PDF one page of which is a scan, with a warning for the
\* third, text with a fence left open, text that closes one, a result without
\* pages, and what is not looked into.
Attachment(size, format, pages) == [size |-> size, format |-> format, pages |-> pages, said |-> <<>>]

PageIn(method, parts) == [method |-> method, parts |-> parts]

SomePdf == <<PageIn("text_layer", <<Para>>), PageIn("ocr", <<Section(1), Para>>), PageIn("error", <<>>)>>

Attachments == {[Attachment("fits", "document", SomePdf) EXCEPT !.said = <<"unreadable">>],
                Attachment("fits", "document", <<PageIn("parser", <<Fence, Para>>)>>),
                Attachment("fits", "document", <<PageIn("parser", <<Fence, Para, Fence, Para>>)>>),
                Attachment("fits", "document", <<>>), Attachment("fits", "eml", <<>>),
                Attachment("fits", "unsupported", <<>>),
                Attachment("large", "document", <<PageIn("parser", <<Para>>)>>)}

Mails == {[kind |-> "mail", layout |-> FALSE, items |-> a] : a \in Lists(Attachments, 3)}

Images == [kind : {"image"}, layout : BOOLEAN, gif : BOOLEAN,
           items : Lists({<<>>, <<Para>>, <<Section(1), Para>>}, 4) \ {<<>>}]

LayoutPage == {[scanned |-> s, parts |-> p] : s \in BOOLEAN, p \in {<<Para>>, <<Section(2), Para>>}}

LayoutPdfs == {[kind |-> "pdf", layout |-> TRUE, items |-> l] : l \in Lists(LayoutPage, 5) \ {<<>>}}

\* Four pictures, on slides or in the body of a text document.
Pictures == [p |-> "text", q |-> "text", r |-> "blank", s |-> "small"]

Slides == {[kind |-> "pptx", layout |-> FALSE, looks |-> Pictures, items |-> i]
             : i \in Lists(Lists(DOMAIN Pictures, 2), 2)}
            \cup {[kind |-> "docx", layout |-> FALSE, looks |-> Pictures, items |-> <<i>>]
             : i \in Lists(DOMAIN Pictures, 4)}

SheetRows == [cells : {1, 3}, blank : BOOLEAN]

\* Sheets of up to three rows, the second of at most one.
Sheets == Lists(Lists(SheetRows, 3), 1) \cup {<<a, b>> : a \in Lists(SheetRows, 3), b \in Lists(SheetRows, 1)}

Workbooks == {[kind |-> "xlsx", layout |-> FALSE, items |-> i] : i \in Sheets}

SomeSources == {[kind |-> "text", layout |-> FALSE, items |-> <<>>]} \cup Pdfs \cup Mails \cup Images
                 \cup LayoutPdfs \cup Slides \cup Workbooks

\* No page of the instance is excepted from ReadingOrderIsKept, save for the
\* scans that Tesseract orders, and some have a table among their boxes.
ASSUME SourcesAreOrdered ==
  LET Pages == UNION {Range(s.items) : s \in Pdfs}
  IN  /\ \A p \in Pages : Straight(p) /\ Level(p.scan)
      /\ \E p \in Pages : Tables(p) # {} /\ Cardinality(p.boxes) > 2
=============================================================================
