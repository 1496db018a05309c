----------------------------- MODULE PageLayout -----------------------------
(***************************************************************************)
(* From the lines on a page to the parts of its Markdown, in reading order. *)
(* A box is a block of lines as PyMuPDF finds them, all of one height; a    *)
(* grid is the region of a table that its table finder found.  A line goes  *)
(* by its box and its number; of its text a model keeps what the code asks  *)
(* of it: is it as large as a heading (level), bold, a list item, a bullet  *)
(* glyph alone, indented, the end of a sentence, a row of cells.            *)
(***************************************************************************)
EXTENDS Integers, SequencesExt, SeqFolds

CONSTANTS LineHeight,  \* the height of a line, and so median_h
          BoldLevel,   \* level of a heading that is only bold
          MaxWrapped   \* lines a merged heading may have (160 characters)

ASSUME PageLayoutAssumption ==
  LineHeight \in Nat \ {0} /\ BoldLevel \in 1 .. 4 /\ MaxWrapped \in Nat

\* The first by a key of two numbers; the code keeps equals in the order of
\* the file, here any one is the first.
First(S, key) ==
  CHOOSE s \in S : \A t \in S : \/ key[s][1] < key[t][1]
                                \/ key[s][1] = key[t][1] /\ key[s][2] <= key[t][2]

Sorted(S, key) ==
  LET sort[i \in 0 .. Cardinality(S)] ==
        IF i = 0 THEN <<>>
        ELSE LET done == sort[i - 1] IN Append(done, First(S \ Range(done), key))
  IN sort[Cardinality(S)]

Distance(a, b) == IF a < b THEN b - a ELSE a - b

\* Where a line is, in halves: the code compares centres.
Centre(id)  == 2 * id[1].y0 + (2 * id[2] - 1) * LineHeight
CentreX(id) == id[1].x0 + id[1].x1

Line(id) == id[1].lines[id[2]]

LinesOf(boxes) == UNION {{<<b, k>> : k \in DOMAIN b.lines} : b \in boxes}

\* Is a point in a rectangle: its right and its lower edge do not count.
Inside(id, grid) == /\ 2 * grid.y0 <= Centre(id)  /\ Centre(id)  < 2 * grid.y1
                    /\ 2 * grid.x0 <= CentreX(id) /\ CentreX(id) < 2 * grid.x1

\* By the top, then from the left: the order of lines on a page, and of blocks in a group.
ByCentre(ids) == Sorted(ids, [id \in ids |-> <<Centre(id), id[1].x0>>])

\* What the code knows of a line, and what PyMuPDF finds on a page: boxes
\* that hold lines, and grids of which no line is in the cells of two.
IsLine(line) == line.level \in 0 .. 6 /\ line.kind \in {"item", "bullet", "prose"}

AreBoxes(boxes) ==
  /\ IsFiniteSet(boxes)
  /\ \A b \in boxes : /\ b.x0 \in Int /\ b.x1 \in Int /\ b.x0 < b.x1 /\ b.y0 \in Int
                      /\ IsSeq(b.lines) /\ b.lines # <<>>
                      /\ \A k \in DOMAIN b.lines : IsLine(b.lines[k])

AreGrids(grids, boxes) ==
  /\ IsFiniteSet(grids)
  /\ \A g \in grids : /\ g.x0 \in Int /\ g.x1 \in Int /\ g.x0 < g.x1
                      /\ g.y0 \in Int /\ g.y1 \in Int /\ g.y0 < g.y1
  /\ \A g, h \in grids : \A id \in LinesOf(boxes) : Inside(id, g) /\ Inside(id, h) => g = h

(***************************************************************************)
(* Reading order                                                           *)
(***************************************************************************)
Reach(I, lo) == Max({i[2] : i \in {j \in I : j[1] < lo}})

\* Gaps in the projection of some intervals, by the start of the interval after.
Gaps(I) == {s \in {i[1] : i \in I} : (\E i \in I : i[1] < s) /\ Reach(I, s) < s}

Widest(I, gaps) == Min({s \in gaps : \A t \in gaps : t - Reach(I, t) <= s - Reach(I, s)})

GapAt(I, s) == [size |-> s - Reach(I, s), cut |-> s + Reach(I, s)]

\* The widest gap, the first of equals; its centre in halves.
LargestGap(I) ==
  IF Gaps(I) = {} THEN [size |-> 0, cut |-> 0] ELSE GapAt(I, Widest(I, Gaps(I)))

\* The two sides of the cut, if there is one; gx and gy are the gaps of B.
Sides(B, gx, gy) ==
  LET left == {b \in B : b.x0 + b.x1 < gx.cut}
      top  == {b \in B : b.y0 + b.y1 < gy.cut} IN
  IF gx.size >= LineHeight /\ gx.size > gy.size THEN <<left, B \ left>>
  ELSE IF gy.size > 0 THEN <<top, B \ top>> ELSE <<>>

\* Recursive XY-cut: the groups of some blocks in reading order.
XYCut(blocks) ==
  LET cut[B \in SUBSET blocks] ==
        LET sides == Sides(B, LargestGap({<<b.x0, b.x1>> : b \in B}),
                              LargestGap({<<b.y0, b.y1>> : b \in B})) IN
        IF sides = <<>> THEN <<B>> ELSE cut[sides[1]] \o cut[sides[2]]
  IN cut[blocks]

\* Mutant: the keys of the sort are swapped.
GroupFromLeft(group) == Sorted(group, [b \in group |-> <<b.x0, b.y0>>])

\* Within a group by the top, then from the left.
GroupOrder(group) == Sorted(group, [b \in group |-> <<b.y0, b.x0>>])

Concatenated(groups) == FlattenSeq([g \in DOMAIN groups |-> GroupOrder(groups[g])])

Ordered(blocks) == Concatenated(XYCut(blocks))

(***************************************************************************)
(* Blocks of a page with a text layer                                      *)
(***************************************************************************)
\* Lines ks of a box as a block of text.
TextBlock(box, ks) ==
  [x0 |-> box.x0, x1 |-> box.x1, y0 |-> box.y0 + LineHeight * (Min(ks) - 1),
   y1 |-> box.y0 + LineHeight * Max(ks), table |-> FALSE, ids |-> ByCentre({<<box, k>> : k \in ks})]

\* The lines of a box that lie in no table.
Kept(box, tables) == {k \in DOMAIN box.lines : \A g \in tables : ~Inside(<<box, k>>, g)}

\* What the table finder reads in its grid: all lines, or not the last one.
Rows(grid, boxes) ==
  LET rows == ByCentre({id \in LinesOf(boxes) : Inside(id, grid)}) IN
  IF grid.whole \/ rows = <<>> THEN rows ELSE Front(rows)

\* A grid of one row or of one column is not taken for a table.
Tables(page) == {g \in page.grids : Len(Rows(g, page.boxes)) >= 2 /\ g.columns >= 2}

TableBlock(grid, boxes) ==
  [x0 |-> grid.x0, x1 |-> grid.x1, y0 |-> grid.y0, y1 |-> grid.y1, table |-> TRUE,
   ids |-> Rows(grid, boxes)]

BlocksWith(boxes, tables) ==
  {TextBlock(b, Kept(b, tables)) : b \in {c \in boxes : Kept(c, tables) # {}}}
    \cup {TableBlock(g, boxes) : g \in tables}

Blocks(page) == BlocksWith(page.boxes, Tables(page))

(***************************************************************************)
(* Parts of the Markdown                                                   *)
(***************************************************************************)
Part(kind, level, ids) == [kind |-> kind, level |-> level, ids |-> ids]

SharesBaseline(id, block, blocks) ==
  \E other \in blocks \ {block} : \E k \in DOMAIN other.ids :
    /\ ~other.table
    /\ Distance(Centre(id), Centre(other.ids[k])) < LineHeight

Columnar(id) == Line(id).cells > 1

\* A bold line is no heading inside a paragraph or next to another block.
HeadingLevel(id, block, blocks) ==
  IF Line(id).level > 0 THEN Line(id).level
  ELSE IF /\ Line(id).bold /\ ~Line(id).stop
          /\ Len(block.ids) <= 3 /\ ~Columnar(id) /\ ~SharesBaseline(id, block, blocks)
    THEN BoldLevel ELSE 0

Flushed(acc) == IF acc.paragraph = <<>> THEN acc.out
                ELSE Append(acc.out, Part("paragraph", 0, acc.paragraph))

LastIs(parts, kind) == parts # <<>> /\ Last(parts).kind = kind

Extended(parts, id) == [parts EXCEPT ![Len(parts)].ids = Append(@, id), ![Len(parts)].kind = "list"]

Opened(acc, part) == [out |-> Append(Flushed(acc), part), paragraph |-> <<>>]

\* Prose continues a list item after a lone glyph, or indented right after it.
Continues(acc, line) == \/ LastIs(acc.out, "bullet")
                        \/ LastIs(acc.out, "list") /\ acc.paragraph = <<>> /\ line.indented

AddLine(acc, id, level) ==
  CASE level > 0 -> Opened(acc, Part("heading", level, <<id>>))
    [] level = 0 /\ Line(id).kind = "item"   -> Opened(acc, Part("list", 0, <<id>>))
    [] level = 0 /\ Line(id).kind = "bullet" -> Opened(acc, Part("bullet", 0, <<>>))
    [] level = 0 /\ Line(id).kind = "prose"  ->
         IF Continues(acc, Line(id)) THEN [acc EXCEPT !.out = Extended(@, id)]
                                     ELSE [acc EXCEPT !.paragraph = Append(@, id)]

Start == [out |-> <<>>, paragraph |-> <<>>]

\* The loop of _block_markdown over the lines of a block; a bullet glyph
\* waits for its text on the next line, and goes away if there is none.
BlockMarkdown(block, blocks) ==
  LET add[k \in 0 .. Len(block.ids)] ==
        IF k = 0 THEN Start
        ELSE AddLine(add[k - 1], block.ids[k], HeadingLevel(block.ids[k], block, blocks))
      parts == Flushed(add[Len(block.ids)])
  IN Picked(parts, {k \in DOMAIN parts : parts[k].kind # "bullet"})

\* Titles wrapped over several lines, and items of one list, become one part.
Wraps(p, q) == /\ p.kind = "heading" /\ q.kind = "heading" /\ p.level = q.level
               /\ ~Line(Last(p.ids)).stop
               /\ Len(p.ids) + Len(q.ids) <= MaxWrapped

Merged(parts, part) == [parts EXCEPT ![Len(parts)].ids = @ \o part.ids]

MergeWrappedHeadings(parts) ==
  LET merge[k \in 0 .. Len(parts)] ==
        IF k = 0 THEN <<>>
        ELSE IF merge[k - 1] # <<>> /\ Wraps(Last(merge[k - 1]), parts[k])
          THEN Merged(merge[k - 1], parts[k]) ELSE Append(merge[k - 1], parts[k])
  IN merge[Len(parts)]

MergeLists(parts) ==
  LET merge[k \in 0 .. Len(parts)] ==
        IF k = 0 THEN <<>>
        ELSE IF parts[k].kind = "list" /\ LastIs(merge[k - 1], "list")
          THEN Merged(merge[k - 1], parts[k]) ELSE Append(merge[k - 1], parts[k])
  IN merge[Len(parts)]

IsRow(block) == ~block.table /\ Len(block.ids) = 1 /\ Columnar(block.ids[1])

\* The rows of an unruled table that start at block i: where they end.
RunEnd(ordered, i) ==
  Max({i - 1} \cup {j \in i .. Len(ordered) : \A k \in i .. j :
         IsRow(ordered[k]) /\ Line(ordered[k].ids[1]).cells = Line(ordered[i].ids[1]).cells})

IsTable(ordered, i) ==
  LET n == RunEnd(ordered, i) - i + 1 IN n >= 3 \/ (n = 2 /\ Line(ordered[i].ids[1]).bold)

\* The loop of page_to_markdown over the blocks in their order.
Flow(ordered, blocks) ==
  LET from[i \in 1 .. Len(ordered) + 1] ==
        IF i > Len(ordered) THEN <<>>
        ELSE IF ordered[i].table THEN <<Part("table", 0, ordered[i].ids)>> \o from[i + 1]
        ELSE IF IsTable(ordered, i)
          THEN LET n == RunEnd(ordered, i) IN
               <<Part("table", 0, [k \in 1 .. n - i + 1 |-> ordered[i + k - 1].ids[1]])>> \o from[n + 1]
        ELSE BlockMarkdown(ordered[i], blocks) \o from[i + 1]
  IN from[1]

BlocksMarkdown(blocks) ==
  IF blocks = {} THEN <<>> ELSE MergeLists(MergeWrappedHeadings(Flow(Ordered(blocks), blocks)))

PageMarkdown(page) == BlocksMarkdown(Blocks(page))

(***************************************************************************)
(* Scanned pages                                                           *)
(***************************************************************************)
\* Boxes of an OCR engine are single lines: those of a group, as visual lines
\* (mean of the centres within half a line) from top to bottom, each from
\* left to right.
Near(line, b) ==
  LET n == Len(line) IN
  Distance(n * (b.y0 + b.y1), Total([k \in 1 .. n |-> line[k].y0 + line[k].y1])) < n * LineHeight

AddBox(lines, b) ==
  IF lines # <<>> /\ Near(Last(lines), b) THEN [lines EXCEPT ![Len(lines)] = Append(@, b)]
                                          ELSE Append(lines, <<b>>)

FromLeft(line) == Sorted(Range(line), [b \in Range(line) |-> <<b.x0, b.y0 + b.y1>>])

LineRecords(group) ==
  LET boxes == Sorted(group, [b \in group |-> <<b.y0 + b.y1, b.x0>>])
      add[k \in 0 .. Len(boxes)] == IF k = 0 THEN <<>> ELSE AddBox(add[k - 1], boxes[k])
      lines == add[Len(boxes)]
  IN [k \in DOMAIN lines |-> FromLeft(lines[k])]

\* reading_order_markdown: tall lines are headings, items stand for
\* themselves, other lines of a group are a paragraph.
AddRecord(acc, ids) ==
  LET line == Line(ids[1]) IN
  CASE line.level > 0 -> Opened(acc, Part("heading", line.level, ids))
    [] line.level = 0 /\ line.kind = "item" -> Opened(acc, Part("list", 0, ids))
    [] OTHER -> [acc EXCEPT !.paragraph = @ \o ids]

GroupMarkdown(group) ==
  LET records == LineRecords(group)
      add[k \in 0 .. Len(records)] ==
        IF k = 0 THEN Start ELSE AddRecord(add[k - 1], [n \in DOMAIN records[k] |-> records[k][n].id])
  IN Flushed(add[Len(records)])

GroupsMarkdown(groups) == FlattenSeq([g \in DOMAIN groups |-> GroupMarkdown(groups[g])])

ScanMarkdown(boxes) ==
  IF boxes = {} THEN <<>>
  ELSE MergeWrappedHeadings(GroupsMarkdown(XYCut(
         {[x0 |-> b.x0, x1 |-> b.x1, y0 |-> b.y0, y1 |-> b.y0 + LineHeight, id |-> <<b, 1>>]
            : b \in boxes})))

\* Plain text of the layer, read from top to bottom; its paragraphs are not told apart.
PlainMarkdown(boxes) ==
  IF boxes = {} THEN <<>> ELSE <<Part("paragraph", 0, ByCentre(LinesOf(boxes)))>>

(***************************************************************************)
(* What a page must look like to have an order                             *)
(***************************************************************************)
\* One box is above another in the same column.
Above(a, b) == /\ a.y0 + LineHeight * Len(a.lines) <= b.y0
               /\ a.x0 < b.x1 /\ b.x0 < a.x1

\* A page whose tables have a place in the reading order: no table cuts a box
\* sideways, and of two tables that share a column one is above the other.
Straight(p) ==
  /\ \A g \in Tables(p), id \in LinesOf(p.boxes) :
       2 * g.y0 <= Centre(id) /\ Centre(id) < 2 * g.y1 =>
         \/ g.x0 <= id[1].x0 /\ id[1].x1 <= g.x1
         \/ id[1].x1 <= g.x0 \/ g.x1 <= id[1].x0
  /\ \A g, h \in Tables(p) : g # h /\ g.x0 < h.x1 /\ h.x0 < g.x1 => g.y1 <= h.y0 \/ h.y1 <= g.y0

\* A scan whose lines stand in rows: between a line and one below it there is
\* the last line of a row, and the next row starts half a line further down.
Level(scan) ==
  \A a, b \in scan : Above(a, b) =>
    \E r \in scan : /\ a.y0 <= r.y0 /\ r.y0 < b.y0
                    /\ \A c \in scan : c.y0 <= r.y0 \/ 2 * (c.y0 - r.y0) >= LineHeight
=============================================================================
