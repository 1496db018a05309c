------------------------------ MODULE Chunking ------------------------------
(***************************************************************************)
(* chunk_markdown: the blocks of a document are read one after the other,   *)
(* an oversized one is split, and the parts are packed into chunks up to a  *)
(* token budget.  A block is what the packing asks of it: its kind, the     *)
(* tokens of its units (rows of a table, sentences of a paragraph, lines of *)
(* code), the tokens of the header a table repeats, and the level and title *)
(* of a heading; two headings may have the same title.  Token counts are    *)
(* taken to add up; the separators the code counts are counted here.        *)
(* Extraction says where the blocks come from.                              *)
(***************************************************************************)
EXTENDS Integers, SequencesExt, SeqFolds

CONSTANTS ChunkSize,    \* chunk_size_tokens of the upload
          ChunkOverlap, \* chunk_overlap_tokens of the upload
          Shapes        \* blocks a document may be made of

Kinds == {"heading", "paragraph", "table", "code"}

Prose == {"paragraph"}    \* lists are packed like paragraphs

ASSUME ChunkingAssumption ==
  /\ ChunkSize \in Nat /\ ChunkOverlap \in Nat
  /\ Shapes \subseteq [kind : Kinds, units : Seq(Nat \ {0}), header : Nat, level : 0 .. 6, title : STRING]
  /\ \A s \in Shapes : /\ s.units # <<>>
                       /\ s.header > 0 => s.kind = "table"
                       /\ s.level > 0 <=> s.kind = "heading"

VARIABLES
  document,  \* the blocks read so far
  headings,  \* the stack of open headings: level, title and position
  pending,   \* parts of the last block that are not packed yet
  packer,    \* chunks, current, current_tokens and last_kind of chunk_markdown
  done

vars == <<document, headings, pending, packer, done>>

chunk_size == Max({32, ChunkSize})
overlap    == Min({ChunkOverlap, chunk_size \div 2})
min_tokens == chunk_size \div 4
budget     == chunk_size - overlap

TokensOf(blocks) == Total([i \in DOMAIN blocks |-> blocks[i].tokens])

(***************************************************************************)
(* Splitting                                                               *)
(***************************************************************************)
\* Greedy packing of units into runs whose sum, with extra, stays within the
\* budget where it can: the runs that are full, and the one being filled.
Fill(units, extra) ==
  LET fill[i \in 0 .. Len(units)] ==
        IF i = 0 THEN [full |-> <<>>, run |-> <<>>]
        ELSE LET acc == fill[i - 1] IN
             IF acc.run # <<>> /\ Total(acc.run) + units[i] + extra > budget
               THEN [full |-> Append(acc.full, acc.run), run |-> <<units[i]>>]
               ELSE [full |-> acc.full, run |-> Append(acc.run, units[i])]
  IN fill[Len(units)]

\* Mutant: the last run is forgotten.
RunsUnfinished(units, extra) == Fill(units, extra).full

Runs(units, extra) == Append(Fill(units, extra).full, Fill(units, extra).run)

\* A unit above the budget is cut at token boundaries.  Only the tokens are
\* kept: a character cut in two, which the code decodes to replacement
\* characters, is not told apart.
HardSplit(run) ==
  LET n == Total(run) IN
  IF n <= budget THEN <<run>>
  ELSE [k \in 1 .. (n + budget - 1) \div budget |-> <<Min({budget, n - (k - 1) * budget})>>]

SplitUnits(s) ==
  IF s.header + Total(s.units) <= budget THEN <<s.units>>
  ELSE IF s.kind = "table"             THEN Runs(s.units, s.header)
  ELSE LET runs == Runs(s.units, 0) IN FlattenSeq([i \in DOMAIN runs |-> HardSplit(runs[i])])

\* The parts of the block at a position of the document, under its headings;
\* place is the page it is said to be on and, for the properties, the pages
\* its lines are on.
Parts(s, position, stack, place) ==
  LET split == SplitUnits(s) IN
  [i \in DOMAIN split |-> [id |-> <<position, i>>, kind |-> s.kind, units |-> split[i],
                           tokens |-> s.header + Total(split[i]), path |-> stack,
                           page |-> place.page, origin |-> place.origin]]

Init ==
  /\ document = <<>>
  /\ headings = <<>>
  /\ pending  = <<>>
  /\ packer   = [chunks |-> <<>>, current |-> <<>>, tokens |-> 0, last_kind |-> "none"]
  /\ done     = FALSE

\* parse_blocks: a heading closes those of its level and below.
Read(s, place) ==
  LET position == Len(document) + 1
      stack    == IF s.kind = "heading"
                    THEN Append(Picked(headings, {k \in DOMAIN headings : headings[k].level < s.level}),
                                [level |-> s.level, title |-> s.title, at |-> position])
                    ELSE headings
  IN /\ ~done
     /\ pending = <<>>
     /\ document' = Append(document, s)
     /\ headings' = stack
     /\ pending'  = Parts(s, position, stack, place)
     /\ UNCHANGED <<packer, done>>

(***************************************************************************)
(* Packing                                                                 *)
(***************************************************************************)
IsContent(b) == b.kind # "heading"

Content(blocks) == Picked(blocks, {i \in DOMAIN blocks : IsContent(blocks[i])})

\* heading_path[:1]: the outermost heading by its title, which is all the code
\* knows of it.
TopTitle(path) == IF path = <<>> THEN <<>> ELSE <<path[1].title>>

\* Mutant: prose is joined to prose, whatever sections the chunks open in.
JoinsAnySection(c, content) ==
  overlap > 0 /\ c.chunks # <<>> /\ c.last_kind \in Prose /\ Head(c.current).kind \in Prose

\* Both chunks are prose where they meet, and open under headings of one title.
Joins(c, content) ==
  /\ overlap > 0
  /\ c.chunks # <<>>
  /\ c.last_kind \in Prose
  /\ Head(c.current).kind \in Prose
  /\ TopTitle(Last(c.chunks).path) = TopTitle(Head(content).path)

TextOf(chunk) == chunk.prefix \o chunk.blocks

\* _tail_tokens: the last blocks of a text that have the tokens of an overlap
\* between them, or all of them.  The code repeats the end of these: it may
\* start within the first, at a word, and leave it out.
Ending(text) ==
  LET from == Max({1} \cup {k \in DOMAIN text : TokensOf(SubSeq(text, k, Len(text))) >= overlap})
  IN SubSeq(text, from, Len(text))

PagesOf(blocks) == {blocks[i].page : i \in DOMAIN blocks}

Chunk(c, content) == [blocks |-> c.current, path |-> Head(content).path,
                      prefix |-> IF Joins(c, content) THEN Ending(TextOf(Last(c.chunks))) ELSE <<>>,
                      page_start |-> Min(PagesOf(c.current)), page_end |-> Max(PagesOf(c.current))]

\* Mutant: what is not made into a chunk is dropped.
FlushAlways(c) ==
  LET content == Content(c.current) IN
  IF content = <<>> THEN [c EXCEPT !.current = <<>>, !.tokens = 0]
  ELSE [chunks |-> Append(c.chunks, Chunk(c, content)), current |-> <<>>, tokens |-> 0,
        last_kind |-> Last(content).kind]

\* flush(): a chunk of nothing but headings is left for the next one.
Flush(c) ==
  LET content == Content(c.current) IN
  IF content = <<>> THEN c
  ELSE [chunks |-> Append(c.chunks, Chunk(c, content)), current |-> <<>>, tokens |-> 0,
        last_kind |-> Last(content).kind]

LastContent(blocks) == Max({0} \cup {i \in DOMAIN blocks : IsContent(blocks[i])})

\* Mutant: the headings carried over are not counted.
CarryUncounted(c) ==
  LET n == LastContent(c.current) IN
  [Flush([c EXCEPT !.current = SubSeq(@, 1, n)]) EXCEPT
     !.current = SubSeq(c.current, n + 1, Len(c.current)), !.tokens = 0]

\* The headings at the end stay with what follows them.
Carry(c) ==
  LET n    == LastContent(c.current)
      kept == SubSeq(c.current, n + 1, Len(c.current)) IN
  [Flush([c EXCEPT !.current = SubSeq(@, 1, n)]) EXCEPT !.current = kept, !.tokens = TokensOf(kept)]

Separator(c) == IF c.current = <<>> THEN 0 ELSE 1

\* Mutant: a full chunk is noticed one block late.
FullLate(c, b) == c.current # <<>> /\ c.tokens > budget

Full(c, b) == c.current # <<>> /\ c.tokens + b.tokens + Separator(c) > budget

Ready(c, b) == b.kind = "heading" /\ c.current # <<>> /\ c.tokens >= min_tokens

Room(c, b) == CASE Ready(c, b)                -> Flush(c)
                [] ~Ready(c, b) /\ Full(c, b) -> Carry(c)
                [] OTHER                      -> c

Pack ==
  /\ pending # <<>>
  /\ LET b == Head(pending) IN
       packer' = [Room(packer, b) EXCEPT !.current = Append(@, b),
                                         !.tokens  = @ + b.tokens + Separator(packer)]
  /\ pending' = Tail(pending)
  /\ UNCHANGED <<document, headings, done>>

Finish ==
  /\ ~done
  /\ pending = <<>>
  /\ packer' = Flush(packer)
  /\ done' = TRUE
  /\ UNCHANGED <<document, headings, pending>>

Places == [page : Nat, origin : SUBSET Nat]

ReadShape == \E s \in Shapes, place \in Places : Read(s, place)

\* The chunker on its own, whatever document it is given.
ChunkingSpec == Init /\ [][ReadShape \/ Pack \/ Finish]_vars

(***************************************************************************)
(* Properties                                                              *)
(***************************************************************************)
Chunked == FlattenSeq([i \in DOMAIN packer.chunks |-> packer.chunks[i].blocks])

InOrder(s) == \A i \in 1 .. Len(s) - 1 :
  \/ s[i].id[1] = s[i + 1].id[1] /\ s[i].id[2] + 1 = s[i + 1].id[2]
  \/ s[i].id[1] + 1 = s[i + 1].id[1] /\ s[i + 1].id[2] = 1

\* Moving headings from one chunk to the next loses, repeats and reorders
\* nothing: chunks, current and pending are the document, part by part, and
\* what no chunk holds in the end is headings without content.
NothingIsLost ==
  LET all == Chunked \o packer.current \o pending IN
  /\ InOrder(all)
  /\ document # <<>> =>
       all # <<>> /\ Head(all).id = <<1, 1>> /\ Last(all).id[1] = Len(document)
  /\ done => Content(packer.current) = <<>>

\* A block keeps all its units, in order, whatever it is split into; a part
\* above the budget is a single row of a table.
SplitIsFaithful ==
  \A i \in DOMAIN pending : LET b == pending[i] IN
    /\ b.tokens > budget => b.kind = "table" /\ Len(b.units) = 1
    /\ b.id[2] = 1 => LET s    == document[b.id[1]]
                          cuts == FlattenSeq([k \in DOMAIN pending |-> pending[k].units]) IN
         IF s.kind = "table" THEN cuts = s.units ELSE Total(cuts) = Total(s.units)

\* The text of a chunk, headings and overlap aside, keeps to the budget, so
\* that overlap and content fit into chunk_size; only a row too large to fit
\* makes a chunk of its own.
ContentFits ==
  \A i \in DOMAIN packer.chunks :
    LET content == Content(packer.chunks[i].blocks) IN
    \/ TokensOf(content) <= budget
    \/ Len(content) = 1 /\ Head(content).kind = "table"

Top(path) == SubSeq(path, 1, Min({1, Len(path)}))

\* The title of the outermost heading of a path is that of another heading, too.
RepeatedTitle(path) ==
  /\ path # <<>>
  /\ \E i \in DOMAIN document :
       i # path[1].at /\ document[i].kind = "heading" /\ document[i].title = path[1].title

\* "Overlap only joins prose to prose inside the same top-level section": all
\* content that the overlap of a chunk may repeat was written under the
\* top-level heading the chunk opens under, although the code only compares
\* the titles the two chunks open with and an overlap may reach back over
\* headings and into the overlap of the chunk before.  This holds of every
\* section whose title no other heading has.
OverlapStaysInSection ==
  \A i \in DOMAIN packer.chunks : LET c == packer.chunks[i] IN
    \A k \in DOMAIN c.prefix : IsContent(c.prefix[k]) =>
      Top(c.prefix[k].path) = Top(c.path) \/ RepeatedTitle(c.path)

\* current_tokens never falls behind what current holds, however often
\* headings are carried over.
CountKeepsUp == packer.tokens >= TokensOf(packer.current)
=============================================================================
