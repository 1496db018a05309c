-------------------------- MODULE Extractors_proofs --------------------------
(***************************************************************************)
(* Proofs about the extraction loops: for every document and all limits.     *)
(* First types and page numbers; then the batches of the layout pipeline,    *)
(* the attachments of a mail and the pictures of an Office document.         *)
(***************************************************************************)
EXTENDS Extractors, SeqFolds_proofs

(***************************************************************************)
(* Parts of the Markdown                                                   *)
(***************************************************************************)
LEMMA PartsAreSeq ==
  ASSUME NEW parts, AreParts(parts)
  PROVE  IsSeq(parts) /\ Len(parts) \in Nat /\ DOMAIN parts = 1 .. Len(parts)
BY SeqShape DEF AreParts

LEMMA NoParts == AreParts(<<>>)
BY EmptyIsSeq DEF AreParts

LEMMA OnePart ==
  ASSUME NEW p, IsPart(p)
  PROVE  AreParts(<<p>>)
<1>1. IsSeq(<<p>>) /\ DOMAIN <<p>> = {1} /\ <<p>>[1] = p
  BY OneIsSeq
<1> QED
  BY <1>1 DEF AreParts

LEMMA PartsAppend ==
  ASSUME NEW parts, AreParts(parts), NEW p, IsPart(p)
  PROVE  AreParts(Append(parts, p))
<1> DEFINE r == Append(parts, p)
<1>1. IsSeq(parts) /\ Len(parts) \in Nat /\ DOMAIN parts = 1 .. Len(parts)
  BY PartsAreSeq
<1>2. IsSeq(r) /\ Len(r) = Len(parts) + 1 /\ r[Len(parts) + 1] = p /\ \A i \in 1 .. Len(parts) : r[i] = parts[i]
  BY <1>1, AppendIsSeq
<1> HIDE DEF r
<1>3. DOMAIN r = 1 .. Len(parts) + 1
  BY <1>2, SeqShape
<1>4. \A i \in DOMAIN r : i = Len(parts) + 1 \/ i \in DOMAIN parts
  BY <1>1, <1>3
<1>5. \A i \in DOMAIN r : IsPart(r[i])
  BY <1>1, <1>2, <1>4 DEF AreParts
<1>6. AreParts(r)
  BY <1>2, <1>5 DEF AreParts
<1> QED
  BY <1>6 DEF r

LEMMA PartsConcat ==
  ASSUME NEW parts, AreParts(parts), NEW more, AreParts(more)
  PROVE  AreParts(parts \o more)
<1> DEFINE r == parts \o more
           m == Len(parts)
<1>1. IsSeq(parts) /\ m \in Nat /\ DOMAIN parts = 1 .. m
  BY PartsAreSeq
<1>2. IsSeq(more) /\ Len(more) \in Nat /\ DOMAIN more = 1 .. Len(more)
  BY PartsAreSeq
<1>3. /\ IsSeq(r) /\ Len(r) = m + Len(more) /\ \A i \in 1 .. m : r[i] = parts[i]
      /\ \A i \in 1 .. Len(more) : r[m + i] = more[i]
  BY <1>1, <1>2, ConcatIsSeq
<1> HIDE DEF r, m
<1>4. DOMAIN r = 1 .. m + Len(more)
  BY <1>3, SeqShape
<1>5. ASSUME NEW i \in DOMAIN r
      PROVE  IsPart(r[i])
  <2>1. CASE i <= m
    <3>1. i \in DOMAIN parts /\ r[i] = parts[i]
      BY <1>1, <1>3, <1>4, <2>1
    <3> QED
      BY <3>1 DEF AreParts
  <2>2. CASE i > m
    <3>1. i - m \in 1 .. Len(more) /\ i = m + (i - m)
      BY <1>1, <1>2, <1>4, <2>2
    <3>2. r[i] = more[i - m] /\ i - m \in DOMAIN more
      BY <1>2, <1>3, <3>1
    <3> QED
      BY <3>2 DEF AreParts
  <2> QED
    BY <1>1, <1>4, <2>1, <2>2
<1>6. AreParts(r)
  BY <1>3, <1>5 DEF AreParts
<1> QED
  BY <1>6 DEF r

LEMMA TwoParts ==
  ASSUME NEW p, IsPart(p), NEW q, IsPart(q)
  PROVE  AreParts(<<p, q>>)
<1>1. /\ IsSeq(<<p, q>>) /\ DOMAIN <<p, q>> = {1, 2}
      /\ <<p, q>>[1] = p /\ <<p, q>>[2] = q
  BY PairIsSeq
<1> QED
  BY <1>1 DEF AreParts

LEMMA ThreeParts ==
  ASSUME NEW p, IsPart(p), NEW q, IsPart(q), NEW r, IsPart(r)
  PROVE  AreParts(<<p, q, r>>)
<1>1. /\ DOMAIN <<p, q, r>> = {1, 2, 3}
      /\ <<p, q, r>>[1] = p /\ <<p, q, r>>[2] = q /\ <<p, q, r>>[3] = r
  OBVIOUS
<1>2. IsSeq(<<p, q, r>>)
  BY DEF IsSeq
<1> QED
  BY <1>1, <1>2 DEF AreParts

LEMMA SectionIsPart ==
  ASSUME NEW level \in 1 .. 6
  PROVE  IsPart(Section(level))
BY OneIsSeq DEF Section, IsPart

LEMMA BodyIsPart ==
  ASSUME NEW kind \in {"table", "paragraph", "list"}, NEW ids, IsSeq(ids)
  PROVE  IsPart(Body(kind, ids))
BY DEF Body, IsPart

(***************************************************************************)
(* Types and page numbers                                                  *)
(***************************************************************************)
LEMMA SourceFacts ==
  ASSUME source \in Sources
  PROVE  /\ IsSeq(Items) /\ Len(Items) \in Nat /\ DOMAIN Items = 1 .. Len(Items)
         /\ source.kind = "image" => Len(Items) > 0 /\ \A i \in DOMAIN Items : AreParts(Items[i])
         /\ source.kind = "pdf" /\ source.layout => \A i \in DOMAIN Items : AreParts(Items[i].parts)
         /\ source.layout => source.kind \in {"pdf", "image"}
<1>1. IsSeq(Items)
  BY SourcesAssumption DEF Items
<1>2. Len(Items) \in Nat /\ DOMAIN Items = 1 .. Len(Items) /\ (Items = <<>> <=> Len(Items) = 0)
  BY <1>1, SeqShape
<1> QED
  BY <1>1, <1>2, SourcesAssumption DEF Items

LEMMA MailFacts ==
  ASSUME source \in Sources, source.kind = "mail", NEW i \in DOMAIN Items
  PROVE  /\ IsSeq(Items[i].pages) /\ IsSeq(Items[i].said)
         /\ \A k \in DOMAIN Items[i].pages : AreParts(Items[i].pages[k].parts)
<1> DEFINE a == Items[i]
<1>1. IsSeq(a.said) /\ IsSeq(a.pages) /\ \A k \in DOMAIN a.pages : AreParts(a.pages[k].parts)
  BY SourcesAssumption DEF Items
<1> QED
  BY <1>1

LEMMA WarnedAll ==
  ASSUME IsSeq(warnings), NEW at, NEW said, IsSeq(said), WarnAll(at, said)
  PROVE  /\ IsSeq(warnings')
         /\ \A w \in DOMAIN warnings : w \in DOMAIN warnings' /\ warnings'[w] = warnings[w]
         /\ \A n \in DOMAIN said : Said(at, said[n])'
<1> DEFINE more == [n \in DOMAIN said |-> [at |-> at, what |-> said[n]]]
<1>1. warnings' = warnings \o more
  BY DEF WarnAll
<1>2. Len(said) \in Nat /\ DOMAIN said = 1 .. Len(said)
  BY SeqShape
<1>3. \A n \in 1 .. Len(said) : more[n] = [at |-> at, what |-> said[n]]
  BY <1>2
<1>4. more = [n \in 1 .. Len(said) |-> more[n]]
  BY <1>2
<1> HIDE DEF more
<1>5. IsSeq(more) /\ Len(more) = Len(said)
  BY <1>2, <1>4, FunctionIsSeq
<1>6. /\ IsSeq(warnings') /\ Len(warnings') = Len(warnings) + Len(said)
      /\ \A w \in 1 .. Len(warnings) : warnings'[w] = warnings[w]
      /\ \A n \in 1 .. Len(said) : warnings'[Len(warnings) + n] = more[n]
  BY <1>1, <1>5, ConcatIsSeq
<1>7. /\ Len(warnings) \in Nat /\ DOMAIN warnings = 1 .. Len(warnings)
      /\ DOMAIN warnings' = 1 .. Len(warnings) + Len(said)
  BY <1>6, SeqShape
<1>8. ASSUME NEW n \in 1 .. Len(said) PROVE Said(at, said[n])'
  <2>1. Len(warnings) + n \in DOMAIN warnings'
    BY <1>2, <1>7
  <2>2. warnings'[Len(warnings) + n] = [at |-> at, what |-> said[n]]
    BY <1>3, <1>6
  <2> QED
    BY <2>1, <2>2 DEF Said
<1>9. \A w \in 1 .. Len(warnings) : w \in DOMAIN warnings'
  BY <1>2, <1>7
<1> QED
  BY <1>2, <1>6, <1>7, <1>8, <1>9

LEMMA WarnedMore ==
  ASSUME IsSeq(warnings), NEW w, warnings' = Append(warnings, w)
  PROVE  \A i \in DOMAIN warnings : i \in DOMAIN warnings' /\ warnings'[i] = warnings[i]
<1>1. /\ IsSeq(warnings') /\ Len(warnings') = Len(warnings) + 1
      /\ \A i \in 1 .. Len(warnings) : warnings'[i] = warnings[i]
  BY AppendIsSeq
<1>2. /\ Len(warnings) \in Nat /\ DOMAIN warnings = 1 .. Len(warnings)
      /\ DOMAIN warnings' = 1 .. Len(warnings) + 1
  BY <1>1, SeqShape
<1> QED
  BY <1>1, <1>2

LEMMA OfficeFacts ==
  ASSUME source \in Sources, source.kind \in {"pptx", "docx"}
  PROVE  /\ Looks = source.looks /\ IsFiniteSet(DOMAIN Looks)
         /\ \A i \in DOMAIN Items : Items[i] \in Seq(DOMAIN Looks)
BY SourcesAssumption DEF Items, Looks

\* A page with this number, its parts a sequence.
IsPage(p, number) == AreParts(p.parts) /\ p = PageOf(number, p.from, p.nth, p.method, p.parts)

Numbered(pages) == IsSeq(pages) /\ \A i \in DOMAIN pages : IsPage(pages[i], i)

LEMMA PageOfIsPage ==
  ASSUME NEW number, NEW from, NEW nth, NEW method, NEW parts, AreParts(parts)
  PROVE  IsPage(PageOf(number, from, nth, method, parts), number)
BY DEF IsPage, PageOf

LEMMA PageNumber ==
  ASSUME NEW p, NEW number, IsPage(p, number)
  PROVE  p.number = number /\ AreParts(p.parts)
<1>1. p.number = PageOf(number, p.from, p.nth, p.method, p.parts).number
  BY DEF IsPage
<1> QED
  BY <1>1 DEF PageOf, IsPage

LEMMA NumberedAppend ==
  ASSUME NEW pages, Numbered(pages), NEW from, NEW nth, NEW method, NEW parts, AreParts(parts)
  PROVE  Numbered(Append(pages, PageOf(Len(pages) + 1, from, nth, method, parts)))
<1> DEFINE e == PageOf(Len(pages) + 1, from, nth, method, parts)
           r == Append(pages, e)
<1>1. Len(pages) \in Nat /\ DOMAIN pages = 1 .. Len(pages)
  BY SeqShape DEF Numbered
<1>2. IsPage(e, Len(pages) + 1)
  BY PageOfIsPage
<1> HIDE DEF e
<1>3. IsSeq(r) /\ Len(r) = Len(pages) + 1 /\ r[Len(pages) + 1] = e /\ \A i \in 1 .. Len(pages) : r[i] = pages[i]
  BY AppendIsSeq DEF Numbered
<1> HIDE DEF r
<1>4. DOMAIN r = 1 .. Len(r)
  BY <1>3, SeqShape
<1>5. ASSUME NEW i \in DOMAIN r PROVE IsPage(r[i], i)
  <2>1. CASE i = Len(pages) + 1
    BY <2>1, <1>2, <1>3
  <2>2. CASE i # Len(pages) + 1
    <3>1. i \in DOMAIN pages
      BY <2>2, <1>1, <1>3, <1>4
    <3> QED
      BY <3>1, <1>1, <1>3 DEF Numbered
  <2> QED
    BY <2>1, <2>2
<1>6. Numbered(r)
  BY <1>3, <1>5 DEF Numbered
<1> QED
  BY <1>6 DEF r, e

LEMMA NumberedConcat ==
  ASSUME NEW pages, Numbered(pages), NEW more, IsSeq(more),
         \A k \in 1 .. Len(more) : IsPage(more[k], Len(pages) + k)
  PROVE  Numbered(pages \o more)
<1> DEFINE r == pages \o more
<1>1. Len(pages) \in Nat /\ DOMAIN pages = 1 .. Len(pages)
  BY SeqShape DEF Numbered
<1>2. Len(more) \in Nat
  BY SeqShape
<1>3. /\ IsSeq(r) /\ Len(r) = Len(pages) + Len(more)
      /\ \A i \in 1 .. Len(pages) : r[i] = pages[i]
      /\ \A i \in 1 .. Len(more) : r[Len(pages) + i] = more[i]
  BY ConcatIsSeq DEF Numbered
<1> HIDE DEF r
<1>4. DOMAIN r = 1 .. Len(r)
  BY <1>3, SeqShape
<1>5. ASSUME NEW i \in DOMAIN r PROVE IsPage(r[i], i)
  <2>1. CASE i \in DOMAIN pages
    BY <2>1, <1>1, <1>3 DEF Numbered
  <2>2. CASE i \notin DOMAIN pages
    <3> DEFINE k == i - Len(pages)
    <3>1. k \in 1 .. Len(more) /\ i = Len(pages) + k
      BY <2>2, <1>1, <1>2, <1>3, <1>4
    <3>2. r[i] = more[k]
      BY <3>1, <1>3
    <3> HIDE DEF k
    <3> QED
      BY <3>1, <3>2
  <2> QED
    BY <2>1, <2>2
<1>6. Numbered(r)
  BY <1>3, <1>5 DEF Numbered
<1> QED
  BY <1>6 DEF r

\* Parts added to a page leave the numbers alone.
LEMMA NumberedExcept ==
  ASSUME NEW pages, Numbered(pages), NEW k \in DOMAIN pages, NEW parts, AreParts(parts)
  PROVE  LET r == [pages EXCEPT ![k].parts = parts] IN
         /\ Numbered(r) /\ Len(r) = Len(pages)
         /\ r[k] = PageOf(k, pages[k].from, pages[k].nth, pages[k].method, parts)
         /\ \A i \in DOMAIN pages : i # k => r[i] = pages[i]
<1> DEFINE e == PageOf(k, pages[k].from, pages[k].nth, pages[k].method, parts)
           r == [pages EXCEPT ![k].parts = parts]
<1>1. Len(pages) \in Nat /\ DOMAIN pages = 1 .. Len(pages)
  BY SeqShape DEF Numbered
<1>2. pages[k] = PageOf(k, pages[k].from, pages[k].nth, pages[k].method, pages[k].parts)
  BY DEF Numbered, IsPage
<1>3. [pages[k] EXCEPT !.parts = parts] = e
  BY <1>2 DEF PageOf
<1>4. r = [pages EXCEPT ![k] = e]
  BY <1>3
<1>5. IsPage(e, k)
  BY PageOfIsPage
<1> HIDE DEF e, r
<1>6. r[k] = e /\ \A i \in DOMAIN pages : i # k => r[i] = pages[i]
  BY <1>1, <1>4 DEF Numbered, IsSeq
<1>7. r = [i \in 1 .. Len(pages) |-> r[i]] /\ DOMAIN r = DOMAIN pages
  BY <1>1, <1>4 DEF Numbered, IsSeq
<1>8. IsSeq(r) /\ Len(r) = Len(pages)
  BY <1>1, <1>7, FunctionIsSeq
<1>9. Numbered(r)
  BY <1>5, <1>6, <1>7, <1>8 DEF Numbered
<1> QED
  BY <1>6, <1>9, <1>8 DEF e, r

\* Outside of mails a running loop has one page per item it opened; only an
\* open slide has pictures left.
Inv ==
  /\ source \in Sources
  /\ Numbered(output)
  /\ LoopTypeOK
  /\ source.kind # "mail" /\ outcome = "running" => Len(output) = turn
  /\ source.kind = "mail" /\ turn > 0 => output # <<>>
  /\ todo # <<>> => turn > 0

LEMMA NumberedTyped ==
  ASSUME NEW pages, Numbered(pages)
  PROVE  IsSeq(pages) /\ \A i \in DOMAIN pages : pages[i].number = i /\ AreParts(pages[i].parts)
BY PageNumber DEF Numbered

\* What a step must show.
LEMMA InvKept ==
  ASSUME Inv, UNCHANGED <<source, ocr_mode>>,
         turn' \in 0 .. Len(Items), todo' \in Seq(DOMAIN Looks), Numbered(output'),
         IsSeq(warnings'), listing' \in Seq({"skipped", "failed", "processed"}),
         cache' \in [DOMAIN Looks -> {"unknown", "text", "nothing"}],
         processed' \in 0 .. MaxPictures, outcome' \in {"running", "done", "stopped"},
         source.kind # "mail" /\ outcome' = "running" => Len(output') = turn',
         source.kind = "mail" /\ turn' > 0 => output' # <<>>,
         todo' # <<>> => turn' > 0
  PROVE  Inv'
<1>1. Items' = Items /\ Looks' = Looks
  BY DEF Items, Looks
<1>2. IsSeq(output') /\ \A i \in DOMAIN output' : output'[i].number = i /\ AreParts(output'[i].parts)
  BY NumberedTyped
<1>3. ocr_mode' \in Modes
  BY DEF Inv, LoopTypeOK
<1>4. LoopTypeOK'
  BY <1>1, <1>2, <1>3 DEF LoopTypeOK
<1>5. source' \in Sources /\ source'.kind = source.kind
  BY DEF Inv
<1>6. Numbered(output)'
  OBVIOUS
<1> QED
  BY <1>4, <1>5, <1>6 DEF Inv

LEMMA InvInit == ExtractorsInit => Inv
<1> SUFFICES ASSUME ExtractorsInit PROVE Inv
  OBVIOUS
<1> USE DEF ExtractorsInit
<1>1. IsSeq(<<>>) /\ Numbered(<<>>)
  BY EmptyIsSeq DEF Numbered
<1>2. Len(Items) \in Nat /\ MaxPictures \in Nat
  BY SourceFacts, ExtractorsAssumption
<1>3. turn \in 0 .. Len(Items) /\ processed \in 0 .. MaxPictures
  BY <1>2
<1>4. cache \in [DOMAIN Looks -> {"unknown", "text", "nothing"}]
  OBVIOUS
<1>5. LoopTypeOK
  BY <1>1, <1>3, <1>4 DEF LoopTypeOK
<1> QED
  BY <1>1, <1>5 DEF Inv

(***************************************************************************)
(* One step of each loop                                                   *)
(***************************************************************************)
\* The facts about the state a step starts in.
LEMMA Before ==
  ASSUME Inv
  PROVE  /\ turn \in 0 .. Len(Items) /\ Len(Items) \in Nat /\ DOMAIN Items = 1 .. Len(Items)
         /\ todo \in Seq(DOMAIN Looks) /\ Numbered(output) /\ IsSeq(output) /\ IsSeq(warnings)
         /\ Len(output) \in Nat /\ DOMAIN output = 1 .. Len(output)
         /\ (output = <<>> <=> Len(output) = 0)
         /\ listing \in Seq({"skipped", "failed", "processed"})
         /\ cache \in [DOMAIN Looks -> {"unknown", "text", "nothing"}]
         /\ processed \in 0 .. MaxPictures /\ MaxPictures \in Nat
         /\ outcome \in {"running", "done", "stopped"}
<1>1. IsSeq(output)
  BY DEF Inv, LoopTypeOK
<1> QED
  BY <1>1, SeqShape, SourceFacts, ExtractorsAssumption DEF Inv, LoopTypeOK

\* The first page with the list of attachments at its end.
LEMMA ListedParts ==
  ASSUME NEW parts, AreParts(parts), listing \in Seq({"skipped", "failed", "processed"})
  PROVE  AreParts(parts \o <<Section(2), Body("list", listing)>>)
<1>1. IsSeq(listing)
  BY SeqElements
<1>2. AreParts(<<Section(2), Body("list", listing)>>)
  BY <1>1, SectionIsPart, BodyIsPart, TwoParts
<1> QED
  BY <1>2, PartsConcat

LEMMA MailStep == Inv /\ MailNext => Inv'
<1> SUFFICES ASSUME Inv, MailNext PROVE Inv'
  OBVIOUS
<1> USE Before
<1>1. CASE ReadMessage
  <2> DEFINE parts == <<Section(1), Body("table", <<"field", "from", "to">>), Body("paragraph", <<"body">>)>>
  <2>1. AreParts(parts)
    <3> DEFINE headers == Body("table", <<"field", "from", "to">>)
               body    == Body("paragraph", <<"body">>)
    <3>1. IsSeq(<<"field", "from", "to">>)
      BY DEF IsSeq
    <3>2. IsPart(Section(1)) /\ IsPart(headers) /\ IsPart(body)
      BY <3>1, OneIsSeq, SectionIsPart, BodyIsPart
    <3> HIDE DEF headers, body
    <3>3. AreParts(<<Section(1), headers, body>>)
      BY <3>2, ThreeParts
    <3> QED
      BY <3>3 DEF headers, body
  <2>2. Numbered(<<PageOf(1, 0, 1, "parser", parts)>>)
    <3>1. IsPage(PageOf(1, 0, 1, "parser", parts), 1)
      BY <2>1, PageOfIsPage
    <3> HIDE DEF parts
    <3> QED
      BY <3>1, OneIsSeq DEF Numbered
  <2>3. Numbered(output') /\ output' # <<>>
    BY <1>1, <2>2 DEF ReadMessage
  <2> QED
    BY <1>1, <2>3, InvKept DEF ReadMessage, Running, Inv
<1>2. CASE SkipAttachment
  <2>1. listing' \in Seq({"skipped", "failed", "processed"}) /\ turn' \in 0 .. Len(Items)
    BY <1>2 DEF SkipAttachment, AtAttachment
  <2> QED
    BY <1>2, <2>1, InvKept DEF SkipAttachment, AtAttachment, Running, Inv
<1>3. CASE AttachmentFails
  <2>1. listing' \in Seq({"skipped", "failed", "processed"}) /\ turn' \in 0 .. Len(Items)
    BY <1>3 DEF AttachmentFails, AtAttachment, Warn
  <2>2. IsSeq(warnings')
    BY <1>3, AppendIsSeq DEF AttachmentFails, Warn
  <2> QED
    BY <1>3, <2>1, <2>2, InvKept DEF AttachmentFails, AtAttachment, Running, Inv, Warn
<1>4. CASE ExtractAttachment
  <2> DEFINE pages == Items[turn + 1].pages
             more  == Attached(pages)
  <2>1. turn + 1 \in DOMAIN Items /\ source.kind = "mail" /\ source \in Sources
    BY <1>4 DEF ExtractAttachment, AtAttachment, Running, Inv
  <2>2. /\ IsSeq(pages) /\ \A k \in DOMAIN pages : AreParts(pages[k].parts)
        /\ IsSeq(Items[turn + 1].said)
    BY <2>1, MailFacts
  <2> HIDE DEF pages
  <2>3. Len(pages) \in Nat /\ DOMAIN pages = 1 .. Len(pages)
    BY <2>2, SeqShape
  <2>4. more = [k \in 1 .. Len(pages) |-> more[k]]
    BY <2>3 DEF Attached
  <2>5. IsSeq(more) /\ Len(more) = Len(pages)
    BY <2>3, <2>4, FunctionIsSeq
  <2>6. ASSUME NEW k \in 1 .. Len(more) PROVE IsPage(more[k], Len(output) + k)
    <3>1. AreParts(Titled(k, pages[k].parts))
      <4>1. AreParts(pages[k].parts)
        BY <2>2, <2>3, <2>5
      <4>2. AreParts(<<Section(2)>>)
        BY SectionIsPart, OnePart
      <4>3. AreParts(<<Section(2)>> \o pages[k].parts)
        BY <4>1, <4>2, PartsConcat
      <4> QED
        BY <4>1, <4>3 DEF Titled
    <3>2. more[k] = PageOf(Len(output) + k, turn + 1, k, pages[k].method, Titled(k, pages[k].parts))
      BY <2>3, <2>5 DEF Attached
    <3> QED
      BY <3>1, <3>2, PageOfIsPage
  <2> HIDE DEF more
  <2>7. output' = output \o more
    BY <1>4 DEF ExtractAttachment, more, pages
  <2>8. Numbered(output') /\ output' # <<>>
    <3>1. Numbered(output')
      BY <2>5, <2>6, <2>7, NumberedConcat
    <3>2. Len(output') >= Len(output) /\ IsSeq(output')
      BY <2>3, <2>5, <2>7, ConcatIsSeq
    <3>3. Len(output) > 0
      BY <1>4 DEF ExtractAttachment, AtAttachment
    <3> QED
      BY <3>1, <3>2, <3>3, SeqShape
  <2>9. listing' \in Seq({"skipped", "failed", "processed"}) /\ turn' \in 0 .. Len(Items)
    BY <1>4 DEF ExtractAttachment, AtAttachment
  <2>10. IsSeq(warnings')
    BY <1>4, <2>2, WarnedAll DEF ExtractAttachment
  <2> QED
    BY <1>4, <2>1, <2>8, <2>9, <2>10, InvKept DEF ExtractAttachment, Inv
<1>5. CASE FinishMail
  <2>1. Numbered(output') /\ output' # <<>>
    <3>1. CASE listing = <<>>
      BY <1>5, <3>1 DEF FinishMail
    <3>2. CASE listing # <<>>
      <4> DEFINE parts == output[1].parts \o <<Section(2), Body("list", listing)>>
      <4>1. 1 \in DOMAIN output /\ AreParts(output[1].parts)
        BY <1>5, NumberedTyped DEF FinishMail
      <4>2. AreParts(parts)
        BY <4>1, ListedParts
      <4>3. output' = [output EXCEPT ![1].parts = parts]
        BY <1>5, <3>2 DEF FinishMail
      <4> HIDE DEF parts
      <4>4. Numbered(output') /\ Len(output') = Len(output)
        BY <4>1, <4>2, <4>3, NumberedExcept
      <4> QED
        BY <1>5, <4>4, SeqShape DEF FinishMail, Numbered
    <3> QED
      BY <3>1, <3>2
  <2> QED
    BY <1>5, <2>1, InvKept DEF FinishMail, Running, Inv
<1> QED
  BY <1>1, <1>2, <1>3, <1>4, <1>5 DEF MailNext

LEMMA ImageStep == Inv /\ ImageNext => Inv'
<1> SUFFICES ASSUME Inv, ImageNext PROVE Inv'
  OBVIOUS
<1> USE Before
<1>1. CASE ImageUnread
  <2>1. Numbered(output')
    <3>1. IsPage(PageOf(1, 1, 1, "none", <<>>), 1)
      BY NoParts, PageOfIsPage
    <3> QED
      BY <1>1, <3>1, OneIsSeq DEF ImageUnread, Numbered
  <2>2. IsSeq(warnings')
    BY <1>1, AppendIsSeq DEF ImageUnread, Warn
  <2> QED
    BY <1>1, <2>1, <2>2, InvKept DEF ImageUnread, Running, Inv, Warn
<1>2. CASE TooManyFrames
  BY <1>2, InvKept DEF TooManyFrames, Running, Inv
<1>3. CASE ReadFrame
  <2>1. /\ source.kind = "image" /\ turn < Len(Items) /\ Len(output) = turn /\ source \in Sources
        /\ turn + 1 \in DOMAIN Items /\ turn' = turn + 1 /\ outcome' = "running"
    BY <1>3, SourceFacts DEF ReadFrame, Running, Frames, Animated, Inv
  <2>2. AreParts(Items[turn + 1])
    BY <2>1, SourceFacts
  <2>3. output' = Append(output, PageOf(Len(output) + 1, turn + 1, 1, "ocr", Items[turn + 1]))
    BY <1>3, <2>1 DEF ReadFrame
  <2>4. Numbered(output')
    BY <2>2, <2>3, NumberedAppend
  <2>5. Len(output') = turn'
    BY <2>1, <2>3, AppendIsSeq
  <2> QED
    BY <1>3, <2>1, <2>4, <2>5, InvKept DEF ReadFrame, Inv
<1>4. CASE FinishImage
  <2>1. IsSeq(warnings')
    <3>1. CASE Animated
      <4>1. Warn(0, "first_frame_only")
        BY <1>4, <3>1 DEF FinishImage
      <4> QED
        BY <4>1, AppendIsSeq DEF Warn
    <3>2. CASE ~Animated
      BY <1>4, <3>2 DEF FinishImage
    <3> QED
      BY <3>1, <3>2
  <2> QED
    BY <1>4, <2>1, InvKept DEF FinishImage, Running, Inv
<1> QED
  BY <1>1, <1>2, <1>3, <1>4 DEF ImageNext

\* The pages of a batch: how many there are and where each comes from.
Batch(full) == [k \in 1 .. BatchEnd - turn |-> Exported(turn + k, full)]

LEMMA BatchFacts ==
  ASSUME Inv, ConvertBatch
  PROVE  /\ turn \in Nat /\ BatchEnd \in Nat /\ turn < BatchEnd /\ BatchEnd <= LayoutPages
         /\ BatchEnd <= Len(Items)
         /\ \A full \in BOOLEAN :
              /\ IsSeq(Batch(full)) /\ Len(Batch(full)) = BatchEnd - turn
              /\ \A k \in 1 .. BatchEnd - turn : Batch(full)[k] = Exported(turn + k, full)
<1>1. LayoutPages \in Nat /\ LayoutPages <= Len(Items) /\ BatchPages \in Nat \ {0}
  BY Before, SourceFacts, ExtractorsAssumption DEF Inv, LayoutPages
<1>2. turn \in Nat /\ turn < LayoutPages
  BY <1>1, Before DEF ConvertBatch
<1>3. BatchEnd \in Nat /\ turn < BatchEnd /\ BatchEnd <= LayoutPages /\ BatchEnd <= Len(Items)
  BY <1>1, <1>2, Before DEF BatchEnd
<1>4. BatchEnd - turn \in Nat
  BY <1>2, <1>3
<1> SUFFICES ASSUME NEW full \in BOOLEAN
             PROVE  /\ IsSeq(Batch(full)) /\ Len(Batch(full)) = BatchEnd - turn
                    /\ \A k \in 1 .. BatchEnd - turn : Batch(full)[k] = Exported(turn + k, full)
  BY <1>2, <1>3
<1>5. Batch(full) = [k \in 1 .. BatchEnd - turn |-> Batch(full)[k]]
  BY DEF Batch
<1>6. IsSeq(Batch(full)) /\ Len(Batch(full)) = BatchEnd - turn
  BY <1>4, <1>5, FunctionIsSeq
<1> QED
  BY <1>6 DEF Batch

LEMMA LayoutStep == Inv /\ LayoutNext => Inv'
<1> SUFFICES ASSUME Inv, LayoutNext PROVE Inv'
  OBVIOUS
<1> USE Before
<1>1. CASE ConvertBatch
  <2> DEFINE full == NeedsFullPageOcr(turn + 1, BatchEnd)
  <2>1. output' = output \o Batch(full)
    BY <1>1 DEF ConvertBatch, Batch
  <2>2. full \in BOOLEAN
    BY DEF NeedsFullPageOcr
  <2> HIDE DEF full
  <2>3. /\ turn \in Nat /\ BatchEnd \in Nat /\ turn < BatchEnd /\ BatchEnd <= Len(Items)
        /\ IsSeq(Batch(full)) /\ Len(Batch(full)) = BatchEnd - turn
        /\ \A k \in 1 .. BatchEnd - turn : Batch(full)[k] = Exported(turn + k, full)
    BY <1>1, <2>2, BatchFacts
  <2>4. /\ Len(output) = turn /\ source.kind # "mail" /\ source \in Sources
        /\ source.layout /\ source.kind \in {"pdf", "image"}
    BY <1>1, SourceFacts DEF ConvertBatch, InLayout, Inv
  <2>5. ASSUME NEW k \in 1 .. BatchEnd - turn PROVE IsPage(Batch(full)[k], Len(output) + k)
    <3>1. turn + k \in DOMAIN Items
      BY <2>3
    <3>2. AreParts(Converted(turn + k, full))
      <4>1. CASE source.kind = "image"
        <5>1. Len(Items) > 0 /\ \A i \in DOMAIN Items : AreParts(Items[i])
          BY <2>4, <4>1, SourceFacts
        <5>2. AreParts(Items[1])
          BY <5>1
        <5> QED
          BY <4>1, <5>2, NoParts DEF Converted
      <4>2. CASE source.kind = "pdf"
        <5>1. AreParts(Items[turn + k].parts)
          BY <2>4, <3>1, <4>2, SourceFacts
        <5> QED
          BY <4>2, <5>1, NoParts DEF Converted
      <4> QED
        BY <2>4, <4>1, <4>2
    <3>3. IsPage(Exported(turn + k, full), turn + k)
      BY <3>2, PageOfIsPage DEF Exported
    <3> QED
      BY <2>3, <2>4, <3>3
  <2>6. Numbered(output')
    BY <2>1, <2>3, <2>5, NumberedConcat
  <2>7. turn' = BatchEnd
    BY <1>1 DEF ConvertBatch
  <2>8. Len(output') = turn'
    <3>1. Len(output \o Batch(full)) = Len(output) + Len(Batch(full))
      BY <2>3, ConcatIsSeq
    <3> QED
      BY <2>1, <2>3, <2>4, <2>7, <3>1
  <2>9. IsSeq(warnings')
    <3>1. CASE UNCHANGED warnings
      BY <3>1
    <3>2. CASE Warn(turn + 1, "partially_converted")
      BY <3>2, AppendIsSeq DEF Warn
    <3> QED
      BY <1>1, <3>1, <3>2 DEF ConvertBatch
  <2>10. turn' \in 0 .. Len(Items) /\ turn' > 0
    BY <2>3, <2>7
  <2> QED
    BY <1>1, <2>4, <2>6, <2>8, <2>9, <2>10, InvKept DEF ConvertBatch, Inv
<1>2. CASE FinishLayout
  BY <1>2, InvKept DEF FinishLayout, InLayout, Inv
<1> QED
  BY <1>1, <1>2 DEF LayoutNext

\* The picture at hand, and the page it stands on.
LEMMA PictureFacts ==
  ASSUME Inv, AtPicture
  PROVE  /\ Head(todo) \in DOMAIN Looks /\ Tail(todo) \in Seq(DOMAIN Looks)
         /\ turn > 0 /\ Len(output) = turn /\ turn \in DOMAIN output
         /\ source.kind \in {"pptx", "docx"} /\ outcome = "running" /\ ~source.layout
         /\ AreParts(output[turn].parts)
<1>1. todo # <<>> /\ turn > 0 /\ source.kind \in {"pptx", "docx"} /\ outcome = "running" /\ ~source.layout
  BY DEF AtPicture, Running, Inv
<1>2. Head(todo) \in DOMAIN Looks /\ Tail(todo) \in Seq(DOMAIN Looks)
  BY <1>1, Before
<1>3. Len(output) = turn /\ turn \in DOMAIN output
  BY <1>1, Before DEF Inv
<1>4. AreParts(output[turn].parts)
  BY <1>3, Before, NumberedTyped
<1> QED
  BY <1>1, <1>2, <1>3, <1>4

LEMMA LearnedKind ==
  ASSUME Inv, NEW key \in DOMAIN Looks
  PROVE  Learned(key) \in {"unknown", "text", "nothing"}
BY Before DEF Learned

\* A picture read: its page keeps its number, the others are as they were.
LEMMA ReadPictureFacts ==
  ASSUME Inv, ReadPicture
  PROVE  /\ Numbered(output') /\ Len(output') = turn
         /\ output'[turn].parts = Shown(output[turn].parts, Head(todo))
         /\ \A i \in DOMAIN output : i # turn => output'[i] = output[i]
<1> DEFINE parts == Shown(output[turn].parts, Head(todo))
<1>1. AtPicture
  BY DEF ReadPicture
<1>2. turn \in DOMAIN output /\ Len(output) = turn /\ AreParts(output[turn].parts)
  BY <1>1, PictureFacts
<1>3. AreParts(parts)
  BY <1>2, OneIsSeq, BodyIsPart, PartsAppend DEF Shown
<1>4. output' = [output EXCEPT ![turn].parts = parts]
  BY <1>2 DEF ReadPicture
<1> HIDE DEF parts
<1>5. /\ Numbered(output') /\ Len(output') = Len(output)
      /\ output'[turn] = PageOf(turn, output[turn].from, output[turn].nth, output[turn].method, parts)
      /\ \A i \in DOMAIN output : i # turn => output'[i] = output[i]
  BY <1>2, <1>3, <1>4, NumberedExcept, Before
<1>6. output'[turn].parts = parts
  BY <1>5 DEF PageOf
<1> QED
  BY <1>2, <1>5, <1>6 DEF parts

LEMMA OpenSlideFacts ==
  ASSUME Inv, OpenSlide
  PROVE  /\ Len(output) = turn /\ turn' = turn + 1 /\ turn + 1 \in DOMAIN Items
         /\ todo' = Items[turn + 1] /\ todo' \in Seq(DOMAIN Looks)
         /\ Numbered(output') /\ Len(output') = turn'
         /\ \A i \in 1 .. turn : output'[i] = output[i]
         /\ output'[turn'].parts = IF source.kind = "pptx" THEN <<Section(2)>> ELSE <<>>
<1> DEFINE parts == IF source.kind = "pptx" THEN <<Section(2)>> ELSE <<>>
           page  == PageOf(Len(output) + 1, turn + 1, 1, "parser", parts)
<1>1. /\ source.kind \in {"pptx", "docx"} /\ source \in Sources /\ outcome = "running"
      /\ turn < Len(Items) /\ turn' = turn + 1
  BY DEF OpenSlide, Running, Inv
<1>2. Len(output) = turn /\ turn + 1 \in DOMAIN Items
  BY <1>1, Before DEF Inv
<1>3. todo' = Items[turn + 1] /\ todo' \in Seq(DOMAIN Looks)
  BY <1>1, <1>2, OfficeFacts DEF OpenSlide
<1>4. AreParts(parts)
  BY SectionIsPart, OnePart, NoParts
<1>5. output' = Append(output, page)
  BY <1>2 DEF OpenSlide
<1>6. page.parts = parts
  BY DEF PageOf
<1>7. Numbered(Append(output, page))
  BY <1>4, Before, NumberedAppend
<1> HIDE DEF page, parts
<1>8. /\ Len(Append(output, page)) = Len(output) + 1
      /\ Append(output, page)[Len(output) + 1] = page
      /\ \A i \in 1 .. Len(output) : Append(output, page)[i] = output[i]
  BY Before, AppendIsSeq
<1>9. output'[turn'].parts = parts
  BY <1>1, <1>2, <1>5, <1>6, <1>8
<1> QED
  BY <1>1, <1>2, <1>3, <1>5, <1>7, <1>8, <1>9 DEF parts

LEMMA OfficeStep == Inv /\ OfficeNext => Inv'
<1> SUFFICES ASSUME Inv, OfficeNext PROVE Inv'
  OBVIOUS
<1> USE Before
<1>1. CASE OpenSlide
  <2>1. source.kind # "mail" /\ outcome' = "running" /\ turn' \in 0 .. Len(Items) /\ turn' > 0
    BY <1>1, OpenSlideFacts DEF OpenSlide, Running
  <2> QED
    BY <1>1, <2>1, OpenSlideFacts, InvKept DEF OpenSlide
<1>2. CASE ReadPicture
  <2>1. AtPicture
    BY <1>2 DEF ReadPicture
  <2>2. /\ Head(todo) \in DOMAIN Looks /\ Tail(todo) \in Seq(DOMAIN Looks) /\ turn > 0
        /\ source.kind # "mail" /\ outcome = "running"
    BY <2>1, PictureFacts
  <2>3. cache' \in [DOMAIN Looks -> {"unknown", "text", "nothing"}]
    BY <1>2, <2>2, LearnedKind DEF ReadPicture
  <2>4. processed' \in 0 .. MaxPictures
    BY <1>2 DEF ReadPicture, Recognises
  <2> QED
    BY <1>2, <2>2, <2>3, <2>4, ReadPictureFacts, InvKept DEF ReadPicture
<1>3. CASE PictureFails
  <2>1. Tail(todo) \in Seq(DOMAIN Looks) /\ turn > 0 /\ Len(output) = turn /\ source.kind # "mail"
    BY <1>3, PictureFacts DEF PictureFails
  <2> QED
    BY <1>3, <2>1, InvKept DEF PictureFails
<1>4. CASE FinishOffice
  <2>1. Numbered(output')
    <3>1. IsPage(PageOf(1, 1, 1, "parser", <<>>), 1)
      BY NoParts, PageOfIsPage
    <3>2. Numbered(<<PageOf(1, 1, 1, "parser", <<>>)>>)
      BY <3>1, OneIsSeq DEF Numbered
    <3> QED
      BY <1>4, <3>2 DEF FinishOffice
  <2> QED
    BY <1>4, <2>1, InvKept DEF FinishOffice, Running
<1> QED
  BY <1>1, <1>2, <1>3, <1>4 DEF OfficeNext

LEMMA SheetFacts ==
  ASSUME source \in Sources, source.kind = "xlsx", NEW t \in DOMAIN Items
  PROVE  Items[t] \in Seq([cells : Nat, blank : BOOLEAN])
BY SourcesAssumption DEF Items

LEMMA FilledIs ==
  ASSUME NEW sheet \in Seq([cells : Nat, blank : BOOLEAN])
  PROVE  Filled(sheet) \in Seq(Nat) /\ Len(Filled(sheet)) \in Nat
<1> DEFINE rows == [i \in DOMAIN sheet |-> i]
           K    == {i \in Within(sheet) : ~sheet[i].blank}
<1>1. rows \in Seq(Nat)
  OBVIOUS
<1>2. Filled(sheet) = Picked(rows, K)
  BY DEF Filled
<1> HIDE DEF rows, K
<1>3. Picked(rows, K) \in Seq(Nat)
  BY <1>1, PickedIsSeq
<1> QED
  BY <1>2, <1>3

LEMMA RowsAreSeq ==
  ASSUME NEW sheet \in Seq([cells : Nat, blank : BOOLEAN])
  PROVE  IsSeq(TableRows(Filled(sheet)))
<1> DEFINE rows == Filled(sheet)
           n    == MaxTableRows + 1
<1>1. rows \in Seq(Nat) /\ Len(rows) \in Nat /\ n \in Nat
  BY FilledIs, ExtractorsAssumption
<1> HIDE DEF rows, n
<1>2. Len(rows) > n => SubSeq(rows, 1, n) \in Seq(Nat)
  BY <1>1
<1>3. TableRows(rows) \in Seq(Nat)
  BY <1>1, <1>2 DEF TableRows, n
<1> QED
  BY <1>3, SeqElements DEF rows

LEMMA SheetStep == Inv /\ SheetNext => Inv'
<1> SUFFICES ASSUME Inv, SheetNext PROVE Inv'
  OBVIOUS
<1> USE Before
<1>1. CASE ReadSheet
  <2> DEFINE sheet == Items[turn + 1]
             said  == Notices(sheet)
             rows  == TableRows(Filled(sheet))
             body  == IF rows = <<>> THEN Body("paragraph", <<"empty_sheet">>) ELSE Body("table", rows)
             notes == [i \in DOMAIN said |-> [at |-> turn + 1, what |-> said[i]]]
  <2>1. source.kind = "xlsx" /\ outcome = "running" /\ turn < Len(Items) /\ turn' = turn + 1
    BY <1>1 DEF ReadSheet, Running
  <2>2. Len(output) = turn
    BY <2>1 DEF Inv
  <2>3. output' = Append(output, PageOf(Len(output) + 1, turn + 1, 1, "parser", <<Section(2), body>>))
    BY <1>1, <2>2 DEF ReadSheet
  <2>4. IsSeq(said)
    BY OneIsSeq, EmptyIsSeq, ConcatIsSeq DEF Notices
  <2>5. warnings' = warnings \o notes
    BY <1>1 DEF ReadSheet, WarnAll
  <2>6. IsPart(body)
    <3>1. sheet \in Seq([cells : Nat, blank : BOOLEAN])
      BY <2>1, SheetFacts DEF Inv
    <3>2. IsSeq(rows) /\ IsSeq(<<"empty_sheet">>)
      BY <3>1, RowsAreSeq, OneIsSeq
    <3> QED
      BY <3>2, BodyIsPart
  <2> HIDE DEF body, said
  <2>7. Numbered(output') /\ Len(output') = turn'
    <3>1. Numbered(output')
      BY <2>3, <2>6, SectionIsPart, TwoParts, NumberedAppend
    <3>2. Len(output') = Len(output) + 1
      BY <2>3, AppendIsSeq
    <3> QED
      BY <2>1, <2>2, <3>1, <3>2
  <2>8. IsSeq(notes)
    <3>1. DOMAIN said = 1 .. Len(said) /\ Len(said) \in Nat
      BY <2>4, SeqShape
    <3>2. notes = [i \in 1 .. Len(said) |-> notes[i]]
      BY <3>1
    <3> QED
      BY <3>1, <3>2, FunctionIsSeq
  <2> HIDE DEF notes
  <2>9. IsSeq(warnings')
    BY <2>5, <2>8, ConcatIsSeq
  <2> QED
    BY <1>1, <2>1, <2>7, <2>9, InvKept DEF ReadSheet, Inv
<1>2. CASE FinishWorkbook
  BY <1>2, InvKept DEF FinishWorkbook, Running, Inv
<1> QED
  BY <1>1, <1>2 DEF SheetNext

LEMMA StopStep == Inv /\ Stop => Inv'
<1> SUFFICES ASSUME Inv, Stop PROVE Inv'
  OBVIOUS
<1> QED
  BY Before, InvKept DEF Stop, Inv

LEMMA StutterStep == Inv /\ UNCHANGED loopvars => Inv'
<1> SUFFICES ASSUME Inv, UNCHANGED loopvars PROVE Inv'
  OBVIOUS
<1> QED
  BY Before, InvKept DEF loopvars, Inv

THEOREM InvCorrect == ExtractorsSpec => []Inv
<1>1. Inv /\ [LoopNext]_loopvars => Inv'
  BY MailStep, ImageStep, LayoutStep, OfficeStep, SheetStep, StopStep, StutterStep DEF LoopNext
<1> QED
  BY InvInit, <1>1, PTL DEF ExtractorsSpec

\* Types hold throughout extract_document, and every loop numbers its pages
\* 1, 2, 3 and on, whatever it skips, whatever fails, and at any limits.
THEOREM LoopTypeCorrect == ExtractorsSpec => []LoopTypeOK
<1>1. Inv => LoopTypeOK
  BY DEF Inv
<1> QED
  BY InvCorrect, <1>1, PTL

\* The document stays what it is.
LEMMA SourceStays == LoopNext => UNCHANGED source
BY DEF LoopNext, MailNext, ImageNext, LayoutNext, OfficeNext, SheetNext, ReadMessage, SkipAttachment,
       AttachmentFails, ExtractAttachment, FinishMail, ImageUnread, TooManyFrames, ReadFrame, FinishImage,
       ConvertBatch, FinishLayout, OpenSlide, ReadPicture, PictureFails, FinishOffice, ReadSheet,
       FinishWorkbook, Stop

(***************************************************************************)
(* The layout pipeline                                                     *)
(***************************************************************************)
\* Full-page OCR is on for a batch as soon as one page of it is scanned, so
\* every page of the batch is converted as if it were on for that page alone.
LEMMA BatchIsOcred ==
  ASSUME Inv, ConvertBatch, NEW i \in turn + 1 .. BatchEnd
  PROVE  Converted(i, NeedsFullPageOcr(turn + 1, BatchEnd)) = Converted(i, TRUE)
BY DEF Converted, NeedsFullPageOcr

LEMMA LayoutKept ==
  ASSUME Inv, LoopNext, ScannedPagesAreOcred
  PROVE  ScannedPagesAreOcred'
<1> SUFFICES ASSUME source'.layout
             PROVE  /\ Len(output') = turn'
                    /\ \A i \in DOMAIN output' : output'[i].from = i /\ output'[i].parts = Converted(i, TRUE)'
  BY DEF ScannedPagesAreOcred
<1>1. source' = source
  BY SourceStays
<1>2. \A i : Converted(i, TRUE)' = Converted(i, TRUE)
  BY <1>1 DEF Converted, Scanned, Items
<1>3. /\ source.layout /\ Len(output) = turn
      /\ \A i \in DOMAIN output : output[i].from = i /\ output[i].parts = Converted(i, TRUE)
  BY <1>1 DEF ScannedPagesAreOcred
<1>4. LayoutNext \/ Stop
  BY <1>3 DEF LoopNext, MailNext, ImageNext, OfficeNext, SheetNext, ReadMessage, SkipAttachment, AtAttachment,
         AttachmentFails, ExtractAttachment, FinishMail, ImageUnread, TooManyFrames, ReadFrame, FinishImage,
         OpenSlide, ReadPicture, AtPicture, PictureFails, FinishOffice, ReadSheet, FinishWorkbook, Running
<1>5. CASE ConvertBatch
  <2> DEFINE full == NeedsFullPageOcr(turn + 1, BatchEnd)
  <2>1. full \in BOOLEAN
    BY DEF NeedsFullPageOcr
  <2>2. output' = output \o Batch(full) /\ turn' = BatchEnd
    BY <1>5 DEF ConvertBatch, Batch
  <2>3. \A i \in turn + 1 .. BatchEnd : Converted(i, full) = Converted(i, TRUE)
    BY <1>5, BatchIsOcred
  <2> HIDE DEF full
  <2>4. /\ turn \in Nat /\ BatchEnd \in Nat /\ turn < BatchEnd
        /\ IsSeq(Batch(full)) /\ Len(Batch(full)) = BatchEnd - turn
        /\ \A k \in 1 .. BatchEnd - turn : Batch(full)[k] = Exported(turn + k, full)
    BY <1>5, <2>1, BatchFacts
  <2>5. /\ IsSeq(output') /\ Len(output') = BatchEnd
        /\ \A i \in 1 .. turn : output'[i] = output[i]
        /\ \A k \in 1 .. BatchEnd - turn : output'[turn + k] = Batch(full)[k]
    <3> DEFINE all == output \o Batch(full)
    <3>1. IsSeq(output) /\ IsSeq(Batch(full))
      BY <2>4, Before
    <3>2. /\ IsSeq(all) /\ Len(all) = Len(output) + Len(Batch(full))
          /\ \A i \in 1 .. Len(output) : all[i] = output[i]
          /\ \A i \in 1 .. Len(Batch(full)) : all[Len(output) + i] = Batch(full)[i]
      BY <3>1, ConcatIsSeq
    <3>3. output' = all
      BY <2>2
    <3> HIDE DEF all
    <3>4. Len(output) = turn /\ Len(Batch(full)) = BatchEnd - turn
      BY <1>3, <2>4
    <3>5. IsSeq(output')
      BY <3>2, <3>3
    <3>6. Len(output') = BatchEnd
      BY <2>4, <3>2, <3>3, <3>4
    <3>7. \A i \in 1 .. turn : output'[i] = output[i]
      BY <3>2, <3>3, <3>4
    <3>8. \A k \in 1 .. BatchEnd - turn : output'[turn + k] = Batch(full)[k]
      BY <3>2, <3>3, <3>4
    <3> QED
      BY <3>5, <3>6, <3>7, <3>8
  <2>6. DOMAIN output' = 1 .. BatchEnd
    BY <2>5, SeqShape
  <2>7. ASSUME NEW i \in 1 .. BatchEnd
        PROVE  output'[i].from = i /\ output'[i].parts = Converted(i, TRUE)
    <3>1. CASE i \in 1 .. turn
      <4>1. i \in DOMAIN output /\ output'[i] = output[i]
        BY <3>1, <1>3, <2>5, Before
      <4> QED
        BY <4>1, <1>3
    <3>2. CASE i \in turn + 1 .. BatchEnd
      <4> DEFINE k == i - turn
      <4>1. k \in 1 .. BatchEnd - turn /\ i = turn + k
        BY <3>2, <2>4
      <4>2. output'[i] = Exported(i, full)
        BY <4>1, <2>4, <2>5
      <4>3. Exported(i, full).from = i /\ Exported(i, full).parts = Converted(i, full)
        BY DEF Exported, PageOf
      <4>4. Converted(i, full) = Converted(i, TRUE)
        BY <3>2, <2>3
      <4> QED
        BY <4>2, <4>3, <4>4
    <3>3. i \in 1 .. turn \/ i \in turn + 1 .. BatchEnd
      BY <2>4
    <3> QED
      BY <3>1, <3>2, <3>3
  <2>8. Len(output') = turn'
    BY <2>2, <2>5
  <2>9. ASSUME NEW i \in DOMAIN output'
        PROVE  output'[i].from = i /\ output'[i].parts = Converted(i, TRUE)'
    <3>1. i \in 1 .. BatchEnd
      BY <2>6
    <3>2. output'[i].from = i /\ output'[i].parts = Converted(i, TRUE)
      BY <2>7, <3>1
    <3>3. Converted(i, TRUE)' = Converted(i, TRUE)
      BY <1>2
    <3> QED
      BY <3>2, <3>3
  <2> QED
    BY <2>8, <2>9
<1>6. CASE FinishLayout \/ Stop
  BY <1>2, <1>3, <1>6 DEF FinishLayout, Stop
<1> QED
  BY <1>4, <1>5, <1>6 DEF LayoutNext

\* The layout pipeline exports every page once and in its place, and reads
\* every page without a text layer with OCR over the full page, for every
\* document, every size of a batch, and whatever the batch ends with.
THEOREM ScannedPagesOcred == ExtractorsSpec => []ScannedPagesAreOcred
<1>1. ExtractorsInit => ScannedPagesAreOcred
  BY DEF ExtractorsInit, ScannedPagesAreOcred
<1>2. ScannedPagesAreOcred /\ UNCHANGED loopvars => ScannedPagesAreOcred'
  BY DEF ScannedPagesAreOcred, loopvars, Converted, Scanned, Items
<1>3. Inv /\ ScannedPagesAreOcred /\ [LoopNext]_loopvars => ScannedPagesAreOcred'
  BY <1>2, LayoutKept
<1> QED
  BY InvCorrect, <1>1, <1>3, PTL DEF ExtractorsSpec

(***************************************************************************)
(* The attachments of a mail                                               *)
(***************************************************************************)
\* The mail itself is the first page, so what an attachment adds comes later.
MailInv ==
  /\ AttachmentsAreAccountedFor
  /\ source.kind = "mail" /\ output # <<>> => output[1].from = 0

\* MailInv while the loop runs, in terms of where things stand.
Accounted ==
  /\ Len(listing) = turn
  /\ output # <<>> => output[1].from = 0
  /\ \A t \in DOMAIN listing :
       /\ listing[t] = "failed" => \E w \in DOMAIN warnings : warnings[w].at = t
       /\ listing[t] = "processed" => \A k \in DOMAIN Items[t].pages :
            \E i \in DOMAIN output : output[i].from = t /\ output[i].nth = k
  /\ \A i \in DOMAIN output : i > 1 =>
       /\ output[i].from \in DOMAIN listing /\ listing[output[i].from] = "processed"
       /\ \/ output[i - 1].from < output[i].from
          \/ output[i - 1].from = output[i].from /\ output[i - 1].nth + 1 = output[i].nth

LEMMA AccountedIsMailInv ==
  ASSUME source.kind = "mail"
  PROVE  /\ MailInv => Accounted
         /\ Accounted /\ outcome # "done" => MailInv
BY DEF MailInv, AttachmentsAreAccountedFor, Accounted

\* One more attachment on the list, its pages (if it has any) behind the others.
ListGrows ==
  /\ turn' = turn + 1 /\ IsSeq(listing') /\ Len(listing') = turn + 1
  /\ \A t \in 1 .. turn : listing'[t] = listing[t]

WarningsStay ==
  /\ \A w \in DOMAIN warnings : w \in DOMAIN warnings' /\ warnings'[w] = warnings[w]
  /\ listing'[turn + 1] = "failed" => \E w \in DOMAIN warnings' : warnings'[w].at = turn + 1

More == 1 .. Len(output') - Len(output)

PagesGrow ==
  /\ output # <<>> /\ IsSeq(output') /\ Len(output') >= Len(output)
  /\ \A i \in 1 .. Len(output) : output'[i] = output[i]

NewPages ==
  /\ listing'[turn + 1] = "processed" => DOMAIN Items[turn + 1].pages = More
  /\ \A k \in More :
       /\ listing'[turn + 1] = "processed"
       /\ output'[Len(output) + k].from = turn + 1 /\ output'[Len(output) + k].nth = k

LEMMA GrowFacts ==
  ASSUME Inv, Accounted, ListGrows, PagesGrow
  PROVE  /\ turn \in Nat /\ turn' = turn + 1
         /\ DOMAIN listing = 1 .. turn /\ DOMAIN listing' = 1 .. turn + 1
         /\ \A t \in 1 .. turn : listing'[t] = listing[t]
         /\ Len(output) \in Nat /\ Len(output) > 0 /\ DOMAIN output = 1 .. Len(output)
         /\ Len(output') \in Nat /\ DOMAIN output' = 1 .. Len(output') /\ Len(output') >= Len(output)
         /\ \A i \in 1 .. Len(output) : output'[i] = output[i]
<1>1. IsSeq(listing) /\ turn \in Nat /\ Len(listing) = turn /\ turn' = turn + 1
  BY Before, SeqElements DEF Accounted, ListGrows
<1>2. DOMAIN listing = 1 .. turn
  BY <1>1, SeqShape
<1>3. IsSeq(listing') /\ Len(listing') = turn + 1
  BY DEF ListGrows
<1>4. DOMAIN listing' = 1 .. turn + 1
  BY <1>3, SeqShape
<1>5. Len(output) \in Nat /\ Len(output) > 0 /\ DOMAIN output = 1 .. Len(output)
  BY Before DEF PagesGrow
<1>6. IsSeq(output')
  BY DEF PagesGrow
<1>7. Len(output') \in Nat /\ DOMAIN output' = 1 .. Len(output')
  BY <1>6, SeqShape
<1> QED
  BY <1>1, <1>2, <1>4, <1>5, <1>7 DEF PagesGrow, ListGrows

LEMMA FromBefore ==
  ASSUME Inv, Accounted, ListGrows, PagesGrow, NEW j \in DOMAIN output
  PROVE  output[j].from \in 0 .. turn
<1> USE GrowFacts
<1>1. CASE j = 1
  BY <1>1 DEF Accounted, PagesGrow
<1>2. CASE j # 1
  <2>1. j > 1
    BY <1>2
  <2>2. output[j].from \in DOMAIN listing
    BY <2>1 DEF Accounted
  <2> QED
    BY <2>2
<1> QED
  BY <1>1, <1>2

LEMMA ListStaysTrue ==
  ASSUME Inv, Accounted, ListGrows, WarningsStay, PagesGrow, NewPages, NEW t \in DOMAIN listing'
  PROVE  /\ listing'[t] = "failed" => \E w \in DOMAIN warnings' : warnings'[w].at = t
         /\ listing'[t] = "processed" => \A k \in DOMAIN Items[t].pages :
              \E i \in DOMAIN output' : output'[i].from = t /\ output'[i].nth = k
<1> USE GrowFacts
<1>1. CASE t = turn + 1
  <2>1. listing'[t] = "failed" => \E w \in DOMAIN warnings' : warnings'[w].at = t
    BY <1>1 DEF WarningsStay
  <2>2. ASSUME listing'[t] = "processed", NEW k \in DOMAIN Items[t].pages
        PROVE  \E i \in DOMAIN output' : output'[i].from = t /\ output'[i].nth = k
    <3>1. k \in More
      BY <1>1, <2>2 DEF NewPages
    <3>2. Len(output) + k \in DOMAIN output'
      BY <3>1 DEF More
    <3>3. output'[Len(output) + k].from = t /\ output'[Len(output) + k].nth = k
      BY <1>1, <3>1 DEF NewPages
    <3> QED
      BY <3>2, <3>3
  <2> QED
    BY <2>1, <2>2
<1>2. CASE t # turn + 1
  <2>1. t \in 1 .. turn
    BY <1>2
  <2>2. listing'[t] = listing[t] /\ t \in DOMAIN listing
    BY <2>1
  <2>3. listing'[t] = "failed" => \E w \in DOMAIN warnings' : warnings'[w].at = t
    BY <2>2 DEF Accounted, WarningsStay
  <2>4. ASSUME listing'[t] = "processed", NEW k \in DOMAIN Items[t].pages
        PROVE  \E i \in DOMAIN output' : output'[i].from = t /\ output'[i].nth = k
    <3>1. PICK i \in DOMAIN output : output[i].from = t /\ output[i].nth = k
      BY <2>2, <2>4 DEF Accounted
    <3>2. i \in DOMAIN output' /\ output'[i] = output[i]
      OBVIOUS
    <3> QED
      BY <3>1, <3>2
  <2> QED
    BY <2>3, <2>4
<1> QED
  BY <1>1, <1>2

LEMMA OrderStaysTrue ==
  ASSUME Inv, Accounted, ListGrows, PagesGrow, NewPages, NEW i \in DOMAIN output', i > 1
  PROVE  /\ output'[i].from \in DOMAIN listing' /\ listing'[output'[i].from] = "processed"
         /\ \/ output'[i - 1].from < output'[i].from
            \/ output'[i - 1].from = output'[i].from /\ output'[i - 1].nth + 1 = output'[i].nth
<1> USE GrowFacts
<1>1. CASE i <= Len(output)
  <2>1. i \in DOMAIN output /\ output'[i] = output[i] /\ output'[i - 1] = output[i - 1]
    BY <1>1
  <2>2. /\ output[i].from \in DOMAIN listing /\ listing[output[i].from] = "processed"
        /\ \/ output[i - 1].from < output[i].from
           \/ output[i - 1].from = output[i].from /\ output[i - 1].nth + 1 = output[i].nth
    BY <2>1 DEF Accounted
  <2>3. output[i].from \in DOMAIN listing' /\ listing'[output[i].from] = listing[output[i].from]
    BY <2>2
  <2> QED
    BY <2>1, <2>2, <2>3
<1>2. CASE i > Len(output)
  <2>1. PICK k \in More : i = Len(output) + k
    <3>1. i - Len(output) \in More /\ i = Len(output) + (i - Len(output))
      BY <1>2 DEF More
    <3> QED
      BY <3>1
  <2>2. k \in Nat /\ k >= 1
    BY DEF More
  <2>3. listing'[turn + 1] = "processed" /\ output'[i].from = turn + 1 /\ output'[i].nth = k
    BY <2>1 DEF NewPages
  <2>4. CASE k = 1
    <3>1. i - 1 \in DOMAIN output /\ output'[i - 1] = output[i - 1]
      BY <2>1, <2>4
    <3>2. output[i - 1].from \in 0 .. turn
      BY <3>1, FromBefore
    <3> QED
      BY <2>3, <3>1, <3>2
  <2>5. CASE k # 1
    <3>1. k - 1 \in More /\ i - 1 = Len(output) + (k - 1)
      BY <2>1, <2>2, <2>5 DEF More
    <3>2. output'[i - 1].from = turn + 1 /\ output'[i - 1].nth = k - 1
      BY <3>1 DEF NewPages
    <3> QED
      BY <2>2, <2>3, <3>2
  <2> QED
    BY <2>4, <2>5
<1> QED
  BY <1>1, <1>2

LEMMA OneMoreAttachment ==
  ASSUME Inv, Accounted, UNCHANGED source, ListGrows, WarningsStay, PagesGrow, NewPages
  PROVE  Accounted'
<1>1. Items' = Items
  BY DEF Items
<1>2. Len(listing)' = turn' /\ (output' # <<>> => output'[1].from = 0)
  BY GrowFacts DEF Accounted, ListGrows, PagesGrow
<1> QED
  BY <1>1, <1>2, ListStaysTrue, OrderStaysTrue DEF Accounted

LEMMA ListAppended ==
  ASSUME Inv, Accounted, turn' = turn + 1,
         listing' = Append(listing, "skipped") \/ listing' = Append(listing, "failed")
                      \/ listing' = Append(listing, "processed")
  PROVE  /\ ListGrows
         /\ listing' = Append(listing, "skipped") => listing'[turn + 1] = "skipped"
         /\ listing' = Append(listing, "failed") => listing'[turn + 1] = "failed"
         /\ listing' = Append(listing, "processed") => listing'[turn + 1] = "processed"
<1>1. IsSeq(listing) /\ Len(listing) = turn
  BY Before, SeqElements DEF Accounted
<1>2. ASSUME NEW said
      PROVE  /\ IsSeq(Append(listing, said)) /\ Len(Append(listing, said)) = turn + 1
             /\ Append(listing, said)[turn + 1] = said
             /\ \A t \in 1 .. turn : Append(listing, said)[t] = listing[t]
  BY <1>1, AppendIsSeq
<1>3. ASSUME NEW said, listing' = Append(listing, said)
      PROVE  ListGrows /\ listing'[turn + 1] = said
  BY <1>2, <1>3 DEF ListGrows
<1> QED
  BY <1>3

LEMMA NoNewPages ==
  ASSUME Inv, output # <<>>, UNCHANGED output, listing'[turn + 1] # "processed"
  PROVE  PagesGrow /\ NewPages
<1>1. More = {}
  BY Before DEF More
<1>2. PagesGrow
  BY Before DEF PagesGrow
<1> QED
  BY <1>1, <1>2 DEF NewPages

LEMMA SkipAccounted ==
  ASSUME Inv, Accounted, SkipAttachment
  PROVE  Accounted'
<1>1. /\ output # <<>> /\ UNCHANGED <<output, source, warnings>> /\ turn' = turn + 1
      /\ listing' = Append(listing, "skipped")
  BY DEF SkipAttachment, AtAttachment
<1>2. ListGrows /\ listing'[turn + 1] = "skipped"
  BY <1>1, ListAppended
<1>3. WarningsStay
  BY <1>1, <1>2 DEF WarningsStay
<1> QED
  BY <1>1, <1>2, <1>3, NoNewPages, OneMoreAttachment

LEMMA FailAccounted ==
  ASSUME Inv, Accounted, AttachmentFails
  PROVE  Accounted'
<1>1. /\ output # <<>> /\ UNCHANGED <<output, source>> /\ turn' = turn + 1
      /\ listing' = Append(listing, "failed")
  BY DEF AttachmentFails, AtAttachment
<1>2. ListGrows /\ listing'[turn + 1] = "failed"
  BY <1>1, ListAppended
<1>3. WarningsStay
  <2> DEFINE e == [at |-> turn + 1, what |-> "attachment_failed"]
             more == Append(warnings, e)
  <2>1. warnings' = more
    BY DEF AttachmentFails, Warn
  <2>2. e.at = turn + 1
    OBVIOUS
  <2> HIDE DEF e
  <2>3. /\ IsSeq(more) /\ Len(more) = Len(warnings) + 1 /\ more[Len(warnings) + 1] = e
        /\ \A w \in 1 .. Len(warnings) : more[w] = warnings[w]
    BY Before, AppendIsSeq
  <2>4. DOMAIN warnings = 1 .. Len(warnings) /\ Len(warnings) \in Nat
    BY Before, SeqShape
  <2>5. DOMAIN more = 1 .. Len(warnings) + 1
    BY <2>3, SeqShape
  <2> HIDE DEF more
  <2> QED
    BY <2>1, <2>2, <2>3, <2>4, <2>5 DEF WarningsStay
<1> QED
  BY <1>1, <1>2, <1>3, NoNewPages, OneMoreAttachment

LEMMA ExtractAccounted ==
  ASSUME Inv, Accounted, ExtractAttachment
  PROVE  Accounted'
<1> DEFINE pages == Items[turn + 1].pages
           more  == Attached(pages)
           all   == output \o more
<1>1. /\ output # <<>> /\ UNCHANGED source /\ turn' = turn + 1 /\ turn < Len(Items)
      /\ WarnAll(turn + 1, Items[turn + 1].said)
      /\ source.kind = "mail" /\ source \in Sources
      /\ listing' = Append(listing, "processed") /\ output' = all
  BY DEF ExtractAttachment, AtAttachment, Running, Inv
<1>2. ListGrows /\ listing'[turn + 1] = "processed"
  BY <1>1, ListAppended
<1>3. IsSeq(pages) /\ IsSeq(Items[turn + 1].said)
  <2>1. turn + 1 \in DOMAIN Items
    BY <1>1, Before
  <2> QED
    BY <1>1, <2>1, MailFacts
<1>4. WarningsStay
  BY <1>1, <1>2, <1>3, Before, WarnedAll DEF WarningsStay
<1> HIDE DEF pages
<1>5. Len(pages) \in Nat /\ DOMAIN pages = 1 .. Len(pages)
  BY <1>3, SeqShape
<1>6. more = [k \in 1 .. Len(pages) |-> more[k]]
  BY <1>5 DEF Attached
<1>7. IsSeq(more) /\ Len(more) = Len(pages)
  BY <1>5, <1>6, FunctionIsSeq
<1>8. ASSUME NEW k \in 1 .. Len(pages) PROVE more[k].from = turn + 1 /\ more[k].nth = k
  <2>1. more[k] = PageOf(Len(output) + k, turn + 1, k, pages[k].method, Titled(k, pages[k].parts))
    BY <1>5 DEF Attached
  <2> QED
    BY <2>1 DEF PageOf
<1> HIDE DEF more
<1>9. /\ IsSeq(all) /\ Len(all) = Len(output) + Len(more)
      /\ \A i \in 1 .. Len(output) : all[i] = output[i]
      /\ \A i \in 1 .. Len(more) : all[Len(output) + i] = more[i]
  <2>1. IsSeq(output) /\ IsSeq(more)
    BY <1>7, Before
  <2> QED
    BY <2>1, ConcatIsSeq
<1> HIDE DEF all
<1>10. More = 1 .. Len(pages)
  BY <1>1, <1>5, <1>7, <1>9, Before DEF More
<1>11. PagesGrow
  BY <1>1, <1>5, <1>7, <1>9, Before DEF PagesGrow
<1>12. NewPages
  <2>1. DOMAIN Items[turn + 1].pages = More
    BY <1>5, <1>10 DEF pages
  <2>2. ASSUME NEW k \in More
        PROVE  output'[Len(output) + k].from = turn + 1 /\ output'[Len(output) + k].nth = k
    BY <1>1, <1>7, <1>8, <1>9, <1>10
  <2> QED
    BY <1>2, <2>1, <2>2 DEF NewPages
<1> QED
  BY <1>1, <1>2, <1>4, <1>11, <1>12, OneMoreAttachment

\* The first page gets the list; where the pages come from stays.
LEMMA FinishAccounted ==
  ASSUME Inv, Accounted, FinishMail
  PROVE  MailInv'
<1>1. /\ output # <<>> /\ UNCHANGED <<source, listing, warnings, turn>> /\ turn = Len(Items) /\ Items' = Items
      /\ 1 \in DOMAIN output /\ AreParts(output[1].parts)
  BY Before, NumberedTyped DEF FinishMail, Items
<1> DEFINE parts == IF listing = <<>> THEN output[1].parts
                    ELSE output[1].parts \o <<Section(2), Body("list", listing)>>
<1>2. AreParts(parts)
  BY <1>1, ListedParts, Before
<1>3. listing # <<>> => parts[Len(parts)] = Body("list", listing)
  <2> DEFINE last == <<Section(2), Body("list", listing)>>
  <2>1. IsSeq(last) /\ Len(last) = 2 /\ last[2] = Body("list", listing)
    BY PairIsSeq
  <2> HIDE DEF last
  <2>2. /\ Len(output[1].parts \o last) = Len(output[1].parts) + Len(last)
        /\ \A i \in 1 .. Len(last) : (output[1].parts \o last)[Len(output[1].parts) + i] = last[i]
    <3>1. IsSeq(output[1].parts) /\ IsSeq(last)
      BY <1>1, <2>1, PartsAreSeq
    <3> QED
      BY <3>1, ConcatIsSeq
  <2> QED
    BY <2>1, <2>2 DEF last
<1>4. /\ DOMAIN output' = DOMAIN output /\ output'[1].parts = parts
      /\ \A i \in DOMAIN output : output'[i].from = output[i].from /\ output'[i].nth = output[i].nth
  <2>1. CASE listing = <<>>
    BY <2>1 DEF FinishMail
  <2>2. CASE listing # <<>>
    <3>1. output' = [output EXCEPT ![1].parts = parts]
      BY <2>2 DEF FinishMail
    <3> HIDE DEF parts
    <3>2. /\ Numbered(output') /\ Len(output') = Len(output)
          /\ output'[1] = PageOf(1, output[1].from, output[1].nth, output[1].method, parts)
          /\ \A i \in DOMAIN output : i # 1 => output'[i] = output[i]
      BY <1>1, <1>2, <3>1, Before, NumberedExcept
    <3>3. DOMAIN output' = DOMAIN output
      BY <3>2, Before, SeqShape DEF Numbered
    <3>4. output'[1].parts = parts /\ output'[1].from = output[1].from /\ output'[1].nth = output[1].nth
      BY <3>2 DEF PageOf
    <3> QED
      BY <3>2, <3>3, <3>4
  <2> QED
    BY <2>1, <2>2
<1> HIDE DEF parts
<1>5. Items # <<>> => output'[1].parts[Len(output'[1].parts)] = Body("list", listing)
  <2>1. Items # <<>> => listing # <<>>
    BY <1>1, Before, SourceFacts, SeqShape DEF Accounted, Inv
  <2> QED
    BY <1>3, <1>4, <2>1
<1>6. (output # <<>> => output[1].from = 0)'
  BY <1>1, <1>4 DEF Accounted
<1>7. ASSUME NEW t \in DOMAIN listing
      PROVE  /\ listing[t] = "failed" => \E w \in DOMAIN warnings : warnings[w].at = t
             /\ listing[t] = "processed" => \A k \in DOMAIN Items[t].pages :
                  \E i \in DOMAIN output' : output'[i].from = t /\ output'[i].nth = k
  BY <1>4 DEF Accounted
<1>8. ASSUME NEW i \in DOMAIN output', i > 1
      PROVE  /\ output'[i].from \in DOMAIN listing /\ listing[output'[i].from] = "processed"
             /\ \/ output'[i - 1].from < output'[i].from
                \/ output'[i - 1].from = output'[i].from /\ output'[i - 1].nth + 1 = output'[i].nth
  <2>1. i \in DOMAIN output /\ i - 1 \in DOMAIN output
    BY <1>4, <1>8, Before
  <2> QED
    BY <1>4, <1>8, <2>1 DEF Accounted
<1>9. Len(listing) = turn
  BY DEF Accounted
<1> QED
  BY <1>1, <1>5, <1>6, <1>7, <1>8, <1>9 DEF MailInv, AttachmentsAreAccountedFor

LEMMA MessageAccounted ==
  ASSUME Inv, Accounted, source.kind = "mail", ReadMessage
  PROVE  Accounted'
<1> DEFINE page == PageOf(1, 0, 1, "parser",
                     <<Section(1), Body("table", <<"field", "from", "to">>), Body("paragraph", <<"body">>)>>)
<1>1. output = <<>> /\ output' = <<page>> /\ UNCHANGED <<source, turn, listing, warnings>>
  BY DEF ReadMessage
<1>2. turn = 0
  BY <1>1, Before DEF Inv
<1>3. listing = <<>>
  <2>1. IsSeq(listing) /\ Len(listing) = 0
    BY <1>2, Before, SeqElements DEF Accounted
  <2> QED
    BY <2>1, SeqShape
<1>4. page.from = 0
  BY DEF PageOf
<1> HIDE DEF page
<1>5. output'[1].from = 0 /\ DOMAIN output' = {1}
  BY <1>1, <1>4
<1> QED
  BY <1>1, <1>2, <1>3, <1>5 DEF Accounted

LEMMA MailKept ==
  ASSUME Inv, MailInv, LoopNext
  PROVE  MailInv'
<1>1. UNCHANGED source
  BY SourceStays
<1>2. CASE source.kind # "mail"
  BY <1>1, <1>2 DEF MailInv, AttachmentsAreAccountedFor
<1>3. CASE source.kind = "mail"
  <2>1. Accounted
    BY <1>3, AccountedIsMailInv
  <2>2. MailNext \/ Stop
    <3>1. ~source.layout
      BY <1>3, SourceFacts DEF Inv
    <3> QED
      BY <1>3, <3>1 DEF LoopNext, ImageNext, OfficeNext, SheetNext, LayoutNext, ImageUnread, TooManyFrames,
           ReadFrame, FinishImage, ConvertBatch, FinishLayout, InLayout, OpenSlide, ReadPicture, AtPicture,
           PictureFails, FinishOffice, ReadSheet, FinishWorkbook, Running
  <2>3. CASE FinishMail
    BY <2>1, <2>3, FinishAccounted
  <2>4. CASE MailNext /\ ~FinishMail
    <3>1. Accounted'
      BY <1>3, <2>1, <2>4, MessageAccounted, SkipAccounted, FailAccounted, ExtractAccounted DEF MailNext
    <3>2. outcome' # "done"
      BY <2>4 DEF MailNext, ReadMessage, SkipAttachment, AttachmentFails, ExtractAttachment, AtAttachment, Running
    <3> QED
      BY <1>1, <1>3, <3>1, <3>2 DEF MailInv, AttachmentsAreAccountedFor, Accounted
  <2>5. CASE Stop
    BY <1>3, <2>5 DEF Stop, MailInv, AttachmentsAreAccountedFor, Items
  <2> QED
    BY <2>2, <2>3, <2>4, <2>5
<1> QED
  BY <1>2, <1>3

LEMMA MailStarts == ExtractorsInit => MailInv
<1> SUFFICES ASSUME ExtractorsInit
             PROVE  MailInv
  OBVIOUS
<1>1. /\ output = <<>> /\ listing = <<>> /\ turn = 0 /\ outcome = "running"
  BY DEF ExtractorsInit
<1>2. DOMAIN output = {} /\ DOMAIN listing = {} /\ Len(listing) = turn
  BY <1>1
<1> QED
  BY <1>1, <1>2 DEF MailInv, AttachmentsAreAccountedFor

LEMMA MailStutters == MailInv /\ UNCHANGED loopvars => MailInv'
BY DEF MailInv, AttachmentsAreAccountedFor, loopvars, Items

\* Every attachment of a mail is on its list as skipped, failed or processed,
\* and the pages of the processed ones stand in the result complete and in
\* order, for every mail, every limit and every attachment that fails.
THEOREM AttachmentsAccountedFor == ExtractorsSpec => []AttachmentsAreAccountedFor
<1>1. Inv /\ MailInv /\ [LoopNext]_loopvars => MailInv'
  BY MailKept, MailStutters
<1>2. MailInv => AttachmentsAreAccountedFor
  BY DEF MailInv
<1> QED
  BY InvCorrect, MailStarts, <1>1, <1>2, PTL DEF ExtractorsSpec

(***************************************************************************)
(* The pictures of an Office document                                      *)
(***************************************************************************)
Office == source.kind \in {"pptx", "docx"}

\* Pictures that cost a recognition.
Known == {k \in DOMAIN Looks : cache[k] # "unknown" /\ source.looks[k] \in {"text", "blank"}}

RecognisedOnce == processed = Cardinality(Known)

OnlyWhatOcrRead ==
  /\ \A k \in DOMAIN Looks : cache[k] = "text" => source.looks[k] = "text"
  /\ \A i \in DOMAIN output, k \in DOMAIN Looks : ShownOn(i, k) => cache[k] = "text"

On(j, key) == \E n \in DOMAIN Items[j] : Items[j][n] = key

Awaited(key) == \E n \in DOMAIN todo : todo[n] = key

\* On the open slide the picture may still be waiting for its turn.
ShownAgain ==
  \A i \in DOMAIN output, k \in DOMAIN Looks : ShownOn(i, k) =>
    \A j \in i + 1 .. turn : On(j, k) => ShownOn(j, k) \/ (j = turn /\ Awaited(k))

PicInv == Office => RecognisedOnce /\ OnlyWhatOcrRead /\ ShownAgain

\* Reading a picture changes what is shown of this picture on this page.
LEMMA WhatIsShown ==
  ASSUME Inv, ReadPicture
  PROVE  /\ DOMAIN output' = DOMAIN output
         /\ \A i \in DOMAIN output, k \in DOMAIN Looks :
              ShownOn(i, k)' <=> ShownOn(i, k) \/ (i = turn /\ k = Head(todo) /\ Learned(k) = "text")
<1>1. AtPicture
  BY DEF ReadPicture
<1> DEFINE key == Head(todo)
           old == output[turn].parts
           new == Shown(old, key)
           added == Append(old, Body("paragraph", <<key>>))
<1>2. /\ Numbered(output') /\ Len(output') = turn /\ output'[turn].parts = new
      /\ \A i \in DOMAIN output : i # turn => output'[i] = output[i]
  BY ReadPictureFacts
<1>3. IsSeq(old) /\ Len(output) = turn
  BY <1>1, PictureFacts, PartsAreSeq
<1>4. DOMAIN output' = DOMAIN output
  BY <1>2, <1>3, Before, SeqShape DEF Numbered
<1>5. ASSUME NEW i \in DOMAIN output, NEW k \in DOMAIN Looks, i = turn
      PROVE  ShownOn(i, k)' <=> ShownOn(i, k) \/ (k = key /\ Learned(k) = "text")
  <2>1. ShownOn(i, k)' <=> \E n \in DOMAIN new : new[n] = Body("paragraph", <<k>>)
    <3> HIDE DEF new
    <3> QED
      BY <1>2, <1>5 DEF ShownOn
  <2>2. ShownOn(i, k) <=> \E n \in DOMAIN old : old[n] = Body("paragraph", <<k>>)
    BY <1>5 DEF ShownOn
  <2>3. CASE Learned(key) # "text"
    <3>1. new = old
      BY <2>3 DEF Shown
    <3> QED
      BY <2>1, <2>2, <2>3, <3>1
  <2>4. CASE Learned(key) = "text"
    <3>1. new = added
      BY <2>4 DEF Shown
    <3>2. /\ IsSeq(added) /\ Len(added) = Len(old) + 1 /\ added[Len(old) + 1] = Body("paragraph", <<key>>)
          /\ \A n \in 1 .. Len(old) : added[n] = old[n]
      BY <1>3, AppendIsSeq
    <3> HIDE DEF added, new, old
    <3>3. DOMAIN old = 1 .. Len(old) /\ Len(old) \in Nat /\ DOMAIN added = 1 .. Len(old) + 1
      BY <1>3, <3>2, SeqShape
    <3>4. (\E n \in DOMAIN added : added[n] = Body("paragraph", <<k>>)) <=>
            \/ \E n \in DOMAIN old : old[n] = Body("paragraph", <<k>>)
            \/ Body("paragraph", <<key>>) = Body("paragraph", <<k>>)
      BY <3>2, <3>3
    <3>5. Body("paragraph", <<key>>) = Body("paragraph", <<k>>) <=> key = k
      BY DEF Body
    <3> QED
      BY <2>1, <2>2, <2>4, <3>1, <3>4, <3>5
  <2> QED
    BY <2>3, <2>4
<1>6. ASSUME NEW i \in DOMAIN output, NEW k \in DOMAIN Looks, i # turn
      PROVE  ShownOn(i, k)' <=> ShownOn(i, k)
  BY <1>2, <1>6 DEF ShownOn
<1>7. ASSUME NEW i \in DOMAIN output, NEW k \in DOMAIN Looks
      PROVE  ShownOn(i, k)' <=> ShownOn(i, k) \/ (i = turn /\ k = key /\ Learned(k) = "text")
  <2>1. CASE i = turn
    BY <2>1, <1>5
  <2>2. CASE i # turn
    BY <2>2, <1>6
  <2> QED
    BY <2>1, <2>2
<1> QED
  BY <1>4, <1>7

\* A picture that was to be read, or still is.
LEMMA WaitingTail ==
  ASSUME todo \in Seq(DOMAIN Looks), todo # <<>>, todo' = Tail(todo), NEW k, Awaited(k)
  PROVE  k = Head(todo) \/ Awaited(k)'
<1>1. PICK n \in DOMAIN todo : todo[n] = k
  BY DEF Awaited
<1>2. n \in 1 .. Len(todo) /\ Len(todo) \in Nat
  OBVIOUS
<1>3. CASE n = 1
  BY <1>1, <1>3
<1>4. CASE n # 1
  <2>1. n - 1 \in 1 .. Len(Tail(todo)) /\ Tail(todo)[n - 1] = todo[n]
    BY <1>2, <1>4
  <2>2. n - 1 \in DOMAIN Tail(todo)
    BY <2>1
  <2> QED
    BY <1>1, <2>1, <2>2 DEF Awaited
<1> QED
  BY <1>3, <1>4

\* The result of a recognition is kept, so a picture costs one at most.
LEMMA RecognisedOnceKept ==
  ASSUME Inv, Office, RecognisedOnce, ReadPicture
  PROVE  RecognisedOnce'
<1> DEFINE key == Head(todo)
<1>1. AtPicture /\ UNCHANGED source /\ Looks' = Looks
  BY DEF ReadPicture, Looks
<1>2. key \in DOMAIN Looks
  BY <1>1, PictureFacts
<1>3. IsFiniteSet(Known)
  <2>1. IsFiniteSet(DOMAIN Looks)
    BY OfficeFacts DEF Inv, Office
  <2>2. Known \in SUBSET DOMAIN Looks
    BY DEF Known
  <2> QED
    BY <2>1, <2>2, FS_Subset
<1>4. cache' = [cache EXCEPT ![key] = Learned(key)] /\ cache \in [DOMAIN Looks -> {"unknown", "text", "nothing"}]
  BY Before DEF ReadPicture
<1> HIDE DEF key
<1>5. CASE Recognises(key)
  <2>1. key \notin Known /\ source.looks[key] \in {"text", "blank"} /\ Learned(key) # "unknown"
    BY <1>5, Before DEF Recognises, Known, Learned
  <2>2. Known' = Known \cup {key}
    BY <1>1, <1>2, <1>4, <2>1 DEF Known
  <2>3. Cardinality(Known') = Cardinality(Known) + 1
    BY <1>3, <2>1, <2>2, FS_AddElement
  <2>4. processed' = processed + 1
    BY <1>5 DEF ReadPicture, key
  <2> QED
    BY <2>3, <2>4 DEF RecognisedOnce
<1>6. CASE ~Recognises(key)
  <2>1. Learned(key) = cache[key] \/ (cache[key] = "unknown" /\ source.looks[key] \notin {"text", "blank"})
    BY <1>6, Before DEF Recognises, Learned
  <2>2. Known' = Known
    BY <1>1, <1>2, <1>4, <2>1 DEF Known
  <2>3. processed' = processed
    BY <1>6 DEF ReadPicture, key
  <2> QED
    BY <2>2, <2>3 DEF RecognisedOnce
<1> QED
  BY <1>5, <1>6

LEMMA OnlyWhatOcrReadKept ==
  ASSUME Inv, Office, OnlyWhatOcrRead, ReadPicture
  PROVE  OnlyWhatOcrRead'
<1> DEFINE key == Head(todo)
<1>1. AtPicture /\ UNCHANGED source /\ Looks' = Looks
  BY DEF ReadPicture, Looks
<1>2. key \in DOMAIN Looks
  BY <1>1, PictureFacts
<1>3. cache' = [cache EXCEPT ![key] = Learned(key)] /\ cache \in [DOMAIN Looks -> {"unknown", "text", "nothing"}]
  BY Before DEF ReadPicture
<1> HIDE DEF key
<1>4. ASSUME NEW k \in DOMAIN Looks
      PROVE  cache'[k] = IF k = key THEN Learned(k) ELSE cache[k]
  BY <1>2, <1>3
<1>5. ASSUME NEW k \in DOMAIN Looks
      PROVE  /\ Learned(k) = "text" => cache[k] = "text" \/ source.looks[k] = "text"
             /\ cache[k] = "text" => Learned(k) = "text"
  BY DEF Learned
<1>6. \A k \in DOMAIN Looks : cache'[k] = "text" => source.looks[k] = "text"
  BY <1>4, <1>5 DEF OnlyWhatOcrRead
<1>7. ASSUME NEW i \in DOMAIN output, NEW k \in DOMAIN Looks, ShownOn(i, k)'
      PROVE  cache'[k] = "text"
  <2>1. ShownOn(i, k) \/ (k = key /\ Learned(k) = "text")
    BY <1>7, WhatIsShown DEF key
  <2> QED
    BY <2>1, <1>4, <1>5 DEF OnlyWhatOcrRead
<1> QED
  BY <1>1, <1>6, <1>7, WhatIsShown DEF OnlyWhatOcrRead

LEMMA ShownAgainKept ==
  ASSUME Inv, Office, OnlyWhatOcrRead, ShownAgain, ReadPicture
  PROVE  ShownAgain'
<1> DEFINE key == Head(todo)
<1>1. AtPicture /\ UNCHANGED <<source, turn>> /\ Looks' = Looks /\ Items' = Items /\ todo # <<>> /\ todo' = Tail(todo)
  BY DEF ReadPicture, Looks, Items, AtPicture
<1>2. turn \in Nat /\ DOMAIN output = 1 .. turn
  BY <1>1, Before, PictureFacts
<1>3. ASSUME NEW i \in DOMAIN output, NEW k \in DOMAIN Looks, ShownOn(i, k)', NEW j \in i + 1 .. turn, On(j, k)
      PROVE  ShownOn(j, k)' \/ (j = turn /\ Awaited(k)')
  <2>1. j \in DOMAIN output /\ i # turn
    BY <1>2
  <2>2. ShownOn(i, k)
    BY <1>3, <2>1, WhatIsShown
  <2>3. ShownOn(j, k) \/ (j = turn /\ Awaited(k))
    BY <1>3, <2>2 DEF ShownAgain
  <2>4. CASE ShownOn(j, k)
    BY <2>1, <2>4, WhatIsShown
  <2>5. CASE j = turn /\ Awaited(k)
    <3>1. k = key \/ Awaited(k)'
      BY <1>1, <2>5, Before, WaitingTail
    <3>2. Learned(k) = "text"
      BY <2>2 DEF OnlyWhatOcrRead, Learned
    <3> QED
      BY <2>1, <2>5, <3>1, <3>2, WhatIsShown
  <2> QED
    BY <2>3, <2>4, <2>5
<1>4. \A j, k : On(j, k)' <=> On(j, k)
  BY <1>1 DEF On
<1> QED
  BY <1>1, <1>3, <1>4, WhatIsShown DEF ShownAgain

\* A slide opens with nothing shown on it and all its pictures waiting.
LEMMA SlideShowsNothing ==
  ASSUME Inv, OpenSlide
  PROVE  /\ DOMAIN output = 1 .. turn /\ turn \in Nat /\ turn' = turn + 1 /\ DOMAIN output' = 1 .. turn + 1
         /\ \A i \in 1 .. turn : \A k : ShownOn(i, k)' <=> ShownOn(i, k)
         /\ \A k : ~ShownOn(turn, k)'
         /\ \A k : On(turn + 1, k) => Awaited(k)'
<1>1. /\ Len(output) = turn /\ turn' = turn + 1 /\ todo' = Items[turn + 1]
      /\ Numbered(output') /\ Len(output') = turn'
      /\ \A i \in 1 .. turn : output'[i] = output[i]
      /\ output'[turn'].parts = IF source.kind = "pptx" THEN <<Section(2)>> ELSE <<>>
  BY OpenSlideFacts
<1>2. turn \in Nat /\ DOMAIN output = 1 .. turn
  BY <1>1, Before
<1>3. DOMAIN output' = 1 .. turn + 1
  BY <1>1, SeqShape DEF Numbered
<1>4. \A i \in 1 .. turn : \A k : ShownOn(i, k)' <=> ShownOn(i, k)
  BY <1>1 DEF ShownOn
<1>5. ASSUME NEW k PROVE ~ShownOn(turn, k)'
  <2>1. Section(2) # Body("paragraph", <<k>>)
    BY DEF Section, Body
  <2>2. \A n \in DOMAIN output'[turn'].parts : output'[turn'].parts[n] = Section(2)
    BY <1>1
  <2> QED
    BY <1>1, <2>1, <2>2 DEF ShownOn
<1>6. \A k : On(turn + 1, k) => Awaited(k)'
  BY <1>1 DEF On, Awaited
<1> QED
  BY <1>1, <1>2, <1>3, <1>4, <1>5, <1>6

LEMMA SlideKept ==
  ASSUME Inv, Office, RecognisedOnce, OnlyWhatOcrRead, ShownAgain, OpenSlide
  PROVE  RecognisedOnce' /\ OnlyWhatOcrRead' /\ ShownAgain'
<1>1. /\ UNCHANGED <<source, cache, processed>> /\ Looks' = Looks /\ Items' = Items /\ todo = <<>>
      /\ \A j, k : On(j, k)' <=> On(j, k)
  BY DEF OpenSlide, Looks, Items, On
<1>2. RecognisedOnce'
  BY <1>1 DEF RecognisedOnce, Known
<1>3. ASSUME NEW i \in DOMAIN output', NEW k \in DOMAIN Looks, ShownOn(i, k)'
      PROVE  i \in 1 .. turn /\ ShownOn(i, k)
  <2>1. i \in 1 .. turn \/ i = turn'
    BY SlideShowsNothing
  <2>2. i # turn'
    BY <1>3, SlideShowsNothing DEF ShownOn
  <2> QED
    BY <1>3, <2>1, <2>2, SlideShowsNothing
<1>4. OnlyWhatOcrRead'
  BY <1>1, <1>3, SlideShowsNothing DEF OnlyWhatOcrRead
<1>5. ASSUME NEW i \in DOMAIN output', NEW k \in DOMAIN Looks, ShownOn(i, k)',
             NEW j \in i + 1 .. turn', On(j, k)
      PROVE  ShownOn(j, k)' \/ (j = turn' /\ Awaited(k)')
  <2>1. i \in 1 .. turn /\ ShownOn(i, k)
    BY <1>3, <1>5
  <2>2. CASE j = turn'
    BY <1>5, <2>2, SlideShowsNothing
  <2>3. CASE j # turn'
    <3>1. j \in i + 1 .. turn /\ j \in 1 .. turn
      BY <2>1, <2>3, SlideShowsNothing
    <3>2. ~Awaited(k)
      BY <1>1 DEF Awaited
    <3>3. ShownOn(j, k)
      BY <1>5, <2>1, <3>1, <3>2, SlideShowsNothing DEF ShownAgain
    <3> QED
      BY <3>1, <3>3, SlideShowsNothing
  <2> QED
    BY <2>2, <2>3
<1>6. ShownAgain'
  BY <1>1, <1>5 DEF ShownAgain
<1> QED
  BY <1>2, <1>4, <1>6

\* A picture whose recognition raised has not been shown before.
LEMMA FailedPictureKept ==
  ASSUME Inv, Office, RecognisedOnce, OnlyWhatOcrRead, ShownAgain, PictureFails
  PROVE  RecognisedOnce' /\ OnlyWhatOcrRead' /\ ShownAgain'
<1>1. /\ UNCHANGED <<source, cache, processed, output, turn>> /\ Looks' = Looks
      /\ todo # <<>> /\ todo' = Tail(todo) /\ cache[Head(todo)] = "unknown"
      /\ \A j, k : On(j, k)' <=> On(j, k)
      /\ \A j, k : ShownOn(j, k)' <=> ShownOn(j, k)
  BY DEF PictureFails, AtPicture, Recognises, Looks, Items, On, ShownOn
<1>2. RecognisedOnce'
  BY <1>1 DEF RecognisedOnce, Known
<1>3. OnlyWhatOcrRead'
  BY <1>1 DEF OnlyWhatOcrRead
<1>4. ASSUME NEW i \in DOMAIN output, NEW k \in DOMAIN Looks, ShownOn(i, k), Awaited(k)
      PROVE  Awaited(k)'
  <2>1. k # Head(todo)
    BY <1>1, <1>4 DEF OnlyWhatOcrRead
  <2> QED
    BY <1>1, <1>4, <2>1, Before, WaitingTail
<1>5. ShownAgain'
  BY <1>1, <1>4 DEF ShownAgain
<1> QED
  BY <1>2, <1>3, <1>5

LEMMA EndedKept ==
  ASSUME Inv, Office, RecognisedOnce, OnlyWhatOcrRead, ShownAgain,
         UNCHANGED <<source, turn, todo, cache, processed>>,
         output' = output \/ (output = <<>> /\ output' = <<PageOf(1, 1, 1, "parser", <<>>)>>)
  PROVE  RecognisedOnce' /\ OnlyWhatOcrRead' /\ ShownAgain'
<1>1. /\ Looks' = Looks /\ \A j, k : On(j, k)' <=> On(j, k)
      /\ \A k : Awaited(k)' <=> Awaited(k)
  BY DEF Looks, Items, On, Awaited
<1>2. RecognisedOnce'
  BY <1>1 DEF RecognisedOnce, Known
<1>3. CASE output' = output
  <2>1. \A j, k : ShownOn(j, k)' <=> ShownOn(j, k)
    BY <1>3 DEF ShownOn
  <2> QED
    BY <1>1, <1>2, <1>3, <2>1 DEF OnlyWhatOcrRead, ShownAgain
<1>4. CASE output' = <<PageOf(1, 1, 1, "parser", <<>>)>>
  <2> DEFINE page == PageOf(1, 1, 1, "parser", <<>>)
  <2>1. page.parts = <<>>
    BY DEF PageOf
  <2> HIDE DEF page
  <2>2. DOMAIN output' = {1} /\ output'[1] = page
    BY <1>4 DEF page
  <2>3. \A i \in DOMAIN output' : \A k : ~ShownOn(i, k)'
    BY <2>1, <2>2 DEF ShownOn
  <2> QED
    BY <1>1, <1>2, <2>3 DEF OnlyWhatOcrRead, ShownAgain
<1> QED
  BY <1>3, <1>4

LEMMA PicturesKept ==
  ASSUME Inv, PicInv, LoopNext
  PROVE  PicInv'
<1>1. UNCHANGED source
  BY SourceStays
<1>2. CASE ~Office
  BY <1>1, <1>2 DEF PicInv, Office
<1>3. CASE Office
  <2>1. RecognisedOnce /\ OnlyWhatOcrRead /\ ShownAgain
    BY <1>3 DEF PicInv
  <2>2. OfficeNext \/ Stop
    <3>1. ~source.layout /\ source.kind \in {"pptx", "docx"}
      BY <1>3, SourceFacts DEF Inv, Office
    <3> QED
      BY <3>1 DEF LoopNext, MailNext, ImageNext, SheetNext, LayoutNext, ReadMessage, SkipAttachment, AtAttachment,
           AttachmentFails, ExtractAttachment, FinishMail, ImageUnread, TooManyFrames, ReadFrame, FinishImage,
           ConvertBatch, FinishLayout, InLayout, ReadSheet, FinishWorkbook, Running
  <2>3. RecognisedOnce' /\ OnlyWhatOcrRead' /\ ShownAgain'
    <3>1. CASE OpenSlide
      BY <1>3, <2>1, <3>1, SlideKept
    <3>2. CASE ReadPicture
      BY <1>3, <2>1, <3>2, RecognisedOnceKept, OnlyWhatOcrReadKept, ShownAgainKept
    <3>3. CASE PictureFails
      BY <1>3, <2>1, <3>3, FailedPictureKept
    <3>4. CASE FinishOffice
      <4>1. /\ UNCHANGED <<source, turn, todo, cache, processed>>
            /\ output' = output \/ (output = <<>> /\ output' = <<PageOf(1, 1, 1, "parser", <<>>)>>)
        BY <3>4 DEF FinishOffice
      <4> QED
        BY <1>3, <2>1, <4>1, EndedKept
    <3>5. CASE Stop
      BY <1>3, <2>1, <3>5, EndedKept DEF Stop
    <3> QED
      BY <2>2, <3>1, <3>2, <3>3, <3>4, <3>5 DEF OfficeNext
  <2> QED
    BY <1>1, <1>3, <2>3 DEF PicInv, Office
<1> QED
  BY <1>2, <1>3

LEMMA PicturesStart == ExtractorsInit => PicInv
<1> SUFFICES ASSUME ExtractorsInit, Office
             PROVE  RecognisedOnce /\ OnlyWhatOcrRead /\ ShownAgain
  BY DEF PicInv
<1>1. output = <<>> /\ processed = 0 /\ cache = [k \in DOMAIN Looks |-> "unknown"]
  BY DEF ExtractorsInit
<1>2. Known = {} /\ DOMAIN output = {}
  BY <1>1 DEF Known
<1> QED
  BY <1>1, <1>2, FS_EmptySet DEF RecognisedOnce, OnlyWhatOcrRead, ShownAgain

LEMMA PicturesStutter == PicInv /\ UNCHANGED loopvars => PicInv'
BY DEF PicInv, loopvars, Office, RecognisedOnce, Known, OnlyWhatOcrRead, ShownAgain, ShownOn, On, Awaited,
       Looks, Items

LEMMA PicturesTold ==
  ASSUME Inv, PicInv
  PROVE  PicturesAreRead
<1> SUFFICES ASSUME Office
             PROVE  PicturesAreRead
  BY DEF PicturesAreRead, Office
<1>1. RecognisedOnce /\ OnlyWhatOcrRead /\ ShownAgain
  BY DEF PicInv
<1>2. processed <= MaxPictures
  BY Before
<1>3. ASSUME NEW i \in DOMAIN output, NEW k \in DOMAIN Looks, ShownOn(i, k),
             NEW j \in i + 1 .. turn - 1, \E n \in DOMAIN Items[j] : Items[j][n] = k
      PROVE  ShownOn(j, k)
  <2>1. j \in i + 1 .. turn /\ j # turn
    BY Before
  <2> QED
    BY <1>1, <1>3, <2>1 DEF ShownAgain, On
<1> QED
  BY <1>1, <1>2, <1>3 DEF PicturesAreRead, RecognisedOnce, Known, OnlyWhatOcrRead

\* No picture costs a second recognition, none beyond the limit costs one,
\* and whatever OCR read of a picture stands wherever the picture comes
\* again: for every document and every limit.
THEOREM PicturesRead == ExtractorsSpec => []PicturesAreRead
<1>1. Inv /\ PicInv /\ [LoopNext]_loopvars => PicInv'
  BY PicturesKept, PicturesStutter
<1>2. Inv /\ PicInv => PicturesAreRead
  BY PicturesTold
<1> QED
  BY InvCorrect, PicturesStart, <1>1, <1>2, PTL DEF ExtractorsSpec

(***************************************************************************)
(* What is left out                                                        *)
(***************************************************************************)
\* Every row of sheet t that is not blank is in the result or announced.
RowsAreTold(t) == \A k \in DOMAIN Items[t] : ~Items[t][k].blank =>
  \/ Said(t, "truncated") \/ Said(t, "long_table")
  \/ \E n \in DOMAIN output[t].parts[2].ids : output[t].parts[2].ids[n] = k

\* The sheet that passes the limit on cells says so, and no sheet comes after it.
SheetsAreTold ==
  /\ cells_seen \in Nat
  /\ Len(output) = turn
  /\ \A t \in 1 .. turn : RowsAreTold(t)
  /\ cells_seen > MaxCells => turn > 0 /\ Said(turn, "truncated")
  /\ outcome = "done" => turn = Len(Items) \/ cells_seen > MaxCells

FramesAreTold ==
  outcome = "done" => \A t \in DOMAIN Items :
    t > Len(output) => Said(0, "first_frame_only") \/ Said(0, "ocr_disabled")

UnreadableIsTold ==
  /\ \A t \in 1 .. turn : ~Items[t].readable => Said(t, "unreadable")
  /\ outcome = "done" => turn = Len(Items)

AttachmentsAreTold ==
  /\ Len(listing) = turn
  /\ \A t \in 1 .. turn : listing[t] = "processed" =>
       \A n \in DOMAIN Items[t].said : Said(t, Items[t].said[n])

CutInv ==
  /\ source.kind = "mail" => AttachmentsAreTold
  /\ source.kind = "xlsx" => SheetsAreTold
  /\ source.kind = "image" /\ ~source.layout => FramesAreTold
  /\ source.kind = "pdf" /\ ~source.layout => UnreadableIsTold

\* What was said before is still said when warnings are added to.
LEMMA StaysSaid ==
  ASSUME NEW ws, IsSeq(warnings), IsSeq(ws), warnings' = warnings \o ws, NEW at, NEW what
  PROVE  /\ Said(at, what) => Said(at, what)'
         /\ \A i \in 1 .. Len(ws) : ws[i] = [at |-> at, what |-> what] => Said(at, what)'
<1>1. /\ IsSeq(warnings') /\ Len(warnings') = Len(warnings) + Len(ws)
      /\ \A i \in 1 .. Len(warnings) : warnings'[i] = warnings[i]
      /\ \A i \in 1 .. Len(ws) : warnings'[Len(warnings) + i] = ws[i]
  BY ConcatIsSeq
<1>2. /\ Len(warnings) \in Nat /\ DOMAIN warnings = 1 .. Len(warnings) /\ Len(ws) \in Nat
      /\ DOMAIN warnings' = 1 .. Len(warnings) + Len(ws)
  BY <1>1, SeqShape
<1>3. \A i \in 1 .. Len(warnings) : i \in DOMAIN warnings'
  BY <1>2
<1>4. \A i \in 1 .. Len(ws) : Len(warnings) + i \in DOMAIN warnings'
  BY <1>2
<1>5. Said(at, what) => Said(at, what)'
  BY <1>1, <1>2, <1>3 DEF Said
<1> QED
  BY <1>1, <1>4, <1>5 DEF Said

LEMMA CellsAreCounted ==
  ASSUME NEW sheet \in Seq([cells : Nat, blank : BOOLEAN]), NEW k \in 0 .. Len(sheet)
  PROVE  CellsUpTo(sheet, k) \in Nat
<1> DEFINE cells == [i \in 1 .. k |-> sheet[i].cells]
           Rows  == [cells : Nat, blank : BOOLEAN]
<1>1. \A row \in Rows : row.cells \in Nat
  OBVIOUS
<1>2. sheet \in Seq(Rows)
  OBVIOUS
<1> HIDE DEF Rows
<1>3. k \in Nat /\ \A i \in 1 .. k : sheet[i] \in Rows
  BY <1>2, SeqIs
<1>4. cells \in [1 .. k -> Nat]
  BY <1>1, <1>3
<1> HIDE DEF cells
<1>5. cells \in Seq(Nat)
  BY <1>3, <1>4, SeqFrom
<1> QED
  BY <1>5, TotalIsNat DEF CellsUpTo, cells

\* Rows that the limits let through are in the table that is shown.
LEMMA RowsInTable ==
  ASSUME NEW sheet \in Seq([cells : Nat, blank : BOOLEAN]), ~Cut(sheet),
         Len(Filled(sheet)) <= MaxTableRows + 1, NEW k \in DOMAIN sheet, ~sheet[k].blank
  PROVE  /\ TableRows(Filled(sheet)) # <<>>
         /\ \E n \in DOMAIN TableRows(Filled(sheet)) : TableRows(Filled(sheet))[n] = k
<1> DEFINE rows == [i \in DOMAIN sheet |-> i]
           K    == {i \in Within(sheet) : ~sheet[i].blank}
           m    == Len(sheet)
           p    == Filled(sheet)
           S    == Nat
<1>1. m \in Nat /\ DOMAIN sheet = 1 .. m
  BY SeqIs
<1>2. rows \in [1 .. m -> Nat] /\ \A i \in 1 .. m : rows[i] = i
  BY <1>1
<1>3. p = Picked(rows, K)
  BY DEF Filled
<1>4. k \in K /\ k \in 1 .. m
  BY <1>1 DEF Cut
<1> HIDE DEF rows, K, m, p
<1>5. rows \in Seq(Nat) /\ Len(rows) = m
  BY <1>1, <1>2, SeqFrom
<1>6. p \in Seq(Nat)
  BY <1>3, <1>5, PickedIsSeq
<1>7. rows \in Seq(S)
  BY <1>5
<1> HIDE DEF S
<1>8. PICK at \in [1 .. Len(p) -> {i \in 1 .. Len(rows) : i \in K}] :
        /\ \A j \in 1 .. Len(p) : p[j] = rows[at[j]]
        /\ \A i \in 1 .. Len(rows) : i \in K => \E j \in 1 .. Len(p) : at[j] = i
  <2>1. \E at \in [1 .. Len(Picked(rows, K)) -> {i \in 1 .. Len(rows) : i \in K}] :
          /\ \A j \in 1 .. Len(Picked(rows, K)) : Picked(rows, K)[j] = rows[at[j]]
          /\ \A i \in 1 .. Len(rows) : i \in K => \E j \in 1 .. Len(Picked(rows, K)) : at[j] = i
    BY ONLY <1>7, PickedPositions
  <2> QED
    BY ONLY <2>1, <1>3
<1>9. PICK j \in 1 .. Len(p) : at[j] = k
  BY <1>4, <1>5, <1>8
<1>10. p[j] = k
  BY <1>2, <1>4, <1>8, <1>9
<1>11. p # <<>> /\ DOMAIN p = 1 .. Len(p) /\ Len(p) \in Nat
  BY <1>6, <1>9, SeqIs
<1>12. TableRows(p) = p
  BY <1>11, ExtractorsAssumption DEF TableRows, p
<1> QED
  BY <1>9, <1>10, <1>11, <1>12 DEF p

LEMMA RunsOnly == LoopNext => outcome = "running"
BY DEF LoopNext, MailNext, ImageNext, LayoutNext, OfficeNext, SheetNext, ReadMessage, SkipAttachment,
       AttachmentFails, ExtractAttachment, FinishMail, AtAttachment, ImageUnread, TooManyFrames, ReadFrame,
       FinishImage, ConvertBatch, FinishLayout, InLayout, OpenSlide, ReadPicture, AtPicture, PictureFails,
       FinishOffice, ReadSheet, FinishWorkbook, Running, Stop, MayStop

(***************************************************************************)
(* A sheet                                                                 *)
(***************************************************************************)
LEMMA NoticesSay ==
  ASSUME NEW sheet
  PROVE  /\ IsSeq(Notices(sheet))
         /\ Cut(sheet) => \E i \in 1 .. Len(Notices(sheet)) : Notices(sheet)[i] = "truncated"
         /\ Len(Filled(sheet)) > MaxTableRows + 1 =>
              \E i \in 1 .. Len(Notices(sheet)) : Notices(sheet)[i] = "long_table"
<1> DEFINE cut   == IF Cut(sheet) THEN <<"truncated">> ELSE <<>>
           short == IF Len(Filled(sheet)) > MaxTableRows + 1 THEN <<"long_table">> ELSE <<>>
           said  == Notices(sheet)
<1>1. said = cut \o short
  BY DEF Notices
<1>2. IsSeq(cut) /\ IsSeq(short)
  BY OneIsSeq, EmptyIsSeq
<1>3. Cut(sheet) => Len(cut) = 1 /\ cut[1] = "truncated"
  OBVIOUS
<1>4. Len(Filled(sheet)) > MaxTableRows + 1 => Len(short) = 1 /\ short[1] = "long_table"
  OBVIOUS
<1> HIDE DEF cut, short, said
<1>5. /\ IsSeq(said) /\ Len(said) = Len(cut) + Len(short)
      /\ \A i \in 1 .. Len(cut) : said[i] = cut[i]
      /\ \A i \in 1 .. Len(short) : said[Len(cut) + i] = short[i]
  BY <1>1, <1>2, ConcatIsSeq
<1>6. Len(cut) \in Nat /\ Len(short) \in Nat
  BY <1>2, SeqShape
<1>7. Cut(sheet) => 1 \in 1 .. Len(cut) /\ 1 \in 1 .. Len(said) /\ said[1] = "truncated"
  BY <1>3, <1>5, <1>6
<1>8. Len(Filled(sheet)) > MaxTableRows + 1 =>
        Len(cut) + 1 \in 1 .. Len(said) /\ said[Len(cut) + 1] = "long_table"
  <2>1. SUFFICES ASSUME Len(Filled(sheet)) > MaxTableRows + 1
                 PROVE  Len(cut) + 1 \in 1 .. Len(said) /\ said[Len(cut) + 1] = "long_table"
    OBVIOUS
  <2>2. Len(short) = 1 /\ short[1] = "long_table" /\ 1 \in 1 .. Len(short)
    BY <1>4, <2>1
  <2>3. said[Len(cut) + 1] = short[1]
    BY ONLY <1>5, <2>2
  <2> QED
    BY ONLY <1>5, <1>6, <2>2, <2>3
<1> QED
  BY <1>5, <1>7, <1>8 DEF said

\* The rows that are counted are rows of the sheet; a sheet that is read to
\* its end leaves the count within the limit.
LEMMA CountWithinLimit ==
  ASSUME NEW sheet \in Seq([cells : Nat, blank : BOOLEAN]), cells_seen \in Nat, cells_seen <= MaxCells
  PROVE  LET seen == cells_seen + CellsUpTo(sheet, CountedRows(sheet)) IN
         seen \in Nat /\ (seen > MaxCells => Cut(sheet))
<1>1. Len(sheet) \in Nat /\ DOMAIN sheet = 1 .. Len(sheet)
  OBVIOUS
<1>2. CountedRows(sheet) \in 0 .. Len(sheet)
  <2>1. CASE Cut(sheet)
    <3>1. Within(sheet) \subseteq 1 .. Len(sheet) /\ Within(sheet) # 1 .. Len(sheet)
      BY <1>1, <2>1 DEF Within, Cut
    <3>2. IsFiniteSet(1 .. Len(sheet)) /\ Cardinality(1 .. Len(sheet)) = Len(sheet)
      BY ONLY <1>1, FS_Interval
    <3>3. Cardinality(Within(sheet)) \in Nat /\ Cardinality(Within(sheet)) < Len(sheet)
      BY <3>1, <3>2, FS_Subset, FS_CardinalityType
    <3> QED
      BY <1>1, <2>1, <3>3 DEF CountedRows
  <2>2. CASE ~Cut(sheet)
    BY <1>1, <2>2 DEF CountedRows
  <2> QED
    BY <2>1, <2>2
<1>3. CellsUpTo(sheet, CountedRows(sheet)) \in Nat
  BY <1>2, CellsAreCounted
<1>4. ~Cut(sheet) => cells_seen + CellsUpTo(sheet, CountedRows(sheet)) <= MaxCells
  <2>1. SUFFICES ASSUME ~Cut(sheet)
                 PROVE  cells_seen + CellsUpTo(sheet, Len(sheet)) <= MaxCells
    BY DEF CountedRows
  <2>2. CASE Len(sheet) = 0
    <3>1. [i \in 1 .. 0 |-> sheet[i].cells] = <<>>
      OBVIOUS
    <3>2. CellsUpTo(sheet, 0) = 0
      BY <3>1, TotalEmpty DEF CellsUpTo
    <3> QED
      BY <2>2, <3>2
  <2>3. CASE Len(sheet) # 0
    <3>1. Len(sheet) \in Within(sheet)
      BY <1>1, <2>1, <2>3 DEF Cut
    <3> QED
      BY <3>1 DEF Within
  <2> QED
    BY <2>2, <2>3
<1> QED
  BY <1>3, <1>4, ExtractorsAssumption

LEMMA SheetKept ==
  ASSUME Inv, SheetsAreTold, ReadSheet
  PROVE  SheetsAreTold'
<1>1. PICK at \in Int : at = turn + 1
  BY DEF Inv, LoopTypeOK
<1> DEFINE sheet == Items[at]
           said  == Notices(sheet)
           rows  == TableRows(Filled(sheet))
           body  == IF rows = <<>> THEN Body("paragraph", <<"empty_sheet">>) ELSE Body("table", rows)
           notes == [i \in DOMAIN said |-> [at |-> at, what |-> said[i]]]
           page  == PageOf(at, at, 1, "parser", <<Section(2), body>>)
<1>2. /\ source \in Sources /\ source.kind = "xlsx" /\ outcome = "running" /\ turn < Len(Items)
      /\ cells_seen <= MaxCells
      /\ turn' = at /\ Items' = Items /\ outcome' = outcome
  BY <1>1 DEF ReadSheet, Running, Inv, Items
<1>3. turn \in Nat /\ at \in DOMAIN Items /\ Len(Items) \in Nat /\ Len(output) = turn
  BY <1>1, <1>2, SourceFacts DEF Inv, LoopTypeOK
<1>4. sheet \in Seq([cells : Nat, blank : BOOLEAN])
  BY <1>2, <1>3, SheetFacts
<1>5. output' = Append(output, page) /\ warnings' = warnings \o notes
  BY <1>1 DEF ReadSheet, WarnAll
<1>6. cells_seen' = cells_seen + CellsUpTo(sheet, CountedRows(sheet))
  BY <1>1 DEF ReadSheet
<1>7. page.parts[2] = body
  BY DEF PageOf
<1>8. IsSeq(notes) /\ Len(notes) = Len(said) /\ \A i \in 1 .. Len(said) : notes[i] = [at |-> at, what |-> said[i]]
  <2>1. IsSeq(said)
    BY NoticesSay
  <2> HIDE DEF said
  <2>2. DOMAIN said = 1 .. Len(said) /\ Len(said) \in Nat
    BY <2>1, SeqShape
  <2>3. notes = [i \in 1 .. Len(said) |-> notes[i]]
    BY <2>2
  <2> QED
    BY <2>2, <2>3, FunctionIsSeq
<1> HIDE DEF page, notes, body, said
<1>9. IsSeq(output) /\ IsSeq(warnings)
  BY DEF Inv, LoopTypeOK
<1>10. /\ Len(output') = at /\ output'[at] = page
      /\ \A i \in 1 .. turn : output'[i] = output[i]
  BY <1>1, <1>3, <1>5, <1>9, AppendIsSeq
<1>11. ASSUME NEW n, NEW what, Said(n, what) PROVE Said(n, what)'
  BY <1>5, <1>8, <1>9, <1>11, StaysSaid
<1>12. ASSUME NEW what, NEW i \in 1 .. Len(said), said[i] = what PROVE Said(at, what)'
  <2>1. i \in 1 .. Len(notes) /\ notes[i] = [at |-> at, what |-> what]
    BY <1>8, <1>12
  <2> QED
    BY <2>1, <1>5, <1>8, <1>9, StaysSaid
<1>13. Cut(sheet) => Said(at, "truncated")'
  BY <1>12, NoticesSay DEF said
<1>14. Len(Filled(sheet)) > MaxTableRows + 1 => Said(at, "long_table")'
  BY <1>12, NoticesSay DEF said
<1>15. RowsAreTold(at)'
  <2>1. SUFFICES ASSUME NEW k \in DOMAIN sheet, ~sheet[k].blank, ~Cut(sheet),
                        ~(Len(Filled(sheet)) > MaxTableRows + 1)
                 PROVE  \E n \in DOMAIN output'[at].parts[2].ids : output'[at].parts[2].ids[n] = k
    BY <1>2, <1>13, <1>14 DEF RowsAreTold
  <2>2. rows # <<>> /\ \E n \in DOMAIN rows : rows[n] = k
    <3>1. Len(Filled(sheet)) <= MaxTableRows + 1
      <4>1. Len(Filled(sheet)) \in Nat /\ MaxTableRows \in Nat
        BY <1>4, FilledIs, ExtractorsAssumption
      <4> QED
        BY <2>1, <4>1
    <3> QED
      BY <1>4, <2>1, <3>1, RowsInTable
  <2>3. output'[at].parts[2].ids = rows
    BY <1>7, <1>10, <2>2 DEF body, Body
  <2> QED
    BY <2>2, <2>3
<1>16. ASSUME NEW t \in 1 .. turn PROVE RowsAreTold(t)'
  <2>1. RowsAreTold(t) /\ output'[t] = output[t]
    BY <1>10 DEF SheetsAreTold
  <2> QED
    BY <1>2, <1>11, <2>1 DEF RowsAreTold
<1>17. cells_seen' \in Nat /\ (cells_seen' > MaxCells => Said(at, "truncated")')
  BY <1>2, <1>4, <1>6, <1>13, CountWithinLimit DEF SheetsAreTold
<1>18. \A t \in 1 .. turn' : RowsAreTold(t)'
  BY <1>1, <1>2, <1>3, <1>15, <1>16
<1> QED
  BY <1>1, <1>2, <1>3, <1>10, <1>17, <1>18 DEF SheetsAreTold

(***************************************************************************)
(* The other documents, and the theorem                                    *)
(***************************************************************************)
LEMMA WarningSays ==
  ASSUME IsSeq(warnings), NEW at, NEW what, Warn(at, what)
  PROVE  Said(at, what)'
<1>1. /\ IsSeq(warnings') /\ Len(warnings') = Len(warnings) + 1
      /\ warnings'[Len(warnings) + 1] = [at |-> at, what |-> what]
  BY AppendIsSeq DEF Warn
<1>2. Len(warnings) + 1 \in DOMAIN warnings'
  BY <1>1, SeqShape
<1> QED
  BY <1>1, <1>2 DEF Said

LEMMA FramesKept ==
  ASSUME Inv, source.kind = "image", ~source.layout, LoopNext
  PROVE  FramesAreTold'
<1>1. IsSeq(warnings) /\ Items' = Items
  BY SourceStays DEF Inv, LoopTypeOK, Items
<1>2. SUFFICES ASSUME outcome' = "done"
               PROVE  \A t \in DOMAIN Items : t > Len(output') =>
                        Said(0, "first_frame_only")' \/ Said(0, "ocr_disabled")'
  BY <1>1 DEF FramesAreTold
<1>3. outcome = "running"
  BY RunsOnly
<1>4. ImageUnread \/ FinishImage
  BY <1>2, <1>3 DEF LoopNext, MailNext, ImageNext, LayoutNext, OfficeNext, SheetNext, ReadMessage,
       SkipAttachment, AttachmentFails, ExtractAttachment, FinishMail, AtAttachment, TooManyFrames,
       ReadFrame, ConvertBatch, FinishLayout, InLayout, OpenSlide, ReadPicture, AtPicture, PictureFails,
       FinishOffice, ReadSheet, FinishWorkbook, Stop, Running
<1>5. CASE ImageUnread
  BY <1>1, <1>5, WarningSays DEF ImageUnread
<1>6. CASE FinishImage /\ Animated
  BY <1>1, <1>6, WarningSays DEF FinishImage
<1>7. CASE FinishImage /\ ~Animated
  <2>1. Len(output') = Len(Items)
    BY <1>3, <1>7 DEF FinishImage, Frames, Inv
  <2>2. DOMAIN Items = 1 .. Len(Items) /\ Len(Items) \in Nat
    BY SourceFacts DEF Inv
  <2> QED
    BY <2>1, <2>2
<1> QED
  BY <1>4, <1>5, <1>6, <1>7

\* In these loops only the end of a workbook, of a mail and so on ends well: a
\* PDF read page by page does not finish here.
LEMMA UnreadableKept ==
  ASSUME UnreadableIsTold, source.kind = "pdf", ~source.layout, LoopNext
  PROVE  UnreadableIsTold'
<1>1. Stop
  BY DEF LoopNext, MailNext, ImageNext, LayoutNext, OfficeNext, SheetNext, ReadMessage, SkipAttachment,
       AttachmentFails, ExtractAttachment, FinishMail, AtAttachment, ImageUnread, TooManyFrames, ReadFrame,
       FinishImage, ConvertBatch, FinishLayout, InLayout, OpenSlide, ReadPicture, AtPicture, PictureFails,
       FinishOffice, ReadSheet, FinishWorkbook, Running
<1> QED
  BY <1>1 DEF Stop, UnreadableIsTold, Said, Items

\* What was said of attachments stays said; of the next one all is said.
LEMMA MoreTold ==
  ASSUME Inv, AttachmentsAreTold, UNCHANGED source, turn < Len(Items), turn' = turn + 1,
         \A w \in DOMAIN warnings : w \in DOMAIN warnings' /\ warnings'[w] = warnings[w],
         NEW how, listing' = Append(listing, how), NEW at, at = turn + 1, NEW said, said = Items[at].said,
         how = "processed" => \A n \in DOMAIN said : Said(at, said[n])'
  PROVE  AttachmentsAreTold'
<1>1. Items' = Items /\ turn \in Nat
  BY Before DEF Items
<1>2. IsSeq(listing) /\ Len(listing) = turn
  BY Before, SeqElements DEF AttachmentsAreTold
<1>3. /\ Len(listing') = turn + 1 /\ listing'[turn + 1] = how
      /\ \A t \in 1 .. turn : listing'[t] = listing[t]
  BY <1>2, AppendIsSeq
<1>4. \A t, what : Said(t, what) => Said(t, what)'
  BY DEF Said
<1>5. ASSUME NEW t \in 1 .. turn + 1, listing'[t] = "processed", NEW n \in DOMAIN Items[t].said
      PROVE  Said(t, Items[t].said[n])'
  <2>1. CASE t = turn + 1
    <3>1. Items[t].said = said /\ t = at /\ how = "processed"
      BY <1>3, <1>5, <2>1
    <3>2. Said(at, said[n])'
      BY <1>5, <3>1
    <3> QED
      BY <1>1, <3>1, <3>2
  <2>2. CASE t # turn + 1
    <3>1. t \in 1 .. turn
      BY ONLY <1>1, <1>5, <2>2
    <3>2. Said(t, Items[t].said[n])
      BY <1>3, <1>5, <3>1 DEF AttachmentsAreTold
    <3> QED
      BY <1>1, <1>4, <3>2
  <2> QED
    BY <2>1, <2>2
<1> QED
  BY <1>1, <1>3, <1>5 DEF AttachmentsAreTold

LEMMA AttachmentsKept ==
  ASSUME Inv, AttachmentsAreTold, source.kind = "mail", LoopNext
  PROVE  AttachmentsAreTold'
<1> USE Before
<1>1. PICK at \in Int : at = turn + 1
  OBVIOUS
<1> DEFINE said == Items[at].said
<1>2. ~source.layout
  BY SourceFacts DEF Inv
<1>3. MailNext \/ Stop
  BY <1>2 DEF LoopNext, ImageNext, LayoutNext, OfficeNext, SheetNext, ImageUnread, TooManyFrames, ReadFrame,
       FinishImage, ConvertBatch, FinishLayout, InLayout, OpenSlide, ReadPicture, AtPicture, PictureFails,
       FinishOffice, ReadSheet, FinishWorkbook, Running
<1>4. CASE ReadMessage \/ FinishMail \/ Stop
  BY <1>4 DEF ReadMessage, FinishMail, Stop, AttachmentsAreTold, Said, Items
<1>5. CASE SkipAttachment
  <2>1. /\ UNCHANGED <<source, warnings>> /\ turn < Len(Items) /\ turn' = turn + 1
        /\ listing' = Append(listing, "skipped")
    BY <1>5 DEF SkipAttachment, AtAttachment
  <2> QED
    BY <1>1, <2>1, MoreTold
<1>6. CASE AttachmentFails
  <2>1. /\ UNCHANGED source /\ turn < Len(Items) /\ turn' = turn + 1
        /\ listing' = Append(listing, "failed")
    BY <1>6 DEF AttachmentFails, AtAttachment
  <2>2. warnings' = Append(warnings, [at |-> turn + 1, what |-> "attachment_failed"])
    BY <1>6 DEF AttachmentFails, Warn
  <2>3. \A w \in DOMAIN warnings : w \in DOMAIN warnings' /\ warnings'[w] = warnings[w]
    BY <2>2, WarnedMore
  <2> QED
    BY <1>1, <2>1, <2>3, MoreTold
<1>7. CASE ExtractAttachment
  <2>1. /\ UNCHANGED source /\ turn < Len(Items) /\ turn' = turn + 1
        /\ listing' = Append(listing, "processed") /\ WarnAll(at, said)
        /\ source \in Sources
    BY <1>1, <1>7 DEF ExtractAttachment, AtAttachment, Inv
  <2>2. IsSeq(said)
    <3>1. at \in DOMAIN Items
      BY <1>1, <2>1
    <3> QED
      BY <2>1, <3>1, MailFacts
  <2>3. PICK what : what = said
    OBVIOUS
  <2>4. IsSeq(what) /\ WarnAll(at, what)
    BY <2>1, <2>2, <2>3
  <2>5. /\ \A w \in DOMAIN warnings : w \in DOMAIN warnings' /\ warnings'[w] = warnings[w]
        /\ \A n \in DOMAIN what : Said(at, what[n])'
    BY <2>4, WarnedAll
  <2> QED
    BY <1>1, <2>1, <2>3, <2>5, MoreTold
<1> QED
  BY <1>3, <1>4, <1>5, <1>6, <1>7 DEF MailNext

LEMMA SheetsKept ==
  ASSUME Inv, SheetsAreTold, source.kind = "xlsx", LoopNext
  PROVE  SheetsAreTold'
<1>1. ~source.layout
  BY SourceFacts DEF Inv
<1>2. ReadSheet \/ FinishWorkbook \/ Stop
  BY <1>1 DEF LoopNext, MailNext, ImageNext, LayoutNext, OfficeNext, SheetNext, ReadMessage, SkipAttachment,
       AttachmentFails, ExtractAttachment, FinishMail, AtAttachment, ImageUnread, TooManyFrames, ReadFrame,
       FinishImage, ConvertBatch, FinishLayout, InLayout, OpenSlide, ReadPicture, AtPicture, PictureFails,
       FinishOffice, Running
<1>3. CASE FinishWorkbook
  BY <1>3 DEF FinishWorkbook, SheetsAreTold, RowsAreTold, Said, Items
<1>4. CASE Stop
  BY <1>4 DEF Stop, SheetsAreTold, RowsAreTold, Said, Items
<1> QED
  BY <1>2, <1>3, <1>4, SheetKept

LEMMA CutKept ==
  ASSUME Inv, CutInv, LoopNext
  PROVE  CutInv'
<1>1. UNCHANGED source
  BY SourceStays
<1> QED
  BY <1>1, FramesKept, UnreadableKept, SheetsKept, AttachmentsKept DEF CutInv

LEMMA CutStarts == ExtractorsInit => CutInv
<1> SUFFICES ASSUME ExtractorsInit PROVE CutInv
  OBVIOUS
<1>1. /\ turn = 0 /\ output = <<>> /\ cells_seen = 0 /\ outcome = "running" /\ MaxCells \in Nat
      /\ listing = <<>>
  BY ExtractorsAssumption DEF ExtractorsInit
<1> QED
  BY <1>1 DEF CutInv, SheetsAreTold, FramesAreTold, UnreadableIsTold, AttachmentsAreTold

LEMMA CutStutters == CutInv /\ UNCHANGED loopvars => CutInv'
BY DEF CutInv, SheetsAreTold, FramesAreTold, UnreadableIsTold, AttachmentsAreTold, RowsAreTold, Said,
       Items, loopvars

ListedAndTold(t) ==
  LET listed == output[1].parts[Len(output[1].parts)].ids IN
  /\ listed[t] \in {"processed", "skipped", "failed"}
  /\ listed[t] = "processed" => \A n \in DOMAIN Items[t].said : Said(t, Items[t].said[n])

LEMMA NothingIsCut ==
  ASSUME Inv, AttachmentsAreAccountedFor, CutInv
  PROVE  NothingIsCutSilently
<1>1. SUFFICES ASSUME outcome = "done", ~source.layout, NEW t \in DOMAIN Items
      PROVE  /\ source.kind = "pdf" /\ ~Items[t].readable => Said(t, "unreadable")
             /\ source.kind = "image" /\ t > Len(output) => Said(0, "first_frame_only") \/ Said(0, "ocr_disabled")
             /\ source.kind = "xlsx" => IF t > Len(output) THEN Said(Len(output), "truncated") ELSE RowsAreTold(t)
             /\ source.kind = "mail" => ListedAndTold(t)
  BY DEF ListedAndTold, NothingIsCutSilently, RowsAreTold
<1>2. DOMAIN Items = 1 .. Len(Items) /\ Len(Items) \in Nat /\ turn \in 0 .. Len(Items) /\ t \in 1 .. Len(Items)
  BY SourceFacts DEF Inv, LoopTypeOK
<1>3. source.kind = "pdf" /\ ~Items[t].readable => Said(t, "unreadable")
  BY <1>1, <1>2 DEF CutInv, UnreadableIsTold
<1>4. source.kind = "image" /\ t > Len(output) => Said(0, "first_frame_only") \/ Said(0, "ocr_disabled")
  BY <1>1 DEF CutInv, FramesAreTold
<1>5. source.kind = "xlsx" => IF t > Len(output) THEN Said(Len(output), "truncated") ELSE RowsAreTold(t)
  <2>1. SUFFICES ASSUME SheetsAreTold
                 PROVE  IF t > Len(output) THEN Said(Len(output), "truncated") ELSE RowsAreTold(t)
    BY DEF CutInv
  <2>2. Len(output) = turn
    BY <2>1 DEF SheetsAreTold
  <2>3. CASE t > Len(output)
    <3>1. t > turn
      BY ONLY <2>3, <2>2
    <3>2. turn < Len(Items)
      BY ONLY <1>2, <3>1
    <3> QED
      BY <1>1, <2>1, <2>3, <2>2, <3>2 DEF SheetsAreTold
  <2>4. CASE ~(t > Len(output))
    <3>1. t \in 1 .. turn
      BY ONLY <1>2, <2>4, <2>2
    <3> QED
      BY <2>1, <2>4, <3>1 DEF SheetsAreTold
  <2> QED
    BY <2>3, <2>4
<1>6. source.kind = "mail" => ListedAndTold(t)
  <2>1. SUFFICES ASSUME source.kind = "mail" PROVE ListedAndTold(t)
    OBVIOUS
  <2>2. Items # <<>>
    BY <1>2
  <2>3. turn = Len(Items) /\ output[1].parts[Len(output[1].parts)] = Body("list", listing) /\ Len(listing) = turn
    BY <1>1, <2>1, <2>2 DEF AttachmentsAreAccountedFor
  <2>4. output[1].parts[Len(output[1].parts)].ids = listing
    BY <2>3 DEF Body
  <2>5. listing[t] \in {"skipped", "failed", "processed"}
    BY <1>2, <2>3 DEF Inv, LoopTypeOK
  <2>6. listing[t] = "processed" => \A n \in DOMAIN Items[t].said : Said(t, Items[t].said[n])
    BY <1>2, <2>1, <2>3 DEF CutInv, AttachmentsAreTold
  <2> QED
    BY <2>4, <2>5, <2>6 DEF ListedAndTold
<1> QED
  BY <1>3, <1>4, <1>5, <1>6

\* Whatever extract_document leaves out of its result at one of its limits, the
\* result says so: for every mail, workbook and image, and all limits.
THEOREM NothingCutSilently == ExtractorsSpec => []NothingIsCutSilently
<1>1. Inv /\ CutInv /\ [LoopNext]_loopvars => CutInv'
  BY CutKept, CutStutters
<1>2. Inv /\ AttachmentsAreAccountedFor /\ CutInv => NothingIsCutSilently
  BY NothingIsCut
<1> QED
  BY InvCorrect, AttachmentsAccountedFor, CutStarts, <1>1, <1>2, PTL DEF ExtractorsSpec
=============================================================================
