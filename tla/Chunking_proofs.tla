-------------------------- MODULE Chunking_proofs --------------------------
(***************************************************************************)
(* chunk_markdown keeps its promises for every document, every chunk_size    *)
(* and every overlap.  Blocks are in the invariants what the packing asks   *)
(* of them; the pages they are on are in Extraction_proofs.                 *)
(***************************************************************************)
EXTENDS Chunking, SeqFolds_proofs

(***************************************************************************)
(* The budget                                                              *)
(***************************************************************************)
LEMMA ChunkSizeIs == chunk_size \in Nat /\ chunk_size >= 32
<1> DEFINE T == {32, ChunkSize}
<1>1. T \subseteq Nat /\ T # {} /\ 32 + ChunkSize \in Nat /\ \A n \in T : n <= 32 + ChunkSize
  BY ChunkingAssumption
<1>2. 32 \in T
  OBVIOUS
<1> HIDE DEF T
<1>3. Max(T) \in T /\ \A n \in T : n <= Max(T)
  BY <1>1, GreatestOf
<1> QED
  BY <1>1, <1>2, <1>3 DEF chunk_size, T

LEMMA BudgetIs == budget \in Nat /\ budget >= 16
<1> DEFINE half == chunk_size \div 2
           T    == {ChunkOverlap, half}
<1>1. half \in Nat /\ half + half <= chunk_size
  BY ChunkSizeIs
<1> HIDE DEF half
<1>2. T \subseteq Nat /\ T # {} /\ half \in T
  BY <1>1, ChunkingAssumption
<1> HIDE DEF T
<1>3. Min(T) \in T /\ \A n \in T : Min(T) <= n
  BY <1>2, LeastOf
<1>4. Min(T) \in Nat /\ Min(T) <= half
  BY <1>2, <1>3
<1>5. overlap = Min(T)
  BY DEF overlap, T, half
<1> QED
  BY <1>1, <1>4, <1>5, ChunkSizeIs DEF budget

(***************************************************************************)
(* Types                                                                   *)
(***************************************************************************)
\* What chunk_markdown may be given: a table that repeats a header has rows.
\* Titles; no prover shows that a string is in STRING.
Names == STRING \cup {"none"}

Readable == {s \in [kind : Kinds, units : Seq(Nat), header : Nat, level : Nat, title : Names] :
               s.header > 0 => s.kind = "table" /\ s.units # <<>>}

Heads == [level : Nat, title : Names, at : Nat]

Block == [id : Nat \X Nat, kind : Kinds, units : Seq(Nat), tokens : Nat,
            path : Seq(Heads), page : Nat, origin : SUBSET Nat]

LEMMA BlockIs ==
  ASSUME NEW b \in Block
  PROVE  /\ b.tokens \in Nat /\ b.kind \in Kinds /\ b.units \in Seq(Nat) /\ b.path \in Seq(Heads)
         /\ b.id[1] \in Nat /\ b.id[2] \in Nat /\ b.page \in Nat
BY DEF Block

(***************************************************************************)
(* Tokens and content of blocks                                            *)
(***************************************************************************)
TokenList(blocks) == [i \in DOMAIN blocks |-> blocks[i].tokens]

LEMMA TokenListIs ==
  ASSUME NEW bs \in Seq(Block)
  PROVE  /\ TokenList(bs) \in Seq(Nat) /\ Len(TokenList(bs)) = Len(bs)
         /\ \A i \in 1 .. Len(bs) : TokenList(bs)[i] = bs[i].tokens
<1> DEFINE n == Len(bs)
<1>1. n \in Nat /\ DOMAIN bs = 1 .. n /\ \A i \in 1 .. n : bs[i] \in Block
  BY SeqIs
<1>2. \A i \in 1 .. n : bs[i].tokens \in Nat
  BY <1>1, BlockIs
<1>3. TokenList(bs) \in [1 .. n -> Nat]
  BY <1>1, <1>2 DEF TokenList
<1>4. \A i \in 1 .. n : TokenList(bs)[i] = bs[i].tokens
  BY <1>1 DEF TokenList
<1> HIDE DEF n
<1>5. TokenList(bs) \in Seq(Nat) /\ Len(TokenList(bs)) = n
  BY <1>1, <1>3, SeqFrom
<1> QED
  BY <1>4, <1>5 DEF n

LEMMA TokensOfIs ==
  ASSUME NEW bs \in Seq(Block)
  PROVE  TokensOf(bs) = Total(TokenList(bs)) /\ TokensOf(bs) \in Nat
<1>1. TokenList(bs) \in Seq(Nat)
  BY TokenListIs
<1>2. TokensOf(bs) = Total(TokenList(bs))
  BY DEF TokensOf, TokenList
<1> QED
  BY <1>1, <1>2, TotalIsNat

LEMMA TokensEmpty == TokensOf(<<>>) = 0
<1>1. TokenList(<<>>) = <<>>
  BY DEF TokenList
<1>2. TokensOf(<<>>) = Total(TokenList(<<>>))
  BY DEF TokensOf, TokenList
<1> QED
  BY <1>1, <1>2, TotalEmpty

LEMMA TokensAppend ==
  ASSUME NEW bs \in Seq(Block), NEW b \in Block
  PROVE  TokensOf(Append(bs, b)) = TokensOf(bs) + b.tokens
<1> DEFINE n == Len(bs)
           r == Append(bs, b)
           t == TokenList(bs)
           u == Append(t, b.tokens)
<1>1. b.tokens \in Nat /\ n \in Nat
  BY BlockIs
<1>2. r \in Seq(Block) /\ Len(r) = n + 1 /\ r[n + 1] = b /\ \A i \in 1 .. n : r[i] = bs[i]
  BY AppendIs
<1>3. t \in Seq(Nat) /\ Len(t) = n /\ \A i \in 1 .. n : t[i] = bs[i].tokens
  BY TokenListIs
<1>4. u \in Seq(Nat) /\ Len(u) = n + 1 /\ u[n + 1] = b.tokens /\ \A i \in 1 .. n : u[i] = t[i]
  BY <1>1, <1>3, AppendIs
<1>5. Total(u) = Total(t) + b.tokens
  BY <1>1, <1>3, TotalAppend
<1> HIDE DEF r, u, n, t
<1>6. /\ TokenList(r) \in Seq(Nat) /\ Len(TokenList(r)) = n + 1
      /\ \A i \in 1 .. n + 1 : TokenList(r)[i] = r[i].tokens
  BY <1>2, TokenListIs
<1>7. ASSUME NEW i \in 1 .. n + 1
      PROVE  TokenList(r)[i] = u[i]
  <2>1. CASE i \in 1 .. n
    BY <1>2, <1>3, <1>4, <1>6, <2>1
  <2>2. CASE i = n + 1
    BY <1>2, <1>4, <1>6, <2>2
  <2> QED
    BY <1>1, <2>1, <2>2
<1>8. TokenList(r) = u
  BY <1>4, <1>6, <1>7, SeqEqual
<1>9. TokensOf(r) = Total(TokenList(r))
  BY <1>2, TokensOfIs
<1>10. TokensOf(bs) = Total(t)
  BY TokensOfIs DEF t
<1> QED
  BY <1>5, <1>8, <1>9, <1>10 DEF r

LEMMA ContentIsSeq ==
  ASSUME NEW bs \in Seq(Block)
  PROVE  Content(bs) \in Seq(Block)
BY PickedIsSeq DEF Content

LEMMA ContentEmpty == Content(<<>>) = <<>>
BY PickedEmpty DEF Content

LEMMA ContentAppend ==
  ASSUME NEW bs \in Seq(Block), NEW b \in Block
  PROVE  Content(Append(bs, b)) = IF IsContent(b) THEN Append(Content(bs), b) ELSE Content(bs)
<1> DEFINE r == Append(bs, b)
           K == {i \in DOMAIN r : IsContent(r[i])}
           L == {i \in DOMAIN bs : IsContent(bs[i])}
           n == Len(bs)
<1>1. n \in Nat /\ Len(r) = n + 1 /\ DOMAIN r = 1 .. n + 1 /\ DOMAIN bs = 1 .. n /\ r[n + 1] = b
  OBVIOUS
<1>2. \A i \in 1 .. n : r[i] = bs[i]
  OBVIOUS
<1> HIDE DEF r
<1>3. \A i \in 1 .. n : i \in K <=> i \in L
  BY <1>1, <1>2
<1>4. n + 1 \in K <=> IsContent(b)
  BY <1>1
<1>5. Content(r) = Picked(r, K) /\ Content(bs) = Picked(bs, L)
  BY DEF Content
<1> HIDE DEF K, L
<1>6. Picked(bs, K) = Picked(bs, L)
  BY <1>3, PickedSame
<1>7. Picked(r, K) = IF n + 1 \in K THEN Append(Picked(bs, K), b) ELSE Picked(bs, K)
  BY PickedAppend DEF r
<1> QED
  BY <1>4, <1>5, <1>6, <1>7 DEF r

\* Content of two sequences of blocks is that of the one and then that of the other.
LEMMA ContentConcat ==
  ASSUME NEW bs \in Seq(Block), NEW cs \in Seq(Block)
  PROVE  Content(bs \o cs) = Content(bs) \o Content(cs)
<1> DEFINE T == {ds \in Seq(Block) : Content(bs \o ds) = Content(bs) \o Content(ds)}
<1>1. Content(bs) \in Seq(Block)
  BY ContentIsSeq
<1>2. <<>> \in T
  <2>1. bs \o <<>> = bs /\ <<>> \in Seq(Block) /\ Content(bs) \o <<>> = Content(bs)
    BY <1>1
  <2> QED
    BY <2>1, ContentEmpty
<1>3. ASSUME NEW ds \in Seq(Block), NEW b \in Block, ds \in T
      PROVE  Append(ds, b) \in T
  <2>1. /\ bs \o Append(ds, b) = Append(bs \o ds, b)
        /\ bs \o ds \in Seq(Block) /\ Append(ds, b) \in Seq(Block)
    OBVIOUS
  <2>2. Content(ds) \in Seq(Block)
    BY ContentIsSeq
  <2>3. Content(Append(bs \o ds, b)) =
          IF IsContent(b) THEN Append(Content(bs \o ds), b) ELSE Content(bs \o ds)
    BY <2>1, ContentAppend
  <2>4. Content(Append(ds, b)) = IF IsContent(b) THEN Append(Content(ds), b) ELSE Content(ds)
    BY ContentAppend
  <2>5. Content(bs \o ds) = Content(bs) \o Content(ds)
    BY <1>3
  <2>6. Append(Content(bs) \o Content(ds), b) = Content(bs) \o Append(Content(ds), b)
    <3> DEFINE p == Content(bs)
               q == Content(ds)
    <3>1. p \in Seq(Block) /\ q \in Seq(Block)
      BY <1>1, <2>2
    <3> HIDE DEF p, q
    <3>2. p \o Append(q, b) = Append(p \o q, b)
      BY <3>1, AppendConcat
    <3> QED
      BY <3>2 DEF p, q
  <2>7. Content(bs \o Append(ds, b)) = Content(bs) \o Content(Append(ds, b))
    BY <2>1, <2>3, <2>4, <2>5, <2>6
  <2> QED
    BY <2>1, <2>7
<1>4. cs \in Seq(Block)
  OBVIOUS
<1> HIDE DEF T
<1>5. cs \in T
  BY <1>2, <1>3, <1>4, SeqInduction
<1> QED
  BY <1>5 DEF T

LEMMA ContentIsWithin ==
  ASSUME NEW bs \in Seq(Block)
  PROVE  TokensOf(Content(bs)) <= TokensOf(bs)
<1> DEFINE T == {ds \in Seq(Block) : TokensOf(Content(ds)) <= TokensOf(ds)}
<1>1. <<>> \in T
  <2>1. <<>> \in Seq(Block)
    OBVIOUS
  <2> QED
    BY <2>1, ContentEmpty, TokensEmpty
<1>2. ASSUME NEW ds \in Seq(Block), NEW b \in Block, ds \in T
      PROVE  Append(ds, b) \in T
  <2>1. Append(ds, b) \in Seq(Block) /\ Content(ds) \in Seq(Block) /\ b.tokens \in Nat
    BY ContentIsSeq, BlockIs
  <2>2. Content(Append(ds, b)) = IF IsContent(b) THEN Append(Content(ds), b) ELSE Content(ds)
    BY ContentAppend
  <2>3. /\ TokensOf(Append(ds, b)) = TokensOf(ds) + b.tokens
        /\ TokensOf(Append(Content(ds), b)) = TokensOf(Content(ds)) + b.tokens
    BY <2>1, TokensAppend
  <2>4. TokensOf(Content(ds)) \in Nat /\ TokensOf(ds) \in Nat
    BY <2>1, TokensOfIs
  <2>5. TokensOf(Content(ds)) <= TokensOf(ds)
    BY <1>2
  <2>6. TokensOf(Content(Append(ds, b))) <= TokensOf(Append(ds, b))
    BY <2>1, <2>2, <2>3, <2>4, <2>5
  <2> QED
    BY <2>1, <2>6
<1>3. bs \in Seq(Block)
  OBVIOUS
<1> HIDE DEF T
<1>4. bs \in T
  BY <1>1, <1>2, <1>3, SeqInduction
<1> QED
  BY <1>4 DEF T

\* There is content exactly where a block is content, and it starts with one.
LEMMA ContentWhere ==
  ASSUME NEW bs \in Seq(Block)
  PROVE  /\ Content(bs) = <<>> <=> \A i \in 1 .. Len(bs) : ~IsContent(bs[i])
         /\ Content(bs) # <<>> => \E i \in 1 .. Len(bs) :
              /\ Head(Content(bs)) = bs[i] /\ IsContent(bs[i])
              /\ \A j \in 1 .. i - 1 : ~IsContent(bs[j])
<1> DEFINE K == {i \in DOMAIN bs : IsContent(bs[i])}
           p == Content(bs)
<1>1. p = Picked(bs, K) /\ p \in Seq(Block) /\ Len(p) \in Nat
  BY ContentIsSeq DEF Content
<1>2. \A i \in 1 .. Len(bs) : i \in K <=> IsContent(bs[i])
  OBVIOUS
<1> HIDE DEF p, K
<1>3. bs \in Seq(Block)
  OBVIOUS
<1>4. PICK at \in [1 .. Len(Picked(bs, K)) -> {i \in 1 .. Len(bs) : i \in K}] :
        /\ \A k \in 1 .. Len(Picked(bs, K)) : Picked(bs, K)[k] = bs[at[k]]
        /\ \A j, k \in 1 .. Len(Picked(bs, K)) : j < k => at[j] < at[k]
        /\ \A i \in 1 .. Len(bs) : i \in K => \E k \in 1 .. Len(Picked(bs, K)) : at[k] = i
  BY ONLY <1>3, PickedPositions
<1>5. /\ at \in [1 .. Len(p) -> {i \in 1 .. Len(bs) : i \in K}]
      /\ \A k \in 1 .. Len(p) : p[k] = bs[at[k]]
      /\ \A j, k \in 1 .. Len(p) : j < k => at[j] < at[k]
      /\ \A i \in 1 .. Len(bs) : i \in K => \E k \in 1 .. Len(p) : at[k] = i
  BY ONLY <1>1, <1>4
<1>6. p = <<>> => \A i \in 1 .. Len(bs) : i \notin K
  BY <1>5
<1>7. ASSUME p # <<>>
      PROVE  \E i \in 1 .. Len(bs) : /\ Head(p) = bs[i] /\ IsContent(bs[i])
                                     /\ \A j \in 1 .. i - 1 : ~IsContent(bs[j])
  <2>1. 1 \in 1 .. Len(p) /\ Head(p) = p[1]
    BY <1>1, <1>7
  <2>2. at[1] \in 1 .. Len(bs) /\ at[1] \in K /\ p[1] = bs[at[1]]
    BY <1>5, <2>1
  <2>3. ASSUME NEW j \in 1 .. at[1] - 1
        PROVE  ~IsContent(bs[j])
    <3>1. j \in 1 .. Len(bs) /\ j < at[1]
      BY <2>2
    <3>2. SUFFICES ASSUME j \in K
                   PROVE  FALSE
      BY <1>2, <3>1
    <3>3. PICK k \in 1 .. Len(p) : at[k] = j
      BY <1>5, <3>1, <3>2
    <3>4. k = 1 \/ 1 < k
      BY <3>3
    <3>5. at[1] <= at[k]
      BY <1>5, <2>1, <2>2, <3>1, <3>3, <3>4
    <3> QED
      BY <2>2, <3>1, <3>3, <3>5
  <2> QED
    BY <1>2, <2>1, <2>2, <2>3
<1> QED
  BY <1>2, <1>6, <1>7 DEF p

(***************************************************************************)
(* Splitting                                                               *)
(***************************************************************************)
FillStates == [full : Seq(Seq(Nat)), run : Seq(Nat)]

FillStep(acc, unit, extra) ==
  IF acc.run # <<>> /\ Total(acc.run) + unit + extra > budget
    THEN [full |-> Append(acc.full, acc.run), run |-> <<unit>>]
    ELSE [full |-> acc.full, run |-> Append(acc.run, unit)]

NoFill == [full |-> <<>>, run |-> <<>>]

IsFill(units, extra, f) ==
  f = [i \in 0 .. Len(units) |-> IF i = 0 THEN NoFill ELSE FillStep(f[i - 1], units[i], extra)]

LEMMA FillStepIs ==
  ASSUME NEW acc \in FillStates, NEW unit \in Nat, NEW extra
  PROVE  FillStep(acc, unit, extra) \in FillStates
<1>1. acc.full \in Seq(Seq(Nat)) /\ acc.run \in Seq(Nat)
  BY DEF FillStates
<1>2. <<unit>> \in Seq(Nat) /\ Append(acc.run, unit) \in Seq(Nat)
  BY <1>1
<1>3. Append(acc.full, acc.run) \in Seq(Seq(Nat))
  BY <1>1, AppendIs
<1> QED
  BY <1>1, <1>2, <1>3 DEF FillStep, FillStates

LEMMA FillStarts == NoFill \in FillStates /\ NoFill.full = <<>> /\ NoFill.run = <<>>
<1>1. <<>> \in Seq(Seq(Nat)) /\ <<>> \in Seq(Nat)
  OBVIOUS
<1> QED
  BY <1>1 DEF NoFill, FillStates

LEMMA FillExists ==
  ASSUME NEW units \in Seq(Nat), NEW extra
  PROVE  \E f : IsFill(units, extra, f)
<1> DEFINE n    == Len(units)
           V    == FillStates
           step == [i \in 1 .. n |-> [v \in V |-> FillStep(v, units[i], extra)]]
<1>1. n \in Nat /\ NoFill \in V /\ \A i \in 1 .. n : units[i] \in Nat
  BY FillStarts
<1>2. \A i \in 1 .. n, v \in V : FillStep(v, units[i], extra) \in V
  BY <1>1, FillStepIs
<1> HIDE DEF V
<1>3. /\ step \in [1 .. n -> [V -> V]]
      /\ \A i \in 1 .. n, v \in V : step[i][v] = FillStep(v, units[i], extra)
  BY <1>2
<1> HIDE DEF step, n
<1>4. IsLoop(n, V, NoFill, step)
  BY <1>1, <1>3 DEF IsLoop
<1>5. PICK g : RunsAs(n, V, NoFill, step, g)
  BY <1>1, <1>4, Recursion
<1>6. g \in [0 .. n -> V] /\ g[0] = NoFill /\ \A i \in 1 .. n : g[i] = step[i][g[i - 1]]
  BY <1>5 DEF RunsAs
<1> DEFINE f == [i \in 0 .. n |-> IF i = 0 THEN NoFill ELSE FillStep(g[i - 1], units[i], extra)]
<1>7. ASSUME NEW i \in 0 .. n
      PROVE  f[i] = g[i]
  <2>1. CASE i = 0
    BY <1>6, <2>1
  <2>2. CASE i # 0
    <3>1. i \in 1 .. n /\ i - 1 \in 0 .. n
      BY <1>1, <2>2
    <3> QED
      BY <1>3, <1>6, <2>2, <3>1
  <2> QED
    BY <2>1, <2>2
<1>8. f = g
  BY <1>6, <1>7
<1> HIDE DEF f
<1> QED
  BY <1>8 DEF IsFill, f, n

LEMMA FillIs ==
  ASSUME NEW units \in Seq(Nat), NEW extra
  PROVE  \E f : /\ IsFill(units, extra, f)
                /\ Fill(units, extra) = f[Len(units)]
<1> DEFINE h == CHOOSE f : IsFill(units, extra, f)
<1>1. IsFill(units, extra, h)
  BY FillExists
<1>2. Fill(units, extra) = h[Len(units)]
  BY DEF Fill, IsFill, FillStep, NoFill
<1> QED
  BY <1>1, <1>2

LEMMA FillRuns ==
  ASSUME NEW units, NEW extra, NEW f, IsFill(units, extra, f), Len(units) \in Nat
  PROVE  f[0] = NoFill /\ \A i \in 1 .. Len(units) : f[i] = FillStep(f[i - 1], units[i], extra)
<1>1. 0 \in 0 .. Len(units) /\ \A i \in 1 .. Len(units) : i \in 0 .. Len(units) /\ i # 0
  OBVIOUS
<1>2. f[0] = NoFill
  BY <1>1 DEF IsFill
<1>3. ASSUME NEW i \in 1 .. Len(units)
      PROVE  f[i] = FillStep(f[i - 1], units[i], extra)
  BY <1>1 DEF IsFill
<1> QED
  BY <1>2, <1>3

\* A run keeps to the budget unless it is a single unit.
Fits(run, extra) == Total(run) + extra <= budget \/ Len(run) <= 1

FilledUpTo(units, extra, acc, i) ==
  /\ acc \in FillStates
  /\ FlattenSeq(acc.full) \o acc.run = SubSeq(units, 1, i)
  /\ \A k \in 1 .. Len(acc.full) : acc.full[k] # <<>> /\ Fits(acc.full[k], extra)
  /\ Fits(acc.run, extra)
  /\ acc.run = <<>> => i = 0

LEMMA SubSeqGrows ==
  ASSUME NEW s \in Seq(Nat), NEW i \in 0 .. Len(s) - 1
  PROVE  SubSeq(s, 1, i + 1) = Append(SubSeq(s, 1, i), s[i + 1])
<1>1. /\ SubSeq(s, 1, i) \in Seq(Nat) /\ Len(SubSeq(s, 1, i)) = i
      /\ \A k \in 1 .. i : SubSeq(s, 1, i)[k] = s[k]
  OBVIOUS
<1>2. /\ SubSeq(s, 1, i + 1) \in Seq(Nat) /\ Len(SubSeq(s, 1, i + 1)) = i + 1
      /\ \A k \in 1 .. i + 1 : SubSeq(s, 1, i + 1)[k] = s[k]
  OBVIOUS
<1> DEFINE p == SubSeq(s, 1, i)
           q == SubSeq(s, 1, i + 1)
<1> HIDE DEF p, q
<1>3. s[i + 1] \in Nat
  OBVIOUS
<1>4. /\ Append(p, s[i + 1]) \in Seq(Nat) /\ Len(Append(p, s[i + 1])) = i + 1
      /\ \A k \in 1 .. i : Append(p, s[i + 1])[k] = p[k]
      /\ Append(p, s[i + 1])[i + 1] = s[i + 1]
  BY <1>1, <1>3, AppendIs DEF p
<1>5. ASSUME NEW k \in 1 .. i + 1
      PROVE  q[k] = Append(p, s[i + 1])[k]
  <2>1. CASE k \in 1 .. i
    BY <1>1, <1>2, <1>4, <2>1 DEF p, q
  <2>2. CASE k = i + 1
    BY <1>2, <1>4, <2>2 DEF q
  <2>3. k \in 1 .. i \/ k = i + 1
    OBVIOUS
  <2> QED
    BY <2>1, <2>2, <2>3
<1>6. q = Append(p, s[i + 1])
  BY <1>2, <1>4, <1>5, SeqEqual DEF q
<1> QED
  BY <1>6 DEF p, q

LEMMA FillStepKeeps ==
  ASSUME NEW units \in Seq(Nat), NEW extra \in Nat, NEW i \in 0 .. Len(units) - 1,
         NEW acc, FilledUpTo(units, extra, acc, i)
  PROVE  FilledUpTo(units, extra, FillStep(acc, units[i + 1], extra), i + 1)
<1> DEFINE u   == units[i + 1]
           new == FillStep(acc, u, extra)
           S   == Seq(Nat)
<1>1. u \in Nat /\ acc \in FillStates /\ new \in FillStates
  BY FillStepIs DEF FilledUpTo
<1>2. acc.full \in Seq(S) /\ acc.run \in Seq(Nat)
  BY <1>1 DEF FillStates
<1>3. /\ Total(acc.run) \in Nat /\ Total(<<u>>) = u
      /\ Total(Append(acc.run, u)) = Total(acc.run) + u
  BY <1>1, <1>2, TotalIsNat, TotalOne, TotalAppend
<1>4. FlattenSeq(acc.full) \in Seq(Nat)
  BY <1>2, FlattenIsSeq
<1>5. SubSeq(units, 1, i + 1) = Append(FlattenSeq(acc.full) \o acc.run, u)
  BY SubSeqGrows DEF FilledUpTo
<1>6. budget \in Nat
  BY BudgetIs
<1>7. CASE acc.run # <<>> /\ Total(acc.run) + u + extra > budget
  <2>1. new.full = Append(acc.full, acc.run) /\ new.run = <<u>>
    BY <1>7 DEF FillStep
  <2>2. FlattenSeq(new.full) = FlattenSeq(acc.full) \o acc.run
    BY <1>2, <2>1, FlattenAppend
  <2>3. FlattenSeq(acc.full) \o acc.run \in Seq(Nat)
    BY <1>2, <1>4
  <2>4. FlattenSeq(new.full) \o new.run = SubSeq(units, 1, i + 1)
    <3> DEFINE p == FlattenSeq(acc.full) \o acc.run
    <3>1. p \in Seq(Nat)
      BY <2>3
    <3> HIDE DEF p
    <3>2. p \o <<u>> = Append(p, u)
      BY <1>1, <3>1
    <3> QED
      BY <1>5, <2>1, <2>2, <3>2 DEF p
  <2>5. Len(<<u>>) <= 1 /\ <<u>> # <<>>
    OBVIOUS
  <2>6. Fits(acc.run, extra) /\ \A k \in 1 .. Len(acc.full) : acc.full[k] # <<>> /\ Fits(acc.full[k], extra)
    BY DEF FilledUpTo
  <2>7. \A k \in 1 .. Len(new.full) : new.full[k] # <<>> /\ Fits(new.full[k], extra)
    <3>1. /\ Len(new.full) = Len(acc.full) + 1 /\ new.full[Len(acc.full) + 1] = acc.run
          /\ \A k \in 1 .. Len(acc.full) : new.full[k] = acc.full[k]
      BY <1>2, <2>1, AppendIs
    <3>2. Len(acc.full) \in Nat
      BY <1>2
    <3> HIDE DEF new
    <3>3. ASSUME NEW k \in 1 .. Len(new.full)
          PROVE  new.full[k] # <<>> /\ Fits(new.full[k], extra)
      <4>1. CASE k \in 1 .. Len(acc.full)
        BY <2>6, <3>1, <4>1
      <4>2. CASE k = Len(acc.full) + 1
        BY <1>7, <2>6, <3>1, <4>2
      <4> QED
        BY <3>1, <3>2, <4>1, <4>2
    <3> QED
      BY <3>3
  <2>8. Fits(new.run, extra) /\ new.run # <<>>
    BY <2>1, <2>5 DEF Fits
  <2> HIDE DEF new, u
  <2> QED
    BY <1>1, <2>4, <2>7, <2>8 DEF FilledUpTo, new, u
<1>8. CASE ~(acc.run # <<>> /\ Total(acc.run) + u + extra > budget)
  <2>1. new.full = acc.full /\ new.run = Append(acc.run, u)
    BY <1>8 DEF FillStep
  <2>2. Append(acc.run, u) # <<>> /\ Len(Append(acc.run, u)) = Len(acc.run) + 1
    <3> DEFINE N == Nat
               q == acc.run
    <3>1. q \in Seq(N) /\ u \in N
      BY <1>1, <1>2
    <3> HIDE DEF u, N, q
    <3>2. Append(q, u) # <<>> /\ Len(Append(q, u)) = Len(q) + 1
      BY <3>1, AppendIs
    <3> QED
      BY <3>2 DEF q, u
  <2>3. FlattenSeq(new.full) \o new.run = SubSeq(units, 1, i + 1)
    <3> DEFINE p == FlattenSeq(acc.full)
               q == acc.run
               N == Nat
    <3>1. p \in Seq(N) /\ q \in Seq(N) /\ u \in N
      BY <1>1, <1>2, <1>4
    <3> HIDE DEF p, q, u, N
    <3>2. p \o Append(q, u) = Append(p \o q, u)
      BY <3>1, AppendConcat
    <3> USE DEF u
    <3> QED
      BY <1>5, <2>1, <3>2 DEF p, q
  <2>4. Fits(new.run, extra)
    <3>1. CASE acc.run = <<>>
      <4>1. Len(acc.run) = 0
        BY <3>1
      <4> QED
        BY <2>1, <2>2, <4>1 DEF Fits
    <3>2. CASE Total(acc.run) + u + extra <= budget
      BY <1>1, <1>3, <2>1, <3>2 DEF Fits
    <3> QED
      BY <1>1, <1>3, <1>6, <1>8, <3>1, <3>2
  <2>5. \A k \in 1 .. Len(new.full) : new.full[k] # <<>> /\ Fits(new.full[k], extra)
    BY <2>1 DEF FilledUpTo
  <2> HIDE DEF new, u
  <2> QED
    BY <1>1, <2>1, <2>2, <2>3, <2>4, <2>5 DEF FilledUpTo, new, u
<1> QED
  BY <1>7, <1>8

\* What Fill does with all units.
LEMMA FillKeeps ==
  ASSUME NEW units \in Seq(Nat), NEW extra \in Nat
  PROVE  FilledUpTo(units, extra, Fill(units, extra), Len(units))
<1> DEFINE n == Len(units)
<1>1. n \in Nat
  OBVIOUS
<1>2. PICK f : IsFill(units, extra, f) /\ Fill(units, extra) = f[n]
  BY FillIs
<1>3. f[0] = NoFill /\ \A i \in 1 .. n : f[i] = FillStep(f[i - 1], units[i], extra)
  BY <1>1, <1>2, FillRuns
<1> DEFINE T == {i \in 0 .. n : FilledUpTo(units, extra, f[i], i)}
<1>4. 0 \in T
  <2>1. SubSeq(units, 1, 0) = <<>> /\ <<>> \o <<>> = <<>> /\ Len(<<>>) = 0
    OBVIOUS
  <2>2. FlattenSeq(NoFill.full) \o NoFill.run = SubSeq(units, 1, 0)
    BY <2>1, FillStarts, FlattenEmpty
  <2>3. Fits(NoFill.run, extra)
    BY <2>1, FillStarts DEF Fits
  <2>4. FilledUpTo(units, extra, NoFill, 0)
    BY <2>1, <2>2, <2>3, FillStarts DEF FilledUpTo
  <2> QED
    BY <1>1, <1>3, <2>4
<1>5. ASSUME NEW i \in 0 .. n - 1, i \in T
      PROVE  i + 1 \in T
  <2>1. FilledUpTo(units, extra, f[i], i)
    BY <1>5
  <2>2. FilledUpTo(units, extra, FillStep(f[i], units[i + 1], extra), i + 1)
    BY <2>1, FillStepKeeps
  <2>3. i + 1 \in 1 .. n /\ (i + 1) - 1 = i
    BY <1>1
  <2>4. f[i + 1] = FillStep(f[i], units[i + 1], extra)
    BY <1>3, <2>3
  <2> QED
    BY <2>2, <2>3, <2>4
<1> HIDE DEF T, n
<1>6. \A i \in 0 .. n : i \in T
  BY <1>1, <1>4, <1>5, UpTo
<1>7. n \in T
  BY <1>1, <1>6
<1> QED
  BY <1>2, <1>7 DEF T, n

LEMMA RunsKeep ==
  ASSUME NEW units \in Seq(Nat), NEW extra \in Nat
  PROVE  /\ Runs(units, extra) \in Seq(Seq(Nat)) /\ Runs(units, extra) # <<>>
         /\ FlattenSeq(Runs(units, extra)) = units
         /\ \A k \in 1 .. Len(Runs(units, extra)) :
              /\ Fits(Runs(units, extra)[k], extra)
              /\ units # <<>> => Runs(units, extra)[k] # <<>>
<1> DEFINE f  == Fill(units, extra)
           S  == Seq(Nat)
           rs == Append(f.full, f.run)
           n  == Len(f.full)
<1>1. FilledUpTo(units, extra, f, Len(units))
  BY FillKeeps
<1>2. f.full \in Seq(S) /\ f.run \in S
  BY <1>1 DEF FilledUpTo, FillStates
<1>3. SubSeq(units, 1, Len(units)) = units
  OBVIOUS
<1>4. /\ FlattenSeq(f.full) \o f.run = units
      /\ \A k \in 1 .. n : f.full[k] # <<>> /\ Fits(f.full[k], extra)
      /\ Fits(f.run, extra) /\ (f.run = <<>> => Len(units) = 0)
  BY <1>1, <1>3 DEF FilledUpTo
<1>5. units = <<>> <=> Len(units) = 0
  OBVIOUS
<1>6. FlattenSeq(rs) = units
  BY <1>2, <1>4, FlattenAppend
<1>7. rs = Runs(units, extra)
  BY DEF Runs
<1> HIDE DEF S, f
<1>8. /\ rs \in Seq(S) /\ Len(rs) = n + 1 /\ rs[n + 1] = f.run /\ rs # <<>>
      /\ \A k \in 1 .. n : rs[k] = f.full[k]
  <2> DEFINE p == f.full
             q == f.run
  <2>1. p \in Seq(S) /\ q \in S
    BY <1>2
  <2> HIDE DEF p, q
  <2>2. /\ Append(p, q) \in Seq(S) /\ Len(Append(p, q)) = Len(p) + 1
        /\ Append(p, q)[Len(p) + 1] = q /\ Append(p, q) # <<>>
        /\ \A k \in 1 .. Len(p) : Append(p, q)[k] = p[k]
    BY <2>1, AppendIs
  <2> QED
    BY <2>2 DEF p, q
<1>9. n \in Nat
  BY <1>2, SeqIs
<1> HIDE DEF rs, n
<1>10. ASSUME NEW k \in 1 .. n + 1
       PROVE  Fits(rs[k], extra) /\ (units # <<>> => rs[k] # <<>>)
  <2>1. CASE k \in 1 .. n
    BY <1>4, <1>8, <2>1
  <2>2. CASE k = n + 1
    BY <1>4, <1>5, <1>8, <2>2
  <2> QED
    BY <1>9, <2>1, <2>2
<1> USE DEF S
<1> QED
  BY <1>6, <1>7, <1>8, <1>10

LEMMA MinOfTwo ==
  ASSUME NEW a \in Nat, NEW b \in Nat
  PROVE  Min({a, b}) = IF a <= b THEN a ELSE b
<1> DEFINE T == {a, b}
<1>1. T \subseteq Nat /\ T # {} /\ a \in T /\ b \in T
  OBVIOUS
<1>2. \A n \in T : n = a \/ n = b
  OBVIOUS
<1> HIDE DEF T
<1>3. Min(T) \in T /\ \A n \in T : Min(T) <= n
  BY <1>1, LeastOf
<1> QED
  BY <1>1, <1>2, <1>3 DEF T

LEMMA ProductGrows ==
  ASSUME NEW a \in Nat, NEW b \in Nat, NEW c \in Nat, a <= b
  PROVE  a * c <= b * c /\ a * c \in Nat /\ b * c \in Nat
<1>1. b - a \in Nat
  OBVIOUS
<1>2. (b - a) * c \in Nat
  BY <1>1
<1>3. b * c = a * c + (b - a) * c /\ a * c \in Nat /\ b * c \in Nat
  OBVIOUS
<1> QED
  BY <1>2, <1>3

\* How many pieces the code cuts: n / budget rounded up.
LEMMA RoundedUp ==
  ASSUME NEW n \in Nat, NEW c \in Nat, c > 0, n > 0
  PROVE  LET m == (n + c - 1) \div c IN m \in Nat /\ m > 0 /\ (m - 1) * c < n /\ n <= m * c
<1> DEFINE d == n + c - 1
           m == d \div c
           r == d % c
<1>1. d \in Nat /\ d >= c
  OBVIOUS
<1>2. m \in Int /\ r \in 0 .. c - 1 /\ d = c * m + r
  BY <1>1
<1> HIDE DEF m, r
<1>3. m >= 1
  <2>1. SUFFICES ASSUME m <= 0
                 PROVE  FALSE
    BY <1>2
  <2>2. c * m <= 0
    BY <1>2, <2>1
  <2> QED
    BY <1>1, <1>2, <2>2
<1>4. (m - 1) * c = c * m - c /\ m * c = c * m
  BY <1>2
<1> QED
  BY <1>2, <1>3, <1>4 DEF m

HardSplits(run, h) ==
  /\ h \in Seq(Seq(Nat)) /\ h # <<>>
  /\ \A k \in 1 .. Len(h) : Total(h[k]) <= budget
  /\ Total(FlattenSeq(h)) = Total(run)

LEMMA HardSplitKeeps ==
  ASSUME NEW run \in Seq(Nat)
  PROVE  HardSplits(run, HardSplit(run))
<1> DEFINE n == Total(run)
           S == Seq(Nat)
<1>1. n \in Nat /\ budget \in Nat /\ budget > 0
  BY TotalIsNat, BudgetIs
<1>2. CASE n <= budget
  <2>1. HardSplit(run) = <<run>>
    BY <1>2 DEF HardSplit
  <2>2. <<run>> \in Seq(S) /\ <<run>> # <<>> /\ Len(<<run>>) = 1 /\ <<run>>[1] = run
    OBVIOUS
  <2>3. FlattenSeq(<<run>>) = run
    BY FlattenOne
  <2> QED
    BY <1>2, <2>1, <2>2, <2>3 DEF HardSplits
<1>3. CASE n > budget
  <2> DEFINE m     == (n + budget - 1) \div budget
             piece == [k \in 1 .. m |-> IF k < m THEN budget ELSE n - (m - 1) * budget]
             h     == [k \in 1 .. m |-> <<Min({budget, n - (k - 1) * budget})>>]
  <2>1. HardSplit(run) = h
    BY <1>1, <1>3 DEF HardSplit
  <2>2. m \in Nat /\ m > 0 /\ (m - 1) * budget < n /\ n <= m * budget
    BY <1>1, <1>3, RoundedUp
  <2> HIDE DEF n, m
  <2>3. (m - 1) * budget \in Nat /\ n - (m - 1) * budget \in Nat /\ n - (m - 1) * budget <= budget
    <3>1. m * budget = (m - 1) * budget + budget
      BY <1>1, <2>2
    <3>2. (m - 1) * budget \in Nat
      BY <1>1, <2>2, ProductGrows
    <3> QED
      BY <1>1, <2>2, <3>1, <3>2
  <2>4. ASSUME NEW k \in 1 .. m
        PROVE  piece[k] \in Nat /\ piece[k] <= budget /\ h[k] = <<piece[k]>>
    <3>1. CASE k = m
      <4>1. Min({budget, n - (m - 1) * budget}) = n - (m - 1) * budget
        BY <1>1, <2>3, MinOfTwo
      <4> QED
        BY <2>3, <3>1, <4>1
    <3>2. CASE k < m
      <4>1. k * budget <= (m - 1) * budget /\ (k - 1) * budget <= (m - 1) * budget
        BY <1>1, <2>2, <3>2, ProductGrows
      <4>2. (k - 1) * budget = k * budget - budget /\ k * budget \in Nat /\ (k - 1) * budget \in Nat
        BY <1>1, ProductGrows
      <4>3. n - (k - 1) * budget \in Nat /\ budget <= n - (k - 1) * budget
        BY <1>1, <2>2, <2>3, <4>1, <4>2
      <4>4. Min({budget, n - (k - 1) * budget}) = budget
        BY <1>1, <4>3, MinOfTwo
      <4> QED
        BY <1>1, <3>2, <4>4
    <3> QED
      BY <2>2, <3>1, <3>2
  <2> HIDE DEF piece
  <2>5. h = [k \in 1 .. m |-> <<piece[k]>>]
    BY <2>4
  <2>6. piece[m] = n - (m - 1) * budget /\ \A k \in 1 .. m : k < m => piece[k] = budget
    BY <2>2 DEF piece
  <2> HIDE DEF h
  <2> DEFINE upto(j) == [k \in 1 .. j |-> <<piece[k]>>]
             T == {j \in 0 .. m : /\ upto(j) \in Seq(S) /\ Len(upto(j)) = j
                                 /\ Total(FlattenSeq(upto(j))) = IF j < m THEN j * budget ELSE n}
  <2>7. 0 \in T
    <3>1. upto(0) = <<>> /\ <<>> \in Seq(S) /\ Len(<<>>) = 0
      OBVIOUS
    <3>2. Total(FlattenSeq(<<>>)) = 0
      BY FlattenEmpty, TotalEmpty
    <3>3. 0 * budget = 0
      BY <1>1
    <3> HIDE DEF upto
    <3>4. Total(FlattenSeq(upto(0))) = IF 0 < m THEN 0 * budget ELSE n
      BY <2>2, <3>1, <3>2, <3>3
    <3>5. upto(0) \in Seq(S) /\ Len(upto(0)) = 0
      BY <3>1
    <3>6. 0 \in 0 .. m
      BY <2>2
    <3> QED
      BY <3>4, <3>5, <3>6
  <2>8. ASSUME NEW j \in 0 .. m - 1, j \in T
        PROVE  j + 1 \in T
    <3> DEFINE p == piece[j + 1]
    <3>1. p \in Nat /\ p = IF j + 1 < m THEN budget ELSE n - (m - 1) * budget
      BY <2>2, <2>4, <2>6
    <3>2. upto(j) \in Seq(S) /\ Len(upto(j)) = j /\ Total(FlattenSeq(upto(j))) = j * budget
      BY <2>2, <2>8
    <3>3. <<p>> \in S
      BY <3>1
    <3>4. \A k \in 1 .. j + 1 : piece[k] \in Nat
      BY <2>2, <2>4
    <3>5. /\ upto(j + 1) = Append(upto(j), <<p>>)
          /\ upto(j + 1) \in Seq(S) /\ Len(upto(j + 1)) = j + 1
      <4>1. upto(j + 1) \in Seq(S) /\ Len(upto(j + 1)) = j + 1
        <5>1. \A k \in 1 .. j + 1 : <<piece[k]>> \in S
          BY <3>4
        <5>2. j + 1 \in Nat
          OBVIOUS
        <5> HIDE DEF S
        <5>3. [k \in 1 .. j + 1 |-> <<piece[k]>>] \in [1 .. j + 1 -> S]
          BY <5>1
        <5> QED
          BY <5>2, <5>3, SeqFrom
      <4>2. \A k \in 1 .. j + 1 : upto(j + 1)[k] = <<piece[k]>>
        OBVIOUS
      <4>3. \A k \in 1 .. j : upto(j)[k] = <<piece[k]>>
        OBVIOUS
      <4> HIDE DEF upto, S
      <4>4. /\ Append(upto(j), <<p>>) \in Seq(S) /\ Len(Append(upto(j), <<p>>)) = j + 1
            /\ Append(upto(j), <<p>>)[j + 1] = <<p>>
            /\ \A k \in 1 .. j : Append(upto(j), <<p>>)[k] = upto(j)[k]
        BY <3>2, <3>3, AppendIs
      <4>5. ASSUME NEW k \in 1 .. j + 1
            PROVE  upto(j + 1)[k] = Append(upto(j), <<p>>)[k]
        <5>1. k \in 1 .. j \/ k = j + 1
          OBVIOUS
        <5>2. CASE k \in 1 .. j
          BY <4>2, <4>3, <4>4, <5>2
        <5>3. CASE k = j + 1
          BY <4>2, <4>4, <5>3
        <5> QED
          BY <5>1, <5>2, <5>3
      <4> QED
        BY <4>1, <4>4, <4>5, SeqEqual
    <3> HIDE DEF upto
    <3>6. FlattenSeq(upto(j + 1)) = FlattenSeq(upto(j)) \o <<p>>
      BY <3>2, <3>3, <3>5, FlattenAppend
    <3>7. FlattenSeq(upto(j)) \in Seq(Nat)
      BY <3>2, FlattenIsSeq
    <3>8. Total(FlattenSeq(upto(j + 1))) = j * budget + p
      BY <3>1, <3>2, <3>3, <3>6, <3>7, TotalConcat, TotalOne
    <3>9. (j + 1) * budget = j * budget + budget
      BY <1>1
    <3>10. j + 1 < m \/ j = m - 1
      BY <2>2
    <3>11. Total(FlattenSeq(upto(j + 1))) = IF j + 1 < m THEN (j + 1) * budget ELSE n
      <4>1. CASE j + 1 < m
        BY <3>1, <3>8, <3>9, <4>1
      <4>2. CASE j = m - 1
        <5>1. p = n - (m - 1) * budget
          BY <2>2, <3>1, <4>2
        <5>2. j * budget = (m - 1) * budget
          BY <4>2
        <5>3. ~(j + 1 < m)
          BY <2>2, <4>2
        <5> QED
          BY <1>1, <2>3, <3>8, <5>1, <5>2, <5>3
      <4> QED
        BY <3>10, <4>1, <4>2
    <3>12. j + 1 \in 0 .. m
      BY <2>2
    <3> QED
      BY <3>5, <3>11, <3>12
  <2> HIDE DEF T
  <2>9. \A j \in 0 .. m : j \in T
    BY <2>2, <2>7, <2>8, UpTo
  <2>10. m \in T /\ ~(m < m)
    BY <2>2, <2>9
  <2>11. h \in Seq(S) /\ Len(h) = m /\ Total(FlattenSeq(h)) = n
    BY <2>5, <2>10 DEF T
  <2>12. h # <<>>
    BY <2>2, <2>11
  <2>13. \A k \in 1 .. m : Total(h[k]) <= budget
    BY <2>4, TotalOne
  <2> USE DEF n
  <2> QED
    BY <2>1, <2>11, <2>12, <2>13 DEF HardSplits
<1> QED
  BY <1>1, <1>2, <1>3

CutRuns(rs) == [i \in DOMAIN rs |-> HardSplit(rs[i])]

LEMMA CutRunsAppend ==
  ASSUME NEW rs \in Seq(Seq(Nat)), NEW e \in Seq(Nat), CutRuns(rs) \in Seq(Seq(Seq(Nat)))
  PROVE  CutRuns(Append(rs, e)) = Append(CutRuns(rs), HardSplit(e))
<1> DEFINE S == Seq(Nat)
           U == Seq(S)
           n == Len(rs)
           h == HardSplit(e)
           q == Append(rs, e)
           c == CutRuns(rs)
<1>1. h \in U /\ e \in S /\ c \in Seq(U) /\ rs \in Seq(S)
  BY HardSplitKeeps DEF HardSplits
<1> HIDE DEF S, U, h
<1>2. /\ q \in Seq(S) /\ Len(q) = n + 1 /\ q[n + 1] = e /\ \A i \in 1 .. n : q[i] = rs[i]
      /\ n \in Nat
  BY <1>1, AppendIs, SeqIs
<1>3. DOMAIN q = 1 .. n + 1 /\ DOMAIN rs = 1 .. n
  BY <1>1, <1>2, SeqIs
<1> HIDE DEF q, n
<1>4. CutRuns(q) = [i \in 1 .. n + 1 |-> HardSplit(q[i])] /\ c = [i \in 1 .. n |-> HardSplit(rs[i])]
  BY <1>3 DEF CutRuns
<1>5. Len(c) = n
  <2>1. DOMAIN c = 1 .. n
    BY <1>4
  <2> HIDE DEF c
  <2>2. Len(c) \in Nat /\ DOMAIN c = 1 .. Len(c)
    BY <1>1, SeqIs
  <2> QED
    BY <1>2, <2>1, <2>2
<1>6. \A i \in 1 .. n : c[i] = HardSplit(rs[i])
  BY <1>4
<1> HIDE DEF c
<1>7. /\ Append(c, h) \in Seq(U) /\ Len(Append(c, h)) = n + 1 /\ Append(c, h)[n + 1] = h
      /\ \A i \in 1 .. n : Append(c, h)[i] = c[i]
  BY <1>1, <1>5, AppendIs
<1>8. ASSUME NEW i \in 1 .. n + 1
      PROVE  HardSplit(q[i]) = Append(c, h)[i]
  <2>1. i \in 1 .. n \/ i = n + 1
    BY <1>2
  <2>2. CASE i \in 1 .. n
    BY <1>2, <1>6, <1>7, <2>2
  <2>3. CASE i = n + 1
    BY <1>2, <1>7, <2>3 DEF h
  <2> QED
    BY <2>1, <2>2, <2>3
<1>9. CutRuns(q) \in Seq(U) /\ Len(CutRuns(q)) = n + 1
  <2>1. \A i \in 1 .. n + 1 : CutRuns(q)[i] = Append(c, h)[i]
    BY <1>4, <1>8
  <2>2. \A i \in 1 .. n + 1 : CutRuns(q)[i] \in U
    BY <1>7, <2>1, SeqIs
  <2>3. CutRuns(q) \in [1 .. n + 1 -> U] /\ n + 1 \in Nat
    BY <1>2, <1>4, <2>2
  <2> QED
    BY <2>3, SeqFrom
<1>10. CutRuns(q) = Append(c, h)
  <2>1. \A i \in 1 .. n + 1 : CutRuns(q)[i] = Append(c, h)[i]
    BY <1>4, <1>8
  <2> QED
    BY <1>7, <1>9, <2>1, SeqEqual
<1> QED
  BY <1>10 DEF q, c, h

CutsAll(rs) ==
  LET cut == FlattenSeq(CutRuns(rs)) IN
  /\ CutRuns(rs) \in Seq(Seq(Seq(Nat)))
  /\ cut \in Seq(Seq(Nat))
  /\ \A k \in 1 .. Len(cut) : Total(cut[k]) <= budget
  /\ Total(FlattenSeq(cut)) = Total(FlattenSeq(rs))
  /\ rs # <<>> => cut # <<>>

LEMMA CutsAllRuns ==
  ASSUME NEW rs \in Seq(Seq(Nat))
  PROVE  CutsAll(rs)
<1> DEFINE S == Seq(Nat)
           U == Seq(S)
           T == {qs \in Seq(S) : CutsAll(qs)}
<1>1. <<>> \in T
  <2>1. CutRuns(<<>>) = <<>> /\ <<>> \in Seq(U) /\ <<>> \in Seq(S) /\ Len(<<>>) = 0
    BY DEF CutRuns
  <2> DEFINE cut == FlattenSeq(CutRuns(<<>>))
  <2>2. cut = <<>> /\ FlattenSeq(cut) = FlattenSeq(<<>>)
    BY <2>1, FlattenEmpty
  <2>3. CutRuns(<<>>) \in Seq(U) /\ cut \in U
    BY <2>1, <2>2
  <2>4. \A k \in 1 .. Len(cut) : Total(cut[k]) <= budget
    BY <2>1, <2>2
  <2>5. Total(FlattenSeq(cut)) = Total(FlattenSeq(<<>>))
    BY <2>2
  <2>6. CutsAll(<<>>)
    BY <2>3, <2>4, <2>5 DEF CutsAll
  <2> QED
    BY <2>1, <2>6
<1>2. ASSUME NEW qs \in Seq(S), NEW e \in S, qs \in T
      PROVE  Append(qs, e) \in T
  <2> DEFINE h   == HardSplit(e)
             cut == FlattenSeq(CutRuns(qs))
             new == FlattenSeq(CutRuns(Append(qs, e)))
  <2>1. CutsAll(qs)
    BY <1>2
  <2>2. /\ CutRuns(qs) \in Seq(U) /\ cut \in U
        /\ \A k \in 1 .. Len(cut) : Total(cut[k]) <= budget
        /\ Total(FlattenSeq(cut)) = Total(FlattenSeq(qs))
    BY <2>1 DEF CutsAll
  <2>3. /\ h \in U /\ h # <<>> /\ \A k \in 1 .. Len(h) : Total(h[k]) <= budget
        /\ Total(FlattenSeq(h)) = Total(e)
    BY HardSplitKeeps DEF HardSplits
  <2>4. CutRuns(Append(qs, e)) = Append(CutRuns(qs), h)
    BY <2>2, CutRunsAppend
  <2>5. CutRuns(Append(qs, e)) \in Seq(U)
    <3> HIDE DEF U, h
    <3> QED
      BY <2>2, <2>3, <2>4, AppendIs
  <2>6. new = cut \o h
    <3>1. FlattenSeq(Append(CutRuns(qs), h)) = cut \o h
      <4> HIDE DEF S, h
      <4> QED
        BY <2>2, <2>3, FlattenAppend
    <3> QED
      BY <2>4, <3>1
  <2>7. FlattenSeq(new) = FlattenSeq(cut) \o FlattenSeq(h)
    BY <2>2, <2>3, <2>6, FlattenConcat
  <2>8. FlattenSeq(Append(qs, e)) = FlattenSeq(qs) \o e
    BY FlattenAppend
  <2>9. FlattenSeq(cut) \in Seq(Nat) /\ FlattenSeq(h) \in Seq(Nat) /\ FlattenSeq(qs) \in Seq(Nat)
    BY <2>2, <2>3, FlattenIsSeq
  <2>10. Total(FlattenSeq(new)) = Total(FlattenSeq(Append(qs, e)))
    BY <2>2, <2>3, <2>7, <2>8, <2>9, TotalConcat
  <2> HIDE DEF h, new, cut, S
  <2>11. /\ new \in Seq(S) /\ Len(new) = Len(cut) + Len(h)
         /\ \A i \in 1 .. Len(cut) : new[i] = cut[i]
         /\ \A i \in 1 .. Len(h) : new[Len(cut) + i] = h[i]
         /\ Len(cut) \in Nat /\ Len(h) \in Nat /\ Len(h) > 0
    BY <2>2, <2>3, <2>6, ConcatIs, SeqIs
  <2>12. ASSUME NEW k \in 1 .. Len(new)
         PROVE  Total(new[k]) <= budget
    <3>1. k \in 1 .. Len(cut) \/ \E i \in 1 .. Len(h) : k = Len(cut) + i
      <4>1. k - Len(cut) \in 1 .. Len(h) \/ k \in 1 .. Len(cut)
        BY <2>11
      <4>2. k = Len(cut) + (k - Len(cut))
        BY <2>11
      <4> QED
        BY <4>1, <4>2
    <3> QED
      BY <2>2, <2>3, <2>11, <3>1
  <2>13. new # <<>>
    BY <2>11, SeqIs
  <2>14. CutsAll(Append(qs, e))
    BY <2>5, <2>10, <2>11, <2>12, <2>13 DEF CutsAll, new, S
  <2>15. Append(qs, e) \in Seq(S)
    BY AppendIs
  <2> QED
    BY <2>14, <2>15
<1> HIDE DEF T
<1>3. rs \in T
  BY <1>1, <1>2, SeqInduction
<1> QED
  BY <1>3 DEF T

\* What split_oversized makes of a block.
SplitsInto(s, split) ==
  /\ split \in Seq(Seq(Nat)) /\ split # <<>>
  /\ \A k \in 1 .. Len(split) :
       s.header + Total(split[k]) <= budget \/ (s.kind = "table" /\ Len(split[k]) = 1)
  /\ s.kind = "table" => FlattenSeq(split) = s.units
  /\ Total(FlattenSeq(split)) = Total(s.units)

LEMMA SplitKeeps ==
  ASSUME NEW s \in Readable
  PROVE  SplitsInto(s, SplitUnits(s))
<1> DEFINE split == SplitUnits(s)
           units == s.units
           header == s.header
<1>1. units \in Seq(Nat) /\ header \in Nat /\ (header > 0 => s.kind = "table" /\ units # <<>>)
  BY DEF Readable
<1>2. Total(units) \in Nat /\ budget \in Nat /\ budget > 0
  BY <1>1, TotalIsNat, BudgetIs
<1>3. CASE header + Total(units) <= budget
  <2>1. split = <<units>>
    BY <1>3 DEF SplitUnits
  <2>2. <<units>> \in Seq(Seq(Nat)) /\ <<units>> # <<>> /\ Len(<<units>>) = 1 /\ <<units>>[1] = units
    BY <1>1
  <2>3. FlattenSeq(<<units>>) = units
    BY <1>1, FlattenOne
  <2> HIDE DEF split, units, header
  <2>4. \A k \in 1 .. Len(split) : split[k] = units
    BY <2>1, <2>2
  <2>5. \A k \in 1 .. Len(split) : header + Total(split[k]) <= budget
    BY <1>3, <2>4
  <2> QED
    BY <2>1, <2>2, <2>3, <2>5 DEF split, units, header, SplitsInto
<1>4. CASE header + Total(units) > budget /\ s.kind = "table"
  <2>1. split = Runs(units, header)
    BY <1>2, <1>1, <1>4 DEF SplitUnits
  <2>2. units # <<>>
    BY <1>1, <1>2, <1>4, TotalEmpty
  <2>3. /\ split \in Seq(Seq(Nat)) /\ split # <<>> /\ FlattenSeq(split) = units
        /\ \A k \in 1 .. Len(split) : Fits(split[k], header) /\ split[k] # <<>>
    BY <1>1, <2>1, <2>2, RunsKeep
  <2> HIDE DEF split, units, header
  <2>4. ASSUME NEW k \in 1 .. Len(split)
        PROVE  header + Total(split[k]) <= budget \/ (s.kind = "table" /\ Len(split[k]) = 1)
    <3>1. split[k] \in Seq(Nat) /\ Total(split[k]) \in Nat
      BY <2>3, TotalIsNat
    <3>2. split[k] # <<>> /\ Len(split[k]) \in Nat /\ (split[k] = <<>> <=> Len(split[k]) = 0)
      BY <2>3, <3>1, SeqIs
    <3>3. Len(split[k]) # 0
      BY <3>2, Zenon
    <3> DEFINE n == Len(split[k])
    <3>4. n \in Nat /\ n # 0
      BY <3>1, <3>3, SeqIs
    <3> HIDE DEF n
    <3>5. n <= 1 => n = 1
      BY <3>4
    <3>6. Len(split[k]) <= 1 => Len(split[k]) = 1
      BY <3>5 DEF n
    <3>7. Total(split[k]) + header <= budget \/ Len(split[k]) <= 1
      BY <2>3 DEF Fits
    <3> QED
      BY <1>1, <1>4, <3>1, <3>6, <3>7
  <2> QED
    BY <2>3, <2>4 DEF split, units, header, SplitsInto
<1>5. CASE header + Total(units) > budget /\ s.kind # "table"
  <2> DEFINE rs == Runs(units, 0)
  <2>1. split = FlattenSeq(CutRuns(rs))
    BY <1>1, <1>2, <1>5 DEF SplitUnits, CutRuns
  <2>2. rs \in Seq(Seq(Nat)) /\ rs # <<>> /\ FlattenSeq(rs) = units
    BY <1>1, RunsKeep
  <2> HIDE DEF rs
  <2>3. CutsAll(rs)
    BY <2>2, CutsAllRuns
  <2>4. header = 0
    BY <1>1, <1>5
  <2> HIDE DEF split, units, header
  <2>5. /\ split \in Seq(Seq(Nat)) /\ split # <<>>
        /\ \A k \in 1 .. Len(split) : Total(split[k]) <= budget
        /\ Total(FlattenSeq(split)) = Total(units)
    BY <2>1, <2>2, <2>3 DEF CutsAll
  <2>6. ASSUME NEW k \in 1 .. Len(split)
        PROVE  header + Total(split[k]) <= budget
    <3>1. split[k] \in Seq(Nat) /\ Total(split[k]) \in Nat
      BY <2>5, TotalIsNat
    <3> QED
      BY <1>2, <2>4, <2>5, <3>1
  <2> QED
    BY <1>5, <2>5, <2>6 DEF split, units, header, SplitsInto
<1> QED
  BY <1>1, <1>2, <1>3, <1>4, <1>5

(***************************************************************************)
(* Flushing and carrying headings over                                     *)
(***************************************************************************)
ChunkRecords == [blocks : Seq(Block), path : Seq(Heads), prefix : Seq(Block),
                 page_start : Nat, page_end : Nat]

Packers == [chunks : Seq(ChunkRecords), current : Seq(Block), tokens : Nat,
            last_kind : Kinds \cup {"none"}]

LEMMA PackerIs ==
  ASSUME NEW c \in Packers
  PROVE  /\ c.chunks \in Seq(ChunkRecords) /\ c.current \in Seq(Block) /\ c.tokens \in Nat
         /\ c.last_kind \in Kinds \cup {"none"}
BY DEF Packers

LEMMA TextIs ==
  ASSUME NEW e \in ChunkRecords
  PROVE  TextOf(e) \in Seq(Block)
<1>1. e.prefix \in Seq(Block) /\ e.blocks \in Seq(Block)
  BY DEF ChunkRecords
<1> QED
  BY <1>1, ConcatIs DEF TextOf

\* The end of a text is made of blocks of the text.
LEMMA EndingIs ==
  ASSUME NEW text \in Seq(Block)
  PROVE  /\ Ending(text) \in Seq(Block)
         /\ \A i \in 1 .. Len(Ending(text)) : \E j \in 1 .. Len(text) : Ending(text)[i] = text[j]
<1> DEFINE n    == Len(text)
           T    == {1} \cup {k \in DOMAIN text : TokensOf(SubSeq(text, k, Len(text))) >= overlap}
           from == Max(T)
           end  == SubSeq(text, from, n)
<1>1. n \in Nat /\ DOMAIN text = 1 .. n
  BY SeqIs
<1>2. T \subseteq Nat /\ T # {} /\ 1 \in T /\ \A k \in T : k <= n + 1 /\ n + 1 \in Nat
  BY <1>1
<1>3. Ending(text) = end
  BY DEF Ending
<1> HIDE DEF T, n
<1>4. from \in T
  BY <1>1, <1>2, GreatestOf
<1>5. from \in 1 .. n + 1
  <2>1. 1 <= from
    BY <1>1, <1>2, GreatestOf
  <2> HIDE DEF from
  <2>2. from \in Nat /\ from <= n + 1
    BY <1>2, <1>4
  <2> QED
    BY <1>1, <2>1, <2>2
<1> HIDE DEF from
<1>6. end \in Seq(Block) /\ Len(end) = n - from + 1 /\ \A i \in 1 .. n - from + 1 : end[i] = text[from + i - 1]
  BY <1>1, <1>5, SubSeqIs DEF n
<1>7. \A i \in 1 .. n - from + 1 : from + i - 1 \in 1 .. n
  BY <1>1, <1>5
<1> HIDE DEF end
<1> QED
  BY <1>3, <1>6, <1>7 DEF n

LEMMA PagesAreBounded ==
  ASSUME NEW bs \in Seq(Block)
  PROVE  PagesOf(bs) \subseteq Nat /\ \E m \in Nat : \A n \in PagesOf(bs) : n <= m
<1> DEFINE T == {cs \in Seq(Block) : \E m \in Nat : \A i \in 1 .. Len(cs) : cs[i].page <= m}
<1>1. <<>> \in T
  <2>1. <<>> \in Seq(Block) /\ \A i \in 1 .. Len(<<>>) : <<>>[i].page <= 0
    OBVIOUS
  <2> QED
    BY <2>1
<1>2. ASSUME NEW cs \in Seq(Block), NEW b \in Block, cs \in T
      PROVE  Append(cs, b) \in T
  <2> DEFINE r == Append(cs, b)
             n == Len(cs)
  <2>1. PICK m \in Nat : \A i \in 1 .. n : cs[i].page <= m
    BY <1>2
  <2>2. b.page \in Nat /\ n \in Nat
    BY DEF Block
  <2>3. r \in Seq(Block) /\ Len(r) = n + 1 /\ r[n + 1] = b /\ \A i \in 1 .. n : r[i] = cs[i]
    BY AppendIs
  <2> HIDE DEF r, n
  <2>4. \A i \in 1 .. n : cs[i].page \in Nat
    BY SeqIs, BlockIs DEF n
  <2>5. ASSUME NEW i \in 1 .. Len(r)
        PROVE  r[i].page <= m + b.page
    <3>1. i \in 1 .. n \/ i = n + 1
      BY <2>2, <2>3
    <3>2. CASE i \in 1 .. n
      BY <2>1, <2>2, <2>3, <2>4, <3>2
    <3>3. CASE i = n + 1
      BY <2>2, <2>3, <3>3
    <3> QED
      BY <3>1, <3>2, <3>3
  <2>6. m + b.page \in Nat
    BY <2>2
  <2>7. r \in T
    BY <2>3, <2>5, <2>6
  <2> QED
    BY <2>7 DEF r
<1> HIDE DEF T
<1>3. bs \in T
  BY <1>1, <1>2, SeqInduction
<1>4. PICK m \in Nat : \A i \in 1 .. Len(bs) : bs[i].page <= m
  BY <1>3 DEF T
<1>5. \A i \in 1 .. Len(bs) : bs[i].page \in Nat
  BY SeqIs, BlockIs
<1>6. DOMAIN bs = 1 .. Len(bs)
  OBVIOUS
<1> QED
  BY <1>4, <1>5, <1>6 DEF PagesOf

LEMMA ChunkIs ==
  ASSUME NEW c \in Packers, Content(c.current) # <<>>
  PROVE  Chunk(c, Content(c.current)) \in ChunkRecords
<1> DEFINE bs == c.current
           content == Content(bs)
           pages == PagesOf(bs)
<1>1. bs \in Seq(Block) /\ content \in Seq(Block) /\ content # <<>>
  BY PackerIs, ContentIsSeq
<1>2. Head(content) \in Block
  BY <1>1, TailIs
<1>3. Head(content).path \in Seq(Heads)
  BY <1>2, BlockIs
<1> DEFINE prefix == IF Joins(c, content) THEN Ending(TextOf(Last(c.chunks))) ELSE <<>>
<1>4. prefix \in Seq(Block)
  <2>1. CASE Joins(c, content)
    <3> DEFINE cs == c.chunks
    <3>1. cs \in Seq(ChunkRecords) /\ cs # <<>>
      BY <2>1, PackerIs DEF Joins
    <3> HIDE DEF cs
    <3>2. Last(cs) \in ChunkRecords
      BY <3>1, SeqIs DEF Last
    <3>3. Ending(TextOf(Last(cs))) \in Seq(Block)
      BY <3>2, TextIs, EndingIs
    <3> QED
      BY <2>1, <3>3 DEF cs
  <2>2. CASE ~Joins(c, content)
    BY <2>2
  <2> QED
    BY <2>1, <2>2
<1>5. PICK m \in Nat : pages \subseteq Nat /\ \A n \in pages : n <= m
  BY <1>1, PagesAreBounded
<1>6. pages # {}
  <2>1. PICK i \in 1 .. Len(bs) : Head(content) = bs[i]
    BY <1>1, ContentWhere
  <2>2. i \in DOMAIN bs
    BY <1>1
  <2> QED
    BY <2>2 DEF PagesOf
<1> HIDE DEF pages
<1>7. Min(pages) \in Nat
  BY <1>5, <1>6, LeastOf
<1>8. Max(pages) \in Nat
  BY <1>5, <1>6, GreatestOf
<1>9. Min(PagesOf(bs)) \in Nat /\ Max(PagesOf(bs)) \in Nat
  BY <1>7, <1>8 DEF pages
<1>10. Chunk(c, content) = [blocks |-> bs, path |-> Head(content).path, prefix |-> prefix,
                            page_start |-> Min(PagesOf(bs)), page_end |-> Max(PagesOf(bs))]
  BY DEF Chunk
<1> HIDE DEF prefix
<1> QED
  BY <1>1, <1>3, <1>4, <1>9, <1>10 DEF ChunkRecords

\* No chunk comes of c, or one of the blocks pre, and kept stays.
KeepsAll(c, r) ==
  /\ r \in Packers /\ r.chunks = c.chunks /\ r.current = c.current
  /\ r.tokens = c.tokens \/ r.tokens = TokensOf(c.current)
  /\ Content(c.current) = <<>>

Emits(c, r, pre, kept) ==
  /\ r \in Packers
  /\ pre \in Seq(Block) /\ kept \in Seq(Block) /\ pre \o kept = c.current
  /\ Content(pre) # <<>> /\ Content(pre) = Content(c.current) /\ Content(kept) = <<>>
  /\ r.chunks = Append(c.chunks, Chunk([c EXCEPT !.current = pre], Content(pre)))
  /\ Chunk([c EXCEPT !.current = pre], Content(pre)) \in ChunkRecords
  /\ r.current = kept /\ r.tokens = TokensOf(kept)

Moves(c, r) == KeepsAll(c, r) \/ \E pre, kept : Emits(c, r, pre, kept)

LEMMA FlushIs ==
  ASSUME NEW c \in Packers
  PROVE  /\ Content(c.current) = <<>> => Flush(c) = c
         /\ Content(c.current) # <<>> =>
              /\ Flush(c) \in Packers
              /\ Flush(c).chunks = Append(c.chunks, Chunk(c, Content(c.current)))
              /\ Flush(c).current = <<>> /\ Flush(c).tokens = 0
<1> DEFINE content == Content(c.current)
<1>1. content = <<>> => Flush(c) = c
  BY DEF Flush
<1>2. ASSUME content # <<>>
      PROVE  /\ Flush(c) \in Packers
             /\ Flush(c).chunks = Append(c.chunks, Chunk(c, content))
             /\ Flush(c).current = <<>> /\ Flush(c).tokens = 0
  <2> DEFINE e == Chunk(c, content)
  <2>1. Flush(c) = [chunks |-> Append(c.chunks, e), current |-> <<>>, tokens |-> 0,
                    last_kind |-> Last(content).kind]
    BY <1>2 DEF Flush
  <2>2. e \in ChunkRecords
    BY <1>2, ChunkIs
  <2>3. c.chunks \in Seq(ChunkRecords)
    BY PackerIs
  <2> HIDE DEF e
  <2>4. Append(c.chunks, e) \in Seq(ChunkRecords)
    BY <2>2, <2>3, AppendIs
  <2>5. content \in Seq(Block) /\ Len(content) \in Nat /\ Len(content) > 0
    <3>1. content \in Seq(Block)
      BY PackerIs, ContentIsSeq
    <3> HIDE DEF content
    <3> QED
      BY <1>2, <3>1, TailIs
  <2>6. Last(content) \in Block
    <3> HIDE DEF content
    <3> QED
      BY <2>5 DEF Last
  <2>7. Last(content).kind \in Kinds
    BY <2>6, BlockIs
  <2>8. <<>> \in Seq(Block)
    OBVIOUS
  <2> HIDE DEF content
  <2> QED
    BY <2>1, <2>4, <2>7, <2>8 DEF Packers, e
<1> QED
  BY <1>1, <1>2

LEMMA FlushMoves ==
  ASSUME NEW c \in Packers
  PROVE  Moves(c, Flush(c))
<1>1. CASE Content(c.current) = <<>>
  <2>1. Flush(c) = c
    BY <1>1, FlushIs
  <2>2. KeepsAll(c, Flush(c))
    BY <1>1, <2>1 DEF KeepsAll
  <2> QED
    BY <2>2 DEF Moves
<1>2. CASE Content(c.current) # <<>>
  <2>1. c.current \in Seq(Block) /\ <<>> \in Seq(Block) /\ c.current \o <<>> = c.current
    BY PackerIs
  <2>2. [c EXCEPT !.current = c.current] = c
    BY DEF Packers
  <2>3. Chunk(c, Content(c.current)) \in ChunkRecords
    BY <1>2, ChunkIs
  <2>4. Emits(c, Flush(c), c.current, <<>>)
    BY <1>2, <2>1, <2>2, <2>3, FlushIs, ContentEmpty, TokensEmpty DEF Emits
  <2> QED
    BY <2>4 DEF Moves
<1> QED
  BY <1>1, <1>2

\* Where the trailing headings of c begin.
LEMMA LastContentIs ==
  ASSUME NEW bs \in Seq(Block)
  PROVE  /\ LastContent(bs) \in 0 .. Len(bs)
         /\ LastContent(bs) > 0 => IsContent(bs[LastContent(bs)])
         /\ \A i \in LastContent(bs) + 1 .. Len(bs) : ~IsContent(bs[i])
<1> DEFINE T == {0} \cup {i \in DOMAIN bs : IsContent(bs[i])}
<1>1. Len(bs) \in Nat /\ DOMAIN bs = 1 .. Len(bs)
  OBVIOUS
<1>2. T \subseteq Nat /\ T # {} /\ \A n \in T : n <= Len(bs)
  BY <1>1
<1>3. \A n \in T : n > 0 => IsContent(bs[n])
  OBVIOUS
<1>4. \A i \in 1 .. Len(bs) : IsContent(bs[i]) => i \in T
  BY <1>1
<1> HIDE DEF T
<1>5. Max(T) \in T /\ \A n \in T : n <= Max(T)
  BY <1>1, <1>2, GreatestOf
<1>6. LastContent(bs) = Max(T)
  BY DEF LastContent, T
<1> DEFINE n == LastContent(bs)
<1> HIDE DEF n
<1>7. n \in T /\ \A i \in T : i <= n
  BY <1>5, <1>6 DEF n
<1>8. n \in Nat /\ n <= Len(bs)
  BY <1>2, <1>7
<1>9. \A i \in n + 1 .. Len(bs) : i \in 1 .. Len(bs) /\ ~(i <= n)
  BY <1>1, <1>8
<1>10. \A i \in n + 1 .. Len(bs) : ~IsContent(bs[i])
  BY <1>4, <1>7, <1>9
<1>11. n \in 0 .. Len(bs) /\ (n > 0 => IsContent(bs[n]))
  BY <1>1, <1>3, <1>7, <1>8
<1> QED
  BY <1>10, <1>11 DEF n

LEMMA CutInTwo ==
  ASSUME NEW S, NEW s \in Seq(S), NEW n \in 0 .. Len(s)
  PROVE  /\ SubSeq(s, 1, n) \in Seq(S) /\ SubSeq(s, n + 1, Len(s)) \in Seq(S)
         /\ Len(SubSeq(s, 1, n)) = n /\ Len(SubSeq(s, n + 1, Len(s))) = Len(s) - n
         /\ \A i \in 1 .. n : SubSeq(s, 1, n)[i] = s[i]
         /\ \A i \in 1 .. Len(s) - n : SubSeq(s, n + 1, Len(s))[i] = s[n + i]
         /\ SubSeq(s, 1, n) \o SubSeq(s, n + 1, Len(s)) = s
<1> DEFINE p == SubSeq(s, 1, n)
           q == SubSeq(s, n + 1, Len(s))
<1>1. p \in Seq(S) /\ Len(p) = n /\ \A i \in 1 .. n : p[i] = s[i]
  OBVIOUS
<1>2. q \in Seq(S) /\ Len(q) = Len(s) - n /\ \A i \in 1 .. Len(s) - n : q[i] = s[n + i]
  OBVIOUS
<1>3. Len(s) \in Nat /\ n \in Nat
  OBVIOUS
<1> HIDE DEF p, q
<1>4. /\ p \o q \in Seq(S) /\ Len(p \o q) = Len(s)
      /\ \A i \in 1 .. n : (p \o q)[i] = p[i]
      /\ \A i \in 1 .. Len(s) - n : (p \o q)[n + i] = q[i]
  BY <1>1, <1>2, <1>3, ConcatIs
<1>5. ASSUME NEW i \in 1 .. Len(s)
      PROVE  (p \o q)[i] = s[i]
  <2>1. CASE i <= n
    <3>1. i \in 1 .. n
      BY <1>3, <2>1
    <3> QED
      BY <1>1, <1>4, <3>1
  <2>2. CASE i > n
    <3>1. i - n \in 1 .. Len(s) - n /\ n + (i - n) = i
      BY <1>3, <2>2
    <3> QED
      BY <1>2, <1>4, <3>1
  <2>3. i <= n \/ i > n
    BY <1>3
  <2> QED
    BY <2>1, <2>2, <2>3
<1>6. p \o q = s
  BY <1>4, <1>5, SeqEqual
<1> QED
  BY <1>1, <1>2, <1>6 DEF p, q

LEMMA CarryMoves ==
  ASSUME NEW c \in Packers
  PROVE  Moves(c, Carry(c))
<1> DEFINE bs   == c.current
           n    == LastContent(bs)
           pre  == SubSeq(bs, 1, n)
           kept == SubSeq(bs, n + 1, Len(bs))
           d    == [c EXCEPT !.current = pre]
<1>1. bs \in Seq(Block) /\ Len(bs) \in Nat
  BY PackerIs
<1>2. n \in 0 .. Len(bs) /\ (n > 0 => IsContent(bs[n])) /\ \A i \in n + 1 .. Len(bs) : ~IsContent(bs[i])
  BY <1>1, LastContentIs
<1>3. /\ pre \in Seq(Block) /\ kept \in Seq(Block) /\ pre \o kept = bs
      /\ Len(pre) = n /\ Len(kept) = Len(bs) - n
      /\ \A i \in 1 .. n : pre[i] = bs[i]
      /\ \A i \in 1 .. Len(bs) - n : kept[i] = bs[n + i]
  <2> HIDE DEF n, bs
  <2> QED
    BY <1>1, <1>2, CutInTwo
<1>4. Carry(c) = [Flush(d) EXCEPT !.current = kept, !.tokens = TokensOf(kept)]
  BY DEF Carry
<1>5. d \in Packers /\ d.current = pre /\ d.chunks = c.chunks
  BY <1>3 DEF Packers
<1> HIDE DEF pre, kept, n
<1>6. Content(kept) = <<>>
  <2>1. \A i \in 1 .. Len(kept) : ~IsContent(kept[i])
    BY <1>1, <1>2, <1>3
  <2> QED
    BY <1>3, <2>1, ContentWhere
<1>7. Content(pre) = Content(bs)
  <2>1. Content(bs) = Content(pre) \o Content(kept)
    BY <1>3, ContentConcat
  <2>2. Content(pre) \in Seq(Block)
    BY <1>3, ContentIsSeq
  <2>3. Content(pre) \o <<>> = Content(pre)
    BY <2>2
  <2> QED
    BY <1>6, <2>1, <2>3
<1>8. TokensOf(kept) \in Nat
  BY <1>3, TokensOfIs
<1>9. CASE n = 0
  <2>1. pre = <<>>
    BY <1>3, <1>9, SeqIs
  <2>2. kept = bs
    <3>1. <<>> \o kept = kept
      BY <1>3
    <3> QED
      BY <1>3, <2>1, <3>1
  <2>3. Flush(d) = d
    BY <1>5, <2>1, FlushIs, ContentEmpty
  <2>4. Carry(c) = [d EXCEPT !.current = kept, !.tokens = TokensOf(kept)]
    BY <1>4, <2>3
  <2>5. /\ Carry(c) \in Packers /\ Carry(c).chunks = c.chunks
        /\ Carry(c).current = kept /\ Carry(c).tokens = TokensOf(kept)
    <3> HIDE DEF d
    <3> QED
      BY <1>3, <1>5, <1>8, <2>4 DEF Packers
  <2>6. KeepsAll(c, Carry(c))
    BY <1>6, <2>2, <2>5 DEF KeepsAll
  <2> QED
    BY <2>6 DEF Moves
<1>10. CASE n > 0
  <2>1. Content(pre) # <<>>
    <3>1. n \in 1 .. Len(pre) /\ IsContent(pre[n])
      BY <1>1, <1>2, <1>3, <1>10
    <3> QED
      BY <1>3, <3>1, ContentWhere
  <2>2. /\ Flush(d) \in Packers
        /\ Flush(d).chunks = Append(c.chunks, Chunk(d, Content(pre)))
    BY <1>5, <2>1, FlushIs
  <2>3. Chunk(d, Content(pre)) \in ChunkRecords
    BY <1>5, <2>1, ChunkIs
  <2>4. /\ Carry(c) \in Packers /\ Carry(c).chunks = Flush(d).chunks
        /\ Carry(c).current = kept /\ Carry(c).tokens = TokensOf(kept)
    <3> HIDE DEF d
    <3> QED
      BY <1>3, <1>4, <1>8, <2>2 DEF Packers
  <2>5. Emits(c, Carry(c), pre, kept)
    BY <1>3, <1>6, <1>7, <2>1, <2>2, <2>3, <2>4 DEF Emits
  <2> QED
    BY <2>5 DEF Moves
<1> QED
  BY <1>1, <1>2, <1>9, <1>10

(***************************************************************************)
(* Packing a block                                                         *)
(***************************************************************************)
Packed(c, b) == [Room(c, b) EXCEPT !.current = Append(@, b), !.tokens = @ + b.tokens + Separator(c)]

Counted(c) == c.tokens >= TokensOf(c.current)

\* What the code calls the budget of a chunk, of some blocks.
WithinBudget(blocks) ==
  LET content == Content(blocks) IN
  TokensOf(content) <= budget \/ (Len(content) = 1 /\ Head(content).kind = "table")

AllWithin(c) ==
  /\ WithinBudget(c.current)
  /\ \A i \in 1 .. Len(c.chunks) : WithinBudget(c.chunks[i].blocks)

LEMMA MovesIs ==
  ASSUME NEW c \in Packers, NEW r, Moves(c, r)
  PROVE  /\ r \in Packers
         /\ r.tokens = c.tokens \/ r.tokens = TokensOf(r.current)
         /\ Content(r.current) = <<>>
BY DEF Moves, KeepsAll, Emits

LEMMA RoomMoves ==
  ASSUME NEW c \in Packers, NEW b
  PROVE  Moves(c, Room(c, b)) \/ (Room(c, b) = c /\ ~Full(c, b))
<1>1. CASE Ready(c, b)
  <2>1. Room(c, b) = Flush(c)
    BY <1>1 DEF Room
  <2> QED
    BY <2>1, FlushMoves
<1>2. CASE ~Ready(c, b) /\ Full(c, b)
  <2>1. Room(c, b) = Carry(c)
    BY <1>2 DEF Room
  <2> QED
    BY <2>1, CarryMoves
<1>3. CASE ~Ready(c, b) /\ ~Full(c, b)
  BY <1>3 DEF Room
<1> QED
  BY <1>1, <1>2, <1>3

LEMMA RoomIs ==
  ASSUME NEW c \in Packers, NEW b
  PROVE  Room(c, b) \in Packers
BY RoomMoves, MovesIs

LEMMA PackedIs ==
  ASSUME NEW c \in Packers, NEW b \in Block
  PROVE  /\ Packed(c, b) \in Packers
         /\ Packed(c, b).chunks = Room(c, b).chunks
         /\ Packed(c, b).current = Append(Room(c, b).current, b)
         /\ Packed(c, b).tokens = Room(c, b).tokens + b.tokens + Separator(c)
         /\ Separator(c) \in {0, 1}
<1> DEFINE r == Room(c, b)
<1>1. r \in Packers
  BY RoomIs
<1>2. b.tokens \in Nat /\ Separator(c) \in {0, 1}
  BY BlockIs DEF Separator
<1> HIDE DEF r
<1>3. r.current \in Seq(Block) /\ r.tokens \in Nat
  BY <1>1, PackerIs
<1>4. Append(r.current, b) \in Seq(Block) /\ r.tokens + b.tokens + Separator(c) \in Nat
  BY <1>2, <1>3, AppendIs
<1>5. Packed(c, b) = [r EXCEPT !.current = Append(@, b), !.tokens = @ + b.tokens + Separator(c)]
  BY DEF Packed, r
<1> QED
  BY <1>1, <1>2, <1>4, <1>5 DEF Packers, r

LEMMA MovesCount ==
  ASSUME NEW c \in Packers, NEW r, Moves(c, r), Counted(c)
  PROVE  Counted(r)
<1>1. TokensOf(c.current) \in Nat /\ c.tokens \in Nat
  BY PackerIs, TokensOfIs
<1>2. CASE KeepsAll(c, r)
  BY <1>1, <1>2 DEF KeepsAll, Counted
<1>3. ASSUME NEW pre, NEW kept, Emits(c, r, pre, kept)
      PROVE  Counted(r)
  <2>1. TokensOf(kept) \in Nat
    BY <1>3, TokensOfIs DEF Emits
  <2> QED
    BY <1>3, <2>1 DEF Emits, Counted
<1> QED
  BY <1>2, <1>3 DEF Moves

LEMMA PackedCounts ==
  ASSUME NEW c \in Packers, NEW b \in Block, Counted(c)
  PROVE  Counted(Packed(c, b))
<1> DEFINE r == Room(c, b)
<1>1. r \in Packers /\ Counted(r)
  BY RoomIs, RoomMoves, MovesCount
<1> HIDE DEF r
<1>2. r.current \in Seq(Block) /\ r.tokens \in Nat /\ TokensOf(r.current) \in Nat /\ b.tokens \in Nat
  BY <1>1, PackerIs, TokensOfIs, BlockIs
<1>3. TokensOf(Append(r.current, b)) = TokensOf(r.current) + b.tokens
  BY <1>2, TokensAppend
<1>4. /\ Packed(c, b).current = Append(r.current, b)
      /\ Packed(c, b).tokens = r.tokens + b.tokens + Separator(c) /\ Separator(c) \in {0, 1}
  BY PackedIs DEF r
<1> QED
  BY <1>1, <1>2, <1>3, <1>4 DEF Counted

LEMMA MovesWithin ==
  ASSUME NEW c \in Packers, NEW r, Moves(c, r), AllWithin(c)
  PROVE  AllWithin(r)
<1>1. CASE KeepsAll(c, r)
  BY <1>1 DEF KeepsAll, AllWithin
<1>2. ASSUME NEW pre, NEW kept, Emits(c, r, pre, kept)
      PROVE  AllWithin(r)
  <2> DEFINE e == Chunk([c EXCEPT !.current = pre], Content(pre))
             n == Len(c.chunks)
  <2>1. r.chunks = Append(c.chunks, e) /\ e \in ChunkRecords /\ c.chunks \in Seq(ChunkRecords)
    BY <1>2, PackerIs DEF Emits
  <2>2. e.blocks = pre
    BY DEF Chunk, Packers
  <2> HIDE DEF e
  <2>3. /\ Len(r.chunks) = n + 1 /\ r.chunks[n + 1] = e /\ n \in Nat
        /\ \A i \in 1 .. n : r.chunks[i] = c.chunks[i]
    BY <2>1, AppendIs, SeqIs
  <2> HIDE DEF n
  <2>4. WithinBudget(pre)
    BY <1>2 DEF Emits, AllWithin, WithinBudget
  <2>5. WithinBudget(kept)
    <3>1. Content(kept) = <<>> /\ TokensOf(<<>>) = 0 /\ budget \in Nat
      BY <1>2, TokensEmpty, BudgetIs DEF Emits
    <3> QED
      BY <3>1 DEF WithinBudget
  <2>6. ASSUME NEW i \in 1 .. n + 1
        PROVE  WithinBudget(r.chunks[i].blocks)
    <3>1. i \in 1 .. n \/ i = n + 1
      BY <2>3
    <3>2. CASE i \in 1 .. n
      BY <2>3, <3>2 DEF AllWithin, n
    <3>3. CASE i = n + 1
      BY <2>2, <2>3, <2>4, <3>3
    <3> QED
      BY <3>1, <3>2, <3>3
  <2>7. r.current = kept
    BY <1>2 DEF Emits
  <2> QED
    BY <2>3, <2>5, <2>6, <2>7 DEF AllWithin
<1> QED
  BY <1>1, <1>2 DEF Moves

LEMMA PackedWithin ==
  ASSUME NEW c \in Packers, NEW b \in Block, Counted(c), AllWithin(c),
         b.tokens > budget => b.kind = "table"
  PROVE  AllWithin(Packed(c, b))
<1> DEFINE r == Room(c, b)
           d == Packed(c, b)
<1>1. r \in Packers /\ AllWithin(r) /\ Counted(r)
  BY RoomIs, RoomMoves, MovesWithin, MovesCount
<1>2. d.chunks = r.chunks /\ d.current = Append(r.current, b)
  BY PackedIs
<1>3. Moves(c, r) \/ (r = c /\ ~Full(c, b))
  BY RoomMoves
<1> HIDE DEF r, d
<1>4. /\ r.current \in Seq(Block) /\ Content(r.current) \in Seq(Block)
      /\ r.tokens \in Nat /\ b.tokens \in Nat /\ budget \in Nat
  BY <1>1, PackerIs, ContentIsSeq, BlockIs, BudgetIs
<1>5. WithinBudget(d.current)
  <2>1. Content(d.current) = IF IsContent(b) THEN Append(Content(r.current), b) ELSE Content(r.current)
    BY <1>2, <1>4, ContentAppend
  <2>2. CASE ~IsContent(b)
    <3>1. Content(d.current) = Content(r.current)
      BY <2>1, <2>2
    <3> QED
      BY <1>1, <3>1 DEF AllWithin, WithinBudget
  <2>3. CASE IsContent(b) /\ Content(r.current) = <<>>
    <3>1. Content(d.current) = Append(<<>>, b) /\ <<>> \in Seq(Block)
      BY <2>1, <2>3
    <3>2. TokensOf(Append(<<>>, b)) = b.tokens
      <4>1. TokensOf(Append(<<>>, b)) = TokensOf(<<>>) + b.tokens
        BY <3>1, TokensAppend
      <4> QED
        BY <1>4, <4>1, TokensEmpty
    <3>3. Len(Append(<<>>, b)) = 1 /\ Head(Append(<<>>, b)) = b
      OBVIOUS
    <3> QED
      BY <1>4, <3>1, <3>2, <3>3 DEF WithinBudget
  <2>4. CASE IsContent(b) /\ Content(r.current) # <<>>
    <3>1. r = c /\ ~Full(c, b)
      BY <1>3, <2>4, MovesIs
    <3>2. r.current # <<>>
      BY <2>4, ContentEmpty
    <3>3. r.tokens + b.tokens + Separator(c) <= budget /\ Separator(c) \in {0, 1}
      BY <1>4, <3>1, <3>2 DEF Full, Separator
    <3>4. TokensOf(Append(Content(r.current), b)) = TokensOf(Content(r.current)) + b.tokens
      BY <1>4, TokensAppend
    <3>5. TokensOf(Content(r.current)) <= TokensOf(r.current)
      BY <1>4, ContentIsWithin
    <3>6. TokensOf(Content(r.current)) \in Nat /\ TokensOf(r.current) \in Nat
      BY <1>4, TokensOfIs
    <3>7. TokensOf(Content(d.current)) <= budget
      BY <1>1, <1>4, <2>1, <2>4, <3>3, <3>4, <3>5, <3>6 DEF Counted
    <3> QED
      BY <3>7 DEF WithinBudget
  <2> QED
    BY <2>2, <2>3, <2>4
<1>6. \A i \in 1 .. Len(d.chunks) : WithinBudget(d.chunks[i].blocks)
  BY <1>1, <1>2 DEF AllWithin
<1> QED
  BY <1>5, <1>6 DEF AllWithin, d

(***************************************************************************)
(* Chunks and what is not packed yet, one after the other                  *)
(***************************************************************************)
BlocksOf(chunks) == [i \in DOMAIN chunks |-> chunks[i].blocks]

HeldBlocks(c) == FlattenSeq(BlocksOf(c.chunks)) \o c.current

LEMMA BlocksOfIs ==
  ASSUME NEW cs \in Seq(ChunkRecords)
  PROVE  /\ BlocksOf(cs) \in Seq(Seq(Block)) /\ Len(BlocksOf(cs)) = Len(cs)
         /\ \A i \in 1 .. Len(cs) : BlocksOf(cs)[i] = cs[i].blocks
         /\ FlattenSeq(BlocksOf(cs)) \in Seq(Block)
<1> DEFINE n == Len(cs)
           S == Seq(Block)
<1>1. n \in Nat /\ DOMAIN cs = 1 .. n /\ \A i \in 1 .. n : cs[i] \in ChunkRecords
  BY SeqIs
<1>2. n \in Nat /\ DOMAIN cs = 1 .. n /\ \A i \in 1 .. n : cs[i].blocks \in S
  BY <1>1 DEF ChunkRecords
<1>3. \A i \in 1 .. n : BlocksOf(cs)[i] = cs[i].blocks
  BY <1>2 DEF BlocksOf
<1> HIDE DEF S
<1>4. BlocksOf(cs) \in [1 .. n -> S]
  BY <1>2 DEF BlocksOf
<1> HIDE DEF n
<1>5. BlocksOf(cs) \in Seq(S) /\ Len(BlocksOf(cs)) = n
  BY <1>2, <1>4, SeqFrom
<1> USE DEF S
<1>6. FlattenSeq(BlocksOf(cs)) \in Seq(Block)
  BY <1>5, FlattenIsSeq
<1> QED
  BY <1>3, <1>5, <1>6 DEF n

LEMMA BlocksAppend ==
  ASSUME NEW cs \in Seq(ChunkRecords), NEW e \in ChunkRecords
  PROVE  FlattenSeq(BlocksOf(Append(cs, e))) = FlattenSeq(BlocksOf(cs)) \o e.blocks
<1> DEFINE r == Append(cs, e)
           n == Len(cs)
           S == Seq(Block)
           o == BlocksOf(cs)
           p == Append(o, e.blocks)
<1>1. r \in Seq(ChunkRecords) /\ Len(r) = n + 1 /\ r[n + 1] = e /\ \A i \in 1 .. n : r[i] = cs[i]
  BY AppendIs
<1>2. n \in Nat /\ e.blocks \in S
  BY DEF ChunkRecords
<1>3. o \in Seq(S) /\ Len(o) = n /\ \A i \in 1 .. n : o[i] = cs[i].blocks
  BY BlocksOfIs
<1> HIDE DEF r
<1>4. BlocksOf(r) \in Seq(S) /\ Len(BlocksOf(r)) = n + 1 /\ \A i \in 1 .. n + 1 : BlocksOf(r)[i] = r[i].blocks
  BY <1>1, BlocksOfIs
<1> HIDE DEF S, o, n
<1>5. p \in Seq(S) /\ Len(p) = n + 1 /\ p[n + 1] = e.blocks /\ \A i \in 1 .. n : p[i] = o[i]
  BY <1>2, <1>3, AppendIs
<1> HIDE DEF p
<1>6. ASSUME NEW i \in 1 .. n + 1
      PROVE  BlocksOf(r)[i] = p[i]
  <2>1. i \in 1 .. n \/ i = n + 1
    BY <1>2
  <2>2. CASE i \in 1 .. n
    BY <1>1, <1>3, <1>4, <1>5, <2>2
  <2>3. CASE i = n + 1
    BY <1>1, <1>4, <1>5, <2>3
  <2> QED
    BY <2>1, <2>2, <2>3
<1>7. BlocksOf(r) = p
  BY <1>4, <1>5, <1>6, SeqEqual
<1>8. FlattenSeq(Append(o, e.blocks)) = FlattenSeq(o) \o e.blocks
  BY <1>2, <1>3, FlattenAppend DEF S
<1> QED
  BY <1>7, <1>8 DEF r, p, o

LEMMA MovesHold ==
  ASSUME NEW c \in Packers, NEW r, Moves(c, r)
  PROVE  HeldBlocks(r) = HeldBlocks(c)
<1>1. CASE KeepsAll(c, r)
  BY <1>1 DEF KeepsAll, HeldBlocks
<1>2. ASSUME NEW pre, NEW kept, Emits(c, r, pre, kept)
      PROVE  HeldBlocks(r) = HeldBlocks(c)
  <2> DEFINE e == Chunk([c EXCEPT !.current = pre], Content(pre))
             f == FlattenSeq(BlocksOf(c.chunks))
  <2>1. /\ r.chunks = Append(c.chunks, e) /\ e \in ChunkRecords /\ c.chunks \in Seq(ChunkRecords)
        /\ pre \in Seq(Block) /\ kept \in Seq(Block) /\ pre \o kept = c.current /\ r.current = kept
    BY <1>2, PackerIs DEF Emits
  <2>2. e.blocks = pre
    BY DEF Chunk, Packers
  <2> HIDE DEF e
  <2>3. FlattenSeq(BlocksOf(r.chunks)) = f \o pre
    BY <2>1, <2>2, BlocksAppend
  <2>4. f \in Seq(Block)
    BY <2>1, BlocksOfIs
  <2> HIDE DEF f
  <2>5. f \in Seq(Block) /\ pre \in Seq(Block) /\ kept \in Seq(Block)
    BY <2>1, <2>4
  <2>6. (f \o pre) \o kept = f \o (pre \o kept)
    BY <2>5, ConcatAssociates
  <2> QED
    BY <2>1, <2>3, <2>6 DEF HeldBlocks, f
<1> QED
  BY <1>1, <1>2 DEF Moves

LEMMA HeldIs ==
  ASSUME NEW c \in Packers
  PROVE  HeldBlocks(c) \in Seq(Block)
<1>1. c.chunks \in Seq(ChunkRecords) /\ c.current \in Seq(Block)
  BY PackerIs
<1>2. FlattenSeq(BlocksOf(c.chunks)) \in Seq(Block)
  BY <1>1, BlocksOfIs
<1> QED
  BY <1>1, <1>2, ConcatIs DEF HeldBlocks

LEMMA PackedHolds ==
  ASSUME NEW c \in Packers, NEW b \in Block
  PROVE  HeldBlocks(Packed(c, b)) = Append(HeldBlocks(c), b)
<1> DEFINE r == Room(c, b)
           f == FlattenSeq(BlocksOf(r.chunks))
<1>1. r \in Packers /\ HeldBlocks(r) = HeldBlocks(c)
  BY RoomIs, RoomMoves, MovesHold
<1>2. Packed(c, b).chunks = r.chunks /\ Packed(c, b).current = Append(r.current, b)
  BY PackedIs
<1> HIDE DEF r
<1>3. r.current \in Seq(Block) /\ r.chunks \in Seq(ChunkRecords)
  BY <1>1, PackerIs
<1>4. f \in Seq(Block)
  BY <1>3, BlocksOfIs
<1>5. HeldBlocks(Packed(c, b)) = f \o Append(r.current, b)
  BY <1>2 DEF HeldBlocks
<1>6. HeldBlocks(r) = f \o r.current
  BY DEF HeldBlocks
<1> HIDE DEF f
<1>7. f \o Append(r.current, b) = Append(f \o r.current, b)
  <2> DEFINE q == r.current
  <2>1. q \in Seq(Block)
    BY <1>3
  <2> HIDE DEF q
  <2>2. f \o Append(q, b) = Append(f \o q, b)
    BY <1>4, <2>1, AppendConcat
  <2> QED
    BY <2>2 DEF q
<1> QED
  BY <1>1, <1>5, <1>6, <1>7

(***************************************************************************)
(* The parts of a block                                                    *)
(***************************************************************************)
PartsOf(s, position, stack, place, ps) ==
  /\ ps \in Seq(Block) /\ ps # <<>>
  /\ \A k \in 1 .. Len(ps) :
       /\ ps[k].id = <<position, k>> /\ ps[k].path = stack /\ ps[k].kind = s.kind
       /\ ps[k].page = place.page /\ ps[k].origin = place.origin
       /\ ps[k].tokens > budget => ps[k].kind = "table" /\ Len(ps[k].units) = 1
  /\ LET cuts == FlattenSeq([k \in DOMAIN ps |-> ps[k].units]) IN
     /\ s.kind = "table" => cuts = s.units
     /\ Total(cuts) = Total(s.units)

LEMMA PartsAre ==
  ASSUME NEW s \in Readable, NEW position \in Nat, NEW stack \in Seq(Heads), NEW place \in Places
  PROVE  PartsOf(s, position, stack, place, Parts(s, position, stack, place))
<1> DEFINE split == SplitUnits(s)
           n     == Len(split)
           S     == Seq(Nat)
           ps    == Parts(s, position, stack, place)
<1>1. SplitsInto(s, split)
  BY SplitKeeps
<1>2. split \in Seq(S) /\ split # <<>>
  BY <1>1 DEF SplitsInto
<1>3. s.kind \in Kinds /\ s.header \in Nat /\ place.page \in Nat /\ place.origin \in SUBSET Nat
  BY DEF Readable, Places
<1> HIDE DEF S
<1>4. n \in Nat /\ DOMAIN split = 1 .. n /\ n # 0 /\ \A k \in 1 .. n : split[k] \in S
  BY <1>2, SeqIs
<1>5. ps = [k \in 1 .. n |-> [id |-> <<position, k>>, kind |-> s.kind, units |-> split[k],
                             tokens |-> s.header + Total(split[k]), path |-> stack,
                             page |-> place.page, origin |-> place.origin]]
  BY <1>4 DEF Parts
<1>6. \A k \in 1 .. n : s.header + Total(split[k]) <= budget \/ (s.kind = "table" /\ Len(split[k]) = 1)
  BY <1>1 DEF SplitsInto
<1>7. /\ s.kind = "table" => FlattenSeq(split) = s.units
      /\ Total(FlattenSeq(split)) = Total(s.units)
  BY <1>1 DEF SplitsInto
<1> HIDE DEF split, n
<1>8. ASSUME NEW k \in 1 .. n
      PROVE  /\ ps[k] \in Block
             /\ ps[k].id = <<position, k>> /\ ps[k].path = stack /\ ps[k].kind = s.kind
             /\ ps[k].page = place.page /\ ps[k].origin = place.origin
             /\ ps[k].units = split[k]
             /\ ps[k].tokens > budget => ps[k].kind = "table" /\ Len(ps[k].units) = 1
  <2>1. ps[k] = [id |-> <<position, k>>, kind |-> s.kind, units |-> split[k],
                 tokens |-> s.header + Total(split[k]), path |-> stack,
                 page |-> place.page, origin |-> place.origin]
    BY <1>5
  <2>2. split[k] \in Seq(Nat) /\ Total(split[k]) \in Nat
    BY <1>4, TotalIsNat DEF S
  <2>3. s.header + Total(split[k]) \in Nat /\ budget \in Nat /\ k \in Nat
    BY <1>3, <1>4, <2>2, BudgetIs
  <2>4. ps[k] \in Block
    BY <1>3, <2>1, <2>2, <2>3 DEF Block
  <2>5. s.header + Total(split[k]) > budget => s.kind = "table" /\ Len(split[k]) = 1
    BY <1>6, <2>3
  <2> QED
    BY <2>1, <2>4, <2>5
<1>9. ps \in Seq(Block) /\ Len(ps) = n
  <2>1. ps \in [1 .. n -> Block]
    BY <1>5, <1>8
  <2> HIDE DEF ps
  <2> QED
    BY <1>4, <2>1, SeqFrom
<1>10. DOMAIN ps = 1 .. n
  BY <1>5
<1>11. [k \in DOMAIN ps |-> ps[k].units] = split
  <2> DEFINE f == [k \in 1 .. n |-> ps[k].units]
  <2>1. f \in [1 .. n -> S] /\ \A k \in 1 .. n : f[k] = split[k]
    BY <1>4, <1>8
  <2> HIDE DEF f
  <2>2. f \in Seq(S) /\ Len(f) = n
    BY <1>4, <2>1, SeqFrom
  <2>3. f = split
    BY <1>2, <2>1, <2>2, SeqEqual DEF n
  <2> QED
    BY <1>10, <2>3 DEF f
<1> HIDE DEF ps
<1>12. ps # <<>>
  BY <1>4, <1>9, SeqIs
<1> QED
  BY <1>7, <1>8, <1>9, <1>11, <1>12 DEF PartsOf, ps

(***************************************************************************)
(* Headings and sections                                                   *)
(***************************************************************************)
\* Where the outermost heading of a path stands in the document.
Rank(path) == IF path = <<>> THEN 0 ELSE path[1].at

FromDocument(head, doc) ==
  /\ head.at \in 1 .. Len(doc) /\ doc[head.at].kind = "heading"
  /\ head.level = doc[head.at].level /\ head.title = doc[head.at].title

Rooted(path, doc) == path # <<>> => FromDocument(path[1], doc)

Ranked(path, doc) ==
  /\ \A k \in 1 .. Len(path) : FromDocument(path[k], doc)
  /\ \A j, k \in 1 .. Len(path) : j < k => path[j].at < path[k].at

LEMMA TopIs ==
  ASSUME NEW p \in Seq(Heads)
  PROVE  Top(p) = IF p = <<>> THEN <<>> ELSE <<p[1]>>
<1>1. Len(p) \in Nat /\ (p = <<>> <=> Len(p) = 0)
  BY SeqIs
<1>2. Min({1, Len(p)}) = IF 1 <= Len(p) THEN 1 ELSE Len(p)
  BY <1>1, MinOfTwo
<1>3. CASE p = <<>>
  <2>1. Top(p) = SubSeq(p, 1, 0)
    BY <1>1, <1>2, <1>3 DEF Top
  <2> QED
    BY <1>3, <2>1
<1>4. CASE p # <<>>
  <2>1. Top(p) = SubSeq(p, 1, 1)
    BY <1>1, <1>2, <1>4 DEF Top
  <2>2. 1 \in 1 .. Len(p) /\ p[1] \in Heads
    BY <1>1, <1>4, SeqIs
  <2> DEFINE x == p[1]
             f == SubSeq(p, 1, 1)
  <2>3. x \in Heads
    BY <2>2
  <2>4. f \in Seq(Heads) /\ Len(f) = 1 /\ f[1] = x
    <3>1. /\ f \in Seq(Heads) /\ Len(f) = 1
          /\ \A i \in 1 .. 1 : f[i] = p[1 + i - 1]
      BY <1>1, <2>2, SubSeqIs
    <3> QED
      BY <3>1
  <2> HIDE DEF f, x
  <2>5. <<x>> \in Seq(Heads) /\ Len(<<x>>) = 1 /\ <<x>>[1] = x
    BY <2>3
  <2>6. \A i \in 1 .. 1 : f[i] = <<x>>[i]
    BY <2>4, <2>5
  <2>7. f = <<x>>
    BY <2>4, <2>5, <2>6, SeqEqual
  <2> QED
    BY <1>4, <2>1, <2>7 DEF f, x
<1> QED
  BY <1>3, <1>4

LEMMA RankIs ==
  ASSUME NEW p \in Seq(Heads)
  PROVE  Rank(p) \in Nat /\ (p # <<>> => p[1] \in Heads /\ 1 \in 1 .. Len(p))
<1>1. p # <<>> => p[1] \in Heads /\ 1 \in 1 .. Len(p)
  BY SeqIs
<1> QED
  BY <1>1 DEF Rank, Heads

\* Two sections with the same top-level heading, and the other way round.
LEMMA SameTop ==
  ASSUME NEW doc, NEW p \in Seq(Heads), NEW q \in Seq(Heads), Rooted(p, doc), Rooted(q, doc), Len(doc) \in Nat
  PROVE  Rank(p) = Rank(q) <=> Top(p) = Top(q)
<1>1. Top(p) = (IF p = <<>> THEN <<>> ELSE <<p[1]>>) /\ Top(q) = IF q = <<>> THEN <<>> ELSE <<q[1]>>
  BY TopIs
<1>2. p # <<>> => p[1] \in Heads /\ p[1].at > 0 /\ p[1].level = doc[p[1].at].level /\ p[1].title = doc[p[1].at].title
  BY RankIs DEF Rooted, FromDocument
<1>3. q # <<>> => q[1] \in Heads /\ q[1].at > 0 /\ q[1].level = doc[q[1].at].level /\ q[1].title = doc[q[1].at].title
  BY RankIs DEF Rooted, FromDocument
<1>4. CASE p = <<>> \/ q = <<>>
  <2>1. \A x : <<x>> # <<>>
    OBVIOUS
  <2>2. CASE p = <<>> /\ q = <<>>
    BY <2>2
  <2>3. CASE p = <<>> /\ q # <<>>
    <3>1. Rank(p) = 0 /\ Rank(q) # 0
      BY <1>3, <2>3 DEF Rank
    <3>2. Top(p) # Top(q)
      BY <1>1, <2>1, <2>3
    <3> QED
      BY <3>1, <3>2
  <2>4. CASE p # <<>> /\ q = <<>>
    <3>1. Rank(q) = 0 /\ Rank(p) # 0
      BY <1>2, <2>4 DEF Rank
    <3>2. Top(p) # Top(q)
      BY <1>1, <2>1, <2>4
    <3> QED
      BY <3>1, <3>2
  <2> QED
    BY <1>4, <2>2, <2>3, <2>4
<1>5. CASE p # <<>> /\ q # <<>>
  <2>1. Top(p) = <<p[1]>> /\ Top(q) = <<q[1]>> /\ Rank(p) = p[1].at /\ Rank(q) = q[1].at
    BY <1>1, <1>5 DEF Rank
  <2> DEFINE x == p[1]
             y == q[1]
  <2>2. x \in Heads /\ y \in Heads /\ (x.at = y.at => x.level = y.level /\ x.title = y.title)
    BY <1>2, <1>3, <1>5
  <2> HIDE DEF x, y
  <2>3. x.at = y.at => x = y
    BY <2>2 DEF Heads
  <2>4. <<x>> = <<y>> => x = y
    <3>1. <<x>>[1] = x /\ <<y>>[1] = y
      OBVIOUS
    <3> QED
      BY <3>1
  <2> QED
    BY <2>1, <2>3, <2>4 DEF x, y
<1> QED
  BY <1>4, <1>5

LEMMA RootedGrows ==
  ASSUME NEW doc \in Seq(Readable), NEW s \in Readable, NEW p \in Seq(Heads), Rooted(p, doc)
  PROVE  Rooted(p, Append(doc, s))
<1>1. Len(Append(doc, s)) = Len(doc) + 1 /\ \A i \in 1 .. Len(doc) : Append(doc, s)[i] = doc[i]
  BY AppendIs
<1>2. Len(doc) \in Nat
  BY SeqIs
<1> QED
  BY <1>1, <1>2 DEF Rooted, FromDocument

LEMMA RankedIsRooted ==
  ASSUME NEW doc, NEW p \in Seq(Heads), Ranked(p, doc)
  PROVE  Rooted(p, doc)
BY RankIs DEF Ranked, Rooted

\* A heading closes those of its level and below: what stays open was open
\* before, so that the section never goes back in the document.
LEMMA StackAdvances ==
  ASSUME NEW doc \in Seq(Readable), NEW s \in Readable, NEW hs \in Seq(Heads), Ranked(hs, doc), NEW K,
         s.kind = "heading"
  PROVE  LET head  == [level |-> s.level, title |-> s.title, at |-> Len(doc) + 1]
             stack == Append(Picked(hs, K), head)
         IN stack \in Seq(Heads) /\ Ranked(stack, Append(doc, s)) /\ Rank(hs) <= Rank(stack)
<1> DEFINE n     == Len(doc) + 1
           new   == Append(doc, s)
           head  == [level |-> s.level, title |-> s.title, at |-> n]
           kept  == Picked(hs, K)
           m     == Len(kept)
           stack == Append(kept, head)
<1>1. Len(new) = n /\ new[n] = s /\ n \in Nat /\ n > 0 /\ \A i \in 1 .. n - 1 : new[i] = doc[i]
  <2>1. Len(doc) \in Nat /\ n - 1 = Len(doc)
    BY SeqIs
  <2>2. Len(new) = Len(doc) + 1 /\ new[Len(doc) + 1] = s /\ \A i \in 1 .. Len(doc) : new[i] = doc[i]
    BY AppendIs
  <2> QED
    BY <2>1, <2>2
<1>2. head \in Heads /\ head.at = n /\ head.level = s.level /\ head.title = s.title
  BY <1>1 DEF Heads, Readable
<1>3. kept \in Seq(Heads) /\ m \in Nat
  BY PickedIsSeq, SeqIs
<1>4. PICK at \in [1 .. m -> {i \in 1 .. Len(hs) : i \in K}] :
        /\ \A k \in 1 .. m : kept[k] = hs[at[k]]
        /\ \A j, k \in 1 .. m : j < k => at[j] < at[k]
  BY PickedPositions
<1>5. \A k \in 1 .. Len(hs) : FromDocument(hs[k], doc) /\ hs[k].at \in 1 .. n - 1 /\ hs[k] \in Heads
  BY <1>1, SeqIs DEF Ranked, FromDocument
<1>6. \A j, k \in 1 .. Len(hs) : j < k => hs[j].at < hs[k].at
  BY DEF Ranked
<1> HIDE DEF head, kept, m, new, n
<1>7. /\ stack \in Seq(Heads) /\ Len(stack) = m + 1 /\ stack[m + 1] = head
      /\ \A k \in 1 .. m : stack[k] = kept[k]
  BY <1>2, <1>3, AppendIs DEF m
<1> HIDE DEF stack
<1>8. \A k \in 1 .. m : at[k] \in 1 .. Len(hs) /\ stack[k] = hs[at[k]]
  BY <1>4, <1>7
<1>9. ASSUME NEW k \in 1 .. m + 1
      PROVE  FromDocument(stack[k], new)
  <2>1. k \in 1 .. m \/ k = m + 1
    BY <1>3
  <2>2. CASE k \in 1 .. m
    <3>1. /\ stack[k].at \in 1 .. n - 1 /\ doc[stack[k].at].kind = "heading"
          /\ stack[k].level = doc[stack[k].at].level /\ stack[k].title = doc[stack[k].at].title
      BY <1>5, <1>8, <2>2 DEF FromDocument
    <3>2. stack[k].at \in 1 .. n
      BY <1>1, <3>1
    <3> QED
      BY <1>1, <3>1, <3>2 DEF FromDocument
  <2>3. CASE k = m + 1
    BY <1>1, <1>2, <1>7, <2>3 DEF FromDocument
  <2> QED
    BY <2>1, <2>2, <2>3
<1>10. ASSUME NEW j \in 1 .. m + 1, NEW k \in 1 .. m + 1, j < k
       PROVE  stack[j].at < stack[k].at
  <2>1. j \in 1 .. m
    BY <1>3, <1>10
  <2>2. k \in 1 .. m \/ k = m + 1
    BY <1>3
  <2>3. CASE k \in 1 .. m
    BY <1>4, <1>6, <1>8, <1>10, <2>1, <2>3
  <2>4. CASE k = m + 1
    BY <1>1, <1>2, <1>5, <1>7, <1>8, <2>1, <2>4
  <2> QED
    BY <2>2, <2>3, <2>4
<1>11. Rank(hs) <= Rank(stack)
  <2>1. stack # <<>> /\ Rank(stack) = stack[1].at
    BY <1>3, <1>7, SeqIs DEF Rank
  <2>2. CASE m = 0
    <3>1. Rank(stack) = n
      BY <1>2, <1>7, <2>1, <2>2
    <3>2. Rank(hs) < n
      BY <1>1, <1>5, RankIs DEF Rank
    <3> QED
      BY <1>1, <3>1, <3>2, RankIs
  <2>3. CASE m > 0
    <3>1. 1 \in 1 .. m
      BY <1>3, <2>3
    <3>2. at[1] \in 1 .. Len(hs) /\ Rank(stack) = hs[at[1]].at
      BY <1>8, <2>1, <3>1
    <3>3. 1 \in 1 .. Len(hs) /\ hs # <<>> /\ Rank(hs) = hs[1].at
      BY <3>2, SeqIs DEF Rank
    <3>4. hs[1].at \in Nat /\ hs[at[1]].at \in Nat
      BY <1>5, <3>2, <3>3 DEF Heads
    <3>5. at[1] = 1 \/ 1 < at[1]
      BY <3>2
    <3> QED
      BY <1>6, <3>2, <3>3, <3>4, <3>5
  <2> QED
    BY <1>3, <2>2, <2>3
<1>12. Ranked(stack, new)
  BY <1>7, <1>9, <1>10 DEF Ranked
<1> QED
  BY <1>7, <1>11, <1>12 DEF stack, head, kept, new, n

(***************************************************************************)
(* The parts follow one another in the order of the document               *)
(***************************************************************************)
Follows(b, d) ==
  \/ b.id[1] = d.id[1] /\ b.id[2] + 1 = d.id[2]
  \/ b.id[1] + 1 = d.id[1] /\ d.id[2] = 1

\* The blocks bs are those of a document of n blocks, all of them and in order.
Covers(bs, n) ==
  /\ \A i \in 1 .. Len(bs) - 1 : Follows(bs[i], bs[i + 1])
  /\ n = 0 => bs = <<>>
  /\ n > 0 => bs # <<>> /\ bs[1].id = <<1, 1>> /\ bs[Len(bs)].id[1] = n

LEMMA CoversMore ==
  ASSUME NEW n \in Nat, NEW bs \in Seq(Block), Covers(bs, n), NEW ps \in Seq(Block), ps # <<>>,
         \A k \in 1 .. Len(ps) : ps[k].id = <<n + 1, k>>
  PROVE  Covers(bs \o ps, n + 1)
<1> DEFINE all == bs \o ps
           m == Len(bs)
           l == Len(ps)
<1>1. /\ Len(all) = m + l /\ m \in Nat /\ l \in Nat /\ l > 0 /\ all \in Seq(Block)
      /\ \A i \in 1 .. m : all[i] = bs[i]
      /\ \A i \in 1 .. l : all[m + i] = ps[i]
  BY ConcatIs, SeqIs
<1>2. bs = <<>> <=> m = 0
  BY SeqIs
<1>3. \A k \in 1 .. l : ps[k].id[1] = n + 1 /\ ps[k].id[2] = k
  OBVIOUS
<1>4. /\ \A i \in 1 .. m - 1 : Follows(bs[i], bs[i + 1])
      /\ n = 0 => m = 0
      /\ n > 0 => m > 0 /\ bs[1].id = <<1, 1>> /\ bs[m].id[1] = n
  BY <1>1, <1>2 DEF Covers
<1>5. ps[1].id = <<n + 1, 1>> /\ 1 \in 1 .. l /\ l \in 1 .. l
  BY <1>1
<1> HIDE DEF all, m, l
<1>6. ASSUME NEW i \in 1 .. m + l - 1
      PROVE  Follows(all[i], all[i + 1])
  <2>1. i < m \/ i = m \/ i > m
    BY <1>1
  <2>2. CASE i < m
    <3>1. i \in 1 .. m - 1 /\ i \in 1 .. m /\ i + 1 \in 1 .. m
      BY <1>1, <2>2
    <3> QED
      BY <1>1, <1>4, <3>1
  <2>3. CASE i = m
    <3>1. all[i] = bs[m] /\ all[i + 1] = ps[1]
      BY <1>1, <1>5, <2>3
    <3>2. n > 0 /\ bs[m].id[1] = n
      BY <1>1, <1>4, <2>3
    <3> QED
      BY <1>3, <1>5, <3>1, <3>2 DEF Follows
  <2>4. CASE i > m
    <3>1. i - m \in 1 .. l - 1 /\ i - m \in 1 .. l /\ i - m + 1 \in 1 .. l
      BY <1>1, <2>4
    <3> DEFINE k == i - m
    <3>2. k \in 1 .. l /\ k + 1 \in 1 .. l /\ m + k = i /\ m + (k + 1) = i + 1
      BY <1>1, <3>1
    <3> HIDE DEF k
    <3>3. all[i] = ps[k] /\ all[i + 1] = ps[k + 1]
      BY <1>1, <3>2
    <3> QED
      BY <1>3, <3>2, <3>3 DEF Follows
  <2> QED
    BY <2>1, <2>2, <2>3, <2>4
<1>7. all # <<>> /\ n + 1 > 0
  BY <1>1, SeqIs
<1>8. all[1].id = <<1, 1>>
  <2>1. CASE n = 0
    <3>1. m = 0 /\ all[m + 1] = ps[1]
      BY <1>1, <1>4, <1>5, <2>1
    <3> QED
      BY <1>5, <2>1, <3>1
  <2>2. CASE n > 0
    <3>1. 1 \in 1 .. m
      BY <1>1, <1>4, <2>2
    <3> QED
      BY <1>1, <1>4, <2>2, <3>1
  <2> QED
    BY <2>1, <2>2
<1>9. all[m + l].id[1] = n + 1
  BY <1>1, <1>3, <1>5
<1>10. n + 1 # 0 /\ Len(all) - 1 = m + l - 1
  BY <1>1
<1>11. Covers(all, n + 1)
  BY <1>1, <1>6, <1>7, <1>8, <1>9, <1>10 DEF Covers
<1> QED
  BY <1>11 DEF all

LEMMA OneMore ==
  ASSUME NEW S, NEW s \in Seq(S), NEW t \in Seq(S), t # <<>>
  PROVE  Append(s, Head(t)) \o Tail(t) = s \o t
<1> DEFINE e == Head(t)
           u == Tail(t)
           a == Append(s, e)
           m == Len(s)
           n == Len(t)
<1>1. e \in S /\ e = t[1] /\ n \in Nat /\ n > 0 /\ u \in Seq(S) /\ Len(u) = n - 1
  BY TailIs
<1>2. \A i \in 1 .. n - 1 : u[i] = t[i + 1]
  BY TailIs
<1> HIDE DEF e, u
<1>3. a \in Seq(S) /\ Len(a) = m + 1 /\ a[m + 1] = e /\ (\A i \in 1 .. m : a[i] = s[i]) /\ m \in Nat
  BY <1>1, AppendIs, SeqIs
<1> HIDE DEF a, m, n
<1>4. /\ a \o u \in Seq(S) /\ Len(a \o u) = m + 1 + (n - 1)
      /\ \A i \in 1 .. m + 1 : (a \o u)[i] = a[i]
      /\ \A i \in 1 .. n - 1 : (a \o u)[m + 1 + i] = u[i]
  <2>1. /\ a \o u \in Seq(S) /\ Len(a \o u) = Len(a) + Len(u)
        /\ \A i \in 1 .. Len(a) : (a \o u)[i] = a[i]
        /\ \A i \in 1 .. Len(u) : (a \o u)[Len(a) + i] = u[i]
    <3>1. a \in Seq(S) /\ u \in Seq(S)
      BY <1>1, <1>3
    <3> QED
      BY ONLY <3>1, ConcatIs
  <2>2. Len(a) = m + 1 /\ Len(u) = n - 1
    BY <1>1, <1>3
  <2> QED
    BY <2>1, <2>2
<1>5. /\ s \o t \in Seq(S) /\ Len(s \o t) = m + n
      /\ \A i \in 1 .. m : (s \o t)[i] = s[i]
      /\ \A i \in 1 .. n : (s \o t)[m + i] = t[i]
  BY ConcatIs DEF m, n
<1> DEFINE f == a \o u
           g == s \o t
<1> HIDE DEF f, g
<1>6. ASSUME NEW i \in 1 .. m + n
      PROVE  f[i] = g[i]
  <2>1. i \in 1 .. m \/ i = m + 1 \/ (i > m + 1 /\ i <= m + n)
    BY <1>1, <1>3
  <2>2. CASE i \in 1 .. m
    BY <1>3, <1>4, <1>5, <2>2 DEF f, g
  <2>3. CASE i = m + 1
    <3>1. 1 \in 1 .. n /\ m + 1 \in 1 .. m + 1
      BY <1>1, <1>3
    <3> QED
      BY <1>1, <1>3, <1>4, <1>5, <2>3, <3>1 DEF f, g
  <2>4. CASE i > m + 1 /\ i <= m + n
    <3> DEFINE k == i - (m + 1)
    <3>1. k \in 1 .. n - 1 /\ k + 1 \in 1 .. n /\ m + 1 + k = i /\ m + (k + 1) = i
      BY <1>1, <1>3, <2>4
    <3> HIDE DEF k
    <3>2. f[i] = u[k] /\ g[i] = t[k + 1]
      BY <1>4, <1>5, <3>1 DEF f, g
    <3> QED
      BY <1>2, <3>1, <3>2
  <2> QED
    BY <2>1, <2>2, <2>3, <2>4
<1>7. f \in Seq(S) /\ g \in Seq(S) /\ Len(f) = m + n /\ Len(g) = m + n
  BY <1>1, <1>3, <1>4, <1>5 DEF f, g
<1>8. f = g
  BY <1>6, <1>7, SeqEqual
<1> QED
  BY <1>8 DEF f, g, a, e, u

(***************************************************************************)
(* Sections: the blocks of the chunks, then those of current, then the open *)
(* heading go from one top-level heading to the next and never back, so     *)
(* that all between two blocks of one section are in that section.          *)
(***************************************************************************)
SectionOf(b) == Rank(b.path)

Rising(bs, doc) ==
  /\ \A i \in 1 .. Len(bs) : Rooted(bs[i].path, doc)
  /\ \A i, j \in 1 .. Len(bs) : i <= j => SectionOf(bs[i]) <= SectionOf(bs[j])

Upto(bs, r) == \A i \in 1 .. Len(bs) : SectionOf(bs[i]) <= r

\* A chunk has the path of the first of its blocks that is content.
Opens(e) ==
  /\ e.blocks # <<>>
  /\ \E k \in 1 .. Len(e.blocks) :
       e.path = e.blocks[k].path /\ \A j \in 1 .. k - 1 : ~IsContent(e.blocks[j])

\* RepeatedTitle in a document.
Repeated(path, doc) ==
  /\ path # <<>>
  /\ \E i \in DOMAIN doc : i # path[1].at /\ doc[i].kind = "heading" /\ doc[i].title = path[1].title

InOneSection(bs, path) == \A k \in 1 .. Len(bs) : IsContent(bs[k]) => Top(bs[k].path) = Top(path)

InSection(chunks, doc) ==
  \A i \in 1 .. Len(chunks) :
    Repeated(chunks[i].path, doc) \/ InOneSection(chunks[i].prefix, chunks[i].path)

ChunkRises(e, c, doc, top) ==
  /\ Rising(e.blocks, doc) /\ Opens(e) /\ Upto(e.blocks, top)
  /\ \A j \in 1 .. Len(c.current) : Upto(e.blocks, SectionOf(c.current[j]))

Sections(c, doc, top) ==
  /\ Rising(c.current, doc) /\ Upto(c.current, top)
  /\ \A i \in 1 .. Len(c.chunks) : ChunkRises(c.chunks[i], c, doc, top)
  /\ InSection(c.chunks, doc)

LEMMA SectionIs ==
  ASSUME NEW bs \in Seq(Block), NEW i \in 1 .. Len(bs)
  PROVE  bs[i] \in Block /\ SectionOf(bs[i]) \in Nat /\ bs[i].path \in Seq(Heads)
<1>1. bs[i] \in Block
  BY SeqIs
<1>2. bs[i].path \in Seq(Heads)
  BY <1>1, BlockIs
<1> QED
  BY <1>1, <1>2, RankIs DEF SectionOf

\* What rises as a whole rises in its parts.
LEMMA RisingParts ==
  ASSUME NEW bs \in Seq(Block), NEW cs \in Seq(Block), NEW doc, NEW r, Rising(bs \o cs, doc), Upto(bs \o cs, r)
  PROVE  /\ Rising(bs, doc) /\ Rising(cs, doc) /\ Upto(bs, r) /\ Upto(cs, r)
         /\ \A j \in 1 .. Len(cs) : Upto(bs, SectionOf(cs[j]))
<1> DEFINE all == bs \o cs
           m == Len(bs)
           n == Len(cs)
<1>1. /\ m \in Nat /\ n \in Nat /\ Len(all) = m + n
      /\ \A i \in 1 .. m : all[i] = bs[i]
      /\ \A i \in 1 .. n : all[m + i] = cs[i]
  BY ConcatIs, SeqIs
<1>2. /\ \A i \in 1 .. m + n : Rooted(all[i].path, doc) /\ SectionOf(all[i]) <= r
      /\ \A i, j \in 1 .. m + n : i <= j => SectionOf(all[i]) <= SectionOf(all[j])
  BY <1>1 DEF Rising, Upto
<1>3. (\A i \in 1 .. m : i \in 1 .. m + n) /\ \A i \in 1 .. n : m + i \in 1 .. m + n
  BY <1>1
<1> HIDE DEF all, m, n
<1>4. Rising(bs, doc) /\ Upto(bs, r)
  BY <1>1, <1>2, <1>3 DEF Rising, Upto, m
<1>5. Upto(cs, r)
  BY <1>1, <1>2, <1>3 DEF Upto, n
<1>6. Rising(cs, doc)
  <2>1. ASSUME NEW i \in 1 .. n, NEW j \in 1 .. n, i <= j
        PROVE  SectionOf(cs[i]) <= SectionOf(cs[j])
    <3>1. m + i <= m + j /\ m + i \in 1 .. m + n /\ m + j \in 1 .. m + n
      BY <1>1, <1>3, <2>1
    <3> QED
      BY <1>1, <1>2, <3>1
  <2>2. \A i \in 1 .. n : Rooted(cs[i].path, doc)
    BY <1>1, <1>2, <1>3
  <2> QED
    BY <2>1, <2>2 DEF Rising, n
<1>7. ASSUME NEW j \in 1 .. n, NEW i \in 1 .. m
      PROVE  SectionOf(bs[i]) <= SectionOf(cs[j])
  <2>1. i <= m + j /\ i \in 1 .. m + n /\ m + j \in 1 .. m + n
    BY <1>1, <1>3
  <2> QED
    BY <1>1, <1>2, <2>1
<1> QED
  BY <1>4, <1>5, <1>6, <1>7 DEF Upto, m, n

\* Two paths that open with one title open with one heading, or with two of
\* that title.
LEMMA OneTitle ==
  ASSUME NEW doc \in Seq(Readable), NEW p \in Seq(Heads), NEW q \in Seq(Heads),
         Rooted(p, doc), Rooted(q, doc), TopTitle(p) = TopTitle(q)
  PROVE  Repeated(q, doc) \/ (p # <<>> /\ q # <<>> /\ p[1] = q[1]) \/ (p = <<>> /\ q = <<>>)
<1>1. DOMAIN doc = 1 .. Len(doc)
  BY SeqIs
<1>2. \A x : <<x>> # <<>>
  OBVIOUS
<1>3. CASE p = <<>> \/ q = <<>>
  BY <1>2, <1>3 DEF TopTitle
<1>4. CASE p # <<>> /\ q # <<>>
  <2> DEFINE x == p[1]
             y == q[1]
  <2>1. /\ x \in Heads /\ x.at \in 1 .. Len(doc) /\ doc[x.at].kind = "heading"
        /\ x.level = doc[x.at].level /\ x.title = doc[x.at].title
    BY <1>4, RankIs DEF Rooted, FromDocument
  <2>2. /\ y \in Heads /\ y.at \in 1 .. Len(doc)
        /\ y.level = doc[y.at].level /\ y.title = doc[y.at].title
    BY <1>4, RankIs DEF Rooted, FromDocument
  <2>3. <<x.title>> = <<y.title>>
    BY <1>4 DEF TopTitle
  <2> HIDE DEF x, y
  <2>4. x.title = y.title
    <3>1. <<x.title>>[1] = x.title /\ <<y.title>>[1] = y.title
      OBVIOUS
    <3> QED
      BY <2>3, <3>1
  <2>5. CASE x.at = y.at
    <3>1. x = y
      BY <2>1, <2>2, <2>5 DEF Heads
    <3> QED
      BY <1>4, <3>1 DEF x, y
  <2>6. CASE x.at # y.at
    <3>1. x.at \in DOMAIN doc /\ doc[x.at].kind = "heading" /\ doc[x.at].title = y.title
      BY <1>1, <2>1, <2>4
    <3> QED
      BY <1>4, <2>6, <3>1 DEF Repeated, y
  <2> QED
    BY <2>5, <2>6
<1> QED
  BY <1>3, <1>4

\* All content between two blocks of one section is in that section, and so
\* is what the earlier chunk repeated of the one before it.
LEMMA JoinsInSection ==
  ASSUME NEW e \in ChunkRecords, NEW bs \in Seq(Block), NEW doc \in Seq(Readable),
         Rising(e.blocks, doc), Opens(e), Rising(bs, doc),
         \A j \in 1 .. Len(bs) : Upto(e.blocks, SectionOf(bs[j])),
         Content(bs) # <<>>, TopTitle(e.path) = TopTitle(Head(Content(bs)).path),
         Repeated(e.path, doc) \/ InOneSection(e.prefix, e.path)
  PROVE  \/ Repeated(Head(Content(bs)).path, doc)
         \/ InOneSection(Ending(TextOf(e)), Head(Content(bs)).path)
<1> DEFINE cs == e.blocks
           ps == e.prefix
           m  == Len(cs)
           n  == Len(bs)
           h  == Len(ps)
           q  == Head(Content(bs)).path
<1>1. cs \in Seq(Block) /\ ps \in Seq(Block) /\ Len(doc) \in Nat
  BY SeqIs DEF ChunkRecords
<1>2. PICK j \in 1 .. n : Head(Content(bs)) = bs[j]
  BY ContentWhere
<1>3. PICK k \in 1 .. m : e.path = cs[k].path /\ \A i \in 1 .. k - 1 : ~IsContent(cs[i])
  BY DEF Opens
<1>4. m \in Nat /\ n \in Nat /\ h \in Nat
  BY <1>1, SeqIs
<1>5. /\ \A i, l \in 1 .. m : i <= l => SectionOf(cs[i]) <= SectionOf(cs[l])
      /\ \A i \in 1 .. m : Rooted(cs[i].path, doc) /\ SectionOf(cs[i]) <= SectionOf(bs[j])
  BY DEF Rising, Upto
<1>6. Rooted(bs[j].path, doc)
  BY DEF Rising
<1>7. q = bs[j].path
  BY <1>2
<1>8. /\ \A i \in 1 .. m : cs[i].path \in Seq(Heads) /\ SectionOf(cs[i]) \in Nat
      /\ bs[j].path \in Seq(Heads) /\ SectionOf(bs[j]) \in Nat
  <2>1. \A i \in 1 .. m : cs[i].path \in Seq(Heads) /\ SectionOf(cs[i]) \in Nat
    BY <1>1, SectionIs
  <2> QED
    BY <2>1, SectionIs
<1>9. \/ Repeated(q, doc)
      \/ e.path # <<>> /\ q # <<>> /\ e.path[1] = q[1]
      \/ e.path = <<>> /\ q = <<>>
  BY <1>3, <1>5, <1>6, <1>7, <1>8, OneTitle
<1> HIDE DEF q, m, n, cs
<1>10. SUFFICES ASSUME ~Repeated(q, doc)
                PROVE  InOneSection(Ending(TextOf(e)), q)
  BY DEF q
<1>11. SectionOf(cs[k]) = SectionOf(bs[j]) /\ Top(e.path) = Top(q)
  <2>1. Rank(e.path) = Rank(q)
    BY <1>9, <1>10 DEF Rank
  <2>2. Top(cs[k].path) = Top(bs[j].path)
    BY <1>1, <1>3, <1>5, <1>6, <1>7, <1>8, <2>1, SameTop
  <2> QED
    BY <1>3, <1>7, <2>1, <2>2 DEF SectionOf
<1>12. InOneSection(ps, q)
  <2>1. ~Repeated(e.path, doc)
    BY <1>9, <1>10 DEF Repeated
  <2> QED
    BY <1>11, <2>1 DEF InOneSection
<1>13. ASSUME NEW i \in 1 .. m, IsContent(cs[i])
       PROVE  Top(cs[i].path) = Top(q)
  <2>1. k <= i
    BY <1>3, <1>4, <1>13
  <2>2. SectionOf(cs[k]) <= SectionOf(cs[i]) /\ SectionOf(cs[i]) <= SectionOf(bs[j])
    BY <1>5, <2>1
  <2>3. Rank(cs[i].path) = Rank(bs[j].path)
    BY <1>8, <1>11, <2>2 DEF SectionOf
  <2> QED
    BY <1>1, <1>5, <1>6, <1>7, <1>8, <2>3, SameTop
<1> DEFINE text == TextOf(e)
           end  == Ending(text)
<1>14. text = ps \o cs
  BY DEF TextOf, cs
<1> HIDE DEF ps, text
<1>15. /\ text \in Seq(Block) /\ Len(text) = h + m
       /\ \A i \in 1 .. h : text[i] = ps[i]
       /\ \A i \in 1 .. m : text[h + i] = cs[i]
  BY <1>1, <1>14, ConcatIs DEF h, m
<1>16. \A i \in 1 .. Len(end) : \E l \in 1 .. Len(text) : end[i] = text[l]
  BY <1>15, EndingIs
<1> HIDE DEF end, h
<1>17. ASSUME NEW l \in 1 .. h + m, IsContent(text[l])
       PROVE  Top(text[l].path) = Top(q)
  <2>1. CASE l \in 1 .. h
    BY <1>12, <1>15, <1>17, <2>1 DEF InOneSection, h
  <2>2. CASE l \notin 1 .. h
    <3>1. l - h \in 1 .. m /\ h + (l - h) = l
      BY <1>4, <2>2
    <3>2. text[l] = cs[l - h]
      BY <1>15, <3>1
    <3> QED
      BY <1>13, <1>17, <3>1, <3>2
  <2> QED
    BY <2>1, <2>2
<1>18. InOneSection(end, q)
  BY <1>15, <1>16, <1>17 DEF InOneSection
<1> QED
  BY <1>18 DEF end, text

LEMMA MovesRise ==
  ASSUME NEW c \in Packers, NEW r, Moves(c, r), NEW doc \in Seq(Readable), NEW top, Sections(c, doc, top)
  PROVE  Sections(r, doc, top)
<1>1. CASE KeepsAll(c, r)
  BY <1>1 DEF KeepsAll, Sections, ChunkRises
<1>2. ASSUME NEW pre, NEW kept, Emits(c, r, pre, kept)
      PROVE  Sections(r, doc, top)
  <2> DEFINE content == Content(pre)
             d  == [c EXCEPT !.current = pre]
             e  == Chunk(d, content)
             cs == c.chunks
             n  == Len(cs)
  <2>1. /\ r.chunks = Append(cs, e) /\ e \in ChunkRecords /\ cs \in Seq(ChunkRecords)
        /\ pre \in Seq(Block) /\ kept \in Seq(Block) /\ pre \o kept = c.current /\ r.current = kept
        /\ content # <<>>
    BY <1>2, PackerIs DEF Emits
  <2>2. /\ e.blocks = pre /\ e.path = Head(content).path
        /\ e.prefix = IF Joins(d, content) THEN Ending(TextOf(Last(cs))) ELSE <<>>
        /\ d.chunks = cs /\ d.current = pre
    BY DEF Chunk, Packers
  <2>3. /\ Joins(d, content) => cs # <<>> /\ TopTitle(Last(cs).path) = TopTitle(e.path)
        /\ ~Joins(d, content) => e.prefix = <<>>
    BY <2>2 DEF Joins
  <2> HIDE DEF e, d
  <2>4. /\ Rising(pre, doc) /\ Rising(kept, doc) /\ Upto(pre, top) /\ Upto(kept, top)
        /\ \A j \in 1 .. Len(kept) : Upto(pre, SectionOf(kept[j]))
    <3>1. pre \in Seq(Block) /\ kept \in Seq(Block)
      BY <2>1
    <3>2. Rising(pre \o kept, doc) /\ Upto(pre \o kept, top)
      BY <2>1 DEF Sections
    <3> QED
      BY ONLY <3>1, <3>2, RisingParts
  <2>5. PICK k \in 1 .. Len(pre) : Head(content) = pre[k] /\ \A j \in 1 .. k - 1 : ~IsContent(pre[j])
    BY <2>1, ContentWhere
  <2>6. Opens(e)
    <3>1. pre # <<>>
      BY <2>1, <2>5, SeqIs
    <3> QED
      BY <2>2, <2>5, <3>1 DEF Opens
  <2>7. /\ Len(r.chunks) = n + 1 /\ r.chunks[n + 1] = e /\ n \in Nat
        /\ \A i \in 1 .. n : r.chunks[i] = cs[i]
    BY <2>1, AppendIs, SeqIs
  <2>8. ChunkRises(e, r, doc, top)
    BY <2>1, <2>2, <2>4, <2>6 DEF ChunkRises
  <2>9. ASSUME NEW i \in 1 .. n
        PROVE  ChunkRises(cs[i], r, doc, top) /\ \A j \in 1 .. Len(pre) : Upto(cs[i].blocks, SectionOf(pre[j]))
    <3>1. ChunkRises(cs[i], c, doc, top)
      BY DEF Sections
    <3> DEFINE bs == cs[i].blocks
               m == Len(pre)
               l == Len(kept)
    <3>2. \A j \in 1 .. Len(pre \o kept) : Upto(bs, SectionOf((pre \o kept)[j]))
      BY <2>1, <3>1 DEF ChunkRises
    <3>3. /\ Len(pre \o kept) = m + l /\ m \in Nat /\ l \in Nat
          /\ \A j \in 1 .. m : (pre \o kept)[j] = pre[j]
          /\ \A j \in 1 .. l : (pre \o kept)[m + j] = kept[j]
      <4>1. pre \in Seq(Block) /\ kept \in Seq(Block)
        BY <2>1
      <4> QED
        BY ONLY <4>1, ConcatIs, SeqIs DEF m, l
    <3> HIDE DEF bs
    <3>4. ASSUME NEW j \in 1 .. m
          PROVE  Upto(bs, SectionOf(pre[j]))
      <4>1. j \in 1 .. m + l
        BY <3>3
      <4> QED
        BY <3>2, <3>3, <4>1
    <3>5. ASSUME NEW j \in 1 .. l
          PROVE  Upto(bs, SectionOf(kept[j]))
      <4>1. m + j \in 1 .. m + l
        BY <3>3
      <4> QED
        BY <3>2, <3>3, <4>1
    <3>6. ChunkRises(cs[i], r, doc, top)
      BY <2>1, <3>1, <3>5 DEF ChunkRises, bs
    <3> QED
      BY <3>4, <3>6 DEF bs
  <2> HIDE DEF content, n
  <2>10. ASSUME NEW i \in 1 .. n + 1
         PROVE  ChunkRises(r.chunks[i], r, doc, top)
    <3>1. i \in 1 .. n \/ i = n + 1
      BY <2>7
    <3> QED
      BY <2>7, <2>8, <2>9, <3>1
  <2>11. Repeated(e.path, doc) \/ InOneSection(e.prefix, e.path)
    <3>1. CASE ~Joins(d, content)
      BY <2>3, <3>1 DEF InOneSection
    <3>2. CASE Joins(d, content)
      <4>1. cs # <<>> /\ TopTitle(Last(cs).path) = TopTitle(e.path)
        BY <2>3, <3>2
      <4>2. n > 0 /\ n \in 1 .. n /\ Last(cs) = cs[n]
        BY <2>1, <2>7, <4>1, SeqIs DEF Last, n
      <4>3. ChunkRises(cs[n], c, doc, top) /\ cs[n] \in ChunkRecords
        BY <2>1, <4>2, SeqIs DEF Sections, n
      <4> DEFINE f == cs[n]
      <4>4. f \in ChunkRecords /\ Rising(f.blocks, doc) /\ Opens(f)
        BY <4>3 DEF ChunkRises
      <4>5. \A j \in 1 .. Len(pre) : Upto(f.blocks, SectionOf(pre[j]))
        BY <2>9, <4>2
      <4>6. Repeated(f.path, doc) \/ InOneSection(f.prefix, f.path)
        BY <4>2 DEF Sections, InSection, n
      <4>7. Content(pre) # <<>> /\ TopTitle(f.path) = TopTitle(Head(Content(pre)).path)
        BY <2>1, <2>2, <4>1, <4>2 DEF content
      <4>8. e.prefix = Ending(TextOf(f))
        BY <2>2, <3>2, <4>2
      <4> HIDE DEF f
      <4>9. \/ Repeated(Head(Content(pre)).path, doc)
            \/ InOneSection(Ending(TextOf(f)), Head(Content(pre)).path)
        BY <2>1, <2>4, <4>4, <4>5, <4>6, <4>7, JoinsInSection
      <4> QED
        BY <2>2, <4>8, <4>9 DEF content
    <3> QED
      BY <3>1, <3>2
  <2>12. InSection(r.chunks, doc)
    <3>1. ASSUME NEW i \in 1 .. n + 1
          PROVE  Repeated(r.chunks[i].path, doc) \/ InOneSection(r.chunks[i].prefix, r.chunks[i].path)
      <4>1. i \in 1 .. n \/ i = n + 1
        BY <2>7
      <4>2. CASE i \in 1 .. n
        BY <2>7, <4>2 DEF Sections, InSection, n
      <4>3. CASE i = n + 1
        BY <2>7, <2>11, <4>3
      <4> QED
        BY <4>1, <4>2, <4>3
    <3> QED
      BY <2>7, <3>1 DEF InSection
  <2> QED
    BY <2>1, <2>4, <2>7, <2>10, <2>12 DEF Sections
<1> QED
  BY <1>1, <1>2 DEF Moves

LEMMA PackedRises ==
  ASSUME NEW c \in Packers, NEW b \in Block, NEW doc \in Seq(Readable),
         Sections(c, doc, SectionOf(b)), Rooted(b.path, doc)
  PROVE  Sections(Packed(c, b), doc, SectionOf(b))
<1> DEFINE r   == Room(c, b)
           d   == Packed(c, b)
           bs  == r.current
           n   == Len(bs)
           top == SectionOf(b)
<1>1. r \in Packers /\ Sections(r, doc, top)
  BY RoomIs, RoomMoves, MovesRise
<1>2. d.chunks = r.chunks /\ d.current = Append(bs, b)
  BY PackedIs
<1> HIDE DEF r, d
<1>3. bs \in Seq(Block)
  BY <1>1, PackerIs
<1>4. /\ Len(d.current) = n + 1 /\ d.current[n + 1] = b /\ n \in Nat
      /\ \A i \in 1 .. n : d.current[i] = bs[i]
  <2> HIDE DEF bs
  <2> QED
    BY <1>2, <1>3, AppendIs, SeqIs DEF n
<1>5. top \in Nat
  BY BlockIs, RankIs DEF SectionOf
<1>6. Rising(bs, doc) /\ Upto(bs, top)
  BY <1>1 DEF Sections
<1> HIDE DEF bs, n
<1>7. \A i \in 1 .. n + 1 : i \in 1 .. n \/ i = n + 1
  BY <1>4
<1>8. Upto(d.current, top)
  BY <1>4, <1>5, <1>6, <1>7 DEF Upto, n
<1>9. Rising(d.current, doc)
  <2>1. ASSUME NEW i \in 1 .. n + 1, NEW j \in 1 .. n + 1, i <= j
        PROVE  SectionOf(d.current[i]) <= SectionOf(d.current[j])
    <3>1. CASE j \in 1 .. n
      <4>1. i \in 1 .. n
        BY <1>4, <2>1, <3>1
      <4> QED
        BY <1>4, <1>6, <2>1, <3>1, <4>1 DEF Rising, n
    <3>2. CASE j = n + 1
      BY <1>4, <1>8, <3>2 DEF Upto
    <3> QED
      BY <1>7, <3>1, <3>2
  <2>2. \A i \in 1 .. n + 1 : Rooted(d.current[i].path, doc)
    BY <1>4, <1>6, <1>7 DEF Rising, n
  <2> QED
    BY <1>4, <2>1, <2>2 DEF Rising
<1>10. ASSUME NEW i \in 1 .. Len(r.chunks)
       PROVE  ChunkRises(r.chunks[i], d, doc, top)
  <2>1. ChunkRises(r.chunks[i], r, doc, top)
    BY <1>1 DEF Sections
  <2>2. ASSUME NEW j \in 1 .. n + 1
        PROVE  Upto(r.chunks[i].blocks, SectionOf(d.current[j]))
    <3>1. CASE j \in 1 .. n
      BY <1>4, <2>1, <3>1 DEF ChunkRises, bs, n
    <3>2. CASE j = n + 1
      BY <1>4, <2>1, <3>2 DEF ChunkRises
    <3> QED
      BY <1>7, <3>1, <3>2
  <2> QED
    BY <1>4, <2>1, <2>2 DEF ChunkRises
<1> QED
  BY <1>1, <1>2, <1>8, <1>9, <1>10 DEF Sections, d

LEMMA RepeatedGrows ==
  ASSUME NEW doc \in Seq(Readable), NEW s \in Readable, NEW p, Repeated(p, doc)
  PROVE  Repeated(p, Append(doc, s))
<1>1. PICK i \in DOMAIN doc : i # p[1].at /\ doc[i].kind = "heading" /\ doc[i].title = p[1].title
  BY DEF Repeated
<1> DEFINE new == Append(doc, s)
<1>2. /\ new \in Seq(Readable) /\ Len(new) = Len(doc) + 1 /\ Len(doc) \in Nat
      /\ \A j \in 1 .. Len(doc) : new[j] = doc[j]
  BY AppendIs, SeqIs
<1>3. i \in 1 .. Len(doc)
  BY SeqIs
<1> HIDE DEF new
<1>4. i \in DOMAIN new /\ new[i] = doc[i]
  BY <1>2, <1>3, SeqIs
<1> QED
  BY <1>1, <1>4 DEF Repeated, new

\* Reading a block leaves what is held as it is, and the section advances.
LEMMA ReadRises ==
  ASSUME NEW c \in Packers, NEW doc \in Seq(Readable), NEW s \in Readable,
         NEW top \in Nat, NEW next \in Nat, top <= next, Sections(c, doc, top)
  PROVE  Sections(c, Append(doc, s), next)
<1> DEFINE new == Append(doc, s)
<1>1. c.current \in Seq(Block) /\ c.chunks \in Seq(ChunkRecords)
  BY PackerIs
<1>2. ASSUME NEW bs \in Seq(Block), Rising(bs, doc), Upto(bs, top)
      PROVE  Rising(bs, new) /\ Upto(bs, next)
  <2>1. ASSUME NEW i \in 1 .. Len(bs)
        PROVE  Rooted(bs[i].path, new) /\ SectionOf(bs[i]) <= next
    <3>1. bs[i].path \in Seq(Heads) /\ SectionOf(bs[i]) \in Nat
      BY SectionIs
    <3>2. Rooted(bs[i].path, doc) /\ SectionOf(bs[i]) <= top
      BY <1>2 DEF Rising, Upto
    <3>3. Rooted(bs[i].path, new)
      BY <3>1, <3>2, RootedGrows
    <3> QED
      BY <3>1, <3>2, <3>3
  <2> HIDE DEF new
  <2> QED
    BY <1>2, <2>1 DEF Rising, Upto
<1> HIDE DEF new
<1>3. Rising(c.current, new) /\ Upto(c.current, next)
  BY <1>1, <1>2 DEF Sections
<1>4. ASSUME NEW i \in 1 .. Len(c.chunks)
      PROVE  ChunkRises(c.chunks[i], c, new, next)
  <2>1. ChunkRises(c.chunks[i], c, doc, top)
    BY DEF Sections
  <2>2. c.chunks[i].blocks \in Seq(Block)
    <3>1. c.chunks[i] \in ChunkRecords
      <4> DEFINE cs == c.chunks
      <4>1. cs \in Seq(ChunkRecords) /\ i \in 1 .. Len(cs)
        BY <1>1
      <4> HIDE DEF cs
      <4>2. cs[i] \in ChunkRecords
        BY <4>1, SeqIs
      <4> QED
        BY <4>2 DEF cs
    <3> QED
      BY <3>1 DEF ChunkRecords
  <2>3. Rising(c.chunks[i].blocks, new) /\ Upto(c.chunks[i].blocks, next)
    BY <1>2, <2>1, <2>2 DEF ChunkRises
  <2> QED
    BY <2>1, <2>3 DEF ChunkRises
<1>5. InSection(c.chunks, new)
  BY RepeatedGrows DEF Sections, InSection, new
<1> QED
  BY <1>3, <1>4, <1>5 DEF Sections, new

(***************************************************************************)
(* The invariant                                                           *)
(***************************************************************************)
ChunkingTypes ==
  /\ document \in Seq(Readable)
  /\ headings \in Seq(Heads)
  /\ pending \in Seq(Block)
  /\ packer \in Packers
  /\ done \in BOOLEAN

\* The units of the parts are those of the block.
Whole(s, ps) ==
  LET cuts == FlattenSeq([k \in DOMAIN ps |-> ps[k].units])
  IN IF s.kind = "table" THEN cuts = s.units ELSE Total(cuts) = Total(s.units)

\* What is not packed yet: the parts of the last block, all of them if the
\* first is among them, under the headings that are open.
Waiting(doc, hs, ps) ==
  /\ \A i \in 1 .. Len(ps) :
       /\ ps[i].path = hs
       /\ ps[i].tokens > budget => ps[i].kind = "table" /\ Len(ps[i].units) = 1
       /\ i > 1 => ps[i].id[2] # 1
       /\ ps[i].id[2] = 1 => Whole(doc[ps[i].id[1]], ps)

ChunkingInv ==
  /\ ChunkingTypes
  /\ Waiting(document, headings, pending)
  /\ Counted(packer)
  /\ AllWithin(packer)
  /\ Covers(HeldBlocks(packer) \o pending, Len(document))
  /\ Ranked(headings, document)
  /\ Sections(packer, document, Rank(headings))
  /\ done => pending = <<>> /\ Content(packer.current) = <<>>

LEMMA NothingHeld ==
  LET c == [chunks |-> <<>>, current |-> <<>>, tokens |-> 0, last_kind |-> "none"]
  IN /\ c \in Packers /\ HeldBlocks(c) = <<>> /\ Counted(c) /\ AllWithin(c)
     /\ Sections(c, <<>>, 0)
<1> DEFINE c == [chunks |-> <<>>, current |-> <<>>, tokens |-> 0, last_kind |-> "none"]
<1>1. c \in Packers /\ c.chunks = <<>> /\ c.current = <<>> /\ c.tokens = 0
  BY DEF Packers
<1> HIDE DEF c
<1>2. BlocksOf(c.chunks) = <<>>
  BY <1>1 DEF BlocksOf
<1>3. HeldBlocks(c) = <<>>
  BY <1>1, <1>2, FlattenEmpty DEF HeldBlocks
<1>4. Counted(c)
  BY <1>1, TokensEmpty DEF Counted
<1>5. AllWithin(c)
  BY <1>1, TokensEmpty, ContentEmpty, BudgetIs DEF AllWithin, WithinBudget
<1>6. Sections(c, <<>>, 0)
  BY <1>1 DEF Sections, Rising, Upto, InSection
<1> QED
  BY <1>1, <1>3, <1>4, <1>5, <1>6 DEF c

LEMMA ChunkingStarts == Init => ChunkingInv
<1> SUFFICES ASSUME Init
             PROVE  ChunkingInv
  OBVIOUS
<1>1. ChunkingTypes
  <2>1. \A S : <<>> \in Seq(S)
    OBVIOUS
  <2> QED
    BY <2>1, NothingHeld DEF Init, ChunkingTypes
<1>2. Waiting(document, headings, pending)
  BY DEF Init, Waiting
<1>3. Counted(packer) /\ AllWithin(packer) /\ HeldBlocks(packer) = <<>>
  BY NothingHeld DEF Init
<1>4. Covers(HeldBlocks(packer) \o pending, Len(document))
  BY <1>3 DEF Init, Covers
<1>5. Ranked(headings, document) /\ Rank(headings) = 0
  BY DEF Init, Ranked, Rank
<1>6. Sections(packer, document, Rank(headings))
  BY <1>5, NothingHeld DEF Init
<1> QED
  BY <1>1, <1>2, <1>3, <1>4, <1>5, <1>6 DEF ChunkingInv, Init

LEMMA RankedGrows ==
  ASSUME NEW doc \in Seq(Readable), NEW s \in Readable, NEW hs \in Seq(Heads), Ranked(hs, doc)
  PROVE  Ranked(hs, Append(doc, s))
<1>1. Len(Append(doc, s)) = Len(doc) + 1 /\ \A i \in 1 .. Len(doc) : Append(doc, s)[i] = doc[i]
  BY AppendIs
<1>2. Len(doc) \in Nat
  BY SeqIs
<1> QED
  BY <1>1, <1>2 DEF Ranked, FromDocument

\* The stack a block is read under.
StackFor(doc, hs, s) ==
  IF s.kind = "heading"
    THEN Append(Picked(hs, {k \in DOMAIN hs : hs[k].level < s.level}), [level |-> s.level, title |-> s.title, at |-> Len(doc) + 1])
    ELSE hs

LEMMA StackForIs ==
  ASSUME NEW doc \in Seq(Readable), NEW s \in Readable, NEW hs \in Seq(Heads), Ranked(hs, doc)
  PROVE  /\ StackFor(doc, hs, s) \in Seq(Heads)
         /\ Ranked(StackFor(doc, hs, s), Append(doc, s))
         /\ Rank(hs) <= Rank(StackFor(doc, hs, s))
<1>1. CASE s.kind = "heading"
  BY <1>1, StackAdvances DEF StackFor
<1>2. CASE s.kind # "heading"
  <2>1. StackFor(doc, hs, s) = hs /\ Rank(hs) \in Nat
    BY <1>2, RankIs DEF StackFor
  <2> QED
    BY <2>1, RankedGrows
<1> QED
  BY <1>1, <1>2

LEMMA WaitingStarts ==
  ASSUME NEW doc \in Seq(Readable), NEW s \in Readable, NEW stack, NEW place, NEW ps,
         PartsOf(s, Len(doc) + 1, stack, place, ps)
  PROVE  Waiting(Append(doc, s), stack, ps)
<1> DEFINE new == Append(doc, s)
<1>1. new[Len(doc) + 1] = s
  BY AppendIs
<1>2. ps \in Seq(Block) /\ Len(ps) \in Nat
  BY SeqIs DEF PartsOf
<1>3. Whole(s, ps)
  BY DEF Whole, PartsOf
<1> HIDE DEF new
<1>4. ASSUME NEW i \in 1 .. Len(ps)
      PROVE  /\ ps[i].path = stack
             /\ ps[i].tokens > budget => ps[i].kind = "table" /\ Len(ps[i].units) = 1
             /\ ps[i].id = <<Len(doc) + 1, i>>
  BY DEF PartsOf
<1>5. ASSUME NEW i \in 1 .. Len(ps)
      PROVE  (i > 1 => ps[i].id[2] # 1) /\ Whole(new[ps[i].id[1]], ps)
  <2>1. ps[i].id[1] = Len(doc) + 1 /\ ps[i].id[2] = i
    BY <1>4
  <2> QED
    BY <1>1, <1>3, <2>1
<1> QED
  BY <1>4, <1>5 DEF Waiting, new

LEMMA WaitingShrinks ==
  ASSUME NEW doc, NEW hs, NEW ps \in Seq(Block), ps # <<>>, Waiting(doc, hs, ps)
  PROVE  Waiting(doc, hs, Tail(ps))
<1>1. /\ Len(ps) \in Nat /\ Len(Tail(ps)) = Len(ps) - 1
      /\ \A i \in 1 .. Len(ps) - 1 : Tail(ps)[i] = ps[i + 1]
  BY TailIs
<1>2. ASSUME NEW i \in 1 .. Len(ps) - 1
      PROVE  /\ ps[i + 1].path = hs
             /\ ps[i + 1].tokens > budget => ps[i + 1].kind = "table" /\ Len(ps[i + 1].units) = 1
             /\ ps[i + 1].id[2] # 1
  <2>1. i + 1 \in 1 .. Len(ps) /\ i + 1 > 1
    BY <1>1
  <2> QED
    BY <2>1 DEF Waiting
<1> QED
  BY <1>1, <1>2 DEF Waiting

LEMMA ReadKeeps ==
  ASSUME ChunkingInv, NEW s \in Readable, NEW place \in Places, Read(s, place)
  PROVE  ChunkingInv'
<1> DEFINE n     == Len(document)
           stack == StackFor(document, headings, s)
           ps    == Parts(s, n + 1, stack, place)
<1>1. /\ document \in Seq(Readable) /\ headings \in Seq(Heads) /\ packer \in Packers /\ n \in Nat
      /\ Ranked(headings, document)
  BY SeqIs DEF ChunkingInv, ChunkingTypes
<1>2. stack \in Seq(Heads) /\ Ranked(stack, Append(document, s)) /\ Rank(headings) <= Rank(stack)
  BY <1>1, StackForIs
<1>3. /\ ~done /\ pending = <<>>
      /\ document' = Append(document, s) /\ headings' = stack /\ pending' = ps
      /\ packer' = packer /\ done' = done
  BY DEF Read, StackFor
<1> HIDE DEF n, stack, ps
<1>4. PartsOf(s, n + 1, stack, place, ps)
  <2>1. n + 1 \in Nat
    BY <1>1
  <2> QED
    BY <1>2, <2>1, PartsAre DEF ps
<1>5. ps \in Seq(Block) /\ ps # <<>> /\ \A k \in 1 .. Len(ps) : ps[k].id = <<n + 1, k>>
  BY <1>4 DEF PartsOf
<1>6. document' \in Seq(Readable) /\ Len(document') = n + 1
  BY <1>1, <1>3, AppendIs DEF n
<1>7. ChunkingTypes'
  BY <1>1, <1>2, <1>3, <1>5, <1>6 DEF ChunkingTypes, ChunkingInv
<1>8. Waiting(document', headings', pending')
  BY <1>1, <1>3, <1>4, WaitingStarts DEF n
<1>9. Covers(HeldBlocks(packer') \o pending', Len(document'))
  <2> DEFINE bs == HeldBlocks(packer)
  <2>1. bs \in Seq(Block)
    BY <1>1, HeldIs
  <2> HIDE DEF bs
  <2>2. bs \o <<>> = bs
    BY <2>1, ConcatAssociates
  <2>3. Covers(bs, n)
    BY <1>3, <2>2 DEF ChunkingInv, bs, n
  <2>4. Covers(bs \o ps, n + 1)
    BY <1>1, <1>5, <2>1, <2>3, CoversMore
  <2> QED
    BY <1>3, <1>6, <2>4 DEF bs
<1>10. Sections(packer', document', Rank(headings'))
  <2>1. Rank(headings) \in Nat /\ Rank(stack) \in Nat
    BY <1>1, <1>2, RankIs
  <2>2. Sections(packer, document, Rank(headings))
    BY DEF ChunkingInv
  <2>3. Sections(packer, Append(document, s), Rank(stack))
    BY <1>1, <1>2, <2>1, <2>2, ReadRises
  <2> QED
    BY <1>3, <2>3
<1>11. Counted(packer') /\ AllWithin(packer')
  BY <1>3 DEF ChunkingInv
<1> QED
  BY <1>2, <1>3, <1>7, <1>8, <1>9, <1>10, <1>11 DEF ChunkingInv

LEMMA PackKeeps ==
  ASSUME ChunkingInv, Pack
  PROVE  ChunkingInv'
<1> DEFINE b == Head(pending)
<1>1. /\ pending # <<>> /\ packer' = Packed(packer, b) /\ pending' = Tail(pending)
      /\ document' = document /\ headings' = headings /\ done' = done
  BY DEF Pack, Packed
<1>2. /\ document \in Seq(Readable) /\ headings \in Seq(Heads) /\ packer \in Packers
      /\ pending \in Seq(Block) /\ Len(document) \in Nat
  BY SeqIs DEF ChunkingInv, ChunkingTypes
<1>3. b \in Block /\ b = pending[1] /\ 1 \in 1 .. Len(pending) /\ Tail(pending) \in Seq(Block)
  BY <1>1, <1>2, TailIs
<1>4. b.path = headings /\ (b.tokens > budget => b.kind = "table")
  BY <1>3 DEF ChunkingInv, Waiting
<1> HIDE DEF b
<1>5. packer' \in Packers
  BY <1>1, <1>2, <1>3, PackedIs
<1>6. ChunkingTypes'
  BY <1>1, <1>2, <1>3, <1>5 DEF ChunkingTypes, ChunkingInv
<1>7. Waiting(document', headings', pending')
  BY <1>1, <1>2, WaitingShrinks DEF ChunkingInv
<1>8. Counted(packer') /\ AllWithin(packer')
  BY <1>1, <1>2, <1>3, <1>4, PackedCounts, PackedWithin DEF ChunkingInv
<1>9. HeldBlocks(packer') \o pending' = HeldBlocks(packer) \o pending
  <2> DEFINE bs == HeldBlocks(packer)
  <2>1. bs \in Seq(Block)
    BY <1>2, HeldIs
  <2>2. HeldBlocks(packer') = Append(bs, b)
    BY <1>1, <1>2, <1>3, PackedHolds
  <2> HIDE DEF bs
  <2>3. Append(bs, b) \o Tail(pending) = bs \o pending
    BY <1>1, <1>2, <2>1, OneMore DEF b
  <2> QED
    BY <1>1, <2>2, <2>3 DEF bs
<1>10. Sections(packer', document', Rank(headings'))
  <2>1. Rooted(b.path, document) /\ SectionOf(b) = Rank(headings)
    BY <1>2, <1>4, RankedIsRooted DEF ChunkingInv, SectionOf
  <2>2. Sections(packer, document, SectionOf(b))
    BY <2>1 DEF ChunkingInv
  <2>3. Sections(Packed(packer, b), document, SectionOf(b))
    BY <1>2, <1>3, <2>1, <2>2, PackedRises
  <2> QED
    BY <1>1, <2>1, <2>3
<1>11. ~done
  BY <1>1 DEF ChunkingInv
<1> QED
  BY <1>1, <1>6, <1>7, <1>8, <1>9, <1>10, <1>11 DEF ChunkingInv

LEMMA FinishKeeps ==
  ASSUME ChunkingInv, Finish
  PROVE  ChunkingInv'
<1>1. /\ pending = <<>> /\ packer' = Flush(packer) /\ done' = TRUE
      /\ document' = document /\ headings' = headings /\ pending' = pending
  BY DEF Finish
<1>2. packer \in Packers /\ document \in Seq(Readable) /\ Len(document) \in Nat
  BY SeqIs DEF ChunkingInv, ChunkingTypes
<1>3. Moves(packer, packer')
  BY <1>1, <1>2, FlushMoves
<1>4. packer' \in Packers /\ Content(packer'.current) = <<>>
  BY <1>2, <1>3, MovesIs
<1>5. Counted(packer') /\ AllWithin(packer')
  BY <1>2, <1>3, MovesCount, MovesWithin DEF ChunkingInv
<1>6. HeldBlocks(packer') = HeldBlocks(packer)
  BY <1>2, <1>3, MovesHold
<1>7. Sections(packer', document, Rank(headings))
  BY <1>2, <1>3, MovesRise DEF ChunkingInv
<1> QED
  BY <1>1, <1>4, <1>5, <1>6, <1>7 DEF ChunkingInv, ChunkingTypes

LEMMA ChunkingStutters ==
  ASSUME ChunkingInv, UNCHANGED vars
  PROVE  ChunkingInv'
BY DEF vars, ChunkingInv, ChunkingTypes

(***************************************************************************)
(* What the invariant implies                                              *)
(***************************************************************************)
LEMMA InvCounts == ChunkingInv => CountKeepsUp
BY DEF ChunkingInv, Counted, CountKeepsUp

LEMMA InvFits == ChunkingInv => ContentFits
<1> SUFFICES ASSUME ChunkingInv
             PROVE  ContentFits
  OBVIOUS
<1>1. DOMAIN packer.chunks = 1 .. Len(packer.chunks)
  BY PackerIs, SeqIs DEF ChunkingInv, ChunkingTypes
<1> QED
  BY <1>1 DEF ChunkingInv, AllWithin, WithinBudget, ContentFits

LEMMA InvInSection == ChunkingInv => OverlapStaysInSection
<1> SUFFICES ASSUME ChunkingInv
             PROVE  OverlapStaysInSection
  OBVIOUS
<1>1. DOMAIN packer.chunks = 1 .. Len(packer.chunks)
  BY PackerIs, SeqIs DEF ChunkingInv, ChunkingTypes
<1>2. InSection(packer.chunks, document)
  BY DEF ChunkingInv, Sections
<1>3. ASSUME NEW i \in 1 .. Len(packer.chunks)
      PROVE  LET c == packer.chunks[i] IN
             \A k \in DOMAIN c.prefix : IsContent(c.prefix[k]) =>
               Top(c.prefix[k].path) = Top(c.path) \/ RepeatedTitle(c.path)
  <2> DEFINE c == packer.chunks[i]
  <2>1. Repeated(c.path, document) \/ InOneSection(c.prefix, c.path)
    BY <1>2 DEF InSection
  <2>2. DOMAIN c.prefix = 1 .. Len(c.prefix)
    <3> DEFINE cs == packer.chunks
    <3>1. cs \in Seq(ChunkRecords) /\ i \in 1 .. Len(cs)
      BY PackerIs DEF ChunkingInv, ChunkingTypes
    <3> HIDE DEF cs
    <3>2. cs[i] \in ChunkRecords
      BY <3>1, SeqIs
    <3>3. cs[i].prefix \in Seq(Block)
      BY <3>2 DEF ChunkRecords
    <3> QED
      BY <3>3, SeqIs DEF cs
  <2> HIDE DEF c
  <2>3. Repeated(c.path, document) => RepeatedTitle(c.path)
    BY DEF Repeated, RepeatedTitle
  <2> QED
    BY <2>1, <2>2, <2>3 DEF InOneSection, c
<1> QED
  BY <1>1, <1>3 DEF OverlapStaysInSection

LEMMA InvFaithful == ChunkingInv => SplitIsFaithful
<1> SUFFICES ASSUME ChunkingInv
             PROVE  SplitIsFaithful
  OBVIOUS
<1>1. DOMAIN pending = 1 .. Len(pending)
  BY SeqIs DEF ChunkingInv, ChunkingTypes
<1>2. Waiting(document, headings, pending)
  BY DEF ChunkingInv
<1> QED
  BY <1>1, <1>2 DEF Waiting, Whole, SplitIsFaithful

LEMMA InvLosesNothing == ChunkingInv => NothingIsLost
<1> SUFFICES ASSUME ChunkingInv
             PROVE  NothingIsLost
  OBVIOUS
<1> DEFINE all == HeldBlocks(packer) \o pending
           n   == Len(document)
<1>1. Chunked \o packer.current \o pending = all
  BY DEF HeldBlocks, BlocksOf, Chunked
<1>2. Covers(all, n) /\ (done => Content(packer.current) = <<>>)
  BY DEF ChunkingInv
<1>3. document \in Seq(Readable) /\ n \in Nat /\ (document # <<>> => n > 0)
  BY SeqIs DEF ChunkingInv, ChunkingTypes
<1>4. all \in Seq(Block)
  BY HeldIs, ConcatIs DEF ChunkingInv, ChunkingTypes
<1> HIDE DEF all, n
<1>5. InOrder(all)
  BY <1>2 DEF Covers, Follows, InOrder
<1>6. document # <<>> => all # <<>> /\ Head(all).id = <<1, 1>> /\ Last(all).id[1] = n
  BY <1>2, <1>3, <1>4, TailIs DEF Covers, Last
<1> QED
  BY <1>1, <1>2, <1>5, <1>6 DEF NothingIsLost, n

(***************************************************************************)
(* Theorems                                                                *)
(***************************************************************************)
LEMMA ShapesAreReadable == Shapes \subseteq Readable
<1>1. Seq(Nat \ {0}) \subseteq Seq(Nat) /\ 0 .. 6 \subseteq Nat /\ STRING \subseteq Names
  BY DEF Names
<1> QED
  BY <1>1, ChunkingAssumption DEF Readable

\* Whatever blocks a document has, chunk_markdown keeps its types and the
\* invariant that the other theorems of this module follow from.
THEOREM ChunkingInvariant == ChunkingSpec => []ChunkingInv
<1>1. Init => ChunkingInv
  BY ChunkingStarts
<1>2. ASSUME ChunkingInv, [ReadShape \/ Pack \/ Finish]_vars
      PROVE  ChunkingInv'
  <2>1. CASE ReadShape
    <3>1. PICK s \in Shapes, place \in Places : Read(s, place)
      BY <2>1 DEF ReadShape
    <3>2. s \in Readable
      BY ShapesAreReadable
    <3> QED
      BY <1>2, <3>1, <3>2, ReadKeeps
  <2>2. CASE Pack
    BY <1>2, <2>2, PackKeeps
  <2>3. CASE Finish
    BY <1>2, <2>3, FinishKeeps
  <2>4. CASE UNCHANGED vars
    BY <1>2, <2>4, ChunkingStutters
  <2> QED
    BY <1>2, <2>1, <2>2, <2>3, <2>4
<1> QED
  BY <1>1, <1>2, PTL DEF ChunkingSpec

\* Headings that move from a chunk to the next, and blocks that are split, are
\* neither lost nor repeated nor reordered, for every document and budget;
\* what no chunk holds in the end is headings without content.
THEOREM LosesNothing == ChunkingSpec => []NothingIsLost
BY ChunkingInvariant, InvLosesNothing, PTL

\* split_oversized keeps all units of a block, rows of tables in their order,
\* and only a single row of a table is left above the budget.
THEOREM SplitsFaithfully == ChunkingSpec => []SplitIsFaithful
BY ChunkingInvariant, InvFaithful, PTL

\* The content of a chunk keeps to the budget whatever the sizes of blocks,
\* chunk and overlap, but for the one row that is too large.
THEOREM FitsBudget == ChunkingSpec => []ContentFits
BY ChunkingInvariant, InvFits, PTL

\* The count of the tokens in current never falls behind, through flushes,
\* splits and headings that are carried over.
THEOREM CountsTokens == ChunkingSpec => []CountKeepsUp
BY ChunkingInvariant, InvCounts, PTL

\* All content that the overlap of a chunk repeats is of the top-level section
\* the chunk opens in, however far back it reaches, for every document whose
\* section has a title of its own.
THEOREM OverlapsInSection == ChunkingSpec => []OverlapStaysInSection
BY ChunkingInvariant, InvInSection, PTL
=============================================================================
