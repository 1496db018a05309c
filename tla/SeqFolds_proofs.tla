--------------------------- MODULE SeqFolds_proofs ---------------------------
(***************************************************************************)
(* Facts about numbers, sequences and loops over sequences that the other    *)
(* proofs cite: induction over numbers and sequences, the recursion          *)
(* equations of Total, Picked and FlattenSeq and what follows from them.        *)
(*                                                                         *)
(* An induction goes by the set of the numbers (or sequences) that have the  *)
(* property in question, so that no fact has an operator for a parameter.    *)
(***************************************************************************)
EXTENDS SeqFolds, SequencesExt, FiniteSetTheorems, TLAPS

(***************************************************************************)
(* Induction                                                               *)
(***************************************************************************)
\* The sets 0 .. n are well founded under inclusion, and so are numbers.
LEMMA LeastNumber ==
  ASSUME NEW T, T \subseteq Nat, T # {}
  PROVE  \E m \in T : \A n \in T : m <= n
<1> DEFINE up == {0 .. n : n \in T}
<1>1. \A n \in Nat : IsFiniteSet(0 .. n)
  BY FS_Interval
<1>2. up \subseteq FiniteSubsetsOf(Nat)
  BY <1>1 DEF FiniteSubsetsOf
<1>3. IsWellFoundedOn(StrictSubsetOrdering(Nat), FiniteSubsetsOf(Nat))
  BY FS_StrictSubsetOrderingWellFounded
<1>4. up # {}
  OBVIOUS
<1> HIDE DEF up
<1>5. PICK u \in up : \A v \in up : ~ (<<v, u>> \in StrictSubsetOrdering(Nat))
  BY <1>2, <1>3, <1>4, WFMin
<1> USE DEF up
<1>6. PICK m \in T : u = 0 .. m
  OBVIOUS
<1>7. ASSUME NEW n \in T, n < m
      PROVE  FALSE
  <2>1. 0 .. n \in up /\ 0 .. n \subseteq 0 .. m /\ m \notin 0 .. n /\ m \in 0 .. m
    BY <1>7
  <2>2. 0 .. n \in SUBSET Nat /\ 0 .. m \in SUBSET Nat
    OBVIOUS
  <2>3. <<0 .. n, 0 .. m>> \in StrictSubsetOrdering(Nat)
    BY <2>1, <2>2 DEF StrictSubsetOrdering
  <2> QED
    BY <2>1, <2>3, <1>5, <1>6
<1> QED
  BY <1>7

LEMMA UpTo ==
  ASSUME NEW n \in Nat, NEW T, 0 \in T, \A i \in 0 .. n - 1 : i \in T => i + 1 \in T
  PROVE  \A i \in 0 .. n : i \in T
<1> DEFINE out == {i \in 0 .. n : i \notin T}
<1>1. SUFFICES ASSUME out # {}
               PROVE  FALSE
  OBVIOUS
<1>2. out \subseteq Nat
  OBVIOUS
<1>3. PICK m \in out : \A i \in out : m <= i
  BY <1>1, <1>2, LeastNumber
<1>4. m > 0 /\ m - 1 \in 0 .. n - 1
  BY <1>3
<1>5. m - 1 \in T
  BY <1>3, <1>4
<1> QED
  BY <1>3, <1>4, <1>5

LEMMA Induction ==
  ASSUME NEW T, 0 \in T, \A n \in Nat : n \in T => n + 1 \in T
  PROVE  \A n \in Nat : n \in T
<1> TAKE n \in Nat
<1>1. \A i \in 0 .. n : i \in T
  BY UpTo
<1> QED
  BY <1>1

LEMMA LeastOf ==
  ASSUME NEW T, T \subseteq Nat, T # {}
  PROVE  Min(T) \in T /\ \A n \in T : Min(T) <= n
BY LeastNumber DEF Min

LEMMA GreatestOf ==
  ASSUME NEW T, T \subseteq Nat, T # {}, NEW b \in Nat, \A n \in T : n <= b
  PROVE  Max(T) \in T /\ \A n \in T : n <= Max(T)
<1> DEFINE bounds == {m \in Nat : \A n \in T : n <= m}
<1>1. b \in bounds /\ bounds \subseteq Nat
  OBVIOUS
<1>2. PICK m \in bounds : \A n \in bounds : m <= n
  BY <1>1, LeastNumber
<1>3. m \in T
  <2>1. SUFFICES ASSUME m \notin T
                 PROVE  FALSE
    OBVIOUS
  <2>2. \A n \in T : n <= m - 1
    BY <2>1, <1>2
  <2>3. m - 1 \in Nat
    <3>1. PICK t \in T : TRUE
      OBVIOUS
    <3> QED
      BY <3>1, <2>2, <1>2
  <2>4. m - 1 \in bounds
    BY <2>2, <2>3
  <2> QED
    BY <2>4, <1>2
<1> QED
  BY <1>2, <1>3 DEF Max

LEMMA SeqInduction ==
  ASSUME NEW S, NEW T, <<>> \in T, \A s \in Seq(S), e \in S : s \in T => Append(s, e) \in T
  PROVE  \A s \in Seq(S) : s \in T
<1> DEFINE upto == {n \in Nat : \A s \in Seq(S) : Len(s) = n => s \in T}
<1>1. 0 \in upto
  <2>1. \A s \in Seq(S) : Len(s) = 0 => s = <<>>
    OBVIOUS
  <2> QED
    BY <2>1
<1>2. ASSUME NEW n \in Nat, n \in upto
      PROVE  n + 1 \in upto
  <2> SUFFICES ASSUME NEW s \in Seq(S), Len(s) = n + 1
               PROVE  s \in T
    OBVIOUS
  <2> DEFINE front == [i \in 1 .. n |-> s[i]]
  <2>1. front \in Seq(S) /\ Len(front) = n /\ s[n + 1] \in S
    OBVIOUS
  <2>2. s = Append(front, s[n + 1])
    <3>1. Append(front, s[n + 1]) \in Seq(S) /\ Len(Append(front, s[n + 1])) = n + 1
      BY <2>1
    <3>2. \A i \in 1 .. n + 1 : Append(front, s[n + 1])[i] = s[i]
      BY <2>1
    <3> QED
      BY <3>1, <3>2
  <2>3. front \in T
    BY <1>2, <2>1
  <2> HIDE DEF front
  <2>4. Append(front, s[n + 1]) \in T
    BY <2>1, <2>3
  <2> QED
    BY <2>2, <2>4
<1> HIDE DEF upto
<1>3. \A n \in Nat : n \in upto
  BY <1>1, <1>2, Induction
<1> QED
  BY <1>3 DEF upto

(***************************************************************************)
(* Sequences                                                               *)
(***************************************************************************)
LEMMA SeqIs ==
  ASSUME NEW S, NEW s \in Seq(S)
  PROVE  /\ Len(s) \in Nat /\ DOMAIN s = 1 .. Len(s) /\ \A i \in 1 .. Len(s) : s[i] \in S
         /\ s = <<>> <=> Len(s) = 0
OBVIOUS

LEMMA SeqFrom ==
  ASSUME NEW S, NEW n \in Nat, NEW f \in [1 .. n -> S]
  PROVE  f \in Seq(S) /\ Len(f) = n
OBVIOUS

LEMMA SeqEqual ==
  ASSUME NEW S, NEW s \in Seq(S), NEW t \in Seq(S), Len(s) = Len(t),
         \A i \in 1 .. Len(s) : s[i] = t[i]
  PROVE  s = t
OBVIOUS

LEMMA AppendIs ==
  ASSUME NEW S, NEW s \in Seq(S), NEW e \in S
  PROVE  /\ Append(s, e) \in Seq(S) /\ Len(Append(s, e)) = Len(s) + 1
         /\ Append(s, e)[Len(s) + 1] = e /\ \A i \in 1 .. Len(s) : Append(s, e)[i] = s[i]
         /\ Append(s, e) # <<>>
OBVIOUS

LEMMA ConcatIs ==
  ASSUME NEW S, NEW s \in Seq(S), NEW t \in Seq(S)
  PROVE  /\ s \o t \in Seq(S) /\ Len(s \o t) = Len(s) + Len(t)
         /\ \A i \in 1 .. Len(s) : (s \o t)[i] = s[i]
         /\ \A i \in 1 .. Len(t) : (s \o t)[Len(s) + i] = t[i]
OBVIOUS

LEMMA ConcatAssociates ==
  ASSUME NEW S, NEW s \in Seq(S), NEW t \in Seq(S), NEW u \in Seq(S)
  PROVE  (s \o t) \o u = s \o (t \o u) /\ s \o <<>> = s /\ <<>> \o s = s
OBVIOUS

LEMMA AppendConcat ==
  ASSUME NEW S, NEW s \in Seq(S), NEW t \in Seq(S), NEW e \in S
  PROVE  s \o Append(t, e) = Append(s \o t, e)
<1>1. /\ s \o t \in Seq(S) /\ Append(t, e) \in Seq(S)
      /\ Append(s \o t, e) \in Seq(S) /\ s \o Append(t, e) \in Seq(S)
  OBVIOUS
<1> QED
  BY <1>1

LEMMA TailIs ==
  ASSUME NEW S, NEW s \in Seq(S), s # <<>>
  PROVE  /\ Head(s) \in S /\ Head(s) = s[1] /\ Len(s) \in Nat /\ Len(s) > 0
         /\ Tail(s) \in Seq(S) /\ Len(Tail(s)) = Len(s) - 1
         /\ \A i \in 1 .. Len(s) - 1 : Tail(s)[i] = s[i + 1]
OBVIOUS

LEMMA SubSeqIs ==
  ASSUME NEW S, NEW s \in Seq(S), NEW m \in 1 .. Len(s) + 1, NEW n \in 0 .. Len(s), m <= n + 1
  PROVE  /\ SubSeq(s, m, n) \in Seq(S) /\ Len(SubSeq(s, m, n)) = n - m + 1
         /\ \A i \in 1 .. n - m + 1 : SubSeq(s, m, n)[i] = s[m + i - 1]
OBVIOUS

(***************************************************************************)
(* Sequences of whatever they hold                                         *)
(***************************************************************************)
LEMMA SeqShape ==
  ASSUME NEW s, IsSeq(s)
  PROVE  /\ Len(s) \in Nat
         /\ DOMAIN s = 1 .. Len(s)
         /\ s = <<>> <=> Len(s) = 0
BY DEF IsSeq

LEMMA SeqElements ==
  ASSUME NEW S, NEW s \in Seq(S)
  PROVE  IsSeq(s) /\ \A i \in DOMAIN s : s[i] \in S
BY DEF IsSeq

LEMMA EmptyIsSeq == IsSeq(<<>>)
BY DEF IsSeq

\* A function on 1 .. n is a sequence of length n.
LEMMA FunctionIsSeq ==
  ASSUME NEW n \in Nat, NEW f, f = [i \in 1 .. n |-> f[i]]
  PROVE  IsSeq(f) /\ Len(f) = n
<1> DEFINE S == {f[i] : i \in DOMAIN f}
<1>1. DOMAIN f = 1 .. n
  OBVIOUS
<1>2. f \in [1 .. n -> S]
  BY <1>1
<1>3. f \in Seq(S)
  BY <1>2
<1> QED
  BY <1>1, <1>3 DEF IsSeq

LEMMA AppendIsSeq ==
  ASSUME NEW s, IsSeq(s), NEW e
  PROVE  /\ IsSeq(Append(s, e))
         /\ Len(Append(s, e)) = Len(s) + 1
         /\ Append(s, e)[Len(s) + 1] = e
         /\ \A i \in 1 .. Len(s) : Append(s, e)[i] = s[i]
<1> DEFINE S == {s[i] : i \in DOMAIN s} \cup {e}
<1>1. s \in Seq(S)
  BY DEF IsSeq
<1>2. Append(s, e) \in Seq(S)
  BY <1>1
<1>3. IsSeq(Append(s, e))
  BY <1>2, SeqElements
<1> QED
  BY <1>1, <1>3

LEMMA ConcatIsSeq ==
  ASSUME NEW s, IsSeq(s), NEW t, IsSeq(t)
  PROVE  /\ IsSeq(s \o t)
         /\ Len(s \o t) = Len(s) + Len(t)
         /\ \A i \in 1 .. Len(s) : (s \o t)[i] = s[i]
         /\ \A i \in 1 .. Len(t) : (s \o t)[Len(s) + i] = t[i]
<1> DEFINE S == {s[i] : i \in DOMAIN s} \cup {t[i] : i \in DOMAIN t}
<1>1. s \in Seq(S) /\ t \in Seq(S)
  BY DEF IsSeq
<1>2. s \o t \in Seq(S)
  BY <1>1
<1>3. IsSeq(s \o t)
  BY <1>2, SeqElements
<1>4. Len(s \o t) = Len(s) + Len(t)
  BY <1>1
<1>5. \A i \in 1 .. Len(s) : (s \o t)[i] = s[i]
  BY <1>1
<1>6. \A i \in 1 .. Len(t) : (s \o t)[Len(s) + i] = t[i]
  BY <1>1
<1> QED
  BY <1>3, <1>4, <1>5, <1>6

LEMMA PairIsSeq == ASSUME NEW a, NEW b PROVE IsSeq(<<a, b>>)
BY DEF IsSeq

LEMMA OneIsSeq == ASSUME NEW a PROVE IsSeq(<<a>>)
BY DEF IsSeq

(***************************************************************************)
(* Recursion: what a loop of n turns leaves after each of them              *)
(***************************************************************************)
IsLoop(n, V, base, step) == base \in V /\ step \in [1 .. n -> [V -> V]]

RunsAs(n, V, base, step, g) ==
  /\ g \in [0 .. n -> V]
  /\ g[0] = base
  /\ \A i \in 1 .. n : g[i] = step[i][g[i - 1]]

LEMMA Recursion ==
  ASSUME NEW n \in Nat, NEW V, NEW base, NEW step, IsLoop(n, V, base, step)
  PROVE  \E g : RunsAs(n, V, base, step, g)
<1> DEFINE T == {k \in 0 .. n : \E g \in [0 .. k -> V] :
                   g[0] = base /\ \A i \in 1 .. k : g[i] = step[i][g[i - 1]]}
<1> USE DEF IsLoop
<1>1. 0 \in T
  <2> DEFINE g == [i \in 0 .. 0 |-> base]
  <2>1. g \in [0 .. 0 -> V] /\ g[0] = base /\ \A i \in 1 .. 0 : g[i] = step[i][g[i - 1]]
    OBVIOUS
  <2> HIDE DEF g
  <2> QED
    BY <2>1
<1>2. ASSUME NEW k \in 0 .. n - 1, k \in T
      PROVE  k + 1 \in T
  <2>1. PICK g \in [0 .. k -> V] : g[0] = base /\ \A i \in 1 .. k : g[i] = step[i][g[i - 1]]
    BY <1>2
  <2> DEFINE h == [i \in 0 .. k + 1 |-> IF i <= k THEN g[i] ELSE step[i][g[k]]]
  <2>2. step[k + 1][g[k]] \in V
    BY <2>1
  <2>3. h \in [0 .. k + 1 -> V]
    BY <2>1, <2>2
  <2>4. h[0] = base
    BY <2>1
  <2>5. \A i \in 1 .. k + 1 : h[i] = step[i][h[i - 1]]
    BY <2>1
  <2> HIDE DEF h
  <2> QED
    BY <2>3, <2>4, <2>5
<1> HIDE DEF T
<1>3. \A k \in 0 .. n : k \in T
  BY <1>1, <1>2, UpTo
<1>4. n \in T
  BY <1>3
<1> QED
  BY <1>4 DEF T, RunsAs

(***************************************************************************)
(* Total                                                                   *)
(***************************************************************************)
IsTotal(s, g) == g = [i \in 0 .. Len(s) |-> IF i = 0 THEN 0 ELSE g[i - 1] + s[i]]

LEMMA TotalRuns ==
  ASSUME NEW s, NEW g, Len(s) \in Nat
  PROVE  IsTotal(s, g) => g[0] = 0 /\ \A i \in 1 .. Len(s) : g[i] = g[i - 1] + s[i]
BY DEF IsTotal

LEMMA TotalExists ==
  ASSUME NEW s \in Seq(Int)
  PROVE  \E g : IsTotal(s, g)
<1> DEFINE n    == Len(s)
           V    == Int
           zero == 0
           step == [i \in 1 .. n |-> [v \in V |-> v + s[i]]]
<1>1. n \in Nat /\ zero \in V
  OBVIOUS
<1>2. step \in [1 .. n -> [V -> V]] /\ \A i \in 1 .. n, v \in V : step[i][v] = v + s[i]
  OBVIOUS
<1> HIDE DEF step, n, V, zero
<1>3. IsLoop(n, V, zero, step)
  BY <1>1, <1>2 DEF IsLoop
<1>4. PICK r : RunsAs(n, V, zero, step, r)
  BY <1>1, <1>3, Recursion
<1>5. PICK g \in [0 .. n -> V] : g[0] = zero /\ \A i \in 1 .. n : g[i] = step[i][g[i - 1]]
  BY <1>4 DEF RunsAs
<1>6. \A i \in 1 .. n : g[i - 1] \in V
  BY <1>1, <1>5
<1>7. \A i \in 1 .. n : g[i] = g[i - 1] + s[i]
  BY <1>2, <1>5, <1>6
<1> DEFINE f == [i \in 0 .. n |-> IF i = 0 THEN 0 ELSE g[i - 1] + s[i]]
<1>8. \A i \in 0 .. n : f[i] = g[i]
  BY <1>1, <1>5, <1>7 DEF zero
<1>9. f = g
  BY <1>5, <1>8
<1> QED
  BY <1>9 DEF IsTotal, n

LEMMA TotalUnique ==
  ASSUME NEW s \in Seq(Nat), NEW g, IsTotal(s, g)
  PROVE  Total(s) = g[Len(s)] /\ Total(s) \in Nat
<1> DEFINE h == CHOOSE f : IsTotal(s, f)
<1>1. IsTotal(s, h)
  <2>1. s \in Seq(Int)
    OBVIOUS
  <2> QED
    BY <2>1, TotalExists
<1>2. Total(s) = h[Len(s)]
  BY DEF Total, IsTotal
<1> HIDE DEF h
<1>3. \A i \in 0 .. Len(s) : i \in {k \in 0 .. Len(s) : g[k] = h[k] /\ g[k] \in Nat}
  <2> DEFINE T == {k \in 0 .. Len(s) : g[k] = h[k] /\ g[k] \in Nat}
  <2>1. 0 \in T
    BY <1>1 DEF IsTotal
  <2>2. ASSUME NEW i \in 0 .. Len(s) - 1, i \in T
        PROVE  i + 1 \in T
    <3>1. g[i + 1] = g[i] + s[i + 1] /\ h[i + 1] = h[i] + s[i + 1]
      BY <1>1 DEF IsTotal
    <3> QED
      BY <2>2, <3>1
  <2> HIDE DEF T
  <2>3. Len(s) \in Nat
    OBVIOUS
  <2>4. \A i \in 0 .. Len(s) : i \in T
    BY <2>1, <2>2, <2>3, UpTo
  <2> QED
    BY <2>4 DEF T
<1> QED
  BY <1>2, <1>3

LEMMA TotalIsNat ==
  ASSUME NEW s \in Seq(Nat)
  PROVE  Total(s) \in Nat
<1>1. s \in Seq(Int)
  OBVIOUS
<1> QED
  BY <1>1, TotalExists, TotalUnique

\* A sum of numbers none of which is above c.
LEMMA TotalAtMost ==
  ASSUME NEW s \in Seq(Int), NEW c \in Int, \A i \in 1 .. Len(s) : s[i] <= c
  PROVE  Total(s) \in Int /\ Total(s) <= Len(s) * c
<1> DEFINE h == CHOOSE f : IsTotal(s, f)
           n == Len(s)
<1>1. IsTotal(s, h)
  BY TotalExists
<1>2. Total(s) = h[n]
  BY DEF Total, IsTotal
<1>3. n \in Nat /\ \A i \in 1 .. n : s[i] \in Int /\ s[i] <= c
  OBVIOUS
<1> HIDE DEF h
<1>4. h[0] = 0 /\ \A i \in 1 .. n : h[i] = h[i - 1] + s[i]
  BY <1>1, <1>3, TotalRuns
<1> HIDE DEF n
<1> DEFINE T == {k \in 0 .. n : h[k] \in Int /\ h[k] <= k * c}
<1>5. 0 \in T
  BY <1>3, <1>4
<1>6. ASSUME NEW k \in 0 .. n - 1, k \in T
      PROVE  k + 1 \in T
  <2>1. k + 1 \in 1 .. n /\ k + 1 \in 0 .. n /\ (k + 1) - 1 = k /\ k \in Nat
    BY <1>3
  <2>2. h[k + 1] = h[k] + s[k + 1] /\ s[k + 1] \in Int /\ s[k + 1] <= c
    BY <1>3, <1>4, <2>1
  <2>3. h[k] \in Int /\ h[k] <= k * c
    BY <1>6
  <2>4. (k + 1) * c = k * c + c /\ k * c \in Int
    BY <2>1
  <2>5. h[k + 1] \in Int /\ h[k + 1] <= (k + 1) * c
    BY <2>2, <2>3, <2>4
  <2> QED
    BY <2>1, <2>5
<1> HIDE DEF T
<1>7. n \in T
  <2>1. \A k \in 0 .. n : k \in T
    BY <1>3, <1>5, <1>6, UpTo
  <2> QED
    BY <1>3, <2>1
<1> QED
  BY <1>2, <1>7 DEF T, n

LEMMA TotalEmpty == Total(<<>>) = 0
<1>1. <<>> \in Seq(Nat) /\ <<>> \in Seq(Int) /\ Len(<<>>) = 0
  OBVIOUS
<1>2. PICK g : IsTotal(<<>>, g)
  BY <1>1, TotalExists
<1>3. Total(<<>>) = g[0]
  BY <1>2, <1>1, TotalUnique
<1> QED
  BY <1>2, <1>1, <1>3 DEF IsTotal

LEMMA TotalAppend ==
  ASSUME NEW s \in Seq(Nat), NEW e \in Nat
  PROVE  Total(Append(s, e)) = Total(s) + e
<1> DEFINE r == Append(s, e)
<1>1. /\ r \in Seq(Nat) /\ r \in Seq(Int) /\ Len(r) = Len(s) + 1 /\ r[Len(s) + 1] = e
      /\ \A i \in 1 .. Len(s) : r[i] = s[i]
  OBVIOUS
<1>2. PICK g : IsTotal(r, g)
  BY <1>1, TotalExists
<1> DEFINE h == [i \in 0 .. Len(s) |-> g[i]]
<1> HIDE DEF r
<1>3. ASSUME NEW i \in 0 .. Len(s)
      PROVE  h[i] = IF i = 0 THEN 0 ELSE h[i - 1] + s[i]
  <2>1. i \in 0 .. Len(r) /\ (i # 0 => i - 1 \in 0 .. Len(s) /\ r[i] = s[i])
    BY <1>1
  <2> QED
    BY <2>1, <1>2 DEF IsTotal
<1>4. IsTotal(s, h)
  <2> DEFINE f == [i \in 0 .. Len(s) |-> IF i = 0 THEN 0 ELSE h[i - 1] + s[i]]
  <2>1. \A i \in 0 .. Len(s) : h[i] = f[i]
    BY <1>3
  <2>2. h = f
    BY <2>1
  <2> QED
    BY <2>2 DEF IsTotal
<1>5. Total(s) = g[Len(s)]
  BY <1>4, TotalUnique
<1>6. Total(r) = g[Len(s) + 1]
  BY <1>1, <1>2, TotalUnique
<1>7. g[Len(s) + 1] = g[Len(s)] + e
  BY <1>1, <1>2 DEF IsTotal
<1> QED
  BY <1>5, <1>6, <1>7 DEF r

LEMMA TotalOne ==
  ASSUME NEW e \in Nat
  PROVE  Total(<<e>>) = e
<1>1. <<e>> = Append(<<>>, e) /\ <<>> \in Seq(Nat)
  OBVIOUS
<1>2. Total(Append(<<>>, e)) = Total(<<>>) + e
  BY <1>1, TotalAppend
<1> QED
  BY <1>1, <1>2, TotalEmpty

LEMMA TotalConcat ==
  ASSUME NEW s \in Seq(Nat), NEW t \in Seq(Nat)
  PROVE  Total(s \o t) = Total(s) + Total(t)
<1> DEFINE T == {u \in Seq(Nat) : Total(s \o u) = Total(s) + Total(u)}
<1>1. <<>> \in T
  <2>1. s \o <<>> = s
    OBVIOUS
  <2> QED
    BY <2>1, TotalEmpty, TotalIsNat
<1>2. ASSUME NEW u \in Seq(Nat), NEW e \in Nat, u \in T
      PROVE  Append(u, e) \in T
  <2>1. s \o Append(u, e) = Append(s \o u, e) /\ s \o u \in Seq(Nat) /\ Append(u, e) \in Seq(Nat)
    OBVIOUS
  <2>2. Total(Append(s \o u, e)) = Total(s \o u) + e /\ Total(Append(u, e)) = Total(u) + e
    BY <2>1, TotalAppend
  <2>3. Total(s) \in Nat /\ Total(u) \in Nat
    BY TotalIsNat
  <2>4. Total(s \o u) = Total(s) + Total(u)
    BY <1>2
  <2>5. Total(s \o Append(u, e)) = Total(s) + Total(Append(u, e))
    BY <2>1, <2>2, <2>3, <2>4
  <2> QED
    BY <2>1, <2>5
<1> HIDE DEF T
<1>3. t \in T
  BY <1>1, <1>2, SeqInduction
<1> QED
  BY <1>3 DEF T

LEMMA TotalFlat ==
  ASSUME NEW n \in Nat, NEW e \in Nat
  PROVE  Total([i \in 1 .. n |-> e]) = n * e
<1> DEFINE T == {k \in Nat : Total([i \in 1 .. k |-> e]) = k * e}
<1>1. 0 \in T
  <2>1. [i \in 1 .. 0 |-> e] = <<>>
    OBVIOUS
  <2> QED
    BY <2>1, TotalEmpty
<1>2. ASSUME NEW k \in Nat, k \in T
      PROVE  k + 1 \in T
  <2>1. [i \in 1 .. k |-> e] \in Seq(Nat) /\ [i \in 1 .. k + 1 |-> e] = Append([i \in 1 .. k |-> e], e)
    OBVIOUS
  <2>2. Total([i \in 1 .. k + 1 |-> e]) = k * e + e
    BY <1>2, <2>1, TotalAppend
  <2> QED
    BY <2>2
<1> HIDE DEF T
<1>3. n \in T
  BY <1>1, <1>2, Induction
<1> QED
  BY <1>3 DEF T

(***************************************************************************)
(* Picked                                                                  *)
(***************************************************************************)
IsPick(s, K, g) ==
  g = [i \in 0 .. Len(s) |-> IF i = 0 THEN <<>>
                            ELSE IF i \in K THEN Append(g[i - 1], s[i]) ELSE g[i - 1]]

LEMMA PickStarts ==
  ASSUME NEW s, NEW K, NEW g, Len(s) \in Nat, IsPick(s, K, g)
  PROVE  g[0] = <<>>
<1>1. 0 \in 0 .. Len(s)
  OBVIOUS
<1> QED
  BY <1>1 DEF IsPick

LEMMA PickRuns ==
  ASSUME NEW s, NEW K, NEW g, Len(s) \in Nat, IsPick(s, K, g), NEW i \in 1 .. Len(s)
  PROVE  g[i] = IF i \in K THEN Append(g[i - 1], s[i]) ELSE g[i - 1]
<1>1. i \in 0 .. Len(s) /\ i # 0
  OBVIOUS
<1> QED
  BY <1>1 DEF IsPick

LEMMA PickExists ==
  ASSUME NEW S, NEW s \in Seq(S), NEW K
  PROVE  \E g \in [0 .. Len(s) -> Seq(S)] : IsPick(s, K, g)
<1> DEFINE n     == Len(s)
           V     == Seq(S)
           empty == <<>>
           step  == [i \in 1 .. n |-> [v \in V |-> IF i \in K THEN Append(v, s[i]) ELSE v]]
<1>1. n \in Nat /\ empty \in V
  OBVIOUS
<1>2. /\ step \in [1 .. n -> [V -> V]]
      /\ \A i \in 1 .. n, v \in V : step[i][v] = IF i \in K THEN Append(v, s[i]) ELSE v
  OBVIOUS
<1> HIDE DEF step, n, V, empty
<1>3. IsLoop(n, V, empty, step)
  BY <1>1, <1>2 DEF IsLoop
<1>4. PICK r : RunsAs(n, V, empty, step, r)
  BY <1>1, <1>3, Recursion
<1>5. PICK g \in [0 .. n -> V] : g[0] = empty /\ \A i \in 1 .. n : g[i] = step[i][g[i - 1]]
  BY <1>4 DEF RunsAs
<1>6. \A i \in 1 .. n : g[i - 1] \in V
  BY <1>1, <1>5
<1>7. \A i \in 1 .. n : g[i] = IF i \in K THEN Append(g[i - 1], s[i]) ELSE g[i - 1]
  BY <1>2, <1>5, <1>6
<1> DEFINE f == [i \in 0 .. n |-> IF i = 0 THEN <<>>
                                 ELSE IF i \in K THEN Append(g[i - 1], s[i]) ELSE g[i - 1]]
<1>8. ASSUME NEW i \in 0 .. n
      PROVE  f[i] = g[i]
  <2>1. CASE i = 0
    BY <1>5, <2>1 DEF empty
  <2>2. CASE i # 0
    <3>1. i \in 1 .. n
      BY <1>1, <2>2
    <3> QED
      BY <1>7, <2>2, <3>1
  <2> QED
    BY <2>1, <2>2
<1>9. f = g
  BY <1>5, <1>8
<1> HIDE DEF f
<1> QED
  BY <1>5, <1>9 DEF IsPick, n, V, f

\* Two loops that pick the same of what both have gone through agree.
LEMMA PicksAgree ==
  ASSUME NEW s, NEW t, NEW K, NEW L, NEW g, NEW h, NEW n \in Nat,
         Len(s) \in Nat, Len(t) \in Nat, n <= Len(s), n <= Len(t),
         IsPick(s, K, g), IsPick(t, L, h),
         \A i \in 1 .. n : s[i] = t[i] /\ (i \in K <=> i \in L)
  PROVE  \A i \in 0 .. n : g[i] = h[i]
<1> DEFINE T == {i \in 0 .. n : g[i] = h[i]}
<1>1. 0 \in T
  <2>1. g[0] = <<>> /\ h[0] = <<>>
    BY PickStarts
  <2> QED
    BY <2>1
<1>2. ASSUME NEW i \in 0 .. n - 1, i \in T
      PROVE  i + 1 \in T
  <2>1. /\ g[i + 1] = IF i + 1 \in K THEN Append(g[i], s[i + 1]) ELSE g[i]
        /\ h[i + 1] = IF i + 1 \in L THEN Append(h[i], t[i + 1]) ELSE h[i]
    <3>1. i + 1 \in 1 .. Len(s) /\ i + 1 \in 1 .. Len(t) /\ (i + 1) - 1 = i
      OBVIOUS
    <3>2. g[i + 1] = IF i + 1 \in K THEN Append(g[(i + 1) - 1], s[i + 1]) ELSE g[(i + 1) - 1]
      BY <3>1, PickRuns
    <3>3. h[i + 1] = IF i + 1 \in L THEN Append(h[(i + 1) - 1], t[i + 1]) ELSE h[(i + 1) - 1]
      BY <3>1, PickRuns
    <3> QED
      BY <3>1, <3>2, <3>3
  <2>2. s[i + 1] = t[i + 1] /\ (i + 1 \in K <=> i + 1 \in L) /\ g[i] = h[i]
    BY <1>2
  <2>3. g[i + 1] = h[i + 1]
    BY <2>1, <2>2
  <2> QED
    BY <2>3
<1> HIDE DEF T
<1>3. \A i \in 0 .. n : i \in T
  BY <1>1, <1>2, UpTo
<1> QED
  BY <1>3 DEF T

LEMMA PickedIs ==
  ASSUME NEW S, NEW s \in Seq(S), NEW K, NEW g, IsPick(s, K, g)
  PROVE  Picked(s, K) = g[Len(s)]
<1> DEFINE h == CHOOSE f : IsPick(s, K, f)
<1>1. IsPick(s, K, h)
  BY PickExists
<1>2. Picked(s, K) = h[Len(s)]
  BY DEF Picked, IsPick
<1>3. Len(s) \in Nat
  OBVIOUS
<1> HIDE DEF h
<1>4. \A i \in 0 .. Len(s) : g[i] = h[i]
  BY <1>1, <1>3, PicksAgree
<1> QED
  BY <1>2, <1>3, <1>4

LEMMA PickedIsSeq ==
  ASSUME NEW S, NEW s \in Seq(S), NEW K
  PROVE  Picked(s, K) \in Seq(S)
<1>1. PICK g \in [0 .. Len(s) -> Seq(S)] : IsPick(s, K, g)
  BY PickExists
<1>2. Picked(s, K) = g[Len(s)] /\ Len(s) \in Nat
  BY <1>1, PickedIs
<1> QED
  BY <1>1, <1>2

LEMMA PickedEmpty ==
  ASSUME NEW K
  PROVE  Picked(<<>>, K) = <<>>
<1>1. <<>> \in Seq({}) /\ Len(<<>>) = 0
  OBVIOUS
<1>2. PICK g : IsPick(<<>>, K, g)
  BY <1>1, PickExists
<1>3. Picked(<<>>, K) = g[0]
  BY <1>1, <1>2, PickedIs
<1> QED
  BY <1>1, <1>2, <1>3, PickStarts

LEMMA PickedSame ==
  ASSUME NEW S, NEW s \in Seq(S), NEW K, NEW L, \A i \in 1 .. Len(s) : i \in K <=> i \in L
  PROVE  Picked(s, K) = Picked(s, L)
<1>1. PICK g : IsPick(s, K, g)
  BY PickExists
<1>2. PICK h : IsPick(s, L, h)
  BY PickExists
<1>3. Len(s) \in Nat
  OBVIOUS
<1>4. \A i \in 0 .. Len(s) : g[i] = h[i]
  BY <1>1, <1>2, <1>3, PicksAgree
<1> QED
  BY <1>1, <1>2, <1>3, <1>4, PickedIs

LEMMA PickedAppend ==
  ASSUME NEW S, NEW s \in Seq(S), NEW e \in S, NEW K
  PROVE  Picked(Append(s, e), K) = IF Len(s) + 1 \in K THEN Append(Picked(s, K), e) ELSE Picked(s, K)
<1> DEFINE r == Append(s, e)
           n == Len(s)
<1>1. /\ r \in Seq(S) /\ Len(r) = n + 1 /\ n \in Nat /\ r[n + 1] = e
      /\ \A i \in 1 .. n : r[i] = s[i]
  OBVIOUS
<1>2. PICK g : IsPick(r, K, g)
  BY <1>1, PickExists
<1>3. PICK h : IsPick(s, K, h)
  BY PickExists
<1> HIDE DEF r
<1>4. \A i \in 0 .. n : g[i] = h[i]
  BY <1>1, <1>2, <1>3, PicksAgree
<1>5. Picked(r, K) = g[n + 1] /\ Picked(s, K) = h[n]
  BY <1>1, <1>2, <1>3, PickedIs
<1>6. g[n + 1] = IF n + 1 \in K THEN Append(g[n], e) ELSE g[n]
  <2>1. n + 1 \in 1 .. Len(r) /\ (n + 1) - 1 = n /\ Len(r) \in Nat
    BY <1>1
  <2>2. g[n + 1] = IF n + 1 \in K THEN Append(g[(n + 1) - 1], r[n + 1]) ELSE g[(n + 1) - 1]
    BY <1>2, <2>1, PickRuns
  <2> QED
    BY <1>1, <2>1, <2>2
<1>7. g[n] = h[n]
  BY <1>1, <1>4
<1> QED
  BY <1>5, <1>6, <1>7 DEF r

\* The elements picked are those at the positions in K, in their order.
LEMMA PickedPositions ==
  ASSUME NEW S, NEW s \in Seq(S), NEW K
  PROVE  \E at \in [1 .. Len(Picked(s, K)) -> {i \in 1 .. Len(s) : i \in K}] :
           /\ \A k \in 1 .. Len(Picked(s, K)) : Picked(s, K)[k] = s[at[k]]
           /\ \A j, k \in 1 .. Len(Picked(s, K)) : j < k => at[j] < at[k]
           /\ \A i \in 1 .. Len(s) : i \in K => \E k \in 1 .. Len(Picked(s, K)) : at[k] = i
<1> DEFINE places(t, at) ==
             /\ at \in [1 .. Len(Picked(t, K)) -> {i \in 1 .. Len(t) : i \in K}]
             /\ \A k \in 1 .. Len(Picked(t, K)) : Picked(t, K)[k] = t[at[k]]
             /\ \A j, k \in 1 .. Len(Picked(t, K)) : j < k => at[j] < at[k]
             /\ \A i \in 1 .. Len(t) : i \in K => \E k \in 1 .. Len(Picked(t, K)) : at[k] = i
           T == {t \in Seq(S) : \E at : places(t, at)}
<1>1. <<>> \in T
  <2>1. Picked(<<>>, K) = <<>> /\ Len(<<>>) = 0 /\ <<>> \in Seq(S)
    BY PickedEmpty
  <2> DEFINE at == [i \in 1 .. 0 |-> 0]
  <2>2. places(<<>>, at)
    BY <2>1
  <2> QED
    BY <2>1, <2>2
<1>2. ASSUME NEW t \in Seq(S), NEW e \in S, t \in T
      PROVE  Append(t, e) \in T
  <2> DEFINE r == Append(t, e)
             n == Len(t)
             p == Picked(t, K)
             m == Len(p)
  <2>1. /\ r \in Seq(S) /\ Len(r) = n + 1 /\ n \in Nat /\ r[n + 1] = e
        /\ \A i \in 1 .. n : r[i] = t[i]
    OBVIOUS
  <2>2. p \in Seq(S) /\ m \in Nat
    BY PickedIsSeq
  <2>3. Picked(r, K) = IF n + 1 \in K THEN Append(p, e) ELSE p
    BY PickedAppend
  <2>4. PICK at : places(t, at)
    BY <1>2
  <2>5. /\ at \in [1 .. m -> {i \in 1 .. n : i \in K}]
        /\ \A k \in 1 .. m : p[k] = t[at[k]]
        /\ \A j, k \in 1 .. m : j < k => at[j] < at[k]
        /\ \A i \in 1 .. n : i \in K => \E k \in 1 .. m : at[k] = i
    BY <2>4
  <2>6. CASE n + 1 \in K
    <3> DEFINE bt == [k \in 1 .. m + 1 |-> IF k <= m THEN at[k] ELSE n + 1]
               q  == Append(p, e)
    <3>1. Picked(r, K) = q /\ Len(q) = m + 1 /\ q[m + 1] = e /\ \A k \in 1 .. m : q[k] = p[k]
      BY <2>2, <2>3, <2>6
    <3> HIDE DEF q, r, n, p, m
    <3>2. \A k \in 1 .. m : bt[k] = at[k] /\ at[k] \in 1 .. n /\ at[k] \in K /\ k \in 1 .. m + 1
      BY <2>2, <2>5
    <3>3. bt[m + 1] = n + 1
      BY <2>2
    <3>4. bt \in [1 .. m + 1 -> {i \in 1 .. n + 1 : i \in K}]
      <4>1. \A k \in 1 .. m + 1 : k \in 1 .. m \/ k = m + 1
        BY <2>2
      <4>2. \A i \in 1 .. n : i \in 1 .. n + 1
        BY <2>1
      <4>3. n + 1 \in 1 .. n + 1
        BY <2>1
      <4> HIDE DEF bt
      <4>4. ASSUME NEW k \in 1 .. m + 1
            PROVE  bt[k] \in 1 .. n + 1 /\ bt[k] \in K
        <5>1. CASE k \in 1 .. m
          BY <3>2, <4>2, <5>1
        <5>2. CASE k = m + 1
          BY <2>6, <3>3, <4>3, <5>2
        <5> QED
          BY <4>1, <5>1, <5>2
      <4> QED
        BY <4>4 DEF bt
    <3> HIDE DEF bt
    <3>5. \A k \in 1 .. m + 1 : k \in 1 .. m \/ k = m + 1
      BY <2>2
    <3>6. ASSUME NEW k \in 1 .. m + 1
          PROVE  q[k] = r[bt[k]]
      <4>1. CASE k \in 1 .. m
        BY <2>1, <2>5, <3>1, <3>2, <4>1
      <4>2. CASE k = m + 1
        BY <2>1, <3>1, <3>3, <4>2
      <4> QED
        BY <3>5, <4>1, <4>2
    <3>7. ASSUME NEW j \in 1 .. m + 1, NEW k \in 1 .. m + 1, j < k
          PROVE  bt[j] < bt[k]
      <4>1. j \in 1 .. m
        BY <2>2, <3>7
      <4>2. CASE k \in 1 .. m
        BY <2>5, <3>2, <3>7, <4>1, <4>2
      <4>3. CASE k = m + 1
        BY <2>1, <3>2, <3>3, <4>1, <4>3
      <4> QED
        BY <3>5, <4>2, <4>3
    <3>8. ASSUME NEW i \in 1 .. n + 1, i \in K
          PROVE  \E k \in 1 .. m + 1 : bt[k] = i
      <4>1. CASE i \in 1 .. n
        <5>1. PICK k \in 1 .. m : at[k] = i
          BY <2>5, <3>8, <4>1
        <5> QED
          BY <3>2, <5>1
      <4>2. CASE i = n + 1
        <5>1. m + 1 \in 1 .. m + 1
          BY <2>2
        <5> QED
          BY <3>3, <4>2, <5>1
      <4> QED
        BY <2>1, <4>1, <4>2
    <3>9. places(r, bt)
      BY <2>1, <3>1, <3>4, <3>6, <3>7, <3>8
    <3> QED
      BY <2>1, <3>9 DEF r
  <2>7. CASE n + 1 \notin K
    <3>1. Picked(r, K) = p
      BY <2>3, <2>7
    <3> HIDE DEF r, n, p, m
    <3>2. \A k \in 1 .. m : at[k] \in 1 .. n /\ at[k] \in K
      BY <2>2, <2>5
    <3>3. at \in [1 .. m -> {i \in 1 .. n + 1 : i \in K}]
      BY <2>1, <2>5, <3>2
    <3>4. \A k \in 1 .. m : p[k] = r[at[k]]
      BY <2>1, <2>5, <3>2
    <3>5. \A i \in 1 .. n + 1 : i \in K => \E k \in 1 .. m : at[k] = i
      BY <2>1, <2>5, <2>7
    <3>6. places(r, at)
      BY <2>1, <2>5, <3>1, <3>3, <3>4, <3>5 DEF m
    <3> QED
      BY <2>1, <3>6 DEF r
  <2> QED
    BY <2>6, <2>7
<1> HIDE DEF T
<1>3. s \in T
  BY <1>1, <1>2, SeqInduction
<1> USE DEF T
<1>4. PICK at : places(s, at)
  BY <1>3
<1> QED
  BY <1>4

(***************************************************************************)
(* FlattenSeq                                                              *)
(***************************************************************************)
IsFlat(ss, g) == g = [i \in 1 .. Len(ss) |-> IF i = 1 THEN ss[i] ELSE g[i - 1] \o ss[i]]

LEMMA FlatStarts ==
  ASSUME NEW ss, NEW g, Len(ss) \in Nat, Len(ss) > 0, IsFlat(ss, g)
  PROVE  g[1] = ss[1]
<1>1. 1 \in 1 .. Len(ss)
  OBVIOUS
<1> QED
  BY <1>1 DEF IsFlat

LEMMA FlatRuns ==
  ASSUME NEW ss, NEW g, Len(ss) \in Nat, IsFlat(ss, g), NEW i \in 2 .. Len(ss)
  PROVE  g[i] = g[i - 1] \o ss[i]
<1>1. i \in 1 .. Len(ss) /\ i # 1
  OBVIOUS
<1> QED
  BY <1>1 DEF IsFlat

LEMMA FlatExists ==
  ASSUME NEW S, NEW ss \in Seq(Seq(S))
  PROVE  \E g \in [1 .. Len(ss) -> Seq(S)] : IsFlat(ss, g)
<1> DEFINE n     == Len(ss)
           V     == Seq(S)
           empty == <<>>
           step  == [i \in 1 .. n |-> [v \in V |-> v \o ss[i]]]
<1>1. n \in Nat /\ empty \in V /\ \A i \in 1 .. n : ss[i] \in V
  OBVIOUS
<1>2. step \in [1 .. n -> [V -> V]]
  OBVIOUS
<1>3. \A i \in 1 .. n, v \in V : step[i][v] = v \o ss[i]
  OBVIOUS
<1>4. \A v \in V : empty \o v = v
  OBVIOUS
<1> HIDE DEF step, n, V, empty
<1>5. IsLoop(n, V, empty, step)
  BY <1>1, <1>2 DEF IsLoop
<1>6. PICK r : RunsAs(n, V, empty, step, r)
  BY <1>1, <1>5, Recursion
<1>7. r \in [0 .. n -> V] /\ r[0] = empty /\ \A i \in 1 .. n : r[i] = step[i][r[i - 1]]
  BY <1>6 DEF RunsAs
<1> DEFINE g == [i \in 1 .. n |-> r[i]]
           f == [i \in 1 .. n |-> IF i = 1 THEN ss[i] ELSE g[i - 1] \o ss[i]]
<1>8. ASSUME NEW i \in 1 .. n
      PROVE  g[i] \in V /\ f[i] = g[i]
  <2>1. i - 1 \in 0 .. n /\ i \in 0 .. n
    BY <1>1
  <2>2. r[i - 1] \in V /\ r[i] \in V
    BY <1>7, <2>1
  <2>3. r[i] = r[i - 1] \o ss[i]
    BY <1>3, <1>7, <2>2
  <2>4. CASE i = 1
    <3>1. r[i - 1] = empty
      BY <1>7, <2>4
    <3>2. r[i] = ss[i]
      BY <1>1, <1>4, <2>3, <3>1
    <3> QED
      BY <2>2, <2>4, <3>2
  <2>5. CASE i # 1
    <3>1. i - 1 \in 1 .. n
      BY <1>1, <2>5
    <3>2. g[i - 1] = r[i - 1]
      BY <3>1
    <3> QED
      BY <2>2, <2>3, <2>5, <3>2
  <2> QED
    BY <2>4, <2>5
<1>9. g \in [1 .. n -> V]
  BY <1>8
<1>10. f = g
  <2>1. \A i \in 1 .. n : f[i] = g[i]
    BY <1>8
  <2> QED
    BY <2>1
<1> HIDE DEF f
<1>11. IsFlat(ss, g)
  BY <1>10 DEF IsFlat, f, n
<1> HIDE DEF g
<1> QED
  BY <1>9, <1>11 DEF n, V

SameUpTo(ss, tt, n) ==
  /\ n \in Nat /\ Len(ss) \in Nat /\ Len(tt) \in Nat /\ n <= Len(ss) /\ n <= Len(tt)
  /\ \A i \in 1 .. n : ss[i] = tt[i]

LEMMA FlatsAgree ==
  ASSUME NEW ss, NEW tt, NEW g, NEW h, NEW n, SameUpTo(ss, tt, n), IsFlat(ss, g), IsFlat(tt, h)
  PROVE  \A i \in 1 .. n : g[i] = h[i]
<1> USE DEF SameUpTo
<1> DEFINE T == {i \in 0 .. n : i > 0 => g[i] = h[i]}
<1>1. 0 \in T
  OBVIOUS
<1>2. ASSUME NEW i \in 0 .. n - 1, i \in T
      PROVE  i + 1 \in T
  <2>1. ss[i + 1] = tt[i + 1]
    OBVIOUS
  <2>2. CASE i = 0
    <3>1. g[1] = ss[1] /\ h[1] = tt[1]
      BY <2>2, FlatStarts
    <3> QED
      BY <2>1, <2>2, <3>1
  <2>3. CASE i # 0
    <3>1. i + 1 \in 2 .. Len(ss) /\ i + 1 \in 2 .. Len(tt) /\ (i + 1) - 1 = i
      BY <2>3
    <3>2. g[i + 1] = g[(i + 1) - 1] \o ss[i + 1] /\ h[i + 1] = h[(i + 1) - 1] \o tt[i + 1]
      BY <3>1, FlatRuns
    <3>3. g[i] = h[i]
      BY <1>2, <2>3
    <3>4. g[i + 1] = h[i + 1]
      BY <2>1, <3>1, <3>2, <3>3
    <3> QED
      BY <3>4
  <2> QED
    BY <2>2, <2>3
<1> HIDE DEF T
<1>3. \A i \in 0 .. n : i \in T
  BY <1>1, <1>2, UpTo
<1> QED
  BY <1>3 DEF T

LEMMA FlattenIs ==
  ASSUME NEW S, NEW ss \in Seq(Seq(S)), NEW g, IsFlat(ss, g), Len(ss) > 0
  PROVE  FlattenSeq(ss) = g[Len(ss)]
<1> DEFINE h == CHOOSE f : IsFlat(ss, f)
<1>1. IsFlat(ss, h)
  BY FlatExists
<1>2. FlattenSeq(ss) = h[Len(ss)]
  BY DEF FlattenSeq, IsFlat
<1>3. Len(ss) \in Nat
  OBVIOUS
<1> HIDE DEF h
<1>4. SameUpTo(ss, ss, Len(ss))
  BY <1>3 DEF SameUpTo
<1>5. \A i \in 1 .. Len(ss) : g[i] = h[i]
  BY <1>1, <1>4, FlatsAgree
<1> QED
  BY <1>2, <1>3, <1>5

LEMMA FlattenEmpty == FlattenSeq(<<>>) = <<>>
<1>1. Len(<<>>) = 0
  OBVIOUS
<1> QED
  BY <1>1 DEF FlattenSeq

LEMMA FlattenIsSeq ==
  ASSUME NEW S, NEW ss \in Seq(Seq(S))
  PROVE  FlattenSeq(ss) \in Seq(S)
<1>1. Len(ss) \in Nat /\ <<>> \in Seq(S)
  OBVIOUS
<1>2. CASE Len(ss) = 0
  <2>1. ss = <<>>
    BY <1>2
  <2> QED
    BY <1>1, <2>1, FlattenEmpty
<1>3. CASE Len(ss) > 0
  <2>1. PICK g \in [1 .. Len(ss) -> Seq(S)] : IsFlat(ss, g)
    BY FlatExists
  <2>2. FlattenSeq(ss) = g[Len(ss)] /\ Len(ss) \in 1 .. Len(ss)
    BY <1>1, <1>3, <2>1, FlattenIs
  <2> QED
    BY <2>1, <2>2
<1> QED
  BY <1>1, <1>2, <1>3

LEMMA FlattenAppend ==
  ASSUME NEW S, NEW ss \in Seq(Seq(S)), NEW e \in Seq(S)
  PROVE  FlattenSeq(Append(ss, e)) = FlattenSeq(ss) \o e
<1> DEFINE tt == Append(ss, e)
           n  == Len(ss)
<1>1. /\ tt \in Seq(Seq(S)) /\ Len(tt) = n + 1 /\ n \in Nat /\ tt[n + 1] = e
      /\ \A i \in 1 .. n : tt[i] = ss[i]
  OBVIOUS
<1>2. PICK g \in [1 .. Len(tt) -> Seq(S)] : IsFlat(tt, g)
  BY <1>1, FlatExists
<1>3. <<>> \o e = e
  OBVIOUS
<1>4. ss = <<>> <=> n = 0
  OBVIOUS
<1> HIDE DEF tt, n
<1>5. Len(tt) > 0 /\ Len(tt) \in Nat
  BY <1>1
<1>6. FlattenSeq(tt) = g[n + 1]
  BY <1>1, <1>2, <1>5, FlattenIs
<1>7. CASE n = 0
  <2>1. g[1] = tt[1]
    BY <1>2, <1>5, FlatStarts
  <2> QED
    BY <1>1, <1>3, <1>4, <1>6, <1>7, <2>1, FlattenEmpty DEF tt
<1>8. CASE n > 0
  <2>1. PICK h : IsFlat(ss, h)
    BY FlatExists
  <2>2. n <= Len(tt) /\ n <= Len(ss) /\ Len(ss) \in Nat /\ Len(ss) > 0
    BY <1>1, <1>8 DEF n
  <2>3. SameUpTo(tt, ss, n)
    BY <1>1, <1>5, <2>2 DEF SameUpTo
  <2>4. \A i \in 1 .. n : g[i] = h[i]
    BY <1>2, <2>1, <2>3, FlatsAgree
  <2>5. FlattenSeq(ss) = h[n]
    BY <2>1, <2>2, FlattenIs DEF n
  <2>6. n + 1 \in 2 .. Len(tt) /\ (n + 1) - 1 = n /\ n \in 1 .. n
    BY <1>1, <1>8
  <2>7. g[n + 1] = g[(n + 1) - 1] \o tt[n + 1]
    BY <1>2, <1>5, <2>6, FlatRuns
  <2> QED
    BY <1>1, <1>6, <2>4, <2>5, <2>6, <2>7 DEF tt
<1> QED
  BY <1>1, <1>7, <1>8

LEMMA FlattenOne ==
  ASSUME NEW S, NEW e \in Seq(S)
  PROVE  FlattenSeq(<<e>>) = e
<1>1. <<>> \in Seq(Seq(S)) /\ Append(<<>>, e) = <<e>> /\ <<>> \o e = e
  OBVIOUS
<1>2. FlattenSeq(Append(<<>>, e)) = FlattenSeq(<<>>) \o e
  BY <1>1, FlattenAppend
<1> QED
  BY <1>1, <1>2, FlattenEmpty

LEMMA FlattenConcat ==
  ASSUME NEW S, NEW ss \in Seq(Seq(S)), NEW tt \in Seq(Seq(S))
  PROVE  FlattenSeq(ss \o tt) = FlattenSeq(ss) \o FlattenSeq(tt)
<1> DEFINE Z == Seq(S)
           T == {uu \in Seq(Z) : FlattenSeq(ss \o uu) = FlattenSeq(ss) \o FlattenSeq(uu)}
<1>1. <<>> \in T
  <2>1. ss \o <<>> = ss /\ <<>> \in Seq(Z)
    OBVIOUS
  <2>2. FlattenSeq(ss) \in Seq(S)
    BY FlattenIsSeq
  <2>3. FlattenSeq(ss) \o <<>> = FlattenSeq(ss)
    BY <2>2
  <2> QED
    BY <2>1, <2>3, FlattenEmpty
<1>2. ASSUME NEW uu \in Seq(Z), NEW e \in Z, uu \in T
      PROVE  Append(uu, e) \in T
  <2>1. /\ ss \o Append(uu, e) = Append(ss \o uu, e)
        /\ ss \o uu \in Seq(Z) /\ Append(uu, e) \in Seq(Z)
    OBVIOUS
  <2>2. FlattenSeq(ss) \in Seq(S) /\ FlattenSeq(uu) \in Seq(S)
    BY FlattenIsSeq
  <2>3. FlattenSeq(Append(ss \o uu, e)) = FlattenSeq(ss \o uu) \o e
    BY <2>1, FlattenAppend
  <2>4. FlattenSeq(Append(uu, e)) = FlattenSeq(uu) \o e
    BY FlattenAppend
  <2>5. (FlattenSeq(ss) \o FlattenSeq(uu)) \o e = FlattenSeq(ss) \o (FlattenSeq(uu) \o e)
    BY <2>2
  <2>6. FlattenSeq(ss \o uu) = FlattenSeq(ss) \o FlattenSeq(uu)
    BY <1>2
  <2> HIDE DEF Z
  <2>7. FlattenSeq(ss \o Append(uu, e)) = FlattenSeq(ss) \o FlattenSeq(Append(uu, e))
    BY <2>1, <2>3, <2>4, <2>5, <2>6
  <2> QED
    BY <2>1, <2>7
<1>3. tt \in Seq(Z)
  OBVIOUS
<1> HIDE DEF T, Z
<1>4. tt \in T
  BY <1>1, <1>2, <1>3, SeqInduction
<1> QED
  BY <1>4 DEF T

\* Nothing is picked where nothing is to be.
LEMMA PickedNone ==
  ASSUME NEW S, NEW s \in Seq(S), NEW K, \A i \in 1 .. Len(s) : i \notin K
  PROVE  Picked(s, K) = <<>>
<1> DEFINE p == Picked(s, K)
<1>1. p \in Seq(S) /\ Len(p) \in Nat
  BY PickedIsSeq
<1>2. PICK at \in [1 .. Len(p) -> {i \in 1 .. Len(s) : i \in K}] :
        \A k \in 1 .. Len(p) : p[k] = s[at[k]]
  BY PickedPositions
<1> HIDE DEF p
<1>3. Len(p) = 0
  BY <1>1, <1>2
<1>4. p = <<>>
  BY <1>1, <1>3
<1> QED
  BY <1>4 DEF p
=============================================================================
