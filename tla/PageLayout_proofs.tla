-------------------------- MODULE PageLayout_proofs --------------------------
(***************************************************************************)
(* Proofs about the way from the lines on a page to its Markdown, for every  *)
(* page: sorting and the recursive cut are permutations, and the parts of    *)
(* the Markdown hold the lines in the order of the blocks.                   *)
(***************************************************************************)
EXTENDS PageLayout, SeqFolds_proofs

(***************************************************************************)
(* Recursion over anything that has a rank                                 *)
(***************************************************************************)
\* step[d][f] is what a recursive definition says of f[d]; it looks at f only
\* where the rank is less.
Recurses(D, V, rank, step) ==
  /\ rank \in [D -> Nat]
  /\ step \in [D -> [[D -> V] -> V]]
  /\ \A d \in D, f \in [D -> V], g \in [D -> V] :
       (\A e \in D : rank[e] < rank[d] => f[e] = g[e]) => step[d][f] = step[d][g]

LEMMA RankedRecursion ==
  ASSUME NEW D, NEW V, NEW v \in V, NEW rank, NEW step, Recurses(D, V, rank, step),
         NEW n \in Nat, \A d \in D : rank[d] < n
  PROVE  \E f \in [D -> V] : \A d \in D : f[d] = step[d][f]
<1> DEFINE T == {k \in Nat : \E f \in [D -> V] : \A d \in D : rank[d] < k => f[d] = step[d][f]}
<1> USE DEF Recurses
<1>1. 0 \in T
  <2>1. [d \in D |-> v] \in [D -> V]
    OBVIOUS
  <2>2. \A d \in D : ~(rank[d] < 0)
    OBVIOUS
  <2> QED
    BY <2>1, <2>2
<1>2. ASSUME NEW k \in Nat, k \in T
      PROVE  k + 1 \in T
  <2>1. PICK f \in [D -> V] : \A d \in D : rank[d] < k => f[d] = step[d][f]
    BY <1>2
  <2> DEFINE g == [d \in D |-> step[d][f]]
  <2>2. g \in [D -> V]
    OBVIOUS
  <2>3. \A d \in D : rank[d] < k => f[d] = g[d]
    BY <2>1
  <2>4. ASSUME NEW d \in D, rank[d] < k + 1
        PROVE  g[d] = step[d][g]
    <3>1. \A e \in D : rank[e] < rank[d] => f[e] = g[e]
      BY <2>3, <2>4
    <3>2. step[d][f] = step[d][g]
      BY <2>2, <3>1
    <3> QED
      BY <3>2
  <2> HIDE DEF g
  <2> QED
    BY <2>2, <2>4
<1> HIDE DEF T
<1>3. n \in T
  BY <1>1, <1>2, Induction
<1> QED
  BY <1>3 DEF T

(***************************************************************************)
(* The least of a finite set                                               *)
(***************************************************************************)
LEMMA FiniteLeast ==
  ASSUME NEW S, IsFiniteSet(S), S # {}, NEW f \in [S -> Int]
  PROVE  \E s \in S : \A t \in S : f[s] <= f[t]
<1> DEFINE T == {n \in Nat : \A Q \in SUBSET S : Cardinality(Q) = n /\ Q # {} =>
                   \E s \in Q : \A t \in Q : f[s] <= f[t]}
<1>1. \A Q \in SUBSET S : IsFiniteSet(Q) /\ Cardinality(Q) \in Nat
  BY FS_Subset, FS_CardinalityType
<1>2. 0 \in T
  BY <1>1, FS_EmptySet
<1>3. ASSUME NEW n \in Nat, n \in T
      PROVE  n + 1 \in T
  <2>1. SUFFICES ASSUME NEW Q \in SUBSET S, Cardinality(Q) = n + 1, Q # {}
                 PROVE  \E s \in Q : \A t \in Q : f[s] <= f[t]
    OBVIOUS
  <2>2. PICK q \in Q : TRUE
    BY <2>1
  <2>3. Cardinality(Q \ {q}) = n
    BY <1>1, <2>1, FS_RemoveElement
  <2>4. CASE Q \ {q} = {}
    BY <2>4
  <2>5. CASE Q \ {q} # {}
    <3>1. PICK s \in Q \ {q} : \A t \in Q \ {q} : f[s] <= f[t]
      BY <1>3, <2>3, <2>5
    <3>2. CASE f[s] <= f[q]
      BY <3>1, <3>2
    <3>3. CASE ~(f[s] <= f[q])
      <4>1. f[s] \in Int /\ f[q] \in Int
        OBVIOUS
      <4>2. \A t \in Q : f[q] <= f[t]
        BY <3>1, <3>3, <4>1
      <4> QED
        BY <4>2
    <3> QED
      BY <3>2, <3>3
  <2> QED
    BY <2>4, <2>5
<1> HIDE DEF T
<1>4. \A n \in Nat : n \in T
  BY <1>2, <1>3, Induction
<1>5. Cardinality(S) \in T
  BY <1>1, <1>4
<1> QED
  BY <1>5 DEF T

LEMMA FiniteImage ==
  ASSUME NEW S, IsFiniteSet(S), NEW f, DOMAIN f = S
  PROVE  IsFiniteSet({f[s] : s \in S})
<1> DEFINE T == {f[s] : s \in S}
           g == [s \in S |-> f[s]]
<1>1. g \in [S -> T] /\ \A t \in T : \E s \in S : g[s] = t
  OBVIOUS
<1> HIDE DEF g, T
<1>2. g \in Surjection(S, T)
  BY <1>1 DEF Surjection
<1>3. IsFiniteSet(T)
  BY <1>2, FS_Surjection
<1> QED
  BY <1>3 DEF T

LEMMA MinOf ==
  ASSUME NEW S, IsFiniteSet(S), S # {}, S \subseteq Int
  PROVE  Min(S) \in S /\ \A t \in S : Min(S) <= t
<1> DEFINE f == [s \in S |-> s]
<1>1. f \in [S -> Int] /\ \A s \in S : f[s] = s
  OBVIOUS
<1> HIDE DEF f
<1>2. \E s \in S : \A t \in S : f[s] <= f[t]
  BY <1>1, FiniteLeast
<1>3. \E s \in S : \A t \in S : s <= t
  BY <1>1, <1>2
<1> QED
  BY <1>3 DEF Min

LEMMA MaxOf ==
  ASSUME NEW S, IsFiniteSet(S), S # {}, S \subseteq Int
  PROVE  Max(S) \in S /\ \A t \in S : t <= Max(S)
<1> DEFINE f == [s \in S |-> 0 - s]
<1>1. f \in [S -> Int]
  OBVIOUS
<1>2. PICK s \in S : \A t \in S : f[s] <= f[t]
  BY <1>1, FiniteLeast
<1>3. \A t \in S : s >= t
  BY <1>2
<1> QED
  BY <1>3 DEF Max

(***************************************************************************)
(* Sorting                                                                 *)
(***************************************************************************)
ComesFirst(key, s, t) == key[s][1] < key[t][1] \/ (key[s][1] = key[t][1] /\ key[s][2] <= key[t][2])

LEMMA FirstIs ==
  ASSUME NEW S, IsFiniteSet(S), S # {}, NEW key, \A s \in S : key[s][1] \in Int /\ key[s][2] \in Int
  PROVE  First(S, key) \in S /\ \A t \in S : ComesFirst(key, First(S, key), t)
<1> DEFINE f == [s \in S |-> key[s][1]]
           L == {s \in S : \A t \in S : key[s][1] <= key[t][1]}
           g == [s \in L |-> key[s][2]]
<1>1. f \in [S -> Int] /\ \A s \in S : f[s] = key[s][1]
  OBVIOUS
<1> HIDE DEF f
<1>2. \E s \in S : \A t \in S : f[s] <= f[t]
  BY <1>1, FiniteLeast
<1>3. L # {}
  BY <1>1, <1>2
<1>4. IsFiniteSet(L)
  BY FS_Subset
<1>5. g \in [L -> Int] /\ \A s \in L : g[s] = key[s][2]
  OBVIOUS
<1>6. \A s \in L, t \in S : key[s][1] < key[t][1] \/ (key[s][1] = key[t][1] /\ t \in L)
  OBVIOUS
<1>7. L \subseteq S
  OBVIOUS
<1> HIDE DEF g, L
<1>8. PICK s \in L : \A t \in L : g[s] <= g[t]
  BY <1>3, <1>4, <1>5, FiniteLeast
<1>9. \A t \in S : ComesFirst(key, s, t)
  BY <1>5, <1>6, <1>8 DEF ComesFirst
<1>10. \E m \in S : \A t \in S : ComesFirst(key, m, t)
  BY <1>7, <1>9
<1> QED
  BY <1>10 DEF First, ComesFirst

LEMMA RangeIs ==
  ASSUME NEW S, NEW s \in Seq(S)
  PROVE  Range(s) = {s[i] : i \in 1 .. Len(s)} /\ Range(s) \subseteq S
BY DEF Range

\* What the loop of Sorted holds after i turns.
SortedSoFar(S, key, v, i) ==
  /\ v \in Seq(S) /\ Len(v) = i
  /\ IsFiniteSet(Range(v)) /\ Cardinality(Range(v)) = i
  /\ \A j, k \in 1 .. i : j # k => v[j] # v[k]
  /\ \A j, k \in 1 .. i : j < k => ComesFirst(key, v[j], v[k])
  /\ \A j \in 1 .. i : \A t \in S \ Range(v) : ComesFirst(key, v[j], t)

IsKey(S, key) == \A s \in S : key[s][1] \in Int /\ key[s][2] \in Int

LEMMA SortsOneMore ==
  ASSUME NEW S, IsFiniteSet(S), NEW key, IsKey(S, key), NEW v, NEW i \in Nat,
         SortedSoFar(S, key, v, i), i < Cardinality(S)
  PROVE  /\ First(S \ Range(v), key) \in S
         /\ SortedSoFar(S, key, Append(v, First(S \ Range(v), key)), i + 1)
<1> DEFINE R == S \ Range(v)
           m == First(R, key)
           w == Append(v, m)
<1> USE DEF IsKey
<1>1. v \in Seq(S) /\ Len(v) = i /\ Range(v) = {v[j] : j \in 1 .. i} /\ Range(v) \subseteq S
  BY RangeIs DEF SortedSoFar
<1>2. R # {}
  <2>1. SUFFICES ASSUME R = {} PROVE FALSE
    OBVIOUS
  <2>2. Range(v) = S
    BY <1>1, <2>1
  <2> QED
    BY <2>2 DEF SortedSoFar
<1>3. IsFiniteSet(R)
  BY FS_Subset
<1>4. m \in R /\ \A t \in R : ComesFirst(key, m, t)
  BY <1>2, <1>3, FirstIs
<1> HIDE DEF m
<1>5. /\ w \in Seq(S) /\ Len(w) = i + 1 /\ w[i + 1] = m
      /\ \A j \in 1 .. i : w[j] = v[j]
  BY <1>1, <1>4, AppendIs
<1>6. Range(w) = Range(v) \cup {m}
  <2>1. Range(w) = {w[j] : j \in 1 .. i + 1}
    BY <1>5, RangeIs
  <2>2. \A j : j \in 1 .. i + 1 <=> (j \in 1 .. i \/ j = i + 1)
    OBVIOUS
  <2> HIDE DEF w, R
  <2> QED
    BY <1>1, <1>5, <2>1, <2>2
<1>7. IsFiniteSet(Range(w)) /\ Cardinality(Range(w)) = i + 1
  BY <1>4, <1>6, FS_AddElement DEF SortedSoFar
<1>8. \A j \in 1 .. i + 1 : j \in 1 .. i \/ j = i + 1
  OBVIOUS
<1>9. \A j \in 1 .. i : v[j] # m
  BY <1>1, <1>4
<1>10. \A j, k \in 1 .. i + 1 : j # k => w[j] # w[k]
  BY <1>5, <1>8, <1>9 DEF SortedSoFar
<1>11. \A j, k \in 1 .. i + 1 : j < k => ComesFirst(key, w[j], w[k])
  <2>1. TAKE j \in 1 .. i + 1, k \in 1 .. i + 1
  <2>2. HAVE j < k
  <2>3. j \in 1 .. i
    BY <2>2
  <2>4. CASE k \in 1 .. i
    BY <1>5, <2>2, <2>3, <2>4 DEF SortedSoFar
  <2>5. CASE k = i + 1
    BY <1>4, <1>5, <2>3, <2>5 DEF SortedSoFar
  <2> QED
    BY <1>8, <2>4, <2>5
<1>12. \A j \in 1 .. i + 1 : \A t \in S \ Range(w) : ComesFirst(key, w[j], t)
  BY <1>4, <1>5, <1>6, <1>8 DEF SortedSoFar
<1> QED
  BY <1>4, <1>5, <1>7, <1>10, <1>11, <1>12 DEF SortedSoFar, m

IsSort(S, key, g) ==
  g = [i \in 0 .. Cardinality(S) |->
         IF i = 0 THEN <<>> ELSE Append(g[i - 1], First(S \ Range(g[i - 1]), key))]

LEMMA SortStarts ==
  ASSUME NEW S, IsFiniteSet(S), NEW key
  PROVE  SortedSoFar(S, key, <<>>, 0)
<1>1. Range(<<>>) = {}
  BY DEF Range
<1>2. IsFiniteSet({}) /\ Cardinality({}) = 0
  BY FS_EmptySet
<1>3. <<>> \in Seq(S) /\ Len(<<>>) = 0 /\ \A j : j \notin 1 .. 0
  OBVIOUS
<1> QED
  BY <1>1, <1>2, <1>3 DEF SortedSoFar

LEMMA SortExists ==
  ASSUME NEW S, IsFiniteSet(S), NEW key, IsKey(S, key)
  PROVE  \E g : IsSort(S, key, g)
<1> DEFINE n     == Cardinality(S)
           V     == Seq(S)
           empty == <<>>
           more(v) == First(S \ Range(v), key)
           step  == [i \in 1 .. n |-> [v \in V |-> IF more(v) \in S THEN Append(v, more(v)) ELSE v]]
<1>1. n \in Nat /\ empty \in V
  BY FS_CardinalityType
<1>2. \A v \in V : (IF more(v) \in S THEN Append(v, more(v)) ELSE v) \in V
  OBVIOUS
<1> HIDE DEF more, V, n
<1>3. IsLoop(n, V, empty, step)
  BY <1>1, <1>2 DEF IsLoop
<1>4. \A i \in 1 .. n, v \in V : step[i][v] = IF more(v) \in S THEN Append(v, more(v)) ELSE v
  OBVIOUS
<1> HIDE DEF step
<1>5. PICK g : RunsAs(n, V, empty, step, g)
  BY <1>1, <1>3, Recursion
<1> DEFINE T == {i \in 0 .. n : SortedSoFar(S, key, g[i], i)}
<1>6. 0 \in T
  BY <1>1, <1>5, SortStarts DEF RunsAs
<1>7. ASSUME NEW i \in 0 .. n - 1, i \in T
      PROVE  more(g[i]) \in S /\ g[i + 1] = Append(g[i], more(g[i])) /\ i + 1 \in T
  <2>1. i \in Nat /\ i < n /\ i + 1 \in 1 .. n /\ (i + 1) - 1 = i /\ i \in 0 .. n /\ i + 1 \in 0 .. n
    BY <1>1
  <2>2. SortedSoFar(S, key, g[i], i)
    BY <1>7
  <2>3. more(g[i]) \in S /\ SortedSoFar(S, key, Append(g[i], more(g[i])), i + 1)
    BY <2>1, <2>2, SortsOneMore DEF n, more
  <2>4. g[i] \in V
    BY <1>5, <2>1 DEF RunsAs
  <2>5. g[i + 1] = step[i + 1][g[i]]
    BY <1>5, <2>1 DEF RunsAs
  <2> QED
    BY <1>4, <2>1, <2>3, <2>4, <2>5
<1> HIDE DEF T
<1>8. \A i \in 0 .. n : i \in T
  BY <1>1, <1>6, <1>7, UpTo
<1>9. \A i \in 1 .. n : g[i] = Append(g[i - 1], more(g[i - 1]))
  <2>1. TAKE i \in 1 .. n
  <2>2. PICK j \in 0 .. n - 1 : i = j + 1 /\ i - 1 = j /\ j \in 0 .. n
    BY <1>1
  <2> QED
    BY <1>7, <1>8, <2>2
<1>10. g = [i \in 0 .. n |-> IF i = 0 THEN <<>> ELSE Append(g[i - 1], more(g[i - 1]))]
  <2>1. \A i \in 0 .. n : i # 0 => i \in 1 .. n
    BY <1>1
  <2> QED
    BY <1>5, <1>9, <2>1 DEF RunsAs
<1> QED
  BY <1>10 DEF IsSort, more, n

\* A sorted set is a permutation of it, in the order of its keys.
LEMMA SortedIs ==
  ASSUME NEW S, IsFiniteSet(S), NEW key, IsKey(S, key)
  PROVE  /\ Sorted(S, key) \in Seq(S) /\ Len(Sorted(S, key)) = Cardinality(S)
         /\ Range(Sorted(S, key)) = S
         /\ \A j, k \in 1 .. Len(Sorted(S, key)) : j # k => Sorted(S, key)[j] # Sorted(S, key)[k]
         /\ \A j, k \in 1 .. Len(Sorted(S, key)) :
              j < k => ComesFirst(key, Sorted(S, key)[j], Sorted(S, key)[k])
<1> DEFINE h == CHOOSE g : IsSort(S, key, g)
           n == Cardinality(S)
<1>1. IsSort(S, key, h)
  BY SortExists
<1>2. Sorted(S, key) = h[n]
  BY DEF Sorted, IsSort
<1>3. n \in Nat
  BY FS_CardinalityType
<1> HIDE DEF h
<1>4. h = [i \in 0 .. n |-> IF i = 0 THEN <<>> ELSE Append(h[i - 1], First(S \ Range(h[i - 1]), key))]
  BY <1>1 DEF IsSort
<1> HIDE DEF n
<1> DEFINE T == {i \in 0 .. n : SortedSoFar(S, key, h[i], i)}
<1>5. 0 \in T
  BY <1>3, <1>4, SortStarts
<1>6. ASSUME NEW i \in 0 .. n - 1, i \in T
      PROVE  i + 1 \in T
  <2>1. i \in Nat /\ i < n /\ i + 1 \in 0 .. n /\ i + 1 # 0 /\ (i + 1) - 1 = i
    BY <1>3
  <2>2. h[i + 1] = Append(h[i], First(S \ Range(h[i]), key))
    BY <1>4, <2>1
  <2>3. SortedSoFar(S, key, h[i], i)
    BY <1>6
  <2>4. SortedSoFar(S, key, Append(h[i], First(S \ Range(h[i]), key)), i + 1)
    BY <2>1, <2>3, SortsOneMore DEF n
  <2> QED
    BY <2>1, <2>2, <2>4
<1> HIDE DEF T
<1>7. \A i \in 0 .. n : i \in T
  BY <1>3, <1>5, <1>6, UpTo
<1>8. SortedSoFar(S, key, Sorted(S, key), n)
  BY <1>2, <1>3, <1>7 DEF T
<1>9. Range(Sorted(S, key)) = S
  <2>1. Range(Sorted(S, key)) \subseteq S
    BY <1>8, RangeIs DEF SortedSoFar
  <2> QED
    BY <1>8, <2>1, FS_Subset DEF SortedSoFar, n
<1> QED
  BY <1>8, <1>9 DEF SortedSoFar, n
(***************************************************************************)
(* Gaps                                                                    *)
(***************************************************************************)
AreIntervals(I) == IsFiniteSet(I) /\ \A i \in I : i[1] \in Int /\ i[2] \in Int /\ i[1] < i[2]

LEMMA ReachIs ==
  ASSUME NEW I, AreIntervals(I), NEW s, \E i \in I : i[1] < s
  PROVE  Reach(I, s) \in Int /\ \A i \in I : i[1] < s => i[2] <= Reach(I, s)
<1> DEFINE J == {j \in I : j[1] < s}
           E == {i[2] : i \in J}
<1>1. IsFiniteSet(J)
  BY FS_Subset DEF AreIntervals
<1>2. IsFiniteSet(E)
  <2> DEFINE f == [j \in J |-> j[2]]
  <2>1. DOMAIN f = J /\ E = {f[j] : j \in J}
    OBVIOUS
  <2> HIDE DEF f, E, J
  <2> QED
    BY <1>1, <2>1, FiniteImage
<1>3. E # {} /\ E \subseteq Int /\ \A i \in I : i[1] < s => i[2] \in E
  BY DEF AreIntervals
<1>4. Reach(I, s) = Max(E)
  BY DEF Reach
<1> HIDE DEF E
<1> QED
  BY <1>2, <1>3, <1>4, MaxOf

\* The widest gap is at the start of an interval, after some others.
LEMMA WidestIs ==
  ASSUME NEW I, AreIntervals(I), Gaps(I) # {}
  PROVE  Widest(I, Gaps(I)) \in Gaps(I) /\ Widest(I, Gaps(I)) \in Int
<1> DEFINE G == Gaps(I)
           f == [s \in G |-> Reach(I, s) - s]
           W == {s \in G : \A t \in G : t - Reach(I, t) <= s - Reach(I, s)}
<1>1. \A s \in G : s \in Int /\ Reach(I, s) \in Int
  BY ReachIs DEF Gaps, AreIntervals
<1>2. IsFiniteSet(G)
  <2>1. IsFiniteSet({i[1] : i \in I})
    <3> DEFINE h == [i \in I |-> i[1]]
    <3>1. DOMAIN h = I /\ {i[1] : i \in I} = {h[i] : i \in I} /\ IsFiniteSet(I)
      BY DEF AreIntervals
    <3> HIDE DEF h
    <3> QED
      BY <3>1, FiniteImage
  <2>2. G \subseteq {i[1] : i \in I}
    BY DEF Gaps
  <2> QED
    BY <2>1, <2>2, FS_Subset
<1> HIDE DEF G
<1>3. f \in [G -> Int] /\ \A s \in G : f[s] = Reach(I, s) - s
  BY <1>1
<1> HIDE DEF f
<1>4. G # {}
  BY DEF G
<1>5. PICK s \in G : \A t \in G : f[s] <= f[t]
  BY <1>2, <1>3, <1>4, FiniteLeast
<1>6. \A t \in G : t - Reach(I, t) <= s - Reach(I, s)
  <2>1. TAKE t \in G
  <2>2. f[s] <= f[t] /\ f[s] = Reach(I, s) - s /\ f[t] = Reach(I, t) - t
    BY <1>3, <1>5
  <2> QED
    BY <1>1, <2>2
<1>7. W # {} /\ IsFiniteSet(W)
  BY <1>2, <1>6, FS_Subset
<1>8. W \subseteq G /\ W \subseteq Int
  BY <1>1
<1>9. Widest(I, G) = Min(W)
  BY DEF Widest
<1> HIDE DEF W
<1>10. Min(W) \in W
  BY <1>7, <1>8, MinOf
<1> QED
  BY <1>8, <1>9, <1>10 DEF G

\* A cut at number s, between some intervals that end before it and others
\* that start there or later; centre is twice the cut.
CutsAt(I, s, centre) ==
  /\ \A i \in I : i[1] < s => i[2] < s /\ i[1] + i[2] < centre
  /\ \A i \in I : i[1] >= s => i[1] + i[2] >= centre
  /\ \E i \in I : i[1] < s
  /\ \E i \in I : i[1] >= s

LEMMA LargestGapIs ==
  ASSUME NEW I, AreIntervals(I)
  PROVE  /\ LargestGap(I).size \in Nat /\ LargestGap(I).cut \in Int
         /\ LargestGap(I).size > 0 => \E s \in Int : CutsAt(I, s, LargestGap(I).cut)
<1>1. CASE Gaps(I) = {}
  BY <1>1 DEF LargestGap
<1>2. CASE Gaps(I) # {}
  <2> DEFINE s == Widest(I, Gaps(I))
             r == Reach(I, s)
  <2>1. s \in Gaps(I) /\ s \in Int
    BY <1>2, WidestIs
  <2>2. LargestGap(I) = [size |-> s - r, cut |-> s + r]
    BY <1>2 DEF LargestGap, GapAt
  <2> HIDE DEF s
  <2>3. (\E i \in I : i[1] = s) /\ (\E i \in I : i[1] < s) /\ r < s
    BY <2>1 DEF Gaps
  <2>4. r \in Int /\ \A i \in I : i[1] < s => i[2] <= r
    BY <2>3, ReachIs
  <2> HIDE DEF r
  <2>5. \A i \in I : i[1] \in Int /\ i[2] \in Int /\ i[1] < i[2]
    BY DEF AreIntervals
  <2>6. CutsAt(I, s, s + r)
    BY <2>1, <2>3, <2>4, <2>5 DEF CutsAt
  <2> QED
    BY <2>1, <2>2, <2>3, <2>4, <2>6
<1> QED
  BY <1>1, <1>2

(***************************************************************************)
(* The cut                                                                 *)
(***************************************************************************)
AreBlocks(B) ==
  /\ IsFiniteSet(B)
  /\ \A b \in B : /\ b.x0 \in Int /\ b.x1 \in Int /\ b.x0 < b.x1
                  /\ b.y0 \in Int /\ b.y1 \in Int /\ b.y0 < b.y1

\* One block starts above another in the same column.
Over(a, b) == a.y0 < b.y0 /\ a.x0 < b.x1 /\ b.x0 < a.x1

WideOf(B) == {<<b.x0, b.x1>> : b \in B}
HighOf(B) == {<<b.y0, b.y1>> : b \in B}

SidesOf(B) == Sides(B, LargestGap(WideOf(B)), LargestGap(HighOf(B)))

\* Two sides of B, of which the first is read first.
Parted(B, A) == /\ A \subseteq B /\ A # {} /\ A # B
                /\ \A a, b \in B : Over(a, b) /\ b \in A => a \in A

LEMMA SidesPart ==
  ASSUME NEW B, AreBlocks(B), LineHeight \in Nat \ {0}
  PROVE  SidesOf(B) = <<>> \/ \E A \in SUBSET B : Parted(B, A) /\ SidesOf(B) = <<A, B \ A>>
<1> DEFINE gx == LargestGap(WideOf(B))
           gy == LargestGap(HighOf(B))
           left == {b \in B : b.x0 + b.x1 < gx.cut}
           top  == {b \in B : b.y0 + b.y1 < gy.cut}
<1>1. SidesOf(B) = IF gx.size >= LineHeight /\ gx.size > gy.size THEN <<left, B \ left>>
                   ELSE IF gy.size > 0 THEN <<top, B \ top>> ELSE <<>>
  BY DEF SidesOf, Sides
<1>2. AreIntervals(WideOf(B))
  <2>1. IsFiniteSet(WideOf(B))
    <3> DEFINE h == [b \in B |-> <<b.x0, b.x1>>]
    <3>1. DOMAIN h = B /\ WideOf(B) = {h[b] : b \in B} /\ IsFiniteSet(B)
      BY DEF WideOf, AreBlocks
    <3> HIDE DEF h
    <3> QED
      BY <3>1, FiniteImage
  <2> QED
    BY <2>1 DEF AreIntervals, AreBlocks, WideOf
<1>3. AreIntervals(HighOf(B))
  <2>1. IsFiniteSet(HighOf(B))
    <3> DEFINE h == [b \in B |-> <<b.y0, b.y1>>]
    <3>1. DOMAIN h = B /\ HighOf(B) = {h[b] : b \in B} /\ IsFiniteSet(B)
      BY DEF HighOf, AreBlocks
    <3> HIDE DEF h
    <3> QED
      BY <3>1, FiniteImage
  <2> QED
    BY <2>1 DEF AreIntervals, AreBlocks, HighOf
<1>4. gx.size \in Nat /\ gx.cut \in Int /\ gy.size \in Nat /\ gy.cut \in Int
  BY <1>2, <1>3, LargestGapIs
<1>5. ASSUME gx.size > 0
      PROVE  Parted(B, left)
  <2>1. PICK s \in Int : CutsAt(WideOf(B), s, gx.cut)
    BY <1>2, <1>5, LargestGapIs
  <2> HIDE DEF gx, gy
  <2>2. \A b \in B : /\ <<b.x0, b.x1>> \in WideOf(B)
                     /\ <<b.x0, b.x1>>[1] = b.x0 /\ <<b.x0, b.x1>>[2] = b.x1
    BY DEF WideOf
  <2>3. \A b \in B : /\ b.x0 < s => b.x1 < s /\ b.x0 + b.x1 < gx.cut
                     /\ b.x0 >= s => b.x0 + b.x1 >= gx.cut
    BY <2>1, <2>2 DEF CutsAt
  <2>4. (\E b \in B : b.x0 < s) /\ (\E b \in B : b.x0 >= s)
    BY <2>1 DEF CutsAt, WideOf
  <2>5. \A b \in B : b.x0 \in Int /\ b.x1 \in Int /\ b.x0 < b.x1
    BY DEF AreBlocks
  <2>6. \A b \in B : b \in left <=> b.x0 < s
    BY <1>4, <2>3, <2>5
  <2> HIDE DEF left
  <2>7. \A a, b \in B : Over(a, b) /\ b.x0 < s => a.x0 < s
    BY <2>3, <2>5 DEF Over
  <2>8. left # {} /\ left # B
    BY <2>4, <2>5, <2>6
  <2>9. left \subseteq B
    BY DEF left
  <2> QED
    BY <2>6, <2>7, <2>8, <2>9 DEF Parted
<1>6. ASSUME gy.size > 0
      PROVE  Parted(B, top)
  <2>1. PICK s \in Int : CutsAt(HighOf(B), s, gy.cut)
    BY <1>3, <1>6, LargestGapIs
  <2> HIDE DEF gx, gy
  <2>2. \A b \in B : /\ <<b.y0, b.y1>> \in HighOf(B)
                     /\ <<b.y0, b.y1>>[1] = b.y0 /\ <<b.y0, b.y1>>[2] = b.y1
    BY DEF HighOf
  <2>3. \A b \in B : /\ b.y0 < s => b.y1 < s /\ b.y0 + b.y1 < gy.cut
                     /\ b.y0 >= s => b.y0 + b.y1 >= gy.cut
    BY <2>1, <2>2 DEF CutsAt
  <2>4. (\E b \in B : b.y0 < s) /\ (\E b \in B : b.y0 >= s)
    BY <2>1 DEF CutsAt, HighOf
  <2>5. \A b \in B : b.y0 \in Int /\ b.y1 \in Int /\ b.y0 < b.y1
    BY DEF AreBlocks
  <2>6. \A b \in B : b \in top <=> b.y0 < s
    BY <1>4, <2>3, <2>5
  <2> HIDE DEF top
  <2>7. \A a, b \in B : Over(a, b) /\ b.y0 < s => a.y0 < s
    BY <2>3, <2>5 DEF Over
  <2>8. top # {} /\ top # B
    BY <2>4, <2>5, <2>6
  <2>9. top \subseteq B
    BY DEF top
  <2> QED
    BY <2>6, <2>7, <2>8, <2>9 DEF Parted
<1>7. left \subseteq B /\ top \subseteq B
  OBVIOUS
<1> HIDE DEF gx, gy, left, top
<1>8. CASE gx.size >= LineHeight /\ gx.size > gy.size
  <2>1. gx.size > 0
    BY <1>4, <1>8
  <2> QED
    BY <1>1, <1>5, <1>7, <1>8, <2>1
<1>9. CASE ~(gx.size >= LineHeight /\ gx.size > gy.size) /\ gy.size > 0
  BY <1>1, <1>6, <1>7, <1>9
<1>10. CASE ~(gx.size >= LineHeight /\ gx.size > gy.size) /\ ~(gy.size > 0)
  BY <1>1, <1>10
<1> QED
  BY <1>8, <1>9, <1>10

\* A list of groups holds each block of B in one group, and no block after
\* one it is above.
GroupsOf(u, B) ==
  /\ u \in Seq(SUBSET B)
  /\ \A b \in B : \E i \in 1 .. Len(u) : b \in u[i]
  /\ \A i, j \in 1 .. Len(u) : i # j => u[i] \cap u[j] = {}
  /\ \A i, j \in 1 .. Len(u) : \A a \in u[i], b \in u[j] : Over(a, b) => i <= j

LEMMA OneGroup ==
  ASSUME NEW B
  PROVE  GroupsOf(<<B>>, B)
<1>1. <<B>> \in Seq(SUBSET B) /\ Len(<<B>>) = 1 /\ <<B>>[1] = B
  OBVIOUS
<1>2. \A i \in 1 .. 1 : i = 1
  OBVIOUS
<1> QED
  BY <1>1, <1>2 DEF GroupsOf

LEMMA GroupsJoin ==
  ASSUME NEW B, NEW A, Parted(B, A), NEW u, GroupsOf(u, A), NEW v, GroupsOf(v, B \ A)
  PROVE  GroupsOf(u \o v, B)
<1> DEFINE w == u \o v
           m == Len(u)
           n == Len(v)
<1>1. u \in Seq(SUBSET A) /\ v \in Seq(SUBSET (B \ A)) /\ A \subseteq B
  BY DEF GroupsOf, Parted
<1>2. u \in Seq(SUBSET B) /\ v \in Seq(SUBSET B)
  BY <1>1
<1>3. /\ w \in Seq(SUBSET B) /\ Len(w) = m + n
      /\ \A i \in 1 .. m : w[i] = u[i]
      /\ \A i \in 1 .. n : w[m + i] = v[i]
  BY <1>2, ConcatIs
<1>4. m \in Nat /\ n \in Nat /\ (\A i \in 1 .. m : u[i] \subseteq A) /\ \A i \in 1 .. n : v[i] \subseteq B \ A
  BY <1>1
<1>5. /\ \A b \in A : \E i \in 1 .. m : b \in u[i]
      /\ \A b \in B \ A : \E i \in 1 .. n : b \in v[i]
      /\ \A i, j \in 1 .. m : i # j => u[i] \cap u[j] = {}
      /\ \A i, j \in 1 .. n : i # j => v[i] \cap v[j] = {}
      /\ \A i, j \in 1 .. m : \A a \in u[i], b \in u[j] : Over(a, b) => i <= j
      /\ \A i, j \in 1 .. n : \A a \in v[i], b \in v[j] : Over(a, b) => i <= j
  BY DEF GroupsOf
<1>6. \A a, b \in B : Over(a, b) /\ b \in A => a \in A
  BY DEF Parted
<1> HIDE DEF w, m, n
<1>7. \A i \in 1 .. m + n : i \in 1 .. m \/ \E k \in 1 .. n : i = m + k
  <2>1. TAKE i \in 1 .. m + n
  <2>2. CASE i > m
    <3>1. i - m \in 1 .. n /\ i = m + (i - m)
      BY <1>4, <2>2
    <3> QED
      BY <3>1
  <2> QED
    BY <1>4, <2>2
<1>8. (\A i \in 1 .. m : i \in 1 .. m + n) /\ \A i \in 1 .. n : m + i \in 1 .. m + n
  BY <1>4
<1>9. \A b \in B : \E i \in 1 .. m + n : b \in w[i]
  <2>1. TAKE b \in B
  <2>2. CASE b \in A
    BY <1>3, <1>5, <1>8, <2>2
  <2>3. CASE b \in B \ A
    <3>1. PICK i \in 1 .. n : b \in v[i]
      BY <1>5, <2>3
    <3> QED
      BY <1>3, <1>8, <3>1
  <2> QED
    BY <2>2, <2>3
<1>10. \A i, j \in 1 .. m + n : i # j => w[i] \cap w[j] = {}
  <2>1. TAKE i \in 1 .. m + n, j \in 1 .. m + n
  <2>2. HAVE i # j
  <2>3. CASE i \in 1 .. m /\ j \in 1 .. m
    BY <1>3, <1>5, <2>2, <2>3
  <2>4. ASSUME NEW k \in 1 .. n, j = m + k, i \in 1 .. m PROVE w[i] \cap w[j] = {}
    BY <1>3, <1>4, <2>4
  <2>5. ASSUME NEW k \in 1 .. n, i = m + k, j \in 1 .. m PROVE w[i] \cap w[j] = {}
    BY <1>3, <1>4, <2>5
  <2>6. ASSUME NEW k \in 1 .. n, i = m + k, NEW l \in 1 .. n, j = m + l PROVE w[i] \cap w[j] = {}
    <3>1. k # l
      BY <2>2, <2>6
    <3> QED
      BY <1>3, <1>5, <2>6, <3>1
  <2> QED
    BY <1>7, <2>3, <2>4, <2>5, <2>6
<1>11. \A i, j \in 1 .. m + n : \A a \in w[i], b \in w[j] : Over(a, b) => i <= j
  <2>1. TAKE i \in 1 .. m + n, j \in 1 .. m + n
  <2>2. TAKE a \in w[i], b \in w[j]
  <2>3. HAVE Over(a, b)
  <2>4. CASE i \in 1 .. m /\ j \in 1 .. m
    BY <1>3, <1>5, <2>3, <2>4
  <2>5. CASE i \in 1 .. m /\ j \notin 1 .. m
    BY <1>4, <2>5
  <2>6. ASSUME NEW k \in 1 .. n, i = m + k, j \in 1 .. m PROVE i <= j
    <3>1. a \in B \ A /\ b \in A /\ a \in B /\ b \in B
      BY <1>1, <1>3, <1>4, <2>6
    <3> QED
      BY <1>6, <2>3, <3>1
  <2>7. ASSUME NEW k \in 1 .. n, i = m + k, NEW l \in 1 .. n, j = m + l PROVE i <= j
    <3>1. a \in v[k] /\ b \in v[l]
      BY <1>3, <2>7
    <3>2. k <= l
      BY <1>5, <2>3, <3>1
    <3> QED
      BY <1>4, <2>7, <3>2
  <2> QED
    BY <1>7, <2>4, <2>5, <2>6, <2>7
<1>12. GroupsOf(w, B)
  <2>1. Len(w) = m + n
    BY <1>3
  <2> QED
    BY ONLY <1>3, <1>9, <1>10, <1>11, <2>1 DEF GroupsOf
<1> QED
  BY <1>12 DEF w
\* The sides of a cut have fewer blocks each.
LEMMA SidesShrink ==
  ASSUME NEW B, AreBlocks(B), LineHeight \in Nat \ {0}, SidesOf(B) # <<>>
  PROVE  /\ SidesOf(B)[1] \in SUBSET B /\ SidesOf(B)[2] = B \ SidesOf(B)[1]
         /\ Parted(B, SidesOf(B)[1])
         /\ Cardinality(SidesOf(B)[1]) < Cardinality(B)
         /\ Cardinality(SidesOf(B)[2]) < Cardinality(B)
<1>1. PICK A \in SUBSET B : Parted(B, A) /\ SidesOf(B) = <<A, B \ A>>
  BY SidesPart
<1>2. SidesOf(B)[1] = A /\ SidesOf(B)[2] = B \ A
  BY <1>1
<1>3. A \subseteq B /\ A # B /\ B \ A \subseteq B /\ B \ A # B
  BY <1>1 DEF Parted
<1>4. IsFiniteSet(B)
  BY DEF AreBlocks
<1>5. Cardinality(A) < Cardinality(B)
  BY <1>3, <1>4, FS_Subset, FS_CardinalityType
<1>6. Cardinality(B \ A) < Cardinality(B)
  <2> DEFINE C == B \ A
  <2>1. C \subseteq B /\ C # B
    BY <1>3
  <2> HIDE DEF C
  <2>2. Cardinality(C) < Cardinality(B)
    BY <1>4, <2>1, FS_Subset, FS_CardinalityType
  <2> QED
    BY <2>2 DEF C
<1> QED
  BY <1>1, <1>2, <1>5, <1>6

IsCut(blocks, g) ==
  g = [B \in SUBSET blocks |-> IF SidesOf(B) = <<>> THEN <<B>>
                               ELSE g[SidesOf(B)[1]] \o g[SidesOf(B)[2]]]

LEMMA SomeBlocks ==
  ASSUME NEW blocks, AreBlocks(blocks)
  PROVE  \A B \in SUBSET blocks : AreBlocks(B) /\ Cardinality(B) \in Nat /\ Cardinality(B) <= Cardinality(blocks)
<1> TAKE B \in SUBSET blocks
<1>1. IsFiniteSet(blocks)
  BY DEF AreBlocks
<1>2. IsFiniteSet(B) /\ Cardinality(B) <= Cardinality(blocks)
  BY <1>1, FS_Subset
<1>3. Cardinality(B) \in Nat
  BY <1>2, FS_CardinalityType
<1> QED
  BY <1>2, <1>3 DEF AreBlocks

LEMMA CutExists ==
  ASSUME NEW blocks, AreBlocks(blocks), LineHeight \in Nat \ {0}
  PROVE  \E g : IsCut(blocks, g)
<1> DEFINE D == SUBSET blocks
           V == Seq(D)
           F == [D -> V]
           rank == [B \in D |-> Cardinality(B)]
           cut(B, f) == IF SidesOf(B) = <<>> THEN <<B>> ELSE f[SidesOf(B)[1]] \o f[SidesOf(B)[2]]
           step == [B \in D |-> [f \in F |-> cut(B, f)]]
           none == <<>>
<1>1. \A B \in D : AreBlocks(B) /\ Cardinality(B) \in Nat /\ Cardinality(B) <= Cardinality(blocks)
  BY SomeBlocks
<1>2. ASSUME NEW B \in D, SidesOf(B) # <<>>
      PROVE  /\ SidesOf(B)[1] \in D /\ SidesOf(B)[2] \in D
             /\ Cardinality(SidesOf(B)[1]) < Cardinality(B)
             /\ Cardinality(SidesOf(B)[2]) < Cardinality(B)
  <2>1. /\ SidesOf(B)[1] \in SUBSET B /\ SidesOf(B)[2] = B \ SidesOf(B)[1]
        /\ Cardinality(SidesOf(B)[1]) < Cardinality(B)
        /\ Cardinality(SidesOf(B)[2]) < Cardinality(B)
    BY <1>1, <1>2, SidesShrink
  <2> QED
    BY <2>1
<1>3. \A B \in D, f \in F : cut(B, f) \in V
  <2>1. TAKE B \in D, f \in F
  <2>2. CASE SidesOf(B) = <<>>
    BY <2>2
  <2>3. CASE SidesOf(B) # <<>>
    <3>1. f[SidesOf(B)[1]] \in V /\ f[SidesOf(B)[2]] \in V
      BY <1>2, <2>3
    <3>2. f[SidesOf(B)[1]] \o f[SidesOf(B)[2]] \in V
      BY <3>1, ConcatIs
    <3> QED
      BY <2>3, <3>2
  <2> QED
    BY <2>2, <2>3
<1>4. none \in V
  OBVIOUS
<1> HIDE DEF V
<1>5. rank \in [D -> Nat] /\ \A B \in D : rank[B] = Cardinality(B)
  BY <1>1
<1>6. \A B \in D, f \in F, g \in F :
        (\A A \in D : rank[A] < rank[B] => f[A] = g[A]) => cut(B, f) = cut(B, g)
  BY <1>2, <1>5
<1> HIDE DEF cut, rank, D
<1>7. \A B \in D, f \in F : step[B][f] = cut(B, f)
  OBVIOUS
<1>8. step \in [D -> [F -> V]]
  BY <1>3
<1> HIDE DEF step
<1>9. Recurses(D, V, rank, step)
  <2>1. ASSUME NEW B \in D, NEW f \in F, NEW g \in F,
               \A A \in D : rank[A] < rank[B] => f[A] = g[A]
        PROVE  step[B][f] = step[B][g]
    <3>1. cut(B, f) = cut(B, g)
      BY <1>6, <2>1
    <3> QED
      BY <1>7, <3>1
  <2> QED
    BY ONLY <1>5, <1>8, <2>1 DEF Recurses
<1> DEFINE n == Cardinality(blocks) + 1
<1>10. n \in Nat /\ \A B \in D : rank[B] < n
  <2>1. blocks \in D
    BY DEF D
  <2> QED
    BY <1>1, <1>5, <2>1
<1> HIDE DEF n
<1>11. PICK g \in F : \A B \in D : g[B] = step[B][g]
  BY <1>4, <1>9, <1>10, RankedRecursion
<1>12. g = [B \in D |-> cut(B, g)]
  BY <1>7, <1>11
<1> QED
  BY <1>12 DEF IsCut, D, cut

\* The recursive cut puts every block in one group, and groups in order.
LEMMA XYCutIs ==
  ASSUME NEW blocks, AreBlocks(blocks), LineHeight \in Nat \ {0}
  PROVE  GroupsOf(XYCut(blocks), blocks)
<1> DEFINE g == CHOOSE f : IsCut(blocks, f)
           D == SUBSET blocks
<1>1. IsCut(blocks, g)
  BY CutExists
<1>2. XYCut(blocks) = g[blocks]
  BY DEF XYCut, IsCut, SidesOf, WideOf, HighOf
<1> HIDE DEF g
<1>3. \A B \in D : g[B] = IF SidesOf(B) = <<>> THEN <<B>> ELSE g[SidesOf(B)[1]] \o g[SidesOf(B)[2]]
  BY <1>1 DEF IsCut
<1>4. \A B \in D : AreBlocks(B) /\ Cardinality(B) \in Nat /\ Cardinality(B) <= Cardinality(blocks)
  BY SomeBlocks
<1> HIDE DEF D
<1> DEFINE T == {n \in Nat : \A B \in D : Cardinality(B) < n => GroupsOf(g[B], B)}
<1>5. 0 \in T
  BY <1>4
<1>6. ASSUME NEW n \in Nat, n \in T
      PROVE  n + 1 \in T
  <2>1. SUFFICES ASSUME NEW B \in D, Cardinality(B) < n + 1
                 PROVE  GroupsOf(g[B], B)
    OBVIOUS
  <2>2. CASE SidesOf(B) = <<>>
    BY <1>3, <2>2, OneGroup
  <2>3. CASE SidesOf(B) # <<>>
    <3> DEFINE A == SidesOf(B)[1]
               C == SidesOf(B)[2]
    <3>1. /\ A \in SUBSET B /\ C = B \ A /\ Parted(B, A)
          /\ Cardinality(A) < Cardinality(B) /\ Cardinality(C) < Cardinality(B)
      BY <1>4, <2>3, SidesShrink
    <3>2. A \in D /\ C \in D
      BY <3>1 DEF D
    <3>3. g[B] = g[A] \o g[C]
      BY <1>3, <2>3
    <3> HIDE DEF A, C
    <3>4. GroupsOf(g[A], A) /\ GroupsOf(g[C], C)
      BY <1>4, <1>6, <2>1, <3>1, <3>2
    <3>5. GroupsOf(g[C], B \ A)
      BY <3>1, <3>4
    <3>6. GroupsOf(g[A] \o g[C], B)
      BY <3>1, <3>4, <3>5, GroupsJoin
    <3> QED
      BY <3>3, <3>6
  <2> QED
    BY <2>2, <2>3
<1> HIDE DEF T
<1>7. \A n \in Nat : n \in T
  BY <1>5, <1>6, Induction
<1>8. blocks \in D /\ Cardinality(blocks) \in Nat
  BY <1>4 DEF D
<1>9. Cardinality(blocks) + 1 \in T
  BY <1>7, <1>8
<1> QED
  BY <1>2, <1>8, <1>9 DEF T
(***************************************************************************)
(* Lists without repetition                                                *)
(***************************************************************************)
OneByOne(s) == \A j, k \in 1 .. Len(s) : j # k => s[j] # s[k]

\* Members of X, none twice; and all of them.
Lists(s, X)  == s \in Seq(X) /\ OneByOne(s)
Spells(s, X) == Lists(s, X) /\ X \subseteq {s[i] : i \in 1 .. Len(s)}

LEMMA ListsMore ==
  ASSUME NEW s, NEW X, Lists(s, X), NEW Y, X \subseteq Y
  PROVE  Lists(s, Y)
BY DEF Lists

LEMMA ListsNothing == Lists(<<>>, {}) /\ Spells(<<>>, {})
<1>1. <<>> \in Seq({}) /\ \A j : j \notin 1 .. Len(<<>>)
  OBVIOUS
<1> QED
  BY <1>1 DEF Lists, Spells, OneByOne

LEMMA ListsOne ==
  ASSUME NEW e
  PROVE  Lists(<<e>>, {e}) /\ Spells(<<e>>, {e})
<1>1. <<e>> \in Seq({e}) /\ Len(<<e>>) = 1 /\ <<e>>[1] = e /\ \A j \in 1 .. 1 : j = 1
  OBVIOUS
<1> QED
  BY <1>1 DEF Lists, Spells, OneByOne

\* Lists of disjoint sets one after the other.
LEMMA ListsJoin ==
  ASSUME NEW s, NEW X, Lists(s, X), NEW t, NEW Y, Lists(t, Y), X \cap Y = {}
  PROVE  Lists(s \o t, X \cup Y) /\ (Spells(s, X) /\ Spells(t, Y) => Spells(s \o t, X \cup Y))
<1> DEFINE w == s \o t
           m == Len(s)
           n == Len(t)
           Z == X \cup Y
<1>1. s \in Seq(X) /\ t \in Seq(Y) /\ s \in Seq(Z) /\ t \in Seq(Z)
  BY DEF Lists
<1>2. /\ w \in Seq(Z) /\ Len(w) = m + n
      /\ \A i \in 1 .. m : w[i] = s[i]
      /\ \A i \in 1 .. n : w[m + i] = t[i]
  BY <1>1, ConcatIs
<1>3. m \in Nat /\ n \in Nat /\ (\A i \in 1 .. m : s[i] \in X) /\ \A i \in 1 .. n : t[i] \in Y
  BY <1>1
<1>4. /\ \A j, k \in 1 .. m : j # k => s[j] # s[k]
      /\ \A j, k \in 1 .. n : j # k => t[j] # t[k]
  BY DEF Lists, OneByOne
<1>5. Spells(s, X) /\ Spells(t, Y) =>
        (\A x \in X : \E i \in 1 .. m : x = s[i]) /\ \A y \in Y : \E i \in 1 .. n : y = t[i]
  BY DEF Spells
<1> HIDE DEF w, m, n
<1>6. \A i \in 1 .. m + n : i \in 1 .. m \/ \E k \in 1 .. n : i = m + k
  <2>1. TAKE i \in 1 .. m + n
  <2>2. CASE i > m
    <3>1. i - m \in 1 .. n /\ i = m + (i - m)
      BY <1>3, <2>2
    <3> QED
      BY <3>1
  <2> QED
    BY <1>3, <2>2
<1>7. \A i, j \in 1 .. m + n : i # j => w[i] # w[j]
  <2>1. TAKE i \in 1 .. m + n, j \in 1 .. m + n
  <2>2. HAVE i # j
  <2>3. CASE i \in 1 .. m /\ j \in 1 .. m
    BY <1>2, <1>4, <2>2, <2>3
  <2>4. ASSUME NEW k \in 1 .. n, j = m + k, i \in 1 .. m PROVE w[i] # w[j]
    BY <1>2, <1>3, <2>4
  <2>5. ASSUME NEW k \in 1 .. n, i = m + k, j \in 1 .. m PROVE w[i] # w[j]
    BY <1>2, <1>3, <2>5
  <2>6. ASSUME NEW k \in 1 .. n, i = m + k, NEW l \in 1 .. n, j = m + l PROVE w[i] # w[j]
    <3>1. k # l
      BY <2>2, <2>6
    <3> QED
      BY <1>2, <1>4, <2>6, <3>1
  <2> QED
    BY <1>6, <2>3, <2>4, <2>5, <2>6
<1>8. Lists(w, Z)
  BY <1>2, <1>7 DEF Lists, OneByOne
<1>9. (\A i \in 1 .. m : i \in 1 .. m + n) /\ \A i \in 1 .. n : m + i \in 1 .. m + n
  BY <1>3
<1>10. ASSUME Spells(s, X), Spells(t, Y)
       PROVE  Spells(w, Z)
  <2>1. \A z \in Z : \E i \in 1 .. m + n : z = w[i]
    <3>1. TAKE z \in Z
    <3>2. CASE z \in X
      <4>1. PICK i \in 1 .. m : z = s[i]
        BY <1>5, <1>10, <3>2
      <4> QED
        BY <1>2, <1>9, <4>1
    <3>3. CASE z \in Y
      <4>1. PICK i \in 1 .. n : z = t[i]
        BY <1>5, <1>10, <3>3
      <4> QED
        BY <1>2, <1>9, <4>1
    <3> QED
      BY <3>2, <3>3
  <2>2. Len(w) = m + n
    BY <1>2
  <2> QED
    BY <1>8, <2>1, <2>2 DEF Spells
<1> QED
  BY <1>8, <1>10 DEF w

\* Of two members that R relates, the first comes first.
KeepsOrder(s, R) == \A m, n \in 1 .. Len(s) : <<s[m], s[n]>> \in R => m < n

LEMMA OrderJoins ==
  ASSUME NEW R, NEW s, NEW X, Lists(s, X), KeepsOrder(s, R), NEW t, NEW Y, Lists(t, Y), KeepsOrder(t, R),
         \A a \in Y, b \in X : <<a, b>> \notin R
  PROVE  KeepsOrder(s \o t, R)
<1> DEFINE m == Len(s)
           k == Len(t)
           Z == X \cup Y
           w == s \o t
<1>1. s \in Seq(X) /\ t \in Seq(Y) /\ s \in Seq(Z) /\ t \in Seq(Z)
  BY DEF Lists
<1>2. /\ m \in Nat /\ k \in Nat /\ Len(w) = m + k
      /\ \A i \in 1 .. m : w[i] = s[i] /\ s[i] \in X
      /\ \A i \in 1 .. k : w[m + i] = t[i] /\ t[i] \in Y
  BY <1>1, ConcatIs
<1>3. /\ \A i, j \in 1 .. m : <<s[i], s[j]>> \in R => i < j
      /\ \A i, j \in 1 .. k : <<t[i], t[j]>> \in R => i < j
  BY DEF KeepsOrder
<1> HIDE DEF m, k, w
<1>4. ASSUME NEW i \in 1 .. m + k, NEW j \in 1 .. m + k, <<w[i], w[j]>> \in R
      PROVE  i < j
  <2>1. CASE i \in 1 .. m /\ j \in 1 .. m
    BY <1>2, <1>3, <1>4, <2>1
  <2>2. CASE i \in 1 .. m /\ j \notin 1 .. m
    BY <1>2, <2>2
  <2>3. CASE i \notin 1 .. m /\ j \in 1 .. m
    <3>1. i - m \in 1 .. k /\ i = m + (i - m)
      BY <1>2, <2>3
    <3>2. w[i] \in Y
      BY <1>2, <3>1
    <3>3. w[j] \in X
      BY <1>2, <2>3
    <3> QED
      BY <1>4, <3>2, <3>3
  <2>4. CASE i \notin 1 .. m /\ j \notin 1 .. m
    <3>1. i - m \in 1 .. k /\ i = m + (i - m) /\ j - m \in 1 .. k /\ j = m + (j - m)
      BY <1>2, <2>4
    <3>2. w[i] = t[i - m] /\ w[j] = t[j - m]
      BY <1>2, <3>1
    <3>3. i - m < j - m
      BY <1>3, <1>4, <3>1, <3>2
    <3> QED
      BY <1>2, <3>1, <3>3
  <2> QED
    BY <2>1, <2>2, <2>3, <2>4
<1> QED
  BY <1>2, <1>4 DEF KeepsOrder, w

LEMMA SortedSpells ==
  ASSUME NEW S, IsFiniteSet(S), NEW key, IsKey(S, key)
  PROVE  Spells(Sorted(S, key), S)
<1> DEFINE s == Sorted(S, key)
<1>1. s \in Seq(S) /\ Range(s) = S /\ \A j, k \in 1 .. Len(s) : j # k => s[j] # s[k]
  BY SortedIs
<1> HIDE DEF s
<1>2. Range(s) = {s[i] : i \in 1 .. Len(s)}
  BY <1>1, RangeIs
<1>3. Spells(s, S)
  BY <1>1, <1>2 DEF Spells, Lists, OneByOne
<1> QED
  BY <1>3 DEF s

(***************************************************************************)
(* What parts read                                                         *)
(***************************************************************************)
\* The sequence with e added to its last element.
LEMMA LastGrows ==
  ASSUME NEW S, NEW ss \in Seq(Seq(S)), ss # <<>>, NEW tt \in Seq(Seq(S)), NEW e \in Seq(S),
         Len(tt) = Len(ss), \A i \in 1 .. Len(ss) - 1 : tt[i] = ss[i],
         tt[Len(tt)] = ss[Len(ss)] \o e
  PROVE  FlattenSeq(tt) = FlattenSeq(ss) \o e
<1> DEFINE n     == Len(ss)
           Z     == Seq(S)
           front == SubSeq(ss, 1, n - 1)
           last  == ss[n]
<1>1. n \in Nat /\ n > 0 /\ ss \in Seq(Z) /\ tt \in Seq(Z)
  OBVIOUS
<1>2. 1 \in 1 .. Len(ss) + 1 /\ n - 1 \in 0 .. Len(ss) /\ 1 <= (n - 1) + 1
  BY <1>1
<1>3. /\ front \in Seq(Z) /\ Len(front) = n - 1
      /\ \A i \in 1 .. n - 1 : front[i] = ss[i]
  <2>1. /\ SubSeq(ss, 1, n - 1) \in Seq(Z) /\ Len(SubSeq(ss, 1, n - 1)) = (n - 1) - 1 + 1
        /\ \A i \in 1 .. (n - 1) - 1 + 1 : SubSeq(ss, 1, n - 1)[i] = ss[1 + i - 1]
    BY ONLY <1>1, <1>2, SubSeqIs
  <2>2. (n - 1) - 1 + 1 = n - 1 /\ \A i \in 1 .. n - 1 : 1 + i - 1 = i
    BY <1>1
  <2> QED
    BY <2>1, <2>2
<1>4. last \in Z /\ last \o e \in Z
  BY <1>1, ConcatIs
<1> HIDE DEF front, last, n
<1>5. ss = Append(front, last)
  <2>1. /\ Append(front, last) \in Seq(Z) /\ Len(Append(front, last)) = n
        /\ Append(front, last)[n] = last /\ \A i \in 1 .. n - 1 : Append(front, last)[i] = ss[i]
    BY <1>1, <1>3, <1>4, AppendIs
  <2>2. \A i \in 1 .. n : i \in 1 .. n - 1 \/ i = n
    BY <1>1
  <2>3. \A i \in 1 .. Len(ss) : ss[i] = Append(front, last)[i]
    BY <2>1, <2>2 DEF n, last
  <2> QED
    BY ONLY <1>1, <2>1, <2>3, SeqEqual DEF n
<1>6. tt = Append(front, last \o e)
  <2>1. /\ Append(front, last \o e) \in Seq(Z) /\ Len(Append(front, last \o e)) = n
        /\ Append(front, last \o e)[n] = last \o e
        /\ \A i \in 1 .. n - 1 : Append(front, last \o e)[i] = ss[i]
    BY <1>1, <1>3, <1>4, AppendIs
  <2>2. \A i \in 1 .. n : i \in 1 .. n - 1 \/ i = n
    BY <1>1
  <2>3. Len(tt) = n /\ tt[n] = last \o e /\ \A i \in 1 .. n - 1 : tt[i] = ss[i]
    BY DEF n, last
  <2>4. Len(tt) = n /\ \A i \in 1 .. Len(tt) : tt[i] = Append(front, last \o e)[i]
    <3> DEFINE b == Append(front, last \o e)
               f == last \o e
    <3>1. b[n] = f /\ (\A i \in 1 .. n - 1 : b[i] = ss[i]) /\ tt[n] = f
      BY <2>1, <2>3
    <3> HIDE DEF b, f
    <3>2. \A i \in 1 .. n : tt[i] = b[i]
      BY ONLY <2>2, <2>3, <3>1
    <3> QED
      BY <2>3, <3>2 DEF b
  <2> QED
    BY ONLY <1>1, <2>1, <2>4, SeqEqual
<1>7. /\ FlattenSeq(ss) = FlattenSeq(front) \o last
      /\ FlattenSeq(tt) = FlattenSeq(front) \o (last \o e)
  BY <1>3, <1>4, <1>5, <1>6, FlattenAppend DEF Z
<1>8. FlattenSeq(front) \in Z
  BY <1>3, FlattenIsSeq DEF Z
<1>9. (FlattenSeq(front) \o last) \o e = FlattenSeq(front) \o (last \o e)
  <2>1. FlattenSeq(front) \in Seq(S) /\ last \in Seq(S) /\ e \in Seq(S)
    BY <1>4, <1>8 DEF Z
  <2> QED
    BY ONLY <2>1, ConcatAssociates
<1> QED
  BY <1>7, <1>9

PartKinds == {"heading", "table", "paragraph", "list", "bullet"}

PartsOver(I) == [kind : PartKinds, level : 0 .. 6, ids : Seq(I)]

IdsOf(parts) == [k \in DOMAIN parts |-> parts[k].ids]

Reads(parts) == FlattenSeq(IdsOf(parts))

LEMMA IdsAre ==
  ASSUME NEW I, NEW parts \in Seq(PartsOver(I))
  PROVE  /\ IdsOf(parts) \in Seq(Seq(I)) /\ Len(IdsOf(parts)) = Len(parts)
         /\ \A k \in 1 .. Len(parts) : IdsOf(parts)[k] = parts[k].ids
         /\ Reads(parts) \in Seq(I)
<1> DEFINE P == PartsOver(I)
<1>1. Len(parts) \in Nat /\ DOMAIN parts = 1 .. Len(parts) /\ \A k \in 1 .. Len(parts) : parts[k] \in P
  OBVIOUS
<1>2. \A k \in 1 .. Len(parts) : parts[k].ids \in Seq(I)
  BY <1>1 DEF PartsOver
<1>3. IdsOf(parts) \in [1 .. Len(parts) -> Seq(I)] /\ \A k \in 1 .. Len(parts) : IdsOf(parts)[k] = parts[k].ids
  BY <1>1, <1>2 DEF IdsOf
<1>4. IdsOf(parts) \in Seq(Seq(I)) /\ Len(IdsOf(parts)) = Len(parts)
  BY <1>1, <1>3
<1> QED
  BY <1>3, <1>4, FlattenIsSeq DEF Reads

LEMMA ReadsNothing == Reads(<<>>) = <<>>
<1>1. IdsOf(<<>>) = <<>>
  BY DEF IdsOf
<1> QED
  BY <1>1, FlattenEmpty DEF Reads

LEMMA ReadsAppend ==
  ASSUME NEW I, NEW parts \in Seq(PartsOver(I)), NEW part \in PartsOver(I)
  PROVE  Reads(Append(parts, part)) = Reads(parts) \o part.ids
<1> DEFINE P == PartsOver(I)
           Z == Seq(I)
           w == Append(parts, part)
           n == Len(parts)
<1>1. /\ w \in Seq(P) /\ Len(w) = n + 1 /\ w[n + 1] = part /\ \A i \in 1 .. n : w[i] = parts[i]
  BY AppendIs
<1>2. part.ids \in Z /\ n \in Nat
  BY DEF PartsOver
<1>3. /\ IdsOf(parts) \in Seq(Z) /\ Len(IdsOf(parts)) = n
      /\ \A k \in 1 .. n : IdsOf(parts)[k] = parts[k].ids
  BY IdsAre
<1> HIDE DEF w
<1>4. /\ IdsOf(w) \in Seq(Z) /\ Len(IdsOf(w)) = n + 1
      /\ \A k \in 1 .. n + 1 : IdsOf(w)[k] = w[k].ids
  BY <1>1, IdsAre
<1> HIDE DEF n, Z
<1>5. IdsOf(w) = Append(IdsOf(parts), part.ids)
  <2>1. /\ Append(IdsOf(parts), part.ids) \in Seq(Z) /\ Len(Append(IdsOf(parts), part.ids)) = n + 1
        /\ Append(IdsOf(parts), part.ids)[n + 1] = part.ids
        /\ \A k \in 1 .. n : Append(IdsOf(parts), part.ids)[k] = parts[k].ids
    BY <1>2, <1>3, AppendIs
  <2>2. \A k \in 1 .. n + 1 : k \in 1 .. n \/ k = n + 1
    BY <1>2
  <2>3. \A k \in 1 .. n + 1 : IdsOf(w)[k] = Append(IdsOf(parts), part.ids)[k]
    BY <1>1, <1>4, <2>1, <2>2
  <2> QED
    BY ONLY <1>4, <2>1, <2>3, SeqEqual
<1> QED
  BY <1>2, <1>3, <1>5, FlattenAppend DEF Reads, w, Z

LEMMA ReadsJoin ==
  ASSUME NEW I, NEW parts \in Seq(PartsOver(I)), NEW more \in Seq(PartsOver(I))
  PROVE  Reads(parts \o more) = Reads(parts) \o Reads(more)
<1> DEFINE P == PartsOver(I)
           Z == Seq(I)
           w == parts \o more
           m == Len(parts)
           n == Len(more)
<1>1. /\ w \in Seq(P) /\ Len(w) = m + n /\ (\A i \in 1 .. m : w[i] = parts[i])
      /\ \A i \in 1 .. n : w[m + i] = more[i]
  BY ConcatIs
<1>2. m \in Nat /\ n \in Nat
  OBVIOUS
<1>3. /\ IdsOf(parts) \in Seq(Z) /\ Len(IdsOf(parts)) = m
      /\ \A k \in 1 .. m : IdsOf(parts)[k] = parts[k].ids
      /\ IdsOf(more) \in Seq(Z) /\ Len(IdsOf(more)) = n
      /\ \A k \in 1 .. n : IdsOf(more)[k] = more[k].ids
  BY IdsAre
<1> HIDE DEF w
<1>4. /\ IdsOf(w) \in Seq(Z) /\ Len(IdsOf(w)) = m + n
      /\ \A k \in 1 .. m + n : IdsOf(w)[k] = w[k].ids
  BY <1>1, IdsAre
<1> HIDE DEF m, n, Z
<1>5. IdsOf(w) = IdsOf(parts) \o IdsOf(more)
  <2>1. /\ IdsOf(parts) \o IdsOf(more) \in Seq(Z) /\ Len(IdsOf(parts) \o IdsOf(more)) = m + n
        /\ \A k \in 1 .. m : (IdsOf(parts) \o IdsOf(more))[k] = parts[k].ids
        /\ \A k \in 1 .. n : (IdsOf(parts) \o IdsOf(more))[m + k] = more[k].ids
    <3> DEFINE a == IdsOf(parts)
               b == IdsOf(more)
    <3>1. a \in Seq(Z) /\ b \in Seq(Z)
      BY <1>3
    <3>2. /\ Len(a) = m /\ Len(b) = n
          /\ \A k \in 1 .. m : a[k] = parts[k].ids
          /\ \A k \in 1 .. n : b[k] = more[k].ids
      BY <1>3
    <3> HIDE DEF a, b
    <3>3. /\ a \o b \in Seq(Z) /\ Len(a \o b) = Len(a) + Len(b)
          /\ \A k \in 1 .. Len(a) : (a \o b)[k] = a[k]
          /\ \A k \in 1 .. Len(b) : (a \o b)[Len(a) + k] = b[k]
      BY ONLY <3>1, ConcatIs
    <3>4. /\ a \o b \in Seq(Z) /\ Len(a \o b) = m + n
          /\ \A k \in 1 .. m : (a \o b)[k] = parts[k].ids
          /\ \A k \in 1 .. n : (a \o b)[m + k] = more[k].ids
      BY ONLY <3>2, <3>3
    <3> QED
      BY <3>4 DEF a, b
  <2>2. \A k \in 1 .. m + n : k \in 1 .. m \/ \E i \in 1 .. n : k = m + i
    <3>1. TAKE k \in 1 .. m + n
    <3>2. CASE k > m
      <4>1. k - m \in 1 .. n /\ k = m + (k - m)
        BY <1>2, <3>2
      <4> QED
        BY <4>1
    <3> QED
      BY <1>2, <3>2
  <2>3. \A k \in 1 .. m + n : IdsOf(w)[k] = (IdsOf(parts) \o IdsOf(more))[k]
    <3>1. TAKE k \in 1 .. m + n
    <3>2. IdsOf(w)[k] = w[k].ids
      BY <1>4
    <3>3. CASE k \in 1 .. m
      BY <1>1, <2>1, <3>2, <3>3
    <3>4. ASSUME NEW i \in 1 .. n, k = m + i
          PROVE  IdsOf(w)[k] = (IdsOf(parts) \o IdsOf(more))[k]
      BY <1>1, <2>1, <3>2, <3>4
    <3> QED
      BY <2>2, <3>3, <3>4
  <2> QED
    BY ONLY <1>4, <2>1, <2>3, SeqEqual
<1> QED
  BY <1>3, <1>5, FlattenConcat DEF Reads, w, Z
(***************************************************************************)
(* The loops over lines                                                    *)
(***************************************************************************)
\* Only a bullet that waits for its text holds no line; headings have a level.
GoodPart(p) == /\ p.kind = "bullet" <=> p.ids = <<>>
               /\ p.kind = "heading" => p.level > 0

GoodParts(parts, I) == parts \in Seq(PartsOver(I)) /\ \A i \in 1 .. Len(parts) : GoodPart(parts[i])

SaidBy(acc) == Reads(acc.out) \o acc.paragraph

AccOk(acc, I) ==
  /\ acc \in [out : Seq(PartsOver(I)), paragraph : Seq(I)]
  /\ GoodParts(acc.out, I)
  /\ LastIs(acc.out, "bullet") => acc.paragraph = <<>>

LEMMA PartIs ==
  ASSUME NEW I, NEW kind \in PartKinds, NEW level \in 0 .. 6, NEW ids \in Seq(I)
  PROVE  /\ Part(kind, level, ids) \in PartsOver(I)
         /\ Part(kind, level, ids).kind = kind /\ Part(kind, level, ids).level = level
         /\ Part(kind, level, ids).ids = ids
BY DEF Part, PartsOver

LEMMA GoodAppend ==
  ASSUME NEW I, NEW parts, GoodParts(parts, I), NEW p \in PartsOver(I), GoodPart(p)
  PROVE  /\ GoodParts(Append(parts, p), I) /\ Append(parts, p) # <<>>
         /\ Reads(Append(parts, p)) = Reads(parts) \o p.ids
         /\ Last(Append(parts, p)) = p
<1> DEFINE w == Append(parts, p)
           n == Len(parts)
           P == PartsOver(I)
<1>1. parts \in Seq(P) /\ n \in Nat /\ \A i \in 1 .. n : GoodPart(parts[i])
  BY DEF GoodParts
<1>2. /\ w \in Seq(P) /\ Len(w) = n + 1 /\ w[n + 1] = p /\ w # <<>>
      /\ \A i \in 1 .. n : w[i] = parts[i]
  BY <1>1, AppendIs
<1>3. Reads(w) = Reads(parts) \o p.ids
  BY <1>1, ReadsAppend
<1> HIDE DEF w, n
<1>4. \A i \in 1 .. n + 1 : i \in 1 .. n \/ i = n + 1
  BY <1>1
<1>5. \A i \in 1 .. n + 1 : GoodPart(w[i])
  BY <1>1, <1>2, <1>4
<1>6. GoodParts(w, I)
  BY <1>2, <1>5 DEF GoodParts
<1>7. Last(w) = p
  BY <1>2 DEF Last
<1> QED
  BY <1>2, <1>3, <1>6, <1>7 DEF w

LEMMA SaidIs ==
  ASSUME NEW I, NEW acc, AccOk(acc, I)
  PROVE  /\ acc.out \in Seq(PartsOver(I)) /\ acc.paragraph \in Seq(I) /\ GoodParts(acc.out, I)
         /\ Reads(acc.out) \in Seq(I) /\ SaidBy(acc) \in Seq(I)
<1>1. acc.out \in Seq(PartsOver(I)) /\ acc.paragraph \in Seq(I) /\ GoodParts(acc.out, I)
  BY DEF AccOk
<1>2. Reads(acc.out) \in Seq(I)
  BY <1>1, IdsAre
<1>3. SaidBy(acc) \in Seq(I)
  BY <1>1, <1>2, ConcatIs DEF SaidBy
<1> QED
  BY <1>1, <1>2, <1>3

LEMMA FlushedIs ==
  ASSUME NEW I, NEW acc, AccOk(acc, I)
  PROVE  GoodParts(Flushed(acc), I) /\ Reads(Flushed(acc)) = SaidBy(acc)
<1>1. /\ acc.out \in Seq(PartsOver(I)) /\ acc.paragraph \in Seq(I) /\ GoodParts(acc.out, I)
      /\ Reads(acc.out) \in Seq(I)
  BY SaidIs
<1>2. CASE acc.paragraph = <<>>
  <2>1. Reads(acc.out) \o <<>> = Reads(acc.out)
    BY <1>1, ConcatAssociates
  <2> QED
    BY <1>1, <1>2, <2>1 DEF Flushed, SaidBy
<1>3. CASE acc.paragraph # <<>>
  <2> DEFINE p == Part("paragraph", 0, acc.paragraph)
  <2>1. p \in PartsOver(I) /\ p.kind = "paragraph" /\ p.ids = acc.paragraph
    BY <1>1, PartIs DEF PartKinds
  <2>2. GoodPart(p)
    BY <1>3, <2>1 DEF GoodPart
  <2>3. Flushed(acc) = Append(acc.out, p)
    BY <1>3 DEF Flushed
  <2> HIDE DEF p
  <2>4. GoodParts(Append(acc.out, p), I) /\ Reads(Append(acc.out, p)) = Reads(acc.out) \o p.ids
    BY <1>1, <2>1, <2>2, GoodAppend
  <2> QED
    BY <2>1, <2>3, <2>4 DEF SaidBy
<1> QED
  BY <1>2, <1>3

LEMMA OpenedIs ==
  ASSUME NEW I, NEW acc, AccOk(acc, I), NEW p \in PartsOver(I), GoodPart(p)
  PROVE  AccOk(Opened(acc, p), I) /\ SaidBy(Opened(acc, p)) = SaidBy(acc) \o p.ids
<1>1. GoodParts(Flushed(acc), I) /\ Reads(Flushed(acc)) = SaidBy(acc)
  BY FlushedIs
<1> DEFINE w == Append(Flushed(acc), p)
<1>2. GoodParts(w, I) /\ Reads(w) = SaidBy(acc) \o p.ids
  BY <1>1, GoodAppend
<1> HIDE DEF w
<1>3. Opened(acc, p) = [out |-> w, paragraph |-> <<>>]
  BY DEF Opened, w
<1>4. w \in Seq(PartsOver(I))
  BY <1>2 DEF GoodParts
<1>5. Reads(w) \in Seq(I) /\ <<>> \in Seq(I)
  <2>1. Reads(w) \in Seq(I)
    BY <1>4, IdsAre
  <2> QED
    BY <2>1
<1>6. Reads(w) \o <<>> = Reads(w)
  BY <1>5, ConcatAssociates
<1>7. AccOk(Opened(acc, p), I)
  BY <1>2, <1>3, <1>4, <1>5 DEF AccOk
<1>8. SaidBy(Opened(acc, p)) = Reads(w) \o <<>>
  BY <1>3 DEF SaidBy
<1> QED
  BY <1>2, <1>6, <1>7, <1>8

\* The last part of some grows by ids.
LEMMA GrownIs ==
  ASSUME NEW I, NEW parts, GoodParts(parts, I), parts # <<>>, NEW new \in Seq(PartsOver(I)),
         NEW ids \in Seq(I), Len(new) = Len(parts), \A i \in 1 .. Len(parts) - 1 : new[i] = parts[i],
         new[Len(parts)].ids = parts[Len(parts)].ids \o ids, GoodPart(new[Len(parts)])
  PROVE  GoodParts(new, I) /\ Reads(new) = Reads(parts) \o ids
<1> DEFINE P == PartsOver(I)
           n == Len(parts)
<1>1. parts \in Seq(P) /\ n \in Nat /\ n > 0 /\ \A i \in 1 .. n : GoodPart(parts[i])
  BY DEF GoodParts
<1>2. /\ IdsOf(parts) \in Seq(Seq(I)) /\ Len(IdsOf(parts)) = n
      /\ \A k \in 1 .. n : IdsOf(parts)[k] = parts[k].ids
  BY <1>1, IdsAre
<1>3. /\ IdsOf(new) \in Seq(Seq(I)) /\ Len(IdsOf(new)) = n
      /\ \A k \in 1 .. n : IdsOf(new)[k] = new[k].ids
  BY IdsAre
<1>4. (\A i \in 1 .. n - 1 : new[i] = parts[i]) /\ new[n].ids = parts[n].ids \o ids /\ GoodPart(new[n])
  OBVIOUS
<1>5. \A i \in 1 .. n : i \in 1 .. n - 1 \/ i = n
  BY <1>1
<1>6. Len(new) = n
  OBVIOUS
<1> HIDE DEF n, P
<1>7. \A i \in 1 .. n : GoodPart(new[i])
  BY <1>1, <1>4, <1>5
<1>8. GoodParts(new, I)
  BY <1>6, <1>7 DEF GoodParts
<1> DEFINE ss == IdsOf(parts)
           tt == IdsOf(new)
<1>9. /\ ss \in Seq(Seq(I)) /\ ss # <<>> /\ tt \in Seq(Seq(I)) /\ Len(tt) = Len(ss)
      /\ \A i \in 1 .. Len(ss) - 1 : tt[i] = ss[i]
      /\ tt[Len(tt)] = ss[Len(ss)] \o ids
  <2>1. ss # <<>>
    BY <1>1, <1>2
  <2>2. n \in 1 .. n /\ \A i \in 1 .. n - 1 : i \in 1 .. n
    BY <1>1
  <2> QED
    BY <1>2, <1>3, <1>4, <2>1, <2>2
<1> HIDE DEF ss, tt
<1>10. FlattenSeq(tt) = FlattenSeq(ss) \o ids
  BY <1>9, LastGrows
<1> QED
  BY <1>8, <1>10 DEF Reads, ss, tt

LEMMA OneIdIs ==
  ASSUME NEW I, NEW id \in I
  PROVE  <<id>> \in Seq(I) /\ <<id>> # <<>> /\ Len(<<id>>) = 1 /\ <<id>>[1] = id
OBVIOUS

LEMMA ExtendedIs ==
  ASSUME NEW I, NEW parts, GoodParts(parts, I), parts # <<>>, NEW id \in I,
         Last(parts).kind \in {"bullet", "list"}
  PROVE  /\ GoodParts(Extended(parts, id), I) /\ Reads(Extended(parts, id)) = Reads(parts) \o <<id>>
         /\ ~LastIs(Extended(parts, id), "bullet")
<1> DEFINE P   == PartsOver(I)
           n   == Len(parts)
           p   == parts[n]
           q   == [[p EXCEPT !.ids = Append(@, id)] EXCEPT !.kind = "list"]
           new == Extended(parts, id)
<1>1. parts \in Seq(P) /\ n \in Nat /\ n > 0 /\ n \in 1 .. n /\ p \in P
  BY DEF GoodParts
<1>2. p.ids \in Seq(I) /\ p.level \in 0 .. 6 /\ p = [kind |-> p.kind, level |-> p.level, ids |-> p.ids]
  BY <1>1 DEF PartsOver
<1>3. Append(p.ids, id) \in Seq(I) /\ Append(p.ids, id) # <<>> /\ Append(p.ids, id) = p.ids \o <<id>>
  BY <1>2
<1>4. q = [kind |-> "list", level |-> p.level, ids |-> Append(p.ids, id)]
  <2> DEFINE j == Append(p.ids, id)
             r == [p EXCEPT !.ids = j]
  <2>1. q = [r EXCEPT !.kind = "list"]
    OBVIOUS
  <2>2. p \in [kind : PartKinds, level : 0 .. 6, ids : Seq(I)]
    BY <1>1 DEF PartsOver
  <2> HIDE DEF p, q, j
  <2>3. r = [kind |-> p.kind, level |-> p.level, ids |-> j]
    BY <2>2
  <2> HIDE DEF r
  <2>4. [r EXCEPT !.kind = "list"] = [kind |-> "list", level |-> r.level, ids |-> r.ids]
    BY <2>3
  <2>5. r.level = p.level /\ r.ids = j
    BY <2>3
  <2> QED
    BY <2>1, <2>4, <2>5 DEF j
<1>5. q \in P /\ q.kind = "list" /\ q.ids = p.ids \o <<id>> /\ q.ids # <<>>
  BY <1>2, <1>3, <1>4 DEF PartsOver, PartKinds
<1>6. GoodPart(q)
  BY <1>5 DEF GoodPart
<1>7. new = [parts EXCEPT ![n] = q]
  BY <1>1 DEF Extended
<1> HIDE DEF p, q, new, n, P
<1>8. /\ new \in Seq(P) /\ Len(new) = n /\ new[n] = q /\ new # <<>>
      /\ \A i \in 1 .. n - 1 : new[i] = parts[i]
  <2>1. n = Len(parts)
    BY DEF n
  <2> QED
    BY <1>1, <1>5, <1>7, <2>1
<1>9. <<id>> \in Seq(I)
  BY OneIdIs
<1>10. GoodParts(new, I) /\ Reads(new) = Reads(parts) \o <<id>>
  BY <1>5, <1>6, <1>8, <1>9, GrownIs DEF n, p, P
<1>11. ~LastIs(new, "bullet")
  BY <1>5, <1>8 DEF LastIs, Last
<1> QED
  BY <1>10, <1>11 DEF new

LEMMA AddLineIs ==
  ASSUME NEW I, NEW acc, AccOk(acc, I), NEW id \in I, IsLine(Line(id)), NEW level \in 0 .. 6
  PROVE  /\ AccOk(AddLine(acc, id, level), I)
         /\ \/ SaidBy(AddLine(acc, id, level)) = SaidBy(acc) \o <<id>>
            \/ SaidBy(AddLine(acc, id, level)) = SaidBy(acc)
<1>1. /\ acc.out \in Seq(PartsOver(I)) /\ acc.paragraph \in Seq(I) /\ GoodParts(acc.out, I)
      /\ Reads(acc.out) \in Seq(I) /\ SaidBy(acc) \in Seq(I)
  BY SaidIs
<1>2. <<id>> \in Seq(I) /\ <<id>> # <<>> /\ <<>> \in Seq(I)
  BY OneIdIs
<1>3. CASE level > 0
  <2> DEFINE p == Part("heading", level, <<id>>)
  <2>1. p \in PartsOver(I) /\ p.ids = <<id>> /\ p.kind = "heading" /\ p.level = level
    BY <1>2 DEF Part, PartsOver, PartKinds
  <2>2. GoodPart(p)
    BY <1>2, <1>3, <2>1 DEF GoodPart
  <2>3. AddLine(acc, id, level) = Opened(acc, p)
    BY <1>3 DEF AddLine
  <2> HIDE DEF p
  <2> QED
    BY <2>1, <2>2, <2>3, OpenedIs
<1>4. CASE level = 0 /\ Line(id).kind = "item"
  <2> DEFINE p == Part("list", 0, <<id>>)
  <2>1. p \in PartsOver(I) /\ p.ids = <<id>> /\ p.kind = "list"
    BY <1>2 DEF Part, PartsOver, PartKinds
  <2>2. GoodPart(p)
    BY <1>2, <2>1 DEF GoodPart
  <2>3. AddLine(acc, id, level) = Opened(acc, p)
    BY <1>4 DEF AddLine
  <2> HIDE DEF p
  <2> QED
    BY <2>1, <2>2, <2>3, OpenedIs
<1>5. CASE level = 0 /\ Line(id).kind = "bullet"
  <2> DEFINE p == Part("bullet", 0, <<>>)
  <2>1. p \in PartsOver(I) /\ p.ids = <<>> /\ p.kind = "bullet"
    BY <1>2 DEF Part, PartsOver, PartKinds
  <2>2. GoodPart(p)
    BY <2>1 DEF GoodPart
  <2>3. AddLine(acc, id, level) = Opened(acc, p)
    BY <1>5 DEF AddLine
  <2> HIDE DEF p
  <2>4. SaidBy(acc) \o <<>> = SaidBy(acc)
    BY <1>1, ConcatAssociates
  <2> QED
    BY <2>1, <2>2, <2>3, <2>4, OpenedIs
<1>6. CASE level = 0 /\ Line(id).kind = "prose" /\ Continues(acc, Line(id))
  <2> DEFINE w == Extended(acc.out, id)
  <2>1. AddLine(acc, id, level) = [acc EXCEPT !.out = w]
    BY <1>6 DEF AddLine
  <2>2. acc.paragraph = <<>> /\ acc.out # <<>> /\ Last(acc.out).kind \in {"bullet", "list"}
    BY <1>6 DEF Continues, AccOk, LastIs
  <2>3. GoodParts(w, I) /\ Reads(w) = Reads(acc.out) \o <<id>> /\ ~LastIs(w, "bullet")
    BY <1>1, <2>2, ExtendedIs
  <2> HIDE DEF w
  <2>4. AddLine(acc, id, level) = [out |-> w, paragraph |-> <<>>]
    BY <2>1, <2>2 DEF AccOk
  <2>5. w \in Seq(PartsOver(I)) /\ Reads(w) \in Seq(I)
    BY <2>3, IdsAre DEF GoodParts
  <2>6. AccOk(AddLine(acc, id, level), I)
    BY <1>2, <2>3, <2>4, <2>5 DEF AccOk
  <2>7. Reads(w) \o <<>> = Reads(w) /\ Reads(acc.out) \o <<>> = Reads(acc.out)
    BY <1>1, <2>5, ConcatAssociates
  <2>8. SaidBy(AddLine(acc, id, level)) = SaidBy(acc) \o <<id>>
    BY <2>2, <2>3, <2>4, <2>7 DEF SaidBy
  <2> QED
    BY <2>6, <2>8
<1>7. CASE level = 0 /\ Line(id).kind = "prose" /\ ~Continues(acc, Line(id))
  <2> DEFINE s == Append(acc.paragraph, id)
  <2>1. AddLine(acc, id, level) = [acc EXCEPT !.paragraph = s]
    BY <1>7 DEF AddLine
  <2>2. s \in Seq(I)
    BY <1>1
  <2>3. s = acc.paragraph \o <<id>>
    BY <1>1
  <2> HIDE DEF s
  <2>4. AddLine(acc, id, level) = [out |-> acc.out, paragraph |-> s]
    BY <2>1 DEF AccOk
  <2>5. ~LastIs(acc.out, "bullet")
    BY <1>7 DEF Continues
  <2>6. AccOk(AddLine(acc, id, level), I)
    BY <1>1, <2>2, <2>4, <2>5 DEF AccOk
  <2>7. (Reads(acc.out) \o acc.paragraph) \o <<id>> = Reads(acc.out) \o (acc.paragraph \o <<id>>)
    <3>1. Reads(acc.out) \in Seq(I) /\ acc.paragraph \in Seq(I) /\ <<id>> \in Seq(I)
      BY <1>1, <1>2
    <3> DEFINE a   == Reads(acc.out)
               b   == acc.paragraph
               one == <<id>>
    <3>2. a \in Seq(I) /\ b \in Seq(I) /\ one \in Seq(I)
      BY <3>1
    <3> HIDE DEF a, b, one
    <3>3. (a \o b) \o one = a \o (b \o one)
      BY ONLY <3>2, ConcatAssociates
    <3> QED
      BY <3>3 DEF a, b, one
  <2>8. SaidBy(AddLine(acc, id, level)) = Reads(acc.out) \o s
    BY <2>4 DEF SaidBy
  <2>9. SaidBy(AddLine(acc, id, level)) = SaidBy(acc) \o <<id>>
    BY <2>3, <2>8, <2>7 DEF SaidBy
  <2> QED
    BY <2>6, <2>9
<1>8. level > 0 \/ level = 0
  OBVIOUS
<1>9. Line(id).kind \in {"item", "bullet", "prose"}
  BY DEF IsLine
<1> QED
  BY <1>3, <1>4, <1>5, <1>6, <1>7, <1>8, <1>9
LEMMA HeadingLevelIs ==
  ASSUME NEW id, IsLine(Line(id)), NEW block, NEW blocks
  PROVE  HeadingLevel(id, block, blocks) \in 0 .. 6
<1>1. Line(id).level \in 0 .. 6
  BY DEF IsLine
<1>2. BoldLevel \in 0 .. 6
  BY PageLayoutAssumption
<1>3. \/ HeadingLevel(id, block, blocks) = Line(id).level
      \/ HeadingLevel(id, block, blocks) = BoldLevel
      \/ HeadingLevel(id, block, blocks) = 0
  BY DEF HeadingLevel
<1> QED
  BY <1>1, <1>2, <1>3

LEMMA StartIs ==
  ASSUME NEW I
  PROVE  AccOk(Start, I) /\ SaidBy(Start) = <<>>
<1>1. <<>> \in Seq(I) /\ <<>> \in Seq(PartsOver(I)) /\ Len(<<>>) = 0
  OBVIOUS
<1>2. Start.out = <<>> /\ Start.paragraph = <<>> /\ Start \in [out : Seq(PartsOver(I)), paragraph : Seq(I)]
  BY <1>1 DEF Start
<1>3. \A i : i \notin 1 .. 0
  OBVIOUS
<1>4. GoodParts(<<>>, I)
  BY <1>1, <1>3 DEF GoodParts
<1>5. AccOk(Start, I)
  BY <1>2, <1>4 DEF AccOk
<1>6. SaidBy(Start) = <<>> \o <<>>
  BY <1>2, ReadsNothing DEF SaidBy
<1>7. <<>> \o <<>> = <<>>
  BY <1>1, ConcatAssociates
<1> QED
  BY <1>5, <1>6, <1>7

Accs(I) == {acc \in [out : Seq(PartsOver(I)), paragraph : Seq(I)] : AccOk(acc, I)}

LEMMA AccsAre ==
  ASSUME NEW I, NEW acc
  PROVE  acc \in Accs(I) <=> AccOk(acc, I)
BY DEF Accs, AccOk

\* The loop of BlockMarkdown.
IsBlockLoop(block, blocks, g) ==
  g = [k \in 0 .. Len(block.ids) |->
         IF k = 0 THEN Start
         ELSE AddLine(g[k - 1], block.ids[k], HeadingLevel(block.ids[k], block, blocks))]

AreLines(I) == \A id \in I : IsLine(Line(id))

LEMMA BlockLoopExists ==
  ASSUME NEW I, AreLines(I), NEW block, block.ids \in Seq(I), NEW blocks
  PROVE  \E g : IsBlockLoop(block, blocks, g)
<1> DEFINE ids  == block.ids
           n    == Len(ids)
           V    == Accs(I)
           add(v, k) == AddLine(v, ids[k], HeadingLevel(ids[k], block, blocks))
           step == [k \in 1 .. n |-> [v \in V |-> add(v, k)]]
<1>1. n \in Nat /\ \A k \in 1 .. n : ids[k] \in I
  OBVIOUS
<1>2. Start \in V
  BY StartIs, AccsAre
<1>3. \A k \in 1 .. n, v \in V : add(v, k) \in V
  <2>1. TAKE k \in 1 .. n, v \in V
  <2>2. AccOk(v, I) /\ ids[k] \in I /\ IsLine(Line(ids[k]))
    BY <1>1, AccsAre DEF AreLines
  <2>3. HeadingLevel(ids[k], block, blocks) \in 0 .. 6
    BY <2>2, HeadingLevelIs
  <2> HIDE DEF ids
  <2>4. AccOk(add(v, k), I)
    BY <2>2, <2>3, AddLineIs
  <2> QED
    BY <2>4, AccsAre
<1> HIDE DEF V, add, n
<1>4. IsLoop(n, V, Start, step) /\ \A k \in 1 .. n, v \in V : step[k][v] = add(v, k)
  BY <1>2, <1>3 DEF IsLoop
<1> HIDE DEF step
<1>5. PICK g : RunsAs(n, V, Start, step, g)
  BY <1>1, <1>4, Recursion
<1>6. \A k \in 1 .. n : g[k] = add(g[k - 1], k)
  <2>1. TAKE k \in 1 .. n
  <2>2. k - 1 \in 0 .. n
    BY <1>1
  <2>3. g[k - 1] \in V /\ g[k] = step[k][g[k - 1]]
    BY <1>5, <2>2 DEF RunsAs
  <2> QED
    BY <1>4, <2>3
<1>7. g = [k \in 0 .. n |-> IF k = 0 THEN Start ELSE add(g[k - 1], k)]
  <2>1. \A k \in 0 .. n : k # 0 => k \in 1 .. n
    BY <1>1
  <2> QED
    BY <1>5, <1>6, <2>1 DEF RunsAs
<1> QED
  BY <1>7 DEF IsBlockLoop, n, add

\* Dropping parts that hold nothing changes nothing of what is read.
LEMMA PickedReads ==
  ASSUME NEW I, NEW parts \in Seq(PartsOver(I)), NEW K, \A i \in 1 .. Len(parts) : i \notin K => parts[i].ids = <<>>
  PROVE  Reads(Picked(parts, K)) = Reads(parts)
<1> DEFINE P == PartsOver(I)
           T == {t \in Seq(P) : (\A i \in 1 .. Len(t) : i \notin K => t[i].ids = <<>>)
                                  => Reads(Picked(t, K)) = Reads(t)}
<1>1. <<>> \in T
  <2>1. Picked(<<>>, K) = <<>> /\ <<>> \in Seq(P)
    BY PickedEmpty
  <2> QED
    BY <2>1
<1>2. ASSUME NEW t \in Seq(P), NEW p \in P, t \in T
      PROVE  Append(t, p) \in T
  <2> DEFINE w == Append(t, p)
             n == Len(t)
  <2>1. w \in Seq(P)
    OBVIOUS
  <2>2. SUFFICES ASSUME \A i \in 1 .. Len(w) : i \notin K => w[i].ids = <<>>
                 PROVE  Reads(Picked(w, K)) = Reads(w)
    BY <2>1
  <2>3. /\ w \in Seq(P) /\ Len(w) = n + 1 /\ w[n + 1] = p /\ (\A i \in 1 .. n : w[i] = t[i]) /\ n \in Nat
    OBVIOUS
  <2>4. Picked(w, K) = IF n + 1 \in K THEN Append(Picked(t, K), p) ELSE Picked(t, K)
    BY PickedAppend
  <2>5. Picked(t, K) \in Seq(P)
    BY PickedIsSeq
  <2>6. Reads(w) = Reads(t) \o p.ids
    BY ReadsAppend
  <2>7. Reads(t) \in Seq(I)
    BY IdsAre
  <2> HIDE DEF w, n
  <2>8. \A i \in 1 .. n : i \notin K => t[i].ids = <<>>
    BY <2>2, <2>3
  <2>9. Reads(Picked(t, K)) = Reads(t)
    BY <1>2, <2>8 DEF n
  <2>10. CASE n + 1 \in K
    <3>1. Reads(Append(Picked(t, K), p)) = Reads(Picked(t, K)) \o p.ids
      BY <2>5, ReadsAppend
    <3> QED
      BY <2>4, <2>6, <2>9, <2>10, <3>1
  <2>11. CASE n + 1 \notin K
    <3>1. p.ids = <<>>
      BY <2>2, <2>3, <2>11
    <3>2. Reads(t) \o <<>> = Reads(t)
      BY <2>7, ConcatAssociates
    <3> QED
      BY <2>4, <2>6, <2>9, <2>11, <3>1, <3>2
  <2> QED
    BY <2>10, <2>11
<1> HIDE DEF T
<1>3. parts \in Seq(P)
  OBVIOUS
<1> HIDE DEF P
<1>4. parts \in T
  BY <1>1, <1>2, <1>3, SeqInduction
<1> QED
  BY <1>4 DEF T

\* Parts that the Markdown may have.
FinalParts(parts, I) ==
  /\ parts \in Seq(PartsOver(I))
  /\ \A i \in 1 .. Len(parts) : parts[i].ids # <<>> /\ GoodPart(parts[i])

\* A block of text becomes parts that read its lines, without lone bullets.
LEMMA BlockMarkdownIs ==
  ASSUME NEW I, AreLines(I), NEW block, block.ids \in Seq(I), OneByOne(block.ids), NEW blocks,
         NEW R, KeepsOrder(block.ids, R)
  PROVE  /\ FinalParts(BlockMarkdown(block, blocks), I)
         /\ Lists(Reads(BlockMarkdown(block, blocks)), {block.ids[k] : k \in 1 .. Len(block.ids)})
         /\ KeepsOrder(Reads(BlockMarkdown(block, blocks)), R)
<1> DEFINE ids == block.ids
           n   == Len(ids)
           h   == CHOOSE g : IsBlockLoop(block, blocks, g)
           add(v, k) == AddLine(v, ids[k], HeadingLevel(ids[k], block, blocks))
           parts == Flushed(h[n])
           K     == {k \in DOMAIN parts : parts[k].kind # "bullet"}
           first(k) == {ids[j] : j \in 1 .. k}
<1>1. IsBlockLoop(block, blocks, h)
  BY BlockLoopExists
<1>2. BlockMarkdown(block, blocks) = Picked(parts, K)
  BY DEF BlockMarkdown, IsBlockLoop
<1> HIDE DEF h
<1>3. n \in Nat /\ \A k \in 1 .. n : ids[k] \in I
  OBVIOUS
<1>4. h[0] = Start /\ \A k \in 1 .. n : h[k] = add(h[k - 1], k)
  <2>1. h = [k \in 0 .. n |-> IF k = 0 THEN Start ELSE add(h[k - 1], k)]
    BY <1>1 DEF IsBlockLoop
  <2>2. \A k \in 1 .. n : k \in 0 .. n /\ k # 0
    BY <1>3
  <2>3. 0 \in 0 .. n
    BY <1>3
  <2> HIDE DEF add, n
  <2> QED
    BY <2>1, <2>2, <2>3
<1>5. \A j, k \in 1 .. n : j # k => ids[j] # ids[k]
  BY DEF OneByOne
<1>6. \A j, k \in 1 .. n : <<ids[j], ids[k]>> \in R => j < k
  BY DEF KeepsOrder
<1>7. \A k \in 1 .. n : IsLine(Line(ids[k])) /\ HeadingLevel(ids[k], block, blocks) \in 0 .. 6
  BY <1>3, HeadingLevelIs DEF AreLines
<1> HIDE DEF ids
<1>8. \A k \in 1 .. n : \A v : AccOk(v, I) =>
        /\ AccOk(add(v, k), I)
        /\ SaidBy(add(v, k)) = SaidBy(v) \o <<ids[k]>> \/ SaidBy(add(v, k)) = SaidBy(v)
  BY <1>3, <1>7, AddLineIs
<1> HIDE DEF add, n
<1> DEFINE T == {k \in 0 .. n : AccOk(h[k], I) /\ Lists(SaidBy(h[k]), first(k)) /\ KeepsOrder(SaidBy(h[k]), R)}
<1>9. 0 \in T
  <2>1. first(0) = {} /\ 0 \in 0 .. n
    BY <1>3
  <2>2. AccOk(h[0], I) /\ SaidBy(h[0]) = <<>>
    BY <1>4, StartIs
  <2> HIDE DEF first
  <2>3. Lists(SaidBy(h[0]), first(0))
    BY <2>1, <2>2, ListsNothing
  <2>4. KeepsOrder(SaidBy(h[0]), R)
    BY <2>2 DEF KeepsOrder
  <2> QED
    BY <2>1, <2>2, <2>3, <2>4
<1>10. ASSUME NEW k \in 0 .. n - 1, k \in T
      PROVE  k + 1 \in T
  <2>1. k + 1 \in 1 .. n /\ k + 1 \in 0 .. n /\ (k + 1) - 1 = k /\ k \in Nat
    BY <1>3
  <2>2. /\ AccOk(h[k], I) /\ Lists(SaidBy(h[k]), first(k)) /\ h[k + 1] = add(h[k], k + 1)
        /\ KeepsOrder(SaidBy(h[k]), R)
    BY <1>4, <1>10, <2>1
  <2>3. /\ AccOk(h[k + 1], I)
        /\ SaidBy(h[k + 1]) = SaidBy(h[k]) \o <<ids[k + 1]>> \/ SaidBy(h[k + 1]) = SaidBy(h[k])
    BY <1>8, <2>1, <2>2
  <2>4. ids[k + 1] \notin first(k)
    BY <1>3, <1>5, <2>1
  <2>5. first(k + 1) = first(k) \cup {ids[k + 1]}
    <3>1. \A j : j \in 1 .. k + 1 <=> j \in 1 .. k \/ j = k + 1
      BY <2>1
    <3> QED
      BY <3>1
  <2> DEFINE X == first(k)
             e == ids[k + 1]
  <2>6. <<e, e>> \notin R /\ \A b \in X : <<e, b>> \notin R
    <3>1. ~(k + 1 < k + 1) /\ \A j \in 1 .. k : j \in 1 .. n /\ ~(k + 1 < j)
      BY <1>3, <2>1
    <3> QED
      BY <1>6, <2>1, <3>1
  <2> HIDE DEF first
  <2>7. Lists(<<e>>, {e})
    BY ListsOne
  <2>8. X \cap {e} = {}
    BY <2>4
  <2>9. Lists(SaidBy(h[k]), X)
    BY <2>2
  <2> HIDE DEF X, e
  <2>10. Lists(SaidBy(h[k]) \o <<e>>, X \cup {e})
    BY <2>7, <2>8, <2>9, ListsJoin
  <2>11. X \subseteq X \cup {e}
    OBVIOUS
  <2>12. Lists(SaidBy(h[k]), X \cup {e})
    BY <2>9, <2>11, ListsMore
  <2>13. Lists(SaidBy(h[k + 1]), X \cup {e})
    BY <2>3, <2>10, <2>12 DEF e
  <2>14. KeepsOrder(<<e>>, R)
    <3>1. \A i \in 1 .. Len(<<e>>) : <<e>>[i] = e
      OBVIOUS
    <3> QED
      BY <2>6, <3>1 DEF KeepsOrder
  <2>15. KeepsOrder(SaidBy(h[k]) \o <<e>>, R)
    BY <2>2, <2>7, <2>9, <2>6, <2>14, OrderJoins
  <2>16. KeepsOrder(SaidBy(h[k + 1]), R)
    BY <2>2, <2>3, <2>15 DEF e
  <2> QED
    BY <2>1, <2>3, <2>5, <2>13, <2>16 DEF X, e
<1> HIDE DEF T, first
<1>11. \A k \in 0 .. n : k \in T
  BY <1>3, <1>9, <1>10, UpTo
<1>12. AccOk(h[n], I) /\ Lists(SaidBy(h[n]), first(n)) /\ KeepsOrder(SaidBy(h[n]), R)
  <2>1. n \in 0 .. n
    BY <1>3
  <2> QED
    BY <1>11, <2>1 DEF T
<1>13. GoodParts(parts, I) /\ Reads(parts) = SaidBy(h[n])
  BY <1>12, FlushedIs
<1> HIDE DEF parts
<1>14. /\ parts \in Seq(PartsOver(I)) /\ DOMAIN parts = 1 .. Len(parts)
       /\ \A i \in 1 .. Len(parts) : GoodPart(parts[i])
  BY <1>13 DEF GoodParts
<1>15. \A i \in 1 .. Len(parts) : /\ i \notin K => parts[i].ids = <<>>
                                  /\ i \in K => parts[i].ids # <<>>
  BY <1>14 DEF GoodPart
<1> HIDE DEF K
<1> DEFINE p == Picked(parts, K)
<1>16. Reads(p) = Reads(parts)
  BY <1>14, <1>15, PickedReads
<1>17. p \in Seq(PartsOver(I)) /\ Len(p) \in Nat
  BY <1>14, PickedIsSeq
<1>18. PICK at \in [1 .. Len(p) -> {i \in 1 .. Len(parts) : i \in K}] :
         \A k \in 1 .. Len(p) : p[k] = parts[at[k]]
  <2>1. parts \in Seq(PartsOver(I))
    BY <1>14
  <2>2. PICK at \in [1 .. Len(Picked(parts, K)) -> {i \in 1 .. Len(parts) : i \in K}] :
          /\ \A k \in 1 .. Len(Picked(parts, K)) : Picked(parts, K)[k] = parts[at[k]]
          /\ \A j, k \in 1 .. Len(Picked(parts, K)) : j < k => at[j] < at[k]
          /\ \A i \in 1 .. Len(parts) : i \in K => \E k \in 1 .. Len(Picked(parts, K)) : at[k] = i
    BY ONLY <2>1, PickedPositions
  <2> QED
    BY <2>2
<1> HIDE DEF p
<1>19. \A i \in 1 .. Len(p) : p[i].ids # <<>> /\ GoodPart(p[i])
  BY <1>14, <1>15, <1>18
<1>20. FinalParts(p, I)
  BY <1>17, <1>19 DEF FinalParts
<1> QED
  BY <1>2, <1>12, <1>13, <1>16, <1>20 DEF p, first, n, ids
(***************************************************************************)
(* The loop over blocks                                                    *)
(***************************************************************************)
LEMMA FinalOne ==
  ASSUME NEW I, NEW p \in PartsOver(I), p.ids # <<>>, GoodPart(p)
  PROVE  FinalParts(<<p>>, I) /\ Reads(<<p>>) = p.ids
<1> DEFINE P == PartsOver(I)
<1>1. <<p>> = Append(<<>>, p) /\ <<>> \in Seq(P) /\ <<p>> \in Seq(P) /\ Len(<<p>>) = 1 /\ <<p>>[1] = p
  OBVIOUS
<1>2. Reads(Append(<<>>, p)) = Reads(<<>>) \o p.ids
  BY <1>1, ReadsAppend
<1>3. p.ids \in Seq(I)
  BY DEF PartsOver
<1>4. <<>> \o p.ids = p.ids
  BY <1>3, ConcatAssociates
<1>5. \A i \in 1 .. 1 : i = 1
  OBVIOUS
<1>6. FinalParts(<<p>>, I)
  BY <1>1, <1>5 DEF FinalParts
<1> QED
  BY <1>1, <1>2, <1>4, <1>6, ReadsNothing

LEMMA FinalNone ==
  ASSUME NEW I
  PROVE  FinalParts(<<>>, I) /\ Lists(Reads(<<>>), {})
<1>1. <<>> \in Seq(PartsOver(I)) /\ \A i : i \notin 1 .. Len(<<>>)
  OBVIOUS
<1> QED
  BY <1>1, ReadsNothing, ListsNothing DEF FinalParts

LEMMA FinalJoin ==
  ASSUME NEW I, NEW p, FinalParts(p, I), NEW X, Lists(Reads(p), X),
         NEW q, FinalParts(q, I), NEW Y, Lists(Reads(q), Y), X \cap Y = {}, NEW w, w = p \o q
  PROVE  FinalParts(w, I) /\ Lists(Reads(w), X \cup Y)
<1> DEFINE P == PartsOver(I)
           m == Len(p)
           n == Len(q)
<1>1. p \in Seq(P) /\ q \in Seq(P)
  BY DEF FinalParts
<1>2. /\ w \in Seq(P) /\ Len(w) = m + n /\ (\A i \in 1 .. m : w[i] = p[i])
      /\ \A i \in 1 .. n : w[m + i] = q[i]
  BY <1>1, ConcatIs
<1>3. m \in Nat /\ n \in Nat
  BY <1>1
<1>4. Reads(w) = Reads(p) \o Reads(q)
  BY <1>1, ReadsJoin
<1>5. /\ \A i \in 1 .. m : p[i].ids # <<>> /\ GoodPart(p[i])
      /\ \A i \in 1 .. n : q[i].ids # <<>> /\ GoodPart(q[i])
  BY DEF FinalParts
<1> HIDE DEF m, n, P
<1>6. \A i \in 1 .. m + n : w[i].ids # <<>> /\ GoodPart(w[i])
  <2>1. TAKE i \in 1 .. m + n
  <2>2. CASE i \in 1 .. m
    BY <1>2, <1>5, <2>2
  <2>3. CASE i \notin 1 .. m
    <3>1. i - m \in 1 .. n /\ i = m + (i - m)
      BY <1>3, <2>3
    <3> QED
      BY <1>2, <1>5, <3>1
  <2> QED
    BY <2>2, <2>3
<1>7. FinalParts(w, I)
  BY <1>2, <1>6 DEF FinalParts, P
<1> DEFINE u == Reads(p)
           v == Reads(q)
<1>8. Lists(u, X) /\ Lists(v, Y) /\ Reads(w) = u \o v
  BY <1>4
<1> HIDE DEF u, v
<1>9. Lists(u \o v, X \cup Y)
  BY <1>8, ListsJoin
<1> QED
  BY <1>7, <1>8, <1>9

IdSet(block) == {block.ids[k] : k \in 1 .. Len(block.ids)}

\* Blocks in a row: no line is in two of them, nor twice in one, and R
\* relates no line to one before it.
OrderedOk(ordered, I, R) ==
  /\ Len(ordered) \in Nat
  /\ \A i \in 1 .. Len(ordered) : ordered[i].ids \in Seq(I) /\ ordered[i].ids # <<>> /\ OneByOne(ordered[i].ids)
  /\ \A i, j \in 1 .. Len(ordered) : i # j => IdSet(ordered[i]) \cap IdSet(ordered[j]) = {}
  /\ \A i \in 1 .. Len(ordered) : KeepsOrder(ordered[i].ids, R)
  /\ \A i, j \in 1 .. Len(ordered) : i < j =>
       \A a \in IdSet(ordered[j]), b \in IdSet(ordered[i]) : <<a, b>> \notin R

Between(ordered, i, j) == UNION {IdSet(ordered[k]) : k \in i .. j}

LEMMA BetweenIs ==
  ASSUME NEW I, NEW R, NEW ordered, OrderedOk(ordered, I, R), NEW i \in 1 .. Len(ordered), NEW j \in i .. Len(ordered)
  PROVE  LET n == Len(ordered) IN
         /\ Between(ordered, i, j) \cap Between(ordered, j + 1, n) = {}
         /\ Between(ordered, i, n) = Between(ordered, i, j) \cup Between(ordered, j + 1, n)
         /\ Between(ordered, i, i) = IdSet(ordered[i])
         /\ \A a \in Between(ordered, j + 1, n), b \in Between(ordered, i, j) : <<a, b>> \notin R
<1> DEFINE n == Len(ordered)
<1>1. /\ n \in Nat /\ \A k, l \in 1 .. n : k # l => IdSet(ordered[k]) \cap IdSet(ordered[l]) = {}
      /\ \A k, l \in 1 .. n : k < l =>
           \A a \in IdSet(ordered[l]), b \in IdSet(ordered[k]) : <<a, b>> \notin R
  BY DEF OrderedOk
<1>2. i \in 1 .. n /\ j \in i .. n
  OBVIOUS
<1> HIDE DEF n
<1>3. /\ \A k \in i .. j : k \in 1 .. n
      /\ \A k \in j + 1 .. n : k \in 1 .. n
      /\ \A k \in i .. j, l \in j + 1 .. n : k # l /\ k < l
      /\ \A k : k \in i .. n <=> k \in i .. j \/ k \in j + 1 .. n
      /\ \A k : k \in i .. i <=> k = i
  BY <1>1, <1>2
<1>4. Between(ordered, i, j) \cap Between(ordered, j + 1, n) = {}
  <2>1. ASSUME NEW x, x \in Between(ordered, i, j), x \in Between(ordered, j + 1, n)
        PROVE  FALSE
    <3>1. PICK k \in i .. j : x \in IdSet(ordered[k])
      BY <2>1 DEF Between
    <3>2. PICK l \in j + 1 .. n : x \in IdSet(ordered[l])
      BY <2>1 DEF Between
    <3>3. k \in 1 .. n /\ l \in 1 .. n /\ k # l
      BY <1>3
    <3> QED
      BY <1>1, <3>1, <3>2, <3>3
  <2> QED
    BY <2>1
<1>5. Between(ordered, i, n) = Between(ordered, i, j) \cup Between(ordered, j + 1, n)
  BY <1>3 DEF Between
<1>6. Between(ordered, i, i) = IdSet(ordered[i])
  BY <1>3 DEF Between
<1>7. ASSUME NEW a \in Between(ordered, j + 1, n), NEW b \in Between(ordered, i, j)
      PROVE  <<a, b>> \notin R
  <2>1. PICK k \in i .. j : b \in IdSet(ordered[k])
    BY DEF Between
  <2>2. PICK l \in j + 1 .. n : a \in IdSet(ordered[l])
    BY DEF Between
  <2>3. k \in 1 .. n /\ l \in 1 .. n /\ k < l
    BY <1>3
  <2> QED
    BY <1>1, <2>1, <2>2, <2>3
<1> QED
  BY <1>4, <1>5, <1>6, <1>7 DEF n

LEMMA RunEndIs ==
  ASSUME NEW I, NEW R, NEW ordered, OrderedOk(ordered, I, R), NEW i \in 1 .. Len(ordered)
  PROVE  /\ RunEnd(ordered, i) \in i - 1 .. Len(ordered)
         /\ \A k \in i .. RunEnd(ordered, i) : IsRow(ordered[k])
         /\ IsTable(ordered, i) => RunEnd(ordered, i) > i
<1> DEFINE n == Len(ordered)
           E == {j \in i .. n : \A k \in i .. j :
                   IsRow(ordered[k]) /\ Line(ordered[k].ids[1]).cells = Line(ordered[i].ids[1]).cells}
           S == {i - 1} \cup E
<1>1. n \in Nat /\ i \in 1 .. n
  BY DEF OrderedOk
<1>2. RunEnd(ordered, i) = Max(S)
  BY DEF RunEnd
<1>3. S \subseteq i - 1 .. n /\ i - 1 \in S
  BY <1>1
<1>4. \A j \in E : \A k \in i .. j : IsRow(ordered[k])
  OBVIOUS
<1> HIDE DEF n, S, E
<1>5. IsFiniteSet(S) /\ S \subseteq Int /\ S # {}
  <2>1. IsFiniteSet(i - 1 .. n)
    BY <1>1, FS_Interval
  <2>2. IsFiniteSet(S)
    BY <1>3, <2>1, FS_Subset
  <2> QED
    BY <1>1, <1>3, <2>2
<1>6. Max(S) \in S
  BY <1>5, MaxOf
<1>7. \A k \in i .. Max(S) : IsRow(ordered[k])
  <2>1. TAKE k \in i .. Max(S)
  <2>2. Max(S) # i - 1
    BY <1>1, <1>3, <1>6, <2>1
  <2>3. Max(S) \in E
    BY <1>6, <2>2 DEF S
  <2> QED
    BY <1>4, <2>1, <2>3
<1>8. IsTable(ordered, i) => Max(S) > i
  <2>1. ASSUME IsTable(ordered, i)
        PROVE  Max(S) > i
    <3>1. Max(S) - i + 1 >= 3 \/ Max(S) - i + 1 = 2
      BY <1>2, <2>1 DEF IsTable
    <3>2. Max(S) \in Int
      BY <1>5, <1>6
    <3> QED
      BY <1>1, <3>1, <3>2
  <2> QED
    BY <2>1
<1> QED
  BY <1>2, <1>3, <1>6, <1>7, <1>8 DEF n

RowIds(ordered, i) == [k \in 1 .. RunEnd(ordered, i) - i + 1 |-> ordered[i + k - 1].ids[1]]

\* The rows of an unruled table are its blocks, a line each.
LEMMA RowIdsAre ==
  ASSUME NEW I, NEW R, NEW ordered, OrderedOk(ordered, I, R), NEW i \in 1 .. Len(ordered), IsTable(ordered, i)
  PROVE  /\ RowIds(ordered, i) \in Seq(I) /\ RowIds(ordered, i) # <<>>
         /\ Lists(RowIds(ordered, i), Between(ordered, i, RunEnd(ordered, i)))
         /\ KeepsOrder(RowIds(ordered, i), R)
<1> DEFINE n == Len(ordered)
           e == RunEnd(ordered, i)
           m == e - i + 1
           r == RowIds(ordered, i)
           X == Between(ordered, i, e)
<1>1. e \in i - 1 .. n /\ e > i /\ \A k \in i .. e : IsRow(ordered[k])
  BY RunEndIs
<1>2. n \in Nat /\ i \in 1 .. n
  BY DEF OrderedOk
<1>3. /\ \A j \in 1 .. n : ordered[j].ids \in Seq(I)
      /\ \A j, k \in 1 .. n : j # k => IdSet(ordered[j]) \cap IdSet(ordered[k]) = {}
      /\ \A j \in 1 .. n : KeepsOrder(ordered[j].ids, R)
      /\ \A j, k \in 1 .. n : j < k =>
           \A a \in IdSet(ordered[k]), b \in IdSet(ordered[j]) : <<a, b>> \notin R
  BY DEF OrderedOk
<1>4. r = [k \in 1 .. m |-> ordered[i + k - 1].ids[1]]
  BY DEF RowIds
<1> HIDE DEF n, e, r
<1>5. m \in Nat /\ m > 0 /\ \A k \in 1 .. m : i + k - 1 \in 1 .. n /\ i + k - 1 \in i .. e
  BY <1>1, <1>2
<1>6. \A j \in i .. e : j \in 1 .. n
  BY <1>1, <1>2
<1>7. \A j \in i .. e : /\ ordered[j].ids[1] \in I /\ ordered[j].ids[1] \in IdSet(ordered[j])
                        /\ <<ordered[j].ids[1], ordered[j].ids[1]>> \notin R
  <2>1. TAKE j \in i .. e
  <2>2. Len(ordered[j].ids) = 1 /\ ordered[j].ids \in Seq(I) /\ KeepsOrder(ordered[j].ids, R)
    BY <1>1, <1>3, <1>6 DEF IsRow
  <2>3. 1 \in 1 .. Len(ordered[j].ids)
    BY <2>2
  <2>4. <<ordered[j].ids[1], ordered[j].ids[1]>> \notin R
    BY <2>2, <2>3 DEF KeepsOrder
  <2> QED
    BY <2>2, <2>3, <2>4 DEF IdSet
<1>8. \A j \in i .. e : ordered[j].ids[1] \in X
  BY <1>7 DEF Between
<1> HIDE DEF m, X
<1>9. \A k \in 1 .. m : r[k] = ordered[i + k - 1].ids[1] /\ r[k] \in I /\ r[k] \in X
  BY <1>4, <1>5, <1>7, <1>8
<1>10. r \in [1 .. m -> I] /\ r \in [1 .. m -> X]
  BY <1>4, <1>9
<1>11. r \in Seq(I) /\ r \in Seq(X) /\ Len(r) = m /\ r # <<>>
  BY <1>5, <1>10
<1>12. \A j, k \in 1 .. m : j # k => r[j] # r[k]
  <2>1. TAKE j \in 1 .. m, k \in 1 .. m
  <2>2. HAVE j # k
  <2> DEFINE a == i + j - 1
             b == i + k - 1
  <2>3. a \in 1 .. n /\ b \in 1 .. n /\ a \in i .. e /\ b \in i .. e /\ a # b
    <3>1. a \in 1 .. n /\ b \in 1 .. n /\ a \in i .. e /\ b \in i .. e
      BY <1>5
    <3>2. i \in Int /\ j \in Int /\ k \in Int
      BY <1>2, <1>5
    <3>3. a # b
      BY <2>2, <3>2
    <3> QED
      BY <3>1, <3>3
  <2>4. r[j] = ordered[a].ids[1] /\ r[k] = ordered[b].ids[1]
    BY <1>9
  <2> HIDE DEF a, b
  <2>5. r[j] \in IdSet(ordered[a]) /\ r[k] \in IdSet(ordered[b])
    BY <1>7, <2>3, <2>4
  <2> QED
    BY <1>3, <2>3, <2>5
<1>13. Lists(r, X)
  BY <1>11, <1>12 DEF Lists, OneByOne
<1>14. ASSUME NEW j \in 1 .. m, NEW k \in 1 .. m, <<r[j], r[k]>> \in R
       PROVE  j < k
  <2> DEFINE a == i + j - 1
             b == i + k - 1
  <2>1. a \in 1 .. n /\ b \in 1 .. n /\ a \in i .. e /\ b \in i .. e
    BY <1>5
  <2>2. i \in Int /\ j \in Int /\ k \in Int /\ m \in Nat
    BY <1>2, <1>5
  <2>3. j < k \/ a = b \/ b < a
    BY <2>2
  <2>4. r[j] = ordered[a].ids[1] /\ r[k] = ordered[b].ids[1]
    BY <1>9
  <2> HIDE DEF a, b
  <2>5. r[j] \in IdSet(ordered[a]) /\ r[k] \in IdSet(ordered[b]) /\ a # b
    BY <1>7, <1>14, <2>1, <2>4
  <2>6. ~(b < a)
    BY <1>3, <1>14, <2>1, <2>5
  <2> QED
    BY <2>3, <2>5, <2>6
<1>15. KeepsOrder(r, R)
  BY <1>11, <1>14 DEF KeepsOrder
<1> QED
  BY <1>11, <1>13, <1>15 DEF r, X, e

FlowStep(ordered, blocks, i, f) ==
  IF i > Len(ordered) THEN <<>>
  ELSE IF ordered[i].table THEN <<Part("table", 0, ordered[i].ids)>> \o f[i + 1]
  ELSE IF IsTable(ordered, i)
    THEN <<Part("table", 0, RowIds(ordered, i))>> \o f[RunEnd(ordered, i) + 1]
  ELSE BlockMarkdown(ordered[i], blocks) \o f[i + 1]

IsFlow(ordered, blocks, g) ==
  g = [i \in 1 .. Len(ordered) + 1 |-> FlowStep(ordered, blocks, i, g)]

LEMMA TablePart ==
  ASSUME NEW I, NEW ids \in Seq(I), ids # <<>>
  PROVE  /\ FinalParts(<<Part("table", 0, ids)>>, I)
         /\ Reads(<<Part("table", 0, ids)>>) = ids
<1> DEFINE p == Part("table", 0, ids)
<1>1. p \in PartsOver(I) /\ p.kind = "table" /\ p.ids = ids
  BY DEF Part, PartsOver, PartKinds
<1>2. GoodPart(p)
  BY <1>1 DEF GoodPart
<1> HIDE DEF p
<1>3. FinalParts(<<p>>, I) /\ Reads(<<p>>) = p.ids
  BY <1>1, <1>2, FinalOne
<1> QED
  BY <1>1, <1>3 DEF p

\* What a turn of the loop reads, if the later ones read what comes later.
LEMMA FlowStepIs ==
  ASSUME NEW I, AreLines(I), NEW R, NEW ordered, OrderedOk(ordered, I, R), NEW blocks,
         NEW i \in 1 .. Len(ordered) + 1, NEW f,
         \A j \in 1 .. Len(ordered) + 1 : j > i =>
           /\ FinalParts(f[j], I) /\ Lists(Reads(f[j]), Between(ordered, j, Len(ordered)))
           /\ KeepsOrder(Reads(f[j]), R)
  PROVE  /\ FinalParts(FlowStep(ordered, blocks, i, f), I)
         /\ Lists(Reads(FlowStep(ordered, blocks, i, f)), Between(ordered, i, Len(ordered)))
         /\ KeepsOrder(Reads(FlowStep(ordered, blocks, i, f)), R)
<1> DEFINE n == Len(ordered)
           s == FlowStep(ordered, blocks, i, f)
<1>1. s = IF i > n THEN <<>>
          ELSE IF ordered[i].table THEN <<Part("table", 0, ordered[i].ids)>> \o f[i + 1]
          ELSE IF IsTable(ordered, i)
            THEN <<Part("table", 0, RowIds(ordered, i))>> \o f[RunEnd(ordered, i) + 1]
          ELSE BlockMarkdown(ordered[i], blocks) \o f[i + 1]
  BY DEF FlowStep
<1>2. SUFFICES FinalParts(s, I) /\ Lists(Reads(s), Between(ordered, i, n)) /\ KeepsOrder(Reads(s), R)
  OBVIOUS
<1> HIDE DEF s
<1>3. n \in Nat /\ i \in 1 .. n + 1
  BY DEF OrderedOk
<1>4. CASE i > n
  <2>1. s = <<>>
    BY <1>4, <1>1
  <2>2. Between(ordered, i, n) = {}
    <3>1. \A k : k \notin i .. n
      BY <1>3, <1>4
    <3> QED
      BY <3>1 DEF Between
  <2> QED
    BY <2>1, <2>2, FinalNone, ReadsNothing DEF KeepsOrder
<1>5. CASE i <= n
  <2>1. i \in 1 .. n /\ i \in i .. n /\ i + 1 \in 1 .. n + 1 /\ i + 1 > i
    BY <1>3, <1>5
  <2> DEFINE b == ordered[i]
  <2>2. /\ b.ids \in Seq(I) /\ b.ids # <<>> /\ OneByOne(b.ids) /\ Lists(b.ids, IdSet(b))
        /\ KeepsOrder(b.ids, R)
    <3>1. b.ids \in Seq(I) /\ b.ids # <<>> /\ OneByOne(b.ids) /\ KeepsOrder(b.ids, R)
      BY <2>1 DEF OrderedOk
    <3>2. b.ids \in Seq(IdSet(b))
      BY <3>1 DEF IdSet
    <3> QED
      BY <3>1, <3>2 DEF Lists
  <2> HIDE DEF b
  \* first is read before what begins at j.
  <2>3. ASSUME NEW j \in i .. n, NEW first, FinalParts(first, I), Lists(Reads(first), Between(ordered, i, j)),
               KeepsOrder(Reads(first), R), s = first \o f[j + 1]
        PROVE  FinalParts(s, I) /\ Lists(Reads(s), Between(ordered, i, n)) /\ KeepsOrder(Reads(s), R)
    <3>1. j + 1 \in 1 .. n + 1 /\ j + 1 > i
      BY <1>3, <2>1, <2>3
    <3>2. /\ FinalParts(f[j + 1], I) /\ Lists(Reads(f[j + 1]), Between(ordered, j + 1, n))
          /\ KeepsOrder(Reads(f[j + 1]), R)
      BY <3>1
    <3>3. /\ Between(ordered, i, j) \cap Between(ordered, j + 1, n) = {}
          /\ Between(ordered, i, n) = Between(ordered, i, j) \cup Between(ordered, j + 1, n)
          /\ \A x \in Between(ordered, j + 1, n), y \in Between(ordered, i, j) : <<x, y>> \notin R
      BY <2>1, <2>3, BetweenIs
    <3> DEFINE X    == Between(ordered, i, j)
               Y    == Between(ordered, j + 1, n)
               rest == f[j + 1]
    <3>4. FinalParts(first, I) /\ Lists(Reads(first), X) /\ KeepsOrder(Reads(first), R)
      BY <2>3
    <3>5. FinalParts(rest, I) /\ Lists(Reads(rest), Y) /\ KeepsOrder(Reads(rest), R)
      BY <3>2
    <3>6. X \cap Y = {} /\ \A x \in Y, y \in X : <<x, y>> \notin R
      BY <3>3
    <3>7. s = first \o rest /\ Between(ordered, i, n) = X \cup Y
      BY <2>3, <3>3
    <3> HIDE DEF X, Y, rest
    <3>8. FinalParts(s, I) /\ Lists(Reads(s), X \cup Y)
      <4>1. /\ FinalParts(first, I) /\ Lists(Reads(first), X)
            /\ FinalParts(rest, I) /\ Lists(Reads(rest), Y) /\ X \cap Y = {} /\ s = first \o rest
        BY <3>4, <3>5, <3>6, <3>7
      <4> QED
        BY <4>1, FinalJoin
    <3> DEFINE u == Reads(first)
               v == Reads(rest)
    <3>9. Reads(s) = u \o v
      <4>1. first \in Seq(PartsOver(I)) /\ rest \in Seq(PartsOver(I))
        BY <3>4, <3>5 DEF FinalParts
      <4> QED
        BY <3>7, <4>1, ReadsJoin
    <3>10. Lists(u, X) /\ KeepsOrder(u, R) /\ Lists(v, Y) /\ KeepsOrder(v, R)
      BY <3>4, <3>5
    <3> HIDE DEF u, v
    <3>11. KeepsOrder(u \o v, R)
      BY <3>6, <3>10, OrderJoins
    <3> QED
      BY <3>7, <3>8, <3>9, <3>11
  <2>4. Between(ordered, i, i) = IdSet(b)
    BY <2>1, BetweenIs DEF b
  <2>5. CASE b.table
    <3> DEFINE first == <<Part("table", 0, b.ids)>>
    <3>1. FinalParts(first, I) /\ Reads(first) = b.ids
      BY <2>2, TablePart
    <3>2. s = first \o f[i + 1]
      BY <1>3, <1>5, <1>1, <2>5 DEF b
    <3> HIDE DEF first
    <3> QED
      BY <2>1, <2>2, <2>3, <2>4, <3>1, <3>2
  <2>6. CASE ~b.table /\ IsTable(ordered, i)
    <3> DEFINE first == <<Part("table", 0, RowIds(ordered, i))>>
               e     == RunEnd(ordered, i)
    <3>1. /\ RowIds(ordered, i) \in Seq(I) /\ RowIds(ordered, i) # <<>>
          /\ Lists(RowIds(ordered, i), Between(ordered, i, e)) /\ KeepsOrder(RowIds(ordered, i), R)
      BY <2>1, <2>6, RowIdsAre
    <3>2. FinalParts(first, I) /\ Reads(first) = RowIds(ordered, i)
      BY <3>1, TablePart
    <3>3. s = first \o f[e + 1]
      BY <1>3, <1>5, <1>1, <2>6 DEF b
    <3>4. e \in i .. n
      <4>1. e \in i - 1 .. n /\ e > i
        BY <2>1, <2>6, RunEndIs
      <4> QED
        BY <1>3, <4>1
    <3> HIDE DEF first, e
    <3> QED
      BY <2>3, <3>1, <3>2, <3>3, <3>4
  <2>7. CASE ~b.table /\ ~IsTable(ordered, i)
    <3> DEFINE first == BlockMarkdown(b, blocks)
    <3>1. FinalParts(first, I) /\ Lists(Reads(first), IdSet(b)) /\ KeepsOrder(Reads(first), R)
      BY <2>2, BlockMarkdownIs DEF IdSet
    <3>2. ~(i > n) /\ ~ordered[i].table /\ ~IsTable(ordered, i)
      BY <1>3, <1>5, <2>7 DEF b
    <3>3. s = BlockMarkdown(ordered[i], blocks) \o f[i + 1]
      BY ONLY <1>1, <3>2
    <3>4. s = first \o f[i + 1]
      BY <3>3 DEF b
    <3> HIDE DEF first
    <3> QED
      BY <2>1, <2>3, <2>4, <3>1, <3>4
  <2> QED
    BY <2>5, <2>6, <2>7
<1> QED
  BY <1>3, <1>4, <1>5
LEMMA FlowExists ==
  ASSUME NEW I, AreLines(I), NEW R, NEW ordered, OrderedOk(ordered, I, R), NEW blocks
  PROVE  \E g : IsFlow(ordered, blocks, g)
<1> DEFINE n == Len(ordered)
           D == 1 .. n + 1
           V == Seq(PartsOver(I))
           F == [D -> V]
           rank == [i \in D |-> n + 1 - i]
           turn(i, f) == FlowStep(ordered, blocks, i, f)
           step == [i \in D |-> [f \in F |-> turn(i, f)]]
           none == <<>>
<1>1. n \in Nat /\ none \in V
  BY DEF OrderedOk
<1>2. ASSUME NEW i \in D, i <= n
      PROVE  i + 1 \in D /\ (IsTable(ordered, i) => RunEnd(ordered, i) + 1 \in D /\ RunEnd(ordered, i) > i)
  <2>1. i \in 1 .. n
    BY <1>1, <1>2
  <2>2. RunEnd(ordered, i) \in i - 1 .. n /\ (IsTable(ordered, i) => RunEnd(ordered, i) > i)
    BY <2>1, RunEndIs
  <2> QED
    BY <1>1, <2>1, <2>2
<1>3. ASSUME NEW i \in D, NEW f \in F
      PROVE  turn(i, f) \in V
  <2>1. CASE i > n
    BY <1>1, <2>1 DEF FlowStep
  <2>2. CASE i <= n
    <3>1. i \in 1 .. n
      BY <1>1, <2>2
    <3>2. f[i + 1] \in V /\ (IsTable(ordered, i) => f[RunEnd(ordered, i) + 1] \in V)
      BY <1>2, <2>2
    <3>3. /\ ordered[i].ids \in Seq(I) /\ ordered[i].ids # <<>> /\ OneByOne(ordered[i].ids)
          /\ KeepsOrder(ordered[i].ids, R)
      BY <3>1 DEF OrderedOk
    <3>4. <<Part("table", 0, ordered[i].ids)>> \in V
      BY <3>3, TablePart DEF FinalParts
    <3>5. IsTable(ordered, i) => <<Part("table", 0, RowIds(ordered, i))>> \in V
      <4>1. ASSUME IsTable(ordered, i)
            PROVE  <<Part("table", 0, RowIds(ordered, i))>> \in V
        <5>1. RowIds(ordered, i) \in Seq(I) /\ RowIds(ordered, i) # <<>>
          BY <3>1, <4>1, RowIdsAre
        <5> QED
          BY <5>1, TablePart DEF FinalParts
      <4> QED
        BY <4>1
    <3>6. BlockMarkdown(ordered[i], blocks) \in V
      BY <3>3, BlockMarkdownIs DEF FinalParts
    <3>7. \A u, v \in V : u \o v \in V
      BY ConcatIs
    <3>8. turn(i, f) = IF ordered[i].table THEN <<Part("table", 0, ordered[i].ids)>> \o f[i + 1]
                       ELSE IF IsTable(ordered, i)
                         THEN <<Part("table", 0, RowIds(ordered, i))>> \o f[RunEnd(ordered, i) + 1]
                       ELSE BlockMarkdown(ordered[i], blocks) \o f[i + 1]
      BY <1>1, <3>1 DEF FlowStep
    <3> HIDE DEF V, turn
    <3>9. CASE ordered[i].table
      BY <3>2, <3>4, <3>7, <3>8, <3>9
    <3>10. CASE ~ordered[i].table /\ IsTable(ordered, i)
      BY <3>2, <3>5, <3>7, <3>8, <3>10
    <3>11. CASE ~ordered[i].table /\ ~IsTable(ordered, i)
      <4>1. turn(i, f) = BlockMarkdown(ordered[i], blocks) \o f[i + 1]
        BY ONLY <3>8, <3>11
      <4> QED
        BY ONLY <3>2, <3>6, <3>7, <4>1
    <3> QED
      BY <3>9, <3>10, <3>11 DEF turn, V
  <2> QED
    BY <1>1, <2>1, <2>2
<1>4. rank \in [D -> Nat] /\ \A i \in D : rank[i] = n + 1 - i
  BY <1>1
<1>5. ASSUME NEW i \in D, NEW f \in F, NEW g \in F, \A j \in D : rank[j] < rank[i] => f[j] = g[j]
      PROVE  turn(i, f) = turn(i, g)
  <2>1. \A j \in D : j > i => f[j] = g[j]
    BY <1>1, <1>4, <1>5
  <2>2. CASE i > n
    BY <1>1, <2>2 DEF FlowStep
  <2>3. CASE i <= n
    <3>1. f[i + 1] = g[i + 1]
      BY <1>1, <1>2, <2>1, <2>3
    <3>2. IsTable(ordered, i) => f[RunEnd(ordered, i) + 1] = g[RunEnd(ordered, i) + 1]
      <4>1. ASSUME IsTable(ordered, i)
            PROVE  f[RunEnd(ordered, i) + 1] = g[RunEnd(ordered, i) + 1]
        <5> DEFINE e == RunEnd(ordered, i) + 1
        <5>1. RunEnd(ordered, i) + 1 \in D /\ RunEnd(ordered, i) > i
          BY <1>2, <2>3, <4>1
        <5>2. e \in D /\ e > i
          <6>1. RunEnd(ordered, i) \in Int
            <7>1. i \in 1 .. n
              BY <1>1, <2>3
            <7> QED
              BY <1>1, <7>1, RunEndIs
          <6> QED
            BY <5>1, <6>1
        <5> HIDE DEF e, D
        <5>3. f[e] = g[e]
          BY <2>1, <5>2
        <5> QED
          BY <5>3 DEF e
      <4> QED
        BY <4>1
    <3>3. CASE IsTable(ordered, i)
      BY <3>1, <3>2, <3>3 DEF FlowStep
    <3>4. CASE ~IsTable(ordered, i)
      BY <3>1, <3>4 DEF FlowStep
    <3> QED
      BY <3>3, <3>4
  <2> QED
    BY <1>1, <2>2, <2>3
<1> DEFINE m == n + 1
<1>6. m \in Nat /\ \A i \in D : rank[i] < m
  BY <1>1, <1>4
<1> HIDE DEF turn, rank, D, V, m
<1>7. \A i \in D, f \in F : step[i][f] = turn(i, f)
  OBVIOUS
<1>8. step \in [D -> [F -> V]]
  BY <1>3
<1> HIDE DEF step
<1>9. Recurses(D, V, rank, step)
  <2>1. ASSUME NEW i \in D, NEW f \in F, NEW g \in F,
               \A j \in D : rank[j] < rank[i] => f[j] = g[j]
        PROVE  step[i][f] = step[i][g]
    <3>1. turn(i, f) = turn(i, g)
      BY <1>5, <2>1
    <3> QED
      BY <1>7, <3>1
  <2>2. rank \in [D -> Nat]
    BY <1>4
  <2> QED
    BY ONLY <1>8, <2>1, <2>2 DEF Recurses
<1>10. PICK g \in F : \A i \in D : g[i] = step[i][g]
  BY <1>1, <1>9, <1>6, RankedRecursion
<1>11. g = [i \in D |-> turn(i, g)]
  BY <1>7, <1>10
<1> QED
  BY <1>11 DEF IsFlow, D, turn, n

\* The parts of a page read lines of its blocks, none twice, in their order.
LEMMA FlowReads ==
  ASSUME NEW I, AreLines(I), NEW R, NEW ordered, OrderedOk(ordered, I, R), NEW blocks
  PROVE  /\ FinalParts(Flow(ordered, blocks), I)
         /\ Lists(Reads(Flow(ordered, blocks)), Between(ordered, 1, Len(ordered)))
         /\ KeepsOrder(Reads(Flow(ordered, blocks)), R)
<1> DEFINE g == CHOOSE f : IsFlow(ordered, blocks, f)
           n == Len(ordered)
           Right(j) == /\ FinalParts(g[j], I) /\ Lists(Reads(g[j]), Between(ordered, j, n))
                       /\ KeepsOrder(Reads(g[j]), R)
<1>1. IsFlow(ordered, blocks, g)
  BY FlowExists
<1>2. Flow(ordered, blocks) = g[1]
  BY DEF Flow, IsFlow, FlowStep, RowIds
<1>3. n \in Nat
  BY DEF OrderedOk
<1> HIDE DEF g
<1>4. \A i \in 1 .. n + 1 : g[i] = FlowStep(ordered, blocks, i, g)
  BY <1>1 DEF IsFlow
<1>5. ASSUME NEW i \in 1 .. n + 1, \A j \in 1 .. n + 1 : j > i => Right(j)
      PROVE  Right(i)
  <2>1. /\ FinalParts(FlowStep(ordered, blocks, i, g), I)
        /\ Lists(Reads(FlowStep(ordered, blocks, i, g)), Between(ordered, i, n))
        /\ KeepsOrder(Reads(FlowStep(ordered, blocks, i, g)), R)
    BY <1>5, FlowStepIs
  <2> QED
    BY <1>4, <2>1
<1> HIDE DEF n, Right
<1> DEFINE T == {d \in 0 .. n + 1 : \A i \in 1 .. n + 1 : i > n + 1 - d => Right(i)}
<1>6. 0 \in T
  <2>1. \A i \in 1 .. n + 1 : ~(i > n + 1 - 0)
    BY <1>3
  <2> QED
    BY <1>3, <2>1
<1>7. ASSUME NEW d \in 0 .. (n + 1) - 1, d \in T
      PROVE  d + 1 \in T
  <2>1. \A i \in 1 .. n + 1 : i > n + 1 - d => Right(i)
    BY <1>7
  <2>2. n + 1 - d \in 1 .. n + 1
    BY <1>3
  <2>3. Right(n + 1 - d)
    BY <1>5, <2>1, <2>2
  <2>4. \A i \in 1 .. n + 1 : i > n + 1 - (d + 1) => i = n + 1 - d \/ i > n + 1 - d
    BY <1>3
  <2>5. \A i \in 1 .. n + 1 : i > n + 1 - (d + 1) => Right(i)
    BY <2>1, <2>3, <2>4
  <2> QED
    BY <1>3, <2>5
<1> HIDE DEF T
<1>8. n + 1 \in Nat
  BY <1>3
<1>9. \A d \in 0 .. n + 1 : d \in T
  <2> DEFINE m == n + 1
  <2>1. m \in Nat /\ \A d \in 0 .. m - 1 : d \in T => d + 1 \in T
    BY <1>7, <1>8
  <2> HIDE DEF m
  <2>2. \A d \in 0 .. m : d \in T
    BY <1>6, <2>1, UpTo
  <2> QED
    BY <2>2 DEF m
<1>10. Right(1)
  <2>1. n + 1 \in T /\ 1 \in 1 .. n + 1 /\ 1 > n + 1 - (n + 1)
    BY <1>3, <1>9
  <2> QED
    BY <2>1 DEF T
<1> QED
  BY <1>2, <1>10 DEF Right, n

(***************************************************************************)
(* Merging parts                                                           *)
(***************************************************************************)
LEMMA MergedIsSeq ==
  ASSUME NEW I, NEW parts \in Seq(PartsOver(I)), parts # <<>>, NEW part \in PartsOver(I)
  PROVE  LET n == Len(parts) IN
         /\ Merged(parts, part) \in Seq(PartsOver(I)) /\ Len(Merged(parts, part)) = n
         /\ \A i \in 1 .. n - 1 : Merged(parts, part)[i] = parts[i]
         /\ Merged(parts, part)[n].ids = parts[n].ids \o part.ids
         /\ Merged(parts, part)[n].kind = parts[n].kind
         /\ Merged(parts, part)[n].level = parts[n].level
<1> DEFINE P   == PartsOver(I)
           n   == Len(parts)
           p   == parts[n]
           j   == p.ids \o part.ids
           q   == [p EXCEPT !.ids = j]
           new == Merged(parts, part)
<1>1. parts \in Seq(P) /\ n \in Nat /\ n > 0 /\ n \in 1 .. n /\ p \in P
  OBVIOUS
<1>2. p.ids \in Seq(I) /\ p.level \in 0 .. 6 /\ p.kind \in PartKinds /\ part.ids \in Seq(I)
  BY <1>1 DEF PartsOver
<1>3. j \in Seq(I)
  BY <1>2
<1>4. q = [kind |-> p.kind, level |-> p.level, ids |-> j]
  <2>1. p \in [kind : PartKinds, level : 0 .. 6, ids : Seq(I)]
    BY <1>1 DEF PartsOver
  <2> HIDE DEF p, j
  <2> QED
    BY <2>1
<1> HIDE DEF j
<1>5. q \in P /\ q.kind = p.kind /\ q.ids = j /\ q.level = p.level
  BY <1>2, <1>3, <1>4 DEF PartsOver
<1>6. new = [parts EXCEPT ![n] = q]
  BY <1>1 DEF Merged, j
<1> HIDE DEF p, q, new, n, P
<1>7. /\ new \in Seq(P) /\ Len(new) = n /\ new[n] = q
      /\ \A i \in 1 .. n - 1 : new[i] = parts[i]
  <2>1. n = Len(parts)
    BY DEF n
  <2> QED
    BY <1>1, <1>5, <1>6, <2>1
<1> QED
  BY <1>5, <1>7 DEF new, n, p, j, P

\* A part that joins the last one of its kind, or follows it.
LEMMA MergeStepIs ==
  ASSUME NEW I, NEW parts, FinalParts(parts, I), NEW part \in PartsOver(I), part.ids # <<>>, GoodPart(part)
  PROVE  /\ FinalParts(Append(parts, part), I) /\ Reads(Append(parts, part)) = Reads(parts) \o part.ids
         /\ parts # <<>> /\ Last(parts).kind = part.kind =>
              /\ FinalParts(Merged(parts, part), I)
              /\ Reads(Merged(parts, part)) = Reads(parts) \o part.ids
<1> DEFINE P == PartsOver(I)
           n == Len(parts)
<1>1. /\ parts \in Seq(P) /\ n \in Nat /\ GoodParts(parts, I)
      /\ \A i \in 1 .. n : parts[i] \in P /\ parts[i].ids # <<>> /\ GoodPart(parts[i])
  BY DEF FinalParts, GoodParts
<1>2. part.ids \in Seq(I)
  BY DEF PartsOver
<1>3. FinalParts(Append(parts, part), I) /\ Reads(Append(parts, part)) = Reads(parts) \o part.ids
  <2> DEFINE w == Append(parts, part)
  <2>1. GoodParts(w, I) /\ Reads(w) = Reads(parts) \o part.ids
    BY <1>1, GoodAppend
  <2>2. /\ w \in Seq(P) /\ Len(w) = n + 1 /\ w[n + 1] = part
        /\ \A i \in 1 .. n : w[i] = parts[i]
    BY <1>1, AppendIs
  <2>3. \A i \in 1 .. n + 1 : i \in 1 .. n \/ i = n + 1
    BY <1>1
  <2>4. part.ids # <<>> /\ GoodPart(part)
    OBVIOUS
  <2> HIDE DEF w, P, n
  <2>5. \A i \in 1 .. n + 1 : w[i].ids # <<>> /\ GoodPart(w[i])
    BY <1>1, <2>2, <2>3, <2>4
  <2>6. FinalParts(w, I)
    BY <2>2, <2>5 DEF FinalParts, P
  <2> QED
    BY <2>1, <2>6 DEF w
<1>4. ASSUME parts # <<>>, Last(parts).kind = part.kind
      PROVE  FinalParts(Merged(parts, part), I) /\ Reads(Merged(parts, part)) = Reads(parts) \o part.ids
  <2> DEFINE w == Merged(parts, part)
             p == parts[n]
  <2>1. /\ w \in Seq(P) /\ Len(w) = n /\ (\A i \in 1 .. n - 1 : w[i] = parts[i])
        /\ w[n].ids = p.ids \o part.ids /\ w[n].kind = p.kind /\ w[n].level = p.level
    BY <1>1, <1>4, MergedIsSeq
  <2>2. n > 0 /\ n \in 1 .. n /\ Last(parts) = p
    BY <1>1, <1>4 DEF Last
  <2>3. p.ids # <<>> /\ p.ids \in Seq(I) /\ GoodPart(p)
    <3>1. p \in P
      BY <1>1, <2>2
    <3> QED
      BY <1>1, <2>2, <3>1 DEF PartsOver
  <2>4. p.ids \o part.ids # <<>>
    BY <1>2, <2>3
  <2>5. GoodPart(w[n]) /\ w[n].ids # <<>>
    <3>1. p.kind # "bullet"
      BY <2>3 DEF GoodPart
    <3> HIDE DEF w, p
    <3> QED
      BY <2>1, <2>3, <2>4, <3>1 DEF GoodPart
  <2>6. GoodParts(w, I) /\ Reads(w) = Reads(parts) \o part.ids
    <3> DEFINE ids == part.ids
    <3>1. /\ ids \in Seq(I) /\ w[Len(parts)].ids = parts[Len(parts)].ids \o ids
          /\ Len(w) = Len(parts) /\ (\A i \in 1 .. Len(parts) - 1 : w[i] = parts[i]) /\ w \in Seq(PartsOver(I))
          /\ GoodPart(w[Len(parts)])
      BY <1>2, <2>1, <2>5
    <3>2. GoodParts(parts, I) /\ parts # <<>>
      BY <1>1, <1>4
    <3> HIDE DEF ids, w
    <3>3. GoodParts(w, I) /\ Reads(w) = Reads(parts) \o ids
      BY ONLY <3>1, <3>2, GrownIs
    <3> QED
      BY <3>3 DEF ids
  <2>7. \A i \in 1 .. n : i \in 1 .. n - 1 \/ i = n
    BY <1>1
  <2>8. \A i \in 1 .. n - 1 : i \in 1 .. n
    BY <1>1
  <2> HIDE DEF w, n, p, P
  <2>9. \A i \in 1 .. n : w[i].ids # <<>> /\ GoodPart(w[i])
    BY <1>1, <2>1, <2>5, <2>7, <2>8
  <2>10. FinalParts(w, I)
    BY <2>1, <2>9 DEF FinalParts, P
  <2> QED
    BY <2>6, <2>10 DEF w
<1> QED
  BY <1>3, <1>4
\* FlattenSeq, one sequence after the other.
LEMMA FlatSteps ==
  ASSUME NEW S, NEW ss \in Seq(Seq(S))
  PROVE  \E so \in [0 .. Len(ss) -> Seq(S)] :
           /\ so[0] = <<>> /\ so[Len(ss)] = FlattenSeq(ss)
           /\ \A k \in 1 .. Len(ss) : so[k] = so[k - 1] \o ss[k]
<1> DEFINE n == Len(ss)
<1>1. n \in Nat /\ \A k \in 1 .. n : ss[k] \in Seq(S)
  OBVIOUS
<1>2. PICK h \in [1 .. Len(ss) -> Seq(S)] : IsFlat(ss, h)
  BY FlatExists
<1> HIDE DEF n
<1> DEFINE empty == <<>>
           so == [k \in 0 .. n |-> IF k = 0 THEN empty ELSE h[k]]
<1>3. n > 0 => h[1] = ss[1]
  BY <1>1, <1>2, FlatStarts DEF n
<1>4. \A i \in 2 .. n : h[i] = h[i - 1] \o ss[i]
  BY <1>1, <1>2, FlatRuns DEF n
<1>5. \A k \in 1 .. n : k # 0 /\ k - 1 \in 0 .. n /\ k \in 0 .. n /\ (k = 1 \/ (k \in 2 .. n /\ k - 1 \in 1 .. n))
  BY <1>1
<1>6. empty \in Seq(S) /\ \A k \in 1 .. n : h[k] \in Seq(S)
  BY <1>2 DEF n
<1>7. /\ \A k \in 0 .. n : k = 0 \/ k \in 1 .. n
      /\ 0 \in 0 .. n /\ n \in 0 .. n
  BY <1>1
<1> HIDE DEF empty
<1>8. so \in [0 .. n -> Seq(S)] /\ so[0] = empty /\ \A k \in 1 .. n : so[k] = h[k]
  BY <1>5, <1>6, <1>7
<1> HIDE DEF so
<1>9. ASSUME NEW k \in 1 .. n
      PROVE  so[k] = so[k - 1] \o ss[k]
  <2>1. CASE k = 1
    <3>1. so[1] = ss[1] /\ so[0] = <<>> /\ ss[1] \in Seq(S) /\ k - 1 = 0
      BY <1>1, <1>3, <1>8, <2>1 DEF empty
    <3>2. <<>> \o ss[1] = ss[1]
      BY <3>1, ConcatAssociates
    <3> QED
      BY <2>1, <3>1, <3>2
  <2>2. CASE k # 1
    BY <1>4, <1>5, <1>8, <2>2
  <2> QED
    BY <2>1, <2>2
<1>10. so[n] = FlattenSeq(ss)
  <2>1. CASE n = 0
    <3>1. ss = <<>>
      BY <2>1 DEF n
    <3> QED
      BY <1>8, <2>1, <3>1, FlattenEmpty DEF empty
  <2>2. CASE n > 0
    <3>1. FlattenSeq(ss) = h[Len(ss)]
      BY <1>2, <2>2, FlattenIs DEF n
    <3> QED
      BY <1>1, <1>8, <2>2, <3>1 DEF n
  <2> QED
    BY <1>1, <2>1, <2>2
<1> QED
  BY <1>8, <1>9, <1>10 DEF n, empty

\* A loop that merges a part with the last one, or not, as R says.
MergeRuns(parts, R, I, g) ==
  /\ g[0] = <<>>
  /\ \A k \in 1 .. Len(parts) : g[k - 1] \in Seq(PartsOver(I)) =>
       g[k] = IF <<g[k - 1], parts[k]>> \in R THEN Merged(g[k - 1], parts[k])
              ELSE Append(g[k - 1], parts[k])

Mergeable(R, I) == \A v \in Seq(PartsOver(I)), p \in PartsOver(I) :
  <<v, p>> \in R => v # <<>> /\ Last(v).kind = p.kind

LEMMA MergeExists ==
  ASSUME NEW I, NEW parts \in Seq(PartsOver(I)), NEW R, Mergeable(R, I)
  PROVE  \E g \in [0 .. Len(parts) -> Seq(PartsOver(I))] : MergeRuns(parts, R, I, g)
<1> DEFINE P     == PartsOver(I)
           V     == Seq(P)
           n     == Len(parts)
           empty == <<>>
           next(v, k) == IF <<v, parts[k]>> \in R THEN Merged(v, parts[k]) ELSE Append(v, parts[k])
           step  == [k \in 1 .. n |-> [v \in V |-> next(v, k)]]
<1>1. n \in Nat /\ empty \in V /\ \A k \in 1 .. n : parts[k] \in P
  OBVIOUS
<1>2. ASSUME NEW k \in 1 .. n, NEW v \in V
      PROVE  next(v, k) \in V
  <2>1. CASE <<v, parts[k]>> \in R
    <3>1. parts[k] \in P
      BY <1>1
    <3>2. v # <<>>
      BY <2>1, <3>1 DEF Mergeable
    <3>3. Merged(v, parts[k]) \in V
      BY <3>1, <3>2, MergedIsSeq
    <3> QED
      BY <2>1, <3>3
  <2>2. CASE <<v, parts[k]>> \notin R
    BY <1>1, <2>2, AppendIs
  <2> QED
    BY <2>1, <2>2
<1> HIDE DEF next, V, empty, n
<1>3. step \in [1 .. n -> [V -> V]]
  BY <1>2
<1>4. \A k \in 1 .. n, v \in V : step[k][v] = next(v, k)
  OBVIOUS
<1> HIDE DEF step
<1>5. PICK g : RunsAs(n, V, empty, step, g)
  BY <1>1, <1>3, Recursion DEF IsLoop
<1>6. g \in [0 .. n -> V] /\ g[0] = empty /\ \A k \in 1 .. n : g[k] = step[k][g[k - 1]]
  BY <1>5 DEF RunsAs
<1>7. \A k \in 1 .. n : g[k] = next(g[k - 1], k)
  <2>1. \A k \in 1 .. n : k - 1 \in 0 .. n
    BY <1>1
  <2> QED
    BY <1>4, <1>6, <2>1
<1> QED
  BY <1>6, <1>7 DEF MergeRuns, V, P, n, empty, next

\* Merging keeps what the parts read.
LEMMA MergeReads ==
  ASSUME NEW I, NEW parts, FinalParts(parts, I), NEW R, Mergeable(R, I), NEW g, MergeRuns(parts, R, I, g)
  PROVE  FinalParts(g[Len(parts)], I) /\ Reads(g[Len(parts)]) = Reads(parts)
<1> DEFINE P  == PartsOver(I)
           n  == Len(parts)
           ss == IdsOf(parts)
<1>1. /\ parts \in Seq(P) /\ n \in Nat
      /\ \A i \in 1 .. n : parts[i] \in P /\ parts[i].ids # <<>> /\ GoodPart(parts[i]) /\ parts[i].ids \in Seq(I)
  <2>1. parts \in Seq(P) /\ n \in Nat /\ \A i \in 1 .. n : parts[i] \in P /\ parts[i].ids # <<>> /\ GoodPart(parts[i])
    BY DEF FinalParts
  <2>2. \A p \in P : p.ids \in Seq(I)
    BY DEF PartsOver
  <2> QED
    BY <2>1, <2>2
<1>2. /\ ss \in Seq(Seq(I)) /\ Len(ss) = n /\ Reads(parts) = FlattenSeq(ss)
      /\ \A k \in 1 .. n : ss[k] = parts[k].ids
  BY <1>1, IdsAre DEF Reads
<1>3. PICK so \in [0 .. Len(ss) -> Seq(I)] :
        /\ so[0] = <<>> /\ so[Len(ss)] = FlattenSeq(ss)
        /\ \A k \in 1 .. Len(ss) : so[k] = so[k - 1] \o ss[k]
  BY <1>2, FlatSteps
<1>4. g[0] = <<>> /\ \A k \in 1 .. n : g[k - 1] \in Seq(P) =>
        g[k] = IF <<g[k - 1], parts[k]>> \in R THEN Merged(g[k - 1], parts[k]) ELSE Append(g[k - 1], parts[k])
  BY DEF MergeRuns
<1> HIDE DEF ss, n
<1>5. \A k \in 1 .. n : so[k] = so[k - 1] \o parts[k].ids
  BY <1>2, <1>3
<1> DEFINE T == {k \in 0 .. n : FinalParts(g[k], I) /\ Reads(g[k]) = so[k]}
<1>6. 0 \in T
  BY <1>1, <1>4, <1>3, FinalNone, ReadsNothing
<1>7. ASSUME NEW k \in 0 .. n - 1, k \in T
      PROVE  k + 1 \in T
  <2> DEFINE v == g[k]
             p == parts[k + 1]
  <2>1. k + 1 \in 1 .. n /\ k + 1 \in 0 .. n /\ (k + 1) - 1 = k
    BY <1>1
  <2>2. FinalParts(v, I) /\ Reads(v) = so[k] /\ p \in P /\ p.ids # <<>> /\ GoodPart(p) /\ v \in Seq(P)
    BY <1>1, <1>7, <2>1 DEF FinalParts
  <2>3. g[k + 1] = IF <<v, p>> \in R THEN Merged(v, p) ELSE Append(v, p)
    BY <1>4, <2>1, <2>2
  <2>4. <<v, p>> \in R => v # <<>> /\ Last(v).kind = p.kind
    BY <2>2 DEF Mergeable
  <2>5. so[k + 1] = so[k] \o p.ids
    BY <1>5, <2>1
  <2> HIDE DEF v, p
  <2>6. /\ FinalParts(Append(v, p), I) /\ Reads(Append(v, p)) = Reads(v) \o p.ids
        /\ v # <<>> /\ Last(v).kind = p.kind =>
             FinalParts(Merged(v, p), I) /\ Reads(Merged(v, p)) = Reads(v) \o p.ids
    BY <2>2, MergeStepIs
  <2>7. FinalParts(g[k + 1], I) /\ Reads(g[k + 1]) = Reads(v) \o p.ids
    BY <2>3, <2>4, <2>6
  <2> QED
    BY <2>1, <2>2, <2>5, <2>7
<1> HIDE DEF T
<1>8. n \in T
  <2>1. \A k \in 0 .. n : k \in T
    BY <1>1, <1>6, <1>7, UpTo
  <2> QED
    BY <1>1, <2>1
<1>9. so[n] = Reads(parts)
  BY <1>2, <1>3
<1> QED
  BY <1>8, <1>9 DEF T, n

LEMMA HeadingsMerged ==
  ASSUME NEW I, NEW parts, FinalParts(parts, I)
  PROVE  /\ FinalParts(MergeWrappedHeadings(parts), I)
         /\ Reads(MergeWrappedHeadings(parts)) = Reads(parts)
<1> DEFINE P == PartsOver(I)
           n == Len(parts)
           R == {x \in Seq(P) \X P : x[1] # <<>> /\ Wraps(Last(x[1]), x[2])}
           Loop(g) == g = [k \in 0 .. n |->
                        IF k = 0 THEN <<>>
                        ELSE IF g[k - 1] # <<>> /\ Wraps(Last(g[k - 1]), parts[k])
                          THEN Merged(g[k - 1], parts[k]) ELSE Append(g[k - 1], parts[k])]
           h == CHOOSE g : Loop(g)
<1>1. parts \in Seq(P) /\ n \in Nat /\ \A k \in 1 .. n : parts[k] \in P
  BY DEF FinalParts
<1>2. Mergeable(R, I)
  BY DEF Mergeable, Wraps
<1>3. PICK g \in [0 .. n -> Seq(P)] : MergeRuns(parts, R, I, g)
  BY <1>1, <1>2, MergeExists
<1>4. MergeWrappedHeadings(parts) = h[n]
  BY DEF MergeWrappedHeadings
<1> HIDE DEF P
<1>5. \A v \in Seq(P), k \in 1 .. n : <<v, parts[k]>> \in R <=> v # <<>> /\ Wraps(Last(v), parts[k])
  BY <1>1
<1> HIDE DEF R, n
<1>6. Loop(g)
  <2>1. \A k \in 0 .. n : k = 0 \/ (k \in 1 .. n /\ k - 1 \in 0 .. n /\ k # 0)
    BY <1>1
  <2>2. /\ g[0] = <<>>
        /\ \A k \in 1 .. n : g[k - 1] \in Seq(P) =>
             g[k] = IF <<g[k - 1], parts[k]>> \in R THEN Merged(g[k - 1], parts[k]) ELSE Append(g[k - 1], parts[k])
    BY <1>3 DEF MergeRuns, n, P
  <2>3. \A k \in 0 .. n : g[k] = IF k = 0 THEN <<>>
                        ELSE IF g[k - 1] # <<>> /\ Wraps(Last(g[k - 1]), parts[k])
                          THEN Merged(g[k - 1], parts[k]) ELSE Append(g[k - 1], parts[k])
    BY <1>3, <1>5, <2>1, <2>2
  <2> QED
    BY <1>3, <2>3
<1>7. Loop(h)
  BY <1>6
<1> HIDE DEF h
<1>8. MergeRuns(parts, R, I, h)
  <2>1. 0 \in 0 .. n /\ \A k \in 1 .. n : k \in 0 .. n /\ k # 0
    BY <1>1
  <2>2. h[0] = <<>> /\ \A k \in 1 .. n : h[k] = IF h[k - 1] # <<>> /\ Wraps(Last(h[k - 1]), parts[k])
                          THEN Merged(h[k - 1], parts[k]) ELSE Append(h[k - 1], parts[k])
    BY <1>7, <2>1
  <2> HIDE DEF Loop
  <2>3. \A k \in 1 .. n : h[k - 1] \in Seq(P) =>
          h[k] = IF <<h[k - 1], parts[k]>> \in R THEN Merged(h[k - 1], parts[k]) ELSE Append(h[k - 1], parts[k])
    BY <1>5, <2>2
  <2> QED
    BY <2>2, <2>3 DEF MergeRuns, n, P
<1>9. FinalParts(h[Len(parts)], I) /\ Reads(h[Len(parts)]) = Reads(parts)
  BY <1>2, <1>8, MergeReads
<1> QED
  BY <1>4, <1>9 DEF n

LEMMA ListsMerged ==
  ASSUME NEW I, NEW parts, FinalParts(parts, I)
  PROVE  /\ FinalParts(MergeLists(parts), I)
         /\ Reads(MergeLists(parts)) = Reads(parts)
<1> DEFINE P == PartsOver(I)
           n == Len(parts)
           R == {x \in Seq(P) \X P : x[2].kind = "list" /\ LastIs(x[1], "list")}
           Loop(g) == g = [k \in 0 .. n |->
                        IF k = 0 THEN <<>>
                        ELSE IF parts[k].kind = "list" /\ LastIs(g[k - 1], "list")
                          THEN Merged(g[k - 1], parts[k]) ELSE Append(g[k - 1], parts[k])]
           h == CHOOSE g : Loop(g)
<1>1. parts \in Seq(P) /\ n \in Nat /\ \A k \in 1 .. n : parts[k] \in P
  BY DEF FinalParts
<1>2. Mergeable(R, I)
  BY DEF Mergeable, LastIs
<1>3. PICK g \in [0 .. n -> Seq(P)] : MergeRuns(parts, R, I, g)
  BY <1>1, <1>2, MergeExists
<1>4. MergeLists(parts) = h[n]
  BY DEF MergeLists
<1> HIDE DEF P
<1>5. \A v \in Seq(P), k \in 1 .. n : <<v, parts[k]>> \in R <=> parts[k].kind = "list" /\ LastIs(v, "list")
  BY <1>1
<1> HIDE DEF R, n
<1>6. Loop(g)
  <2>1. \A k \in 0 .. n : k = 0 \/ (k \in 1 .. n /\ k - 1 \in 0 .. n /\ k # 0)
    BY <1>1
  <2>2. /\ g[0] = <<>>
        /\ \A k \in 1 .. n : g[k - 1] \in Seq(P) =>
             g[k] = IF <<g[k - 1], parts[k]>> \in R THEN Merged(g[k - 1], parts[k]) ELSE Append(g[k - 1], parts[k])
    BY <1>3 DEF MergeRuns, n, P
  <2>3. \A k \in 0 .. n : g[k] = IF k = 0 THEN <<>>
                        ELSE IF parts[k].kind = "list" /\ LastIs(g[k - 1], "list")
                          THEN Merged(g[k - 1], parts[k]) ELSE Append(g[k - 1], parts[k])
    BY <1>3, <1>5, <2>1, <2>2
  <2> QED
    BY <1>3, <2>3
<1>7. Loop(h)
  BY <1>6
<1> HIDE DEF h
<1>8. MergeRuns(parts, R, I, h)
  <2>1. 0 \in 0 .. n /\ \A k \in 1 .. n : k \in 0 .. n /\ k # 0
    BY <1>1
  <2>2. h[0] = <<>> /\ \A k \in 1 .. n : h[k] = IF parts[k].kind = "list" /\ LastIs(h[k - 1], "list")
                          THEN Merged(h[k - 1], parts[k]) ELSE Append(h[k - 1], parts[k])
    BY <1>7, <2>1
  <2> HIDE DEF Loop
  <2>3. \A k \in 1 .. n : h[k - 1] \in Seq(P) =>
          h[k] = IF <<h[k - 1], parts[k]>> \in R THEN Merged(h[k - 1], parts[k]) ELSE Append(h[k - 1], parts[k])
    BY <1>5, <2>2
  <2> QED
    BY <2>2, <2>3 DEF MergeRuns, n, P
<1>9. FinalParts(h[Len(parts)], I) /\ Reads(h[Len(parts)]) = Reads(parts)
  BY <1>2, <1>8, MergeReads
<1> QED
  BY <1>4, <1>9 DEF n
(***************************************************************************)
(* Lists one after the other                                               *)
(***************************************************************************)
LEMMA FlattenSpells ==
  ASSUME NEW S, NEW ss \in Seq(Seq(S)), NEW U, NEW R,
         \A i \in 1 .. Len(ss) : Spells(ss[i], U[i]) /\ KeepsOrder(ss[i], R),
         \A i, j \in 1 .. Len(ss) : i # j => U[i] \cap U[j] = {},
         \A i, j \in 1 .. Len(ss) : i < j => \A a \in U[j], b \in U[i] : <<a, b>> \notin R
  PROVE  /\ Spells(FlattenSeq(ss), UNION {U[i] : i \in 1 .. Len(ss)})
         /\ KeepsOrder(FlattenSeq(ss), R)
<1> DEFINE n == Len(ss)
           first(k) == UNION {U[i] : i \in 1 .. k}
<1>1. n \in Nat
  OBVIOUS
<1>2. PICK so \in [0 .. Len(ss) -> Seq(S)] :
        /\ so[0] = <<>> /\ so[Len(ss)] = FlattenSeq(ss)
        /\ \A k \in 1 .. Len(ss) : so[k] = so[k - 1] \o ss[k]
  BY FlatSteps
<1>3. /\ \A i \in 1 .. n : Spells(ss[i], U[i]) /\ KeepsOrder(ss[i], R)
      /\ \A i, j \in 1 .. n : i # j => U[i] \cap U[j] = {}
      /\ \A i, j \in 1 .. n : i < j => \A a \in U[j], b \in U[i] : <<a, b>> \notin R
  OBVIOUS
<1>4. so[n] = FlattenSeq(ss) /\ \A k \in 1 .. n : so[k] = so[k - 1] \o ss[k]
  BY <1>2
<1> HIDE DEF n
<1> DEFINE T == {k \in 0 .. n : Spells(so[k], first(k)) /\ KeepsOrder(so[k], R)}
<1>5. 0 \in T
  <2>1. first(0) = {} /\ 0 \in 0 .. n
    <3>1. \A i : i \notin 1 .. 0
      OBVIOUS
    <3> QED
      BY <1>1, <3>1
  <2> HIDE DEF first
  <2>2. KeepsOrder(<<>>, R)
    BY DEF KeepsOrder
  <2> QED
    BY <1>2, <2>1, <2>2, ListsNothing
<1>6. ASSUME NEW k \in 0 .. n - 1, k \in T
      PROVE  k + 1 \in T
  <2>1. k + 1 \in 1 .. n /\ k + 1 \in 0 .. n /\ (k + 1) - 1 = k /\ k \in Nat
    BY <1>1
  <2>2. first(k + 1) = first(k) \cup U[k + 1]
    <3>1. \A i : i \in 1 .. k + 1 <=> i \in 1 .. k \/ i = k + 1
      BY <2>1
    <3> QED
      BY <3>1
  <2>3. \A i \in 1 .. k : i \in 1 .. n /\ i # k + 1 /\ i < k + 1
    BY <1>1, <2>1
  <2> DEFINE X == first(k)
             Y == U[k + 1]
             s == so[k]
             t == ss[k + 1]
  <2>4. X \cap Y = {}
    <3>1. \A x \in X : \E i \in 1 .. k : x \in U[i]
      OBVIOUS
    <3> QED
      BY <1>3, <2>1, <2>3, <3>1
  <2>5. \A a \in Y, b \in X : <<a, b>> \notin R
    <3>1. TAKE a \in Y, b \in X
    <3>2. PICK i \in 1 .. k : b \in U[i]
      OBVIOUS
    <3> QED
      BY <1>3, <2>1, <2>3, <3>2
  <2>6. Spells(s, X) /\ KeepsOrder(s, R) /\ Lists(s, X)
    BY <1>6 DEF Spells
  <2>7. Spells(t, Y) /\ KeepsOrder(t, R) /\ Lists(t, Y)
    BY <1>3, <2>1 DEF Spells
  <2>8. so[k + 1] = s \o t
    BY <1>4, <2>1
  <2> HIDE DEF X, Y, s, t
  <2>9. Lists(s \o t, X \cup Y) /\ (Spells(s, X) /\ Spells(t, Y) => Spells(s \o t, X \cup Y))
    BY <2>4, <2>6, <2>7, ListsJoin
  <2>10. KeepsOrder(s \o t, R)
    BY <2>5, <2>6, <2>7, OrderJoins
  <2>11. Spells(so[k + 1], first(k + 1))
    BY <2>2, <2>6, <2>7, <2>8, <2>9 DEF X, Y
  <2> QED
    BY <2>1, <2>8, <2>10, <2>11
<1> HIDE DEF T
<1>7. n \in T
  <2>1. \A k \in 0 .. n : k \in T
    BY <1>1, <1>5, <1>6, UpTo
  <2> QED
    BY <1>1, <2>1
<1> QED
  BY <1>4, <1>7 DEF T, n

(***************************************************************************)
(* Order of blocks                                                         *)
(***************************************************************************)
Overs(B) == {x \in B \X B : Over(x[1], x[2])}

LEMMA GroupOrderIs ==
  ASSUME NEW B, AreBlocks(B), NEW group \in SUBSET B
  PROVE  Spells(GroupOrder(group), group) /\ KeepsOrder(GroupOrder(group), Overs(B))
<1> DEFINE key == [b \in group |-> <<b.y0, b.x0>>]
           s   == Sorted(group, key)
<1>1. IsFiniteSet(group) /\ \A b \in group : b.x0 \in Int /\ b.y0 \in Int /\ b.y1 \in Int /\ b.y0 < b.y1
  BY FS_Subset DEF AreBlocks
<1>2. \A b \in group : key[b][1] = b.y0 /\ key[b][2] = b.x0
  OBVIOUS
<1>3. IsKey(group, key)
  BY <1>1, <1>2 DEF IsKey
<1>4. GroupOrder(group) = s
  BY DEF GroupOrder
<1> HIDE DEF key, s
<1>5. Spells(s, group)
  BY <1>1, <1>3, SortedSpells DEF s
<1>6. /\ s \in Seq(group)
      /\ \A j, k \in 1 .. Len(s) : j < k => ComesFirst(key, s[j], s[k])
  BY <1>1, <1>3, SortedIs DEF s
<1>7. ASSUME NEW m \in 1 .. Len(s), NEW n \in 1 .. Len(s), <<s[m], s[n]>> \in Overs(B)
      PROVE  m < n
  <2> DEFINE a == s[m]
             b == s[n]
  <2>1. a \in group /\ b \in group
    BY <1>6
  <2>2. a.y0 < b.y0
    BY <1>7 DEF Overs, Over
  <2>3. m # n
    BY <1>1, <2>1, <2>2
  <2>4. ~(n < m)
    <3>1. ASSUME n < m
          PROVE  FALSE
      <4>1. ComesFirst(key, b, a)
        BY <1>6, <3>1
      <4>2. b.y0 <= a.y0
        BY <1>1, <1>2, <2>1, <4>1 DEF ComesFirst
      <4> QED
        BY <1>1, <2>1, <2>2, <4>2
    <3> QED
      BY <3>1
  <2> QED
    BY <2>3, <2>4, <1>6
<1> QED
  BY <1>4, <1>5, <1>7 DEF KeepsOrder

\* "XY-cut gives the reading order": whatever blocks a page has, with their
\* gaps, columns and tables, each one is read, none twice, and of two blocks
\* that share a column the one that starts higher first (_order_blocks,
\* xy_cut and the sort within its groups).
THEOREM UpperBlocksFirst ==
  ASSUME NEW blocks, AreBlocks(blocks)
  PROVE  Spells(Ordered(blocks), blocks) /\ KeepsOrder(Ordered(blocks), Overs(blocks))
<1> DEFINE u  == XYCut(blocks)
           n  == Len(u)
           ss == [g \in DOMAIN u |-> GroupOrder(u[g])]
           R  == Overs(blocks)
<1>1. GroupsOf(u, blocks)
  BY PageLayoutAssumption, XYCutIs
<1> HIDE DEF u
<1>2. /\ u \in Seq(SUBSET blocks) /\ n \in Nat /\ DOMAIN u = 1 .. n
      /\ \A i \in 1 .. n : u[i] \in SUBSET blocks
      /\ \A b \in blocks : \E i \in 1 .. n : b \in u[i]
      /\ \A i, j \in 1 .. n : i # j => u[i] \cap u[j] = {}
      /\ \A i, j \in 1 .. n : \A a \in u[i], b \in u[j] : Over(a, b) => i <= j
  BY <1>1 DEF GroupsOf
<1>3. \A i \in 1 .. n : Spells(GroupOrder(u[i]), u[i]) /\ KeepsOrder(GroupOrder(u[i]), R)
  BY <1>2, GroupOrderIs
<1>4. \A i \in 1 .. n : GroupOrder(u[i]) \in Seq(blocks)
  <2>1. TAKE i \in 1 .. n
  <2>2. GroupOrder(u[i]) \in Seq(u[i])
    BY <1>3 DEF Spells, Lists
  <2> QED
    BY <1>2, <2>2
<1>5. \A i \in 1 .. n : ss[i] = GroupOrder(u[i])
  BY <1>2
<1>6. ss \in [1 .. n -> Seq(blocks)]
  BY <1>2, <1>4
<1>7. Ordered(blocks) = FlattenSeq(ss)
  BY DEF Ordered, Concatenated, u
<1> HIDE DEF ss, n
<1>8. ss \in Seq(Seq(blocks)) /\ Len(ss) = n
  BY <1>2, <1>6
<1>9. \A i, j \in 1 .. n : i < j => \A a \in u[j], b \in u[i] : <<a, b>> \notin R
  <2>1. TAKE i \in 1 .. n, j \in 1 .. n
  <2>2. HAVE i < j
  <2>3. TAKE a \in u[j], b \in u[i]
  <2>4. ~Over(a, b)
    BY <1>2, <2>2
  <2> QED
    BY <2>4 DEF Overs
<1> HIDE DEF R
<1>10. /\ Spells(FlattenSeq(ss), UNION {u[i] : i \in 1 .. Len(ss)})
       /\ KeepsOrder(FlattenSeq(ss), R)
  <2>1. /\ \A i \in 1 .. Len(ss) : Spells(ss[i], u[i]) /\ KeepsOrder(ss[i], R)
        /\ \A i, j \in 1 .. Len(ss) : i # j => u[i] \cap u[j] = {}
        /\ \A i, j \in 1 .. Len(ss) : i < j => \A a \in u[j], b \in u[i] : <<a, b>> \notin R
    BY <1>2, <1>3, <1>5, <1>8, <1>9
  <2> QED
    BY ONLY <1>8, <2>1, FlattenSpells
<1>11. UNION {u[i] : i \in 1 .. Len(ss)} = blocks
  BY <1>2, <1>8
<1> QED
  BY <1>7, <1>10, <1>11 DEF R

(***************************************************************************)
(* Blocks of a page with a text layer                                      *)
(***************************************************************************)
LEMMA LinesAre ==
  ASSUME NEW boxes, AreBoxes(boxes)
  PROVE  /\ IsFiniteSet(LinesOf(boxes)) /\ AreLines(LinesOf(boxes))
         /\ \A id \in LinesOf(boxes) :
              /\ Centre(id) \in Int /\ id[1].x0 \in Int
              /\ id[1] \in boxes /\ id[2] \in DOMAIN id[1].lines /\ id = <<id[1], id[2]>>
         /\ \A b \in boxes : \A k \in DOMAIN b.lines : <<b, k>> \in LinesOf(boxes)
<1> DEFINE of == [b \in boxes |-> {<<b, k>> : k \in DOMAIN b.lines}]
<1>1. \A b \in boxes : Len(b.lines) \in Nat /\ DOMAIN b.lines = 1 .. Len(b.lines)
  BY SeqShape DEF AreBoxes
<1>2. LinesOf(boxes) = UNION {of[b] : b \in boxes}
  BY DEF LinesOf
<1>3. \A b \in boxes : IsFiniteSet(of[b])
  <2>1. TAKE b \in boxes
  <2> DEFINE D == 1 .. Len(b.lines)
             f == [k \in D |-> <<b, k>>]
  <2>2. IsFiniteSet(D)
    BY <1>1, FS_Interval
  <2>3. of[b] = {f[k] : k \in D}
    BY <1>1
  <2>4. DOMAIN f = D
    OBVIOUS
  <2> HIDE DEF f, D, of
  <2>5. IsFiniteSet({f[k] : k \in D})
    BY <2>2, <2>4, FiniteImage
  <2> QED
    BY <2>3, <2>5
<1>4. IsFiniteSet(LinesOf(boxes))
  <2> DEFINE S == {of[b] : b \in boxes}
  <2>1. IsFiniteSet(boxes) /\ DOMAIN of = boxes
    BY DEF AreBoxes
  <2>2. \A T \in S : IsFiniteSet(T)
    BY <1>3
  <2> HIDE DEF of
  <2>3. IsFiniteSet(S)
    BY <2>1, FiniteImage
  <2> HIDE DEF S
  <2>4. IsFiniteSet(UNION S)
    BY <2>2, <2>3, FS_UNION
  <2> QED
    BY <1>2, <2>4 DEF S
<1>5. \A id \in LinesOf(boxes) : \E b \in boxes : \E k \in DOMAIN b.lines : id = <<b, k>>
  BY DEF LinesOf
<1>6. ASSUME NEW b \in boxes, NEW k \in DOMAIN b.lines, NEW id, id = <<b, k>>
      PROVE  Centre(id) \in Int /\ id[1].x0 \in Int /\ IsLine(Line(id)) /\ id[1] = b /\ id[2] = k
  <2>1. k \in Int /\ b.y0 \in Int /\ b.x0 \in Int /\ IsLine(b.lines[k]) /\ LineHeight \in Int
    BY <1>1, PageLayoutAssumption DEF AreBoxes
  <2>2. id[1] = b /\ id[2] = k
    BY <1>6
  <2>3. Centre(id) = 2 * b.y0 + (2 * k - 1) * LineHeight
    BY <2>2 DEF Centre
  <2>4. (2 * k - 1) * LineHeight \in Int /\ 2 * b.y0 \in Int
    BY <2>1
  <2> QED
    BY <2>1, <2>2, <2>3, <2>4 DEF Line
<1>7. AreLines(LinesOf(boxes))
  BY <1>5, <1>6 DEF AreLines
<1>8. \A b \in boxes : \A k \in DOMAIN b.lines : <<b, k>> \in LinesOf(boxes)
  BY DEF LinesOf
<1> HIDE DEF of
<1>9. \A id \in LinesOf(boxes) :
         /\ Centre(id) \in Int /\ id[1].x0 \in Int
         /\ id[1] \in boxes /\ id[2] \in DOMAIN id[1].lines /\ id = <<id[1], id[2]>>
  <2>1. TAKE id \in LinesOf(boxes)
  <2>2. PICK b \in boxes : \E k \in DOMAIN b.lines : id = <<b, k>>
    BY <1>5
  <2>3. PICK k \in DOMAIN b.lines : id = <<b, k>>
    BY <2>2
  <2>4. Centre(id) \in Int /\ id[1].x0 \in Int /\ id[1] = b /\ id[2] = k
    BY <1>6, <2>3
  <2> QED
    BY <2>3, <2>4
<1> QED
  BY <1>4, <1>7, <1>8, <1>9

LEMMA ByCentreIs ==
  ASSUME NEW boxes, AreBoxes(boxes), NEW ids \in SUBSET LinesOf(boxes)
  PROVE  Spells(ByCentre(ids), ids)
<1> DEFINE key == [id \in ids |-> <<Centre(id), id[1].x0>>]
<1>1. IsFiniteSet(ids)
  BY LinesAre, FS_Subset
<1>2. \A id \in ids : key[id][1] = Centre(id) /\ key[id][2] = id[1].x0
  OBVIOUS
<1>3. IsKey(ids, key)
  BY <1>2, LinesAre DEF IsKey
<1>4. ByCentre(ids) = Sorted(ids, key)
  BY DEF ByCentre
<1> HIDE DEF key
<1> QED
  BY <1>1, <1>3, <1>4, SortedSpells

\* Lines from top to bottom.
LEMMA ByCentreKeeps ==
  ASSUME NEW boxes, AreBoxes(boxes), NEW ids \in SUBSET LinesOf(boxes),
         NEW R, \A p, q \in ids : <<p, q>> \in R => Centre(p) < Centre(q)
  PROVE  KeepsOrder(ByCentre(ids), R)
<1> DEFINE key == [id \in ids |-> <<Centre(id), id[1].x0>>]
           s   == Sorted(ids, key)
<1>1. IsFiniteSet(ids) /\ \A id \in ids : Centre(id) \in Int
  BY LinesAre, FS_Subset
<1>2. \A id \in ids : key[id][1] = Centre(id) /\ key[id][2] = id[1].x0
  OBVIOUS
<1>3. IsKey(ids, key)
  BY <1>2, LinesAre DEF IsKey
<1>4. ByCentre(ids) = s
  BY DEF ByCentre
<1> HIDE DEF key, s
<1>5. s \in Seq(ids) /\ \A j, k \in 1 .. Len(s) : j < k => ComesFirst(key, s[j], s[k])
  BY <1>1, <1>3, SortedIs DEF s
<1>6. ASSUME NEW m \in 1 .. Len(s), NEW n \in 1 .. Len(s), <<s[m], s[n]>> \in R
      PROVE  m < n
  <2>1. s[m] \in ids /\ s[n] \in ids /\ m \in Int /\ n \in Int
    BY <1>5
  <2>2. Centre(s[m]) < Centre(s[n]) /\ Centre(s[m]) \in Int /\ Centre(s[n]) \in Int
    BY <1>1, <1>6, <2>1
  <2>3. m # n
    BY <2>2
  <2>4. ASSUME n < m
        PROVE  FALSE
    <3>1. ComesFirst(key, s[n], s[m])
      BY <1>5, <2>4
    <3>2. Centre(s[n]) <= Centre(s[m])
      BY <1>2, <2>1, <2>2, <3>1 DEF ComesFirst
    <3> QED
      BY <2>2, <3>2
  <2> QED
    BY <2>1, <2>3, <2>4
<1> QED
  BY <1>4, <1>6 DEF KeepsOrder

LinesIn(grid, boxes) == {id \in LinesOf(boxes) : Inside(id, grid)}

LEMMA RowsAre ==
  ASSUME NEW boxes, AreBoxes(boxes), NEW grid
  PROVE  Lists(Rows(grid, boxes), LinesIn(grid, boxes))
<1> DEFINE X    == LinesIn(grid, boxes)
           rows == ByCentre(X)
<1>1. X \in SUBSET LinesOf(boxes)
  BY DEF LinesIn
<1>2. Rows(grid, boxes) = IF grid.whole \/ rows = <<>> THEN rows ELSE Front(rows)
  BY DEF Rows, LinesIn
<1> HIDE DEF X
<1>3. Lists(rows, X)
  BY <1>1, ByCentreIs DEF Spells
<1> HIDE DEF rows
<1>4. rows # <<>> => Lists(Front(rows), X)
  <2>1. ASSUME rows # <<>>
        PROVE  Lists(Front(rows), X)
    <3>1. rows \in Seq(X) /\ \A j, k \in 1 .. Len(rows) : j # k => rows[j] # rows[k]
      BY <1>3 DEF Lists, OneByOne
    <3> DEFINE n == Len(rows)
               f == Front(rows)
    <3>2. n \in Nat /\ n > 0 /\ 1 \in 1 .. n + 1 /\ n - 1 \in 0 .. n /\ 1 <= (n - 1) + 1
      BY <2>1, <3>1
    <3>3. f = SubSeq(rows, 1, n - 1)
      BY DEF Front
    <3>4. f \in Seq(X) /\ Len(f) = n - 1 /\ \A i \in 1 .. n - 1 : f[i] = rows[i]
      <4> HIDE DEF f
      <4>1. /\ SubSeq(rows, 1, n - 1) \in Seq(X) /\ Len(SubSeq(rows, 1, n - 1)) = (n - 1) - 1 + 1
            /\ \A i \in 1 .. (n - 1) - 1 + 1 : SubSeq(rows, 1, n - 1)[i] = rows[1 + i - 1]
        BY <3>1, <3>2, SubSeqIs
      <4>2. (n - 1) - 1 + 1 = n - 1 /\ \A i \in 1 .. n - 1 : 1 + i - 1 = i
        BY <3>2
      <4> QED
        BY <3>3, <4>1, <4>2
    <3>5. \A i \in 1 .. n - 1 : i \in 1 .. n
      BY <3>2
    <3>6. \A j, k \in 1 .. n - 1 : j # k => f[j] # f[k]
      BY <3>1, <3>4, <3>5
    <3>7. Lists(f, X)
      <4> HIDE DEF f
      <4> QED
        BY <3>4, <3>6 DEF Lists, OneByOne
    <3> QED
      BY <3>7
  <2> QED
    BY <2>1
<1> QED
  BY <1>2, <1>3, <1>4 DEF X

LEMMA RowsKeep ==
  ASSUME NEW boxes, AreBoxes(boxes), NEW grid,
         NEW R, \A p, q \in LinesIn(grid, boxes) : <<p, q>> \in R => Centre(p) < Centre(q)
  PROVE  KeepsOrder(Rows(grid, boxes), R)
<1> DEFINE X    == LinesIn(grid, boxes)
           rows == ByCentre(X)
<1>1. X \in SUBSET LinesOf(boxes)
  BY DEF LinesIn
<1>2. Rows(grid, boxes) = IF grid.whole \/ rows = <<>> THEN rows ELSE Front(rows)
  BY DEF Rows, LinesIn
<1>3. KeepsOrder(rows, R)
  <2> HIDE DEF X
  <2>1. \A p, q \in X : <<p, q>> \in R => Centre(p) < Centre(q)
    BY DEF X
  <2> QED
    BY <1>1, <2>1, ByCentreKeeps
<1> HIDE DEF X
<1>4. rows \in Seq(X)
  BY <1>1, ByCentreIs DEF Spells, Lists
<1> HIDE DEF rows
<1>5. ASSUME rows # <<>>
      PROVE  KeepsOrder(Front(rows), R)
  <2> DEFINE n == Len(rows)
             f == Front(rows)
  <2>1. n \in Nat /\ n > 0 /\ 1 \in 1 .. n + 1 /\ n - 1 \in 0 .. n /\ 1 <= (n - 1) + 1
    BY <1>4, <1>5
  <2>2. f = SubSeq(rows, 1, n - 1)
    BY DEF Front
  <2>3. /\ SubSeq(rows, 1, n - 1) \in Seq(X) /\ Len(SubSeq(rows, 1, n - 1)) = (n - 1) - 1 + 1
        /\ \A i \in 1 .. (n - 1) - 1 + 1 : SubSeq(rows, 1, n - 1)[i] = rows[1 + i - 1]
    BY <1>4, <2>1, SubSeqIs
  <2>4. (n - 1) - 1 + 1 = n - 1 /\ \A i \in 1 .. n - 1 : 1 + i - 1 = i /\ i \in 1 .. n
    BY <2>1
  <2>5. Len(f) = n - 1 /\ \A i \in 1 .. n - 1 : f[i] = rows[i] /\ i \in 1 .. n
    BY <2>2, <2>3, <2>4
  <2>6. \A j, k \in 1 .. n : <<rows[j], rows[k]>> \in R => j < k
    BY <1>3 DEF KeepsOrder
  <2> HIDE DEF n, f
  <2>7. \A j, k \in 1 .. n - 1 : <<f[j], f[k]>> \in R => j < k
    BY <2>5, <2>6
  <2> QED
    BY <2>5, <2>7 DEF KeepsOrder, f
<1> QED
  BY <1>2, <1>3, <1>5

LinesKept(box, tables) == {<<box, k>> : k \in Kept(box, tables)}

LEMMA TextBlockIs ==
  ASSUME NEW boxes, AreBoxes(boxes), NEW tables, NEW box \in boxes, Kept(box, tables) # {}
  PROVE  LET b == TextBlock(box, Kept(box, tables)) IN
         /\ Spells(b.ids, LinesKept(box, tables)) /\ LinesKept(box, tables) # {}
         /\ LinesKept(box, tables) \subseteq LinesOf(boxes)
         /\ b.x0 \in Int /\ b.x1 \in Int /\ b.x0 < b.x1 /\ b.y0 \in Int /\ b.y1 \in Int /\ b.y0 < b.y1
<1> DEFINE K == Kept(box, tables)
           X == LinesKept(box, tables)
           b == TextBlock(box, K)
<1>1. /\ box.x0 \in Int /\ box.x1 \in Int /\ box.x0 < box.x1 /\ box.y0 \in Int /\ IsSeq(box.lines)
      /\ LineHeight \in Nat /\ LineHeight > 0
  BY PageLayoutAssumption DEF AreBoxes
<1>2. DOMAIN box.lines = 1 .. Len(box.lines) /\ Len(box.lines) \in Nat
  BY <1>1, SeqShape
<1>3. K \subseteq 1 .. Len(box.lines) /\ K # {}
  BY <1>2 DEF Kept
<1>4. X \in SUBSET LinesOf(boxes) /\ X # {}
  <2>1. \A k \in DOMAIN box.lines : <<box, k>> \in LinesOf(boxes)
    BY LinesAre
  <2>2. X = {<<box, k>> : k \in K}
    BY DEF LinesKept
  <2> HIDE DEF K, X
  <2> QED
    BY <1>2, <1>3, <2>1, <2>2
<1>5. /\ b.x0 = box.x0 /\ b.x1 = box.x1 /\ b.ids = ByCentre(X)
      /\ b.y0 = box.y0 + LineHeight * (Min(K) - 1) /\ b.y1 = box.y0 + LineHeight * Max(K)
  BY DEF TextBlock, LinesKept
<1> HIDE DEF K, X, b
<1>6. IsFiniteSet(K) /\ K \subseteq Int
  <2> DEFINE D == 1 .. Len(box.lines)
  <2>1. IsFiniteSet(D) /\ D \subseteq Int
    BY <1>2, FS_Interval
  <2>2. K \in SUBSET D
    BY <1>3
  <2> HIDE DEF D
  <2> QED
    BY <2>1, <2>2, FS_Subset
<1>7. Min(K) \in Int /\ Max(K) \in Int /\ Min(K) <= Max(K)
  BY <1>3, <1>6, MinOf, MaxOf
<1> DEFINE lo == Min(K)
           hi == Max(K)
           h  == LineHeight
<1>8. lo \in Int /\ hi \in Int /\ lo <= hi /\ h \in Nat /\ h > 0
  BY <1>1, <1>7
<1> HIDE DEF lo, hi, h
<1>9. h * (lo - 1) \in Int /\ h * hi \in Int /\ h * (lo - 1) < h * hi
  <2>1. hi - (lo - 1) \in Nat /\ hi - (lo - 1) >= 1
    BY <1>8
  <2> DEFINE d == hi - (lo - 1)
  <2>2. d \in Nat /\ d >= 1 /\ hi = (lo - 1) + d
    BY <1>8, <2>1
  <2> HIDE DEF d
  <2>3. h * d > 0
    BY <1>8, <2>2
  <2>4. h * hi = h * (lo - 1) + h * d
    BY <1>8, <2>2
  <2>5. h * (lo - 1) \in Int /\ h * hi \in Int /\ h * d \in Int
    BY <1>8, <2>2
  <2> QED
    BY <2>3, <2>4, <2>5
<1>10. b.y0 \in Int /\ b.y1 \in Int /\ b.y0 < b.y1
  <2>1. b.y0 = box.y0 + h * (lo - 1) /\ b.y1 = box.y0 + h * hi
    BY <1>5 DEF lo, hi, h
  <2> QED
    BY <1>1, <1>9, <2>1
<1>11. Spells(b.ids, X)
  BY <1>4, <1>5, ByCentreIs
<1> QED
  BY <1>1, <1>4, <1>5, <1>10, <1>11 DEF K, X, b

\* A block of text starts at a line that was kept.
LEMMA TextBlockTop ==
  ASSUME NEW boxes, AreBoxes(boxes), NEW tables, NEW box \in boxes, Kept(box, tables) # {}
  PROVE  LET b == TextBlock(box, Kept(box, tables)) IN
         /\ b.x0 = box.x0 /\ b.x1 = box.x1 /\ box.y0 <= b.y0
         /\ \E k \in Kept(box, tables) : Centre(<<box, k>>) = 2 * b.y0 + LineHeight
<1> DEFINE K == Kept(box, tables)
           b == TextBlock(box, K)
           k == Min(K)
<1>1. box.y0 \in Int /\ IsSeq(box.lines) /\ LineHeight \in Nat
  BY PageLayoutAssumption DEF AreBoxes
<1>2. DOMAIN box.lines = 1 .. Len(box.lines) /\ Len(box.lines) \in Nat
  BY <1>1, SeqShape
<1>3. K \subseteq 1 .. Len(box.lines) /\ K # {}
  BY <1>2 DEF Kept
<1>4. b.x0 = box.x0 /\ b.x1 = box.x1 /\ b.y0 = box.y0 + LineHeight * (k - 1)
  BY DEF TextBlock
<1> HIDE DEF K, b
<1>5. k \in K /\ k \in Nat /\ k >= 1
  <2> DEFINE D == 1 .. Len(box.lines)
  <2>1. IsFiniteSet(D) /\ D \subseteq Int
    BY <1>2, FS_Interval
  <2>2. K \in SUBSET D
    BY <1>3
  <2>3. \A d \in D : d \in Nat /\ d >= 1
    BY <1>2
  <2> HIDE DEF D
  <2>4. IsFiniteSet(K) /\ K \subseteq Int
    BY <2>1, <2>2, FS_Subset
  <2>5. k \in K
    BY <1>3, <2>4, MinOf
  <2> QED
    BY <2>2, <2>3, <2>5
<1>6. Centre(<<box, k>>) = 2 * box.y0 + (2 * k - 1) * LineHeight
  BY DEF Centre
<1> HIDE DEF k
<1> DEFINE h == LineHeight
           y == box.y0
           c == Centre(<<box, k>>)
<1>7. h \in Nat /\ y \in Int /\ k \in Nat /\ k >= 1 /\ b.y0 = y + h * (k - 1) /\ c = 2 * y + (2 * k - 1) * h
  BY <1>1, <1>4, <1>5, <1>6
<1> HIDE DEF h, y, c
<1>8. y <= b.y0 /\ c = 2 * b.y0 + h
  <2>1. k - 1 \in Nat /\ h * (k - 1) \in Nat /\ (2 * k - 1) * h = 2 * (h * (k - 1)) + h
    BY <1>7
  <2> QED
    BY <1>7, <2>1
<1> QED
  BY <1>4, <1>5, <1>8 DEF K, b, h, y, c

\* Blocks that hold lines of I, each in one of them and once.
HoldLines(B, I) ==
  /\ \A b \in B : b.ids \in Seq(I) /\ b.ids # <<>> /\ OneByOne(b.ids)
  /\ \A b, c \in B : b # c => IdSet(b) \cap IdSet(c) = {}

LEMMA IdSetIs ==
  ASSUME NEW b, NEW X, Lists(b.ids, X)
  PROVE  IdSet(b) \subseteq X
BY DEF Lists, IdSet

LEMMA PageBlocksAre ==
  ASSUME NEW boxes, AreBoxes(boxes), NEW tables, AreGrids(tables, boxes),
         \A g \in tables : Rows(g, boxes) # <<>>
  PROVE  AreBlocks(BlocksWith(boxes, tables)) /\ HoldLines(BlocksWith(boxes, tables), LinesOf(boxes))
<1> DEFINE I     == LinesOf(boxes)
           with  == {c \in boxes : Kept(c, tables) # {}}
           text  == [c \in with |-> TextBlock(c, Kept(c, tables))]
           table == [g \in tables |-> TableBlock(g, boxes)]
           Texts  == {text[c] : c \in with}
           Grids  == {table[g] : g \in tables}
           B      == BlocksWith(boxes, tables)
<1>1. B = Texts \cup Grids
  BY DEF BlocksWith
<1>2. IsFiniteSet(B)
  <2>1. IsFiniteSet(with) /\ IsFiniteSet(tables) /\ DOMAIN text = with /\ DOMAIN table = tables
    BY FS_Subset DEF AreBoxes, AreGrids
  <2> HIDE DEF with, text, table, B
  <2>2. IsFiniteSet(Texts) /\ IsFiniteSet(Grids)
    BY <2>1, FiniteImage
  <2> HIDE DEF Texts, Grids
  <2> QED
    BY <1>1, <2>2, FS_Union
<1>3. ASSUME NEW c \in with
      PROVE  /\ Spells(text[c].ids, LinesKept(c, tables)) /\ LinesKept(c, tables) # {}
             /\ LinesKept(c, tables) \subseteq I
             /\ text[c].x0 \in Int /\ text[c].x1 \in Int /\ text[c].x0 < text[c].x1
             /\ text[c].y0 \in Int /\ text[c].y1 \in Int /\ text[c].y0 < text[c].y1
  <2>1. c \in boxes /\ Kept(c, tables) # {} /\ text[c] = TextBlock(c, Kept(c, tables))
    OBVIOUS
  <2> HIDE DEF with, text, I
  <2> QED
    BY <2>1, TextBlockIs DEF I
<1>4. ASSUME NEW g \in tables
      PROVE  /\ Lists(table[g].ids, LinesIn(g, boxes)) /\ table[g].ids # <<>> /\ LinesIn(g, boxes) \subseteq I
             /\ table[g].x0 \in Int /\ table[g].x1 \in Int /\ table[g].x0 < table[g].x1
             /\ table[g].y0 \in Int /\ table[g].y1 \in Int /\ table[g].y0 < table[g].y1
  <2>1. /\ table[g].ids = Rows(g, boxes) /\ table[g].x0 = g.x0 /\ table[g].x1 = g.x1
        /\ table[g].y0 = g.y0 /\ table[g].y1 = g.y1
    BY DEF TableBlock
  <2> HIDE DEF table
  <2>2. Lists(Rows(g, boxes), LinesIn(g, boxes)) /\ Rows(g, boxes) # <<>>
    BY RowsAre
  <2>3. g.x0 \in Int /\ g.x1 \in Int /\ g.x0 < g.x1 /\ g.y0 \in Int /\ g.y1 \in Int /\ g.y0 < g.y1
    BY DEF AreGrids
  <2>4. LinesIn(g, boxes) \subseteq I
    BY DEF LinesIn
  <2> QED
    BY <2>1, <2>2, <2>3, <2>4
<1>5. \A b \in B : (\E c \in with : b = text[c]) \/ (\E g \in tables : b = table[g])
  BY <1>1
<1> HIDE DEF B, Texts, Grids, text, table
<1>6. AreBlocks(B)
  <2>1. ASSUME NEW b \in B
        PROVE  b.x0 \in Int /\ b.x1 \in Int /\ b.x0 < b.x1 /\ b.y0 \in Int /\ b.y1 \in Int /\ b.y0 < b.y1
    <3>1. CASE \E c \in with : b = text[c]
      BY <1>3, <3>1
    <3>2. CASE \E g \in tables : b = table[g]
      BY <1>4, <3>2
    <3> QED
      BY <1>5, <3>1, <3>2
  <2> QED
    BY <1>2, <2>1 DEF AreBlocks
<1>7. ASSUME NEW b \in B
      PROVE  b.ids \in Seq(I) /\ b.ids # <<>> /\ OneByOne(b.ids)
  <2>1. CASE \E c \in with : b = text[c]
    <3>1. PICK c \in with : b = text[c]
      BY <2>1
    <3> DEFINE X == LinesKept(c, tables)
    <3>2. Spells(b.ids, X) /\ X # {} /\ X \subseteq I
      BY <1>3, <3>1
    <3> HIDE DEF X
    <3>3. Lists(b.ids, I)
      BY <3>2, ListsMore DEF Spells
    <3>4. b.ids # <<>>
      <4>1. PICK i \in 1 .. Len(b.ids) : TRUE
        BY <3>2 DEF Spells
      <4>2. Len(b.ids) # 0
        BY <4>1
      <4> QED
        BY <4>2
    <3> QED
      BY <3>3, <3>4 DEF Lists
  <2>2. CASE \E g \in tables : b = table[g]
    <3>1. PICK g \in tables : b = table[g]
      BY <2>2
    <3> DEFINE X == LinesIn(g, boxes)
    <3>2. Lists(b.ids, X) /\ b.ids # <<>> /\ X \subseteq I
      BY <1>4, <3>1
    <3> HIDE DEF X
    <3>3. Lists(b.ids, I)
      BY <3>2, ListsMore
    <3> QED
      BY <3>2, <3>3 DEF Lists
  <2> QED
    BY <1>5, <2>1, <2>2
<1>8. \A c \in with : IdSet(text[c]) \subseteq LinesKept(c, tables)
  BY <1>3, IdSetIs DEF Spells
<1>9. \A g \in tables : IdSet(table[g]) \subseteq LinesIn(g, boxes)
  BY <1>4, IdSetIs
<1>10. \A c, d \in with : c # d => LinesKept(c, tables) \cap LinesKept(d, tables) = {}
  BY DEF LinesKept
<1>11. \A g, h \in tables : g # h => LinesIn(g, boxes) \cap LinesIn(h, boxes) = {}
  BY DEF AreGrids, LinesIn
<1>12. \A c \in with : \A g \in tables : LinesKept(c, tables) \cap LinesIn(g, boxes) = {}
  BY DEF LinesKept, LinesIn, Kept
<1>13. ASSUME NEW b \in B, NEW c \in B, b # c
       PROVE  IdSet(b) \cap IdSet(c) = {}
  <2>1. CASE (\E d \in with : b = text[d]) /\ (\E d \in with : c = text[d])
    <3>1. PICK d \in with : b = text[d]
      BY <2>1
    <3>2. PICK e \in with : c = text[e]
      BY <2>1
    <3>3. d # e
      BY <1>13, <3>1, <3>2
    <3>4. LinesKept(d, tables) \cap LinesKept(e, tables) = {}
      BY <1>10, <3>3
    <3>5. IdSet(b) \subseteq LinesKept(d, tables) /\ IdSet(c) \subseteq LinesKept(e, tables)
      BY <1>8, <3>1, <3>2
    <3> QED
      BY <3>4, <3>5
  <2>2. CASE (\E d \in with : b = text[d]) /\ (\E g \in tables : c = table[g])
    <3>1. PICK d \in with : b = text[d]
      BY <2>2
    <3>2. PICK g \in tables : c = table[g]
      BY <2>2
    <3>3. LinesKept(d, tables) \cap LinesIn(g, boxes) = {}
      BY <1>12
    <3>4. IdSet(b) \subseteq LinesKept(d, tables) /\ IdSet(c) \subseteq LinesIn(g, boxes)
      BY <1>8, <1>9, <3>1, <3>2
    <3> QED
      BY <3>3, <3>4
  <2>3. CASE (\E g \in tables : b = table[g]) /\ (\E d \in with : c = text[d])
    <3>1. PICK d \in with : c = text[d]
      BY <2>3
    <3>2. PICK g \in tables : b = table[g]
      BY <2>3
    <3>3. LinesKept(d, tables) \cap LinesIn(g, boxes) = {}
      BY <1>12
    <3>4. IdSet(c) \subseteq LinesKept(d, tables) /\ IdSet(b) \subseteq LinesIn(g, boxes)
      BY <1>8, <1>9, <3>1, <3>2
    <3> QED
      BY <3>3, <3>4
  <2>4. CASE (\E g \in tables : b = table[g]) /\ (\E g \in tables : c = table[g])
    <3>1. PICK g \in tables : b = table[g]
      BY <2>4
    <3>2. PICK h \in tables : c = table[h]
      BY <2>4
    <3>3. g # h
      BY <1>13, <3>1, <3>2
    <3>4. LinesIn(g, boxes) \cap LinesIn(h, boxes) = {}
      BY <1>11, <3>3
    <3>5. IdSet(b) \subseteq LinesIn(g, boxes) /\ IdSet(c) \subseteq LinesIn(h, boxes)
      BY <1>9, <3>1, <3>2
    <3> QED
      BY <3>4, <3>5
  <2> QED
    BY <1>5, <2>1, <2>2, <2>3, <2>4
<1> QED
  BY <1>6, <1>7, <1>13 DEF HoldLines, B, I

\* The lines of two boxes one of which is above the other.
Aboves(I) == {x \in I \X I : Above(x[1][1], x[2][1])}

\* R relates lines of a block in their order, and lines of two blocks only if
\* one starts above the other in the same column.
FollowBlocks(R, B) ==
  /\ \A b \in B : KeepsOrder(b.ids, R)
  /\ \A b, c \in B : \A p \in IdSet(b), q \in IdSet(c) : <<p, q>> \in R /\ b # c => Over(b, c)

\* Where the lines of boxes are.
LEMMA CentreIs ==
  ASSUME NEW boxes, AreBoxes(boxes), NEW id \in LinesOf(boxes)
  PROVE  LET b == id[1]  bottom == b.y0 + LineHeight * Len(b.lines) IN
         /\ b.x0 \in Int /\ b.x1 \in Int /\ b.x0 < b.x1 /\ b.y0 \in Int /\ bottom \in Int
         /\ Centre(id) \in Int /\ 2 * b.y0 < Centre(id) /\ Centre(id) < 2 * bottom
<1> DEFINE b == id[1]
           n == Len(b.lines)
           k == id[2]
           h == LineHeight
           y == b.y0
           c == Centre(id)
<1>1. b \in boxes /\ k \in DOMAIN b.lines
  BY LinesAre
<1>2. b.x0 \in Int /\ b.x1 \in Int /\ b.x0 < b.x1 /\ y \in Int /\ IsSeq(b.lines) /\ h \in Nat /\ h > 0
  BY <1>1, PageLayoutAssumption DEF AreBoxes
<1>3. n \in Nat /\ k \in 1 .. n
  BY <1>1, <1>2, SeqShape
<1>4. c = 2 * y + (2 * k - 1) * h
  BY DEF Centre
<1> HIDE DEF c, n, k, h, y
<1>5. h * n \in Int /\ (2 * k - 1) * h \in Int /\ 0 < (2 * k - 1) * h /\ (2 * k - 1) * h < 2 * (h * n)
  <2>1. k \in Nat /\ k >= 1 /\ n - k \in Nat
    BY <1>3
  <2> DEFINE d == n - k
             e == k - 1
  <2>2. d \in Nat /\ e \in Nat /\ n = k + d /\ k = e + 1
    BY <1>3, <2>1
  <2> HIDE DEF d, e
  <2>3. h * d \in Nat /\ h * e \in Nat /\ h * k = h * e + h /\ h * n = h * k + h * d /\ (2 * k - 1) * h = 2 * (h * k) - h
    BY <1>2, <1>3, <2>2
  <2> QED
    BY <1>2, <2>3
<1>6. y + h * n \in Int /\ c \in Int /\ 2 * y < c /\ c < 2 * (y + h * n)
  BY <1>2, <1>4, <1>5
<1> QED
  BY <1>2, <1>6 DEF c, n, h, y

\* Lines come in the order of their boxes.
LEMMA AboveIs ==
  ASSUME NEW boxes, AreBoxes(boxes), NEW p \in LinesOf(boxes), NEW q \in LinesOf(boxes), Above(p[1], q[1])
  PROVE  Centre(p) < 2 * q[1].y0 /\ Centre(p) < Centre(q)
<1> DEFINE bottom == p[1].y0 + LineHeight * Len(p[1].lines)
           y == q[1].y0
<1>1. bottom \in Int /\ Centre(p) \in Int /\ Centre(p) < 2 * bottom
  BY CentreIs
<1>2. y \in Int /\ Centre(q) \in Int /\ 2 * y < Centre(q)
  BY CentreIs
<1>3. bottom <= y
  BY DEF Above
<1> HIDE DEF bottom, y
<1>4. Centre(p) < 2 * y /\ Centre(p) < Centre(q)
  BY <1>1, <1>2, <1>3
<1> QED
  BY <1>4 DEF y

\* In their reading order.
LEMMA OrderedIsOk ==
  ASSUME NEW B, NEW I, HoldLines(B, I), NEW ordered, Spells(ordered, B), KeepsOrder(ordered, Overs(B)),
         NEW R, FollowBlocks(R, B)
  PROVE  OrderedOk(ordered, I, R) /\ Between(ordered, 1, Len(ordered)) \subseteq I
<1> DEFINE n == Len(ordered)
<1>1. /\ ordered \in Seq(B) /\ n \in Nat /\ \A i \in 1 .. n : ordered[i] \in B
      /\ \A i, j \in 1 .. n : i # j => ordered[i] # ordered[j]
  <2>1. ordered \in Seq(B) /\ OneByOne(ordered)
    BY DEF Spells, Lists
  <2>2. n \in Nat /\ \A i \in 1 .. n : ordered[i] \in B
    BY <2>1
  <2>3. \A i, j \in 1 .. n : i # j => ordered[i] # ordered[j]
    BY <2>1 DEF OneByOne
  <2> QED
    BY <2>1, <2>2, <2>3
<1> HIDE DEF n
<1>2. \A i \in 1 .. n : ordered[i].ids \in Seq(I) /\ ordered[i].ids # <<>> /\ OneByOne(ordered[i].ids)
  BY <1>1 DEF HoldLines
<1>3. \A i, j \in 1 .. n : i # j => IdSet(ordered[i]) \cap IdSet(ordered[j]) = {}
  BY <1>1 DEF HoldLines
<1>4. \A i \in 1 .. n : IdSet(ordered[i]) \subseteq I
  BY <1>2 DEF IdSet
<1>5. \A i \in 1 .. n : KeepsOrder(ordered[i].ids, R)
  BY <1>1 DEF FollowBlocks
<1>6. ASSUME NEW i \in 1 .. n, NEW j \in 1 .. n, i < j,
             NEW a \in IdSet(ordered[j]), NEW b \in IdSet(ordered[i]), <<a, b>> \in R
      PROVE  FALSE
  <2>1. ordered[i] \in B /\ ordered[j] \in B /\ ordered[j] # ordered[i] /\ i \in Nat /\ j \in Nat
    BY <1>1, <1>6
  <2>2. Over(ordered[j], ordered[i])
    BY <1>6, <2>1 DEF FollowBlocks
  <2>3. <<ordered[j], ordered[i]>> \in Overs(B)
    BY <2>1, <2>2 DEF Overs
  <2>4. j < i
    BY <2>3 DEF KeepsOrder, n
  <2> QED
    BY <1>6, <2>1, <2>4
<1> QED
  BY <1>1, <1>2, <1>3, <1>4, <1>5, <1>6 DEF OrderedOk, Between, n

\* On a straight page, of two blocks with lines one above the other the
\* upper one starts higher and they share a column: a table as wide as the
\* boxes it holds, a block of text at its first line outside the tables.
LEMMA PageBlocksKeep ==
  ASSUME NEW page, AreBoxes(page.boxes), AreGrids(Tables(page), page.boxes), Straight(page)
  PROVE  FollowBlocks(Aboves(LinesOf(page.boxes)), BlocksWith(page.boxes, Tables(page)))
<1> DEFINE boxes  == page.boxes
           tables == Tables(page)
           I      == LinesOf(boxes)
           R      == Aboves(I)
           B      == BlocksWith(boxes, tables)
           text(d)  == TextBlock(d, Kept(d, tables))
           table(g) == TableBlock(g, boxes)
<1>1. \A p, q : <<p, q>> \in R => p \in I /\ q \in I /\ Above(p[1], q[1])
  BY DEF Aboves
<1>2. \A b \in B : \/ \E d \in boxes : Kept(d, tables) # {} /\ b = text(d)
                 \/ \E g \in tables : b = table(g)
  BY DEF BlocksWith
<1>3. \A g \in tables : \A id \in I : 2 * g.y0 <= Centre(id) /\ Centre(id) < 2 * g.y1 =>
        \/ g.x0 <= id[1].x0 /\ id[1].x1 <= g.x1
        \/ id[1].x1 <= g.x0 \/ g.x1 <= id[1].x0
  BY DEF Straight
<1>4. \A g, h \in tables : g # h /\ g.x0 < h.x1 /\ h.x0 < g.x1 => g.y1 <= h.y0 \/ h.y1 <= g.y0
  BY DEF Straight
<1>5. \A g \in tables : /\ g.x0 \in Int /\ g.x1 \in Int /\ g.x0 < g.x1
                       /\ g.y0 \in Int /\ g.y1 \in Int /\ g.y0 < g.y1
  BY DEF AreGrids
<1>6. \A g \in tables : /\ table(g).x0 = g.x0 /\ table(g).x1 = g.x1 /\ table(g).y0 = g.y0
                       /\ table(g).ids = Rows(g, boxes)
  BY DEF TableBlock
<1>7. AreBoxes(boxes)
  OBVIOUS
<1> HIDE DEF boxes, tables, R, B, text, table
<1>8. \A p \in I : /\ p[1].x0 \in Int /\ p[1].x1 \in Int /\ p[1].x0 < p[1].x1 /\ p[1].y0 \in Int
                   /\ Centre(p) \in Int /\ 2 * p[1].y0 < Centre(p)
  BY <1>7, CentreIs
<1>9. \A p, q \in I : Above(p[1], q[1]) =>
        /\ Centre(p) < 2 * q[1].y0 /\ Centre(p) < Centre(q)
        /\ p[1].x0 < q[1].x1 /\ q[1].x0 < p[1].x1
  BY <1>7, AboveIs DEF Above
<1>10. \A d \in boxes : Kept(d, tables) # {} =>
         /\ IdSet(text(d)) \subseteq LinesKept(d, tables)
         /\ LinesKept(d, tables) \subseteq I
         /\ KeepsOrder(text(d).ids, R)
  <2>1. TAKE d \in boxes
  <2>2. HAVE Kept(d, tables) # {}
  <2>3. /\ Spells(text(d).ids, LinesKept(d, tables)) /\ LinesKept(d, tables) \subseteq I
    BY <1>7, <2>2, TextBlockIs DEF text
  <2>4. text(d).ids = ByCentre(LinesKept(d, tables))
    BY DEF text, TextBlock, LinesKept
  <2>5. \A p, q \in LinesKept(d, tables) : <<p, q>> \in R => Centre(p) < Centre(q)
    BY <1>1, <1>9
  <2>6. KeepsOrder(ByCentre(LinesKept(d, tables)), R)
    BY ONLY <1>7, <2>3, <2>5, ByCentreKeeps DEF I
  <2>7. IdSet(text(d)) \subseteq LinesKept(d, tables)
    BY <2>3, IdSetIs DEF Spells
  <2> QED
    BY <2>3, <2>4, <2>6, <2>7
<1>11. \A g \in tables : IdSet(table(g)) \subseteq LinesIn(g, boxes) /\ KeepsOrder(table(g).ids, R)
  <2>1. TAKE g \in tables
  <2>2. Lists(table(g).ids, LinesIn(g, boxes))
    BY <1>6, <1>7, RowsAre
  <2>3. \A p, q \in LinesIn(g, boxes) : <<p, q>> \in R => Centre(p) < Centre(q)
    BY <1>1, <1>9 DEF LinesIn
  <2>4. KeepsOrder(Rows(g, boxes), R)
    BY ONLY <1>7, <2>3, RowsKeep
  <2> QED
    BY <1>6, <2>2, <2>4, IdSetIs
<1>12. \A g \in tables : \A p \in LinesIn(g, boxes) :
         /\ p \in I /\ 2 * g.y0 <= Centre(p) /\ Centre(p) < 2 * g.y1
         /\ 2 * g.x0 <= p[1].x0 + p[1].x1 /\ p[1].x0 + p[1].x1 < 2 * g.x1
  BY DEF LinesIn, Inside, CentreX
\* The boxes of a table are within it.
<1>13. \A g \in tables : \A p \in LinesIn(g, boxes) : g.x0 <= p[1].x0 /\ p[1].x1 <= g.x1
  <2>1. TAKE g \in tables
  <2>2. TAKE p \in LinesIn(g, boxes)
  <2>3. \/ g.x0 <= p[1].x0 /\ p[1].x1 <= g.x1
        \/ p[1].x1 <= g.x0 \/ g.x1 <= p[1].x0
    BY <1>3, <1>12
  <2> QED
    BY <1>5, <1>8, <1>12, <2>3
<1>14. \A d \in boxes : \A p \in LinesKept(d, tables) : p[1] = d /\ \A g \in tables : ~Inside(p, g)
  <2>1. TAKE d \in boxes
  <2>2. TAKE p \in LinesKept(d, tables)
  <2>3. PICK k \in Kept(d, tables) : p = <<d, k>>
    BY DEF LinesKept
  <2>4. p[1] = d
    BY <2>3
  <2>5. \A g \in tables : ~Inside(<<d, k>>, g)
    BY <2>3 DEF Kept
  <2> QED
    BY <2>3, <2>4, <2>5
\* A block of text starts at a line of its box that no table holds.
<1>15. \A d \in boxes : Kept(d, tables) # {} =>
         /\ text(d).x0 = d.x0 /\ text(d).x1 = d.x1 /\ d.y0 <= text(d).y0 /\ text(d).y0 \in Int
         /\ \E r \in LinesKept(d, tables) : r[1] = d /\ Centre(r) = 2 * text(d).y0 + LineHeight
  <2>1. TAKE d \in boxes
  <2>2. HAVE Kept(d, tables) # {}
  <2>3. /\ text(d).x0 = d.x0 /\ text(d).x1 = d.x1 /\ d.y0 <= text(d).y0
        /\ \E k \in Kept(d, tables) : Centre(<<d, k>>) = 2 * text(d).y0 + LineHeight
    BY <1>7, <2>2, TextBlockTop DEF text
  <2>4. text(d).y0 \in Int
    BY <1>7, <2>2, TextBlockIs DEF text
  <2>5. PICK k \in Kept(d, tables) : Centre(<<d, k>>) = 2 * text(d).y0 + LineHeight
    BY <2>3
  <2> DEFINE v == <<d, k>>
  <2>6. v \in LinesKept(d, tables) /\ v[1] = d /\ Centre(v) = 2 * text(d).y0 + LineHeight
    BY <2>5 DEF LinesKept
  <2> HIDE DEF v
  <2>7. \E r \in LinesKept(d, tables) : r[1] = d /\ Centre(r) = 2 * text(d).y0 + LineHeight
    BY <2>6
  <2> QED
    BY <2>3, <2>4, <2>7
<1>16. LineHeight \in Nat /\ LineHeight > 0
  BY PageLayoutAssumption
<1>17. ASSUME NEW d \in boxes, Kept(d, tables) # {}, NEW e \in boxes, Kept(e, tables) # {},
              NEW p \in LinesKept(d, tables), NEW q \in LinesKept(e, tables), Above(p[1], q[1])
       PROVE  Over(text(d), text(e))
  <2>1. p \in I /\ q \in I /\ p[1] = d /\ q[1] = e
    BY <1>10, <1>14, <1>17
  <2>2. PICK r \in LinesKept(d, tables) : r[1] = d /\ Centre(r) = 2 * text(d).y0 + LineHeight
    BY <1>15, <1>17
  <2>3. r \in I /\ Above(r[1], q[1])
    BY <1>10, <1>17, <2>1, <2>2
  <2>4. Centre(r) < 2 * e.y0 /\ d.x0 < e.x1 /\ e.x0 < d.x1 /\ e.y0 \in Int
    BY <1>8, <1>9, <2>1, <2>2, <2>3
  <2>5. text(d).y0 \in Int /\ text(e).y0 \in Int /\ e.y0 <= text(e).y0
    BY <1>15, <1>17
  <2>6. text(d).y0 < text(e).y0
    BY <1>16, <2>2, <2>4, <2>5
  <2> QED
    BY <1>15, <1>17, <2>4, <2>6 DEF Over
<1>18. ASSUME NEW d \in boxes, Kept(d, tables) # {}, NEW g \in tables,
              NEW p \in LinesKept(d, tables), NEW q \in LinesIn(g, boxes), Above(p[1], q[1])
       PROVE  Over(text(d), table(g))
  <2>1. p \in I /\ q \in I /\ p[1] = d
    BY <1>10, <1>12, <1>14, <1>18
  <2>2. PICK r \in LinesKept(d, tables) : r[1] = d /\ Centre(r) = 2 * text(d).y0 + LineHeight
    BY <1>15, <1>18
  <2>3. r \in I /\ Above(r[1], q[1]) /\ ~Inside(r, g)
    BY <1>10, <1>14, <1>18, <2>1, <2>2
  <2>4. /\ Centre(r) \in Int /\ Centre(r) < Centre(q) /\ Centre(q) \in Int /\ Centre(q) < 2 * g.y1
        /\ d.x0 \in Int /\ d.x1 \in Int /\ d.x0 < d.x1 /\ q[1].x0 \in Int /\ q[1].x1 \in Int
        /\ d.x0 < q[1].x1 /\ q[1].x0 < d.x1
    BY <1>8, <1>9, <1>12, <2>1, <2>2, <2>3
  <2>5. g.x0 <= q[1].x0 /\ q[1].x1 <= g.x1
    BY <1>13
  <2>6. g.x0 \in Int /\ g.x1 \in Int /\ g.y0 \in Int /\ g.y1 \in Int
    BY <1>5
  <2>7. d.x0 < g.x1 /\ g.x0 < d.x1
    BY <2>4, <2>5, <2>6
  <2>8. text(d).y0 \in Int
    BY <1>15, <1>18
  <2>9. ASSUME ~(text(d).y0 < g.y0)
        PROVE  FALSE
    <3>1. 2 * g.y0 <= Centre(r) /\ Centre(r) < 2 * g.y1
      BY <1>16, <2>2, <2>4, <2>6, <2>8, <2>9
    <3>2. \/ g.x0 <= d.x0 /\ d.x1 <= g.x1
          \/ d.x1 <= g.x0 \/ g.x1 <= d.x0
      BY <1>3, <2>2, <2>3, <3>1
    <3>3. g.x0 <= d.x0 /\ d.x1 <= g.x1
      BY <2>4, <2>6, <2>7, <3>2
    <3>4. 2 * g.x0 <= d.x0 + d.x1 /\ d.x0 + d.x1 < 2 * g.x1
      BY <2>4, <2>6, <3>3
    <3>5. Inside(r, g)
      BY <2>2, <3>1, <3>4 DEF Inside, CentreX
    <3> QED
      BY <2>3, <3>5
  <2> QED
    BY <1>6, <1>15, <1>18, <2>7, <2>9 DEF Over
<1>19. ASSUME NEW g \in tables, NEW e \in boxes, Kept(e, tables) # {},
              NEW p \in LinesIn(g, boxes), NEW q \in LinesKept(e, tables), Above(p[1], q[1])
       PROVE  Over(table(g), text(e))
  <2>1. p \in I /\ q \in I /\ q[1] = e
    BY <1>10, <1>12, <1>14, <1>19
  <2>2. /\ Centre(p) \in Int /\ Centre(p) < 2 * e.y0 /\ e.y0 \in Int /\ 2 * g.y0 <= Centre(p)
        /\ p[1].x0 \in Int /\ p[1].x1 \in Int /\ e.x0 \in Int /\ e.x1 \in Int
        /\ p[1].x0 < e.x1 /\ e.x0 < p[1].x1
    BY <1>8, <1>9, <1>12, <1>19, <2>1
  <2>3. g.x0 <= p[1].x0 /\ p[1].x1 <= g.x1 /\ g.x0 \in Int /\ g.x1 \in Int /\ g.y0 \in Int
    BY <1>5, <1>13
  <2>4. /\ text(e).y0 \in Int /\ e.y0 <= text(e).y0
        /\ text(e).x0 = e.x0 /\ text(e).x1 = e.x1
    BY <1>15, <1>19
  <2>5. g.x0 < e.x1 /\ e.x0 < g.x1 /\ g.y0 < text(e).y0
    BY <2>2, <2>3, <2>4
  <2> QED
    BY <1>6, <2>4, <2>5 DEF Over
<1>20. ASSUME NEW g \in tables, NEW h \in tables, g # h,
              NEW p \in LinesIn(g, boxes), NEW q \in LinesIn(h, boxes), Above(p[1], q[1])
       PROVE  Over(table(g), table(h))
  <2>1. p \in I /\ q \in I
    BY <1>12
  <2>2. /\ p[1].x0 \in Int /\ p[1].x1 \in Int /\ q[1].x0 \in Int /\ q[1].x1 \in Int
        /\ p[1].x0 < q[1].x1 /\ q[1].x0 < p[1].x1
        /\ Centre(p) \in Int /\ Centre(q) \in Int /\ Centre(p) < Centre(q)
    BY <1>8, <1>9, <1>20, <2>1
  <2>3. /\ g.x0 <= p[1].x0 /\ p[1].x1 <= g.x1 /\ 2 * g.y0 <= Centre(p)
        /\ h.x0 <= q[1].x0 /\ q[1].x1 <= h.x1 /\ Centre(q) < 2 * h.y1
    BY <1>12, <1>13
  <2>4. /\ g.x0 \in Int /\ g.x1 \in Int /\ g.y0 \in Int /\ g.y1 \in Int /\ g.y0 < g.y1
        /\ h.x0 \in Int /\ h.x1 \in Int /\ h.y0 \in Int /\ h.y1 \in Int
    BY <1>5
  <2>5. g.x0 < h.x1 /\ h.x0 < g.x1
    BY <2>2, <2>3, <2>4
  <2>6. g.y1 <= h.y0 \/ h.y1 <= g.y0
    BY <1>4, <1>20, <2>5
  <2>7. g.y0 < h.y0
    BY <2>2, <2>3, <2>4, <2>6
  <2> QED
    BY <1>6, <2>5, <2>7 DEF Over
<1>21. \A b \in B : KeepsOrder(b.ids, R)
  BY <1>2, <1>10, <1>11
<1>22. ASSUME NEW b \in B, NEW c \in B, NEW p \in IdSet(b), NEW q \in IdSet(c), <<p, q>> \in R, b # c
       PROVE  Over(b, c)
  <2>1. Above(p[1], q[1])
    BY <1>1, <1>22
  <2>2. ASSUME NEW d \in boxes, Kept(d, tables) # {}, b = text(d)
        PROVE  Over(b, c)
    <3>1. p \in LinesKept(d, tables)
      BY <1>10, <2>2
    <3>2. ASSUME NEW e \in boxes, Kept(e, tables) # {}, c = text(e)
          PROVE  Over(b, c)
      BY <1>10, <1>17, <2>1, <2>2, <3>1, <3>2
    <3>3. ASSUME NEW g \in tables, c = table(g)
          PROVE  Over(b, c)
      BY <1>11, <1>18, <2>1, <2>2, <3>1, <3>3
    <3> QED
      BY <1>2, <3>2, <3>3
  <2>3. ASSUME NEW g \in tables, b = table(g)
        PROVE  Over(b, c)
    <3>1. p \in LinesIn(g, boxes)
      BY <1>11, <2>3
    <3>2. ASSUME NEW e \in boxes, Kept(e, tables) # {}, c = text(e)
          PROVE  Over(b, c)
      BY <1>10, <1>19, <2>1, <2>3, <3>1, <3>2
    <3>3. ASSUME NEW h \in tables, c = table(h)
          PROVE  Over(b, c)
      BY <1>11, <1>20, <1>22, <2>1, <2>3, <3>1, <3>3
    <3> QED
      BY <1>2, <3>2, <3>3
  <2> QED
    BY <1>2, <2>2, <2>3
<1> QED
  BY <1>21, <1>22 DEF FollowBlocks, B, R, tables, boxes

\* The Markdown of a page has lines of its text layer only, none twice, and
\* on a straight page from top to bottom in every column.
LEMMA PageMarkdownIs ==
  ASSUME NEW page, AreBoxes(page.boxes), AreGrids(page.grids, page.boxes)
  PROVE  /\ FinalParts(PageMarkdown(page), LinesOf(page.boxes))
         /\ Lists(Reads(PageMarkdown(page)), LinesOf(page.boxes))
         /\ Straight(page) => KeepsOrder(Reads(PageMarkdown(page)), Aboves(LinesOf(page.boxes)))
<1> DEFINE boxes   == page.boxes
           tables  == Tables(page)
           I       == LinesOf(boxes)
           B       == Blocks(page)
           ordered == Ordered(B)
           flow    == Flow(ordered, B)
           titles  == MergeWrappedHeadings(flow)
           R       == IF Straight(page) THEN Aboves(I) ELSE {}
<1>1. tables \subseteq page.grids /\ \A g \in tables : Len(Rows(g, boxes)) >= 2
  BY DEF Tables
<1>2. \A g \in tables : Rows(g, boxes) # <<>>
  <2>1. ASSUME NEW g \in tables, Rows(g, boxes) = <<>>
        PROVE  FALSE
    <3>1. Len(Rows(g, boxes)) = 0
      BY <2>1
    <3> QED
      BY <1>1, <3>1
  <2> QED
    BY <2>1
<1>3. AreGrids(tables, boxes)
  <2> HIDE DEF tables
  <2>1. IsFiniteSet(tables)
    BY <1>1, FS_Subset DEF AreGrids
  <2> QED
    BY <1>1, <2>1 DEF AreGrids
<1>4. B = BlocksWith(boxes, tables)
  BY DEF Blocks
<1>5. AreBlocks(B) /\ HoldLines(B, I)
  <2> HIDE DEF tables, B
  <2> QED
    BY <1>2, <1>3, <1>4, PageBlocksAre
<1>6. FollowBlocks(R, B)
  <2>1. Straight(page) => FollowBlocks(Aboves(I), B)
    <3> HIDE DEF tables, B
    <3> QED
      BY <1>3, <1>4, PageBlocksKeep DEF tables
  <2>2. FollowBlocks({}, B)
    BY DEF FollowBlocks, KeepsOrder
  <2> QED
    BY <2>1, <2>2
<1>7. PageMarkdown(page) = IF B = {} THEN <<>> ELSE MergeLists(titles)
  BY DEF PageMarkdown, BlocksMarkdown
<1>8. Lists(<<>>, I)
  BY ListsNothing, ListsMore
<1>9. AreLines(I)
  BY LinesAre
<1> HIDE DEF B
<1>10. Spells(ordered, B) /\ KeepsOrder(ordered, Overs(B))
  BY <1>5, UpperBlocksFirst
<1>11. Straight(page) => R = Aboves(I)
  OBVIOUS
<1> HIDE DEF I, R, ordered
<1>12. OrderedOk(ordered, I, R) /\ Between(ordered, 1, Len(ordered)) \subseteq I
  BY <1>5, <1>10, <1>6, OrderedIsOk
<1>13. /\ FinalParts(flow, I) /\ Lists(Reads(flow), Between(ordered, 1, Len(ordered)))
       /\ KeepsOrder(Reads(flow), R)
  BY <1>9, <1>12, FlowReads
<1> HIDE DEF flow
<1>14. Lists(Reads(flow), I)
  BY <1>12, <1>13, ListsMore
<1>15. FinalParts(titles, I) /\ Reads(titles) = Reads(flow)
  BY <1>13, HeadingsMerged
<1> HIDE DEF titles
<1>16. FinalParts(MergeLists(titles), I) /\ Reads(MergeLists(titles)) = Reads(titles)
  BY <1>15, ListsMerged
<1>17. FinalParts(<<>>, I) /\ Reads(<<>>) = <<>> /\ KeepsOrder(<<>>, R)
  BY FinalNone, ReadsNothing DEF KeepsOrder
<1>18. KeepsOrder(Reads(PageMarkdown(page)), R)
  BY <1>7, <1>13, <1>15, <1>16, <1>17
<1> QED
  BY <1>7, <1>8, <1>14, <1>15, <1>16, <1>17, <1>11, <1>18 DEF I

\* The plain text of the layer has every line, once, from top to bottom.
LEMMA PlainMarkdownIs ==
  ASSUME NEW boxes, AreBoxes(boxes)
  PROVE  /\ FinalParts(PlainMarkdown(boxes), LinesOf(boxes))
         /\ Spells(Reads(PlainMarkdown(boxes)), LinesOf(boxes))
         /\ KeepsOrder(Reads(PlainMarkdown(boxes)), Aboves(LinesOf(boxes)))
<1> DEFINE I   == LinesOf(boxes)
           ids == ByCentre(I)
           p   == Part("paragraph", 0, ids)
<1>1. PlainMarkdown(boxes) = IF boxes = {} THEN <<>> ELSE <<p>>
  BY DEF PlainMarkdown
<1>2. Spells(ids, I)
  BY ByCentreIs
<1>3. KeepsOrder(ids, Aboves(I))
  <2>1. \A u, v \in I : <<u, v>> \in Aboves(I) => Centre(u) < Centre(v)
    BY AboveIs DEF Aboves
  <2>2. I \in SUBSET LinesOf(boxes)
    OBVIOUS
  <2> HIDE DEF I
  <2> QED
    BY <2>1, <2>2, ByCentreKeeps
<1>4. CASE boxes = {}
  <2>1. I = {}
    BY <1>4 DEF LinesOf
  <2>2. Spells(Reads(<<>>), {}) /\ FinalParts(<<>>, I) /\ KeepsOrder(Reads(<<>>), Aboves(I))
    BY ListsNothing, ReadsNothing, FinalNone DEF KeepsOrder
  <2> HIDE DEF I
  <2> QED
    BY <1>1, <1>4, <2>1, <2>2 DEF I
<1>5. CASE boxes # {}
  <2>1. I # {}
    <3>1. PICK b \in boxes : TRUE
      BY <1>5
    <3>2. IsSeq(b.lines) /\ b.lines # <<>>
      BY DEF AreBoxes
    <3>3. 1 \in DOMAIN b.lines
      BY <3>2, SeqShape
    <3> QED
      BY <3>3, LinesAre
  <2> HIDE DEF I, ids
  <2>2. ids \in Seq(I) /\ ids # <<>>
    <3>1. PICK i \in 1 .. Len(ids) : TRUE
      BY <1>2, <2>1 DEF Spells
    <3>2. Len(ids) # 0
      BY <3>1
    <3> QED
      BY <1>2, <3>2 DEF Spells, Lists
  <2>3. p \in PartsOver(I) /\ p.kind = "paragraph" /\ p.ids = ids
    BY <2>2 DEF Part, PartsOver, PartKinds
  <2>4. GoodPart(p)
    BY <2>2, <2>3 DEF GoodPart
  <2> HIDE DEF p
  <2>5. FinalParts(<<p>>, I) /\ Reads(<<p>>) = p.ids
    BY <2>2, <2>3, <2>4, FinalOne
  <2> QED
    BY <1>1, <1>2, <1>5, <1>3, <2>3, <2>5 DEF I
<1> QED
  BY <1>4, <1>5

(***************************************************************************)
(* Scanned pages                                                           *)
(***************************************************************************)
\* Visual lines of X: each box in one of them.
LinesOver(lines, X) ==
  /\ lines \in Seq(Seq(X)) /\ \A i \in 1 .. Len(lines) : lines[i] # <<>>
  /\ \A i, j \in 1 .. Len(lines) : i # j => Range(lines[i]) \cap Range(lines[j]) = {}
  /\ \A x \in X : \E i \in 1 .. Len(lines) : x \in Range(lines[i])

LEMMA RangeGrows ==
  ASSUME NEW S, NEW s \in Seq(S), NEW e \in S
  PROVE  Range(Append(s, e)) = Range(s) \cup {e} /\ Append(s, e) # <<>>
<1> DEFINE n == Len(s)
           w == Append(s, e)
<1>1. n \in Nat /\ w \in Seq(S) /\ Len(w) = n + 1 /\ w[n + 1] = e /\ w # <<>> /\ \A i \in 1 .. n : w[i] = s[i]
  BY AppendIs
<1>2. Range(s) = {s[i] : i \in 1 .. n} /\ Range(w) = {w[i] : i \in 1 .. Len(w)}
  BY <1>1, RangeIs
<1> HIDE DEF n, w
<1>3. \A i : i \in 1 .. n + 1 <=> i \in 1 .. n \/ i = n + 1
  BY <1>1
<1> QED
  BY <1>1, <1>2, <1>3 DEF w

LEMMA RangeOne ==
  ASSUME NEW e
  PROVE  Range(<<e>>) = {e} /\ <<e>> # <<>> /\ \A X : e \in X => <<e>> \in Seq(X)
<1>1. \A i : i \in 1 .. 1 <=> i = 1
  OBVIOUS
<1>2. DOMAIN <<e>> = 1 .. 1 /\ <<e>>[1] = e
  OBVIOUS
<1> QED
  BY <1>1, <1>2 DEF Range

LEMMA AddBoxIs ==
  ASSUME NEW X, NEW lines, LinesOver(lines, X), NEW b, b \notin X
  PROVE  LinesOver(AddBox(lines, b), X \cup {b})
<1> DEFINE Y == X \cup {b}
           n == Len(lines)
           w == AddBox(lines, b)
<1>1. /\ lines \in Seq(Seq(X)) /\ n \in Nat
      /\ \A i \in 1 .. n : lines[i] # <<>> /\ lines[i] \in Seq(X) /\ Range(lines[i]) \subseteq X
      /\ \A i, j \in 1 .. n : i # j => Range(lines[i]) \cap Range(lines[j]) = {}
      /\ \A x \in X : \E i \in 1 .. n : x \in Range(lines[i])
  <2>1. /\ lines \in Seq(Seq(X)) /\ \A i \in 1 .. n : lines[i] # <<>>
        /\ \A i, j \in 1 .. n : i # j => Range(lines[i]) \cap Range(lines[j]) = {}
        /\ \A x \in X : \E i \in 1 .. n : x \in Range(lines[i])
    BY DEF LinesOver
  <2>2. n \in Nat /\ \A i \in 1 .. n : lines[i] \in Seq(X)
    BY <2>1
  <2>3. \A s \in Seq(X) : Range(s) \subseteq X
    BY RangeIs
  <2> QED
    BY <2>1, <2>2, <2>3
<1>2. \A s \in Seq(X) : s \in Seq(Y)
  OBVIOUS
<1>3. lines \in Seq(Seq(Y)) /\ \A i \in 1 .. n : lines[i] \in Seq(Y)
  BY <1>1, <1>2
<1>4. b \in Y /\ X \subseteq Y /\ \A y \in Y : y \in X \/ y = b
  OBVIOUS
<1>5. CASE lines # <<>> /\ Near(Last(lines), b)
  <2> DEFINE l == Append(lines[n], b)
  <2>1. n > 0 /\ n \in 1 .. n
    BY <1>1, <1>5
  <2>2. w = [lines EXCEPT ![n] = l]
    BY <1>5, <2>1 DEF AddBox
  <2>3. l \in Seq(Y) /\ l # <<>> /\ Range(l) = Range(lines[n]) \cup {b}
    <3>1. lines[n] \in Seq(Y)
      BY <1>3, <2>1
    <3> QED
      BY <3>1, <1>4, AppendIs, RangeGrows
  <2> HIDE DEF l, w, Y
  <2>4. w \in Seq(Seq(Y)) /\ Len(w) = n /\ w[n] = l /\ \A i \in 1 .. n : i # n => w[i] = lines[i]
    <3>1. n = Len(lines)
      OBVIOUS
    <3> HIDE DEF n
    <3> QED
      BY <1>1, <1>3, <2>1, <2>2, <2>3, <3>1
  <2> HIDE DEF n
  <2>5. \A i \in 1 .. n : w[i] # <<>>
    BY <1>1, <2>3, <2>4
  <2>6. ASSUME NEW i \in 1 .. n, NEW j \in 1 .. n, i # j
        PROVE  Range(w[i]) \cap Range(w[j]) = {}
    <3>1. b \notin Range(lines[i]) /\ b \notin Range(lines[j]) /\ Range(lines[i]) \cap Range(lines[j]) = {}
      BY <1>1, <2>6
    <3>2. CASE i = n
      <4>1. Range(w[i]) = Range(lines[i]) \cup {b} /\ w[j] = lines[j]
        BY <2>3, <2>4, <2>6, <3>2
      <4> QED
        BY <3>1, <4>1
    <3>3. CASE j = n
      <4>1. Range(w[j]) = Range(lines[j]) \cup {b} /\ w[i] = lines[i]
        BY <2>3, <2>4, <2>6, <3>3
      <4> QED
        BY <3>1, <4>1
    <3>4. CASE i # n /\ j # n
      BY <2>4, <3>1, <3>4
    <3> QED
      BY <3>2, <3>3, <3>4
  <2>7. ASSUME NEW y \in Y
        PROVE  \E i \in 1 .. n : y \in Range(w[i])
    <3>1. CASE y = b
      BY <2>1, <2>3, <2>4, <3>1
    <3>2. CASE y \in X
      <4>1. PICK i \in 1 .. n : y \in Range(lines[i])
        BY <1>1, <3>2
      <4>2. Range(lines[i]) \subseteq Range(w[i])
        BY <2>3, <2>4
      <4> QED
        BY <4>1, <4>2
    <3> QED
      BY <1>4, <2>7, <3>1, <3>2
  <2> QED
    BY <2>4, <2>5, <2>6, <2>7 DEF LinesOver, Y, w
<1>6. CASE ~(lines # <<>> /\ Near(Last(lines), b))
  <2> DEFINE l == <<b>>
  <2>1. w = Append(lines, l)
    BY <1>6 DEF AddBox
  <2>2. l \in Seq(Y) /\ l # <<>> /\ Range(l) = {b}
    BY <1>4, RangeOne
  <2> HIDE DEF l, w, Y
  <2>3. w \in Seq(Seq(Y)) /\ Len(w) = n + 1 /\ w[n + 1] = l /\ \A i \in 1 .. n : w[i] = lines[i]
    BY <1>3, <2>1, <2>2, AppendIs
  <2> HIDE DEF n
  <2>4. \A i : i \in 1 .. n + 1 <=> i \in 1 .. n \/ i = n + 1
    BY <1>1
  <2>5. \A i \in 1 .. n + 1 : w[i] # <<>>
    BY <1>1, <2>2, <2>3, <2>4
  <2>6. ASSUME NEW i \in 1 .. n + 1, NEW j \in 1 .. n + 1, i # j
        PROVE  Range(w[i]) \cap Range(w[j]) = {}
    <3>1. CASE i = n + 1
      <4>1. j \in 1 .. n
        BY <2>4, <2>6, <3>1
      <4> QED
        BY <1>1, <2>2, <2>3, <3>1, <4>1
    <3>2. CASE j = n + 1
      <4>1. i \in 1 .. n
        BY <2>4, <2>6, <3>2
      <4> QED
        BY <1>1, <2>2, <2>3, <3>2, <4>1
    <3>3. CASE i \in 1 .. n /\ j \in 1 .. n
      BY <1>1, <2>3, <2>6, <3>3
    <3> QED
      BY <2>4, <2>6, <3>1, <3>2, <3>3
  <2>7. ASSUME NEW y \in Y
        PROVE  \E i \in 1 .. n + 1 : y \in Range(w[i])
    <3>1. CASE y = b
      BY <2>2, <2>3, <2>4, <3>1
    <3>2. CASE y \in X
      BY <1>1, <2>3, <2>4, <3>2
    <3> QED
      BY <1>4, <2>7, <3>1, <3>2
  <2> QED
    BY <2>3, <2>5, <2>6, <2>7 DEF LinesOver, Y, w
<1> QED
  BY <1>5, <1>6

\* Of the lines of a group those down to t come first, none with what is further down.
Sided(lines, t) ==
  \A i, j \in 1 .. Len(lines) : i <= j =>
    \A x \in Range(lines[i]), y \in Range(lines[j]) : y.y0 <= t => x.y0 <= t

\* A line that ends at t takes no box that begins half a line below t.
LEMMA NearIs ==
  ASSUME NEW X, NEW line \in Seq(X), line # <<>>, NEW t \in Int, NEW b,
         \A x \in X : x.y0 \in Int /\ x.y1 = x.y0 + LineHeight,
         \A x \in Range(line) : x.y0 <= t,
         b.y0 \in Int, b.y1 = b.y0 + LineHeight, 2 * (b.y0 - t) >= LineHeight
  PROVE  ~Near(line, b)
<1> DEFINE n       == Len(line)
           centres == [k \in 1 .. n |-> line[k].y0 + line[k].y1]
           c       == 2 * t + LineHeight
           total   == Total(centres)
           place   == b.y0 + b.y1
<1>1. LineHeight \in Nat /\ LineHeight > 0
  BY PageLayoutAssumption
<1>2. n \in Nat /\ n > 0 /\ \A k \in 1 .. n : line[k] \in X /\ line[k] \in Range(line)
  <2>1. Range(line) = {line[k] : k \in 1 .. n}
    BY RangeIs
  <2> QED
    BY <2>1
<1>3. \A k \in 1 .. n : /\ line[k].y0 \in Int /\ line[k].y1 = line[k].y0 + LineHeight
                        /\ line[k].y0 <= t
  BY <1>2
<1>4. Near(line, b) <=> Distance(n * place, total) < n * LineHeight
  BY DEF Near
<1>5. c \in Int /\ place \in Int /\ place >= c + LineHeight
  BY <1>1
<1> HIDE DEF n, c
<1>6. \A k \in 1 .. n : centres[k] \in Int /\ centres[k] <= c
  BY <1>1, <1>3 DEF c
<1>7. centres \in Seq(Int) /\ Len(centres) = n
  <2>1. centres \in [1 .. n -> Int]
    BY <1>6
  <2> HIDE DEF centres
  <2> QED
    BY <1>2, <2>1, SeqFrom
<1> HIDE DEF centres
<1>8. total \in Int /\ total <= n * c
  BY <1>5, <1>6, <1>7, TotalAtMost
<1> HIDE DEF total, place
<1>9. n * place >= n * c + n * LineHeight
  <2> DEFINE d == place - (c + LineHeight)
  <2>1. d \in Nat /\ place = d + c + LineHeight
    BY <1>1, <1>5
  <2> HIDE DEF d
  <2>2. n * d \in Nat /\ n * place = n * d + n * c + n * LineHeight
    BY <1>1, <1>2, <1>5, <2>1
  <2>3. n * c \in Int /\ n * LineHeight \in Int
    BY <1>1, <1>2, <1>5
  <2> QED
    BY <2>2, <2>3
<1> DEFINE p == n * place
           q == n * LineHeight
           r == n * c
<1>10. p \in Int /\ q \in Nat /\ r \in Int
  BY <1>1, <1>2, <1>5
<1> HIDE DEF p, q, r
<1>11. p >= r + q /\ total <= r
  BY <1>8, <1>9 DEF p, q, r
<1>12. ~(Distance(p, total) < q)
  BY <1>8, <1>10, <1>11 DEF Distance
<1> QED
  BY <1>4, <1>12 DEF p, q

\* One box more, not above those there are.
LEMMA AddBoxSided ==
  ASSUME NEW X, NEW lines, LinesOver(lines, X), NEW t \in Int, Sided(lines, t), NEW b,
         \A x \in X : x.y0 \in Int /\ x.y1 = x.y0 + LineHeight /\ x.y0 <= b.y0,
         b.y0 \in Int, b.y1 = b.y0 + LineHeight, b.y0 <= t \/ 2 * (b.y0 - t) >= LineHeight
  PROVE  Sided(AddBox(lines, b), t)
<1> DEFINE n == Len(lines)
           w == AddBox(lines, b)
           Y == X \cup {b}
<1>1. /\ n \in Nat /\ lines \in Seq(Seq(X))
      /\ \A i \in 1 .. n : lines[i] # <<>> /\ lines[i] \in Seq(X) /\ Range(lines[i]) \subseteq X
  <2>1. lines \in Seq(Seq(X)) /\ \A i \in 1 .. n : lines[i] # <<>>
    BY DEF LinesOver
  <2>2. n \in Nat /\ \A i \in 1 .. n : lines[i] \in Seq(X)
    BY <2>1
  <2>3. \A s \in Seq(X) : Range(s) \subseteq X
    BY RangeIs
  <2> QED
    BY <2>1, <2>2, <2>3
<1>2. \A i, j \in 1 .. n : i <= j =>
        \A x \in Range(lines[i]), y \in Range(lines[j]) : y.y0 <= t => x.y0 <= t
  BY DEF Sided
<1>3. \A i \in 1 .. n : \A x \in Range(lines[i]) : x.y0 \in Int /\ x.y0 <= b.y0
  BY <1>1
<1>4. \A s \in Seq(X) : s \in Seq(Y)
  OBVIOUS
<1>5. \A i \in 1 .. n : lines[i] \in Seq(Y)
  BY <1>1, <1>4
<1>6. CASE lines # <<>> /\ Near(Last(lines), b)
  <2> DEFINE last == lines[n]
             l    == Append(last, b)
  <2>1. n \in 1 .. n /\ Near(last, b) /\ w = [lines EXCEPT ![n] = l]
    BY <1>1, <1>6 DEF AddBox, Last
  <2>2. Range(l) = Range(last) \cup {b}
    <3>1. last \in Seq(Y) /\ b \in Y
      BY <1>5, <2>1
    <3> HIDE DEF last, Y
    <3> QED
      BY <3>1, RangeGrows
  <2> HIDE DEF l, w
  <2>3. Len(w) = n /\ w[n] = l /\ \A i \in 1 .. n : i # n => w[i] = lines[i]
    <3>1. DOMAIN w = DOMAIN lines /\ DOMAIN lines = 1 .. n
      BY <1>1, <2>1
    <3> QED
      BY <1>1, <2>1, <3>1
  \* A line that ends at t is not near a box below t.
  <2>4. ASSUME NEW y \in Range(last), y.y0 <= t
        PROVE  b.y0 <= t
    <3>1. \A x \in Range(last) : x.y0 <= t
      BY <1>2, <2>1, <2>4
    <3>2. last \in Seq(X) /\ last # <<>>
      BY <1>1, <2>1
    <3> HIDE DEF last
    <3> QED
      BY <2>1, <3>1, <3>2, NearIs
  <2>5. \A i \in 1 .. n : \A x \in Range(w[i]) : x \in Range(lines[i]) \/ (i = n /\ x = b)
    BY <2>2, <2>3
  <2> HIDE DEF n
  <2>6. ASSUME NEW i \in 1 .. n, NEW j \in 1 .. n, i <= j,
               NEW x \in Range(w[i]), NEW y \in Range(w[j]), y.y0 <= t
        PROVE  x.y0 <= t
    <3>1. CASE x \in Range(lines[i]) /\ y \in Range(lines[j])
      BY <1>2, <2>6, <3>1
    <3>2. CASE x \in Range(lines[i]) /\ y = b
      BY <1>3, <2>6, <3>2
    <3>3. CASE i = n /\ x = b /\ y \in Range(lines[j])
      <4>1. j = n
        BY <1>1, <2>6, <3>3
      <4> QED
        BY <2>4, <2>6, <3>3, <4>1
    <3>4. CASE x = b /\ y = b
      BY <2>6, <3>4
    <3> QED
      BY <2>5, <3>1, <3>2, <3>3, <3>4
  <2> QED
    BY <2>3, <2>6 DEF Sided, w
<1>7. CASE ~(lines # <<>> /\ Near(Last(lines), b))
  <2> DEFINE l == <<b>>
  <2>1. w = Append(lines, l)
    BY <1>7 DEF AddBox
  <2>2. l \in Seq(Y) /\ Range(l) = {b}
    BY RangeOne
  <2> HIDE DEF l, w
  <2>3. Len(w) = n + 1 /\ w[n + 1] = l /\ \A i \in 1 .. n : w[i] = lines[i]
    <3> DEFINE Z == Seq(Y)
    <3>1. lines \in Seq(Z) /\ l \in Z
      BY <1>1, <1>4, <2>2
    <3> HIDE DEF Z
    <3> QED
      BY <2>1, <3>1, AppendIs
  <2> HIDE DEF n
  <2>4. \A i \in 1 .. n + 1 : i \in 1 .. n \/ i = n + 1
    BY <1>1
  <2>5. ASSUME NEW i \in 1 .. n + 1, NEW j \in 1 .. n + 1, i <= j,
               NEW x \in Range(w[i]), NEW y \in Range(w[j]), y.y0 <= t
        PROVE  x.y0 <= t
    <3>1. CASE j = n + 1
      <4>1. y = b
        BY <2>2, <2>3, <3>1
      <4>2. CASE i = n + 1
        BY <2>2, <2>3, <2>5, <4>1, <4>2
      <4>3. CASE i \in 1 .. n
        BY <1>3, <2>3, <2>5, <4>1, <4>3
      <4> QED
        BY <2>4, <4>2, <4>3
    <3>2. CASE j \in 1 .. n
      <4>1. i \in 1 .. n
        BY <1>1, <2>4, <2>5, <3>2
      <4> QED
        BY <1>2, <2>3, <2>5, <3>2, <4>1
    <3> QED
      BY <2>4, <3>1, <3>2
  <2> QED
    BY <2>3, <2>5 DEF Sided, w
<1> QED
  BY <1>6, <1>7

\* No box of S begins in the half of a line after t.
RowEnds(S, t) == \A r \in S : r.y0 <= t \/ 2 * (r.y0 - t) >= LineHeight

IsBoxLoop(boxes, g) ==
  g = [k \in 0 .. Len(boxes) |-> IF k = 0 THEN <<>> ELSE AddBox(g[k - 1], boxes[k])]

LEMMA BoxLoopExists ==
  ASSUME NEW G, NEW boxes \in Seq(G)
  PROVE  \E g : IsBoxLoop(boxes, g)
<1> DEFINE n     == Len(boxes)
           V     == Seq(Seq(G))
           empty == <<>>
           step  == [k \in 1 .. n |-> [v \in V |-> AddBox(v, boxes[k])]]
<1>1. n \in Nat /\ empty \in V /\ \A k \in 1 .. n : boxes[k] \in G
  OBVIOUS
<1>2. ASSUME NEW v \in V, NEW b \in G
      PROVE  AddBox(v, b) \in V
  <2> DEFINE m == Len(v)
  <2>1. CASE v # <<>> /\ Near(Last(v), b)
    <3>1. m \in 1 .. m /\ v[m] \in Seq(G)
      BY <2>1
    <3>2. Append(v[m], b) \in Seq(G)
      BY <3>1
    <3>3. [v EXCEPT ![m] = Append(v[m], b)] \in V
      <4> DEFINE l == Append(v[m], b)
      <4>1. l \in Seq(G)
        BY <3>2
      <4> HIDE DEF l
      <4>2. [v EXCEPT ![m] = l] \in V
        BY <3>1, <4>1
      <4> QED
        BY <4>2 DEF l
    <3> QED
      BY <2>1, <3>3 DEF AddBox
  <2>2. CASE ~(v # <<>> /\ Near(Last(v), b))
    <3>1. <<b>> \in Seq(G)
      OBVIOUS
    <3>2. AddBox(v, b) = Append(v, <<b>>)
      BY <2>2 DEF AddBox
    <3> QED
      BY <3>1, <3>2, AppendIs
  <2> QED
    BY <2>1, <2>2
<1> HIDE DEF V, empty, n
<1>3. step \in [1 .. n -> [V -> V]]
  BY <1>1, <1>2
<1>4. \A k \in 1 .. n, v \in V : step[k][v] = AddBox(v, boxes[k])
  OBVIOUS
<1> HIDE DEF step
<1>5. PICK g : RunsAs(n, V, empty, step, g)
  BY <1>1, <1>3, Recursion DEF IsLoop
<1>6. g \in [0 .. n -> V] /\ g[0] = empty /\ \A k \in 1 .. n : g[k] = step[k][g[k - 1]]
  BY <1>5 DEF RunsAs
<1>7. \A k \in 0 .. n : k = 0 \/ (k \in 1 .. n /\ k - 1 \in 0 .. n /\ k # 0)
  BY <1>1
<1>8. \A k \in 0 .. n : g[k] = IF k = 0 THEN empty ELSE AddBox(g[k - 1], boxes[k])
  BY <1>4, <1>6, <1>7
<1>9. g = [k \in 0 .. n |-> IF k = 0 THEN empty ELSE AddBox(g[k - 1], boxes[k])]
  BY <1>6, <1>8
<1> QED
  BY <1>9 DEF IsBoxLoop, n, empty

LEMMA FromLeftIs ==
  ASSUME NEW G, AreBlocks(G), NEW line \in Seq(G)
  PROVE  Spells(FromLeft(line), Range(line)) /\ Range(line) \subseteq G
<1> DEFINE X   == Range(line)
           key == [b \in X |-> <<b.x0, b.y0 + b.y1>>]
<1>1. X \subseteq G
  BY RangeIs
<1> HIDE DEF X
<1>2. IsFiniteSet(X) /\ \A b \in X : b.x0 \in Int /\ b.y0 \in Int /\ b.y1 \in Int
  BY <1>1, FS_Subset DEF AreBlocks
<1>3. \A b \in X : key[b][1] = b.x0 /\ key[b][2] = b.y0 + b.y1
  OBVIOUS
<1>4. FromLeft(line) = Sorted(X, key)
  BY DEF FromLeft, X
<1> HIDE DEF key
<1>5. IsKey(X, key)
  BY <1>2, <1>3 DEF IsKey
<1>6. Spells(Sorted(X, key), X)
  BY <1>2, <1>5, SortedSpells
<1> QED
  BY <1>1, <1>4, <1>6 DEF X

\* The visual lines of a group have its boxes, each once; a row's end parts them.
LEMMA LineRecordsAre ==
  ASSUME NEW group, AreBlocks(group), \A r \in group : r.y1 = r.y0 + LineHeight
  PROVE  LET records == LineRecords(group) IN
         \E lines : /\ LinesOver(lines, group) /\ Len(records) = Len(lines) /\ Len(lines) \in Nat
                    /\ records \in Seq(Seq(group))
                    /\ \A k \in 1 .. Len(lines) : records[k] # <<>> /\ Spells(records[k], Range(lines[k]))
                    /\ \A t \in Int : RowEnds(group, t) => Sided(lines, t)
<1> DEFINE key   == [b \in group |-> <<b.y0 + b.y1, b.x0>>]
           boxes == Sorted(group, key)
           n     == Len(boxes)
           h     == CHOOSE g : IsBoxLoop(boxes, g)
           lines == h[n]
           first(k) == {boxes[i] : i \in 1 .. k}
           records == LineRecords(group)
<1>1. IsFiniteSet(group) /\ \A b \in group : b.x0 \in Int /\ b.y0 \in Int /\ b.y1 \in Int
  BY DEF AreBlocks
<1>2. \A b \in group : key[b][1] = b.y0 + b.y1 /\ key[b][2] = b.x0
  OBVIOUS
<1>3. LineRecords(group) = [k \in DOMAIN lines |-> FromLeft(lines[k])]
  BY DEF LineRecords, IsBoxLoop
<1> HIDE DEF key
<1>4. IsKey(group, key)
  BY <1>1, <1>2 DEF IsKey
<1>5. Spells(boxes, group)
  BY <1>1, <1>4, SortedSpells
<1>6. \A j, k \in 1 .. n : j < k => ComesFirst(key, boxes[j], boxes[k])
  BY <1>1, <1>4, SortedIs
<1> HIDE DEF boxes
<1>7. /\ boxes \in Seq(group) /\ n \in Nat /\ first(n) = group
      /\ \A i \in 1 .. n : boxes[i] \in group
      /\ \A i, j \in 1 .. n : i # j => boxes[i] # boxes[j]
  <2>1. boxes \in Seq(group) /\ OneByOne(boxes) /\ group \subseteq {boxes[i] : i \in 1 .. Len(boxes)}
    BY <1>5 DEF Spells, Lists
  <2>2. n \in Nat /\ \A i \in 1 .. n : boxes[i] \in group
    BY <2>1
  <2>3. \A i, j \in 1 .. n : i # j => boxes[i] # boxes[j]
    BY <2>1 DEF OneByOne
  <2>4. first(n) = group
    BY <2>1, <2>2
  <2> QED
    BY <2>1, <2>2, <2>3, <2>4
\* The boxes come by their tops.
<1>8. \A j, k \in 1 .. n : j < k => boxes[j].y0 <= boxes[k].y0
  <2>1. LineHeight \in Nat
    BY PageLayoutAssumption
  <2>2. TAKE j \in 1 .. n, k \in 1 .. n
  <2>3. HAVE j < k
  <2> DEFINE a == boxes[j]
             c == boxes[k]
  <2>4. a \in group /\ c \in group /\ ComesFirst(key, a, c)
    BY <1>7, <1>6, <2>3
  <2> HIDE DEF a, c
  <2>5. a.y0 + a.y1 <= c.y0 + c.y1
    BY <1>1, <1>2, <2>4 DEF ComesFirst
  <2>6. /\ a.y0 \in Int /\ c.y0 \in Int
        /\ a.y1 = a.y0 + LineHeight /\ c.y1 = c.y0 + LineHeight
    BY <1>1, <2>4
  <2>7. a.y0 <= c.y0
    BY <2>1, <2>5, <2>6
  <2> QED
    BY <2>7 DEF a, c
<1>9. IsBoxLoop(boxes, h)
  BY <1>7, BoxLoopExists
<1> HIDE DEF h, n
<1>10. h[0] = <<>> /\ \A k \in 1 .. n : h[k] = AddBox(h[k - 1], boxes[k])
  <2>1. 0 \in 0 .. n /\ \A k \in 1 .. n : k \in 0 .. n /\ k # 0
    BY <1>7
  <2>2. h = [k \in 0 .. n |-> IF k = 0 THEN <<>> ELSE AddBox(h[k - 1], boxes[k])]
    BY <1>9 DEF IsBoxLoop, n
  <2> QED
    BY <2>1, <2>2
<1> DEFINE T == {k \in 0 .. n : LinesOver(h[k], first(k))}
<1>11. 0 \in T
  <2>1. first(0) = {} /\ 0 \in 0 .. n
    BY <1>7
  <2> HIDE DEF first
  <2>2. LinesOver(<<>>, {})
    <3>1. <<>> \in Seq(Seq({})) /\ \A i : i \notin 1 .. Len(<<>>)
      OBVIOUS
    <3> QED
      BY <3>1 DEF LinesOver
  <2> QED
    BY <1>10, <2>1, <2>2
<1>12. ASSUME NEW k \in 0 .. n - 1, k \in T
       PROVE  k + 1 \in T
  <2>1. k + 1 \in 1 .. n /\ k + 1 \in 0 .. n /\ (k + 1) - 1 = k /\ k \in Nat
    BY <1>7
  <2>2. \A i : i \in 1 .. k + 1 <=> i \in 1 .. k \/ i = k + 1
    BY <2>1
  <2>3. first(k + 1) = first(k) \cup {boxes[k + 1]}
    BY <2>2
  <2>4. \A i \in 1 .. k : i \in 1 .. n /\ i # k + 1
    BY <1>7, <2>1
  <2>5. boxes[k + 1] \notin first(k)
    BY <1>7, <2>1, <2>4
  <2> DEFINE X == first(k)
             b == boxes[k + 1]
             v == h[k]
  <2>6. LinesOver(v, X) /\ b \notin X
    BY <1>12, <2>5
  <2>7. h[k + 1] = AddBox(v, b)
    BY <1>10, <2>1
  <2> HIDE DEF X, b, v
  <2>8. LinesOver(AddBox(v, b), X \cup {b})
    BY <2>6, AddBoxIs
  <2>9. X \cup {b} = first(k + 1)
    BY <2>3 DEF X, b
  <2> QED
    BY <2>1, <2>7, <2>8, <2>9
<1> HIDE DEF T
<1>13. \A k \in 0 .. n : k \in T
  BY <1>7, <1>11, <1>12, UpTo
<1>14. \A k \in 0 .. n : LinesOver(h[k], first(k))
  BY <1>13 DEF T
<1>15. ASSUME NEW t \in Int, RowEnds(group, t)
       PROVE  Sided(lines, t)
  <2> DEFINE P == {k \in 0 .. n : Sided(h[k], t)}
  <2>1. 0 \in P
    <3>1. \A i : i \notin 1 .. Len(<<>>)
      OBVIOUS
    <3>2. Sided(<<>>, t)
      BY <3>1 DEF Sided
    <3> QED
      BY <1>7, <1>10, <3>2
  <2>2. ASSUME NEW k \in 0 .. n - 1, k \in P
        PROVE  k + 1 \in P
    <3>1. k + 1 \in 1 .. n /\ k + 1 \in 0 .. n /\ (k + 1) - 1 = k /\ k \in 0 .. n
      BY <1>7
    <3> DEFINE X == first(k)
               b == boxes[k + 1]
               v == h[k]
    <3>2. LinesOver(v, X) /\ Sided(v, t)
      BY <1>14, <2>2, <3>1
    <3>3. \A x \in X : x \in group /\ x.y0 <= b.y0
      <4>1. TAKE x \in X
      <4>2. PICK i \in 1 .. k : x = boxes[i]
        OBVIOUS
      <4>3. i \in 1 .. n /\ i < k + 1
        BY <1>7, <3>1
      <4> QED
        BY <1>7, <1>8, <3>1, <4>2, <4>3
    <3>4. b \in group
      BY <1>7, <3>1
    <3>5. h[k + 1] = AddBox(v, b)
      BY <1>10, <3>1
    <3> HIDE DEF X, b, v
    <3>6. \A x \in X : x.y0 \in Int /\ x.y1 = x.y0 + LineHeight /\ x.y0 <= b.y0
      BY <1>1, <3>3
    <3>7. b.y0 \in Int /\ b.y1 = b.y0 + LineHeight
      BY <1>1, <3>4
    <3>8. b.y0 <= t \/ 2 * (b.y0 - t) >= LineHeight
      BY <1>15, <3>4 DEF RowEnds
    <3>9. Sided(AddBox(v, b), t)
      BY <3>2, <3>6, <3>7, <3>8, AddBoxSided
    <3> QED
      BY <3>1, <3>5, <3>9
  <2> HIDE DEF P
  <2>3. \A k \in 0 .. n : k \in P
    BY <1>7, <2>1, <2>2, UpTo
  <2> QED
    BY <1>7, <2>3 DEF P
<1> HIDE DEF first
<1>16. LinesOver(lines, group)
  <2>1. n \in 0 .. n
    BY <1>7
  <2>2. LinesOver(h[n], first(n))
    BY <1>14, <2>1
  <2> QED
    BY <1>7, <2>2
<1> HIDE DEF lines, records
<1> DEFINE m == Len(lines)
<1>17. /\ lines \in Seq(Seq(group)) /\ m \in Nat /\ DOMAIN lines = 1 .. m
       /\ \A k \in 1 .. m : lines[k] # <<>> /\ lines[k] \in Seq(group)
  <2>1. lines \in Seq(Seq(group)) /\ \A k \in 1 .. m : lines[k] # <<>>
    BY <1>16 DEF LinesOver
  <2> QED
    BY <2>1
<1> HIDE DEF m
<1>18. ASSUME NEW k \in 1 .. m
       PROVE  /\ Spells(FromLeft(lines[k]), Range(lines[k])) /\ FromLeft(lines[k]) # <<>>
              /\ FromLeft(lines[k]) \in Seq(group)
  <2> DEFINE l == lines[k]
             r == FromLeft(l)
  <2>1. l \in Seq(group) /\ l # <<>>
    BY <1>17
  <2> HIDE DEF l
  <2>2. Spells(r, Range(l)) /\ Range(l) \subseteq group
    BY <2>1, FromLeftIs
  <2>3. l[1] \in Range(l)
    <3>1. 1 \in 1 .. Len(l)
      BY <2>1
    <3>2. Range(l) = {l[i] : i \in 1 .. Len(l)}
      BY <2>1, RangeIs
    <3> QED
      BY <3>1, <3>2
  <2> HIDE DEF r
  <2>4. r # <<>>
    <3>1. PICK i \in 1 .. Len(r) : TRUE
      BY <2>2, <2>3 DEF Spells
    <3>2. Len(r) # 0
      BY <3>1
    <3> QED
      BY <3>2
  <2>5. r \in Seq(group)
    <3>1. r \in Seq(Range(l))
      BY <2>2 DEF Spells, Lists
    <3> QED
      BY <2>2, <3>1
  <2> QED
    BY <2>2, <2>4, <2>5 DEF r, l
<1>19. records = [k \in 1 .. m |-> FromLeft(lines[k])]
  BY <1>3, <1>17 DEF records
<1>20. records \in Seq(Seq(group)) /\ Len(records) = m
  <2> DEFINE Z == Seq(group)
  <2>1. records \in [1 .. m -> Z]
    BY <1>18, <1>19
  <2> HIDE DEF Z
  <2>2. records \in Seq(Z) /\ Len(records) = m
    BY <1>17, <2>1, SeqFrom
  <2> QED
    BY <2>2 DEF Z
<1>21. \A k \in 1 .. m : records[k] # <<>> /\ Spells(records[k], Range(lines[k]))
  BY <1>18, <1>19
<1> QED
  BY <1>16, <1>17, <1>20, <1>21, <1>15 DEF records, m

\* What the loop of GroupMarkdown holds: no lone bullets.
ScanAcc(acc, I) ==
  /\ acc = [out |-> acc.out, paragraph |-> acc.paragraph]
  /\ FinalParts(acc.out, I) /\ acc.paragraph \in Seq(I)

LEMMA ScanFlush ==
  ASSUME NEW I, NEW acc, ScanAcc(acc, I)
  PROVE  FinalParts(Flushed(acc), I) /\ Reads(Flushed(acc)) = SaidBy(acc) /\ Reads(acc.out) \in Seq(I)
<1> DEFINE out == acc.out
           par == acc.paragraph
           p   == Part("paragraph", 0, par)
<1>1. FinalParts(out, I) /\ par \in Seq(I) /\ out \in Seq(PartsOver(I))
  BY DEF ScanAcc, FinalParts
<1>2. Flushed(acc) = IF par = <<>> THEN out ELSE Append(out, p)
  BY DEF Flushed
<1>3. SaidBy(acc) = Reads(out) \o par
  BY DEF SaidBy
<1> HIDE DEF out, par
<1>4. Reads(out) \in Seq(I)
  BY <1>1, IdsAre
<1>5. CASE par = <<>>
  <2>1. Reads(out) \o par = Reads(out)
    BY <1>4, <1>5, ConcatAssociates
  <2> QED
    BY <1>1, <1>2, <1>3, <1>4, <1>5, <2>1 DEF out
<1>6. CASE par # <<>>
  <2>1. p \in PartsOver(I) /\ p.kind = "paragraph" /\ p.ids = par
    BY <1>1 DEF Part, PartsOver, PartKinds
  <2>2. GoodPart(p) /\ p.ids # <<>>
    BY <1>6, <2>1 DEF GoodPart
  <2> HIDE DEF p
  <2>3. FinalParts(Append(out, p), I) /\ Reads(Append(out, p)) = Reads(out) \o p.ids
    BY <1>1, <2>1, <2>2, MergeStepIs
  <2> QED
    BY <1>2, <1>3, <1>4, <1>6, <2>1, <2>3 DEF out
<1> QED
  BY <1>5, <1>6

LEMMA ScanOpened ==
  ASSUME NEW I, NEW acc, ScanAcc(acc, I), NEW p \in PartsOver(I), GoodPart(p), p.ids # <<>>
  PROVE  ScanAcc(Opened(acc, p), I) /\ SaidBy(Opened(acc, p)) = SaidBy(acc) \o p.ids
<1> DEFINE f == Flushed(acc)
           a == Opened(acc, p)
           w == Append(f, p)
<1>1. FinalParts(f, I) /\ Reads(f) = SaidBy(acc)
  BY ScanFlush
<1>2. a = [out |-> w, paragraph |-> <<>>] /\ a.out = w /\ a.paragraph = <<>>
  BY DEF Opened
<1>3. <<>> \in Seq(I)
  OBVIOUS
<1> HIDE DEF f, a
<1>4. FinalParts(w, I) /\ Reads(w) = Reads(f) \o p.ids
  BY <1>1, MergeStepIs
<1>5. Reads(w) \in Seq(I)
  BY <1>4, IdsAre DEF FinalParts
<1> HIDE DEF w
<1>6. ScanAcc(a, I)
  BY <1>2, <1>3, <1>4 DEF ScanAcc
<1>7. SaidBy(a) = Reads(w)
  <2>1. Reads(w) \o <<>> = Reads(w)
    BY <1>3, <1>5, ConcatAssociates
  <2> QED
    BY <1>2, <2>1 DEF SaidBy
<1> QED
  BY <1>1, <1>4, <1>6, <1>7 DEF a

LEMMA AddRecordIs ==
  ASSUME NEW I, NEW acc, ScanAcc(acc, I), NEW ids \in Seq(I), ids # <<>>, AreLines(I)
  PROVE  ScanAcc(AddRecord(acc, ids), I) /\ SaidBy(AddRecord(acc, ids)) = SaidBy(acc) \o ids
<1> DEFINE line == Line(ids[1])
           h    == Part("heading", line.level, ids)
           l    == Part("list", 0, ids)
<1>1. ids[1] \in I
  OBVIOUS
<1>2. line.level \in 0 .. 6 /\ line.kind \in {"item", "bullet", "prose"}
  BY <1>1 DEF AreLines, IsLine
<1>3. CASE line.level > 0
  <2>1. h \in PartsOver(I) /\ h.kind = "heading" /\ h.level = line.level /\ h.ids = ids
    BY <1>2, PartIs DEF PartKinds
  <2>2. GoodPart(h)
    BY <1>3, <2>1 DEF GoodPart
  <2>3. AddRecord(acc, ids) = Opened(acc, h)
    BY <1>3 DEF AddRecord
  <2> HIDE DEF h
  <2>4. ScanAcc(Opened(acc, h), I) /\ SaidBy(Opened(acc, h)) = SaidBy(acc) \o h.ids
    BY <2>1, <2>2, ScanOpened
  <2> QED
    BY <2>1, <2>3, <2>4
<1>4. CASE line.level = 0 /\ line.kind = "item"
  <2>1. l \in PartsOver(I) /\ l.kind = "list" /\ l.ids = ids
    BY DEF Part, PartsOver, PartKinds
  <2>2. GoodPart(l)
    BY <2>1 DEF GoodPart
  <2>3. AddRecord(acc, ids) = Opened(acc, l)
    BY <1>4 DEF AddRecord
  <2> HIDE DEF l
  <2>4. ScanAcc(Opened(acc, l), I) /\ SaidBy(Opened(acc, l)) = SaidBy(acc) \o l.ids
    BY <2>1, <2>2, ScanOpened
  <2> QED
    BY <2>1, <2>3, <2>4
<1>5. CASE ~(line.level > 0) /\ ~(line.level = 0 /\ line.kind = "item")
  <2> DEFINE out == acc.out
             par == acc.paragraph
             a   == [acc EXCEPT !.paragraph = @ \o ids]
  <2>1. AddRecord(acc, ids) = a
    BY <1>5 DEF AddRecord
  <2>2. FinalParts(out, I) /\ par \in Seq(I) /\ acc = [out |-> out, paragraph |-> par] /\ Reads(out) \in Seq(I)
    BY ScanFlush DEF ScanAcc
  <2>3. a = [out |-> out, paragraph |-> par \o ids] /\ a.out = out /\ a.paragraph = par \o ids
    <3> DEFINE q == par \o ids
    <3>1. a = [acc EXCEPT !.paragraph = q]
      OBVIOUS
    <3> HIDE DEF q, out, par, a
    <3>2. acc \in [out : {out}, paragraph : {par}]
      BY <2>2
    <3>3. [acc EXCEPT !.paragraph = q] = [out |-> out, paragraph |-> q]
      BY <3>2
    <3> QED
      BY <3>1, <3>3 DEF q
  <2> HIDE DEF out, par
  <2>4. par \o ids \in Seq(I)
    BY <2>2
  <2> HIDE DEF a
  <2>5. ScanAcc(a, I)
    BY <2>2, <2>3, <2>4 DEF ScanAcc
  <2>6. SaidBy(a) = (Reads(out) \o par) \o ids
    <3>1. (Reads(out) \o par) \o ids = Reads(out) \o (par \o ids)
      BY <2>2, ConcatAssociates
    <3> QED
      BY <2>3, <3>1 DEF SaidBy
  <2>7. SaidBy(acc) = Reads(out) \o par
    BY DEF SaidBy, out, par
  <2> QED
    BY <2>1, <2>5, <2>6, <2>7
<1> QED
  BY <1>2, <1>3, <1>4, <1>5

\* The parts that rs, one after the other, make.
IsScanLoop(ids, g) ==
  g = [k \in 0 .. Len(ids) |-> IF k = 0 THEN Start ELSE AddRecord(g[k - 1], ids[k])]

LEMMA ScanLoopIs ==
  ASSUME NEW I, AreLines(I), NEW rs, Len(rs) \in Nat, \A k \in 1 .. Len(rs) : rs[k] \in Seq(I) /\ rs[k] # <<>>
  PROVE  \E g : IsScanLoop(rs, g)
<1> DEFINE n    == Len(rs)
           V    == {acc \in [out : Seq(PartsOver(I)), paragraph : Seq(I)] : ScanAcc(acc, I)}
           step == [k \in 1 .. n |-> [v \in V |-> AddRecord(v, rs[k])]]
<1>1. n \in Nat
  OBVIOUS
<1>2. \A acc : ScanAcc(acc, I) => acc \in V
  BY DEF ScanAcc, FinalParts
<1>3. Start \in V
  <2>1. ScanAcc(Start, I)
    <3>1. Start = [out |-> <<>>, paragraph |-> <<>>] /\ <<>> \in Seq(I)
      BY DEF Start
    <3>2. FinalParts(<<>>, I)
      BY FinalNone
    <3> QED
      BY <3>1, <3>2 DEF ScanAcc
  <2> QED
    BY <1>2, <2>1
<1>4. \A v \in V : ScanAcc(v, I)
  OBVIOUS
<1> HIDE DEF V
<1>5. ASSUME NEW k \in 1 .. n, NEW v \in V
      PROVE  AddRecord(v, rs[k]) \in V
  BY <1>2, <1>4, AddRecordIs
<1> HIDE DEF n
<1>6. step \in [1 .. n -> [V -> V]]
  BY <1>5
<1>7. \A k \in 1 .. n, v \in V : step[k][v] = AddRecord(v, rs[k])
  OBVIOUS
<1> HIDE DEF step
<1>8. PICK g : RunsAs(n, V, Start, step, g)
  BY <1>1, <1>3, <1>6, Recursion DEF IsLoop
<1>9. g \in [0 .. n -> V] /\ g[0] = Start /\ \A k \in 1 .. n : g[k] = step[k][g[k - 1]]
  BY <1>8 DEF RunsAs
<1>10. \A k \in 0 .. n : k = 0 \/ (k \in 1 .. n /\ k - 1 \in 0 .. n /\ k # 0)
  BY <1>1
<1>11. \A k \in 0 .. n : g[k] = IF k = 0 THEN Start ELSE AddRecord(g[k - 1], rs[k])
  BY <1>7, <1>9, <1>10
<1>12. g = [k \in 0 .. n |-> IF k = 0 THEN Start ELSE AddRecord(g[k - 1], rs[k])]
  BY <1>9, <1>11
<1> QED
  BY <1>12 DEF IsScanLoop, n

LEMMA ScanLoopReads ==
  ASSUME NEW I, AreLines(I), NEW rs \in Seq(Seq(I)), \A k \in 1 .. Len(rs) : rs[k] # <<>>,
         NEW h, IsScanLoop(rs, h)
  PROVE  FinalParts(Flushed(h[Len(rs)]), I) /\ Reads(Flushed(h[Len(rs)])) = FlattenSeq(rs)
<1> DEFINE n == Len(rs)
<1>1. n \in Nat /\ \A k \in 1 .. n : rs[k] \in Seq(I) /\ rs[k] # <<>>
  OBVIOUS
<1>2. PICK so \in [0 .. Len(rs) -> Seq(I)] :
        /\ so[0] = <<>> /\ so[Len(rs)] = FlattenSeq(rs)
        /\ \A k \in 1 .. Len(rs) : so[k] = so[k - 1] \o rs[k]
  BY FlatSteps
<1>3. h[0] = Start /\ \A k \in 1 .. n : h[k] = AddRecord(h[k - 1], rs[k])
  <2>1. 0 \in 0 .. n /\ \A k \in 1 .. n : k \in 0 .. n /\ k # 0
    BY <1>1
  <2>2. h = [k \in 0 .. n |-> IF k = 0 THEN Start ELSE AddRecord(h[k - 1], rs[k])]
    BY DEF IsScanLoop
  <2> HIDE DEF n
  <2> QED
    BY <2>1, <2>2
<1>4. so[n] = FlattenSeq(rs) /\ \A k \in 1 .. n : so[k] = so[k - 1] \o rs[k]
  BY <1>2
<1> HIDE DEF n
<1> DEFINE T == {k \in 0 .. n : ScanAcc(h[k], I) /\ SaidBy(h[k]) = so[k]}
<1>5. 0 \in T
  <2>1. Start = [out |-> <<>>, paragraph |-> <<>>] /\ <<>> \in Seq(I)
    BY DEF Start
  <2>2. FinalParts(<<>>, I)
    BY FinalNone
  <2>3. ScanAcc(Start, I)
    BY <2>1, <2>2 DEF ScanAcc
  <2>4. SaidBy(Start) = <<>>
    BY StartIs
  <2> QED
    BY <1>1, <1>2, <1>3, <2>3, <2>4
<1>6. ASSUME NEW k \in 0 .. n - 1, k \in T
      PROVE  k + 1 \in T
  <2>1. k + 1 \in 1 .. n /\ k + 1 \in 0 .. n /\ (k + 1) - 1 = k
    BY <1>1
  <2> DEFINE v == h[k]
             r == rs[k + 1]
  <2>2. ScanAcc(v, I) /\ SaidBy(v) = so[k] /\ r \in Seq(I) /\ r # <<>>
    BY <1>1, <1>6, <2>1
  <2>3. h[k + 1] = AddRecord(v, r) /\ so[k + 1] = so[k] \o r
    BY <1>3, <1>4, <2>1
  <2> HIDE DEF v, r
  <2>4. ScanAcc(AddRecord(v, r), I) /\ SaidBy(AddRecord(v, r)) = SaidBy(v) \o r
    BY <2>2, AddRecordIs
  <2> QED
    BY <2>1, <2>2, <2>3, <2>4
<1> HIDE DEF T
<1>7. n \in T
  <2>1. \A k \in 0 .. n : k \in T
    BY <1>1, <1>5, <1>6, UpTo
  <2> QED
    BY <1>1, <2>1
<1>8. ScanAcc(h[n], I) /\ SaidBy(h[n]) = FlattenSeq(rs)
  BY <1>4, <1>7 DEF T
<1> QED
  BY <1>8, ScanFlush DEF n

\* Boxes as records for the cut; each has the name of its line.
AreNamed(S, I) == /\ AreBlocks(S)
                  /\ \A r \in S : r.id \in I /\ r.y1 = r.y0 + LineHeight
                  /\ \A r, q \in S : r.id = q.id => r = q

NamesOf(S) == {r.id : r \in S}

LEMMA NamesSpell ==
  ASSUME NEW S, NEW I, AreNamed(S, I), NEW s, NEW X \in SUBSET S, Spells(s, X), s \in Seq(S)
  PROVE  LET names == [n \in DOMAIN s |-> s[n].id] IN
         names \in Seq(I) /\ Len(names) = Len(s) /\ Spells(names, NamesOf(X))
<1> DEFINE n     == Len(s)
           names == [k \in DOMAIN s |-> s[k].id]
<1>1. /\ n \in Nat /\ DOMAIN s = 1 .. n /\ (\A k \in 1 .. n : s[k] \in S)
      /\ s \in Seq(X) /\ X \subseteq {s[k] : k \in 1 .. n}
      /\ \A j, k \in 1 .. n : j # k => s[j] # s[k]
  <2>1. s \in Seq(X) /\ OneByOne(s) /\ X \subseteq {s[k] : k \in 1 .. n}
    BY DEF Spells, Lists
  <2>2. \A j, k \in 1 .. n : j # k => s[j] # s[k]
    BY <2>1 DEF OneByOne
  <2>3. n \in Nat /\ DOMAIN s = 1 .. n /\ \A k \in 1 .. n : s[k] \in S
    OBVIOUS
  <2> QED
    BY <2>1, <2>2, <2>3
<1>2. \A k \in 1 .. n : s[k] \in X
  BY <1>1
<1>3. names = [k \in 1 .. n |-> s[k].id]
  BY <1>1
<1> HIDE DEF n, names
<1>4. \A k \in 1 .. n : names[k] = s[k].id /\ s[k].id \in I /\ s[k].id \in NamesOf(X)
  BY <1>1, <1>2, <1>3 DEF AreNamed, NamesOf
<1>5. names \in [1 .. n -> I] /\ names \in [1 .. n -> NamesOf(X)]
  BY <1>3, <1>4
<1>6. names \in Seq(I) /\ Len(names) = n /\ names \in Seq(NamesOf(X))
  BY <1>1, <1>5, SeqFrom
<1>7. \A j, k \in 1 .. n : j # k => names[j] # names[k]
  BY <1>1, <1>4 DEF AreNamed
<1>8. NamesOf(X) \subseteq {names[k] : k \in 1 .. n}
  BY <1>1, <1>4 DEF NamesOf
<1> QED
  BY <1>6, <1>7, <1>8 DEF Spells, Lists, OneByOne, names, n

\* Where a row ends between a box and one that must come after it, a group keeps their order.
Rowed(S, R) == \A r, q \in S : <<r.id, q.id>> \in R =>
                 \E t \in Int : RowEnds(S, t) /\ r.y0 <= t /\ ~(q.y0 <= t)

LEMMA GroupMarkdownIs ==
  ASSUME NEW S, NEW I, AreLines(I), AreNamed(S, I), NEW R, Rowed(S, R), NEW group \in SUBSET S
  PROVE  /\ FinalParts(GroupMarkdown(group), I)
         /\ Spells(Reads(GroupMarkdown(group)), NamesOf(group))
         /\ KeepsOrder(Reads(GroupMarkdown(group)), R)
<1> DEFINE records  == LineRecords(group)
           m        == Len(records)
           names(k) == [n \in DOMAIN records[k] |-> records[k][n].id]
           rs       == [k \in 1 .. m |-> names(k)]
           Loop(g)  == g = [k \in 0 .. m |-> IF k = 0 THEN Start ELSE AddRecord(g[k - 1], names(k))]
           h        == CHOOSE g : Loop(g)
<1>1. AreBlocks(group) /\ \A r \in group : r.y1 = r.y0 + LineHeight
  BY FS_Subset DEF AreNamed, AreBlocks
<1>2. PICK lines : /\ LinesOver(lines, group) /\ m = Len(lines) /\ Len(lines) \in Nat
                   /\ records \in Seq(Seq(group))
                   /\ \A k \in 1 .. Len(lines) : records[k] # <<>> /\ Spells(records[k], Range(lines[k]))
                   /\ \A t \in Int : RowEnds(group, t) => Sided(lines, t)
  BY <1>1, LineRecordsAre
<1>3. GroupMarkdown(group) = Flushed(h[m])
  BY DEF GroupMarkdown
<1> HIDE DEF records
<1>4. m \in Nat /\ \A k \in 1 .. m : records[k] \in Seq(group) /\ records[k] # <<>>
  BY <1>2
<1>5. \A k \in 1 .. m : Spells(records[k], Range(lines[k])) /\ Range(lines[k]) \subseteq group
  <2>1. lines \in Seq(Seq(group))
    BY <1>2 DEF LinesOver
  <2>2. \A k \in 1 .. m : lines[k] \in Seq(group)
    BY <1>2, <2>1
  <2> QED
    BY <1>2, <2>2, RangeIs
<1>6. ASSUME NEW k \in 1 .. m
      PROVE  /\ names(k) \in Seq(I) /\ names(k) # <<>> /\ Spells(names(k), NamesOf(Range(lines[k])))
  <2> DEFINE s == records[k]
             X == Range(lines[k])
             w == [n \in DOMAIN s |-> s[n].id]
  <2>1. s \in Seq(S) /\ Spells(s, X) /\ X \in SUBSET S /\ s # <<>>
    <3>1. s \in Seq(group)
      BY <1>4
    <3> QED
      BY <1>4, <1>5, <3>1
  <2> HIDE DEF s, X
  <2>2. w \in Seq(I) /\ Len(w) = Len(s) /\ Spells(w, NamesOf(X))
    BY <2>1, NamesSpell
  <2>3. Len(s) # 0
    BY <2>1
  <2> HIDE DEF w
  <2>4. w # <<>>
    BY <2>2, <2>3
  <2> QED
    BY <2>2, <2>4 DEF w, s, X
<1> HIDE DEF names, m
<1>7. \A k \in 1 .. m : rs[k] = names(k)
  OBVIOUS
<1>8. rs \in Seq(Seq(I)) /\ Len(rs) = m
  <2> DEFINE Z == Seq(I)
  <2>1. rs \in [1 .. m -> Z]
    BY <1>6
  <2> HIDE DEF Z, rs
  <2>2. rs \in Seq(Z) /\ Len(rs) = m
    BY <1>4, <2>1, SeqFrom
  <2> QED
    BY <2>2 DEF Z
<1> HIDE DEF rs
<1>9. \A k \in 1 .. Len(rs) : rs[k] \in Seq(I) /\ rs[k] # <<>>
  BY <1>6, <1>7, <1>8
<1>10. \A g : Loop(g) <=> IsScanLoop(rs, g)
  <2>1. \A k \in 0 .. m : k = 0 \/ rs[k] = names(k)
    <3>1. \A k \in 0 .. m : k = 0 \/ k \in 1 .. m
      BY <1>4
    <3> QED
      BY <1>7, <3>1
  <2>2. \A g : [k \in 0 .. m |-> IF k = 0 THEN Start ELSE AddRecord(g[k - 1], names(k))]
                 = [k \in 0 .. m |-> IF k = 0 THEN Start ELSE AddRecord(g[k - 1], rs[k])]
    BY <2>1
  <2> QED
    BY <1>8, <2>2 DEF IsScanLoop
<1>11. \E g : Loop(g)
  <2>1. \E g : IsScanLoop(rs, g)
    BY <1>4, <1>8, <1>9, ScanLoopIs
  <2> QED
    BY <1>10, <2>1
<1>12. Loop(h)
  BY <1>11
<1> HIDE DEF Loop, h
<1>13. IsScanLoop(rs, h)
  BY <1>10, <1>12
<1>14. FinalParts(Flushed(h[Len(rs)]), I) /\ Reads(Flushed(h[Len(rs)])) = FlattenSeq(rs)
  BY <1>8, <1>9, <1>13, ScanLoopReads
<1> DEFINE U == [k \in 1 .. m |-> NamesOf(Range(lines[k]))]
<1>15. \A k \in 1 .. m : U[k] = NamesOf(Range(lines[k]))
  OBVIOUS
<1> HIDE DEF U
\* In no line, and in no line before it, is what must come after.
<1>16. ASSUME NEW i \in 1 .. m, NEW j \in 1 .. m, i <= j, NEW u \in U[j], NEW v \in U[i], <<u, v>> \in R
       PROVE  FALSE
  <2>1. PICK r \in Range(lines[j]) : u = r.id
    BY <1>15 DEF NamesOf
  <2>2. PICK q \in Range(lines[i]) : v = q.id
    BY <1>15 DEF NamesOf
  <2>3. r \in S /\ q \in S
    BY <1>5, <2>1, <2>2
  <2>4. PICK t \in Int : RowEnds(S, t) /\ r.y0 <= t /\ ~(q.y0 <= t)
    BY <1>16, <2>1, <2>2, <2>3 DEF Rowed
  <2>5. Sided(lines, t)
    <3>1. RowEnds(group, t)
      BY <2>4 DEF RowEnds
    <3> QED
      BY <1>2, <3>1
  <2>6. i \in 1 .. Len(lines) /\ j \in 1 .. Len(lines)
    BY <1>2
  <2> QED
    BY <1>16, <2>1, <2>2, <2>4, <2>5, <2>6 DEF Sided
<1>17. \A k \in 1 .. Len(rs) : Spells(rs[k], U[k]) /\ KeepsOrder(rs[k], R)
  <2>1. TAKE k \in 1 .. Len(rs)
  <2>2. k \in 1 .. m /\ k <= k
    BY <1>4, <1>8
  <2>3. Spells(rs[k], U[k])
    BY <1>6, <1>7, <1>15, <2>2
  <2> DEFINE s == rs[k]
  <2>4. s \in Seq(U[k])
    BY <2>3 DEF Spells, Lists
  <2>5. \A u, v \in U[k] : <<u, v>> \notin R
    BY <1>16, <2>2
  <2> HIDE DEF s
  <2>6. \A i \in 1 .. Len(s) : s[i] \in U[k]
    BY <2>4
  <2>7. KeepsOrder(s, R)
    BY <2>5, <2>6 DEF KeepsOrder
  <2> QED
    BY <2>3, <2>7 DEF s
<1>18. \A i, j \in 1 .. m : i # j => U[i] \cap U[j] = {}
  <2>1. \A i, j \in 1 .. m : i # j => Range(lines[i]) \cap Range(lines[j]) = {}
    BY <1>2 DEF LinesOver
  <2>2. ASSUME NEW i \in 1 .. m, NEW j \in 1 .. m, i # j, NEW x, x \in U[i], x \in U[j]
        PROVE  FALSE
    <3>1. PICK r \in Range(lines[i]) : x = r.id
      BY <1>15, <2>2 DEF NamesOf
    <3>2. PICK q \in Range(lines[j]) : x = q.id
      BY <1>15, <2>2 DEF NamesOf
    <3>3. r \in S /\ q \in S
      BY <1>5, <3>1, <3>2
    <3>4. r = q
      BY <3>1, <3>2, <3>3 DEF AreNamed
    <3> QED
      BY <2>1, <2>2, <3>1, <3>2, <3>4
  <2> QED
    BY <2>2
<1>19. UNION {U[k] : k \in 1 .. Len(rs)} = NamesOf(group)
  <2>1. \A x \in group : \E i \in 1 .. m : x \in Range(lines[i])
    BY <1>2 DEF LinesOver
  <2>2. ASSUME NEW k \in 1 .. m, NEW x \in U[k]
        PROVE  x \in NamesOf(group)
    BY <1>5, <1>15 DEF NamesOf
  <2>3. ASSUME NEW x \in NamesOf(group)
        PROVE  \E k \in 1 .. m : x \in U[k]
    <3>1. PICK r \in group : x = r.id
      BY DEF NamesOf
    <3>2. PICK k \in 1 .. m : r \in Range(lines[k])
      BY <2>1
    <3> QED
      BY <1>15, <3>1, <3>2 DEF NamesOf
  <2> QED
    BY <1>8, <2>2, <2>3
<1>20. /\ Spells(FlattenSeq(rs), UNION {U[i] : i \in 1 .. Len(rs)})
       /\ KeepsOrder(FlattenSeq(rs), R)
  <2>1. /\ \A i, j \in 1 .. Len(rs) : i # j => U[i] \cap U[j] = {}
        /\ \A i, j \in 1 .. Len(rs) : i < j => \A a \in U[j], b \in U[i] : <<a, b>> \notin R
    <3>1. ASSUME NEW i \in 1 .. m, NEW j \in 1 .. m, i < j, NEW u \in U[j], NEW v \in U[i]
          PROVE  <<u, v>> \notin R
      <4>1. i <= j
        BY <1>4, <3>1
      <4> QED
        BY <1>16, <4>1
    <3> QED
      BY <1>8, <1>18, <3>1
  <2> QED
    BY ONLY <1>8, <1>17, <2>1, FlattenSpells
<1> QED
  BY <1>3, <1>8, <1>14, <1>19, <1>20

\* Parts one after the other.
LEMMA FlattenFinal ==
  ASSUME NEW I, NEW pp \in Seq(Seq(PartsOver(I))), \A k \in 1 .. Len(pp) : FinalParts(pp[k], I)
  PROVE  LET rr == [k \in 1 .. Len(pp) |-> Reads(pp[k])] IN
         /\ FinalParts(FlattenSeq(pp), I)
         /\ rr \in Seq(Seq(I)) /\ Len(rr) = Len(pp) /\ Reads(FlattenSeq(pp)) = FlattenSeq(rr)
<1> DEFINE P  == PartsOver(I)
           n  == Len(pp)
           rr == [k \in 1 .. n |-> Reads(pp[k])]
<1>1. n \in Nat /\ \A k \in 1 .. n : FinalParts(pp[k], I) /\ pp[k] \in Seq(P)
  OBVIOUS
<1>2. \A k \in 1 .. n : Reads(pp[k]) \in Seq(I)
  BY <1>1, IdsAre
<1>3. PICK so \in [0 .. Len(pp) -> Seq(P)] :
        /\ so[0] = <<>> /\ so[Len(pp)] = FlattenSeq(pp)
        /\ \A k \in 1 .. Len(pp) : so[k] = so[k - 1] \o pp[k]
  BY FlatSteps
<1>4. so[n] = FlattenSeq(pp) /\ \A k \in 1 .. n : so[k] = so[k - 1] \o pp[k]
  BY <1>3
<1> HIDE DEF n
<1>5. rr \in Seq(Seq(I)) /\ Len(rr) = n
  <2> DEFINE Z == Seq(I)
  <2>1. rr \in [1 .. n -> Z]
    BY <1>2
  <2> HIDE DEF Z, rr
  <2>2. rr \in Seq(Z) /\ Len(rr) = n
    BY <1>1, <2>1, SeqFrom
  <2> QED
    BY <2>2 DEF Z
<1>6. \A k \in 1 .. n : rr[k] = Reads(pp[k])
  OBVIOUS
<1> HIDE DEF rr
<1>7. PICK ro \in [0 .. Len(rr) -> Seq(I)] :
        /\ ro[0] = <<>> /\ ro[Len(rr)] = FlattenSeq(rr)
        /\ \A k \in 1 .. Len(rr) : ro[k] = ro[k - 1] \o rr[k]
  BY <1>5, FlatSteps
<1> DEFINE T == {k \in 0 .. n : FinalParts(so[k], I) /\ Reads(so[k]) = ro[k]}
<1>8. 0 \in T
  BY <1>1, <1>3, <1>7, FinalNone, ReadsNothing
<1>9. ASSUME NEW k \in 0 .. n - 1, k \in T
      PROVE  k + 1 \in T
  <2>1. k + 1 \in 1 .. n /\ k + 1 \in 0 .. n /\ (k + 1) - 1 = k
    BY <1>1
  <2> DEFINE v == so[k]
             p == pp[k + 1]
             w == v \o p
  <2>2. FinalParts(v, I) /\ Reads(v) = ro[k] /\ FinalParts(p, I)
    BY <1>1, <1>9, <2>1
  <2>3. so[k + 1] = w /\ ro[k + 1] = ro[k] \o Reads(p)
    BY <1>4, <1>5, <1>6, <1>7, <2>1
  <2> HIDE DEF v, p
  <2>4. /\ v \in Seq(P) /\ p \in Seq(P) /\ Len(v) \in Nat /\ Len(p) \in Nat
        /\ \A i \in 1 .. Len(v) : v[i].ids # <<>> /\ GoodPart(v[i])
        /\ \A i \in 1 .. Len(p) : p[i].ids # <<>> /\ GoodPart(p[i])
    BY <2>2 DEF FinalParts
  <2>5. Reads(w) = Reads(v) \o Reads(p)
    BY <2>4, ReadsJoin
  <2>6. /\ w \in Seq(P) /\ Len(w) = Len(v) + Len(p) /\ (\A i \in 1 .. Len(v) : w[i] = v[i])
        /\ \A i \in 1 .. Len(p) : w[Len(v) + i] = p[i]
    BY <2>4, ConcatIs
  <2> HIDE DEF w, P
  <2>7. ASSUME NEW i \in 1 .. Len(v) + Len(p)
        PROVE  w[i].ids # <<>> /\ GoodPart(w[i])
    <3>1. CASE i \in 1 .. Len(v)
      BY <2>4, <2>6, <3>1
    <3>2. CASE i \notin 1 .. Len(v)
      <4>1. i - Len(v) \in 1 .. Len(p) /\ i = Len(v) + (i - Len(v))
        BY <2>4, <3>2
      <4> QED
        BY <2>4, <2>6, <4>1
    <3> QED
      BY <3>1, <3>2
  <2>8. FinalParts(w, I)
    BY <2>6, <2>7 DEF FinalParts, P
  <2> QED
    BY <2>1, <2>2, <2>3, <2>5, <2>8
<1> HIDE DEF T
<1>10. n \in T
  <2>1. \A k \in 0 .. n : k \in T
    BY <1>1, <1>8, <1>9, UpTo
  <2> QED
    BY <1>1, <2>1
<1> QED
  BY <1>4, <1>5, <1>7, <1>10 DEF T, n, rr

\* What OCR finds on a page, boxes of one line, is read completely and once.
LEMMA ScanMarkdownIs ==
  ASSUME NEW boxes, AreBoxes(boxes), \A b \in boxes : Len(b.lines) = 1
  PROVE  /\ FinalParts(ScanMarkdown(boxes), LinesOf(boxes))
         /\ Spells(Reads(ScanMarkdown(boxes)), LinesOf(boxes))
         /\ Level(boxes) => KeepsOrder(Reads(ScanMarkdown(boxes)), Aboves(LinesOf(boxes)))
<1> DEFINE I      == LinesOf(boxes)
           rec    == [b \in boxes |-> [x0 |-> b.x0, x1 |-> b.x1, y0 |-> b.y0, y1 |-> b.y0 + LineHeight,
                                       id |-> <<b, 1>>]]
           S      == {rec[b] : b \in boxes}
           groups == XYCut(S)
           n      == Len(groups)
           pp     == [g \in DOMAIN groups |-> GroupMarkdown(groups[g])]
           parts  == FlattenSeq(pp)
           R      == IF Level(boxes) THEN Aboves(I) ELSE {}
<1>1. Level(boxes) => R = Aboves(I)
  OBVIOUS
<1>2. \A u, v : <<u, v>> \in R => u \in I /\ v \in I /\ Above(u[1], v[1]) /\ Level(boxes)
  BY DEF Aboves
<1> HIDE DEF R
<1>3. ScanMarkdown(boxes) = IF boxes = {} THEN <<>> ELSE MergeWrappedHeadings(parts)
  BY DEF ScanMarkdown, GroupsMarkdown
<1>4. CASE boxes = {}
  <2>1. I = {}
    BY <1>4 DEF LinesOf
  <2>2. Spells(Reads(<<>>), {}) /\ FinalParts(<<>>, I) /\ KeepsOrder(Reads(<<>>), Aboves(I))
    BY ListsNothing, ReadsNothing, FinalNone DEF KeepsOrder
  <2> HIDE DEF I, parts
  <2> QED
    BY <1>3, <1>4, <2>1, <2>2 DEF I
<1>5. CASE boxes # {}
  <2>1. \A b \in boxes : b.x0 \in Int /\ b.x1 \in Int /\ b.x0 < b.x1 /\ b.y0 \in Int /\ DOMAIN b.lines = 1 .. 1
    BY SeqShape DEF AreBoxes
  <2>2. I = {<<b, 1>> : b \in boxes}
    <3>1. \A b \in boxes : {<<b, k>> : k \in DOMAIN b.lines} = {<<b, 1>>}
      <4>1. \A k : k \in 1 .. 1 <=> k = 1
        OBVIOUS
      <4> QED
        BY <2>1, <4>1
    <3> QED
      BY <3>1 DEF LinesOf
  <2>3. \A b \in boxes : /\ rec[b].x0 = b.x0 /\ rec[b].x1 = b.x1 /\ rec[b].y0 = b.y0
                         /\ rec[b].y1 = b.y0 + LineHeight /\ rec[b].id = <<b, 1>>
    OBVIOUS
  <2>4. IsFiniteSet(S)
    <3>1. IsFiniteSet(boxes) /\ DOMAIN rec = boxes
      BY DEF AreBoxes
    <3> HIDE DEF rec
    <3> QED
      BY <3>1, FiniteImage
  <2> HIDE DEF rec
  <2>5. \A r \in S : \E b \in boxes : r = rec[b]
    OBVIOUS
  <2>6. NamesOf(S) = I
    BY <2>2, <2>3 DEF NamesOf
  <2> HIDE DEF S
  <2>7. AreBlocks(S)
    <3>1. LineHeight \in Nat /\ LineHeight > 0
      BY PageLayoutAssumption
    <3>2. ASSUME NEW r \in S
          PROVE  r.x0 \in Int /\ r.x1 \in Int /\ r.x0 < r.x1 /\ r.y0 \in Int /\ r.y1 \in Int /\ r.y0 < r.y1
      <4>1. PICK b \in boxes : r = rec[b]
        BY <2>5
      <4> QED
        BY <2>1, <2>3, <3>1, <4>1
    <3> QED
      BY <2>4, <3>2 DEF AreBlocks
  <2>8. AreNamed(S, I)
    <3>1. ASSUME NEW r \in S
          PROVE  r.id \in I /\ r.y1 = r.y0 + LineHeight
      <4>1. PICK b \in boxes : r = rec[b]
        BY <2>5
      <4>2. r.id = <<b, 1>> /\ r.y1 = r.y0 + LineHeight
        BY <2>3, <4>1
      <4> HIDE DEF I
      <4> QED
        BY <2>2, <4>2
    <3>2. ASSUME NEW r \in S, NEW q \in S, r.id = q.id
          PROVE  r = q
      <4>1. PICK b \in boxes : r = rec[b]
        BY <2>5
      <4>2. PICK c \in boxes : q = rec[c]
        BY <2>5
      <4>3. <<b, 1>> = <<c, 1>>
        BY <2>3, <3>2, <4>1, <4>2
      <4> QED
        BY <4>1, <4>2, <4>3
    <3> QED
      BY <2>7, <3>1, <3>2 DEF AreNamed
  \* A box above another is Over it, and on a level scan a row ends between them.
  <2>9. ASSUME NEW r \in S, NEW q \in S, <<r.id, q.id>> \in R
         PROVE  /\ Over(r, q)
                /\ \E t \in Int : RowEnds(S, t) /\ r.y0 <= t /\ ~(q.y0 <= t)
    <3>1. PICK b \in boxes : r = rec[b]
      BY <2>5
    <3>2. PICK c \in boxes : q = rec[c]
      BY <2>5
    <3>3. Above(b, c) /\ Level(boxes)
      <4>1. r.id = <<b, 1>> /\ q.id = <<c, 1>>
        BY <2>3, <3>1, <3>2
      <4>2. Above(r.id[1], q.id[1]) /\ Level(boxes)
        BY <1>2, <2>9
      <4> QED
        BY <4>1, <4>2
    <3>4. /\ b.y0 + LineHeight <= c.y0 /\ b.x0 < c.x1 /\ c.x0 < b.x1
      <4>1. Len(b.lines) = 1
        OBVIOUS
      <4>2. b.y0 + LineHeight * 1 <= c.y0 /\ b.x0 < c.x1 /\ c.x0 < b.x1
        BY <3>3, <4>1 DEF Above
      <4>3. LineHeight * 1 = LineHeight
        BY PageLayoutAssumption
      <4> QED
        BY <4>2, <4>3
    <3>5. /\ r.x0 = b.x0 /\ r.x1 = b.x1 /\ r.y0 = b.y0 /\ b.y0 \in Int
          /\ q.x0 = c.x0 /\ q.x1 = c.x1 /\ q.y0 = c.y0 /\ c.y0 \in Int
      BY <2>1, <2>3, <3>1, <3>2
    <3>6. LineHeight \in Nat /\ LineHeight > 0
      BY PageLayoutAssumption
    <3>7. b.y0 < c.y0
      BY <3>4, <3>5, <3>6
    <3>8. Over(r, q)
      BY <3>4, <3>5, <3>7 DEF Over
    <3>9. PICK e \in boxes : /\ b.y0 <= e.y0 /\ e.y0 < c.y0
                             /\ \A d \in boxes : d.y0 <= e.y0 \/ 2 * (d.y0 - e.y0) >= LineHeight
      BY <3>3 DEF Level
    <3>10. e.y0 \in Int
      BY <2>1
    <3>11. RowEnds(S, e.y0)
      BY <2>3, <2>5, <3>9 DEF RowEnds
    <3>12. r.y0 <= e.y0 /\ ~(q.y0 <= e.y0)
      BY <3>5, <3>9, <3>10
    <3> QED
      BY <3>8, <3>10, <3>11, <3>12
  <2>10. Rowed(S, R)
    BY <2>9 DEF Rowed
  <2>11. GroupsOf(groups, S)
    BY <2>7, PageLayoutAssumption, XYCutIs
  <2>12. AreLines(I)
    BY LinesAre
  <2> HIDE DEF I, groups
  <2>13. /\ groups \in Seq(SUBSET S) /\ n \in Nat /\ DOMAIN groups = 1 .. n
         /\ \A i \in 1 .. n : groups[i] \in SUBSET S
         /\ \A b \in S : \E i \in 1 .. n : b \in groups[i]
         /\ \A i, j \in 1 .. n : i # j => groups[i] \cap groups[j] = {}
         /\ \A i, j \in 1 .. n : \A r \in groups[i], q \in groups[j] : Over(r, q) => i <= j
    BY <2>11 DEF GroupsOf
  <2> HIDE DEF n
  <2>14. \A i \in 1 .. n : /\ FinalParts(GroupMarkdown(groups[i]), I)
                           /\ Spells(Reads(GroupMarkdown(groups[i])), NamesOf(groups[i]))
                           /\ KeepsOrder(Reads(GroupMarkdown(groups[i])), R)
    BY <2>8, <2>12, <2>13, <2>10, GroupMarkdownIs
  <2>15. \A i \in 1 .. n : pp[i] = GroupMarkdown(groups[i])
    BY <2>13
  <2>16. pp \in Seq(Seq(PartsOver(I))) /\ Len(pp) = n
    <3> DEFINE Z == Seq(PartsOver(I))
    <3>1. \A i \in 1 .. n : GroupMarkdown(groups[i]) \in Z
      BY <2>14 DEF FinalParts
    <3>2. pp \in [1 .. n -> Z]
      BY <2>13, <3>1
    <3> HIDE DEF Z, pp
    <3>3. pp \in Seq(Z) /\ Len(pp) = n
      BY <2>13, <3>2, SeqFrom
    <3> QED
      BY <3>3 DEF Z
  <2> HIDE DEF pp
  <2> DEFINE rr == [k \in 1 .. Len(pp) |-> Reads(pp[k])]
             U  == [k \in 1 .. n |-> NamesOf(groups[k])]
  <2>17. \A k \in 1 .. Len(pp) : FinalParts(pp[k], I)
    BY <2>14, <2>15, <2>16
  <2>18. FinalParts(parts, I) /\ rr \in Seq(Seq(I)) /\ Len(rr) = n /\ Reads(parts) = FlattenSeq(rr)
    BY <2>16, <2>17, FlattenFinal
  <2>19. \A k \in 1 .. n : rr[k] = Reads(pp[k]) /\ U[k] = NamesOf(groups[k])
    BY <2>16
  <2> HIDE DEF rr, U, parts
  <2>20. \A k \in 1 .. Len(rr) : Spells(rr[k], U[k]) /\ KeepsOrder(rr[k], R)
    BY <2>14, <2>15, <2>18, <2>19
  <2>21. \A i, j \in 1 .. n : i # j => U[i] \cap U[j] = {}
    <3>1. ASSUME NEW i \in 1 .. n, NEW j \in 1 .. n, i # j, NEW x, x \in U[i], x \in U[j]
          PROVE  FALSE
      <4>1. PICK r \in groups[i] : x = r.id
        BY <2>19, <3>1 DEF NamesOf
      <4>2. PICK q \in groups[j] : x = q.id
        BY <2>19, <3>1 DEF NamesOf
      <4>3. r \in S /\ q \in S
        BY <2>13
      <4>4. r = q
        BY <2>8, <4>1, <4>2, <4>3 DEF AreNamed
      <4> QED
        BY <2>13, <3>1, <4>1, <4>2, <4>4
    <3> QED
      BY <3>1
  <2>22. \A i, j \in 1 .. n : i < j => \A u \in U[j], v \in U[i] : <<u, v>> \notin R
    <3>1. ASSUME NEW i \in 1 .. n, NEW j \in 1 .. n, i < j, NEW u \in U[j], NEW v \in U[i], <<u, v>> \in R
          PROVE  FALSE
      <4>1. PICK r \in groups[j] : u = r.id
        BY <2>19 DEF NamesOf
      <4>2. PICK q \in groups[i] : v = q.id
        BY <2>19 DEF NamesOf
      <4>3. r \in S /\ q \in S
        BY <2>13
      <4>4. Over(r, q)
        BY <2>9, <3>1, <4>1, <4>2, <4>3
      <4>5. j <= i
        BY <2>13, <4>4
      <4> QED
        BY <2>13, <3>1, <4>5
    <3> QED
      BY <3>1
  <2>23. UNION {U[k] : k \in 1 .. Len(rr)} = I
    <3>1. UNION {U[k] : k \in 1 .. n} = NamesOf(S)
      BY <2>13, <2>19 DEF NamesOf
    <3> QED
      BY <2>6, <2>18, <3>1
  <2>24. /\ Spells(FlattenSeq(rr), UNION {U[i] : i \in 1 .. Len(rr)})
         /\ KeepsOrder(FlattenSeq(rr), R)
    <3>1. /\ \A i, j \in 1 .. Len(rr) : i # j => U[i] \cap U[j] = {}
          /\ \A i, j \in 1 .. Len(rr) : i < j => \A a \in U[j], b \in U[i] : <<a, b>> \notin R
      BY <2>18, <2>21, <2>22
    <3>2. rr \in Seq(Seq(I))
      BY <2>18
    <3> QED
      BY ONLY <3>2, <2>20, <3>1, FlattenSpells
  <2>25. FinalParts(MergeWrappedHeadings(parts), I) /\ Reads(MergeWrappedHeadings(parts)) = Reads(parts)
    BY <2>18, HeadingsMerged
  <2>26. /\ FinalParts(ScanMarkdown(boxes), I) /\ Spells(Reads(ScanMarkdown(boxes)), I)
         /\ KeepsOrder(Reads(ScanMarkdown(boxes)), R)
    BY <1>3, <1>5, <2>18, <2>23, <2>24, <2>25
  <2> QED
    BY <1>1, <2>26 DEF I
<1> QED
  BY <1>4, <1>5
=============================================================================
