------------------------------ MODULE SeqFolds ------------------------------
(***************************************************************************)
(* Two loops over a sequence that several modules need, as functions by      *)
(* recursion on the number of elements gone through.                        *)
(***************************************************************************)
EXTENDS Integers, Sequences

\* A sequence, of whatever it holds.
IsSeq(s) == s \in Seq({s[i] : i \in DOMAIN s})

\* sum(s)
Total(s) ==
  LET sum[i \in 0 .. Len(s)] == IF i = 0 THEN 0 ELSE sum[i - 1] + s[i]
  IN sum[Len(s)]

\* [s[i] for i in range(len(s)) if i in K]
Picked(s, K) ==
  LET pick[i \in 0 .. Len(s)] ==
        IF i = 0 THEN <<>>
        ELSE IF i \in K THEN Append(pick[i - 1], s[i]) ELSE pick[i - 1]
  IN pick[Len(s)]
=============================================================================
