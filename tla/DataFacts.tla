----------------------------- MODULE DataFacts -----------------------------
(***************************************************************************)
(* Facts about numbers, recursive functions and sequences that the proofs  *)
(* of several modules use.  Induction is by the least counterexample: the  *)
(* set of numbers for which a claim fails would have a least element.      *)
(***************************************************************************)
EXTENDS Integers, Sequences, FiniteSetTheorems, WellFoundedInduction, TLAPS

\* A non-empty set of natural numbers has a least element.
LEMMA NatLeast ==
  ASSUME NEW D, D \subseteq Nat, D # {}
  PROVE  \E d \in D : \A e \in D : d <= e
<1> DEFINE R == OpToRel(<, Nat)
<1>1. IsWellFoundedOn(R, Nat)
  BY NatLessThanWellFounded
<1>2. PICK d \in D : \A e \in D : ~ (<<e, d>> \in R)
  <2> HIDE DEF R
  <2> QED BY <1>1, WFMin
<1>3. \A e \in D : e < d => <<e, d>> \in R
  BY DEF OpToRel
<1>4. \A e \in D : ~ (e < d)
  BY <1>2, <1>3
<1> HIDE DEF R
<1> QED
  BY <1>4

\* Induction over an interval, for a claim given as the set G of the numbers
\* it holds for.
LEMMA IntervalInduction ==
  ASSUME NEW lo \in Nat, NEW hi \in Nat, NEW G, lo \in G,
         \A n \in lo .. hi - 1 : n \in G => n + 1 \in G
  PROVE  \A n \in lo .. hi : n \in G
<1> DEFINE D == {n \in lo .. hi : n \notin G}
<1>1. SUFFICES ASSUME D # {} PROVE FALSE
  OBVIOUS
<1>2. PICK d \in D : \A e \in D : d <= e
  <2>1. D \subseteq Nat
    OBVIOUS
  <2> HIDE DEF D
  <2> QED BY <1>1, <2>1, NatLeast
<1>3. d \in lo .. hi /\ d \notin G /\ d # lo
  OBVIOUS
<1>4. d - 1 \in lo .. hi - 1 /\ ~ (d <= d - 1) /\ d - 1 \in lo .. hi
  BY <1>3
<1>5. d - 1 \in G
  BY <1>2, <1>4
<1>6. d - 1 + 1 = d
  BY <1>3
<1> QED
  BY <1>3, <1>4, <1>5, <1>6

\* At every index `step` leads from X to X.
Steps(X, lo, hi, step) == \A i \in lo + 1 .. hi : \A x \in X : step[i][x] \in X

\* The function g on lo .. hi starts with x0 and follows `step` from each index
\* to the next.
Follows(g, X, x0, lo, hi, step) ==
  /\ g \in [lo .. hi -> X]
  /\ g[lo] = x0
  /\ \A i \in lo + 1 .. hi : g[i] = step[i][g[i - 1]]

Recursion(X, x0, lo, hi, step) == CHOOSE g : Follows(g, X, x0, lo, hi, step)

\* It exists: this is what a recursive definition over an interval rests on.
LEMMA RecursionExists ==
  ASSUME NEW X, NEW x0 \in X, NEW lo \in Nat, NEW hi \in Nat, lo <= hi,
         NEW step, Steps(X, lo, hi, step)
  PROVE  Follows(Recursion(X, x0, lo, hi, step), X, x0, lo, hi, step)
<1> DEFINE Upto(n, g) == /\ g \in [lo .. n -> X]
                         /\ g[lo] = x0
                         /\ \A i \in lo + 1 .. n : g[i] = step[i][g[i - 1]]
           D == {n \in lo .. hi : ~ \E g : Upto(n, g)}
<1>1. ASSUME NEW n \in D, \A e \in D : n <= e
      PROVE  FALSE
  <2>1. CASE n = lo
    <3>1. Upto(lo, [i \in lo .. lo |-> x0])
      OBVIOUS
    <3> QED
      BY <2>1, <3>1
  <2>2. CASE n # lo
    <3>1. n - 1 \in lo .. hi /\ n - 1 \notin D
      <4>1. n \in lo .. hi
        BY <1>1
      <4>2. n - 1 \in lo .. hi /\ ~ (n <= n - 1)
        BY <4>1, <2>2
      <4> HIDE DEF D
      <4> QED BY <1>1, <4>2
    <3>2. PICK g : Upto(n - 1, g)
      BY <3>1
    <3> DEFINE h == [i \in lo .. n |-> IF i = n THEN step[n][g[n - 1]] ELSE g[i]]
    <3>3. g[n - 1] \in X /\ step[n][g[n - 1]] \in X
      BY <3>1, <3>2, <2>2 DEF Steps
    <3>4. h \in [lo .. n -> X] /\ h[lo] = x0 /\ h[n] = step[n][h[n - 1]]
      BY <3>1, <3>2, <3>3, <2>2
    <3>5. ASSUME NEW i \in lo + 1 .. n - 1 PROVE h[i] = step[i][h[i - 1]]
      BY <3>1, <3>2
    <3>6. Upto(n, h)
      <4> HIDE DEF h
      <4> QED BY <3>1, <3>4, <3>5
    <3> QED
      BY <3>6
  <2> QED
    BY <2>1, <2>2
<1>2. D = {}
  <2>1. D \subseteq Nat
    OBVIOUS
  <2> HIDE DEF D
  <2> QED BY <1>1, <2>1, NatLeast
<1>3. \E g : Upto(hi, g)
  BY <1>2
<1> QED
  BY <1>3 DEF Recursion, Follows
-----------------------------------------------------------------------------
(* Sequences.                                                              *)

\* The entries of a concatenation.
LEMMA ConcatLemma ==
  ASSUME NEW S, NEW s \in Seq(S), NEW u \in Seq(S)
  PROVE  /\ s \o u \in Seq(S) /\ Len(s \o u) = Len(s) + Len(u)
         /\ \A j \in 1 .. Len(s) : (s \o u)[j] = s[j]
         /\ \A j \in 1 .. Len(u) : (s \o u)[Len(s) + j] = u[j]
OBVIOUS

\* s without its entry at i: what SequencesExt!RemoveAt is.
Removed(s, i) == SubSeq(s, 1, i - 1) \o SubSeq(s, i + 1, Len(s))

\* The later entries move down by one.
LEMMA RemovedLemma ==
  ASSUME NEW S, NEW s \in Seq(S), NEW i \in 1 .. Len(s)
  PROVE  /\ Removed(s, i) \in Seq(S)
         /\ Len(Removed(s, i)) = Len(s) - 1
         /\ \A k \in 1 .. Len(s) - 1 :
              Removed(s, i)[k] = IF k < i THEN s[k] ELSE s[k + 1]
<1>1. SubSeq(s, 1, i - 1) \in Seq(S) /\ SubSeq(s, i + 1, Len(s)) \in Seq(S)
  OBVIOUS
<1>2. Len(SubSeq(s, 1, i - 1)) = i - 1 /\ Len(SubSeq(s, i + 1, Len(s))) = Len(s) - i
  OBVIOUS
<1>3. /\ \A k \in 1 .. i - 1 : SubSeq(s, 1, i - 1)[k] = s[k]
      /\ \A k \in 1 .. Len(s) - i : SubSeq(s, i + 1, Len(s))[k] = s[k + i]
  OBVIOUS
<1> DEFINE l == SubSeq(s, 1, i - 1)
           r == SubSeq(s, i + 1, Len(s))
<1>0. l \in Seq(S) /\ r \in Seq(S)
  BY <1>1
<1>5. /\ Len(s) \in Nat /\ Len(l) = i - 1 /\ Len(r) = Len(s) - i
      /\ Removed(s, i) = l \o r
  BY <1>2 DEF Removed
<1>4. /\ l \o r \in Seq(S) /\ Len(l \o r) = Len(l) + Len(r)
      /\ \A k \in 1 .. Len(l) + Len(r) :
           (l \o r)[k] = IF k <= Len(l) THEN l[k] ELSE r[k - Len(l)]
  <2> HIDE DEF l, r
  <2> QED
    BY <1>0
<1> HIDE DEF l, r
<1>6. ASSUME NEW k \in 1 .. Len(s) - 1
      PROVE  (l \o r)[k] = IF k < i THEN s[k] ELSE s[k + 1]
  <2>1. CASE k < i
    BY <1>3, <1>4, <1>5, <2>1 DEF l
  <2>2. CASE ~(k < i)
    <3>1. (l \o r)[k] = r[k - (i - 1)]
      BY <1>4, <1>5, <2>2
    <3>2. r[k - (i - 1)] = s[k - (i - 1) + i]
      BY <1>3, <1>5, <2>2 DEF r
    <3> QED
      BY <2>2, <3>1, <3>2
  <2> QED
    BY <2>1, <2>2
<1> QED
  BY <1>4, <1>5, <1>6
=============================================================================
