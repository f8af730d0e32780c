--------------------------- MODULE MsgQueueProofs ---------------------------
(***************************************************************************)
(* Theorems about MsgQueue, for any number of processes, messages and      *)
(* members: plain programs keep the member list and the processes that     *)
(* hold the queue in step, and free the queue with its last holder.        *)
(***************************************************************************)
EXTENDS MsgQueue, FiniteSetTheorems, DataFacts
-----------------------------------------------------------------------------
(* The list operations.                                                    *)

ListOf(ms) == {ms[i] : i \in DOMAIN ms}
Distinct(ms) == \A i, j \in DOMAIN ms : ms[i] = ms[j] => i = j

\* What the loop of Select has kept after n entries.
Kept(s, T) == CHOOSE kept : kept =
  [n \in 0 .. Len(s) |->
     IF n = 0 THEN <<>>
     ELSE IF s[n] \in T THEN Append(kept[n - 1], s[n]) ELSE kept[n - 1]]

LEMMA KeptLemma ==
  ASSUME NEW S, NEW s \in Seq(S), NEW T
  PROVE  /\ Select(s, T) = Kept(s, T)[Len(s)]
         /\ Kept(s, T)[0] = <<>>
         /\ \A n \in 0 .. Len(s) - 1 :
              Kept(s, T)[n + 1] = IF s[n + 1] \in T
                                  THEN Append(Kept(s, T)[n], s[n + 1])
                                  ELSE Kept(s, T)[n]
         /\ \A n \in 0 .. Len(s) : Kept(s, T)[n] \in Seq(S)
<1> DEFINE Body(f) == [n \in 0 .. Len(s) |->
                 IF n = 0 THEN <<>>
                 ELSE IF s[n] \in T THEN Append(f[n - 1], s[n]) ELSE f[n - 1]]
           L == Len(s)
           k == Kept(s, T)
<1>1. L \in Nat /\ \A n \in 1 .. L : s[n] \in S
  OBVIOUS
<1>2. \E f : f = Body(f)
  <2> DEFINE step == [n \in 1 .. L |->
                        [r \in Seq(S) |-> IF s[n] \in T THEN Append(r, s[n]) ELSE r]]
             g == Recursion(Seq(S), <<>>, 0, L, step)
  <2>1. \A n \in 0 + 1 .. L, r \in Seq(S) : step[n][r] \in Seq(S)
    BY <1>1
  <2>2. <<>> \in Seq(S) /\ 0 \in Nat /\ 0 <= L
    BY <1>1
  <2>3. /\ g \in [0 .. L -> Seq(S)] /\ g[0] = <<>>
        /\ \A n \in 0 + 1 .. L : g[n] = step[n][g[n - 1]]
    <3> DEFINE Q == Seq(S)
               e == <<>>
    <3>1. e \in Q /\ L \in Nat /\ Steps(Q, 0, L, step)
      BY <1>1, <2>1, <2>2 DEF Steps
    <3>2. g = Recursion(Q, e, 0, L, step)
      OBVIOUS
    <3> HIDE DEF step, L, g, Q, e
    <3>3. Follows(g, Q, e, 0, L, step)
      BY <2>2, <3>1, <3>2, RecursionExists, Zenon
    <3> QED BY <3>3 DEF Follows, Q, e
  <2> HIDE DEF g
  <2>4. ASSUME NEW n \in 0 .. L
        PROVE  g[n] = IF n = 0 THEN <<>>
                      ELSE IF s[n] \in T THEN Append(g[n - 1], s[n]) ELSE g[n - 1]
    <3>1. CASE n = 0
      BY <2>3, <3>1
    <3>2. CASE n # 0
      <4>1. n \in 0 + 1 .. L /\ n \in 1 .. L /\ n - 1 \in 0 .. L
        BY <1>1, <3>2
      <4>2. g[n - 1] \in Seq(S)
        BY <2>3, <4>1
      <4> QED BY <2>3, <3>2, <4>1, <4>2
    <3> QED BY <3>1, <3>2
  <2>5. g = Body(g)
    BY <2>3, <2>4
  <2> QED BY <2>5
<1>3. k = Body(k)
  <2>1. k = CHOOSE f : f = Body(f)
    BY DEF Kept
  <2> HIDE DEF Body, k
  <2> QED BY <1>2, <2>1
<1>4. Select(s, T) = k[L]
  BY DEF Select, Kept
<1> HIDE DEF k
<1>5. /\ k[0] = <<>>
      /\ \A n \in 0 .. L - 1 : k[n + 1] = IF s[n + 1] \in T
                                          THEN Append(k[n], s[n + 1]) ELSE k[n]
  <2>1. ASSUME NEW n \in 0 .. L
        PROVE  k[n] = IF n = 0 THEN <<>>
                      ELSE IF s[n] \in T THEN Append(k[n - 1], s[n]) ELSE k[n - 1]
    <3>1. k[n] = Body(k)[n]
      <4> HIDE DEF Body
      <4> QED BY <1>3
    <3>2. Body(k)[n] = IF n = 0 THEN <<>>
                       ELSE IF s[n] \in T THEN Append(k[n - 1], s[n]) ELSE k[n - 1]
      OBVIOUS
    <3> HIDE DEF Body
    <3> QED BY <3>1, <3>2
  <2> HIDE DEF Body
  <2>2. 0 \in 0 .. L
    BY <1>1
  <2>3. ASSUME NEW n \in 0 .. L - 1
        PROVE  k[n + 1] = IF s[n + 1] \in T THEN Append(k[n], s[n + 1]) ELSE k[n]
    <3> DEFINE m == n + 1
    <3>1. m \in 0 .. L /\ m # 0 /\ m - 1 = n
      BY <1>1
    <3> HIDE DEF m
    <3>2. k[m] = IF s[m] \in T THEN Append(k[m - 1], s[m]) ELSE k[m - 1]
      BY <2>1, <3>1
    <3>3. k[m] = IF s[m] \in T THEN Append(k[n], s[m]) ELSE k[n]
      BY <3>1, <3>2, Zenon
    <3> QED BY <3>3 DEF m
  <2> QED BY <2>1, <2>2, <2>3
<1>6. \A n \in 0 .. L : k[n] \in Seq(S)
  <2> DEFINE G == {n \in 0 .. L : k[n] \in Seq(S)}
  <2>1. 0 \in G
    <3>1. <<>> \in Seq(S)
      OBVIOUS
    <3>2. k[0] \in Seq(S)
      BY <1>5, <3>1, Zenon
    <3> QED BY <1>1, <3>2
  <2>2. ASSUME NEW n \in 0 .. L - 1, n \in G PROVE n + 1 \in G
    <3>1. n + 1 \in 1 .. L /\ n + 1 - 1 = n /\ n + 1 \in 0 .. L
      BY <1>1
    <3>2. k[n] \in Seq(S) /\ s[n + 1] \in S
      BY <1>1, <2>2, <3>1
    <3>3. Append(k[n], s[n + 1]) \in Seq(S)
      BY <3>2
    <3>4. k[n + 1] = Append(k[n], s[n + 1]) \/ k[n + 1] = k[n]
      BY <1>5
    <3>5. k[n + 1] \in Seq(S)
      BY <3>2, <3>3, <3>4, Zenon
    <3> QED BY <3>1, <3>5
  <2>3. \A n \in 0 .. L : n \in G
    <3> HIDE DEF G, L
    <3> QED BY <1>1, <2>1, <2>2, IntervalInduction
  <2> QED BY <2>3
<1> QED
  BY <1>4, <1>5, <1>6 DEF k

LEMMA SelectEmpty ==
  ASSUME NEW S, NEW s \in Seq(S), NEW T
  PROVE  Len(s) = 0 => Select(s, T) = <<>>
<1>1. Select(s, T) = Kept(s, T)[Len(s)]
  BY KeptLemma
<1>2. Kept(s, T)[0] = <<>>
  BY KeptLemma
<1> QED
  BY <1>1, <1>2, Zenon

LEMMA AppendLemma ==
  ASSUME NEW S, NEW r \in Seq(S), NEW x \in S
  PROVE  /\ Append(r, x) \in Seq(S)
         /\ ListOf(Append(r, x)) = ListOf(r) \cup {x}
         /\ Distinct(r) /\ x \notin ListOf(r) => Distinct(Append(r, x))
<1> DEFINE t == Append(r, x)
<1>1. /\ Len(r) \in Nat /\ DOMAIN r = 1 .. Len(r)
      /\ t \in Seq(S) /\ Len(t) = Len(r) + 1 /\ DOMAIN t = 1 .. Len(r) + 1
      /\ \A k \in 1 .. Len(r) : t[k] = r[k]
      /\ t[Len(r) + 1] = x
  OBVIOUS
<1> HIDE DEF t
<1>2. ListOf(t) = ListOf(r) \cup {x}
  <2>1. \A k \in 1 .. Len(r) + 1 : t[k] \in ListOf(r) \cup {x}
    BY <1>1 DEF ListOf
  <2>2. \A k \in 1 .. Len(r) : r[k] \in ListOf(t)
    BY <1>1 DEF ListOf
  <2>3. x \in ListOf(t)
    BY <1>1 DEF ListOf
  <2> QED BY <1>1, <2>1, <2>2, <2>3 DEF ListOf
<1>3. ASSUME Distinct(r), x \notin ListOf(r) PROVE Distinct(t)
  BY <1>1, <1>3 DEF Distinct, ListOf
<1> QED
  BY <1>1, <1>2, <1>3 DEF t

\* Select keeps the entries that are in T, and each of them once.
LEMMA SelectLemma ==
  ASSUME NEW S, NEW s \in Seq(S), NEW T
  PROVE  /\ Select(s, T) \in Seq(S)
         /\ ListOf(Select(s, T)) = ListOf(s) \cap T
         /\ Distinct(s) => Distinct(Select(s, T))
<1> DEFINE L == Len(s)
           k == Kept(s, T)
           First(n) == {s[j] : j \in 1 .. n}
           G == {n \in 0 .. L : /\ ListOf(k[n]) = First(n) \cap T
                                /\ Distinct(s) => Distinct(k[n])}
<1>1. /\ L \in Nat /\ DOMAIN s = 1 .. L /\ \A n \in 1 .. L : s[n] \in S
      /\ Select(s, T) = k[L] /\ k[0] = <<>>
      /\ \A n \in 0 .. L - 1 : k[n + 1] = IF s[n + 1] \in T
                                          THEN Append(k[n], s[n + 1]) ELSE k[n]
      /\ \A n \in 0 .. L : k[n] \in Seq(S)
  BY KeptLemma
<1> HIDE DEF k, L
<1>2. 0 \in G
  <2>1. ListOf(<<>>) = {} /\ Distinct(<<>>)
    BY DEF ListOf, Distinct
  <2>2. ListOf(k[0]) = {} /\ Distinct(k[0])
    BY <1>1, <2>1, Zenon
  <2>3. First(0) = {} /\ 0 \in 0 .. L
    BY <1>1
  <2> QED BY <2>2, <2>3
<1>3. ASSUME NEW n \in 0 .. L - 1, n \in G PROVE n + 1 \in G
  <2> DEFINE m == n + 1
  <2>1. /\ m \in 1 .. L /\ m \in 0 .. L /\ n \in 0 .. L /\ s[m] \in S
        /\ First(m) = First(n) \cup {s[m]}
    <3>1. m \in 1 .. L /\ m \in 0 .. L /\ n \in 0 .. L /\ s[m] \in S
      BY <1>1
    <3>2. \A j : j \in 1 .. m <=> j \in 1 .. n \/ j = m
      BY <1>1, SMTT(20)
    <3> HIDE DEF m
    <3> QED BY <3>1, <3>2
  <2>2. k[m] = IF s[m] \in T THEN Append(k[n], s[m]) ELSE k[n]
    BY <1>1
  <2>3. k[n] \in Seq(S) /\ ListOf(k[n]) = First(n) \cap T /\ (Distinct(s) => Distinct(k[n]))
    BY <1>1, <1>3, <2>1
  <2>4. Distinct(s) => s[m] \notin First(n)
    <3>1. \A j \in 1 .. n : j \in DOMAIN s /\ j # m
      BY <1>1, <2>1
    <3> QED BY <1>1, <2>1, <3>1 DEF Distinct
  <2> HIDE DEF m
  <2>5. ListOf(k[m]) = First(m) \cap T /\ (Distinct(s) => Distinct(k[m]))
    <3> HIDE DEF First
    <3>1. CASE s[m] \in T
      <4>1. k[m] = Append(k[n], s[m])
        BY <2>2, <3>1, Zenon
      <4>2. /\ ListOf(Append(k[n], s[m])) = ListOf(k[n]) \cup {s[m]}
            /\ Distinct(k[n]) /\ s[m] \notin ListOf(k[n]) => Distinct(Append(k[n], s[m]))
        BY <2>1, <2>3, AppendLemma
      <4>3. ListOf(k[m]) = First(m) \cap T
        BY <2>1, <2>3, <3>1, <4>1, <4>2
      <4>4. Distinct(s) => Distinct(k[m])
        BY <2>3, <2>4, <4>1, <4>2
      <4> QED BY <4>3, <4>4
    <3>2. CASE s[m] \notin T
      <4>1. k[m] = k[n]
        BY <2>2, <3>2, Zenon
      <4> QED BY <2>1, <2>3, <3>2, <4>1
    <3> QED BY <3>1, <3>2
  <2> QED BY <2>1, <2>5 DEF m
<1>4. \A n \in 0 .. L : n \in G
  <2> HIDE DEF G
  <2> QED BY <1>1, <1>2, <1>3, IntervalInduction
<1>5. ListOf(k[L]) = First(L) \cap T /\ (Distinct(s) => Distinct(k[L])) /\ k[L] \in Seq(S)
  <2>1. L \in 0 .. L
    BY <1>1
  <2> QED BY <1>1, <1>4, <2>1
<1>6. First(L) = ListOf(s)
  BY <1>1 DEF ListOf
<1> QED
  BY <1>1, <1>5, <1>6, Zenon

\* What has been kept depends on nothing but the entries passed so far.
LEMMA PrefixLemma ==
  ASSUME NEW S, NEW s \in Seq(S), NEW t \in Seq(S), NEW T, NEW m \in Nat,
         m <= Len(s), m <= Len(t), \A j \in 1 .. m : s[j] = t[j]
  PROVE  Kept(s, T)[m] = Kept(t, T)[m]
<1> DEFINE k == Kept(s, T)
           h == Kept(t, T)
           G == {n \in 0 .. m : k[n] = h[n]}
<1>1. /\ k[0] = <<>> /\ h[0] = <<>>
      /\ \A n \in 0 .. m - 1 : k[n + 1] = IF s[n + 1] \in T
                                          THEN Append(k[n], s[n + 1]) ELSE k[n]
      /\ \A n \in 0 .. m - 1 : h[n + 1] = IF t[n + 1] \in T
                                          THEN Append(h[n], t[n + 1]) ELSE h[n]
  <2>1. Len(s) \in Nat /\ Len(t) \in Nat
    OBVIOUS
  <2>2. 0 .. m - 1 \subseteq 0 .. Len(s) - 1 /\ 0 .. m - 1 \subseteq 0 .. Len(t) - 1
    BY <2>1
  <2>3. /\ k[0] = <<>>
        /\ \A n \in 0 .. Len(s) - 1 : k[n + 1] = IF s[n + 1] \in T
                                      THEN Append(k[n], s[n + 1]) ELSE k[n]
    BY KeptLemma
  <2>4. /\ h[0] = <<>>
        /\ \A n \in 0 .. Len(t) - 1 : h[n + 1] = IF t[n + 1] \in T
                                      THEN Append(h[n], t[n + 1]) ELSE h[n]
    BY KeptLemma
  <2> HIDE DEF k, h
  <2> QED BY <2>2, <2>3, <2>4, Zenon
<1> HIDE DEF k, h
<1>2. 0 \in G
  <2>1. k[0] = h[0] /\ 0 \in 0 .. m
    BY <1>1
  <2> QED BY <2>1
<1>3. ASSUME NEW n \in 0 .. m - 1, n \in G PROVE n + 1 \in G
  <2>1. n + 1 \in 1 .. m /\ n + 1 \in 0 .. m
    OBVIOUS
  <2>2. s[n + 1] = t[n + 1] /\ k[n] = h[n]
    BY <1>3, <2>1
  <2> DEFINE j == n + 1
  <2>3. /\ k[j] = IF s[j] \in T THEN Append(k[n], s[j]) ELSE k[n]
        /\ h[j] = IF t[j] \in T THEN Append(h[n], t[j]) ELSE h[n]
        /\ s[j] = t[j]
    BY <1>1, <2>2
  <2> HIDE DEF j
  <2>4. k[j] = h[j]
    <3>1. CASE s[j] \in T
      BY <2>2, <2>3, <3>1
    <3>2. CASE s[j] \notin T
      BY <2>2, <2>3, <3>2
    <3> QED BY <3>1, <3>2
  <2> QED BY <2>1, <2>4 DEF j
<1>4. \A n \in 0 .. m : n \in G
  <2>1. 0 \in Nat
    OBVIOUS
  <2> HIDE DEF G
  <2> QED BY <1>2, <1>3, <2>1, IntervalInduction
<1> QED
  BY <1>4 DEF k, h

\* Taking out an entry that Select would pass over changes nothing; taking out
\* the first one it keeps takes the first one of what it keeps.
LEMMA SelectWithout ==
  ASSUME NEW S, NEW s \in Seq(S), NEW T, NEW i \in 1 .. Len(s)
  PROVE  LET t == Removed(s, i)
         IN  /\ s[i] \notin T => Select(t, T) = Select(s, T)
             /\ s[i] \in T /\ (\A j \in 1 .. i - 1 : s[j] \notin T)
                  => Select(s, T) # <<>> /\ Select(t, T) = Tail(Select(s, T))
<1> DEFINE t == Removed(s, i)
           L == Len(s)
           k == Kept(s, T)
           h == Kept(t, T)
<1>1. /\ L \in Nat /\ i \in 1 .. L /\ \A n \in 1 .. L : s[n] \in S
      /\ t \in Seq(S) /\ Len(t) = L - 1
      /\ \A n \in 1 .. L - 1 : t[n] = IF n < i THEN s[n] ELSE s[n + 1]
  <2>1. L \in Nat /\ i \in 1 .. L /\ \A n \in 1 .. L : s[n] \in S
    OBVIOUS
  <2>2. /\ t \in Seq(S) /\ Len(t) = L - 1
        /\ \A n \in 1 .. L - 1 : t[n] = IF n < i THEN s[n] ELSE s[n + 1]
    BY RemovedLemma
  <2> QED BY <2>1, <2>2
<1> HIDE DEF t
<1>2. /\ Select(s, T) = k[L] /\ k[0] = <<>>
      /\ \A n \in 0 .. L - 1 : k[n + 1] = IF s[n + 1] \in T
                                          THEN Append(k[n], s[n + 1]) ELSE k[n]
      /\ \A n \in 0 .. L : k[n] \in Seq(S)
  BY KeptLemma
<1>3. /\ Select(t, T) = h[L - 1]
      /\ \A n \in 0 .. L - 2 : h[n + 1] = IF t[n + 1] \in T
                                          THEN Append(h[n], t[n + 1]) ELSE h[n]
  <2> HIDE DEF h, L
  <2>1. /\ Select(t, T) = h[Len(t)]
        /\ \A n \in 0 .. Len(t) - 1 : h[n + 1] = IF t[n + 1] \in T
                                          THEN Append(h[n], t[n + 1]) ELSE h[n]
    BY <1>1, KeptLemma DEF h
  <2>2. L - 1 - 1 = L - 2
    BY <1>1
  <2> QED BY <1>1, <2>1, <2>2
<1>4. h[i - 1] = k[i - 1]
  <2>1. i - 1 \in Nat /\ i - 1 <= Len(s) /\ i - 1 <= Len(t) /\ \A j \in 1 .. i - 1 : s[j] = t[j]
    BY <1>1
  <2> HIDE DEF L
  <2> QED BY <1>1, <2>1, PrefixLemma
<1> HIDE DEF k, h, L
<1>5. k[i] = IF s[i] \in T THEN Append(k[i - 1], s[i]) ELSE k[i - 1]
  <2>1. i - 1 \in 0 .. L - 1 /\ i - 1 + 1 = i
    BY <1>1
  <2>2. k[i - 1 + 1] = IF s[i - 1 + 1] \in T THEN Append(k[i - 1], s[i - 1 + 1])
                                             ELSE k[i - 1]
    BY <1>2, <2>1
  <2> QED BY <2>1, <2>2
<1>6. ASSUME NEW n \in i .. L - 1
      PROVE  /\ h[n] = IF s[n + 1] \in T THEN Append(h[n - 1], s[n + 1]) ELSE h[n - 1]
             /\ k[n + 1] = IF s[n + 1] \in T THEN Append(k[n], s[n + 1]) ELSE k[n]
             /\ k[n] \in Seq(S) /\ s[n + 1] \in S
  <2>1. /\ n - 1 \in 0 .. L - 2 /\ n - 1 + 1 = n /\ n \in 0 .. L - 1 /\ n \in 0 .. L
        /\ n \in 1 .. L - 1 /\ ~ (n < i) /\ n + 1 \in 1 .. L
    BY <1>1
  <2>2. t[n] = s[n + 1]
    BY <1>1, <2>1
  <2>3. h[n - 1 + 1] = IF t[n - 1 + 1] \in T THEN Append(h[n - 1], t[n - 1 + 1])
                                             ELSE h[n - 1]
    BY <1>3, <2>1
  <2>4. h[n] = IF s[n + 1] \in T THEN Append(h[n - 1], s[n + 1]) ELSE h[n - 1]
    BY <2>1, <2>2, <2>3
  <2> QED BY <1>1, <1>2, <2>1, <2>4
<1>7. i \in Nat /\ L \in Nat /\ i <= L /\ L \in i .. L
  BY <1>1
<1>8. ASSUME s[i] \notin T PROVE Select(t, T) = Select(s, T)
  <2> DEFINE G == {n \in i .. L : h[n - 1] = k[n]}
  <2>1. i \in G
    BY <1>4, <1>5, <1>7, <1>8
  <2>2. ASSUME NEW n \in i .. L - 1, n \in G PROVE n + 1 \in G
    <3>1. h[n - 1] = k[n] /\ n + 1 - 1 = n /\ n + 1 \in i .. L
      BY <1>7, <2>2
    <3>2. h[n] = k[n + 1]
      <4>1. CASE s[n + 1] \in T
        BY <1>6, <3>1, <4>1
      <4>2. CASE s[n + 1] \notin T
        BY <1>6, <3>1, <4>2
      <4> QED BY <4>1, <4>2
    <3> QED BY <3>1, <3>2
  <2>3. \A n \in i .. L : n \in G
    <3> HIDE DEF G
    <3> QED BY <1>7, <2>1, <2>2, IntervalInduction
  <2> QED BY <1>2, <1>3, <1>7, <2>3
<1>9. ASSUME s[i] \in T, \A j \in 1 .. i - 1 : s[j] \notin T
      PROVE  Select(s, T) # <<>> /\ Select(t, T) = Tail(Select(s, T))
  <2> DEFINE E == {n \in 0 .. i - 1 : k[n] = <<>>}
             G == {n \in i .. L : k[n] # <<>> /\ h[n - 1] = Tail(k[n])}
  <2>1. \A n \in 0 .. i - 1 : n \in E
    <3>1. 0 \in E
      BY <1>2, <1>7, <1>1
    <3>2. ASSUME NEW n \in 0 .. i - 1 - 1, n \in E PROVE n + 1 \in E
      <4>1. n + 1 \in 1 .. i - 1 /\ n + 1 \in 0 .. i - 1 /\ n \in 0 .. L - 1
        BY <1>1
      <4>2. s[n + 1] \notin T /\ k[n] = <<>>
        BY <1>9, <3>2, <4>1
      <4>3. k[n + 1] = k[n]
        BY <1>2, <4>1, <4>2
      <4> QED BY <4>1, <4>2, <4>3
    <3>3. 0 \in Nat /\ i - 1 \in Nat
      BY <1>1
    <3> HIDE DEF E
    <3> QED BY <3>1, <3>2, <3>3, IntervalInduction
  <2>2. k[i] = <<s[i]>> /\ h[i - 1] = <<>>
    <3>1. i - 1 \in 0 .. i - 1
      BY <1>1
    <3>2. k[i - 1] = <<>>
      BY <2>1, <3>1
    <3>3. Append(<<>>, s[i]) = <<s[i]>>
      OBVIOUS
    <3>4. k[i] = Append(k[i - 1], s[i])
      BY <1>5, <1>9
    <3> QED BY <1>4, <3>2, <3>3, <3>4
  <2>3. i \in G
    <3>1. <<s[i]>> # <<>> /\ Tail(<<s[i]>>) = <<>>
      OBVIOUS
    <3>2. k[i] # <<>> /\ h[i - 1] = Tail(k[i])
      BY <2>2, <3>1, Zenon
    <3> QED BY <1>1, <3>2
  <2>4. ASSUME NEW n \in i .. L - 1, n \in G PROVE n + 1 \in G
    <3>1. /\ k[n] # <<>> /\ h[n - 1] = Tail(k[n])
          /\ n + 1 - 1 = n /\ n + 1 \in i .. L
      BY <1>7, <2>4
    <3>2. k[n + 1] # <<>> /\ h[n] = Tail(k[n + 1])
      <4>1. CASE s[n + 1] \in T
        <5>1. k[n + 1] = Append(k[n], s[n + 1]) /\ h[n] = Append(h[n - 1], s[n + 1])
          BY <1>6, <4>1
        <5>2. \A r \in Seq(S), x \in S : r # <<>> =>
                /\ Append(r, x) # <<>>
                /\ Tail(Append(r, x)) = Append(Tail(r), x)
          OBVIOUS
        <5>3. k[n] \in Seq(S) /\ s[n + 1] \in S
          BY <1>6
        <5> QED BY <3>1, <5>1, <5>2, <5>3
      <4>2. CASE s[n + 1] \notin T
        BY <1>6, <3>1, <4>2
      <4> QED BY <4>1, <4>2
    <3> QED BY <3>1, <3>2
  <2>5. \A n \in i .. L : n \in G
    <3> HIDE DEF G
    <3> QED BY <1>7, <2>3, <2>4, IntervalInduction
  <2> QED BY <1>2, <1>3, <1>7, <2>5
<1> QED
  BY <1>8, <1>9 DEF t

\* What Send puts in the buffer.
Posted(s, p, R, b) ==
  s \o [i \in 1 .. Len(R) |-> [from |-> p, to |-> R[i], body |-> b]]

LEMMA PostedEntries ==
  ASSUME NEW s \in Seq(Message), NEW R \in Seq(Pids), NEW p \in Pids, NEW b \in Bodies
  PROVE  /\ Posted(s, p, R, b) \in Seq(Message)
         /\ Len(Posted(s, p, R, b)) = Len(s) + Len(R)
         /\ \A j \in 1 .. Len(s) : Posted(s, p, R, b)[j] = s[j]
         /\ \A j \in 1 .. Len(R) : Posted(s, p, R, b)[Len(s) + j]
                                     = [from |-> p, to |-> R[j], body |-> b]
<1> DEFINE t == Posted(s, p, R, b)
           msg(q) == [from |-> p, to |-> q, body |-> b]
           new == [i \in 1 .. Len(R) |-> msg(R[i])]
<1>1. \A q \in Pids : msg(q) \in Message
  BY DEF Message
<1>2. Len(R) \in Nat /\ DOMAIN R = 1 .. Len(R) /\ \A j \in 1 .. Len(R) : R[j] \in Pids
  OBVIOUS
<1>3. /\ new \in Seq(Message) /\ Len(new) = Len(R)
      /\ \A j \in 1 .. Len(R) : new[j] = msg(R[j])
  <2> HIDE DEF msg
  <2> QED BY <1>1, <1>2
<1>4. t = s \o new
  BY DEF Posted
<1> HIDE DEF new, t
<1>5. t \in Seq(Message) /\ Len(t) = Len(s) + Len(new)
  BY <1>3, <1>4, ConcatLemma
<1>6. \A j \in 1 .. Len(s) : t[j] = s[j]
  BY <1>3, <1>4, ConcatLemma
<1>7. \A j \in 1 .. Len(new) : t[Len(s) + j] = new[j]
  BY <1>3, <1>4, ConcatLemma
<1> QED
  BY <1>3, <1>5, <1>6, <1>7 DEF t

LEMMA PostedNew ==
  ASSUME NEW s \in Seq(Message), NEW R \in Seq(Pids), NEW p \in Pids, NEW b \in Bodies
  PROVE  \A j \in 1 .. Len(R) : Posted(s, p, R, b)[Len(s) + j]
                                   = [from |-> p, to |-> R[j], body |-> b]
BY PostedEntries, SMTT(30)

\* Appending one message from p to every process of R, each listed once, adds
\* that message to what waits for each of them and to nothing else.
LEMMA PostLemma ==
  ASSUME NEW s \in Seq(Message), NEW R \in Seq(Pids), Distinct(R),
         NEW p \in Pids, NEW b \in Bodies, NEW r \in Pids
  PROVE  Select(Posted(s, p, R, b), For(r)) =
           IF r \in ListOf(R)
           THEN Append(Select(s, For(r)), [from |-> p, to |-> r, body |-> b])
           ELSE Select(s, For(r))
<1> DEFINE t == Posted(s, p, R, b)
           L == Len(s)
           N == L + Len(R)
           x == [from |-> p, to |-> r, body |-> b]
           msg(q) == [from |-> p, to |-> q, body |-> b]
           k == Kept(t, For(r))
           Reached(n) == \E j \in 1 .. n - L : R[j] = r
           G == {n \in L .. N : k[n] = IF Reached(n) THEN Append(k[L], x) ELSE k[L]}
<1>0. \A q \in Pids : msg(q) \in For(r) <=> q = r
  BY DEF For
<1>1. /\ Len(R) \in Nat /\ DOMAIN R = 1 .. Len(R) /\ \A j \in 1 .. Len(R) : R[j] \in Pids
      /\ L \in Nat /\ N \in Nat /\ L <= N
  OBVIOUS
<1>2. /\ t \in Seq(Message) /\ Len(t) = N
      /\ \A j \in 1 .. L : t[j] = s[j]
      /\ \A j \in 1 .. Len(R) : t[L + j] = msg(R[j])
  <2>1. t \in Seq(Message) /\ Len(t) = N
    BY PostedEntries, SMTT(20)
  <2>2. \A j \in 1 .. L : t[j] = s[j]
    BY PostedEntries, ZenonT(60)
  <2>3. \A j \in 1 .. Len(R) : t[L + j] = msg(R[j])
    BY PostedNew, Zenon
  <2> QED BY <2>1, <2>2, <2>3
<1> HIDE DEF t
<1>3. k[L] = Select(s, For(r))
  <2>1. Kept(s, For(r))[L] = Kept(t, For(r))[L]
    <3> HIDE DEF N
    <3>1. L <= Len(s) /\ L <= Len(t)
      BY <1>1, <1>2
    <3> QED BY <1>1, <1>2, <3>1, PrefixLemma, SMTT(20)
  <2> QED BY <2>1, KeptLemma
<1>4. /\ Select(t, For(r)) = k[N]
      /\ \A n \in 0 .. N - 1 : k[n + 1] = IF t[n + 1] \in For(r)
                                          THEN Append(k[n], t[n + 1]) ELSE k[n]
  <2> HIDE DEF N
  <2> DEFINE T == For(r)
  <2>0. k = Kept(t, T)
    OBVIOUS
  <2> HIDE DEF k, T
  <2>1. /\ Select(t, T) = k[Len(t)]
        /\ \A n \in 0 .. Len(t) - 1 : k[n + 1] = IF t[n + 1] \in T
                                          THEN Append(k[n], t[n + 1]) ELSE k[n]
    BY <1>2, <2>0, KeptLemma, SMTT(20)
  <2> USE DEF T
  <2> QED BY <1>2, <2>1
<1> HIDE DEF k
<1>5. L \in G
  BY <1>1
<1>6. ASSUME NEW n \in L .. N - 1, n \in G PROVE n + 1 \in G
  <2> DEFINE j == n + 1 - L
  <2>1. /\ j \in 1 .. Len(R) /\ L + j = n + 1 /\ n + 1 \in L .. N /\ n \in 0 .. N - 1
        /\ n + 1 - L = j /\ n - L = j - 1
    BY <1>1
  <2>2. t[n + 1] = msg(R[j]) /\ R[j] \in Pids
    BY <1>1, <1>2, <2>1
  <2>3. k[n] = IF Reached(n) THEN Append(k[L], x) ELSE k[L]
    BY <1>6
  <2>4. Reached(n + 1) <=> Reached(n) \/ R[j] = r
    <3>1. \A i : i \in 1 .. j <=> i \in 1 .. j - 1 \/ i = j
      BY <2>1
    <3> QED BY <2>1, <3>1
  <2>5. ~ (Reached(n) /\ R[j] = r)
    <3>1. \A i \in 1 .. j - 1 : i \in DOMAIN R /\ i # j
      BY <1>1, <2>1
    <3> QED BY <1>1, <2>1, <3>1 DEF Distinct
  <2>6. k[n + 1] = IF t[n + 1] \in For(r) THEN Append(k[n], t[n + 1]) ELSE k[n]
    BY <1>4, <2>1
  <2>7. k[n + 1] = IF Reached(n + 1) THEN Append(k[L], x) ELSE k[L]
    <3> HIDE DEF Reached
    <3>1. CASE R[j] = r
      <4>1. k[n + 1] = Append(k[n], t[n + 1]) /\ t[n + 1] = x
        BY <1>0, <2>2, <2>6, <3>1
      <4> HIDE DEF x
      <4> QED BY <2>3, <2>4, <2>5, <3>1, <4>1
    <3>2. CASE R[j] # r
      <4>1. k[n + 1] = k[n]
        BY <1>0, <2>2, <2>6, <3>2
      <4> HIDE DEF x
      <4> QED BY <2>3, <2>4, <3>2, <4>1
    <3> QED BY <3>1, <3>2
  <2> QED BY <2>1, <2>7
<1>7. \A n \in L .. N : n \in G
  <2> HIDE DEF G, N, L
  <2> QED BY <1>1, <1>5, <1>6, IntervalInduction
<1>8. k[N] = IF Reached(N) THEN Append(k[L], x) ELSE k[L]
  BY <1>1, <1>7
<1>9. Reached(N) <=> r \in ListOf(R)
  <2>1. N - L = Len(R)
    BY <1>1
  <2> QED BY <1>1, <2>1 DEF ListOf
<1> HIDE DEF Reached, N, L, x
<1> QED
  BY <1>2, <1>3, <1>4, <1>8, <1>9 DEF t, x

\* Dropping a listed process removes it and nobody else.
LEMMA DropMemberLemma ==
  ASSUME NEW ms \in Seq(Pids), Distinct(ms), NEW p \in ListOf(ms)
  PROVE  /\ DropMember(ms, p) \in Seq(Pids)
         /\ Len(DropMember(ms, p)) = Len(ms) - 1
         /\ Distinct(DropMember(ms, p))
         /\ ListOf(DropMember(ms, p)) = ListOf(ms) \ {p}
<1> DEFINE n == Len(ms)
           d == DropMember(ms, p)
<1>1. n \in Nat /\ DOMAIN ms = 1 .. n /\ \A k \in 1 .. n : ms[k] \in Pids
  OBVIOUS
<1>2. PICK i \in 1 .. n : ms[i] = p
  BY <1>1 DEF ListOf
<1>3. \A k \in 1 .. n : ms[k] = p => k = i
  BY <1>1, <1>2 DEF Distinct
<1>4. d = [k \in 1 .. n - 1 |-> IF k = i THEN ms[n] ELSE ms[k]]
  <2>1. \A k \in 1 .. n - 1 :
          (ms[k] = p /\ \A j \in 1 .. k - 1 : ms[j] # p) <=> k = i
    BY <1>1, <1>2, <1>3
  <2> QED
    BY <2>1 DEF DropMember
<1> HIDE DEF d
<1>5. n >= 1 /\ n - 1 \in Nat /\ i \in Nat /\ i >= 1 /\ i <= n
  BY <1>1, <1>2
<1>6. /\ DOMAIN d = 1 .. n - 1
      /\ \A k \in 1 .. n - 1 : d[k] = IF k = i THEN ms[n] ELSE ms[k]
  BY <1>4
<1>7. d \in Seq(Pids) /\ Len(d) = n - 1
  <2>1. \A k \in 1 .. n - 1 : d[k] \in Pids
    BY <1>1, <1>5, <1>6
  <2> HIDE DEF n
  <2> QED
    BY <1>4, <1>5, <1>6, <2>1
<1>8. Distinct(d)
  BY <1>1, <1>2, <1>5, <1>6 DEF Distinct
<1>9. ListOf(d) = ListOf(ms) \ {p}
  <2>1. ASSUME NEW k \in 1 .. n - 1 PROVE d[k] \in ListOf(ms) \ {p}
    <3>1. CASE k = i
      BY <1>1, <1>2, <1>3, <1>5, <1>6, <3>1 DEF ListOf
    <3>2. CASE k # i
      BY <1>1, <1>2, <1>3, <1>5, <1>6, <3>2 DEF ListOf
    <3> QED
      BY <3>1, <3>2
  <2>2. ASSUME NEW k \in 1 .. n, ms[k] # p PROVE ms[k] \in ListOf(d)
    <3>1. CASE k = n
      <4>1. i \in 1 .. n - 1 /\ d[i] = ms[n]
        BY <1>2, <1>5, <1>6, <2>2, <3>1
      <4> QED
        BY <1>6, <3>1, <4>1 DEF ListOf
    <3>2. CASE k # n
      <4>1. k \in 1 .. n - 1
        BY <1>5, <3>2
      <4>2. k # i
        BY <1>2, <2>2
      <4> QED
        BY <1>6, <4>1, <4>2 DEF ListOf
    <3> QED
      BY <3>1, <3>2
  <2> HIDE DEF n
  <2> QED
    BY <1>1, <1>6, <2>1, <2>2 DEF ListOf
<1> QED
  BY <1>7, <1>8, <1>9 DEF d

\* A process with one descriptor leaves once.
LEMMA CloseAllOnce ==
  ASSUME NEW q, NEW p
  PROVE  CloseAll(q, p, 1) = Close(q, p)
<1> DEFINE F(f) == [k \in 1 .. 1 |-> IF k = 1 THEN Close(q, p)
                                              ELSE Close(f[k - 1], p)]
           after == CHOOSE f : f = F(f)
           g == [k \in 1 .. 1 |-> Close(q, p)]
<1>1. CloseAll(q, p, 1) = after[1]
  BY DEF CloseAll
<1>2. g = F(g)
  OBVIOUS
<1>3. after = F(after)
  <2> HIDE DEF F
  <2> QED
    BY <1>2
<1> HIDE DEF after
<1> QED
  BY <1>1, <1>3

\* Appending a process that is not listed.
LEMMA JoinLemma ==
  ASSUME NEW ms \in Seq(Pids), Distinct(ms), NEW c \in Pids, c \notin ListOf(ms),
         NEW t, t = ms \o [i \in 1 .. 1 |-> c]
  PROVE  /\ t \in Seq(Pids) /\ Len(t) = Len(ms) + 1
         /\ Distinct(t)
         /\ ListOf(t) = ListOf(ms) \cup {c}
<1> DEFINE one == [i \in 1 .. 1 |-> c]
<1>1. one \in Seq(Pids) /\ Len(one) = 1 /\ one[1] = c
  OBVIOUS
<1> HIDE DEF one
<1>2. /\ t \in Seq(Pids) /\ Len(t) = Len(ms) + 1
      /\ \A k \in 1 .. Len(ms) : t[k] = ms[k]
      /\ t[Len(ms) + 1] = c
  BY <1>1 DEF one
<1>3. /\ Len(ms) \in Nat /\ DOMAIN ms = 1 .. Len(ms)
      /\ DOMAIN t = 1 .. Len(ms) + 1
  BY <1>2
<1>4. Distinct(t)
  BY <1>2, <1>3 DEF Distinct, ListOf
<1>5. ListOf(t) = ListOf(ms) \cup {c}
  <2>1. \A k \in 1 .. Len(ms) + 1 : t[k] \in ListOf(ms) \cup {c}
    BY <1>2, <1>3 DEF ListOf
  <2>2. \A k \in 1 .. Len(ms) : ms[k] \in ListOf(t)
    BY <1>2, <1>3 DEF ListOf
  <2>3. c \in ListOf(t)
    BY <1>2, <1>3 DEF ListOf
  <2> QED
    BY <1>3, <2>1, <2>2, <2>3 DEF ListOf
<1> QED
  BY <1>2, <1>4, <1>5
-----------------------------------------------------------------------------
(* Types, for every program.                                               *)

SomeQueue == [members : Seq(Pids), st : {"none", "live", "freed", "wrecked"}]

LEMMA CloseTypes ==
  ASSUME NEW q \in SomeQueue, NEW p
  PROVE  Close(q, p) \in SomeQueue
<1>1. CASE q.members = <<>>
  BY <1>1 DEF Close, SomeQueue
<1>2. CASE q.members # <<>>
  <2> DEFINE ms == q.members
  <2>1. ms \in Seq(Pids) /\ ms # <<>> /\ q.st \in {"none", "live", "freed", "wrecked"}
    BY <1>2 DEF SomeQueue
  <2> HIDE DEF ms
  <2>2. Len(ms) - 1 \in Nat /\ \A k \in 1 .. Len(ms) : ms[k] \in Pids
    BY <2>1
  <2>3. DropMember(ms, p) \in [1 .. Len(ms) - 1 -> Pids]
    BY <2>2 DEF DropMember
  <2>4. DropMember(ms, p) \in Seq(Pids)
    BY <2>2, <2>3
  <2>5. Close(q, p) = [members |-> DropMember(ms, p),
                       st |-> IF Len(ms) = 1 THEN "freed" ELSE q.st]
    BY <1>2 DEF Close, ms
  <2> QED BY <2>1, <2>4, <2>5 DEF SomeQueue
<1> QED
  BY <1>1, <1>2

LEMMA CloseAllTypes ==
  ASSUME NEW q \in SomeQueue, NEW p, NEW n \in Nat \ {0}
  PROVE  CloseAll(q, p, n) \in SomeQueue
<1> DEFINE F(f) == [k \in 1 .. n |-> IF k = 1 THEN Close(q, p)
                                              ELSE Close(f[k - 1], p)]
           after == CHOOSE f : f = F(f)
<1>1. CloseAll(q, p, n) = after[n]
  BY DEF CloseAll
<1>2. \E f : f = F(f)
  <2> DEFINE next == [z \in SomeQueue |-> Close(z, p)]
             step == [i \in 2 .. n |-> next]
             first == Close(q, p)
             g == Recursion(SomeQueue, first, 1, n, step)
  <2>1. first \in SomeQueue /\ \A z \in SomeQueue : next[z] \in SomeQueue
    BY CloseTypes
  <2>2. /\ 1 \in Nat /\ n \in Nat /\ 1 <= n
        /\ \A i \in 1 + 1 .. n, z \in SomeQueue : step[i][z] \in SomeQueue
    BY <2>1
  <2>3. /\ g \in [1 .. n -> SomeQueue] /\ g[1] = first
        /\ \A i \in 1 + 1 .. n : g[i] = step[i][g[i - 1]]
    <3>1. Steps(SomeQueue, 1, n, step)
      BY <2>2 DEF Steps
    <3> HIDE DEF first, step
    <3>2. Follows(g, SomeQueue, first, 1, n, step)
      BY <2>1, <2>2, <3>1, RecursionExists, Zenon
    <3> QED BY <3>2 DEF Follows
  <2> HIDE DEF g
  <2>4. ASSUME NEW k \in 1 .. n
        PROVE  g[k] = IF k = 1 THEN Close(q, p) ELSE Close(g[k - 1], p)
    <3>1. CASE k = 1
      BY <2>3, <3>1
    <3>2. CASE k # 1
      <4>1. k \in 1 + 1 .. n /\ k \in 2 .. n /\ k - 1 \in 1 .. n
        BY <3>2
      <4>2. g[k] = step[k][g[k - 1]] /\ g[k - 1] \in SomeQueue
        BY <2>3, <4>1
      <4> QED BY <3>2, <4>1, <4>2
    <3> QED BY <3>1, <3>2
  <2>5. g = F(g)
    BY <2>3, <2>4
  <2> QED BY <2>5
<1>3. after = F(after)
  <2> HIDE DEF F
  <2> QED BY <1>2
<1> HIDE DEF after
<1>4. \A k \in 1 .. n : after[k] = IF k = 1 THEN Close(q, p)
                                            ELSE Close(after[k - 1], p)
  BY <1>3
<1>5. \A k \in 1 .. n : after[k] \in SomeQueue
  <2> DEFINE G == {k \in 1 .. n : after[k] \in SomeQueue}
  <2>1. 1 \in G
    BY <1>4, CloseTypes
  <2>2. ASSUME NEW k \in 1 .. n - 1, k \in G PROVE k + 1 \in G
    <3>1. k + 1 \in 1 .. n /\ k + 1 # 1 /\ k + 1 - 1 = k /\ after[k] \in SomeQueue
      BY <2>2
    <3>2. after[k + 1] = Close(after[k], p)
      BY <1>4, <3>1
    <3> QED BY <3>1, <3>2, CloseTypes
  <2>3. \A k \in 1 .. n : k \in G
    <3>1. 1 \in Nat /\ n \in Nat
      OBVIOUS
    <3> HIDE DEF G
    <3> QED BY <2>1, <2>2, <3>1, IntervalInduction
  <2> QED BY <2>3
<1> QED
  BY <1>1, <1>5

LEMMA OneFdLemma ==
  /\ FirstFd \in Fds
  /\ Cardinality({FirstFd}) = 1
  /\ Cardinality({}) = 0
<1>1. \E fd \in Fds : \A g \in Fds : fd <= g
  BY ConstAssumption, NatLeast
<1> QED
  BY <1>1, FS_Singleton, FS_EmptySet DEF FirstFd

LEMMA FdCount ==
  ASSUME NEW F \in SUBSET Fds
  PROVE  Cardinality(F) \in Nat /\ (F # {} => Cardinality(F) # 0)
<1>1. IsFiniteSet(F)
  BY ConstAssumption, FS_Subset
<1> QED
  BY <1>1, FS_CardinalityType, FS_EmptySet

LEMMA AddresseesTypes ==
  ASSUME members \in Seq(Pids), NEW p, NEW to
  PROVE  Addressees(p, to) \in Seq(Pids)
BY SelectLemma DEF Addressees

\* The first message for p is in the buffer, and no earlier one is for p.
LEMMA RcvIndexLemma ==
  ASSUME buf \in Seq(Message), NEW p, \E i \in DOMAIN buf : buf[i].to = p
  PROVE  /\ RcvIndex(p) \in 1 .. Len(buf)
         /\ buf[RcvIndex(p)].to = p
         /\ \A j \in 1 .. RcvIndex(p) - 1 : buf[j].to # p
<1> DEFINE D == {i \in DOMAIN buf : buf[i].to = p}
<1>1. DOMAIN buf = 1 .. Len(buf) /\ Len(buf) \in Nat
  OBVIOUS
<1>2. \E d \in D : \A e \in D : d <= e
  <2>1. D \subseteq Nat /\ D # {}
    BY <1>1
  <2> HIDE DEF D
  <2> QED BY <2>1, NatLeast
<1>3. /\ RcvIndex(p) \in DOMAIN buf
      /\ buf[RcvIndex(p)].to = p
      /\ \A j \in DOMAIN buf : buf[j].to = p => RcvIndex(p) <= j
  BY <1>2 DEF RcvIndex
<1> QED
  BY <1>1, <1>3

LEMMA TypesStep == TypeOK /\ [Next]_vars => TypeOK'
<1> SUFFICES ASSUME TypeOK, [Next]_vars PROVE TypeOK'
  OBVIOUS
<1>0. /\ alive \subseteq Pids /\ fds \in [Pids -> SUBSET Fds]
      /\ st \in {"none", "live", "freed", "wrecked"} /\ members \in Seq(Pids)
      /\ blocked \subseteq Pids \X Pids /\ buf \in Seq(Message) /\ refs \in {0, 1}
  BY DEF TypeOK
<1>1. ASSUME NEW p \in Pids, CreateMsgQueue(p) PROVE TypeOK'
  BY <1>0, <1>1, OneFdLemma DEF CreateMsgQueue, TypeOK
<1>2. ASSUME NEW p \in Pids, NEW c \in Pids, Fork(p, c) PROVE TypeOK'
  <2> DEFINE n == Cardinality(fds[p])
             new == [i \in 1 .. n |-> c]
  <2>1. n \in Nat
    BY <1>0, FdCount
  <2>2. new \in Seq(Pids)
    <3> HIDE DEF n
    <3> QED BY <2>1
  <2>3. members' = members \o new
    BY <1>2 DEF Fork
  <2> HIDE DEF new
  <2>4. members' \in Seq(Pids)
    BY <1>0, <2>2, <2>3
  <2> QED BY <1>0, <1>2, <2>4 DEF Fork, TypeOK
<1>3. ASSUME NEW p \in Pids, NEW to, NEW b \in Bodies, Send(p, to, b)
      PROVE  TypeOK'
  <2>1. buf' = Posted(buf, p, Addressees(p, to), b)
    BY <1>3 DEF Send, Posted
  <2>2. buf' \in Seq(Message)
    BY <1>0, <2>1, AddresseesTypes, PostedEntries
  <2> QED BY <1>0, <1>3, <2>2 DEF Send, TypeOK
<1>4. ASSUME NEW p \in Pids, Rcv(p) PROVE TypeOK'
  <2>1. buf' = Removed(buf, RcvIndex(p)) /\ \E i \in DOMAIN buf : buf[i].to = p
    BY <1>4 DEF Rcv, RemoveAt, Removed
  <2>2. buf' \in Seq(Message)
    BY <1>0, <2>1, RcvIndexLemma, RemovedLemma
  <2> QED BY <1>0, <1>4, <2>2 DEF Rcv, TypeOK
<1>5. ASSUME NEW p \in Pids, NEW q \in Pids, Block(p, q) PROVE TypeOK'
  BY <1>0, <1>5 DEF Block, TypeOK
<1>6. ASSUME NEW p \in Pids, Exit(p) PROVE TypeOK'
  <2> DEFINE n == Cardinality(fds[p])
  <2>1. n \in Nat /\ (fds[p] # {} => n \in Nat \ {0})
    BY <1>0, FdCount
  <2>2. st' \in {"none", "live", "freed", "wrecked"} /\ members' \in Seq(Pids)
    <3>1. CASE fds[p] = {}
      BY <1>0, <1>6, <3>1 DEF Exit
    <3>2. CASE fds[p] # {}
      <4>1. st' = CloseAll(Queue, p, n).st /\ members' = CloseAll(Queue, p, n).members
        BY <1>6, <3>2 DEF Exit
      <4>2. Queue \in SomeQueue
        BY <1>0 DEF Queue, SomeQueue
      <4>3. CloseAll(Queue, p, n) \in SomeQueue
        <5> HIDE DEF n
        <5> QED BY <2>1, <3>2, <4>2, CloseAllTypes
      <4> QED BY <4>1, <4>3 DEF SomeQueue
    <3> QED BY <3>1, <3>2
  <2>3. refs' \in {0, 1}
    <3>1. refs' = DropRefs(refs, n)
      BY <1>6 DEF Exit
    <3> HIDE DEF n
    <3> QED BY <1>0, <2>1, <3>1 DEF DropRefs
  <2> QED BY <1>0, <1>6, <2>2, <2>3 DEF Exit, TypeOK
<1>7. ASSUME NEW p \in Pids, MsgQueueClose(p) PROVE TypeOK'
  <2>1. st' = Close(Queue, p).st /\ members' = Close(Queue, p).members
    BY <1>7 DEF MsgQueueClose
  <2>2. Queue \in SomeQueue
    BY <1>0 DEF Queue, SomeQueue
  <2>3. st' \in {"none", "live", "freed", "wrecked"} /\ members' \in Seq(Pids)
    BY <2>1, <2>2, CloseTypes DEF SomeQueue
  <2> QED BY <1>0, <1>7, <2>3 DEF MsgQueueClose, TypeOK
<1>8. ASSUME NEW p \in Pids, NEW fd \in Fds, NEW toQueue \in BOOLEAN,
             Dup2(p, fd, toQueue)
      PROVE  TypeOK'
  <2>1. refs' \in {0, 1}
    BY <1>0, <1>8 DEF Dup2, DropRefs
  <2>2. fds' \in [Pids -> SUBSET Fds]
    BY <1>0, <1>8 DEF Dup2
  <2> QED BY <1>0, <1>8, <2>1, <2>2 DEF Dup2, TypeOK
<1>9. CASE UNCHANGED vars
  BY <1>0, <1>9 DEF vars, TypeOK
<1> QED
  BY <1>1, <1>2, <1>3, <1>4, <1>5, <1>6, <1>7, <1>8, <1>9 DEF Next, PlainNext

LEMMA TypesInit == Init => TypeOK
BY ConstAssumption DEF Init, TypeOK, Pids

\* Whatever programs do (closing, duplicating descriptors, exiting in any
\* order), the member list holds process slots, the buffer whole messages and
\* the reference count of the queue's file stays 0 or 1.
THEOREM TypesAlways == Spec => []TypeOK
BY TypesInit, TypesStep, PTL DEF Spec

-----------------------------------------------------------------------------
(* Blocks, for every program.                                              *)

\* The positions in b of the messages from f to t.
Marks(b, f, t) == {i \in DOMAIN b : b[i].from = f /\ b[i].to = t}

LEMMA MarksFinite ==
  ASSUME NEW b \in Seq(Message), NEW f, NEW t
  PROVE  IsFiniteSet(Marks(b, f, t)) /\ Cardinality(Marks(b, f, t)) \in Nat
<1>1. IsFiniteSet(1 .. Len(b)) /\ DOMAIN b = 1 .. Len(b)
  BY FS_Interval
<1>2. Marks(b, f, t) \subseteq 1 .. Len(b)
  BY <1>1 DEF Marks
<1> QED
  BY <1>1, <1>2, FS_Subset, FS_CardinalityType

\* Taking a message out leaves no more messages between any two processes.
LEMMA MarksWithout ==
  ASSUME NEW b \in Seq(Message), NEW i \in 1 .. Len(b), NEW f, NEW t
  PROVE  Cardinality(Marks(Removed(b, i), f, t)) <= Cardinality(Marks(b, f, t))
<1> DEFINE w == Removed(b, i)
           up == [k \in Marks(w, f, t) |-> IF k < i THEN k ELSE k + 1]
<1>1. /\ w \in Seq(Message) /\ Len(w) = Len(b) - 1
      /\ \A k \in 1 .. Len(b) - 1 : w[k] = IF k < i THEN b[k] ELSE b[k + 1]
  BY RemovedLemma
<1> HIDE DEF w
<1>2. Len(b) \in Nat /\ DOMAIN b = 1 .. Len(b) /\ DOMAIN w = 1 .. Len(b) - 1
  BY <1>1
<1>3. ASSUME NEW k \in Marks(w, f, t)
      PROVE  up[k] \in Marks(b, f, t) /\ k \in Nat
  <2>1. k \in 1 .. Len(b) - 1 /\ w[k].from = f /\ w[k].to = t
    BY <1>2 DEF Marks
  <2>2. up[k] \in 1 .. Len(b) /\ w[k] = b[up[k]]
    BY <1>1, <1>2, <2>1
  <2> QED BY <1>2, <2>1, <2>2 DEF Marks
<1>4. up \in Injection(Marks(w, f, t), Marks(b, f, t))
  <2>1. up \in [Marks(w, f, t) -> Marks(b, f, t)]
    BY <1>3
  <2>2. \A k, l \in Marks(w, f, t) : up[k] = up[l] => k = l
    BY <1>3
  <2> HIDE DEF up
  <2> QED BY <2>1, <2>2 DEF Injection, IsInjective
<1> QED
  BY <1>4, MarksFinite, FS_Injection DEF w

\* Nobody a send reaches has blocked its sender.
LEMMA AddresseesOpen ==
  ASSUME members \in Seq(Pids), NEW p \in Pids, NEW to
  PROVE  \A r \in ListOf(Addressees(p, to)) : <<p, r>> \notin blocked
<1>1. ListOf(<<>>) = {}
  BY DEF ListOf
<1>2. CASE to = BROADCAST_PID
  BY <1>2, SelectLemma DEF Addressees
<1>3. CASE to # BROADCAST_PID /\ <<p, to>> \in blocked
  BY <1>1, <1>3 DEF Addressees
<1>4. CASE to # BROADCAST_PID /\ <<p, to>> \notin blocked
  <2>1. ListOf(Select(members, {to})) = ListOf(members) \cap {to}
    BY SelectLemma
  <2> QED BY <1>4, <2>1 DEF Addressees
<1> QED
  BY <1>2, <1>3, <1>4

NoMore == \A pair \in blocked :
            Between(pair[1], pair[2])' <= Between(pair[1], pair[2])

LEMMA BlockStep ==
  ASSUME TypeOK, [Next]_vars
  PROVE  [NoMore]_vars
<1>0. buf \in Seq(Message) /\ members \in Seq(Pids)
  BY DEF TypeOK
<1>1. \A f, t : /\ Between(f, t) = Cardinality(Marks(buf, f, t))
                /\ Between(f, t)' = Cardinality(Marks(buf', f, t))
  BY DEF Between, Marks
<1>2. ASSUME buf' = buf PROVE NoMore
  <2>1. \A f, t : Between(f, t)' = Between(f, t) /\ Between(f, t) \in Nat
    BY <1>0, <1>1, <1>2, MarksFinite
  <2> QED BY <2>1 DEF NoMore
<1>3. ASSUME NEW p \in Pids, NEW to, NEW b \in Bodies, Send(p, to, b)
      PROVE  NoMore
  <2> DEFINE R == Addressees(p, to)
  <2>1. buf' = Posted(buf, p, R, b)
    BY <1>3 DEF Send, Posted
  <2>2. R \in Seq(Pids)
    BY <1>0, AddresseesTypes
  <2>3. \A j \in 1 .. Len(R) : <<p, R[j]>> \notin blocked
    BY <1>0, <2>2, AddresseesOpen DEF ListOf
  <2> HIDE DEF R
  <2>4. /\ Len(buf') = Len(buf) + Len(R) /\ buf' \in Seq(Message)
        /\ \A j \in 1 .. Len(buf) : buf'[j] = buf[j]
    BY <1>0, <2>1, <2>2, PostedEntries, SMTT(20)
  <2>5. \A j \in 1 .. Len(R) : buf'[Len(buf) + j] = [from |-> p, to |-> R[j], body |-> b]
    <3> DEFINE t == Posted(buf, p, R, b)
    <3>1. \A j \in 1 .. Len(R) : t[Len(buf) + j] = [from |-> p, to |-> R[j], body |-> b]
      <4>1. p \in Pids /\ b \in Bodies /\ buf \in Seq(Message) /\ R \in Seq(Pids)
        BY <1>0, <2>2
      <4> QED BY <4>1, PostedNew, Zenon
    <3>2. buf' = t
      BY <2>1
    <3> HIDE DEF t
    <3> QED BY <3>1, <3>2, Zenon
  <2>6. /\ Len(buf) \in Nat /\ Len(R) \in Nat /\ DOMAIN buf = 1 .. Len(buf)
        /\ DOMAIN buf' = 1 .. Len(buf) + Len(R)
    BY <1>0, <2>2, <2>4
  <2>7. ASSUME NEW pair \in blocked
        PROVE  Marks(buf', pair[1], pair[2]) = Marks(buf, pair[1], pair[2])
    <3>0. pair = <<pair[1], pair[2]>>
      BY DEF TypeOK
    <3>1. ASSUME NEW i \in 1 .. Len(buf) + Len(R),
                 buf'[i].from = pair[1], buf'[i].to = pair[2], i > Len(buf)
          PROVE  FALSE
      <4> DEFINE j == i - Len(buf)
      <4>1. j \in 1 .. Len(R) /\ Len(buf) + j = i
        BY <2>6, <3>1
      <4>2. buf'[i] = [from |-> p, to |-> R[j], body |-> b]
        BY <2>5, <4>1
      <4>3. <<p, R[j]>> = pair
        BY <3>0, <3>1, <4>2
      <4> QED BY <2>3, <4>1, <4>3
    <3>2. \A i \in DOMAIN buf : i \in DOMAIN buf' /\ buf'[i] = buf[i]
      BY <2>4, <2>6
    <3>3. \A i \in DOMAIN buf' : i \in DOMAIN buf \/ i > Len(buf)
      BY <2>6
    <3> QED BY <2>6, <3>1, <3>2, <3>3 DEF Marks
  <2>8. \A f, t : Cardinality(Marks(buf, f, t)) \in Nat
    BY <1>0, MarksFinite
  <2>9. ASSUME NEW pair \in blocked
        PROVE  Between(pair[1], pair[2])' <= Between(pair[1], pair[2])
    BY <1>1, <2>7, <2>8
  <2> QED BY <2>9 DEF NoMore
<1>4. ASSUME NEW p \in Pids, Rcv(p) PROVE NoMore
  <2>1. buf' = Removed(buf, RcvIndex(p)) /\ RcvIndex(p) \in 1 .. Len(buf)
    BY <1>0, <1>4, RcvIndexLemma DEF Rcv, RemoveAt, Removed
  <2>2. \A f, t : Between(f, t)' <= Between(f, t)
    BY <1>0, <1>1, <2>1, MarksWithout
  <2> QED BY <2>2 DEF NoMore
<1>5. ASSUME NEW p \in Pids,
             \/ CreateMsgQueue(p) \/ Exit(p) \/ MsgQueueClose(p)
             \/ \E q \in Pids : Fork(p, q) \/ Block(p, q)
             \/ \E fd \in Fds, toQueue \in BOOLEAN : Dup2(p, fd, toQueue)
      PROVE  NoMore
  BY <1>2, <1>5 DEF CreateMsgQueue, Exit, MsgQueueClose, Fork, Block, Dup2
<1> QED
  BY <1>3, <1>4, <1>5 DEF Next, PlainNext

\* Once a receiver has blocked a sender, no call of any process ever adds a
\* message of that sender for it, neither as a unicast nor as a broadcast.
THEOREM BlockIsFinalAlways == Spec => BlockIsFinal
<1>1. TypeOK /\ [Next]_vars => [NoMore]_vars
  BY BlockStep
<1> QED
  BY <1>1, TypesInit, TypesStep, PTL DEF Spec, BlockIsFinal, NoMore
-----------------------------------------------------------------------------
(* The invariant.                                                          *)

\* A plain program has at most one descriptor of the queue, in FirstFd.
OneFd == \A p \in Pids : fds[p] = {} \/ fds[p] = {FirstFd}

\* The queue is live exactly while it has a member.
LiveWithMembers == /\ st \in {"none", "live", "freed"}
                   /\ st = "live" <=> members # <<>>

MemberInv == /\ alive \subseteq Pids
             /\ fds \in [Pids -> SUBSET Fds]
             /\ members \in Seq(Pids)
             /\ OneFd
             /\ LiveWithMembers
             /\ NoDuplicates
             /\ MembersAreHolders

\* Every name of the state the invariant speaks of.
mvars == <<alive, fds, st, members>>

LEMMA CreateStep ==
  ASSUME MemberInv, NEW p \in Pids, CreateMsgQueue(p)
  PROVE  MemberInv'
<1>1. /\ p \in alive /\ members = <<>> /\ st = "none"
      /\ fds' = [fds EXCEPT ![p] = {FirstFd}]
      /\ st' = "live" /\ members' = <<p>> /\ alive' = alive
  BY DEF MemberInv, LiveWithMembers, CreateMsgQueue
<1>2. \A q \in alive : fds[q] = {}
  BY <1>1 DEF MemberInv, MembersAreHolders, Members, Holders
<1>3. /\ fds' \in [Pids -> SUBSET Fds] /\ OneFd'
      /\ \A q \in Pids : fds'[q] = IF q = p THEN {FirstFd} ELSE fds[q]
  BY <1>1, OneFdLemma DEF MemberInv, OneFd
<1>4. members' \in Seq(Pids) /\ DOMAIN members' = {1} /\ members'[1] = p
  BY <1>1
<1>5. MembersAreHolders'
  BY <1>1, <1>2, <1>3, <1>4 DEF MembersAreHolders, Members, Holders, MemberInv
<1>6. NoDuplicates' /\ LiveWithMembers'
  BY <1>1, <1>4 DEF NoDuplicates, LiveWithMembers
<1> QED
  BY <1>1, <1>3, <1>4, <1>5, <1>6 DEF MemberInv

LEMMA ForkStep ==
  ASSUME MemberInv, NEW p \in Pids, NEW c \in Pids, Fork(p, c)
  PROVE  MemberInv'
<1>1. /\ p \in alive /\ c \notin alive /\ alive' = alive \cup {c}
      /\ fds' = [fds EXCEPT ![c] = fds[p]]
      /\ members' = members \o [i \in 1 .. Cardinality(fds[p]) |-> c]
      /\ st' = st
  BY DEF Fork
<1>2. /\ fds' \in [Pids -> SUBSET Fds] /\ OneFd'
      /\ \A q \in Pids : fds'[q] = IF q = c THEN fds[p] ELSE fds[q]
  BY <1>1 DEF MemberInv, OneFd
<1>3. members \in Seq(Pids) /\ Distinct(members) /\ ListOf(members) = Holders
  BY DEF MemberInv, NoDuplicates, Distinct, MembersAreHolders, Members, ListOf
<1>4. c \notin Holders
  BY <1>1 DEF Holders
<1>5. CASE fds[p] = {}
  <2>1. members' = members
    <3>1. [i \in 1 .. 0 |-> c] = <<>>
      OBVIOUS
    <3> QED
      BY <1>1, <1>3, <1>5, <3>1, OneFdLemma
  <2>2. Holders' = Holders
    BY <1>1, <1>2, <1>5 DEF Holders, MemberInv
  <2>3. MembersAreHolders' /\ NoDuplicates' /\ LiveWithMembers'
    BY <1>1, <2>1, <2>2 DEF MemberInv, LiveWithMembers, NoDuplicates,
                            MembersAreHolders, Members
  <2> QED
    BY <1>1, <1>2, <2>1, <2>3 DEF MemberInv
<1>6. CASE fds[p] = {FirstFd}
  <2>1. members' = members \o [i \in 1 .. 1 |-> c]
    BY <1>1, <1>6, OneFdLemma
  <2>2. /\ members' \in Seq(Pids) /\ Len(members') = Len(members) + 1
        /\ Distinct(members')
        /\ ListOf(members') = ListOf(members) \cup {c}
    BY <1>3, <1>4, <2>1, JoinLemma
  <2>3. Holders' = Holders \cup {c}
    BY <1>1, <1>2, <1>6 DEF Holders, MemberInv
  <2>4. members # <<>> /\ members' # <<>>
    <3>1. p \in ListOf(members)
      BY <1>1, <1>3, <1>6 DEF Holders
    <3>2. members # <<>>
      BY <3>1 DEF ListOf
    <3>3. members' # <<>>
      BY <1>3, <2>2
    <3> QED
      BY <3>2, <3>3
  <2>5. NoDuplicates' /\ MembersAreHolders'
    BY <1>3, <2>2, <2>3
       DEF NoDuplicates, Distinct, MembersAreHolders, Members, ListOf
  <2>6. LiveWithMembers'
    BY <1>1, <2>4 DEF LiveWithMembers, MemberInv
  <2> QED
    BY <1>1, <1>2, <2>2, <2>5, <2>6 DEF MemberInv
<1> QED
  BY <1>5, <1>6 DEF MemberInv, OneFd

LEMMA ExitStep ==
  ASSUME MemberInv, NEW p \in Pids, Exit(p)
  PROVE  MemberInv'
<1>1. p \in alive /\ alive' = alive \ {p} /\ fds' = [fds EXCEPT ![p] = {}]
  BY DEF Exit
<1>2. /\ fds' \in [Pids -> SUBSET Fds] /\ OneFd'
      /\ \A q \in Pids : fds'[q] = IF q = p THEN {} ELSE fds[q]
  BY <1>1 DEF MemberInv, OneFd
<1>3. Holders' = Holders \ {p}
  BY <1>1, <1>2 DEF Holders, MemberInv
<1>4. CASE fds[p] = {}
  <2>1. UNCHANGED <<st, members>>
    BY <1>4 DEF Exit
  <2>2. Holders' = Holders
    BY <1>3, <1>4 DEF Holders
  <2> QED
    BY <1>1, <1>2, <2>1, <2>2
       DEF MemberInv, LiveWithMembers, NoDuplicates, MembersAreHolders, Members
<1>5. CASE fds[p] = {FirstFd}
  <2>1. /\ members \in Seq(Pids) /\ Distinct(members)
        /\ ListOf(members) = Holders /\ p \in ListOf(members)
    BY <1>1, <1>5 DEF MemberInv, NoDuplicates, Distinct, MembersAreHolders,
                      Members, ListOf, Holders
  <2>2. members # <<>>
    BY <2>1 DEF ListOf
  <2>3. st = "live"
    BY <2>2 DEF MemberInv, LiveWithMembers
  <2>4. CloseAll(Queue, p, Cardinality(fds[p])) = Close(Queue, p)
    BY <1>5, OneFdLemma, CloseAllOnce
  <2>5. st' = Close(Queue, p).st /\ members' = Close(Queue, p).members
    BY <1>5, <2>4 DEF Exit
  <2>6. /\ members' = DropMember(members, p)
        /\ st' = IF Len(members) = 1 THEN "freed" ELSE st
    BY <2>2, <2>5 DEF Close, Queue
  <2>7. /\ members' \in Seq(Pids) /\ Len(members') = Len(members) - 1
        /\ Distinct(members')
        /\ ListOf(members') = ListOf(members) \ {p}
    BY <2>1, <2>6, DropMemberLemma
  <2>8. LiveWithMembers'
    <3>1. Len(members) \in Nat /\ Len(members) # 0
      BY <2>1, <2>2
    <3>2. members' # <<>> <=> Len(members') # 0
      BY <2>7, SMTT(20)
    <3> QED
      BY <2>3, <2>6, <2>7, <3>1, <3>2 DEF LiveWithMembers
  <2>9. NoDuplicates' /\ MembersAreHolders'
    BY <1>3, <2>1, <2>7
       DEF NoDuplicates, Distinct, MembersAreHolders, Members, ListOf
  <2> QED
    BY <1>1, <1>2, <2>7, <2>8, <2>9 DEF MemberInv
<1> QED
  BY <1>4, <1>5 DEF MemberInv, OneFd

LEMMA MemberInvStep == MemberInv /\ [PlainNext]_vars => MemberInv'
<1> SUFFICES ASSUME MemberInv, [PlainNext]_vars PROVE MemberInv'
  OBVIOUS
<1>1. ASSUME UNCHANGED mvars PROVE MemberInv'
  BY <1>1 DEF mvars, MemberInv, OneFd, LiveWithMembers, NoDuplicates,
              MembersAreHolders, Members, Holders
<1>2. ASSUME NEW p \in Pids, CreateMsgQueue(p) PROVE MemberInv'
  BY <1>2, CreateStep
<1>3. ASSUME NEW p \in Pids, NEW c \in Pids, Fork(p, c) PROVE MemberInv'
  BY <1>3, ForkStep
<1>4. ASSUME NEW p \in Pids, Exit(p) PROVE MemberInv'
  BY <1>4, ExitStep
<1>5. ASSUME NEW p \in Pids,
             \/ Rcv(p)
             \/ \E q \in Pids : Block(p, q)
             \/ \E to \in Pids \cup {BROADCAST_PID}, b \in Bodies : Send(p, to, b)
      PROVE  MemberInv'
  BY <1>1, <1>5 DEF Rcv, Block, Send, mvars
<1>6. CASE UNCHANGED vars
  BY <1>1, <1>6 DEF vars, mvars
<1> QED
  BY <1>2, <1>3, <1>4, <1>5, <1>6 DEF PlainNext

LEMMA MemberInvInit == Init => MemberInv
BY ConstAssumption DEF Init, MemberInv, OneFd, LiveWithMembers, NoDuplicates,
   MembersAreHolders, Members, Holders, Pids

LEMMA MemberInvAlways == PlainSpec => []MemberInv
BY MemberInvInit, MemberInvStep, PTL DEF PlainSpec

\* Every child is added once and every exit takes out the exiting process and
\* no other, for any number of processes forking and exiting in any order.
THEOREM MembershipAlways == PlainSpec => [](NoDuplicates /\ MembersAreHolders)
<1>1. MemberInv => NoDuplicates /\ MembersAreHolders
  BY DEF MemberInv
<1> QED
  BY <1>1, MemberInvAlways, PTL

\* Nobody is listed twice, so that no broadcast is delivered twice to a process.
THEOREM NoDuplicatesAlways == PlainSpec => []NoDuplicates
BY MembershipAlways, PTL

\* The pages are never freed under a process that can still use the queue.
THEOREM NoUseAfterFreeAlways == PlainSpec => []NoUseAfterFree
<1>1. MemberInv => NoUseAfterFree
  BY DEF MemberInv, LiveWithMembers, NoUseAfterFree, MembersAreHolders, Members
<1> QED
  BY <1>1, MemberInvAlways, PTL
-----------------------------------------------------------------------------
(* Plain programs implement the mailboxes.                                 *)

PlainInv == MemberInv /\ TypeOK

LEMMA PlainInvAlways == PlainSpec => []PlainInv
<1>1. [PlainNext]_vars => [Next]_vars
  BY DEF Next
<1> QED
  BY <1>1, MemberInvInit, MemberInvStep, TypesInit, TypesStep, PTL DEF PlainSpec, PlainInv

Mail == [q \in Pids |-> Pending(q)]

\* A step that leaves the buffer alone leaves every mailbox alone.
LEMMA SameMail ==
  ASSUME buf' = buf
  PROVE  Mail' = Mail
BY DEF Mail, Pending

LEMMA MailInit == Init => M!MInit
<1> SUFFICES ASSUME Init PROVE M!MInit
  OBVIOUS
<1>1. members = <<>> /\ buf = <<>> /\ blocked = {}
  BY DEF Init
<1>2. Members = {}
  BY <1>1 DEF Members
<1>3. ASSUME NEW q \in Pids PROVE Pending(q) = <<>>
  <2>1. buf \in Seq(Message) /\ Len(buf) = 0
    BY <1>1
  <2> QED BY <2>1, SelectEmpty DEF Pending
<1> QED
  BY <1>1, <1>2, <1>3 DEF M!MInit

LEMMA MailStep ==
  ASSUME PlainInv, PlainInv', [PlainNext]_vars
  PROVE  [M!MNext]_(M!mvars)
<1>0. /\ buf \in Seq(Message) /\ members \in Seq(Pids)
      /\ Members = ListOf(members) /\ Distinct(members)
      /\ Members = Holders /\ Members' = Holders'
      /\ Members \subseteq Pids /\ fds \in [Pids -> SUBSET Fds]
  BY DEF PlainInv, MemberInv, TypeOK, MembersAreHolders, Members, ListOf, Holders,
         NoDuplicates, Distinct
<1>00. M!mvars = <<Members, Mail, blocked>> /\ (M!mvars)' = <<Members', Mail', blocked'>>
  BY DEF M!mvars, Mail
<1>1. ASSUME NEW p \in Pids, CreateMsgQueue(p) PROVE M!MNext
  <2>1. Members = {}
    BY <1>1 DEF PlainInv, MemberInv, LiveWithMembers, CreateMsgQueue, Members
  <2>2. members' = <<p>> /\ buf' = buf /\ blocked' = blocked
    BY <1>1 DEF CreateMsgQueue
  <2>3. Members' = {p}
    BY <2>2 DEF Members
  <2>4. M!Found(p)
    BY <2>1, <2>2, <2>3, SameMail DEF M!Found, Mail
  <2> QED BY <2>4 DEF M!MNext
<1>2. ASSUME NEW p \in Pids, NEW c \in Pids, Fork(p, c) PROVE [M!MNext]_(M!mvars)
  <2>1. /\ p \in alive /\ c \notin alive /\ alive' = alive \cup {c}
        /\ fds' = [fds EXCEPT ![c] = fds[p]] /\ buf' = buf /\ blocked' = blocked
    BY <1>2 DEF Fork
  <2>2. CASE fds[p] = {}
    <3>1. Members' = Members
      BY <1>0, <2>1, <2>2 DEF Holders
    <3> QED BY <1>00, <2>1, <3>1, SameMail
  <2>3. CASE fds[p] # {}
    <3>1. p \in Members /\ c \notin Members /\ Members' = Members \cup {c}
      BY <1>0, <2>1, <2>3 DEF Holders
    <3>2. M!Join(p, c)
      BY <2>1, <3>1, SameMail DEF M!Join, Mail
    <3> QED BY <3>2 DEF M!MNext
  <2> QED BY <2>2, <2>3
<1>3. ASSUME NEW p \in Pids, Exit(p) PROVE [M!MNext]_(M!mvars)
  <2>1. /\ p \in alive /\ alive' = alive \ {p} /\ fds' = [fds EXCEPT ![p] = {}]
        /\ buf' = buf /\ blocked' = blocked
    BY <1>3 DEF Exit
  <2>2. Members' = Members \ {p}
    BY <1>0, <2>1 DEF Holders
  <2>3. CASE p \in Members
    <3>1. M!Leave(p)
      BY <2>1, <2>2, <2>3, SameMail DEF M!Leave, Mail
    <3> QED BY <3>1 DEF M!MNext
  <2>4. CASE p \notin Members
    BY <1>00, <2>1, <2>2, <2>4, SameMail
  <2> QED BY <2>3, <2>4
<1>4. ASSUME NEW p \in Pids, NEW q \in Pids, Block(p, q) PROVE M!MNext
  <2>1. /\ p \in Members /\ q \in Members /\ blocked' = blocked \cup {<<q, p>>}
        /\ Members' = Members /\ buf' = buf
    BY <1>0, <1>4 DEF Block, HasQueue, Holders, Members
  <2>2. M!Shun(p, q)
    BY <2>1, SameMail DEF M!Shun, Mail
  <2> QED BY <2>2 DEF M!MNext
<1>5. ASSUME NEW p \in Pids, Rcv(p) PROVE M!MNext
  <2> DEFINE i == RcvIndex(p)
  <2>1. /\ p \in Members /\ Members' = Members /\ blocked' = blocked
        /\ buf' = Removed(buf, i) /\ \E j \in DOMAIN buf : buf[j].to = p
    BY <1>0, <1>5 DEF Rcv, HasQueue, Holders, Members, RemoveAt, Removed
  <2>2. /\ i \in 1 .. Len(buf) /\ buf[i].to = p
        /\ \A j \in 1 .. i - 1 : buf[j].to # p
    BY <1>0, <2>1, RcvIndexLemma
  <2> HIDE DEF i
  <2>3. \A m \in Message, q \in Pids : m \in For(q) <=> m.to = q
    BY DEF Message, For
  <2>4. \A j \in 1 .. Len(buf) : buf[j] \in Message
    BY <1>0
  <2>5. ASSUME NEW q \in Pids, q # p PROVE Pending(q)' = Pending(q)
    <3>1. buf[i] \notin For(q)
      BY <2>2, <2>3, <2>4, <2>5
    <3>2. Select(Removed(buf, i), For(q)) = Select(buf, For(q))
      BY <1>0, <2>2, <3>1, SelectWithout
    <3> QED BY <2>1, <3>2 DEF Pending
  <2>6. Pending(p) # <<>> /\ Pending(p)' = Tail(Pending(p))
    <3>1. buf[i] \in For(p) /\ \A j \in 1 .. i - 1 : buf[j] \notin For(p)
      <4>1. \A j \in 1 .. i - 1 : j \in 1 .. Len(buf)
        BY <2>2
      <4> QED BY <2>2, <2>3, <2>4, <4>1
    <3>2. /\ Select(buf, For(p)) # <<>>
          /\ Select(Removed(buf, i), For(p)) = Tail(Select(buf, For(p)))
      BY <1>0, <2>2, <3>1, SelectWithout
    <3> QED BY <2>1, <3>2 DEF Pending
  <2>7. M!Take(p)
    <3>1. Mail[p] # <<>>
      BY <2>6 DEF Mail
    <3>2. Mail' = [Mail EXCEPT ![p] = Tail(@)]
      BY <2>5, <2>6 DEF Mail
    <3> QED BY <2>1, <3>1, <3>2 DEF M!Take, Mail
  <2> QED BY <2>7 DEF M!MNext
<1>6. ASSUME NEW p \in Pids, NEW to \in Pids \cup {BROADCAST_PID}, NEW b \in Bodies,
             Send(p, to, b)
      PROVE  M!MNext
  <2> DEFINE R == Addressees(p, to)
             To == ListOf(R)
             Open == {r \in Members \ {p} : <<p, r>> \notin blocked}
  <2>1. /\ p \in Members /\ Members' = Members /\ blocked' = blocked
        /\ R # <<>> /\ buf' = Posted(buf, p, R, b)
    BY <1>0, <1>6 DEF Send, Posted, HasQueue, Holders, Members
  <2>2. R \in Seq(Pids) /\ Distinct(R)
    <3>1. Distinct(<<>>)
      BY DEF Distinct
    <3> QED BY <1>0, <3>1, SelectLemma, AddresseesTypes DEF Addressees
  <2>3. \/ \E r \in Members : To = {r}
        \/ To = Open
    <3>1. CASE to = BROADCAST_PID
      <4> DEFINE T == {q \in Pids \ {p} : <<p, q>> \notin blocked}
      <4>1. To = Members \cap T
        <5>1. To = ListOf(Select(members, T))
          BY <3>1 DEF Addressees
        <5> HIDE DEF T, To
        <5>2. members \in Seq(Pids)
          BY <1>0
        <5>3. ListOf(Select(members, T)) = ListOf(members) \cap T
          BY <5>2, SelectLemma
        <5> QED BY <1>0, <5>1, <5>3
      <4> QED BY <1>0, <4>1
    <3>2. CASE to # BROADCAST_PID
      <4>1. <<p, to>> \notin blocked
        BY <2>1, <3>2 DEF Addressees
      <4>2. To = Members \cap {to}
        <5> DEFINE T == {to}
        <5>1. To = ListOf(Select(members, T))
          BY <3>2, <4>1 DEF Addressees
        <5>2. To = Members \cap T
          <6> HIDE DEF T, To
          <6>1. members \in Seq(Pids)
            BY <1>0
          <6>2. ListOf(Select(members, T)) = ListOf(members) \cap T
            BY <6>1, SelectLemma
          <6> QED BY <1>0, <5>1, <6>2
        <5> QED BY <5>2
      <4>3. To # {}
        <5>1. 1 \in DOMAIN R
          BY <2>1, <2>2
        <5> QED BY <5>1 DEF ListOf
      <4> QED BY <4>2, <4>3
    <3> QED BY <3>1, <3>2
  <2>4. To # {} /\ To \subseteq Members /\ \A r \in To : <<p, r>> \notin blocked
    <3>1. To # {}
      <4>1. 1 \in DOMAIN R
        BY <2>1, <2>2
      <4> QED BY <4>1 DEF ListOf
    <3> QED BY <1>0, <2>3, <3>1, AddresseesOpen
  <2>5. ASSUME NEW r \in Pids
        PROVE  Pending(r)' = IF r \in To THEN Append(Pending(r), M!Letter(p, r, b))
                                         ELSE Pending(r)
    <3> HIDE DEF R
    <3>1. Select(Posted(buf, p, R, b), For(r)) =
            IF r \in ListOf(R)
            THEN Append(Select(buf, For(r)), [from |-> p, to |-> r, body |-> b])
            ELSE Select(buf, For(r))
      BY <1>0, <2>2, PostLemma
    <3> QED BY <2>1, <3>1 DEF Pending, M!Letter
  <2> HIDE DEF To
  <2>6. M!Deliver(p, To, b)
    <3>1. Mail' = [r \in Pids |-> IF r \in To THEN Append(Mail[r], M!Letter(p, r, b))
                                              ELSE Mail[r]]
      BY <2>5 DEF Mail
    <3> QED BY <2>1, <2>4, <3>1 DEF M!Deliver, Mail
  <2>7. M!Post(p, b)
    BY <2>3, <2>6 DEF M!Post
  <2> QED BY <2>7 DEF M!MNext
<1>7. CASE UNCHANGED vars
  <2>1. buf' = buf /\ Members' = Members /\ blocked' = blocked
    BY <1>7 DEF vars, Members
  <2> QED BY <1>00, <2>1, SameMail
<1> QED
  BY <1>1, <1>2, <1>3, <1>4, <1>5, <1>6, <1>7 DEF PlainNext

\* Plain programs get what the queue promises, for any number of processes and
\* messages: every call is one operation of the abstract mailboxes (found,
\* join, leave, post, take, shun) or changes nothing that they show.
THEOREM MailboxesImplemented == PlainSpec => ImplementsMailboxes
<1>1. PlainInv /\ PlainInv' /\ [PlainNext]_vars => [M!MNext]_(M!mvars)
  BY MailStep
<1> QED
  BY <1>1, MailInit, PlainInvAlways, PTL DEF PlainSpec, ImplementsMailboxes, M!MSpec
=============================================================================
