-------------------------- MODULE TournamentProofs --------------------------
(***************************************************************************)
(* Theorems about Tournament, for any number of players, any programs,     *)
(* rounds and walk-overs.                                                  *)
(***************************************************************************)
EXTENDS Tournament, DataFacts

(* A set of players in order. *)

\* The more players come before one, the higher its number.
LEMMA BelowLemma ==
  ASSUME NEW S \in SUBSET Int, IsFiniteSet(S), NEW p \in S
  PROVE  /\ Below(S, p) \in 0 .. Cardinality(S) - 1
         /\ \A q \in S : q < p => Below(S, q) < Below(S, p)
<1> DEFINE B(v) == {q \in S : q < v}
<1>1. \A v \in S : IsFiniteSet(B(v)) /\ Cardinality(B(v)) \in Nat
  BY FS_Subset, FS_CardinalityType
<1>2. Cardinality(S) \in Nat
  BY FS_CardinalityType
<1>3. Cardinality(B(p)) < Cardinality(S)
  <2>1. B(p) \in SUBSET S /\ B(p) # S
    OBVIOUS
  <2> HIDE DEF B
  <2>2. Cardinality(B(p)) <= Cardinality(S) /\ Cardinality(S) # Cardinality(B(p))
    BY <2>1, FS_Subset
  <2> QED BY <1>1, <1>2, <2>2
<1>4. ASSUME NEW q \in S, q < p PROVE Cardinality(B(q)) < Cardinality(B(p))
  <2>0. p \in Int /\ q \in Int /\ \A v \in S : v \in Int
    OBVIOUS
  <2>1. B(q) \in SUBSET B(p) /\ q \in B(p) /\ q \notin B(q)
    <3>1. \A v \in S : v < q => v < p
      BY <1>4, <2>0
    <3>2. B(q) \in SUBSET B(p)
      BY <3>1
    <3>3. q \in B(p) /\ q \notin B(q)
      BY <1>4, <2>0
    <3> QED BY <3>2, <3>3
  <2>2. IsFiniteSet(B(p))
    BY <1>1
  <2>3. Cardinality(B(q)) \in Nat /\ Cardinality(B(p)) \in Nat
    BY <1>1
  <2> HIDE DEF B
  <2>4. Cardinality(B(q)) <= Cardinality(B(p)) /\ Cardinality(B(p)) # Cardinality(B(q))
    <3>1. B(q) # B(p)
      BY <2>1
    <3> QED BY <2>1, <2>2, <3>1, FS_Subset
  <2> QED BY <2>3, <2>4
<1>5. \A v \in S : Below(S, v) = Cardinality(B(v))
  BY DEF Below
<1> HIDE DEF B
<1> QED
  BY <1>1, <1>2, <1>3, <1>4, <1>5

\* No two players have as many before them.
LEMMA BelowInjective ==
  ASSUME NEW S \in SUBSET Int, IsFiniteSet(S), NEW p \in S, NEW q \in S, Below(S, p) = Below(S, q)
  PROVE  p = q
<1>1. ~ (p < q) /\ ~ (q < p)
  BY BelowLemma
<1> QED
  BY <1>1

\* InOrder lists every player of the set once.
LEMMA InOrderLemma ==
  ASSUME NEW S \in SUBSET Int, IsFiniteSet(S)
  PROVE  /\ InOrder(S) \in Seq(S) /\ Len(InOrder(S)) = Cardinality(S) /\ Cardinality(S) \in Nat
         /\ \A k \in 1 .. Cardinality(S) : Below(S, InOrder(S)[k]) = k - 1
         /\ \A p \in S : \E k \in 1 .. Cardinality(S) : InOrder(S)[k] = p
<1> DEFINE c == Cardinality(S)
           R == [p \in S |-> Below(S, p)]
           O == [k \in 1 .. c |-> CHOOSE p \in S : Below(S, p) = k - 1]
<1>1. c \in Nat
  BY FS_CardinalityType
<1>2. R \in Surjection(S, 0 .. c - 1)
  <2>1. R \in [S -> 0 .. c - 1]
    BY BelowLemma
  <2>2. R \in Injection(S, 0 .. c - 1)
    <3>1. \A p, q \in S : R[p] = R[q] => p = q
      BY BelowInjective
    <3> HIDE DEF R
    <3> QED BY <2>1, <3>1 DEF Injection, IsInjective
  <2>3. IsFiniteSet(0 .. c - 1) /\ Cardinality(0 .. c - 1) = c
    BY <1>1, FS_Interval
  <2> HIDE DEF R
  <2> QED BY <2>2, <2>3, FS_Injection
<1>3. ASSUME NEW k \in 1 .. c PROVE O[k] \in S /\ Below(S, O[k]) = k - 1
  <2>1. k - 1 \in 0 .. c - 1
    BY <1>1
  <2>2. \E p \in S : R[p] = k - 1
    BY <1>2, <2>1 DEF Surjection
  <2> QED BY <2>2
<1>4. O \in [1 .. c -> S] /\ O \in Seq(S) /\ Len(O) = c
  BY <1>1, <1>3
<1>5. ASSUME NEW p \in S PROVE \E k \in 1 .. c : O[k] = p
  <2>1. Below(S, p) + 1 \in 1 .. c /\ Below(S, p) = (Below(S, p) + 1) - 1
    BY <1>1, BelowLemma
  <2>2. Below(S, O[Below(S, p) + 1]) = Below(S, p) /\ O[Below(S, p) + 1] \in S
    BY <1>3, <2>1
  <2> QED BY <2>1, <2>2, BelowInjective
<1>6. O = InOrder(S)
  BY DEF InOrder
<1> HIDE DEF O
<1> QED
  BY <1>1, <1>3, <1>4, <1>5, <1>6

\* It is the only list with k - 1 players of the set before the k-th.
LEMMA InOrderUnique ==
  ASSUME NEW S \in SUBSET Int, IsFiniteSet(S), NEW t \in Seq(S), Len(t) = Cardinality(S),
         \A k \in 1 .. Cardinality(S) : Below(S, t[k]) = k - 1
  PROVE  t = InOrder(S)
<1> DEFINE O == InOrder(S)
           c == Cardinality(S)
<1>1. O \in Seq(S) /\ Len(O) = c /\ c \in Nat /\ \A k \in 1 .. c : Below(S, O[k]) = k - 1
  BY InOrderLemma
<1> HIDE DEF O, c
<1>2. ASSUME NEW k \in 1 .. c PROVE t[k] = O[k]
  <2>1. Below(S, t[k]) = k - 1 /\ Below(S, O[k]) = k - 1
    BY <1>1 DEF c
  <2>2. t[k] \in S /\ O[k] \in S
    BY <1>1 DEF c
  <2> DEFINE u == t[k]  w == O[k]
  <2>3. u \in S /\ w \in S /\ Below(S, u) = Below(S, w)
    BY <2>1, <2>2
  <2> HIDE DEF u, w
  <2>4. u = w
    BY <2>3, BelowInjective
  <2> QED BY <2>4 DEF u, w
<1>3. t = O
  BY <1>1, <1>2 DEF c
<1> QED
  BY <1>3 DEF O

\* Leaving out the j-th of the list leaves the others in order.
LEMMA RemoveInOrder ==
  ASSUME NEW S \in SUBSET Int, IsFiniteSet(S), NEW j \in 1 .. Cardinality(S)
  PROVE  RemoveAt(InOrder(S), j) = InOrder(S \ {InOrder(S)[j]})
<1> DEFINE O == InOrder(S)
           c == Cardinality(S)
           v == O[j]
           T == S \ {v}
           t == Removed(O, j)
<1>1. /\ O \in Seq(S) /\ Len(O) = c /\ c \in Nat /\ j \in 1 .. c
      /\ \A k \in 1 .. c : Below(S, O[k]) = k - 1
  BY InOrderLemma
<1> HIDE DEF O, c
<1>2. v \in S /\ \A k \in 1 .. c : O[k] \in S
  BY <1>1
<1>3. t \in Seq(S) /\ Len(t) = c - 1 /\ \A k \in 1 .. c - 1 : t[k] = IF k < j THEN O[k] ELSE O[k + 1]
  BY <1>1, RemovedLemma
<1>4. T \in SUBSET Int /\ IsFiniteSet(T) /\ Cardinality(T) = c - 1
  BY <1>2, FS_RemoveElement DEF c
<1> HIDE DEF t
<1>5. ASSUME NEW k \in 1 .. c - 1 PROVE t[k] \in T /\ Below(T, t[k]) = k - 1
  <2> DEFINE w == t[k]
  <2>1. w \in S /\ Below(S, w) = IF k < j THEN k - 1 ELSE k
    BY <1>1, <1>2, <1>3
  <2>2. Below(S, v) = j - 1
    BY <1>1
  <2> HIDE DEF w, v
  <2>3. w # v /\ w \in Int /\ v \in Int
    BY <1>1, <1>2, <2>1, <2>2
  <2>4. v < w <=> ~ (k < j)
    <3>1. v < w => Below(S, v) < Below(S, w)
      BY <1>2, <2>1, BelowLemma
    <3>2. w < v => Below(S, w) < Below(S, v)
      BY <1>2, <2>1, BelowLemma
    <3> QED BY <1>1, <2>1, <2>2, <2>3, <3>1, <3>2
  <2> DEFINE G == {q \in S : q < w}
  <2>5. IsFiniteSet(G) /\ Cardinality(G) \in Nat /\ Cardinality(G) = Below(S, w)
    BY FS_Subset, FS_CardinalityType DEF Below
  <2>6. {q \in T : q < w} = G \ {v} /\ (v \in G <=> v < w)
    BY <1>2
  <2> HIDE DEF G
  <2>7. Cardinality(G \ {v}) = IF v \in G THEN Cardinality(G) - 1 ELSE Cardinality(G)
    BY <2>5, FS_RemoveElement
  <2>8. Below(T, w) = Cardinality(G \ {v})
    BY <2>6 DEF Below
  <2>9. w \in T /\ Below(T, w) = k - 1
    BY <2>1, <2>3, <2>4, <2>5, <2>6, <2>7, <2>8
  <2> QED BY <2>9 DEF w
<1> HIDE DEF T
<1>6. t \in Seq(T)
  BY <1>1, <1>3, <1>5
<1>7. t = InOrder(T)
  BY <1>3, <1>4, <1>5, <1>6, InOrderUnique
<1>8. t = RemoveAt(O, j)
  BY DEF t, Removed, RemoveAt
<1> QED
  BY <1>7, <1>8 DEF T, v, O

-----------------------------------------------------------------------------
(* Nobody is asked twice. *)

\* Whom the umpire waits for.
Asked(p) == \/ at = "read1" /\ p = First
            \/ at = "read2" /\ p = Second

\* The moves p may throw.
Throws(p) == {Answer(program[p], k) : k \in Nat}

PlayerInv(p) == Plays(p) =>
    /\ go[p] \in Nat /\ made[p] \in Nat /\ answer[p] \in Seq(Throws(p))
    /\ player[p] \in {"none", "reads", "moves"}
    /\ Owed(p) = IF Asked(p) THEN 1 ELSE 0

Shape == /\ player = [p \in Players |-> player[p]]
         /\ go = [p \in Players |-> go[p]] /\ made = [p \in Players |-> made[p]]
         /\ answer = [p \in Players |-> answer[p]]

PlayersInv == Shape /\ \A p \in Players : PlayerInv(p)

-----------------------------------------------------------------------------
\* Neither the programs nor the arrays change their shape.
LEMMA ShapeStep ==
  ASSUME Shape, [Next]_vars
  PROVE  Shape' /\ program' = program
<1>1. CASE Umpire
  BY <1>1 DEF Umpire, Shape, Fork, Start, EndFork, Stage, Ask1, Read1, Ask2, Read2, EndMatch,
              Survivors, Exit, Ask, Take, pvars
<1>2. ASSUME NEW p \in Players, PlayerStep(p) PROVE Shape' /\ program' = program
  BY <1>2 DEF PlayerStep, Play, Hear, Throw, Shape
<1>3. CASE UNCHANGED vars
  BY <1>3 DEF vars, pvars, Shape
<1> QED
  BY <1>1, <1>2, <1>3 DEF Next

\* A player that hears or throws owes what it owed.
LEMMA PlayKeeps ==
  ASSUME PlayersInv, NEW q \in Players, PlayerStep(q), program' = program
  PROVE  \A p \in Players : PlayerInv(p)'
<1> SUFFICES ASSUME NEW p \in Players, Plays(p) PROVE PlayerInv(p)'
  BY DEF PlayerInv, Plays
<1>1. /\ go[p] \in Nat /\ made[p] \in Nat /\ answer[p] \in Seq(Throws(p)) /\ Len(answer[p]) \in Nat
      /\ player[p] \in {"none", "reads", "moves"}
      /\ Owed(p) = IF Asked(p) THEN 1 ELSE 0
  BY DEF PlayersInv, PlayerInv
<1>2. (Asked(p)' <=> Asked(p)) /\ Throws(p)' = Throws(p)
  BY DEF PlayerStep, Asked, First, Second, bracket, Throws
<1>3. CASE p # q
  BY <1>1, <1>2, <1>3 DEF PlayersInv, Shape, PlayerStep, Play, Hear, Throw, PlayerInv, Owed
<1>4. CASE p = q /\ Hear(p)
  <2>1. /\ player[p] = "reads" /\ player'[p] = "moves" /\ go[p] > 0 /\ go'[p] = go[p] - 1
        /\ UNCHANGED <<answer, made>>
    BY <1>4 DEF Hear, PlayersInv, Shape
  <2>2. Owed(p)' = Owed(p)
    BY <1>1, <2>1 DEF Owed
  <2> QED
    BY <1>1, <1>2, <2>1, <2>2 DEF PlayerInv
<1>5. CASE p = q /\ Throw(p)
  <2> DEFINE move == Answer(program[p], made[p] + 1)
  <2>1. /\ player[p] = "moves" /\ player'[p] = "reads" /\ made'[p] = made[p] + 1
        /\ answer'[p] = Append(answer[p], move) /\ UNCHANGED go
    BY <1>5 DEF Throw, PlayersInv, Shape
  <2>2. move \in Throws(p)
    BY <1>1 DEF Throws
  <2> HIDE DEF move
  <2>3. answer'[p] \in Seq(Throws(p)) /\ Len(answer'[p]) = Len(answer[p]) + 1
    BY <1>1, <2>1, <2>2
  <2>4. Owed(p)' = Owed(p)
    BY <1>1, <2>1, <2>3 DEF Owed
  <2> QED
    BY <1>1, <1>2, <2>1, <2>3, <2>4 DEF PlayerInv
<1> QED
  BY <1>3, <1>4, <1>5 DEF PlayerStep, Play

\* A GO, when nobody owes anything, makes its receiver owe one move.
LEMMA AskKeeps ==
  ASSUME PlayersInv, NEW q, Ask(q), \A p \in Players : ~Asked(p) /\ (Asked(p)' <=> p = q),
         UNCHANGED <<program, player, answer, made>>
  PROVE  \A p \in Players : PlayerInv(p)'
<1> SUFFICES ASSUME NEW p \in Players, Plays(p) PROVE PlayerInv(p)'
  BY DEF PlayerInv, Plays
<1>1. /\ go[p] \in Nat /\ made[p] \in Nat /\ answer[p] \in Seq(Throws(p)) /\ Len(answer[p]) \in Nat
      /\ player[p] \in {"none", "reads", "moves"} /\ Owed(p) = 0
  BY DEF PlayersInv, PlayerInv
<1>2. Throws(p)' = Throws(p)
  BY DEF Throws
<1>3. go'[p] = IF p = q THEN go[p] + 1 ELSE go[p]
  BY DEF Ask, PlayersInv, Shape
<1>4. Owed(p)' = IF p = q THEN 1 ELSE 0
  BY <1>1, <1>3 DEF Owed
<1> QED
  BY <1>1, <1>2, <1>3, <1>4 DEF PlayerInv

\* The umpire goes on when it has the one move that it waited for.
LEMMA TakeKeeps ==
  ASSUME PlayersInv, NEW q, Hears(q), Take(q),
         \A p \in Players : (Asked(p) <=> p = q) /\ ~Asked(p)',
         UNCHANGED <<program, player, go, made>>
  PROVE  \A p \in Players : PlayerInv(p)'
<1> SUFFICES ASSUME NEW p \in Players, Plays(p) PROVE PlayerInv(p)'
  BY DEF PlayerInv, Plays
<1>1. /\ go[p] \in Nat /\ made[p] \in Nat /\ answer[p] \in Seq(Throws(p)) /\ Len(answer[p]) \in Nat
      /\ player[p] \in {"none", "reads", "moves"}
      /\ Owed(p) = IF p = q THEN 1 ELSE 0
  BY DEF PlayersInv, PlayerInv
<1>2. Throws(p)' = Throws(p)
  BY DEF Throws
<1>3. answer'[p] = IF p = q THEN Tail(answer[p]) ELSE answer[p]
  BY DEF Take, PlayersInv, Shape
<1>4. CASE p = q
  <2>1. answer[p] # <<>>
    BY <1>4 DEF Hears
  <2>2. answer'[p] \in Seq(Throws(p)) /\ Len(answer'[p]) = Len(answer[p]) - 1
    BY <1>1, <1>3, <1>4, <2>1
  <2>3. Owed(p)' = 0
    BY <1>1, <1>4, <2>2 DEF Owed
  <2> QED
    BY <1>1, <1>2, <2>2, <2>3 DEF PlayerInv
<1>5. CASE p # q
  BY <1>1, <1>2, <1>3, <1>5 DEF PlayerInv, Owed
<1> QED
  BY <1>4, <1>5

\* Every other step of the umpire leaves the pipes alone, and nobody is waited for
\* before or after it.
LEMMA OtherKeeps ==
  ASSUME PlayersInv, Fork \/ EndFork \/ Stage \/ EndMatch \/ Survivors \/ Exit, program' = program
  PROVE  \A p \in Players : PlayerInv(p)'
<1> SUFFICES ASSUME NEW p \in Players, Plays(p) PROVE PlayerInv(p)'
  BY DEF PlayerInv, Plays
<1>1. /\ go[p] \in Nat /\ made[p] \in Nat /\ answer[p] \in Seq(Throws(p))
      /\ player[p] \in {"none", "reads", "moves"}
      /\ Owed(p) = IF Asked(p) THEN 1 ELSE 0
  BY DEF PlayersInv, PlayerInv
<1>2. ~Asked(p) /\ ~Asked(p)' /\ Throws(p)' = Throws(p)
  BY DEF Fork, EndFork, Stage, EndMatch, Survivors, Exit, Asked, Throws
<1>3. UNCHANGED <<go, made>> /\ answer'[p] = answer[p]
  BY DEF Fork, Start, EndFork, Stage, EndMatch, Survivors, Exit, pvars, PlayersInv, Shape
<1>4. player'[p] = player[p] \/ (player[p] = "none" /\ player'[p] = "reads")
  BY DEF Fork, Start, EndFork, Stage, EndMatch, Survivors, Exit, pvars, PlayersInv, Shape
<1>5. Owed(p)' = Owed(p)
  BY <1>3, <1>4 DEF Owed
<1> QED
  BY <1>1, <1>2, <1>3, <1>4, <1>5 DEF PlayerInv

LEMMA PlayersInvStep == PlayersInv /\ [Next]_vars => PlayersInv'
<1> SUFFICES ASSUME PlayersInv, [Next]_vars PROVE PlayersInv'
  OBVIOUS
<1>1. Shape' /\ program' = program
  BY ShapeStep DEF PlayersInv
<1> SUFFICES \A p \in Players : PlayerInv(p)'
  BY <1>1 DEF PlayersInv
<1>2. CASE Ask1
  <2>1. First' = First
    BY <1>2 DEF Ask1, First, bracket
  <2>2. \A p \in Players : ~Asked(p) /\ (Asked(p)' <=> p = First)
    BY <1>2, <2>1 DEF Ask1, Asked
  <2> QED
    BY <1>2, <2>2, AskKeeps DEF Ask1
<1>3. CASE Ask2
  <2>1. Second' = Second
    BY <1>3 DEF Ask2, Second, bracket
  <2>2. \A p \in Players : ~Asked(p) /\ (Asked(p)' <=> p = Second)
    BY <1>3, <2>1 DEF Ask2, Asked
  <2> QED
    BY <1>3, <2>2, AskKeeps DEF Ask2
<1>4. CASE Read1
  BY <1>4, TakeKeeps DEF Read1, Asked
<1>5. CASE Read2
  BY <1>5, TakeKeeps DEF Read2, Asked
<1>6. CASE UNCHANGED vars
  BY <1>6 DEF vars, pvars, bracket, PlayersInv, PlayerInv, Plays, Throws, Owed, Asked, First, Second
<1> QED
  BY <1>1, <1>2, <1>3, <1>4, <1>5, <1>6, OtherKeeps, PlayKeeps DEF Next, Umpire

\* In every tournament the pipes of a player that exists hold a GO or a move only
\* while the umpire waits for that player: no match is scored on a move thrown in
\* another one (umpire2.c:105-139).
THEOREM InStepAlways == Spec => []InStep
<1>1. Init => PlayersInv
  BY DEF Init, PInit, PlayersInv, Shape, PlayerInv, Owed, Asked
<1>2. PlayersInv => InStep
  <2> SUFFICES ASSUME PlayersInv, NEW p \in Players, Plays(p)
               PROVE  Owed(p) = IF \/ at = "read1" /\ p = First
                                   \/ at = "read2" /\ p = Second THEN 1 ELSE 0
    BY DEF InStep
  <2>1. Owed(p) = IF Asked(p) THEN 1 ELSE 0
    BY DEF PlayersInv, PlayerInv
  <2> QED
    BY <2>1 DEF Asked
<1> QED
  BY <1>1, <1>2, PlayersInvStep, PTL DEF Spec

-----------------------------------------------------------------------------
(* The knockout. *)

InStage == at \in {"ask1", "read1", "ask2", "read2", "print"}

\* The k-th byte that ever comes from p, and the k-th of its match in this stage.
Source(p, k) == IF Plays(p) THEN Answer(program[p], k) ELSE Leftover(p, n)[k]
Byte(p, k) == Source(p, played[p] * N + k)

\* The rounds of that match the umpire has read p's byte of, and the bytes it has
\* read of p.
Rounds(p) == IF ~ InStage THEN 0
             ELSE IF \E j \in 1 .. 2 * i - 2 : a[j] = p THEN N
             ELSE IF p = First THEN r + (IF at \in {"ask2", "read2"} THEN 1 ELSE 0)
             ELSE IF p = Second THEN r ELSE 0
Taken(p) == played[p] * N + Rounds(p)

\* The rounds the first and the second player win, among the first k.
FirstWins(k, p, q) == {m \in 1 .. k : BeatsOrSpoilt(Byte(p, m), Byte(q, m))}
SecondWins(k, p, q) == {m \in 1 .. k : Beats(Byte(q, m), Byte(p, m))}
Winner(p, q) == IF Cardinality(FirstWins(N, p, q)) >= Cardinality(SecondWins(N, p, q))
                THEN p ELSE q

GameOK == /\ n \in Nat \ {0} /\ N \in Nat /\ 0 .. n - 1 \subseteq Players
          /\ DOMAIN program = Players /\ \A p \in Players : IsProgram(program[p])

\* What is in the pipe of a player follows what the umpire has read from it.
PipeOK(p) ==
    /\ answer[p] \in Seq(Bytes) /\ made[p] \in Nat /\ played[p] \in Nat
    /\ Plays(p) => made[p] = Taken(p) + Len(answer[p])
    /\ ~ Plays(p) => \/ player[p] = "none" /\ answer[p] = <<>> /\ Taken(p) = 0
                     \/ player[p] = "gone" /\ Taken(p) + Len(answer[p]) = Len(Leftover(p, n))
    /\ \A k \in 1 .. Len(answer[p]) : answer[p][k] = Source(p, Taken(p) + k)

\* Until all players are forked, nobody has played.
ForkOK == /\ IsFiniteSet(active) /\ active = 0 .. Cardinality(active) - 1
          /\ Cardinality(active) <= n /\ total = n /\ out = <<active>>
          /\ \A p \in Players : played[p] = 0

FieldOK == /\ out \in Seq(SUBSET (0 .. n - 1)) /\ out # <<>>
           /\ total = Cardinality(Field) /\ total >= 1
           /\ ~ InStage => active = Field

\* The players drawn are the field, or all but one of it, in order.
DrawOK == /\ \E S \in {Field} \cup {Field \ {p} : p \in Field} : a = InOrder(S)
          /\ Len(a) = 2 * (total \div 2) /\ total >= 2

\* The matches of the stage that are decided.
Done == IF at = "print" THEN i ELSE i - 1

\* In play are the players not drawn, those of later matches, and the winners.
In(p) == /\ p \in Field
         /\ \/ \A j \in 1 .. 2 * Done : a[j] # p
            \/ \E k \in 1 .. Done : p = Winner(a[2 * k - 1], a[2 * k])

MatchOK == /\ i \in 1 .. total \div 2 /\ (at = "print" => i = total \div 2)
           /\ r \in 0 .. N
           /\ at \in {"read1", "ask2", "read2"} => r < N
           /\ at = "print" => r = N
           /\ \A p : p \in active <=> In(p)
           /\ Cardinality(active) = total - Done

ScoreOK == /\ at \in {"ask2", "read2"} => x = Byte(First, r + 1)
           /\ p1 = Cardinality(FirstWins(r, First, Second))
           /\ p2 = Cardinality(SecondWins(r, First, Second))

BracketOK == /\ at \in {"fork", "stage", "exit"} \/ InStage
             /\ x \in Bytes
             /\ at = "fork" => ForkOK
             /\ at # "fork" => FieldOK
             /\ InStage => DrawOK /\ MatchOK
             /\ InStage /\ at # "print" => ScoreOK

Arrays == /\ player = [p \in Players |-> player[p]] /\ answer = [p \in Players |-> answer[p]]
          /\ made = [p \in Players |-> made[p]] /\ played = [p \in Players |-> played[p]]

KnockoutInv == Arrays /\ GameOK /\ BracketOK /\ \A p \in Players : PipeOK(p)

-----------------------------------------------------------------------------
\* A program that exists answers with a move.
LEMMA AnswerLemma ==
  ASSUME NEW m, IsProgram(m), m # Missing, NEW k \in Nat \ {0}
  PROVE  Answer(m, k) \in Bytes
<1>1. /\ m.moves \in Seq(Moves) /\ m.after \in {"again", "rock"}
      /\ m.after = "again" => m.moves # <<>>
  BY DEF IsProgram
<1>2. CASE k \in DOMAIN m.moves
  BY <1>1, <1>2 DEF Answer, Bytes
<1>3. CASE k \notin DOMAIN m.moves /\ m.after = "again"
  <2>1. Len(m.moves) \in Nat \ {0} /\ DOMAIN m.moves = 1 .. Len(m.moves)
    BY <1>1, <1>3
  <2>2. ((k - 1) % Len(m.moves)) + 1 \in DOMAIN m.moves
    <3>1. \A u \in Nat \ {0}, v \in Int : v % u \in 0 .. u - 1
      OBVIOUS
    <3> DEFINE u == Len(m.moves)
    <3>2. k - 1 \in Int /\ u \in Nat \ {0}
      BY <2>1
    <3> HIDE DEF u
    <3>3. (k - 1) % u \in 0 .. u - 1
      BY <3>1, <3>2, Zenon
    <3>4. ((k - 1) % u) + 1 \in 1 .. u
      BY <3>2, <3>3
    <3> QED BY <2>1, <3>4 DEF u
  <2> QED
    BY <1>1, <1>3, <2>2 DEF Answer, Bytes
<1>4. CASE k \notin DOMAIN m.moves /\ m.after = "rock"
  BY <1>4 DEF Answer, Bytes, Moves
<1> QED
  BY <1>1, <1>2, <1>3, <1>4

\* What a child leaves that could not be started.
LEMMA LeftoverLemma ==
  ASSUME NEW m \in Nat \ {0}, NEW p \in 0 .. m - 1
  PROVE  Leftover(p, m) \in Seq(Bytes) /\ Len(Leftover(p, m)) \in Nat
<1> DEFINE l == IF p = m - 1 THEN 3 * m - 1 ELSE 3 * (p + 1)
           B(k) == IF k % 3 = 2 /\ k \div 3 \in Moves THEN k \div 3 ELSE Other
<1>1. l \in Nat
  OBVIOUS
<1>2. \A k \in 1 .. l : B(k) \in Bytes
  BY DEF Bytes
<1>3. Leftover(p, m) = [k \in 1 .. l |-> B(k)]
  BY DEF Leftover
<1> HIDE DEF l, B
<1> QED
  BY <1>1, <1>2, <1>3

\* The umpire's comparison follows the rules, whatever byte a child has left.
LEMMA RulesLemma ==
  ASSUME NEW b \in Bytes, NEW c \in Bytes
  PROVE  (Wins(b, c) <=> BeatsOrSpoilt(b, c)) /\ (Loses(b, c) <=> Beats(c, b))
  BY DEF Bytes, Moves, Other, Rock, Paper, Scissors, Wins, Loses, BeatsOrSpoilt, Beats

\* What holds of every step.
Step == KnockoutInv /\ [Next]_vars

LEMMA Constant ==
  ASSUME Step
  PROVE  /\ Arrays /\ GameOK /\ BracketOK /\ \A p \in Players : PipeOK(p)
         /\ UNCHANGED <<program, n, N>> /\ GameOK'
         /\ \A p : Plays(p)' <=> Plays(p)
         /\ \A p, k : Source(p, k)' = Source(p, k)
         /\ n \in Nat \ {0} /\ N \in Nat
<1>1. Arrays /\ GameOK /\ BracketOK /\ \A p \in Players : PipeOK(p)
  BY DEF Step, KnockoutInv
<1>2. program' = program
  BY DEF Step, Next, vars, Umpire, Fork, Start, EndFork, Stage, Ask1, Read1, Ask2, Read2, EndMatch,
         Survivors, Exit, pvars, PlayerStep, Play, Hear, Throw
<1>3. UNCHANGED <<n, N>>
  BY DEF Step, Next, vars, Umpire, Fork, EndFork, Stage, Ask1, Read1, Ask2, Read2, EndMatch,
         Survivors, Exit, game, PlayerStep
<1>4. GameOK'
  BY <1>1, <1>2, <1>3 DEF GameOK
<1> QED
  BY <1>1, <1>2, <1>3, <1>4 DEF GameOK, Plays, Source

LEMMA ArraysStep ==
  ASSUME Step
  PROVE  Arrays'
<1>1. CASE Umpire
  BY <1>1, Constant DEF Umpire, Arrays, Fork, Start, EndFork, Stage, Ask1, Read1, Ask2, Read2, EndMatch,
              Survivors, Exit, Ask, Take, pvars
<1>2. ASSUME NEW p \in Players, PlayerStep(p) PROVE Arrays'
  BY <1>2, Constant DEF PlayerStep, Play, Hear, Throw, Arrays
<1>3. CASE UNCHANGED vars
  BY <1>3, Constant DEF vars, pvars, Arrays
<1> QED
  BY <1>1, <1>2, <1>3 DEF Next, Step

\* The players drawn are players of the field, all different.
LineOK == /\ a \in Seq(Field) /\ Len(a) = 2 * (total \div 2)
          /\ \A j, k \in 1 .. Len(a) : a[j] = a[k] => j = k
          /\ total \in Nat /\ total >= 2 /\ Field \subseteq 0 .. n - 1
          /\ \A j \in 1 .. Len(a) : a[j] \in Field /\ a[j] \in Players /\ a[j] \in 0 .. n - 1

LEMMA FieldIs ==
  ASSUME GameOK, FieldOK
  PROVE  /\ Field \subseteq 0 .. n - 1 /\ IsFiniteSet(Field) /\ Field \in SUBSET Int
         /\ total \in Nat
<1>1. n \in Nat
  BY DEF GameOK
<1>2. Field \subseteq 0 .. n - 1
  <2>1. Len(out) \in 1 .. Len(out) /\ out[Len(out)] \in SUBSET (0 .. n - 1)
    BY DEF FieldOK
  <2> QED BY <2>1 DEF Field, Last
<1>3. IsFiniteSet(0 .. n - 1)
  BY <1>1, FS_Interval
<1>4. IsFiniteSet(Field)
  BY <1>2, <1>3, FS_Subset
<1>5. total \in Nat
  BY <1>4, FS_CardinalityType DEF FieldOK
<1> QED
  BY <1>1, <1>2, <1>4, <1>5

LEMMA LineFacts ==
  ASSUME GameOK, FieldOK, DrawOK
  PROVE  LineOK
<1>1. Field \subseteq 0 .. n - 1 /\ IsFiniteSet(Field) /\ Field \in SUBSET Int /\ total \in Nat
  BY FieldIs
<1>2. PICK S \in {Field} \cup {Field \ {p} : p \in Field} : a = InOrder(S)
  BY DEF DrawOK
<1>3. S \in SUBSET Field
  BY <1>2
<1>4. IsFiniteSet(S) /\ S \in SUBSET Int
  BY <1>1, <1>3, FS_Subset
<1>5. /\ a \in Seq(S) /\ Len(a) = Cardinality(S) /\ Cardinality(S) \in Nat
      /\ \A k \in 1 .. Cardinality(S) : Below(S, a[k]) = k - 1
  BY <1>2, <1>4, InOrderLemma
<1>6. a \in Seq(Field)
  BY <1>3, <1>5
<1>7. ASSUME NEW j \in 1 .. Len(a), NEW k \in 1 .. Len(a), a[j] = a[k] PROVE j = k
  <2>1. Below(S, a[j]) = j - 1 /\ Below(S, a[k]) = k - 1
    BY <1>5
  <2> QED BY <1>7, <2>1
<1>8. \A j \in 1 .. Len(a) : a[j] \in Field /\ a[j] \in Players /\ a[j] \in 0 .. n - 1
  <2>1. \A j \in 1 .. Len(a) : a[j] \in Field
    BY <1>6
  <2>2. \A p \in Field : p \in Players /\ p \in 0 .. n - 1
    BY <1>1 DEF GameOK
  <2> QED BY <2>1, <2>2
<1> QED
  BY <1>1, <1>6, <1>7, <1>8 DEF LineOK, DrawOK

\* The two players of the match are different, and in no match before it.
PairOK == /\ i \in Nat /\ i >= 1 /\ r \in Nat /\ 2 * i <= Len(a) /\ Len(a) \in Nat
          /\ First \in Players /\ Second \in Players /\ First # Second
          /\ First \in 0 .. n - 1 /\ Second \in 0 .. n - 1
          /\ First \in Field /\ Second \in Field
          /\ ~ \E j \in 1 .. 2 * i - 2 : a[j] = First
          /\ ~ \E j \in 1 .. 2 * i - 2 : a[j] = Second

LEMMA PairFacts ==
  ASSUME GameOK, LineOK, MatchOK
  PROVE  PairOK
<1>1. /\ i \in Nat /\ i >= 1 /\ r \in Nat /\ 2 * i <= Len(a) /\ Len(a) \in Nat
  BY DEF GameOK, LineOK, MatchOK
<1>2. 2 * i - 1 \in 1 .. Len(a) /\ 2 * i \in 1 .. Len(a) /\ 2 * i - 1 # 2 * i
  BY <1>1
<1>3. \A j \in 1 .. 2 * i - 2 : j \in 1 .. Len(a) /\ j # 2 * i - 1 /\ j # 2 * i
  BY <1>1
<1> QED
  BY <1>1, <1>2, <1>3 DEF PairOK, LineOK, First, Second

LEMMA RoundsAre ==
  ASSUME InStage, PairOK
  PROVE  /\ Rounds(First) = r + (IF at \in {"ask2", "read2"} THEN 1 ELSE 0)
         /\ Rounds(Second) = r
  BY DEF PairOK, Rounds

-----------------------------------------------------------------------------
(* The pipes. *)

LEMMA TakenNat ==
  ASSUME GameOK, BracketOK, NEW p \in Players, PipeOK(p)
  PROVE  Rounds(p) \in Nat /\ Taken(p) \in Nat
<1>1. N \in Nat /\ (InStage => r \in Nat)
  BY DEF GameOK, BracketOK, MatchOK
<1>2. Rounds(p) \in Nat
  BY <1>1 DEF Rounds
<1>3. played[p] * N \in Nat
  BY <1>1 DEF PipeOK
<1> QED
  BY <1>2, <1>3 DEF Taken

\* A step that neither fills a pipe nor reads from one.
LEMMA PipesKept ==
  ASSUME Step, NEW p \in Players, answer'[p] = answer[p], made'[p] = made[p],
         Taken(p)' = Taken(p), played'[p] \in Nat, ~ Plays(p) => player'[p] = player[p]
  PROVE  PipeOK(p)'
<1>1. PipeOK(p) /\ UNCHANGED <<program, n, N>> /\ (Plays(p)' <=> Plays(p))
      /\ \A k : Source(p, k)' = Source(p, k)
  BY Constant
<1>2. Leftover(p, n)' = Leftover(p, n)
  BY <1>1
<1>3. \A k \in 1 .. Len(answer[p]) : answer'[p][k] = Source(p, Taken(p) + k)'
  BY <1>1, <1>2 DEF PipeOK
<1> QED
  BY <1>1, <1>2, <1>3 DEF PipeOK

\* A step of a player.
LEMMA PipesPlay ==
  ASSUME Step, NEW q \in Players, PlayerStep(q), NEW p \in Players
  PROVE  PipeOK(p)'
<1>1. UNCHANGED <<played, N, at, i, a, r>>
  BY DEF PlayerStep, game, bracket, score
<1>2. Taken(p)' = Taken(p)
  BY <1>1 DEF Taken, Rounds, InStage, First, Second
<1>3. PipeOK(p) /\ played'[p] \in Nat /\ Arrays
  BY <1>1, Constant DEF PipeOK
<1>4. CASE Hear(q)
  <2>1. UNCHANGED <<answer, made>> /\ player[q] = "reads"
        /\ player' = [player EXCEPT ![q] = "moves"]
    BY <1>4 DEF Hear
  <2>2. ~ Plays(p) => player'[p] = player[p]
    BY <1>3, <2>1 DEF PipeOK, Arrays
  <2> QED BY <1>2, <1>3, <2>1, <2>2, PipesKept
<1>5. CASE Throw(q)
  <2> DEFINE move == Answer(program[q], made[q] + 1)
  <2>1. /\ player[q] = "moves" /\ player' = [player EXCEPT ![q] = "reads"]
        /\ made' = [made EXCEPT ![q] = @ + 1]
        /\ answer' = [answer EXCEPT ![q] = Append(@, move)]
    BY <1>5 DEF Throw
  <2>2. /\ made'[p] = IF p = q THEN made[p] + 1 ELSE made[p]
        /\ answer'[p] = IF p = q THEN Append(answer[p], move) ELSE answer[p]
        /\ p # q => player'[p] = player[p]
    BY <1>3, <2>1 DEF Arrays
  <2>3. CASE p # q
    <3>1. UNCHANGED <<program, n, N>> /\ (Plays(p)' <=> Plays(p))
          /\ (\A k : Source(p, k)' = Source(p, k)) /\ Leftover(p, n)' = Leftover(p, n)
      BY Constant
    <3>2. \A k \in 1 .. Len(answer[p]) : answer'[p][k] = Source(p, Taken(p) + k)'
      BY <1>2, <1>3, <2>2, <2>3, <3>1 DEF PipeOK
    <3> QED BY <1>2, <1>3, <2>2, <2>3, <3>1, <3>2 DEF PipeOK
  <2>4. CASE p = q
    <3>1. Plays(p)
      BY <1>3, <2>1, <2>4 DEF PipeOK
    <3>2. /\ answer[p] \in Seq(Bytes) /\ made[p] \in Nat /\ Taken(p) \in Nat
          /\ made[p] = Taken(p) + Len(answer[p])
      BY <1>3, <3>1, Constant, TakenNat DEF PipeOK
    <3>3. move \in Bytes
      <4>1. IsProgram(program[q]) /\ program[q] # Missing /\ made[q] + 1 \in Nat \ {0}
        BY <2>4, <3>1, <3>2, Constant DEF GameOK, Plays
      <4> QED BY <4>1, AnswerLemma
    <3>4. move = Source(p, Taken(p) + (Len(answer[p]) + 1))
      <4>1. made[q] + 1 = Taken(p) + (Len(answer[p]) + 1)
        BY <2>4, <3>2
      <4> QED BY <2>4, <3>1, <4>1 DEF Source
    <3> DEFINE s == answer[p]
               t == Append(s, move)
    <3> HIDE DEF move
    <3>5. /\ t \in Seq(Bytes) /\ Len(t) = Len(s) + 1 /\ Len(s) \in Nat
          /\ \A k \in 1 .. Len(s) : t[k] = s[k]
          /\ t[Len(s) + 1] = move
      BY <3>2, <3>3
    <3>6. ASSUME NEW k \in 1 .. Len(t) PROVE t[k] = Source(p, Taken(p) + k)
      <4>1. CASE k \in 1 .. Len(s)
        BY <1>3, <3>5, <4>1 DEF PipeOK
      <4>2. CASE k = Len(s) + 1
        BY <3>4, <3>5, <4>2
      <4> QED BY <3>5, <4>1, <4>2
    <3>7. answer'[p] = t /\ made'[p] = made[p] + 1
      BY <2>2, <2>4
    <3> HIDE DEF t
    <3>8. \A k : Source(p, k)' = Source(p, k)
      BY Constant
    <3>9. \A k \in 1 .. Len(answer'[p]) : answer'[p][k] = Source(p, Taken(p) + k)'
      BY <1>2, <3>6, <3>7, <3>8
    <3>10. Plays(p)'
      BY <3>1, Constant
    <3>11. made'[p] \in Nat /\ made'[p] = Taken(p)' + Len(answer'[p])
      BY <1>2, <3>2, <3>5, <3>7
    <3>12. answer'[p] \in Seq(Bytes) /\ played'[p] \in Nat
      BY <1>3, <3>5, <3>7
    <3> QED BY <3>9, <3>10, <3>11, <3>12 DEF PipeOK
  <2> QED BY <2>3, <2>4
<1> QED
  BY <1>4, <1>5 DEF PlayerStep, Play

\* A child that could not be started leaves its bytes.
LEMMA PipesFork ==
  ASSUME Step, Fork, NEW p \in Players
  PROVE  PipeOK(p)'
<1> DEFINE c == Cardinality(active)
<1>1. at = "fork" /\ at' = "fork" /\ UNCHANGED <<made, played>> /\ Start(c, Leftover(c, n))
      /\ player[c] = "none"
  BY DEF Fork, Start
<1>2. ForkOK /\ PipeOK(p) /\ Arrays /\ c < n
  BY <1>1, Constant DEF BracketOK, Fork
<1>3. c \in 0 .. n - 1 /\ c \in Nat
  BY <1>2, FS_CardinalityType, Constant DEF ForkOK
<1>4. Taken(p) = 0 /\ Taken(p)' = 0
  <2>1. played[p] = 0 /\ N \in Nat /\ N' = N
    BY <1>2, Constant DEF ForkOK
  <2> QED BY <1>1, <2>1 DEF Taken, Rounds, InStage
<1>5. CASE p # c \/ Plays(p)
  <2>1. answer'[p] = answer[p]
    BY <1>1, <1>2, <1>5 DEF Start, Arrays
  <2>2. ~ Plays(p) => player'[p] = player[p]
    BY <1>1, <1>2, <1>5 DEF Start, Arrays
  <2>3. made'[p] = made[p] /\ played'[p] \in Nat
    BY <1>1, <1>2 DEF PipeOK
  <2> QED BY <1>4, <2>1, <2>2, <2>3, PipesKept
<1>6. CASE p = c /\ ~ Plays(p)
  <2> DEFINE l == Leftover(p, n)
  <2>1. answer[p] = <<>>
    BY <1>1, <1>2, <1>6 DEF PipeOK
  <2>2. l \in Seq(Bytes) /\ Len(l) \in Nat
    BY <1>3, <1>6, Constant, LeftoverLemma
  <2>3. player'[p] = "gone" /\ answer'[p] = <<>> \o l
    BY <1>1, <1>2, <1>6, <2>1 DEF Start, Arrays
  <2>4. answer'[p] = l
    BY <2>2, <2>3
  <2>5. ~ Plays(p)' /\ Leftover(p, n)' = l /\ \A k : Source(p, k)' = l[k]
    BY <1>6, Constant DEF Source
  <2> HIDE DEF l
  <2>6. \A k \in 1 .. Len(answer'[p]) : answer'[p][k] = Source(p, Taken(p) + k)'
    BY <1>4, <2>2, <2>4, <2>5
  <2> QED BY <1>1, <1>2, <1>4, <2>2, <2>3, <2>4, <2>5, <2>6 DEF PipeOK
<1> QED
  BY <1>5, <1>6

\* The umpire reads the next byte.
LEMMA PipesTake ==
  ASSUME Step, NEW q \in Players, Hears(q), Take(q), UNCHANGED <<player, made, played>>,
         NEW p \in Players, Taken(p)' = IF p = q THEN Taken(p) + 1 ELSE Taken(p)
  PROVE  PipeOK(p)'
<1>1. PipeOK(p) /\ Arrays /\ Taken(p) \in Nat
  BY Constant, TakenNat
<1>2. UNCHANGED <<program, n, N>> /\ (Plays(p)' <=> Plays(p))
      /\ (\A k : Source(p, k)' = Source(p, k)) /\ Leftover(p, n)' = Leftover(p, n)
  BY Constant
<1>3. answer'[p] = IF p = q THEN Tail(answer[p]) ELSE answer[p]
  BY <1>1 DEF Take, Arrays
<1>4. CASE p # q
  <2>1. \A k \in 1 .. Len(answer[p]) : answer'[p][k] = Source(p, Taken(p) + k)'
    BY <1>1, <1>2, <1>3, <1>4 DEF PipeOK
  <2> QED BY <1>1, <1>2, <1>3, <1>4, <2>1 DEF PipeOK
<1>5. CASE p = q
  <2> DEFINE s == answer[p]
             t == Tail(s)
  <2>1. s \in Seq(Bytes) /\ s # <<>>
    BY <1>1, <1>5 DEF PipeOK, Hears
  <2>2. /\ t \in Seq(Bytes) /\ Len(t) = Len(s) - 1 /\ Len(s) \in Nat /\ Len(s) >= 1
        /\ \A k \in 1 .. Len(t) : t[k] = s[k + 1]
    BY <2>1
  <2>3. ~ Plays(p) => player[p] = "gone"
    BY <1>1, <2>1 DEF PipeOK
  <2>4. answer'[p] = t /\ Taken(p)' = Taken(p) + 1
    BY <1>3, <1>5
  <2> HIDE DEF t
  <2>5. ASSUME NEW k \in 1 .. Len(t) PROVE t[k] = Source(p, Taken(p) + 1 + k)
    <3>1. k + 1 \in 1 .. Len(s) /\ t[k] = s[k + 1]
      BY <2>2
    <3>2. s[k + 1] = Source(p, Taken(p) + (k + 1))
      BY <1>1, <3>1 DEF PipeOK
    <3>3. Taken(p) + (k + 1) = Taken(p) + 1 + k
      BY <1>1
    <3> QED BY <3>1, <3>2, <3>3
  <2>6. \A k \in 1 .. Len(answer'[p]) : answer'[p][k] = Source(p, Taken(p) + k)'
    BY <1>2, <2>4, <2>5
  <2>7. Taken(p)' + Len(answer'[p]) = Taken(p) + Len(s)
    <3>1. \A u, v \in Nat : v >= 1 => (u + 1) + (v - 1) = u + v
      OBVIOUS
    <3>2. Taken(p)' + Len(answer'[p]) = (Taken(p) + 1) + (Len(s) - 1)
      BY <2>2, <2>4, Zenon
    <3> QED BY <1>1, <2>2, <3>1, <3>2, Zenon
  <2>8. /\ Plays(p) => made[p] = Taken(p) + Len(s)
        /\ ~ Plays(p) => Taken(p) + Len(s) = Len(Leftover(p, n))
    BY <1>1, <2>1, <2>3 DEF PipeOK
  <2>9. answer'[p] \in Seq(Bytes) /\ made'[p] \in Nat /\ played'[p] \in Nat
    BY <1>1, <2>2, <2>4 DEF PipeOK
  <2>10. /\ Plays(p)' => made'[p] = Taken(p)' + Len(answer'[p])
         /\ ~ Plays(p)' => player'[p] = "gone" /\ Taken(p)' + Len(answer'[p]) = Len(Leftover(p, n)')
    BY <1>2, <2>3, <2>7, <2>8
  <2> QED BY <1>2, <2>6, <2>9, <2>10 DEF PipeOK
<1> QED
  BY <1>4, <1>5

\* What it reads.
LEMMA NextByte ==
  ASSUME Step, NEW q \in Players, Hears(q)
  PROVE  Head(answer[q]) = Byte(q, Rounds(q) + 1) /\ Head(answer[q]) \in Bytes
<1>1. PipeOK(q) /\ N \in Nat /\ Rounds(q) \in Nat /\ Taken(q) \in Nat
  BY Constant, TakenNat
<1> DEFINE s == answer[q]
<1>2. s \in Seq(Bytes) /\ s # <<>> /\ 1 \in 1 .. Len(s)
  BY <1>1 DEF PipeOK, Hears
<1>3. Head(s) = s[1] /\ s[1] \in Bytes
  BY <1>2
<1>4. s[1] = Source(q, Taken(q) + 1)
  BY <1>1, <1>2 DEF PipeOK
<1>5. Taken(q) + 1 = played[q] * N + (Rounds(q) + 1)
  <2> DEFINE b == played[q] * N
  <2>1. b \in Nat /\ Taken(q) = b + Rounds(q)
    BY <1>1 DEF PipeOK, Taken
  <2> HIDE DEF b
  <2>2. b + Rounds(q) + 1 = b + (Rounds(q) + 1)
    BY <1>1, <2>1
  <2> QED BY <2>1, <2>2 DEF b
<1> QED
  BY <1>3, <1>4, <1>5 DEF Byte

-----------------------------------------------------------------------------
(* The rounds read. *)

LEMMA InMatch ==
  ASSUME Step, InStage
  PROVE  FieldOK /\ DrawOK /\ MatchOK /\ LineOK /\ PairOK /\ (at # "print" => ScoreOK)
<1>1. GameOK /\ FieldOK /\ DrawOK /\ MatchOK /\ (at # "print" => ScoreOK)
  BY Constant DEF BracketOK, InStage
<1> QED
  BY <1>1, LineFacts, PairFacts

\* A step of the umpire that reads nothing and ends no stage.
LEMMA TakenKept ==
  ASSUME Step, Fork \/ EndFork \/ Stage \/ Ask1 \/ Ask2 \/ EndMatch \/ Exit, NEW p \in Players
  PROVE  Taken(p)' = Taken(p) /\ played' = played
<1>1. N' = N /\ played' = played
  BY Constant DEF Fork, EndFork, Stage, Ask1, Ask2, EndMatch, Exit
<1> SUFFICES Rounds(p)' = Rounds(p)
  BY <1>1 DEF Taken
<1>2. CASE Fork \/ EndFork \/ Exit
  BY <1>2 DEF Fork, EndFork, Exit, Rounds, InStage
<1>3. CASE Stage
  <2>1. at = "stage" /\ at' = "ask1" /\ i' = 1 /\ r' = 0
    BY <1>3 DEF Stage
  <2>2. Rounds(p) = 0
    BY <2>1 DEF Rounds, InStage
  <2>3. ~ \E j \in 1 .. 2 * i' - 2 : a'[j] = p
    BY <2>1
  <2>4. Rounds(p)' = 0
    BY <2>1, <2>3 DEF Rounds
  <2> QED BY <2>2, <2>4
<1>4. CASE Ask1 \/ Ask2
  BY <1>1, <1>4 DEF Ask1, Ask2, Rounds, InStage, First, Second, bracket, score
<1>5. CASE EndMatch
  <2>1. at = "ask1" /\ r = N /\ a' = a /\ InStage /\ at' \in {"ask1", "print"} /\ InStage'
    BY <1>5 DEF EndMatch, InStage
  <2>2. PairOK /\ N \in Nat
    BY <2>1, InMatch, Constant
  <2>3. Rounds(p) = IF \E j \in 1 .. 2 * i - 2 : a[j] = p THEN N
                    ELSE IF p = First \/ p = Second THEN N ELSE 0
    BY <2>1, <2>2 DEF Rounds
  <2>4. CASE 2 * i < Len(a)
    <3>1. i' = i + 1 /\ r' = 0 /\ at' = "ask1"
      BY <1>5, <2>1, <2>4 DEF EndMatch
    <3>2. 2 * i' - 2 = 2 * i /\ i \in Nat /\ i >= 1
      BY <2>2, <3>1 DEF PairOK
    <3>3. (\E j \in 1 .. 2 * i : a[j] = p)
            <=> (\E j \in 1 .. 2 * i - 2 : a[j] = p) \/ p = First \/ p = Second
      <4>1. \A j \in 1 .. 2 * i : j \in 1 .. 2 * i - 2 \/ j = 2 * i - 1 \/ j = 2 * i
        BY <3>2
      <4>2. 2 * i - 1 \in 1 .. 2 * i /\ 2 * i \in 1 .. 2 * i
            /\ \A j \in 1 .. 2 * i - 2 : j \in 1 .. 2 * i
        BY <3>2
      <4> QED BY <4>1, <4>2, Zenon DEF First, Second
    <3>4. Rounds(p)' = IF \E j \in 1 .. 2 * i : a[j] = p THEN N ELSE 0
      BY <1>1, <2>1, <3>1, <3>2 DEF Rounds
    <3> QED BY <2>3, <3>3, <3>4
  <2>5. CASE ~ 2 * i < Len(a)
    <3>1. i' = i /\ r' = N
      BY <1>5, <2>1, <2>5 DEF EndMatch
    <3>2. at' = "print"
      BY <1>5, <2>5 DEF EndMatch
    <3>3. Rounds(p)' = IF \E j \in 1 .. 2 * i - 2 : a[j] = p THEN N
                       ELSE IF p = First \/ p = Second THEN N ELSE 0
      BY <1>1, <2>1, <2>2, <3>1, <3>2 DEF Rounds, First, Second
    <3> QED BY <2>3, <3>3
  <2> QED BY <2>4, <2>5
<1> QED
  BY <1>2, <1>3, <1>4, <1>5

\* The umpire reads the first player's byte, then the second's.
LEMMA TakenRead ==
  ASSUME Step, NEW p \in Players
  PROVE  /\ Read1 => Taken(p)' = IF p = First THEN Taken(p) + 1 ELSE Taken(p)
         /\ Read2 => Taken(p)' = IF p = Second THEN Taken(p) + 1 ELSE Taken(p)
<1> DEFINE b == played[p] * N
<1>1. b \in Nat /\ Rounds(p) \in Nat /\ Taken(p) = b + Rounds(p)
  <2>1. Rounds(p) \in Nat /\ played[p] \in Nat /\ N \in Nat
    BY Constant, TakenNat DEF PipeOK
  <2> QED BY <2>1 DEF Taken
<1>2. Read1 \/ Read2 => Taken(p)' = b + Rounds(p)'
  BY Constant DEF Read1, Read2, Taken
<1> HIDE DEF b
<1>3. ASSUME Read1 PROVE Rounds(p)' = IF p = First THEN Rounds(p) + 1 ELSE Rounds(p)
  <2>1. at = "read1" /\ at' = "ask2" /\ UNCHANGED <<a, i, r, N>> /\ InStage /\ InStage'
    BY <1>3, Constant DEF Read1, InStage, bracket
  <2>2. PairOK
    BY <2>1, InMatch
  <2>3. First' = First /\ Second' = Second
    BY <2>1 DEF First, Second
  <2>4. r \in Nat
    BY <2>2 DEF PairOK
  <2> QED BY <2>1, <2>2, <2>3, <2>4 DEF PairOK, Rounds
<1>4. ASSUME Read2 PROVE Rounds(p)' = IF p = Second THEN Rounds(p) + 1 ELSE Rounds(p)
  <2>1. at = "read2" /\ at' = "ask1" /\ UNCHANGED <<a, i, N>> /\ r' = r + 1 /\ InStage /\ InStage'
    BY <1>4, Constant DEF Read2, InStage, bracket
  <2>2. PairOK
    BY <2>1, InMatch
  <2>3. First' = First /\ Second' = Second
    BY <2>1 DEF First, Second
  <2>4. r \in Nat
    BY <2>2 DEF PairOK
  <2> QED BY <2>1, <2>2, <2>3, <2>4 DEF PairOK, Rounds
<1>5. Rounds(p)' = Rounds(p) => b + Rounds(p)' = Taken(p)
  BY <1>1
<1>6. Rounds(p)' = Rounds(p) + 1 => b + Rounds(p)' = Taken(p) + 1
  BY <1>1
<1> QED
  BY <1>2, <1>3, <1>4, <1>5, <1>6

\* When a stage is over, all players drawn have played one match more.
LEMMA StagePlayed ==
  ASSUME Step, at = "print", NEW p \in Players
  PROVE  /\ Rounds(p) = IF p \in ToSet(a) THEN N ELSE 0
         /\ p \in ToSet(a) => Taken(p) = (played[p] + 1) * N
<1>1. PairOK /\ LineOK /\ MatchOK /\ N \in Nat /\ InStage
  BY InMatch, Constant DEF InStage
<1>2. i = total \div 2 /\ r = N /\ Len(a) = 2 * i /\ i \in Nat /\ i >= 1
  BY <1>1 DEF MatchOK, LineOK, PairOK
<1>3. ToSet(a) = {a[j] : j \in 1 .. 2 * i}
  BY <1>1, <1>2 DEF LineOK, ToSet
<1>4. p \in ToSet(a) <=> (\E j \in 1 .. 2 * i - 2 : a[j] = p) \/ p = First \/ p = Second
  <2>1. \A j \in 1 .. 2 * i : j \in 1 .. 2 * i - 2 \/ j = 2 * i - 1 \/ j = 2 * i
    BY <1>2
  <2>2. 2 * i - 1 \in 1 .. 2 * i /\ 2 * i \in 1 .. 2 * i
        /\ \A j \in 1 .. 2 * i - 2 : j \in 1 .. 2 * i
    BY <1>2
  <2> QED BY <1>3, <2>1, <2>2, Zenon DEF First, Second
<1>5. Rounds(p) = IF p \in ToSet(a) THEN N ELSE 0
  BY <1>1, <1>2, <1>4 DEF Rounds
<1>6. (played[p] + 1) * N = played[p] * N + N
  <2>1. played[p] \in Nat
    BY Constant DEF PipeOK
  <2> QED BY <1>1, <2>1
<1> QED
  BY <1>5, <1>6 DEF Taken

LEMMA TakenSurvivors ==
  ASSUME Step, Survivors, NEW p \in Players
  PROVE  Taken(p)' = Taken(p) /\ played'[p] \in Nat
<1>1. at = "print" /\ at' = "stage" /\ N' = N
      /\ played'[p] = played[p] + (IF p \in ToSet(a) THEN 1 ELSE 0)
  BY Constant DEF Survivors
<1>2. Rounds(p)' = 0
  BY <1>1 DEF Rounds, InStage
<1>3. played[p] \in Nat /\ N \in Nat
  BY Constant DEF PipeOK
<1>4. Taken(p)' = played'[p] * N
  <2>1. played'[p] * N + 0 = played'[p] * N
    BY <1>1, <1>3
  <2> QED BY <1>1, <1>2, <2>1 DEF Taken
<1>5. CASE p \in ToSet(a)
  BY <1>1, <1>3, <1>4, <1>5, StagePlayed
<1>6. CASE p \notin ToSet(a)
  <2>1. played'[p] = played[p] /\ Rounds(p) = 0
    BY <1>1, <1>3, <1>6, StagePlayed
  <2>2. played[p] * N + 0 = played[p] * N
    BY <1>3
  <2> QED BY <1>3, <1>4, <2>1, <2>2 DEF Taken
<1> QED
  BY <1>5, <1>6

LEMMA PipesStep ==
  ASSUME Step, NEW p \in Players
  PROVE  PipeOK(p)'
<1>1. CASE Fork
  BY <1>1, PipesFork
<1>2. CASE EndFork \/ Stage \/ Ask1 \/ Ask2 \/ EndMatch \/ Exit
  <2>1. Taken(p)' = Taken(p) /\ played' = played
    BY <1>2, TakenKept
  <2>2. UNCHANGED <<answer, made, player>>
    BY <1>2 DEF EndFork, Stage, Ask1, Ask2, EndMatch, Exit, pvars
  <2>3. played'[p] \in Nat
    BY <2>1, Constant DEF PipeOK
  <2> QED BY <2>1, <2>2, <2>3, PipesKept
<1>3. CASE Survivors
  <2>1. UNCHANGED <<answer, made, player>>
    BY <1>3 DEF Survivors, pvars
  <2> QED BY <1>3, <2>1, TakenSurvivors, PipesKept
<1>4. CASE Read1
  <2>1. Hears(First) /\ Take(First) /\ UNCHANGED <<player, made, played>> /\ InStage
    BY <1>4 DEF Read1, InStage
  <2>2. First \in Players
    BY <2>1, InMatch DEF PairOK
  <2>3. Taken(p)' = IF p = First THEN Taken(p) + 1 ELSE Taken(p)
    BY <1>4, TakenRead
  <2> DEFINE q == First
  <2>4. q \in Players /\ Hears(q) /\ Take(q) /\ Taken(p)' = IF p = q THEN Taken(p) + 1 ELSE Taken(p)
    BY <2>1, <2>2, <2>3
  <2> HIDE DEF q
  <2> QED BY <2>1, <2>4, PipesTake
<1>5. CASE Read2
  <2>1. Hears(Second) /\ Take(Second) /\ UNCHANGED <<player, made, played>> /\ InStage
    BY <1>5 DEF Read2, InStage
  <2>2. Second \in Players
    BY <2>1, InMatch DEF PairOK
  <2>3. Taken(p)' = IF p = Second THEN Taken(p) + 1 ELSE Taken(p)
    BY <1>5, TakenRead
  <2> DEFINE q == Second
  <2>4. q \in Players /\ Hears(q) /\ Take(q) /\ Taken(p)' = IF p = q THEN Taken(p) + 1 ELSE Taken(p)
    BY <2>1, <2>2, <2>3
  <2> HIDE DEF q
  <2> QED BY <2>1, <2>4, PipesTake
<1>6. ASSUME NEW q \in Players, PlayerStep(q) PROVE PipeOK(p)'
  BY <1>6, PipesPlay
<1>7. CASE UNCHANGED vars
  <2>1. UNCHANGED <<answer, made, player, played, at, N, i, r, a>>
    BY <1>7 DEF vars, pvars, game, bracket, score
  <2>2. Taken(p)' = Taken(p)
    BY <2>1 DEF Taken, Rounds, InStage, First, Second
  <2>3. played'[p] \in Nat
    BY <2>1, Constant DEF PipeOK
  <2> QED BY <2>1, <2>2, <2>3, PipesKept
<1> QED
  BY <1>1, <1>2, <1>3, <1>4, <1>5, <1>6, <1>7 DEF Step, Next, Umpire

-----------------------------------------------------------------------------
(* The bracket. *)

\* What a match comes to depends on the programs and the matches played only.
LEMMA WinsKept ==
  ASSUME Step, played' = played
  PROVE  /\ \A k, p, q : FirstWins(k, p, q)' = FirstWins(k, p, q)
         /\ \A k, p, q : SecondWins(k, p, q)' = SecondWins(k, p, q)
         /\ \A p, k : Byte(p, k)' = Byte(p, k)
         /\ \A p, q : Winner(p, q)' = Winner(p, q)
<1>1. N' = N /\ \A p, k : Source(p, k)' = Source(p, k)
  BY Constant
<1>2. \A p, k : Byte(p, k)' = Byte(p, k)
  BY <1>1 DEF Byte
<1>3. \A k, p, q : FirstWins(k, p, q)' = FirstWins(k, p, q)
  BY <1>2 DEF FirstWins
<1>4. \A k, p, q : SecondWins(k, p, q)' = SecondWins(k, p, q)
  BY <1>2 DEF SecondWins
<1>5. \A p, q : Winner(p, q)' = Winner(p, q)
  BY <1>1, <1>3, <1>4 DEF Winner
<1> QED
  BY <1>2, <1>3, <1>4, <1>5

\* The field is the same until the next line is printed.
LEMMA FieldKept ==
  ASSUME Step, at # "fork", at' # "fork", UNCHANGED <<out, total>>, InStage' \/ active' = Field
  PROVE  FieldOK /\ Field' = Field /\ FieldOK'
<1>1. FieldOK
  BY Constant DEF BracketOK
<1>2. Field' = Field
  BY DEF Field
<1> QED
  BY <1>1, <1>2, Constant DEF FieldOK

\* While the players drawn and the matches decided are the same, so are those in play.
LEMMA InKept ==
  ASSUME Step, Field' = Field, UNCHANGED <<a, played>>, Done' = Done
  PROVE  \A p : In(p)' <=> In(p)
  BY WinsKept DEF In

\* A step inside a match.
LEMMA MatchKept ==
  ASSUME Step, InStage, at # "print", InStage', at' # "print", UNCHANGED <<bracket, out, played>>,
         r' \in 0 .. N, at' \in {"read1", "ask2", "read2"} => r' < N
  PROVE  /\ FieldOK' /\ DrawOK' /\ MatchOK'
         /\ First' = First /\ Second' = Second
<1>1. UNCHANGED <<active, total, a, i, N>> /\ at # "fork" /\ at' # "fork"
  BY Constant DEF bracket, InStage
<1>2. FieldOK /\ Field' = Field /\ FieldOK'
  BY <1>1, FieldKept
<1>3. DrawOK /\ MatchOK
  BY InMatch
<1>4. DrawOK'
  BY <1>1, <1>2, <1>3 DEF DrawOK
<1>5. Done' = Done
  BY <1>1 DEF Done
<1>6. \A p : In(p)' <=> In(p)
  BY <1>1, <1>2, <1>5, InKept
<1>7. MatchOK'
  BY <1>1, <1>3, <1>5, <1>6 DEF MatchOK
<1> QED
  BY <1>1, <1>2, <1>4, <1>7 DEF First, Second

LEMMA BracketAsk ==
  ASSUME Step, Ask1 \/ Ask2
  PROVE  BracketOK'
<1>1. /\ InStage /\ InStage' /\ at # "print" /\ at' # "print" /\ at' # "fork"
      /\ UNCHANGED <<bracket, score, out, played>>
  BY DEF Ask1, Ask2, InStage
<1>2. FieldOK /\ MatchOK /\ ScoreOK /\ x \in Bytes
  BY <1>1, InMatch, Constant DEF BracketOK
<1>3. r \in 0 .. N /\ r < N /\ r' = r
  BY <1>1, <1>2 DEF Ask1, Ask2, MatchOK, score
<1>4. FieldOK' /\ DrawOK' /\ MatchOK' /\ First' = First /\ Second' = Second
  BY <1>1, <1>3, MatchKept
<1>5. UNCHANGED <<x, p1, p2>>
  BY <1>1 DEF score
<1>6. at' \in {"ask2", "read2"} => at \in {"ask2", "read2"}
  BY DEF Ask1, Ask2
<1>7. ScoreOK'
  BY <1>1, <1>2, <1>3, <1>4, <1>5, <1>6, WinsKept DEF ScoreOK
<1> QED
  BY <1>1, <1>2, <1>4, <1>5, <1>7 DEF BracketOK

LEMMA BracketRead1 ==
  ASSUME Step, Read1
  PROVE  BracketOK'
<1>1. /\ at = "read1" /\ at' = "ask2" /\ InStage /\ InStage'
      /\ UNCHANGED <<bracket, r, p1, p2, out, played>>
      /\ Hears(First) /\ x' = Head(answer[First])
  BY DEF Read1, InStage
<1>2. FieldOK /\ MatchOK /\ ScoreOK /\ PairOK
  BY <1>1, InMatch
<1>3. r \in 0 .. N /\ r < N /\ r' = r /\ First \in Players
  BY <1>1, <1>2 DEF MatchOK, PairOK
<1>4. FieldOK' /\ DrawOK' /\ MatchOK' /\ First' = First /\ Second' = Second
  BY <1>1, <1>3, MatchKept
<1>5. x' = Byte(First, r + 1) /\ x' \in Bytes
  <2>1. Rounds(First) = r
    BY <1>1, <1>2, <1>3, RoundsAre
  <2> DEFINE q == First
  <2>2. q \in Players /\ Hears(q) /\ x' = Head(answer[q]) /\ Rounds(q) = r
    BY <1>1, <1>3, <2>1
  <2> HIDE DEF q
  <2>3. x' = Byte(q, r + 1) /\ x' \in Bytes
    BY <2>2, NextByte
  <2> QED BY <2>3 DEF q
<1>6. ScoreOK'
  BY <1>1, <1>2, <1>3, <1>4, <1>5, WinsKept DEF ScoreOK
<1> QED
  BY <1>1, <1>4, <1>5, <1>6 DEF BracketOK

\* One round more counts when it is won.
LEMMA OneMore ==
  ASSUME NEW k \in Nat, NEW W, NEW V, W \subseteq 1 .. k,
         V = W \/ V = W \cup {k + 1}
  PROVE  /\ Cardinality(W) \in Nat
         /\ Cardinality(V) = IF k + 1 \in V THEN Cardinality(W) + 1 ELSE Cardinality(W)
<1>1. IsFiniteSet(W) /\ k + 1 \notin W
  <2>1. IsFiniteSet(1 .. k) /\ k + 1 \notin 1 .. k
    BY FS_Interval
  <2> QED BY <2>1, FS_Subset
<1>2. Cardinality(W) \in Nat
  BY <1>1, FS_CardinalityType
<1>3. Cardinality(W \cup {k + 1}) = Cardinality(W) + 1
  BY <1>1, FS_AddElement
<1> QED
  BY <1>1, <1>2, <1>3

\* The points are those of the rounds.
LEMMA Points ==
  ASSUME NEW k \in Nat, NEW p, NEW q
  PROVE  /\ Cardinality(FirstWins(k + 1, p, q)) =
              Cardinality(FirstWins(k, p, q)) +
                (IF BeatsOrSpoilt(Byte(p, k + 1), Byte(q, k + 1)) THEN 1 ELSE 0)
         /\ Cardinality(SecondWins(k + 1, p, q)) =
              Cardinality(SecondWins(k, p, q)) +
                (IF Beats(Byte(q, k + 1), Byte(p, k + 1)) THEN 1 ELSE 0)
<1> DEFINE F(l) == FirstWins(l, p, q)  G(l) == SecondWins(l, p, q)
<1>1. 1 .. k + 1 = (1 .. k) \cup {k + 1} /\ k + 1 \in Nat
  OBVIOUS
<1>2. /\ F(k) \subseteq 1 .. k /\ (F(k + 1) = F(k) \/ F(k + 1) = F(k) \cup {k + 1})
      /\ k + 1 \in F(k + 1) <=> BeatsOrSpoilt(Byte(p, k + 1), Byte(q, k + 1))
  BY <1>1 DEF FirstWins
<1>3. /\ G(k) \subseteq 1 .. k /\ (G(k + 1) = G(k) \/ G(k + 1) = G(k) \cup {k + 1})
      /\ k + 1 \in G(k + 1) <=> Beats(Byte(q, k + 1), Byte(p, k + 1))
  BY <1>1 DEF SecondWins
<1> DEFINE W == F(k)  V == F(k + 1)  X == G(k)  Y == G(k + 1)
<1>4. /\ W \subseteq 1 .. k /\ (V = W \/ V = W \cup {k + 1})
      /\ X \subseteq 1 .. k /\ (Y = X \/ Y = X \cup {k + 1})
  BY <1>2, <1>3
<1> HIDE DEF W, V, X, Y
<1>5. /\ Cardinality(W) \in Nat
      /\ Cardinality(V) = IF k + 1 \in V THEN Cardinality(W) + 1 ELSE Cardinality(W)
  BY <1>4, OneMore
<1>6. /\ Cardinality(X) \in Nat
      /\ Cardinality(Y) = IF k + 1 \in Y THEN Cardinality(X) + 1 ELSE Cardinality(X)
  BY <1>4, OneMore
<1>7. /\ k + 1 \in V <=> BeatsOrSpoilt(Byte(p, k + 1), Byte(q, k + 1))
      /\ k + 1 \in Y <=> Beats(Byte(q, k + 1), Byte(p, k + 1))
  BY <1>2, <1>3 DEF V, Y
<1>8. /\ Cardinality(V) = Cardinality(W) + (IF BeatsOrSpoilt(Byte(p, k + 1), Byte(q, k + 1)) THEN 1 ELSE 0)
      /\ Cardinality(Y) = Cardinality(X) + (IF Beats(Byte(q, k + 1), Byte(p, k + 1)) THEN 1 ELSE 0)
  BY <1>5, <1>6, <1>7
<1> QED
  BY <1>8 DEF V, W, X, Y

LEMMA BracketRead2 ==
  ASSUME Step, Read2
  PROVE  BracketOK'
<1> DEFINE y == Head(answer[Second])
<1>1. /\ at = "read2" /\ at' = "ask1" /\ InStage /\ InStage' /\ r' = r + 1 /\ x' = x
      /\ UNCHANGED <<bracket, out, played>> /\ Hears(Second)
      /\ p1' = IF Wins(x, y) THEN p1 + 1 ELSE p1
      /\ p2' = IF Loses(x, y) THEN p2 + 1 ELSE p2
  BY DEF Read2, InStage
<1>2. FieldOK /\ MatchOK /\ ScoreOK /\ PairOK /\ x \in Bytes
  BY <1>1, InMatch, Constant DEF BracketOK
<1>3. r \in 0 .. N /\ r < N /\ r \in Nat /\ N \in Nat /\ Second \in Players
  BY <1>1, <1>2, Constant DEF MatchOK, PairOK
<1>4. FieldOK' /\ DrawOK' /\ MatchOK' /\ First' = First /\ Second' = Second
  <2>1. r' \in 0 .. N
    BY <1>1, <1>3
  <2> QED BY <1>1, <2>1, MatchKept
<1>5. y = Byte(Second, r + 1) /\ y \in Bytes
  <2>1. Rounds(Second) = r
    BY <1>1, <1>2, RoundsAre
  <2> DEFINE q == Second  z == Head(answer[q])
  <2>2. q \in Players /\ Hears(q) /\ Rounds(q) = r
    BY <1>1, <1>3, <2>1
  <2>3. z = y
    OBVIOUS
  <2> HIDE DEF q, y
  <2>4. z = Byte(q, r + 1) /\ z \in Bytes
    BY <2>2, NextByte
  <2> QED BY <2>3, <2>4 DEF q
<1> HIDE DEF y
<1>6. (Wins(x, y) <=> BeatsOrSpoilt(x, y)) /\ (Loses(x, y) <=> Beats(y, x))
  BY <1>2, <1>5, RulesLemma
<1>7. x = Byte(First, r + 1) /\ p1 = Cardinality(FirstWins(r, First, Second))
      /\ p2 = Cardinality(SecondWins(r, First, Second))
  BY <1>1, <1>2 DEF ScoreOK
<1> DEFINE p == First  q == Second
           F == Cardinality(FirstWins(r, p, q))  G == Cardinality(SecondWins(r, p, q))
<1>8. /\ Cardinality(FirstWins(r + 1, p, q)) = F +
                (IF BeatsOrSpoilt(Byte(p, r + 1), Byte(q, r + 1)) THEN 1 ELSE 0)
      /\ Cardinality(SecondWins(r + 1, p, q)) = G +
                (IF Beats(Byte(q, r + 1), Byte(p, r + 1)) THEN 1 ELSE 0)
  <2> HIDE DEF p, q
  <2> QED BY <1>3, Points
<1>9. F \in Nat /\ G \in Nat
  <2>1. FirstWins(r, p, q) \subseteq 1 .. r /\ SecondWins(r, p, q) \subseteq 1 .. r
    BY DEF FirstWins, SecondWins
  <2>2. IsFiniteSet(1 .. r)
    BY <1>3, FS_Interval
  <2>3. IsFiniteSet(FirstWins(r, p, q)) /\ IsFiniteSet(SecondWins(r, p, q))
    BY <2>1, <2>2, FS_Subset
  <2> QED BY <2>3, FS_CardinalityType
<1>10. F = p1 /\ G = p2 /\ x = Byte(p, r + 1) /\ y = Byte(q, r + 1)
  BY <1>5, <1>7
<1> HIDE DEF F, G, p, q
<1>11. p1' = Cardinality(FirstWins(r + 1, p, q)) /\ p2' = Cardinality(SecondWins(r + 1, p, q))
  BY <1>1, <1>6, <1>8, <1>9, <1>10
<1>12. ScoreOK'
  <2>1. r' = r + 1 /\ First' = First /\ Second' = Second
    BY <1>1, <1>3, <1>4
  <2>2. p1' = Cardinality(FirstWins(r, First, Second))'
    BY <1>1, <1>11, <2>1, WinsKept DEF p, q
  <2>3. p2' = Cardinality(SecondWins(r, First, Second))'
    BY <1>1, <1>11, <2>1, WinsKept DEF p, q
  <2> QED BY <1>1, <2>2, <2>3 DEF ScoreOK
<1> QED
  BY <1>1, <1>2, <1>4, <1>12 DEF BracketOK

LEMMA BracketFork ==
  ASSUME Step, Fork
  PROVE  BracketOK'
<1> DEFINE c == Cardinality(active)
<1>1. /\ at = "fork" /\ at' = "fork" /\ ~ InStage' /\ c < n
      /\ active' = active \cup {c} /\ out' = <<active'>> /\ UNCHANGED <<total, score, played>>
  BY DEF Fork, InStage
<1>2. ForkOK /\ x \in Bytes /\ n \in Nat /\ n' = n
  BY <1>1, Constant DEF BracketOK
<1>3. IsFiniteSet(active) /\ c \in Nat /\ active = 0 .. c - 1
  BY <1>2, FS_CardinalityType DEF ForkOK
<1>4. c \notin active
  BY <1>3
<1>5. IsFiniteSet(active') /\ Cardinality(active') = c + 1
  BY <1>1, <1>3, <1>4, FS_AddElement
<1>6. active' = 0 .. (c + 1) - 1
  <2> HIDE DEF c
  <2> QED BY <1>1, <1>3
<1>7. ForkOK'
  <2>1. active' = 0 .. Cardinality(active') - 1 /\ Cardinality(active') <= n'
    BY <1>1, <1>2, <1>3, <1>5, <1>6
  <2>2. total' = n' /\ \A p \in Players : played'[p] = 0
    BY <1>1, <1>2 DEF ForkOK
  <2> QED BY <1>1, <1>5, <2>1, <2>2 DEF ForkOK
<1> QED
  BY <1>1, <1>2, <1>7 DEF BracketOK, score

LEMMA BracketEndFork ==
  ASSUME Step, EndFork
  PROVE  BracketOK'
<1>1. /\ at = "fork" /\ at' = "stage" /\ ~ InStage' /\ Cardinality(active) = n
      /\ UNCHANGED <<bracket, score, out>>
  BY DEF EndFork, InStage
<1>2. ForkOK /\ x \in Bytes /\ n \in Nat \ {0} /\ n' = n
  BY <1>1, Constant DEF BracketOK
<1>3. active = 0 .. n - 1 /\ out = <<active>> /\ total = n
  BY <1>1, <1>2 DEF ForkOK
<1>4. UNCHANGED <<active, total, out, x>>
  BY <1>1 DEF bracket, score
<1>5. Field' = active
  BY <1>1, <1>3, <1>4 DEF Field, Last
<1>6. out \in Seq(SUBSET (0 .. n - 1)) /\ out # <<>>
  BY <1>3
<1>7. FieldOK'
  BY <1>1, <1>2, <1>3, <1>4, <1>5, <1>6 DEF FieldOK
<1> QED
  BY <1>1, <1>2, <1>4, <1>7 DEF BracketOK

\* The draw pairs off the field, or all but one of it.
LEMMA DrawIs ==
  ASSUME GameOK, FieldOK, active = Field, total # 1, NEW skip \in getWalkOver(total)
  PROVE  /\ \E S \in {Field} \cup {Field \ {p} : p \in Field} : Draw(skip) = InOrder(S)
         /\ Len(Draw(skip)) = 2 * (total \div 2) /\ total >= 2
<1>1. Field \in SUBSET Int /\ IsFiniteSet(Field) /\ total \in Nat /\ total = Cardinality(Field)
      /\ total >= 2
  BY FieldIs DEF FieldOK
<1>2. skip \in 1 .. total
  BY <1>1 DEF getWalkOver
<1>3. InOrder(Field) \in Seq(Field) /\ Len(InOrder(Field)) = total
  BY <1>1, InOrderLemma
<1>4. CASE total % 2 = 0
  <2>1. Draw(skip) = InOrder(Field)
    BY <1>4 DEF Draw
  <2>2. total = 2 * (total \div 2)
    BY <1>1, <1>4
  <2> QED BY <1>1, <1>3, <2>1, <2>2
<1>5. CASE total % 2 # 0
  <2> DEFINE v == InOrder(Field)[skip]
             S == Field \ {v}
  <2>1. v \in Field
    BY <1>2, <1>3
  <2>2. Draw(skip) = RemoveAt(InOrder(Field), skip)
    BY <1>5 DEF Draw
  <2>3. Draw(skip) = InOrder(S)
    BY <1>1, <1>2, <2>2, RemoveInOrder
  <2>4. IsFiniteSet(S) /\ Cardinality(S) = total - 1 /\ S \in SUBSET Int
    <3> HIDE DEF v
    <3> QED BY <1>1, <2>1, FS_RemoveElement
  <2>5. S \in {Field} \cup {Field \ {p} : p \in Field}
    BY <2>1
  <2> HIDE DEF S, v
  <2>6. Len(Draw(skip)) = total - 1
    BY <2>3, <2>4, InOrderLemma
  <2>7. total - 1 = 2 * (total \div 2)
    BY <1>1, <1>5
  <2> QED BY <1>1, <2>3, <2>5, <2>6, <2>7
<1> QED
  BY <1>4, <1>5

\* Before its first round a match has no points.
LEMMA NoPoints ==
  ASSUME NEW p, NEW q
  PROVE  Cardinality(FirstWins(0, p, q)) = 0 /\ Cardinality(SecondWins(0, p, q)) = 0
<1>1. FirstWins(0, p, q) = {} /\ SecondWins(0, p, q) = {}
  BY DEF FirstWins, SecondWins
<1> QED
  BY <1>1, FS_EmptySet

LEMMA BracketStage ==
  ASSUME Step, Stage
  PROVE  BracketOK'
<1>1. /\ at = "stage" /\ at' = "ask1" /\ total # 1 /\ ~ InStage /\ InStage'
      /\ i' = 1 /\ r' = 0 /\ p1' = 0 /\ p2' = 0
      /\ UNCHANGED <<active, total, x, out, played>>
  BY DEF Stage, InStage
<1>2. FieldOK /\ Field' = Field /\ FieldOK' /\ x \in Bytes /\ GameOK /\ active = Field
  BY <1>1, FieldKept, Constant DEF BracketOK, FieldOK
<1>3. PICK skip \in getWalkOver(total) : a' = Draw(skip)
  BY DEF Stage
<1> DEFINE d == Draw(skip)
<1>4. /\ \E S \in {Field} \cup {Field \ {p} : p \in Field} : d = InOrder(S)
      /\ Len(d) = 2 * (total \div 2) /\ total >= 2 /\ a' = d
  BY <1>1, <1>2, <1>3, DrawIs
<1> HIDE DEF d
<1>5. DrawOK'
  BY <1>1, <1>2, <1>4 DEF DrawOK
<1>6. \A p : In(p)' <=> p \in Field
  <2>1. Done' = 0
    BY <1>1 DEF Done
  <2>2. \A p : In(p)' <=> p \in Field'
    BY <2>1 DEF In
  <2> QED BY <1>2, <2>2
<1>7. total \in Nat /\ total = Cardinality(Field)
  BY <1>2, FieldIs DEF FieldOK
<1>8. MatchOK'
  <2>1. Done' = 0 /\ N' = N /\ N \in Nat
    BY <1>1, Constant DEF Done
  <2>2. 1 \in 1 .. total \div 2 /\ 0 \in 0 .. N /\ total - 0 = total
    BY <1>4, <1>7, <2>1
  <2>3. Cardinality(active') = total' - Done'
    BY <1>1, <1>2, <1>7, <2>1, <2>2
  <2>4. \A p : p \in active' <=> In(p)'
    BY <1>1, <1>2, <1>6
  <2> QED BY <1>1, <2>1, <2>2, <2>3, <2>4 DEF MatchOK
<1>9. ScoreOK'
  <2>1. \A p, q : Cardinality(FirstWins(0, p, q))' = 0 /\ Cardinality(SecondWins(0, p, q))' = 0
    BY <1>1, NoPoints, WinsKept
  <2>2. Cardinality(FirstWins(r, First, Second))' = 0 /\ Cardinality(SecondWins(r, First, Second))' = 0
    BY <1>1, <2>1
  <2> QED BY <1>1, <2>2 DEF ScoreOK
<1> QED
  BY <1>1, <1>2, <1>5, <1>8, <1>9 DEF BracketOK

LEMMA BracketSurvivors ==
  ASSUME Step, Survivors
  PROVE  BracketOK'
<1>1. /\ at = "print" /\ at' = "stage" /\ InStage /\ ~ InStage'
      /\ total' = (total + 1) \div 2 /\ out' = Append(out, active)
      /\ UNCHANGED <<active, x>>
  BY DEF Survivors, InStage, score
<1>2. FieldOK /\ MatchOK /\ LineOK /\ x \in Bytes /\ n' = n
  BY <1>1, InMatch, Constant DEF BracketOK
<1>3. Cardinality(active) = total - (total \div 2)
  BY <1>1, <1>2 DEF MatchOK, Done
<1>4. total' = Cardinality(active) /\ total' >= 1
  <2>1. total \in Nat /\ total >= 2
    BY <1>2 DEF LineOK
  <2> QED BY <1>1, <1>3, <2>1
<1>5. active \in SUBSET (0 .. n - 1)
  <2>1. active \subseteq Field /\ Field \subseteq 0 .. n - 1
    BY <1>2 DEF MatchOK, In, LineOK
  <2> QED BY <2>1
<1>6. out' \in Seq(SUBSET (0 .. n - 1)) /\ out' # <<>> /\ Last(out') = active
  <2> DEFINE T == SUBSET (0 .. n - 1)
  <2>1. out \in Seq(T) /\ active \in T
    BY <1>2, <1>5 DEF FieldOK
  <2> HIDE DEF T
  <2>2. Append(out, active) \in Seq(T) /\ Append(out, active) # <<>> /\ Last(Append(out, active)) = active
    BY <2>1 DEF Last
  <2> QED BY <1>1, <2>2 DEF T
<1>7. Field' = active
  BY <1>1, <1>6 DEF Field
<1>8. FieldOK'
  BY <1>1, <1>2, <1>4, <1>6, <1>7 DEF FieldOK
<1> QED
  BY <1>1, <1>2, <1>8 DEF BracketOK

LEMMA BracketExit ==
  ASSUME Step, Exit
  PROVE  BracketOK'
<1>1. /\ at = "stage" /\ at' = "exit" /\ ~ InStage /\ ~ InStage'
      /\ UNCHANGED <<active, total, out, x>>
  BY DEF Exit, InStage, bracket, score
<1>2. active = Field /\ x \in Bytes
  BY <1>1, Constant DEF BracketOK, FieldOK
<1>3. FieldOK'
  BY <1>1, <1>2, FieldKept
<1> QED
  BY <1>1, <1>2, <1>3 DEF BracketOK

\* A step of a player.
LEMMA BracketKept ==
  ASSUME Step, UNCHANGED <<at, bracket, score, out, played>>
  PROVE  BracketOK'
<1>1. UNCHANGED <<at, active, total, a, i, r, x, p1, p2, out, played, n, N, program>> /\ BracketOK
  BY Constant DEF bracket, score
<1>2. Field' = Field /\ Done' = Done /\ (InStage' <=> InStage) /\ First' = First /\ Second' = Second
  BY <1>1 DEF Field, Done, InStage, First, Second
<1>3. FieldOK => FieldOK'
  BY <1>1, <1>2 DEF FieldOK
<1>4. ForkOK => ForkOK'
  BY <1>1 DEF ForkOK
<1>5. DrawOK => DrawOK'
  BY <1>1, <1>2 DEF DrawOK
<1>6. \A p : In(p)' <=> In(p)
  BY <1>1, <1>2, InKept
<1>7. MatchOK => MatchOK'
  BY <1>1, <1>2, <1>6 DEF MatchOK
<1>8. ScoreOK => ScoreOK'
  BY <1>1, <1>2, WinsKept DEF ScoreOK
<1> QED
  BY <1>1, <1>2, <1>3, <1>4, <1>5, <1>7, <1>8 DEF BracketOK

\* The winner stays, the other drops out.
LEMMA EndMatchIn ==
  ASSUME Step, EndMatch
  PROVE  /\ \A p : In(p)' <=> In(p) /\ p # Beaten
         /\ In(Beaten) /\ Done' = Done + 1 /\ Done = i - 1 /\ Field' = Field
<1>1. /\ at = "ask1" /\ at' \in {"ask1", "print"} /\ r = N /\ InStage /\ InStage'
      /\ UNCHANGED <<total, a, out, played>>
  BY DEF EndMatch, InStage
<1>2. /\ PairOK /\ ScoreOK /\ Field' = Field
  BY <1>1, InMatch, FieldKept
<1>3. i \in Nat /\ i >= 1 /\ First # Second
  BY <1>2 DEF PairOK
<1>4. Done = i - 1 /\ Done' = i
  <2>1. Done = i - 1
    BY <1>1 DEF Done
  <2>2. IF 2 * i < Len(a) THEN at' = "ask1" /\ i' = i + 1 ELSE at' = "print" /\ i' = i
    BY <1>1 DEF EndMatch
  <2>3. Done' = i
    BY <1>3, <2>2 DEF Done
  <2> QED BY <2>1, <2>3
<1>5. Winner(First, Second) = IF p1 >= p2 THEN First ELSE Second
  BY <1>1, <1>2 DEF ScoreOK, Winner
<1> DEFINE W(k) == Winner(a[2 * k - 1], a[2 * k])
<1>6. W(i) = Winner(First, Second) /\ (W(i) = First \/ W(i) = Second)
      /\ (Beaten = First \/ Beaten = Second) /\ W(i) # Beaten
      /\ \A p : (p = First \/ p = Second) /\ p # Beaten => p = W(i)
  BY <1>3, <1>5 DEF Beaten, First, Second
<1>7. \A k : W(k) = a[2 * k - 1] \/ W(k) = a[2 * k]
  BY DEF Winner
<1>8. \A p : In(p)' <=> /\ p \in Field
                        /\ (\A j \in 1 .. 2 * i : a[j] # p) \/ (\E k \in 1 .. i : p = W(k))
  BY <1>1, <1>2, <1>4, WinsKept DEF In
<1>9. \A p : In(p) <=> /\ p \in Field
                       /\ (\A j \in 1 .. 2 * (i - 1) : a[j] # p) \/ (\E k \in 1 .. i - 1 : p = W(k))
  BY <1>4 DEF In
<1> HIDE DEF W
<1>10. ASSUME NEW p, p # First, p # Second PROVE In(p)' <=> In(p)
  <2>1. \A j \in 1 .. 2 * i : j \in 1 .. 2 * (i - 1) \/ j = 2 * i - 1 \/ j = 2 * i
    BY <1>3
  <2>2. \A j \in 1 .. 2 * (i - 1) : j \in 1 .. 2 * i
    BY <1>3
  <2>3. (\A j \in 1 .. 2 * i : a[j] # p) <=> (\A j \in 1 .. 2 * (i - 1) : a[j] # p)
    BY <1>10, <2>1, <2>2, Zenon DEF First, Second
  <2>4. \A k \in 1 .. i : k \in 1 .. i - 1 \/ k = i
    BY <1>3
  <2>5. \A k \in 1 .. i - 1 : k \in 1 .. i
    BY <1>3
  <2>6. p # W(i)
    BY <1>6, <1>10
  <2>7. (\E k \in 1 .. i : p = W(k)) <=> (\E k \in 1 .. i - 1 : p = W(k))
    BY <2>4, <2>5, <2>6, Zenon
  <2> QED BY <1>8, <1>9, <2>3, <2>7, Zenon
<1>11. ASSUME NEW p, p = First \/ p = Second PROVE In(p) /\ (In(p)' <=> p = W(i))
  <2>1. p \in Field /\ \A j \in 1 .. 2 * i - 2 : a[j] # p
    BY <1>2, <1>11 DEF PairOK
  <2>2. 2 * (i - 1) = 2 * i - 2
    BY <1>3
  <2>3. In(p)
    BY <1>9, <2>1, <2>2
  <2>4. ~ \A j \in 1 .. 2 * i : a[j] # p
    <3>1. 2 * i - 1 \in 1 .. 2 * i /\ 2 * i \in 1 .. 2 * i
      BY <1>3
    <3> QED BY <1>11, <3>1 DEF First, Second
  <2>5. \A k \in 1 .. i : k = i \/ p # W(k)
    <3> SUFFICES ASSUME NEW k \in 1 .. i, k # i PROVE p # W(k)
      OBVIOUS
    <3>1. 2 * k - 1 \in 1 .. 2 * i - 2 /\ 2 * k \in 1 .. 2 * i - 2
      BY <1>3
    <3> QED BY <1>7, <2>1, <3>1
  <2>6. i \in 1 .. i
    BY <1>3
  <2>7. (\E k \in 1 .. i : p = W(k)) <=> p = W(i)
    BY <2>5, <2>6
  <2> QED BY <1>8, <2>1, <2>3, <2>4, <2>7
<1>12. \A p : In(p)' <=> In(p) /\ p # Beaten
  BY <1>6, <1>10, <1>11
<1>13. In(Beaten)
  BY <1>6, <1>11
<1>14. Done' = Done + 1
  BY <1>3, <1>4
<1> QED
  BY <1>2, <1>4, <1>12, <1>13, <1>14

LEMMA BracketEndMatch ==
  ASSUME Step, EndMatch
  PROVE  BracketOK'
<1>1. /\ at = "ask1" /\ at' \in {"ask1", "print"} /\ r = N /\ InStage /\ InStage'
      /\ UNCHANGED <<total, a, x, out, played>> /\ active' = active \ {Beaten}
  BY DEF EndMatch, InStage
<1>2. /\ PairOK /\ DrawOK /\ MatchOK /\ LineOK /\ FieldOK /\ FieldOK' /\ GameOK
      /\ x \in Bytes /\ N \in Nat /\ N' = N
  BY <1>1, InMatch, FieldKept, Constant DEF BracketOK
<1>3. /\ \A p : In(p)' <=> In(p) /\ p # Beaten
      /\ In(Beaten) /\ Done' = Done + 1 /\ Done = i - 1 /\ Field' = Field
  BY EndMatchIn
<1>4. DrawOK'
  BY <1>1, <1>2, <1>3 DEF DrawOK
<1>5. \A p : p \in active' <=> In(p)'
  BY <1>1, <1>2, <1>3 DEF MatchOK
<1>6. Cardinality(active') = total' - Done'
  <2>1. IsFiniteSet(Field) /\ active \in SUBSET Field /\ total \in Nat
    BY <1>2, FieldIs DEF MatchOK, In
  <2>2. IsFiniteSet(active) /\ Beaten \in active
    BY <1>2, <1>3, <2>1, FS_Subset DEF MatchOK
  <2>3. Cardinality(active') = Cardinality(active) - 1
    BY <1>1, <2>2, FS_RemoveElement
  <2>4. Cardinality(active) = total - Done /\ i \in Nat
    BY <1>2 DEF MatchOK, PairOK
  <2> QED BY <1>1, <1>3, <2>1, <2>3, <2>4
<1>7. /\ i \in Nat /\ i >= 1 /\ total \in Nat /\ total >= 2 /\ i <= total \div 2
      /\ Len(a) = 2 * (total \div 2) /\ total \div 2 \in Nat
  <2>1. total \div 2 \in Nat
    BY <1>2 DEF LineOK
  <2> QED BY <1>2, <2>1 DEF MatchOK, LineOK, PairOK
<1>8. CASE 2 * i < Len(a)
  <2>1. at' = "ask1" /\ i' = i + 1 /\ r' = 0 /\ p1' = 0 /\ p2' = 0
    BY <1>1, <1>8 DEF EndMatch
  <2>2. i + 1 \in 1 .. total \div 2
    BY <1>7, <1>8
  <2>3. 0 \in 0 .. N
    BY <1>2
  <2>4. MatchOK'
    BY <1>1, <1>2, <1>5, <1>6, <2>1, <2>2, <2>3 DEF MatchOK
  <2>5. \A p, q : Cardinality(FirstWins(0, p, q))' = 0 /\ Cardinality(SecondWins(0, p, q))' = 0
    BY <1>1, NoPoints, WinsKept
  <2>6. Cardinality(FirstWins(r, First, Second))' = 0 /\ Cardinality(SecondWins(r, First, Second))' = 0
    BY <2>1, <2>5
  <2>7. ScoreOK'
    BY <2>1, <2>6 DEF ScoreOK
  <2> QED BY <1>1, <1>2, <1>4, <2>4, <2>7 DEF BracketOK
<1>9. CASE ~ 2 * i < Len(a)
  <2>1. at' = "print" /\ i' = i /\ r' = r
    BY <1>1, <1>9 DEF EndMatch
  <2>2. i = total \div 2
    BY <1>7, <1>9
  <2>3. i \in 1 .. total \div 2 /\ r \in 0 .. N
    BY <1>1, <1>2, <1>7
  <2>4. MatchOK'
    BY <1>1, <1>2, <1>5, <1>6, <2>1, <2>2, <2>3 DEF MatchOK
  <2> QED BY <1>1, <1>2, <1>4, <2>1, <2>4 DEF BracketOK
<1> QED
  BY <1>8, <1>9

LEMMA BracketStep ==
  ASSUME Step
  PROVE  BracketOK'
<1>1. ASSUME NEW p \in Players, PlayerStep(p) PROVE BracketOK'
  <2>1. UNCHANGED <<at, bracket, score, out, played>>
    BY <1>1 DEF PlayerStep
  <2> QED BY <2>1, BracketKept
<1>2. CASE UNCHANGED vars
  <2>1. UNCHANGED <<at, bracket, score, out, played>>
    BY <1>2 DEF vars
  <2> QED BY <2>1, BracketKept
<1> QED
  BY <1>1, <1>2, BracketFork, BracketEndFork, BracketStage, BracketAsk, BracketRead1, BracketRead2,
     BracketEndMatch, BracketSurvivors, BracketExit DEF Step, Next, Umpire

-----------------------------------------------------------------------------
LEMMA KnockoutInvInit == Init => KnockoutInv
<1> SUFFICES ASSUME Init PROVE KnockoutInv
  OBVIOUS
<1>1. GameOK /\ total = n
  BY GamesAssumption DEF Init, GameOK
<1>2. /\ at = "fork" /\ active = {} /\ out = <<{}>> /\ x = Other /\ ~ InStage
      /\ played = [p \in Players |-> 0]
  BY DEF Init, InStage
<1>3. Arrays
  BY <1>2 DEF Init, PInit, Arrays
<1>4. ForkOK
  <2>1. IsFiniteSet({}) /\ Cardinality({}) = 0
    BY FS_EmptySet
  <2>2. {} = 0 .. 0 - 1 /\ 0 <= n
    BY <1>1 DEF GameOK
  <2> QED BY <1>1, <1>2, <2>1, <2>2 DEF ForkOK
<1>5. BracketOK
  BY <1>2, <1>4 DEF BracketOK, Bytes
<1>6. ASSUME NEW p \in Players PROVE PipeOK(p)
  <2>1. /\ player[p] = "none" /\ answer[p] = <<>> /\ made[p] = 0 /\ played[p] = 0
    BY <1>2 DEF Init, PInit
  <2>2. Taken(p) = 0
    <3>1. N \in Nat
      BY <1>1 DEF GameOK
    <3> QED BY <1>2, <2>1, <3>1 DEF Taken, Rounds
  <2>3. Len(answer[p]) = 0 /\ answer[p] \in Seq(Bytes)
    BY <2>1
  <2> QED BY <2>1, <2>2, <2>3 DEF PipeOK
<1> QED
  BY <1>1, <1>3, <1>5, <1>6 DEF KnockoutInv

LEMMA KnockoutInvStep == KnockoutInv /\ [Next]_vars => KnockoutInv'
<1> SUFFICES ASSUME Step PROVE KnockoutInv'
  BY DEF Step
<1>1. Arrays' /\ GameOK' /\ BracketOK'
  BY ArraysStep, Constant, BracketStep
<1>2. \A p \in Players : PipeOK(p)'
  BY PipesStep
<1> QED
  BY <1>1, <1>2 DEF KnockoutInv

-----------------------------------------------------------------------------
(* The refinement.  Knockout has the rules and the order of a set from the *)
(* same module, so each of its operators is the one used here.             *)

LEMMA SameRules ==
  /\ KO!Missing = Missing /\ \A m, k : KO!Answer(m, k) = Answer(m, k)
  /\ \A p, m : KO!Leftover(p, m) = Leftover(p, m)
  /\ \A b, c : KO!Beats(b, c) <=> Beats(b, c)
  /\ \A b, c : KO!BeatsOrSpoilt(b, c) <=> BeatsOrSpoilt(b, c)
<1>1. KO!Rock = Rock /\ KO!Paper = Paper /\ KO!Scissors = Scissors /\ KO!Other = Other
  BY DEF KO!Rock, KO!Paper, KO!Scissors, KO!Other, Rock, Paper, Scissors, Other
<1>2. KO!Moves = Moves
  BY <1>1 DEF KO!Moves, Moves
<1>3. KO!Missing = Missing
  BY DEF KO!Missing, Missing
<1>4. \A m, k : KO!Answer(m, k) = Answer(m, k)
  BY <1>1 DEF KO!Answer, Answer
<1>5. \A p, m : KO!Leftover(p, m) = Leftover(p, m)
  BY <1>1, <1>2 DEF KO!Leftover, Leftover
<1>6. \A b, c : KO!Beats(b, c) <=> Beats(b, c)
  BY <1>1 DEF KO!Beats, Beats
<1>7. \A b, c : KO!BeatsOrSpoilt(b, c) <=> BeatsOrSpoilt(b, c)
  BY <1>1, <1>2, <1>6 DEF KO!BeatsOrSpoilt, BeatsOrSpoilt
<1> QED
  BY <1>3, <1>4, <1>5, <1>6, <1>7

LEMMA SameSize ==
  ASSUME NEW S
  PROVE  KO!Cardinality(S) = Cardinality(S)
  BY DEF KO!Cardinality, Cardinality

LEMMA SameOrder ==
  \A S : KO!InOrder(S) = InOrder(S) /\ KO!ToSet(S) = ToSet(S)
<1>1. \A S, p : KO!Below(S, p) = Below(S, p)
  BY SameSize DEF KO!Below, Below
<1>2. \A S : KO!InOrder(S) = InOrder(S)
  BY <1>1, SameSize DEF KO!InOrder, InOrder
<1>3. \A S : KO!ToSet(S) = ToSet(S)
  BY DEF KO!ToSet, ToSet
<1> QED
  BY <1>2, <1>3

LEMMA SameWinner ==
  \A p, q : KO!Winner(p, q) = Winner(p, q)
<1>1. \A p, k : KO!Byte(p, k) = Byte(p, k)
  BY SameRules DEF KO!Byte, Byte, Source, Plays
<1>2. \A p, q : {k \in 1 .. N : KO!BeatsOrSpoilt(KO!Byte(p, k), KO!Byte(q, k))} = FirstWins(N, p, q)
  BY <1>1, SameRules DEF FirstWins
<1>3. \A p, q : {k \in 1 .. N : KO!Beats(KO!Byte(q, k), KO!Byte(p, k))} = SecondWins(N, p, q)
  BY <1>1, SameRules DEF SecondWins
<1> QED
  BY <1>2, <1>3, SameSize DEF KO!Winner, Winner

\* A child that is not there has left enough bytes for the match it has played.
LEMMA HasPlayed ==
  ASSUME Step, at = "print", NEW k \in 1 .. Len(a)
  PROVE  KO!CanPlay(a[k])
<1>1. LineOK /\ a[k] \in Players /\ a[k] \in 0 .. n - 1
  BY InMatch DEF InStage, LineOK
<1> DEFINE p == a[k]
<1>2. p \in ToSet(a)
  BY <1>1 DEF LineOK, ToSet
<1>3. p \in Players /\ p \in 0 .. n - 1 /\ n \in Nat \ {0} /\ N \in Nat
  BY <1>1, Constant DEF GameOK
<1> HIDE DEF p
<1>4. Taken(p) = (played[p] + 1) * N /\ Taken(p) \in Nat /\ PipeOK(p)
  BY <1>2, <1>3, StagePlayed, Constant, TakenNat
<1>5. ASSUME program[p] = Missing PROVE Taken(p) <= Len(Leftover(p, n))
  <2>1. Leftover(p, n) \in Seq(Bytes) /\ Len(Leftover(p, n)) \in Nat
    BY <1>3, LeftoverLemma
  <2>2. \/ Taken(p) = 0
        \/ Taken(p) + Len(answer[p]) = Len(Leftover(p, n)) /\ Len(answer[p]) \in Nat
    BY <1>4, <1>5 DEF PipeOK, Plays
  <2> QED BY <1>4, <2>1, <2>2
<1>6. KO!CanPlay(p)
  BY <1>4, <1>5, SameRules DEF KO!CanPlay
<1> QED
  BY <1>6 DEF p

\* Those in play after the last match are the players not drawn and the winners.
LEMMA WhoIsIn ==
  ASSUME Step, at = "print"
  PROVE  active = (Field \ ToSet(a)) \cup {Winner(a[2 * k - 1], a[2 * k]) : k \in 1 .. Len(a) \div 2}
<1>1. MatchOK /\ LineOK /\ PairOK
  BY InMatch DEF InStage
<1>2. Done = i /\ Len(a) = 2 * i /\ i \in Nat /\ Len(a) \div 2 = i
  <2>1. Done = i /\ i = total \div 2 /\ i \in Nat /\ Len(a) = 2 * (total \div 2)
    BY <1>1 DEF Done, MatchOK, LineOK, PairOK
  <2> QED BY <2>1
<1>3. ToSet(a) = {a[j] : j \in 1 .. 2 * i}
  BY <1>1, <1>2 DEF LineOK, ToSet
<1> DEFINE W(k) == Winner(a[2 * k - 1], a[2 * k])
<1>4. \A p : In(p) <=> /\ p \in Field
                       /\ (\A j \in 1 .. 2 * i : a[j] # p) \/ (\E k \in 1 .. i : p = W(k))
  BY <1>2 DEF In
<1>5. \A k \in 1 .. i : W(k) \in Field
  <2> SUFFICES ASSUME NEW k \in 1 .. i PROVE W(k) \in Field
    OBVIOUS
  <2>1. 2 * k - 1 \in 1 .. Len(a) /\ 2 * k \in 1 .. Len(a)
    BY <1>2
  <2> QED BY <1>1, <2>1 DEF LineOK, Winner
<1> HIDE DEF W
<1>6. \A p : p \in active <=> In(p)
  BY <1>1 DEF MatchOK
<1>7. active = (Field \ ToSet(a)) \cup {W(k) : k \in 1 .. i}
  <2>1. \A p : p \in ToSet(a) <=> \E j \in 1 .. 2 * i : a[j] = p
    BY <1>3
  <2>2. \A p : p \in {W(k) : k \in 1 .. i} <=> \E k \in 1 .. i : p = W(k)
    OBVIOUS
  <2>3. \A p : p \in active <=> (p \in Field /\ p \notin ToSet(a)) \/ p \in {W(k) : k \in 1 .. i}
    BY <1>4, <1>5, <1>6, <2>1, <2>2
  <2> QED BY <2>3
<1> QED
  BY <1>2, <1>7 DEF W

LEMMA SurvivorsIsStage ==
  ASSUME Step, Survivors
  PROVE  KO!Stage
<1>1. /\ at = "print" /\ at' = "stage" /\ InStage
      /\ out' = Append(out, active)
      /\ played' = [p \in Players |-> played[p] + (IF p \in ToSet(a) THEN 1 ELSE 0)]
  BY DEF Survivors, InStage
<1>2. FieldOK /\ DrawOK /\ LineOK /\ GameOK /\ Arrays /\ UNCHANGED <<program, n, N>>
  BY <1>1, InMatch, Constant
<1>3. a \in {KO!InOrder(Field)} \cup {KO!InOrder(Field \ {p}) : p \in Field}
  BY <1>2, SameOrder DEF DrawOK
<1>4. /\ Cardinality(Field) > 1 /\ Len(a) % 2 = 0 /\ Len(a) >= Cardinality(Field) - 1
      /\ DOMAIN a = 1 .. Len(a)
  <2>1. /\ total = Cardinality(Field) /\ total \in Nat /\ total >= 2 /\ Len(a) = 2 * (total \div 2)
        /\ DOMAIN a = 1 .. Len(a)
    BY <1>2 DEF FieldOK, LineOK
  <2>2. (2 * (total \div 2)) % 2 = 0 /\ 2 * (total \div 2) >= total - 1
    BY <2>1
  <2> QED BY <2>1, <2>2
<1>5. \A k \in DOMAIN a : KO!CanPlay(a[k])
  BY <1>1, <1>4, HasPlayed
<1>6. Field' = active
  <2> DEFINE T == SUBSET (0 .. n - 1)
  <2>1. out \in Seq(T)
    BY <1>2 DEF FieldOK
  <2> HIDE DEF T
  <2>2. Last(Append(out, active)) = active
    BY <2>1 DEF Last
  <2> QED BY <1>1, <2>2 DEF Field
<1>7. Field' = (Field \ KO!ToSet(a)) \cup
               {KO!Winner(a[2 * k - 1], a[2 * k]) : k \in 1 .. Len(a) \div 2}
  <2>1. active = (Field \ ToSet(a)) \cup {Winner(a[2 * k - 1], a[2 * k]) : k \in 1 .. Len(a) \div 2}
    BY <1>1, WhoIsIn
  <2> QED BY <1>6, <2>1, SameOrder, SameWinner
<1>8. played' = [p \in DOMAIN played |-> IF p \in KO!ToSet(a) THEN played[p] + 1 ELSE played[p]]
  <2>1. DOMAIN played = Players
    BY <1>2 DEF Arrays
  <2>2. \A p \in Players : played[p] \in Nat
    BY Constant DEF PipeOK
  <2> QED BY <1>1, <2>1, <2>2, SameOrder
<1> QED
  BY <1>2, <1>3, <1>4, <1>5, <1>7, <1>8, SameSize DEF KO!Stage

LEMMA StepOfKnockout ==
  ASSUME Step
  PROVE  [KO!Stage]_KO!kvars
<1>1. UNCHANGED <<program, n, N>>
  BY Constant
<1>2. CASE Survivors
  BY <1>2, SurvivorsIsStage
<1>3. CASE EndFork
  <2>1. at = "fork" /\ at' = "stage" /\ Cardinality(active) = n /\ UNCHANGED <<out, played>>
    BY <1>3 DEF EndFork
  <2>2. active = 0 .. n - 1 /\ out = <<active>>
    BY <2>1, Constant DEF BracketOK, ForkOK
  <2>3. Field' = Field
    BY <2>1, <2>2 DEF Field, Last
  <2> QED BY <1>1, <2>1, <2>3 DEF KO!kvars
<1>4. CASE Fork
  <2>1. Field' = Field /\ played' = played
    BY <1>1, <1>4 DEF Fork, Field
  <2> QED BY <1>1, <2>1 DEF KO!kvars
<1>5. CASE Stage \/ Ask1 \/ Read1 \/ Ask2 \/ Read2 \/ EndMatch \/ Exit
  <2>1. at # "fork" /\ at' # "fork" /\ UNCHANGED <<out, played>>
    BY <1>5 DEF Stage, Ask1, Read1, Ask2, Read2, EndMatch, Exit
  <2>2. Field' = Field
    BY <2>1 DEF Field
  <2> QED BY <1>1, <2>1, <2>2 DEF KO!kvars
<1>6. CASE (\E p \in Players : PlayerStep(p)) \/ UNCHANGED vars
  <2>1. UNCHANGED <<at, out, played>>
    BY <1>6 DEF PlayerStep, vars
  <2>2. Field' = Field
    BY <1>1, <2>1 DEF Field
  <2> QED BY <1>1, <2>1, <2>2 DEF KO!kvars
<1> QED
  BY <1>2, <1>3, <1>4, <1>5, <1>6 DEF Step, Next, Umpire

\* Every line the tournament prints after the first follows from the line before
\* it as the rules of a knockout say, with the moves of that match and of no other
\* (umpire2.c:86-154).
THEOREM KnockoutImplemented == Spec => ImplementsKnockout
<1>1. Init => KO!KInit
  <2> SUFFICES ASSUME Init PROVE KO!KInit
    OBVIOUS
  <2>1. DOMAIN program = Players
    BY KnockoutInvInit DEF KnockoutInv, GameOK
  <2> QED BY <2>1 DEF Init, KO!KInit, Field
<1>2. KnockoutInv /\ [Next]_vars => [KO!Stage]_KO!kvars
  BY StepOfKnockout DEF Step
<1> QED
  BY <1>1, <1>2, KnockoutInvInit, KnockoutInvStep, PTL DEF Spec, ImplementsKnockout, KO!KSpec

=============================================================================
