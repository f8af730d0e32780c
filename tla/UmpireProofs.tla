---------------------------- MODULE UmpireProofs ----------------------------
(***************************************************************************)
(* Theorems about Umpire, for any number of rounds and any two programs.   *)
(***************************************************************************)
EXTENDS Umpire, FiniteSetTheorems, SequenceTheorems, TLAPS

\* How often the umpire has asked player p, and how many answers it has taken.
Asked(p) == i + (IF at \in {"read1", "read2"} \/ (p = 1 /\ at = "ask2") THEN 1 ELSE 0)
Taken(p) == i + (IF p = 1 /\ at = "read2" THEN 1 ELSE 0)

\* The points of p against q in the first k rounds.
PointsUpTo(k, p, q) == Cardinality({r \in 1 .. k :
    Beats(Answer(program[p], r), Answer(program[q], r))})

UmpireOK == /\ at \in {"fork", "ask1", "ask2", "read1", "read2", "exit"}
            /\ i \in 0 .. Rounds
            /\ at = "exit" => i = Rounds
            /\ at \in {"ask2", "read1", "read2"} => i < Rounds

\* While a player is being made the umpire has neither asked nor scored.
PlayerOK(p) ==
    /\ program[p] \in Programs
    /\ player[p] \in {"none", "reads", "moves", "gone"}
    /\ go[p] \in Nat /\ made[p] \in Nat /\ answer[p] \in Seq(Bytes)
    /\ player[p] = "none" => go[p] = 0 /\ made[p] = 0 /\ answer[p] = <<>>
    /\ at = "fork" => i = 0 /\ player[2] = "none"
    /\ at # "fork" => player[p] # "none"
    /\ player[p] \in {"reads", "moves"} => Plays(p)
    /\ player[p] = "gone" => ~Plays(p)

\* The bytes in the pipe of a player are its moves of the rounds that follow.
PlayingOK(p) == Plays(p) =>
    /\ made[p] = Taken(p) + Len(answer[p])
    /\ Taken(p) + Owed(p) = Asked(p)
    /\ \A k \in 1 .. Len(answer[p]) : answer[p][k] = Answer(program[p], Taken(p) + k)

\* From a player that could not be started nothing ever comes.
MissingOK(p) == ~Plays(p) =>
    /\ player[p] \in {"none", "gone"} /\ answer[p] = <<>>
    /\ Taken(p) = 0 /\ go[p] = Asked(p)

ScoreOK == /\ at = "read2" => x = Answer(program[1], i + 1)
           /\ x \in Bytes
           /\ p1 = PointsUpTo(i, 1, 2) /\ p2 = PointsUpTo(i, 2, 1)

Shape == /\ program = [p \in Players |-> program[p]] /\ player = [p \in Players |-> player[p]]
         /\ go = [p \in Players |-> go[p]] /\ made = [p \in Players |-> made[p]]
         /\ answer = [p \in Players |-> answer[p]]

UmpireInv == /\ Shape /\ UmpireOK /\ ScoreOK
             /\ \A p \in Players : PlayerOK(p) /\ PlayingOK(p) /\ MissingOK(p)

-----------------------------------------------------------------------------
\* A program that exists answers with a move.
LEMMA AnswerLemma ==
  ASSUME NEW m, IsProgram(m), m # Missing, NEW k \in Nat \ {0}
  PROVE  Answer(m, k) \in Moves
<1>1. /\ m.moves \in Seq(Moves) /\ m.after \in {"again", "rock"}
      /\ m.after = "again" => m.moves # <<>>
  BY DEF IsProgram
<1>2. CASE k \in DOMAIN m.moves
  BY <1>1, <1>2 DEF Answer
<1>3. CASE k \notin DOMAIN m.moves /\ m.after = "again"
  <2>1. Len(m.moves) \in Nat \ {0} /\ DOMAIN m.moves = 1 .. Len(m.moves)
    BY <1>1, <1>3
  <2>2. ((k - 1) % Len(m.moves)) + 1 \in DOMAIN m.moves
    BY <2>1
  <2> QED
    BY <1>1, <1>3, <2>2 DEF Answer
<1>4. CASE k \notin DOMAIN m.moves /\ m.after = "rock"
  BY <1>4 DEF Answer, Moves
<1> QED
  BY <1>1, <1>2, <1>3, <1>4

\* The umpire's comparison follows the rules when both bytes are moves.
LEMMA RulesLemma ==
  ASSUME NEW a \in Moves, NEW b \in Moves
  PROVE  (Wins(a, b) <=> Beats(a, b)) /\ (Loses(a, b) <=> Beats(b, a))
  BY DEF Moves, Rock, Paper, Scissors, Wins, Loses, Beats

\* One round more adds the point of that round.
LEMMA PointsLemma ==
  ASSUME NEW k \in Nat, NEW p, NEW q
  PROVE  /\ PointsUpTo(k, p, q) \in Nat
         /\ PointsUpTo(k + 1, p, q) = PointsUpTo(k, p, q) +
              (IF Beats(Answer(program[p], k + 1), Answer(program[q], k + 1)) THEN 1 ELSE 0)
<1> DEFINE B(r) == Beats(Answer(program[p], r), Answer(program[q], r))
           Old == {r \in 1 .. k : B(r)}
           New == {r \in 1 .. k + 1 : B(r)}
<1>1. IsFiniteSet(Old) /\ Cardinality(Old) \in Nat
  <2>1. IsFiniteSet(1 .. k)
    BY FS_Interval
  <2> QED
    BY <2>1, FS_Subset, FS_CardinalityType
<1>2. k + 1 \notin Old
  OBVIOUS
<1>3. CASE B(k + 1)
  <2>1. New = Old \cup {k + 1}
    BY <1>3
  <2>2. Cardinality(New) = Cardinality(Old) + 1
    BY <1>1, <1>2, <2>1, FS_AddElement
  <2> QED
    BY <1>1, <1>3, <2>2 DEF PointsUpTo
<1>4. CASE ~B(k + 1)
  <2>1. New = Old
    BY <1>4
  <2> QED
    BY <1>1, <1>4, <2>1 DEF PointsUpTo
<1> QED
  BY <1>3, <1>4

\* Nobody changes a program.
LEMMA ProgramLemma ==
  ASSUME [Next]_vars
  PROVE  /\ program' = program
         /\ \A p : Plays(p)' <=> Plays(p)
         /\ \A k, p, q : PointsUpTo(k, p, q)' = PointsUpTo(k, p, q)
<1>1. program' = program
  BY DEF Next, vars, Umpires, Fork, Start, Ask1, Ask2, Read1, Read2, Report,
         Plays1or2, Play, Hear, Throw
<1> QED
  BY <1>1 DEF Plays, PointsUpTo

LEMMA ShapeStep ==
  ASSUME Shape, [Next]_vars
  PROVE  Shape'
  BY DEF Shape, Next, vars, Umpires, Fork, Start, Ask1, Ask2, Ask, Read1, Read2, Take, Report,
         Plays1or2, Play, Hear, Throw

-----------------------------------------------------------------------------
(* One lemma for each action. *)

\* What the lemmas below start from, and what they show.
Before == UmpireInv /\ [Next]_vars
Kept == /\ UmpireOK' /\ ScoreOK'
        /\ \A p \in Players : PlayerOK(p)' /\ PlayingOK(p)' /\ MissingOK(p)'

LEMMA Facts ==
  ASSUME Before
  PROVE  /\ Shape /\ UmpireOK /\ ScoreOK
         /\ \A p \in Players : PlayerOK(p) /\ PlayingOK(p) /\ MissingOK(p)
         /\ program' = program /\ \A p : Plays(p)' <=> Plays(p)
         /\ \A k, p, q : PointsUpTo(k, p, q)' = PointsUpTo(k, p, q)
         /\ Players = {1, 2} /\ Rounds \in Nat /\ i \in Nat
         /\ \A p \in Players : Plays(p) =>
              \A k \in Nat \ {0} : Answer(program[p], k) \in Moves
<1>1. /\ Shape /\ UmpireOK /\ ScoreOK
      /\ \A p \in Players : PlayerOK(p) /\ PlayingOK(p) /\ MissingOK(p)
  BY DEF Before, UmpireInv
<1>2. Players = {1, 2} /\ Rounds \in Nat /\ \A m \in Programs : IsProgram(m)
  BY UmpireAssumption
<1>3. i \in Nat
  BY <1>1, <1>2 DEF UmpireOK
<1>4. \A p \in Players : Plays(p) => \A k \in Nat \ {0} : Answer(program[p], k) \in Moves
  BY <1>1, <1>2, AnswerLemma DEF PlayerOK, Plays
<1>5. /\ program' = program /\ \A p : Plays(p)' <=> Plays(p)
      /\ \A k, p, q : PointsUpTo(k, p, q)' = PointsUpTo(k, p, q)
  BY ProgramLemma DEF Before
<1> QED
  BY <1>1, <1>2, <1>3, <1>4, <1>5

LEMMA HearStep ==
  ASSUME Before, NEW p \in Players, Hear(p), UNCHANGED <<at, i, x, p1, p2>>
  PROVE  Kept
<1>1. /\ player[p] = "reads" /\ go[p] > 0 /\ go' = [go EXCEPT ![p] = @ - 1]
      /\ player' = [player EXCEPT ![p] = "moves"] /\ UNCHANGED <<answer, made>>
  BY DEF Hear
<1>2. \A q \in Players : /\ go'[q] = IF q = p THEN go[q] - 1 ELSE go[q]
                         /\ player'[q] = IF q = p THEN "moves" ELSE player[q]
  BY <1>1, Facts DEF Shape
<1>3. UmpireOK' /\ ScoreOK'
  BY Facts DEF UmpireOK, ScoreOK
<1>4. ASSUME NEW q \in Players PROVE PlayerOK(q)' /\ MissingOK(q)'
  BY <1>1, <1>2, Facts DEF PlayerOK, MissingOK, Asked, Taken
<1>5. ASSUME NEW q \in Players PROVE PlayingOK(q)'
  <2>1. go[q] \in Nat /\ made[q] \in Nat /\ Len(answer[q]) \in Nat
    BY Facts DEF PlayerOK
  <2>2. Owed(q)' = Owed(q)
    BY <1>1, <1>2, <2>1 DEF Owed
  <2>3. Asked(q)' = Asked(q) /\ Taken(q)' = Taken(q)
    BY DEF Asked, Taken
  <2> QED
    BY <1>1, <2>2, <2>3, Facts DEF PlayingOK
<1> QED
  BY <1>3, <1>4, <1>5 DEF Kept

LEMMA ThrowStep ==
  ASSUME Before, NEW p \in Players, Throw(p), UNCHANGED <<at, i, x, p1, p2>>
  PROVE  Kept
<1> DEFINE move == Answer(program[p], made[p] + 1)
<1>1. /\ player[p] = "moves" /\ made' = [made EXCEPT ![p] = @ + 1]
      /\ answer' = [answer EXCEPT ![p] = Append(@, move)]
      /\ player' = [player EXCEPT ![p] = "reads"] /\ UNCHANGED go
  BY DEF Throw
<1>2. Plays(p) /\ made[p] \in Nat /\ answer[p] \in Seq(Bytes) /\ move \in Bytes
  BY <1>1, Facts DEF PlayerOK, Bytes
<1> HIDE DEF move
<1>3. \A q \in Players : /\ made'[q] = IF q = p THEN made[q] + 1 ELSE made[q]
                         /\ player'[q] = IF q = p THEN "reads" ELSE player[q]
                         /\ answer'[q] = IF q = p THEN Append(answer[q], move) ELSE answer[q]
  BY <1>1, Facts DEF Shape
<1>4. UmpireOK' /\ ScoreOK'
  BY Facts DEF UmpireOK, ScoreOK
<1>5. Append(answer[p], move) \in Seq(Bytes) /\ Len(Append(answer[p], move)) = Len(answer[p]) + 1
      /\ \A k \in 1 .. Len(answer[p]) : Append(answer[p], move)[k] = answer[p][k]
      /\ Append(answer[p], move)[Len(answer[p]) + 1] = move
  BY <1>2, AppendProperties
<1>6. \A q \in Players : Asked(q)' = Asked(q) /\ Taken(q)' = Taken(q) /\ Taken(q) \in Nat
  BY Facts DEF Asked, Taken
<1>7. ASSUME NEW q \in Players PROVE PlayerOK(q)' /\ MissingOK(q)'
  BY <1>1, <1>2, <1>3, <1>5, <1>6, <1>7, Facts, SMTT(20) DEF PlayerOK, MissingOK
<1>8. ASSUME NEW q \in Players, q # p PROVE PlayingOK(q)'
  BY <1>1, <1>3, <1>6, <1>8, Facts DEF PlayingOK, Owed
<1>9. PlayingOK(p)'
  <2>1. Len(answer[p]) \in Nat /\ made[p] = Taken(p) + Len(answer[p]) /\ Taken(p) + Owed(p) = Asked(p)
        /\ go[p] \in Nat
    BY <1>2, Facts DEF PlayingOK, PlayerOK
  <2>2. Len(answer'[p]) = Len(answer[p]) + 1 /\ made'[p] = made[p] + 1
    BY <1>3, <1>5
  <2>3. Owed(p)' = Owed(p)
    BY <1>1, <1>3, <2>1, <2>2, SMTT(20) DEF Owed
  <2>4. ASSUME NEW k \in 1 .. Len(answer'[p])
        PROVE  answer'[p][k] = Answer(program'[p], Taken(p)' + k)
    <3>1. CASE k \in 1 .. Len(answer[p])
      BY <1>2, <1>3, <1>5, <1>6, <3>1, Facts, ZenonT(60) DEF PlayingOK
    <3>2. CASE k = Len(answer[p]) + 1
      <4>1. Taken(p)' + k = made[p] + 1
        BY <1>6, <2>1, <3>2
      <4>2. answer'[p][k] = move
        <5>1. answer'[p] = Append(answer[p], move)
          BY <1>3
        <5> QED
          BY <1>5, <3>2, <5>1
      <4>3. program' = program
        BY Facts
      <4> QED
        BY <4>1, <4>2, <4>3 DEF move
    <3> QED
      BY <2>1, <2>2, <3>1, <3>2
  <2> QED
    BY <1>6, <2>1, <2>2, <2>3, <2>4 DEF PlayingOK
<1> QED
  BY <1>4, <1>7, <1>8, <1>9 DEF Kept

LEMMA ForkStep ==
  ASSUME Before, Fork
  PROVE  Kept
<1>1. PICK p \in Players : /\ player[p] = "none" /\ \A q \in Players : q < p => player[q] # "none"
                          /\ Start(p, <<>>) /\ at' = IF p = 2 THEN "ask1" ELSE "fork"
  BY DEF Fork
<1>2. at = "fork" /\ i = 0 /\ UNCHANGED <<i, x, p1, p2, go, made>>
  BY <1>1, Facts DEF Fork, PlayerOK, Start
<1>3. /\ \A q \in Players : player'[q] = IF q # p THEN player[q]
                                          ELSE IF Plays(p) THEN "reads" ELSE "gone"
      /\ \A q \in Players : answer'[q] = answer[q]
  BY <1>1, Facts DEF Start, Shape, PlayerOK
<1>4. UmpireOK' /\ ScoreOK'
  BY <1>1, <1>2, Facts DEF UmpireOK, ScoreOK
<1>5. \A q \in Players : Asked(q) = 0 /\ Asked(q)' = 0 /\ Taken(q) = 0 /\ Taken(q)' = 0
  BY <1>1, <1>2 DEF Asked, Taken
<1>6. ASSUME NEW q \in Players PROVE PlayerOK(q)'
  BY <1>1, <1>2, <1>3, Facts DEF PlayerOK
<1>7. ASSUME NEW q \in Players PROVE PlayingOK(q)'
  <2>1. answer'[q] = answer[q] /\ made'[q] = made[q] /\ go'[q] = go[q]
    BY <1>2, <1>3
  <2>2. player[q] = "none" => player'[q] # "moves"
    BY <1>3
  <2>3. Owed(q)' = Owed(q)
    BY <1>1, <1>3, <2>1, <2>2 DEF Owed
  <2> QED
    BY <1>5, <2>1, <2>3, Facts DEF PlayingOK
<1>8. ASSUME NEW q \in Players PROVE MissingOK(q)'
  BY <1>1, <1>2, <1>3, <1>5, Facts DEF MissingOK
<1> QED
  BY <1>4, <1>6, <1>7, <1>8 DEF Kept

\* Ask1 and Ask2.
LEMMA AskStep ==
  ASSUME Before, NEW p \in Players, Ask(p),
         \/ p = 1 /\ at = "ask1" /\ i < Rounds /\ at' = "ask2"
         \/ p = 2 /\ at = "ask2" /\ at' = "read1",
         UNCHANGED <<program, player, answer, made, i, x, p1, p2>>
  PROVE  Kept
<1>1. \A q \in Players : go'[q] = IF q = p THEN go[q] + 1 ELSE go[q]
  BY Facts DEF Ask, Shape
<1>2. UmpireOK' /\ ScoreOK'
  BY Facts DEF UmpireOK, ScoreOK
<1>3. \A q \in Players : /\ Asked(q)' = IF q = p THEN Asked(q) + 1 ELSE Asked(q)
                         /\ Taken(q)' = Taken(q) /\ Asked(q) \in Nat /\ Taken(q) \in Nat
  BY Facts DEF Asked, Taken
<1>4. ASSUME NEW q \in Players PROVE PlayerOK(q)' /\ MissingOK(q)'
  BY <1>1, <1>3, Facts, SMTT(20) DEF PlayerOK, MissingOK
<1>5. ASSUME NEW q \in Players PROVE PlayingOK(q)'
  <2>1. go[q] \in Nat /\ Len(answer[q]) \in Nat
    BY Facts DEF PlayerOK
  <2>2. Owed(q)' = IF q = p THEN Owed(q) + 1 ELSE Owed(q)
    BY <1>1, <2>1 DEF Owed
  <2>3. Owed(q) \in Nat
    BY <2>1 DEF Owed
  <2> QED
    BY <1>3, <2>1, <2>2, <2>3, Facts, SMTT(20) DEF PlayingOK
<1> QED
  BY <1>2, <1>4, <1>5 DEF Kept

\* What Read1 and Read2 do to the pipes.
LEMMA TakeStep ==
  ASSUME Before, NEW p \in Players, Hears(p), Take(p),
         UNCHANGED <<program, player, go, made>>,
         \A q \in Players : /\ Asked(q)' = Asked(q)
                            /\ Taken(q)' = IF q = p THEN Taken(q) + 1 ELSE Taken(q),
         at # "fork", at' # "fork"
  PROVE  /\ \A q \in Players : PlayerOK(q)' /\ PlayingOK(q)' /\ MissingOK(q)'
         /\ Plays(p) /\ Head(answer[p]) = Answer(program[p], Taken(p) + 1)
         /\ Head(answer[p]) \in Moves
<1>1. Plays(p) /\ answer[p] # <<>> /\ answer[p] \in Seq(Bytes)
  BY Facts DEF Hears, MissingOK, PlayerOK
<1>2. \A q \in Players : answer'[q] = IF q = p THEN Tail(answer[q]) ELSE answer[q]
  BY Facts DEF Take, Shape
<1>3. /\ Tail(answer[p]) \in Seq(Bytes) /\ Len(Tail(answer[p])) = Len(answer[p]) - 1
      /\ \A k \in 1 .. Len(Tail(answer[p])) : Tail(answer[p])[k] = answer[p][k + 1]
      /\ Len(answer[p]) \in Nat \ {0}
  BY <1>1, HeadTailProperties
<1>4. \A q \in Players : Taken(q) \in Nat /\ Asked(q) \in Nat
  BY Facts DEF Taken, Asked
<1>5. Head(answer[p]) = Answer(program[p], Taken(p) + 1) /\ Head(answer[p]) \in Moves
  <2>1. Head(answer[p]) = answer[p][1]
    BY <1>1
  <2>2. answer[p][1] = Answer(program[p], Taken(p) + 1)
    BY <1>1, <1>3, Facts DEF PlayingOK
  <2>3. Taken(p) + 1 \in Nat \ {0}
    BY <1>4
  <2> QED
    BY <1>1, <2>1, <2>2, <2>3, Facts
<1>6. ASSUME NEW q \in Players PROVE PlayerOK(q)' /\ MissingOK(q)'
  BY <1>1, <1>2, <1>3, Facts DEF PlayerOK, MissingOK
<1>7. ASSUME NEW q \in Players, q # p PROVE PlayingOK(q)'
  BY <1>2, <1>7, Facts DEF PlayingOK, Owed
<1>8. PlayingOK(p)'
  <2>1. Len(answer'[p]) = Len(answer[p]) - 1 /\ Taken(p)' = Taken(p) + 1 /\ Len(answer[p]) \in Nat \ {0}
    BY <1>2, <1>3
  <2>2. go[p] \in Nat /\ made[p] \in Nat /\ made[p] = Taken(p) + Len(answer[p]) /\ Taken(p) + Owed(p) = Asked(p)
    BY <1>1, Facts DEF PlayingOK, PlayerOK
  <2>3. Taken(p)' + Owed(p)' = Asked(p)'
    <3>1. Owed(p)' = Owed(p) - 1
      BY <2>1, <2>2 DEF Owed
    <3>2. Owed(p) \in Nat
      BY <2>1, <2>2 DEF Owed
    <3> QED
      BY <1>4, <2>1, <2>2, <3>1, <3>2
  <2>4. ASSUME NEW k \in 1 .. Len(answer'[p])
        PROVE  answer'[p][k] = Answer(program'[p], Taken(p)' + k)
    <3>1. answer'[p][k] = answer[p][k + 1] /\ k + 1 \in 1 .. Len(answer[p])
      <4>1. answer'[p] = Tail(answer[p])
        BY <1>2
      <4>2. k \in 1 .. Len(Tail(answer[p])) /\ k + 1 \in 1 .. Len(answer[p])
        BY <2>1, <4>1
      <4> QED
        BY <1>3, <4>1, <4>2
    <3>2. Taken(p)' + k = Taken(p) + (k + 1)
      BY <1>4, <2>1
    <3>3. answer[p][k + 1] = Answer(program[p], Taken(p) + (k + 1))
      BY <1>1, <3>1, Facts DEF PlayingOK
    <3> QED
      BY <3>1, <3>2, <3>3
  <2> QED
    BY <1>4, <2>1, <2>2, <2>3, <2>4, SMTT(20) DEF PlayingOK
<1> QED
  BY <1>1, <1>5, <1>6, <1>7, <1>8

LEMMA Read1Step ==
  ASSUME Before, Read1
  PROVE  Kept
<1>1. /\ at = "read1" /\ at' = "read2" /\ Hears(1) /\ Take(1) /\ x' = Head(answer[1])
      /\ UNCHANGED <<program, player, go, made, i, p1, p2>>
  BY DEF Read1
<1>2. \A q \in Players : /\ Asked(q)' = Asked(q)
                         /\ Taken(q)' = IF q = 1 THEN Taken(q) + 1 ELSE Taken(q)
  BY <1>1, Facts DEF Asked, Taken
<1>3. /\ \A q \in Players : PlayerOK(q)' /\ PlayingOK(q)' /\ MissingOK(q)'
      /\ Head(answer[1]) = Answer(program[1], Taken(1) + 1) /\ Head(answer[1]) \in Moves
  BY <1>1, <1>2, TakeStep, Facts
<1>4. Taken(1) = i
  BY <1>1, Facts DEF Taken
<1>5. UmpireOK' /\ ScoreOK'
  BY <1>1, <1>3, <1>4, Facts DEF UmpireOK, ScoreOK, Bytes
<1> QED
  BY <1>3, <1>5 DEF Kept

LEMMA Read2Step ==
  ASSUME Before, Read2
  PROVE  Kept
<1> DEFINE y == Head(answer[2])
<1>1. /\ at = "read2" /\ at' = "ask1" /\ Hears(2) /\ Take(2)
      /\ p1' = IF Wins(x, y) THEN p1 + 1 ELSE p1
      /\ p2' = IF Loses(x, y) THEN p2 + 1 ELSE p2
      /\ i' = i + 1 /\ UNCHANGED <<program, player, go, made, x>>
  BY DEF Read2
<1>2. \A q \in Players : /\ Asked(q)' = Asked(q)
                         /\ Taken(q)' = IF q = 2 THEN Taken(q) + 1 ELSE Taken(q)
  BY <1>1, Facts DEF Asked, Taken
<1>3. /\ \A q \in Players : PlayerOK(q)' /\ PlayingOK(q)' /\ MissingOK(q)'
      /\ y = Answer(program[2], Taken(2) + 1) /\ y \in Moves
  BY <1>1, <1>2, TakeStep, Facts
<1>4. Taken(2) = i /\ Taken(1) = i + 1
  BY <1>1, Facts DEF Taken
<1>5. x = Answer(program[1], i + 1) /\ x \in Moves
  <2>1. Plays(1)
    BY <1>4, Facts DEF MissingOK
  <2> QED
    BY <1>1, <2>1, Facts DEF ScoreOK
<1>6. UmpireOK'
  BY <1>1, Facts DEF UmpireOK
<1>7. ScoreOK'
  <2>1. p1' = PointsUpTo(i, 1, 2) + (IF Beats(x, y) THEN 1 ELSE 0)
    <3>1. Wins(x, y) <=> Beats(x, y)
      BY <1>3, <1>5, RulesLemma
    <3>2. p1 \in Nat
      BY PointsLemma, Facts DEF ScoreOK
    <3> QED
      BY <1>1, <3>1, <3>2, Facts DEF ScoreOK
  <2>2. p2' = PointsUpTo(i, 2, 1) + (IF Beats(y, x) THEN 1 ELSE 0)
    <3>1. Loses(x, y) <=> Beats(y, x)
      BY <1>3, <1>5, RulesLemma
    <3>2. p2 \in Nat
      BY PointsLemma, Facts DEF ScoreOK
    <3> QED
      BY <1>1, <3>1, <3>2, Facts DEF ScoreOK
  <2>3. p1' = PointsUpTo(i + 1, 1, 2) /\ p2' = PointsUpTo(i + 1, 2, 1)
    BY <1>3, <1>4, <1>5, <2>1, <2>2, PointsLemma, Facts
  <2> QED
    BY <1>1, <1>5, <2>3, Facts DEF ScoreOK, Bytes
<1> QED
  BY <1>3, <1>6, <1>7 DEF Kept

-----------------------------------------------------------------------------
LEMMA UmpireInvInit == Init => UmpireInv
<1> SUFFICES ASSUME Init PROVE UmpireInv
  OBVIOUS
<1>1. Rounds \in Nat /\ Players = {1, 2}
  BY UmpireAssumption
<1>2. Shape /\ UmpireOK
  BY <1>1 DEF Init, PInit, Shape, UmpireOK
<1>3. PointsUpTo(0, 1, 2) = 0 /\ PointsUpTo(0, 2, 1) = 0
  <2>1. \A p, q : {r \in 1 .. 0 : Beats(Answer(program[p], r), Answer(program[q], r))} = {}
    OBVIOUS
  <2> QED
    BY <2>1, FS_EmptySet DEF PointsUpTo
<1>4. ScoreOK
  BY <1>3 DEF Init, ScoreOK, Bytes
<1>5. ASSUME NEW p \in Players PROVE PlayerOK(p) /\ PlayingOK(p) /\ MissingOK(p)
  <2>1. Asked(p) = 0 /\ Taken(p) = 0
    BY DEF Init, Asked, Taken
  <2> QED
    BY <1>1, <2>1 DEF Init, PInit, PlayerOK, PlayingOK, MissingOK, Owed
<1> QED
  BY <1>2, <1>4, <1>5 DEF UmpireInv

LEMMA UmpireInvStep == UmpireInv /\ [Next]_vars => UmpireInv'
<1> SUFFICES ASSUME UmpireInv, [Next]_vars PROVE UmpireInv'
  OBVIOUS
<1>1. Before /\ Shape'
  BY ShapeStep DEF Before, UmpireInv
<1>2. Kept
  <2>1. CASE UNCHANGED vars
    <3>1. UmpireOK' /\ ScoreOK'
      BY <1>1, <2>1, Facts DEF vars, UmpireOK, ScoreOK
    <3>2. \A p \in Players : PlayerOK(p)' /\ PlayingOK(p)' /\ MissingOK(p)'
      BY <1>1, <2>1, Facts DEF vars, PlayerOK, PlayingOK, MissingOK, Asked, Taken, Owed
    <3> QED
      BY <3>1, <3>2 DEF Kept
  <2>2. CASE Fork
    BY <1>1, <2>2, ForkStep
  <2>3. CASE Ask1
    BY <1>1, <2>3, AskStep, Facts DEF Ask1
  <2>4. CASE Ask2
    BY <1>1, <2>4, AskStep, Facts DEF Ask2
  <2>5. CASE Read1
    BY <1>1, <2>5, Read1Step
  <2>6. CASE Read2
    BY <1>1, <2>6, Read2Step
  <2>7. CASE Report
    <3>1. UmpireOK' /\ ScoreOK'
      BY <1>1, <2>7, Facts DEF Report, UmpireOK, ScoreOK
    <3>2. \A p \in Players : PlayerOK(p)' /\ PlayingOK(p)' /\ MissingOK(p)'
      BY <1>1, <2>7, Facts DEF Report, PlayerOK, PlayingOK, MissingOK, Asked, Taken, Owed
    <3> QED
      BY <3>1, <3>2 DEF Kept
  <2>8. ASSUME NEW p \in Players, Plays1or2(p) PROVE Kept
    BY <1>1, <2>8, HearStep, ThrowStep DEF Plays1or2, Play
  <2> QED
    BY <2>1, <2>2, <2>3, <2>4, <2>5, <2>6, <2>7, <2>8 DEF Next, Umpires
<1> QED
  BY <1>1, <1>2 DEF UmpireInv, Kept

\* In every match the moves a player has written and those it owes add up to the
\* times it was asked: no round is scored on a move of another (umpire.c:47-69).
THEOREM InStepAlways == Spec => []InStep
<1>1. UmpireInv => InStep
  BY DEF UmpireInv, PlayingOK, InStep, Asked, Taken
<1> QED
  BY <1>1, UmpireInvInit, UmpireInvStep, PTL DEF Spec

\* The umpire reports only when both players exist, and then the score of their
\* r-th moves set against each other, in whatever order the processes ran: the
\* safety part of FairScore.
Reported == at = "exit" /\ Rounds > 0 =>
    /\ \A p \in Players : Plays(p)
    /\ p1 = Points(1, 2) /\ p2 = Points(2, 1)

THEOREM ReportedIsFair == Spec => []Reported
<1>1. UmpireInv => Reported
  <2> SUFFICES ASSUME UmpireInv, at = "exit", Rounds > 0
               PROVE  /\ \A p \in Players : Plays(p)
                      /\ p1 = Points(1, 2) /\ p2 = Points(2, 1)
    BY DEF Reported
  <2>1. i = Rounds
    BY DEF UmpireInv, UmpireOK
  <2>2. \A p \in Players : Plays(p)
    BY <2>1, UmpireAssumption DEF UmpireInv, MissingOK, Taken
  <2> QED
    BY <2>1, <2>2 DEF UmpireInv, ScoreOK, Points, PointsUpTo
<1> QED
  BY <1>1, UmpireInvInit, UmpireInvStep, PTL DEF Spec
=============================================================================
