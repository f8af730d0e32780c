------------------------- MODULE RockPaperScissors -------------------------
(***************************************************************************)
(* Assignment 1, part 2: the moves, how the umpires score a round, and     *)
(* what the player programs answer.                                        *)
(***************************************************************************)
EXTENDS Integers, Sequences, FiniteSets

Rock == 0
Paper == 1
Scissors == 2
Moves == {Rock, Paper, Scissors}
Other == 3                       \* any byte that is not a move
Bytes == Moves \cup {Other}

\* Points of the first and of the second player of a round.
Wins(x, y) == x # y /\ \/ x = Rock /\ y # Paper
                       \/ x = Paper /\ y # Scissors
                       \/ x = Scissors /\ y # Rock
\* Slip: rock also loses to scissors.
LosesToBoth(x, y) == x # y /\ \/ x = Rock
                              \/ x = Paper /\ y = Scissors
                              \/ x = Scissors /\ y = Rock
Loses(x, y) == x # y /\ \/ x = Rock /\ y = Paper
                        \/ x = Paper /\ y = Scissors
                        \/ x = Scissors /\ y = Rock

\* The rules: paper wraps rock, scissors cut paper, rock blunts scissors.  A
\* byte that is no move beats nothing and loses to any move of the first player.
Beats(a, b) == <<a, b>> \in {<<Paper, Rock>>, <<Scissors, Paper>>, <<Rock, Scissors>>}
BeatsOrSpoilt(a, b) == Beats(a, b) \/ (a \in Moves /\ b = Other)

\* What a program answers to its k-th GO: a chooseMove that counts its calls
\* goes round its moves, one that reads a file plays rock after the last line.
Answer(program, k) == LET m == program.moves IN
    IF k \in DOMAIN m THEN m[k]
    ELSE IF program.after = "again" THEN m[((k - 1) % Len(m)) + 1] ELSE Rock

Missing == [moves |-> <<>>, after |-> "missing"]   \* execl does not find it

\* What a player file may name: a program, or a path without one.
IsProgram(m) == m = Missing \/ /\ m \in [moves : Seq(Moves), after : {"again", "rock"}]
                               /\ m.after = "again" => m.moves # <<>>

\* A child that cannot become player p of n leaves "p0 p1 ... " in its pipe:
\* what the umpire had printed, but not written out, when it forked (n <= 10).
Leftover(p, n) == [k \in 1 .. (IF p = n - 1 THEN 3 * n - 1 ELSE 3 * (p + 1)) |->
    IF k % 3 = 2 /\ k \div 3 \in Moves THEN k \div 3 ELSE Other]

\* A set of players by number: the k-th has k - 1 before it.
Below(S, p) == Cardinality({q \in S : q < p})
InOrder(S) == [k \in 1 .. Cardinality(S) |-> CHOOSE p \in S : Below(S, p) = k - 1]
============================================================================
