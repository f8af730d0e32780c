-------------------------- MODULE TournamentTests --------------------------
(***************************************************************************)
(* The players of Assignment 1, part 2.2, tests/test1 to test4, the player *)
(* files and what expected.txt says of them (runTests.sh), and tournaments *)
(* among up to five such players with any walk-over.                       *)
(***************************************************************************)
EXTENDS Tournament

Again(m) == [moves |-> m, after |-> "again"]
File(m) == [moves |-> m, after |-> "rock"]

test1_player1 == Again(<<Rock>>)
test1_player2 == Again(<<Rock, Paper, Scissors>>)
test2_player1 == Again(<<Rock, Paper, Scissors>>)
test2_player2 == Again(<<Rock, Paper>>)
test3_player1 == File(LET ten == <<0, 1, 2, 0, 1, 2, 0, 1, 2, 2>> IN ten \o ten)
test3_player2 == File(LET ten == <<0, 1, 2, 0, 1, 2, 0, 1, 2, 1>> IN ten \o ten)
test3_player3 == File(LET ten == <<0, 1, 2, 0, 1, 2, 0, 1, 2, 1>> IN ten \o ten)

\* The programs of test 4 open the files of test 3, and players.txt of test 4
\* names the programs of test 3.
test4_player1 == test3_player1
test4_player2 == test3_player2
test4_player3 == test3_player3

Entered(s) == [p \in Players |-> IF p < Len(s) THEN s[p + 1] ELSE Missing]
Tournament(s, rounds, walkover) ==
    [n |-> Len(s), N |-> rounds, stub |-> walkover, program |-> Entered(s)]

test1 == Tournament(<<test1_player1, test1_player2>>, 10, TRUE)
test2 == Tournament(<<test2_player1, test2_player2>>, 10, TRUE)
test3 == Tournament(<<test3_player3, test3_player1, test3_player2>>, 10, TRUE)
test4 == Tournament(<<test4_player1, test4_player2, test4_player3>>, 10, TRUE)

Small == {test1_player1, test1_player2, test2_player2, Again(<<Scissors>>), Missing}
MCGames == {test1, test2, test3, test4} \cup
    UNION {{Tournament(s, rounds, FALSE) : s \in [1 .. k -> Small], rounds \in 0 .. 2} :
           k \in 1 .. 4} \cup
    {Tournament(s, 1, FALSE) : s \in [1 .. 5 -> {test2_player1, test2_player2, Missing}]}

Is(g) == n = g.n /\ N = g.N /\ stub = g.stub /\ program = g.program

\* A tournament of players that exist ends, and the last line it prints names one
\* player; those of the tests print what expected.txt says.
TournamentEnds ==
    (\A p \in 0 .. n - 1 : Plays(p)) =>
        <>(/\ at = "exit" /\ Cardinality(Last(out)) = 1
           /\ Is(test1) => out = <<{0, 1}, {0}>>
           /\ Is(test2) => out = <<{0, 1}, {1}>>
           /\ Is(test3) => out = <<{0, 1, 2}, {0, 1}, {1}>>
           /\ Is(test4) => out = <<{0, 1, 2}, {0, 1}, {0}>>)
=============================================================================
