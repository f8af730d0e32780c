---------------------------- MODULE UmpireTests ----------------------------
(***************************************************************************)
(* The players of Assignment 1, part 2.1, tests/test1 to test4, and what   *)
(* expected.txt says of their matches (runTests.sh).                       *)
(***************************************************************************)
EXTENDS Umpire

Always(m) == [moves |-> <<m>>, after |-> "again"]
Round(m) == [moves |-> m, after |-> "again"]
File(m) == [moves |-> m, after |-> "rock"]

test1_player1 == Always(Rock)
test1_player2 == Round(<<Rock, Paper, Scissors>>)
test2_player1 == Round(<<Rock, Paper, Scissors>>)
test2_player2 == Round(<<Rock, Paper>>)
test3_player1 == File(<<0, 1, 2, 0, 1, 2, 0, 1, 2, 2>>)
test3_player2 == File(<<0, 1, 2, 0, 1, 2, 0, 1, 2, 1>>)
test4_player1 == File(<<0, 0, 0, 0, 0, 1, 1, 1, 1, 1>>)
test4_player2 == File(<<0, 1, 2, 0, 1, 2, 0, 0, 0, 0>>)

MCPrograms == {test1_player1, test1_player2, test2_player2, test3_player1,
               test3_player2, test4_player1, test4_player2, Always(Scissors),
               Missing}

Match(a, b) == program = <<a, b>>

Printed(s) == <>(at = "exit" /\ <<p1, p2>> = s)

\* FairScore, and runTests.sh: test n passes when the umpire prints what
\* expected.txt holds.
MatchesEnd ==
    /\ FairScore
    /\ Match(test1_player1, test1_player2) => Printed(<<3, 3>>)
    /\ Match(test2_player1, test2_player2) => Printed(<<2, 4>>)
    /\ Match(test3_player1, test3_player2) => Printed(<<1, 0>>)
    /\ Match(test4_player1, test4_player2) => Printed(<<5, 3>>)
=============================================================================
