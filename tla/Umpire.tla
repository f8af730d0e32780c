------------------------------- MODULE Umpire -------------------------------
(***************************************************************************)
(* Assignment 1, part 2.1: umpire.c plays ten rounds between two players.  *)
(* Each round it sends both GO messages and then reads both answers.       *)
(***************************************************************************)
EXTENDS Players, FiniteSets

CONSTANTS Programs,  \* what the players may be running
          Rounds     \* 10 in umpire.c

ASSUME UmpireAssumption == /\ Rounds \in Nat
                           /\ Players = {1, 2}
                           /\ \A m \in Programs : IsProgram(m)

VARIABLES at,        \* the statement the umpire is at
          i,         \* the rounds scored
          x,         \* the answer of player 1 in this round
          p1, p2     \* the scores

vars == <<program, player, go, answer, made, at, i, x, p1, p2>>

Init == /\ PInit
        /\ program \in [Players -> Programs]
        /\ at = "fork" /\ i = 0 /\ x = Other /\ p1 = 0 /\ p2 = 0

Fork == /\ at = "fork"
        /\ \E p \in Players :
             /\ player[p] = "none"
             /\ \A q \in Players : q < p => player[q] # "none"
             /\ Start(p, <<>>)
             /\ at' = IF p = 2 THEN "ask1" ELSE "fork"
        /\ UNCHANGED <<i, x, p1, p2>>

Ask1 == /\ at = "ask1" /\ i < Rounds
        /\ Ask(1)
        /\ at' = "ask2"
        /\ UNCHANGED <<program, player, answer, made, i, x, p1, p2>>

Ask2 == /\ at = "ask2"
        /\ Ask(2)
        /\ at' = "read1"
        /\ UNCHANGED <<program, player, answer, made, i, x, p1, p2>>

Read1 == /\ at = "read1" /\ Hears(1)
         /\ x' = Head(answer[1])
         /\ Take(1)
         /\ at' = "read2"
         /\ UNCHANGED <<program, player, go, made, i, p1, p2>>

Read2 == /\ at = "read2" /\ Hears(2)
         /\ LET y == Head(answer[2]) IN
              /\ p1' = IF Wins(x, y) THEN p1 + 1 ELSE p1
              /\ p2' = IF Loses(x, y) THEN p2 + 1 ELSE p2
         /\ Take(2)
         /\ i' = i + 1
         /\ at' = "ask1"
         /\ UNCHANGED <<program, player, go, made, x>>

Report == /\ at = "ask1" /\ i = Rounds
         /\ at' = "exit"
         /\ UNCHANGED <<program, player, go, answer, made, i, x, p1, p2>>

Umpires == Fork \/ Ask1 \/ Ask2 \/ Read1 \/ Read2 \/ Report

Plays1or2(p) == Play(p) /\ UNCHANGED <<at, i, x, p1, p2>>

Next == Umpires \/ \E p \in Players : Plays1or2(p)

Fairness == WF_vars(Umpires) /\ \A p \in Players : WF_vars(Plays1or2(p))

Spec == Init /\ [][Next]_vars /\ Fairness

-----------------------------------------------------------------------------
\* The score of all rounds, when round r sets the r-th moves of the two
\* programs against each other.
Points(p, q) == Cardinality({r \in 1 .. Rounds :
    Beats(Answer(program[p], r), Answer(program[q], r))})

TypeOK == /\ PTypeOK
          /\ at \in {"fork", "ask1", "ask2", "read1", "read2", "exit"}
          /\ i \in 0 .. Rounds /\ x \in Bytes /\ p1 \in Nat /\ p2 \in Nat

\* A player is never ahead of the umpire nor more than one move behind: what
\* it has written and what it owes add up to the times it was asked.
InStep == \A p \in Players :
    LET asked == i + (IF at \in {"read1", "read2"} \/ (p = 1 /\ at = "ask2")
                      THEN 1 ELSE 0)
        taken == i + (IF p = 1 /\ at = "read2" THEN 1 ELSE 0)
    IN Plays(p) => /\ made[p] = taken + Len(answer[p])
                   /\ taken + Owed(p) = asked

\* umpire.c:47-69.  A match between two players that exist comes to its end
\* whatever the order the processes run in, and its score is the one of the
\* r-th moves of both set against each other; a match with a player that could
\* not be started never ends, for nobody closes the pipe the umpire reads.
FairScore ==
    /\ (\A p \in Players : Plays(p)) =>
         <>(at = "exit" /\ p1 = Points(1, 2) /\ p2 = Points(2, 1))
    /\ (\E p \in Players : ~Plays(p)) /\ Rounds > 0 => [](at # "exit")
=============================================================================
