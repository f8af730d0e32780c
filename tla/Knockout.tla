------------------------------ MODULE Knockout ------------------------------
(***************************************************************************)
(* What the tournament of Assignment 1, part 2.2, promises: stage by stage *)
(* the field is paired off in order, any one player sitting out when their *)
(* number is odd; of each pair the one with more points goes on, the first *)
(* when they are equal; the moves of a match are the next ones of both.    *)
(***************************************************************************)
EXTENDS RockPaperScissors, SequencesExt

VARIABLES program,   \* the program of each player
          n,         \* the number of players, 0 .. n - 1
          N,         \* the rounds of a match
          field,     \* the players still in
          played     \* the matches each player has played

kvars == <<program, n, N, field, played>>

\* The bytes of p's next match, when there are that many.
CanPlay(p) == program[p] = Missing => (played[p] + 1) * N <= Len(Leftover(p, n))
Byte(p, r) == LET k == played[p] * N + r IN
    IF program[p] = Missing THEN Leftover(p, n)[k] ELSE Answer(program[p], k)

Winner(p, q) ==
    LET first == {r \in 1 .. N : BeatsOrSpoilt(Byte(p, r), Byte(q, r))}
        second == {r \in 1 .. N : Beats(Byte(q, r), Byte(p, r))}
    IN IF Cardinality(first) >= Cardinality(second) THEN p ELSE q

Stage == \E s \in {InOrder(field)} \cup {InOrder(field \ {p}) : p \in field} :
    /\ Cardinality(field) > 1
    /\ Len(s) % 2 = 0 /\ Len(s) >= Cardinality(field) - 1
    /\ \A k \in DOMAIN s : CanPlay(s[k])
    /\ field' = (field \ ToSet(s)) \cup
                {Winner(s[2 * k - 1], s[2 * k]) : k \in 1 .. Len(s) \div 2}
    /\ played' = [p \in DOMAIN played |-> IF p \in ToSet(s) THEN played[p] + 1
                                          ELSE played[p]]
    /\ UNCHANGED <<program, n, N>>

KInit == /\ field = 0 .. n - 1
         /\ played = [p \in DOMAIN program |-> 0]

KSpec == KInit /\ [][Stage]_kvars
=============================================================================
