----------------------------- MODULE Tournament -----------------------------
(***************************************************************************)
(* Assignment 1, part 2.2: umpire2.c plays a knockout tournament among n   *)
(* players.  It asks the players of a match one after the other.           *)
(***************************************************************************)
EXTENDS Players, SequencesExt

CONSTANTS Games      \* the player files, round counts and walk-overs to try

\* A file names at least one player: with none, the umpire prints for ever.
ASSUME GamesAssumption == \A g \in Games :
    /\ g.n \in Nat \ {0} /\ g.N \in Nat /\ g.stub \in BOOLEAN
    /\ 0 .. g.n - 1 \subseteq Players
    /\ DOMAIN g.program = Players /\ \A p \in Players : IsProgram(g.program[p])

VARIABLES n,         \* the number of players
          N,         \* the rounds of a match
          stub,      \* whether getWalkOver is the one of gameUtils.c
          at,        \* the statement the umpire is at
          active,    \* the players not beaten
          total,     \* how many the umpire takes them to be
          a,         \* the players of this stage, in order
          i, r,      \* the match of the stage and its round
          x,         \* the first player's answer in this round
          p1, p2,    \* the scores of the match
          out,       \* the lines printed: each names a set of players
          played     \* not in the code: the matches of each player

game == <<n, N, stub>>
bracket == <<active, total, a, i>>
score == <<r, x, p1, p2>>
vars == <<pvars, game, at, bracket, score, out, played>>

Init == /\ \E g \in Games : /\ n = g.n /\ N = g.N /\ stub = g.stub
                            /\ program = g.program
        /\ PInit
        /\ at = "fork" /\ active = {} /\ total = n /\ a = <<>> /\ i = 1
        /\ r = 0 /\ x = Other /\ p1 = 0 /\ p2 = 0 /\ out = <<{}>>
        /\ played = [p \in Players |-> 0]

First == a[2 * i - 1]
Second == a[2 * i]

Fork == /\ at = "fork" /\ Cardinality(active) < n
        /\ LET p == Cardinality(active) IN
             /\ active' = active \cup {p}
             /\ out' = <<active'>>
             /\ Start(p, Leftover(p, n))
        /\ UNCHANGED <<game, at, total, a, i, score, played>>

EndFork == /\ at = "fork" /\ Cardinality(active) = n
           /\ at' = "stage"
           /\ UNCHANGED <<pvars, game, bracket, score, out, played>>

\* gameUtils.c:1-13: "Return any number between 1 and numActivePlayers".
getWalkOver(num) == IF stub THEN {1} ELSE 1 .. num

\* The active players in order, without the skip-th when the number is odd.
Draw(skip) == LET s == InOrder(active) IN
    IF total % 2 = 0 THEN s ELSE RemoveAt(s, skip)

Stage == /\ at = "stage" /\ total # 1
         /\ \E skip \in getWalkOver(total) : a' = Draw(skip)
         /\ i' = 1 /\ r' = 0 /\ p1' = 0 /\ p2' = 0
         /\ at' = "ask1"
         /\ UNCHANGED <<pvars, game, active, total, x, out, played>>

Ask1 == /\ at = "ask1" /\ r < N
        /\ Ask(First)
        /\ at' = "read1"
        /\ UNCHANGED <<program, player, answer, made, game, bracket, score, out, played>>

Read1 == /\ at = "read1" /\ Hears(First)
         /\ x' = Head(answer[First])
         /\ Take(First)
         /\ at' = "ask2"
         /\ UNCHANGED <<program, player, go, made, game, bracket, r, p1, p2, out, played>>

Ask2 == /\ at = "ask2"
        /\ Ask(Second)
        /\ at' = "read2"
        /\ UNCHANGED <<program, player, answer, made, game, bracket, score, out, played>>

Read2 == /\ at = "read2" /\ Hears(Second)
         /\ LET y == Head(answer[Second]) IN
              /\ p1' = IF Wins(x, y) THEN p1 + 1 ELSE p1
              /\ p2' = IF Loses(x, y) THEN p2 + 1 ELSE p2
         /\ Take(Second)
         /\ r' = r + 1
         /\ at' = "ask1"
         /\ UNCHANGED <<program, player, go, made, game, bracket, x, out, played>>

\* Slip: a draw sends the first player home.
BeatenOnDraw == IF p1 > p2 THEN Second ELSE First
Beaten == IF p1 >= p2 THEN Second ELSE First

EndMatch == /\ at = "ask1" /\ r = N
            /\ active' = active \ {Beaten}
            /\ IF 2 * i < Len(a)
               THEN /\ i' = i + 1 /\ r' = 0 /\ p1' = 0 /\ p2' = 0
                    /\ UNCHANGED at
               ELSE /\ at' = "print"
                    /\ UNCHANGED <<i, r, p1, p2>>
            /\ UNCHANGED <<pvars, game, total, a, x, out, played>>

Survivors == /\ at = "print"
             /\ total' = (total + 1) \div 2
             /\ out' = Append(out, active)
             /\ played' = [p \in Players |-> played[p] + (IF p \in ToSet(a) THEN 1 ELSE 0)]
             /\ at' = "stage"
             /\ UNCHANGED <<pvars, game, active, a, i, score>>

Exit == /\ at = "stage" /\ total = 1
        /\ at' = "exit"
        /\ UNCHANGED <<pvars, game, bracket, score, out, played>>

Umpire == \/ Fork \/ EndFork \/ Stage \/ Ask1 \/ Read1 \/ Ask2 \/ Read2
          \/ EndMatch \/ Survivors \/ Exit

PlayerStep(p) == Play(p) /\ UNCHANGED <<game, at, bracket, score, out, played>>

Next == Umpire \/ \E p \in Players : PlayerStep(p)

Spec == /\ Init /\ [][Next]_vars
        /\ WF_vars(Umpire) /\ \A p \in Players : WF_vars(PlayerStep(p))

-----------------------------------------------------------------------------
\* The field a reader of the output knows of.
Field == IF at = "fork" THEN 0 .. n - 1 ELSE Last(out)

KO == INSTANCE Knockout WITH field <- Field

\* umpire2.c:86-154.  Every line printed after the first follows from the line
\* before it and the programs as the rules of a knockout say: nobody drops out
\* of a stage unbeaten, is drawn twice, or is scored on an older move.
ImplementsKnockout == KO!KSpec

\* Only the player just asked owes the umpire anything, and only one move:
\* whatever is in the pipes belongs to this round.
InStep == \A p \in Players : Plays(p) =>
    Owed(p) = IF \/ at = "read1" /\ p = First
                 \/ at = "read2" /\ p = Second THEN 1 ELSE 0
=============================================================================
