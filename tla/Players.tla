------------------------------ MODULE Players ------------------------------
(***************************************************************************)
(* Assignment 1, part 2: the player programs and the two pipes that tie    *)
(* each of them to an umpire.  A player waits for "GO", writes one byte,   *)
(* and waits again (player.c and its copies under tests/ share this loop   *)
(* and differ in chooseMove).  Both umpires make every pipe before they    *)
(* fork and close none, so each player holds the writing end of its own    *)
(* input: its read never returns 0 and no player ever leaves the loop.     *)
(***************************************************************************)
EXTENDS RockPaperScissors

CONSTANTS Players    \* the players, named by position

VARIABLES program,   \* the program of each player
          player,    \* "none" before its exec, then "reads", "moves" or "gone"
          go,        \* the number of GO messages in its input pipe
          answer,    \* the bytes in its output pipe
          made       \* the number of moves it has written

pvars == <<program, player, go, answer, made>>

Plays(p) == program[p] # Missing

PInit == /\ player = [p \in Players |-> "none"]
         /\ go = [p \in Players |-> 0]
         /\ answer = [p \in Players |-> <<>>]
         /\ made = [p \in Players |-> 0]

\* The umpire forks a child that becomes player p.  When the exec fails, exit
\* writes what stdout's buffer held at the fork into the child's output pipe.
Start(p, buffered) ==
    /\ player[p] = "none"
    /\ IF Plays(p)
       THEN /\ player' = [player EXCEPT ![p] = "reads"]
            /\ UNCHANGED answer
       ELSE /\ player' = [player EXCEPT ![p] = "gone"]
            /\ answer' = [answer EXCEPT ![p] = @ \o buffered]
    /\ UNCHANGED <<program, go, made>>

Hear(p) == /\ player[p] = "reads" /\ go[p] > 0
           /\ go' = [go EXCEPT ![p] = @ - 1]
           /\ player' = [player EXCEPT ![p] = "moves"]
           /\ UNCHANGED <<program, answer, made>>

Throw(p) == /\ player[p] = "moves"
            /\ made' = [made EXCEPT ![p] = @ + 1]
            /\ answer' = [answer EXCEPT ![p] = Append(@, Answer(program[p], made[p] + 1))]
            /\ player' = [player EXCEPT ![p] = "reads"]
            /\ UNCHANGED <<program, go>>

Play(p) == Hear(p) \/ Throw(p)

\* The umpire's side of the pipes.
Ask(p) == go' = [go EXCEPT ![p] = @ + 1]
Hears(p) == answer[p] # <<>>
\* Slip: the umpire looks at a byte and leaves it in the pipe.
Peek(p) == answer' = answer
Take(p) == answer' = [answer EXCEPT ![p] = Tail(@)]

PTypeOK == /\ player \in [Players -> {"none", "reads", "moves", "gone"}]
           /\ go \in [Players -> 0 .. 1]
           /\ answer \in [Players -> Seq(Bytes)]
           /\ made \in [Players -> Nat]

\* What player p still owes the umpire: a GO it has not heard, a move it has
\* not thrown, or bytes the umpire has not taken.
Owed(p) == go[p] + (IF player[p] = "moves" THEN 1 ELSE 0) + Len(answer[p])
============================================================================
