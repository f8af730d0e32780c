--------------------------- MODULE CommandsProofs ---------------------------
(***************************************************************************)
(* Theorems about Commands, for every path, programs, list of commands and *)
(* sizes of pipe, read and buffer.                                         *)
(***************************************************************************)
EXTENDS Commands, SequenceTheorems, DataFacts

ChildStates == {"none", "forked", "runs", "zombie", "gone"}

\* The lines before the next one are commands, and each has a child.
Forking == /\ next \in 1 .. Len(job.lines) + 1
           /\ \A c \in Children : Forked(c) <=> c < next
           /\ \A m \in 1 .. next - 1 : job.lines[m] # Blank

\* Each command has a child, and nothing else has.
AllForked == /\ Started \in 0 .. Len(job.lines)
             /\ \A c \in Children : Forked(c) <=> c <= Started
             /\ \A m \in 1 .. Started : job.lines[m] # Blank

\* Where the parent is, which children there are, and what it has printed.
ParentInv ==
    /\ at \in {"fork", "wait", "show", "exit"}
    /\ at = "fork" => Forking
    /\ at # "fork" => AllForked
    /\ out \in Seq(Pieces) /\ buffer \in Seq(Pieces) /\ Len(buffer) <= BufSize
    /\ at \in {"fork", "wait"} => out = <<>> /\ buffer = <<>>
    /\ at = "show" => /\ next \in 1 .. Started + 1
                      /\ out \o buffer = Text[next - 1]
    /\ at \in {"show", "exit"} => WaitedAll
    /\ at = "exit" => out = Text[Started] /\ buffer = <<>>

\* The pipe of a child holds what the child has written, until it is read.
PipeInv(c) ==
    /\ child[c] \in ChildStates
    /\ written[c] \in Nat
    /\ child[c] \in {"none", "forked"} => written[c] = 0
    /\ child[c] \notin {"none", "forked"} => /\ program[c] = Exec(job.lines[c])
                                             /\ written[c] <= Len(Output(c))
    /\ child[c] \in {"zombie", "gone"} => written[c] = Len(Output(c))
    /\ written[c] <= PipeSize
    /\ at \in {"fork", "wait"} \/ (at = "show" /\ c >= next) =>
         pipe[c] = [k \in 1 .. written[c] |-> Output(c)[k]]
    /\ Forked(c) /\ ((at = "show" /\ c < next) \/ at = "exit") => Output(c) # <<>>

\* The arrays have an entry for each possible child.
Shape == /\ job \in Jobs
         /\ child = [c \in Children |-> child[c]]
         /\ program = [c \in Children |-> program[c]]
         /\ written = [c \in Children |-> written[c]]
         /\ pipe = [c \in Children |-> pipe[c]]

CommandsInv ==
    /\ Shape
    /\ job.mode = "parallel" => ParentInv /\ \A c \in Children : PipeInv(c)

-----------------------------------------------------------------------------
\* A position with commands before it and none on it is Started.
LEMMA StartedLemma ==
  ASSUME NEW k \in 0 .. Len(job.lines), job \in Jobs,
         k < Len(job.lines) => job.lines[k + 1] = Blank,
         \A m \in 1 .. k : job.lines[m] # Blank
  PROVE  Started = k
<1> DEFINE P(j) == /\ j < Len(job.lines) => job.lines[j + 1] = Blank
                   /\ \A m \in 1 .. j : job.lines[m] # Blank
<1>1. Len(job.lines) \in Nat
  BY CommandsAssumption
<1>2. Started \in 0 .. Len(job.lines) /\ P(Started)
  BY DEF Started
<1>3. ASSUME Started < k PROVE FALSE
  BY <1>1, <1>2, <1>3
<1>4. ASSUME k < Started PROVE FALSE
  BY <1>1, <1>2, <1>4
<1> QED
  BY <1>1, <1>2, <1>3, <1>4

\* What a child of a command line writes is a sequence of pieces.
LEMMA OutputLemma ==
  ASSUME job \in Jobs, NEW c \in 1 .. Len(job.lines), job.lines[c] # Blank
  PROVE  /\ Output(c) \in Seq(Pieces) /\ Len(Output(c)) \in Nat
         /\ Output(c) = [k \in 1 .. Len(Output(c)) |-> Output(c)[k]]
<1>1. Output(c) \in Seq(Pieces)
  BY CommandsAssumption, OutputAssumption DEF Output
<1> QED
  BY <1>1

\* There is such a position: at the latest behind the last line.
LEMMA StartedIs ==
  ASSUME job \in Jobs
  PROVE  Started \in 0 .. Len(job.lines) /\ \A m \in 1 .. Started : job.lines[m] # Blank
<1> DEFINE D == {k \in 0 .. Len(job.lines) : k < Len(job.lines) => job.lines[k + 1] = Blank}
<1>1. Len(job.lines) \in Nat
  BY CommandsAssumption
<1>2. PICK k \in D : \A e \in D : k <= e
  <2>1. D \subseteq Nat /\ Len(job.lines) \in D
    BY <1>1
  <2> HIDE DEF D
  <2> QED
    BY <2>1, NatLeast
<1>3. ASSUME NEW m \in 1 .. k, job.lines[m] = Blank PROVE FALSE
  <2>1. m - 1 \in 0 .. Len(job.lines) /\ (m - 1) + 1 = m /\ ~(k <= m - 1)
    BY <1>1, <1>2
  <2> QED
    BY <1>2, <1>3, <2>1
<1>4. Started = k
  BY <1>2, <1>3, StartedLemma
<1> QED
  BY <1>2, <1>3, <1>4

\* The first read of a pipe that holds what a command wrote.
LEMMA FirstLemma ==
  ASSUME job \in Jobs, NEW k \in 1 .. Started
  PROVE  FirstPieces(Output(k)) \in Seq(Pieces)
<1>1. k \in 1 .. Len(job.lines) /\ job.lines[k] # Blank
  BY StartedIs, CommandsAssumption
<1>2. Output(k) \in Seq(Pieces) /\ Len(Output(k)) \in Nat
  BY <1>1, OutputLemma
<1> QED
  BY <1>2, CommandsAssumption DEF FirstPieces

\* The recursive definition of Text: each command adds its first read.
LEMMA TextLemma ==
  ASSUME job \in Jobs
  PROVE  /\ Text[0] = <<>>
         /\ \A k \in 1 .. Started : Text[k] = Text[k - 1] \o FirstPieces(Output(k))
<1> DEFINE Body(f) == [k \in 0 .. Started |->
                          IF k = 0 THEN <<>> ELSE f[k - 1] \o FirstPieces(Output(k))]
           L == Started
           t == Text
<1>1. L \in Nat
  BY StartedIs, CommandsAssumption
<1>2. \E f : f = Body(f)
  <2> DEFINE step == [k \in 1 .. L |-> [x \in Seq(Pieces) |-> x \o FirstPieces(Output(k))]]
             Q == Seq(Pieces)
             e == <<>>
             g == Recursion(Q, e, 0, L, step)
  <2>1. ASSUME NEW k \in 0 + 1 .. L, NEW x \in Q PROVE step[k][x] \in Q
    <3>1. k \in 1 .. L
      BY <1>1
    <3>2. FirstPieces(Output(k)) \in Seq(Pieces)
      BY <3>1, FirstLemma
    <3>3. step[k][x] = x \o FirstPieces(Output(k))
      BY <3>1
    <3> QED
      BY <3>2, <3>3
  <2>2. e \in Q /\ 0 <= L
    BY <1>1
  <2>3. Follows(g, Q, e, 0, L, step)
    <3>1. Steps(Q, 0, L, step)
      <4> HIDE DEF step, Q
      <4> QED
        BY <2>1 DEF Steps
    <3> HIDE DEF step, L, Q, e
    <3> QED
      BY <1>1, <2>2, <3>1, RecursionExists, Zenon
  <2>4. /\ g \in [0 .. L -> Q] /\ g[0] = <<>>
        /\ \A k \in 0 + 1 .. L : g[k] = step[k][g[k - 1]]
    <3> HIDE DEF g, step, Q, L
    <3> QED
      BY <2>3 DEF Follows, e
  <2> HIDE DEF g
  <2>5. ASSUME NEW k \in 0 .. L
        PROVE  g[k] = IF k = 0 THEN <<>> ELSE g[k - 1] \o FirstPieces(Output(k))
    <3>1. CASE k = 0
      BY <2>4, <3>1
    <3>2. CASE k # 0
      <4>1. k \in 0 + 1 .. L /\ k \in 1 .. L /\ k - 1 \in 0 .. L
        BY <1>1, <3>2
      <4>2. g[k - 1] \in Seq(Pieces)
        BY <2>4, <4>1
      <4> QED
        BY <2>4, <3>2, <4>1, <4>2
    <3> QED
      BY <3>1, <3>2
  <2>6. g = Body(g)
    BY <2>4, <2>5
  <2> QED
    BY <2>6
<1>3. t = Body(t)
  <2>1. t = CHOOSE f : f = Body(f)
    BY DEF Text
  <2> HIDE DEF Body, t
  <2> QED
    BY <1>2, <2>1
<1>4. ASSUME NEW k \in 0 .. L
      PROVE  t[k] = IF k = 0 THEN <<>> ELSE t[k - 1] \o FirstPieces(Output(k))
  <2> HIDE DEF t
  <2> QED
    BY <1>3
<1>5. ASSUME NEW k \in 1 .. L PROVE t[k] = t[k - 1] \o FirstPieces(Output(k))
  <2>1. k \in 0 .. L /\ k # 0
    BY <1>1
  <2> HIDE DEF t, L
  <2> QED
    BY <1>4, <2>1
<1>6. t[0] = <<>>
  <2>1. 0 \in 0 .. L
    BY <1>1
  <2> HIDE DEF t, L
  <2> QED
    BY <1>4, <2>1
<1> QED
  BY <1>5, <1>6

\* Texts are put behind each other in any grouping.
LEMMA Texts ==
  \A s, t, u \in Seq(Pieces) : s \o t \in Seq(Pieces) /\ (s \o t) \o u = s \o (t \o u)
<1> SUFFICES ASSUME NEW s \in Seq(Pieces), NEW t \in Seq(Pieces), NEW u \in Seq(Pieces)
             PROVE  s \o t \in Seq(Pieces) /\ (s \o t) \o u = s \o (t \o u)
  OBVIOUS
<1>1. s \o t \in Seq(Pieces)
  OBVIOUS
<1> QED
  BY <1>1, ConcatAssociative

\* A text cut in two, the first part written behind s and the rest held back, is still
\* s and the text.
LEMMA CutLemma ==
  ASSUME NEW S, NEW s \in Seq(S), NEW t \in Seq(S), NEW m \in 0 .. Len(t)
  PROVE  /\ SubSeq(t, 1, m) \in Seq(S) /\ SubSeq(t, m + 1, Len(t)) \in Seq(S)
         /\ Len(SubSeq(t, m + 1, Len(t))) = Len(t) - m
         /\ (s \o SubSeq(t, 1, m)) \o SubSeq(t, m + 1, Len(t)) = s \o t
<1> DEFINE a == SubSeq(t, 1, m)  b == SubSeq(t, m + 1, Len(t))
<1>1. a \in Seq(S) /\ b \in Seq(S) /\ Len(b) = Len(t) - m
  OBVIOUS
<1>2. a \o b = t
  <2>1. Len(t) \in Nat /\ 1 \in 1 .. Len(t) + 1 /\ m \in 1 - 1 .. Len(t) /\ Len(t) \in m .. Len(t)
    OBVIOUS
  <2>2. SubSeq(t, 1, m) \o SubSeq(t, m + 1, Len(t)) = SubSeq(t, 1, Len(t))
    BY <2>1, ConcatAdjacentSubSeq
  <2> QED
    BY <2>2, SubSeqFull
<1>3. (s \o a) \o b = s \o (a \o b)
  <2> HIDE DEF a, b
  <2> QED
    BY <1>1, ConcatAssociative
<1> QED
  BY <1>1, <1>2, <1>3

\* A child that was forked runs a command line.
LEMMA ForkedLemma ==
  ASSUME CommandsInv, job.mode = "parallel", NEW c \in Children, Forked(c)
  PROVE  c \in 1 .. Len(job.lines) /\ job.lines[c] # Blank
<1>1. Len(job.lines) \in Nat /\ MaxCommands \in Nat
  BY CommandsAssumption DEF CommandsInv, Shape
<1>2. CASE at = "fork"
  <2>1. Forking
    BY <1>2 DEF CommandsInv, ParentInv
  <2>2. c < next /\ c \in Nat \ {0} /\ next \in 1 .. Len(job.lines) + 1
    BY <1>1, <2>1 DEF Forking, Children
  <2>3. c \in 1 .. next - 1 /\ c \in 1 .. Len(job.lines)
    BY <1>1, <2>2
  <2> QED
    BY <2>1, <2>3 DEF Forking
<1>3. CASE at # "fork"
  <2>1. AllForked
    BY <1>3 DEF CommandsInv, ParentInv
  <2>2. c <= Started /\ c \in Nat \ {0} /\ Started \in 0 .. Len(job.lines)
    BY <1>1, <2>1 DEF AllForked, Children
  <2>3. c \in 1 .. Started /\ c \in 1 .. Len(job.lines)
    BY <1>1, <2>2
  <2> QED
    BY <2>1, <2>3 DEF AllForked
<1> QED
  BY <1>2, <1>3

\* What depends on the job alone does not change.
LEMMA JobLemma ==
  ASSUME [Next]_vars
  PROVE  /\ job' = job /\ Started' = Started /\ \A k : Output(k)' = Output(k)
         /\ Text' = Text
<1>1. job' = job
  BY DEF Next, vars, Parent, Child, Fork, EndFork, Wait, EndWait, Show, EndShow,
         ChildExec, ChildWrite, ChildExit
<1>2. \A k : Output(k)' = Output(k)
  BY <1>1 DEF Output, Exec
<1> QED
  BY <1>1, <1>2 DEF Started, Text, Output, Exec

LEMMA ShapeStep ==
  ASSUME Shape, [Next]_vars
  PROVE  Shape'
<1>1. job' = job
  BY JobLemma
<1>2. CASE Parent
  BY <1>1, <1>2 DEF Parent, Shape, Fork, EndFork, Wait, EndWait, Show, EndShow, family
<1>3. ASSUME NEW c \in Children, Child(c) PROVE Shape'
  BY <1>1, <1>3 DEF Child, Shape, ChildExec, ChildWrite, ChildExit
<1>4. CASE UNCHANGED vars
  BY <1>4 DEF vars, Shape
<1> QED
  BY <1>2, <1>3, <1>4 DEF Next
-----------------------------------------------------------------------------
(* One lemma for each action, for lists of commands. *)

\* What the lemmas below start from.
Before == /\ CommandsInv /\ job.mode = "parallel"
          /\ [Next]_vars

Kept == ParentInv' /\ \A c \in Children : PipeInv(c)'

\* What follows from Before whatever the action.
LEMMA Facts ==
  ASSUME Before
  PROVE  /\ ParentInv /\ \A c \in Children : PipeInv(c)
         /\ Shape /\ job' = job /\ Started' = Started
         /\ Text' = Text /\ \A k : Output(k)' = Output(k)
         /\ Len(job.lines) \in 0 .. MaxCommands /\ DOMAIN job.lines = 1 .. Len(job.lines)
         /\ MaxCommands \in Nat /\ PipeSize \in Nat \ {0} /\ BufSize \in Nat \ {0}
  BY JobLemma, CommandsAssumption DEF Before, CommandsInv, Shape

LEMMA ForkStep ==
  ASSUME Before, Fork
  PROVE  Kept
<1>1. /\ at = "fork" /\ at' = "fork" /\ next' = next + 1 /\ UNCHANGED <<out, buffer>>
      /\ child' = [child EXCEPT ![next] = "forked"]
      /\ UNCHANGED <<program, written, pipe>>
  BY DEF Fork, Before, printed
<1>2. Forking /\ next \in 1 .. Len(job.lines) /\ job.lines[next] # Blank
  BY <1>1, Facts DEF Fork, Ends, ParentInv, Forking
<1>3. next \in Children /\ child[next] = "none" /\ next + 1 \in 1 .. Len(job.lines) + 1
  BY <1>2, Facts DEF Forking, Forked, Children
<1>4. \A c \in Children : child'[c] = IF c = next THEN "forked" ELSE child[c]
  BY <1>1, Facts DEF Shape
<1>5. Forking'
  <2>1. \A c \in Children : Forked(c)' <=> c < next'
    BY <1>1, <1>2, <1>3, <1>4 DEF Forked, Forking, Children
  <2>2. \A m \in 1 .. next' - 1 : job'.lines[m] # Blank
    BY <1>1, <1>2, Facts DEF Forking
  <2> QED
    BY <1>1, <1>3, <2>1, <2>2, Facts DEF Forking
<1>6. ParentInv'
  BY <1>1, <1>5, Facts DEF ParentInv
<1>7. ASSUME NEW c \in Children PROVE PipeInv(c)'
  BY <1>1, <1>3, <1>4, Facts, SMTT(40) DEF PipeInv, ChildStates, Forked
<1> QED
  BY <1>6, <1>7 DEF Kept

LEMMA EndForkStep ==
  ASSUME Before, EndFork
  PROVE  Kept
<1>1. /\ at = "fork" /\ at' = "wait"
      /\ UNCHANGED <<next, child, program, written, pipe, out, buffer>>
  BY DEF EndFork, family, printed
<1>2. Forking /\ (next \in 1 .. Len(job.lines) => job.lines[next] = Blank)
  BY <1>1, Facts DEF EndFork, Ends, ParentInv
<1>3. Started = next - 1
  <2>1. next - 1 \in 0 .. Len(job.lines) /\ next \in Nat /\ Len(job.lines) \in Nat
    BY <1>2, Facts DEF Forking
  <2>2. next - 1 < Len(job.lines) => job.lines[(next - 1) + 1] = Blank
    BY <1>2, <2>1 DEF Forking
  <2> QED
    BY <1>2, <2>1, <2>2, StartedLemma, Facts DEF Forking, Shape
<1>4. AllForked'
  BY <1>1, <1>2, <1>3, Facts DEF AllForked, Forking, Forked, Children
<1>5. ParentInv'
  BY <1>1, <1>4, Facts DEF ParentInv
<1>6. ASSUME NEW c \in Children PROVE PipeInv(c)'
  BY <1>1, Facts DEF PipeInv, Forked
<1> QED
  BY <1>5, <1>6 DEF Kept

LEMMA ChildExecStep ==
  ASSUME Before, NEW c \in Children, ChildExec(c)
  PROVE  Kept
<1>1. /\ child[c] = "forked" /\ child' = [child EXCEPT ![c] = "runs"]
      /\ program' = [program EXCEPT ![c] = Exec(job.lines[c])]
      /\ UNCHANGED <<at, next, written, pipe, out, buffer>>
  BY DEF ChildExec, printed
<1>2. \A d \in Children : /\ child'[d] = IF d = c THEN "runs" ELSE child[d]
                          /\ program'[d] = IF d = c THEN Exec(job.lines[d]) ELSE program[d]
                          /\ Forked(d)' <=> Forked(d)
  BY <1>1, Facts DEF Shape, Forked
<1>3. ParentInv'
  BY <1>1, <1>2, Facts DEF ParentInv, Forking, AllForked, WaitedAll
<1>4. ASSUME NEW d \in Children PROVE PipeInv(d)'
  <2>1. CASE d = c
    <3>1. c \in 1 .. Len(job.lines) /\ job.lines[c] # Blank
      BY <1>1, ForkedLemma DEF Before, Forked
    <3>2. Len(Output(c)) \in Nat
      BY <3>1, OutputLemma, Facts DEF Shape
    <3> QED
      BY <1>1, <1>2, <2>1, <3>2, Facts DEF PipeInv, ChildStates
  <2>2. CASE d # c
    BY <1>1, <1>2, <2>2, Facts, SMTT(20) DEF PipeInv
  <2> QED
    BY <2>1, <2>2
<1> QED
  BY <1>3, <1>4 DEF Kept

LEMMA ChildWriteStep ==
  ASSUME Before, NEW c \in Children, ChildWrite(c)
  PROVE  Kept
<1>1. /\ child[c] = "runs" /\ written[c] < Len(program[c].output)
      /\ Len(pipe[c]) < PipeSize
      /\ pipe' = [pipe EXCEPT ![c] = Append(@, program[c].output[written[c] + 1])]
      /\ written' = [written EXCEPT ![c] = @ + 1]
      /\ UNCHANGED <<at, next, child, program, out, buffer>>
  BY DEF ChildWrite, Before
<1>2. c \in 1 .. Len(job.lines) /\ job.lines[c] # Blank
  BY <1>1, ForkedLemma DEF Before, Forked
<1>3. /\ program[c].output = Output(c) /\ written[c] \in Nat /\ written[c] < Len(Output(c))
      /\ Output(c) \in Seq(Pieces) /\ Len(Output(c)) \in Nat
  BY <1>1, <1>2, OutputLemma, Facts DEF PipeInv, Output, Shape
<1>4. at \in {"fork", "wait"}
  BY <1>1, Facts DEF ParentInv, WaitedAll, AllForked, Forked, PipeInv
<1>5. \A d \in Children : /\ written'[d] = IF d = c THEN written[d] + 1 ELSE written[d]
                          /\ d # c => pipe'[d] = pipe[d]
                          /\ Forked(d)' <=> Forked(d)
  BY <1>1, Facts DEF Shape, Forked
<1>6. ParentInv'
  BY <1>1, <1>4, <1>5, Facts DEF ParentInv, Forking, AllForked
<1>7. PipeInv(c)'
  <2> DEFINE old == [k \in 1 .. written[c] |-> Output(c)[k]]
  <2>1. pipe[c] = old
    BY <1>4, Facts DEF PipeInv
  <2>2. old \in Seq(Pieces) /\ Len(old) = written[c]
    BY <1>3
  <2>3. pipe'[c] = Append(old, Output(c)[written[c] + 1])
    BY <1>1, <1>3, <2>1, Facts DEF Shape
  <2>4. Output(c)[written[c] + 1] \in Pieces
    BY <1>3
  <2> HIDE DEF old
  <2>5. Append(old, Output(c)[written[c] + 1]) =
          [k \in 1 .. written[c] + 1 |-> IF k = written[c] + 1 THEN Output(c)[k] ELSE old[k]]
    BY <1>3, <2>2, <2>4
  <2>6. pipe'[c] = [k \in 1 .. written[c] + 1 |-> Output(c)[k]]
    BY <1>3, <2>3, <2>5 DEF old
  <2>7. written[c] + 1 <= PipeSize
    BY <1>1, <1>3, <2>1, <2>2, Facts
  <2> QED
    <3>1. written'[c] = written[c] + 1 /\ Output(c)' = Output(c)
      BY <1>5, Facts
    <3>2. pipe'[c] = [k \in 1 .. written'[c] |-> Output(c)'[k]]
      BY <2>6, <3>1
    <3>3. child'[c] = "runs" /\ program'[c] = program[c] /\ job' = job /\ at' \in {"fork", "wait"}
      BY <1>1, <1>4, Facts
    <3>4. written'[c] \in Nat /\ written'[c] <= Len(Output(c)') /\ written'[c] <= PipeSize
      BY <1>3, <2>7, <3>1
    <3>5. program'[c] = Exec(job.lines[c])'
      BY <1>1, <3>3, Facts DEF PipeInv, Exec
    <3> QED
      BY <3>2, <3>3, <3>4, <3>5 DEF PipeInv, ChildStates
<1>8. ASSUME NEW d \in Children, d # c PROVE PipeInv(d)'
  BY <1>1, <1>5, <1>8, Facts DEF PipeInv
<1> QED
  BY <1>6, <1>7, <1>8 DEF Kept

LEMMA ChildExitStep ==
  ASSUME Before, NEW c \in Children, ChildExit(c)
  PROVE  Kept
<1>1. /\ child[c] = "runs" /\ written[c] = Len(program[c].output)
      /\ child' = [child EXCEPT ![c] = "zombie"]
      /\ UNCHANGED <<at, next, program, written, pipe, out, buffer>>
  BY DEF ChildExit, printed
<1>2. \A d \in Children : /\ child'[d] = IF d = c THEN "zombie" ELSE child[d]
                          /\ Forked(d)' <=> Forked(d)
  BY <1>1, Facts DEF Shape, Forked
<1>3. ParentInv'
  BY <1>1, <1>2, Facts DEF ParentInv, Forking, AllForked, WaitedAll
<1>4. ASSUME NEW d \in Children PROVE PipeInv(d)'
  <2>1. d = c => written[d] = Len(Output(d))
    BY <1>1, Facts DEF PipeInv, Output
  <2> QED
    BY <1>1, <1>2, <2>1, Facts, SMTT(20) DEF PipeInv, ChildStates
<1> QED
  BY <1>3, <1>4 DEF Kept

LEMMA WaitStep ==
  ASSUME Before, NEW c \in Children, Wait(c)
  PROVE  Kept
<1>1. /\ at = "wait" /\ child[c] = "zombie"
      /\ child' = [child EXCEPT ![c] = "gone"]
      /\ UNCHANGED <<at, next, program, written, pipe, out, buffer>>
  BY DEF Wait, printed
<1>2. \A d \in Children : /\ child'[d] = IF d = c THEN "gone" ELSE child[d]
                          /\ Forked(d)' <=> Forked(d)
  BY <1>1, Facts DEF Shape, Forked
<1>3. ParentInv'
  BY <1>1, <1>2, Facts DEF ParentInv, AllForked
<1>4. ASSUME NEW d \in Children PROVE PipeInv(d)'
  BY <1>1, <1>2, Facts, SMTT(20) DEF PipeInv, ChildStates
<1> QED
  BY <1>3, <1>4 DEF Kept

LEMMA EndWaitStep ==
  ASSUME Before, EndWait
  PROVE  Kept
<1>1. /\ at = "wait" /\ at' = "show" /\ WaitedAll /\ next' = 1
      /\ UNCHANGED <<child, program, written, pipe, out, buffer>>
  BY DEF EndWait, Before, family, printed
<1>2. AllForked'
  BY <1>1, Facts DEF ParentInv, AllForked, Forked
<1>3. next' \in 1 .. Started' + 1 /\ Started \in Nat
  BY <1>1, Facts DEF ParentInv, AllForked
<1>4. (out \o buffer)' = Text'[next' - 1]
  <2>1. Text[0] = <<>>
    BY TextLemma, Facts DEF Shape
  <2>2. out = <<>> /\ buffer = <<>> /\ <<>> \o <<>> = <<>>
    BY <1>1, Facts DEF ParentInv
  <2>3. next' - 1 = 0
    BY <1>1
  <2> QED
    BY <1>1, <2>1, <2>2, <2>3, Facts
<1>5. ParentInv'
  BY <1>1, <1>2, <1>3, <1>4, Facts DEF ParentInv, WaitedAll
<1>6. ASSUME NEW c \in Children PROVE PipeInv(c)'
  <2>1. ~(c < next')
    BY <1>1 DEF Children
  <2> QED
    BY <1>1, <2>1, Facts DEF PipeInv, Forked
<1> QED
  BY <1>5, <1>6 DEF Kept

LEMMA ShowStep ==
  ASSUME Before, Show
  PROVE  Kept
<1>1. /\ at = "show" /\ at' = "show" /\ next \in Children /\ Forked(next) /\ pipe[next] # <<>>
      /\ Printf(FirstPieces(pipe[next])) /\ next' = next + 1
      /\ \A c \in Children : c # next => pipe'[c] = pipe[c]
      /\ UNCHANGED <<child, program, written>>
  BY Facts DEF Show, Shape
<1>2. next \in 1 .. Started /\ Started \in Nat
  BY <1>1, Facts DEF ParentInv, AllForked, Children
<1>3. next \in 1 .. Len(job.lines) /\ job.lines[next] # Blank
  BY <1>1, ForkedLemma DEF Before
<1>4. pipe[next] = Output(next)
  <2>1. written[next] = Len(Output(next))
    BY <1>1, Facts DEF ParentInv, WaitedAll, Forked, PipeInv
  <2>2. pipe[next] = [k \in 1 .. written[next] |-> Output(next)[k]]
    <3>1. next >= next /\ PipeInv(next)
      BY <1>1, <1>2, Facts
    <3> QED
      BY <1>1, <3>1 DEF PipeInv
  <2> QED
    BY <1>3, <2>1, <2>2, OutputLemma, Facts DEF Shape
<1>5. /\ out' \in Seq(Pieces) /\ buffer' \in Seq(Pieces) /\ Len(buffer') <= BufSize
      /\ out' \o buffer' = Text[next]
  <2> DEFINE e == FirstPieces(Output(next))
             text == buffer \o e
  <2>1. e \in Seq(Pieces)
    BY <1>2, FirstLemma, Facts DEF Shape
  <2>2. out \in Seq(Pieces) /\ buffer \in Seq(Pieces) /\ out \o buffer = Text[next - 1]
    BY <1>1, Facts DEF ParentInv
  <2>3. PICK m \in 0 .. Len(text) : /\ Len(text) - m <= BufSize
                                    /\ out' = out \o SubSeq(text, 1, m)
                                    /\ buffer' = SubSeq(text, m + 1, Len(text))
    BY <1>1, <1>4 DEF Printf
  <2>4. Text[next] = Text[next - 1] \o e
    BY <1>2, TextLemma, Facts DEF Shape
  <2> HIDE DEF e
  <2>5. text \in Seq(Pieces) /\ out \o text = (out \o buffer) \o e
    <3>1. buffer \o e \in Seq(Pieces)
      BY <2>1, <2>2, Texts, Zenon
    <3>2. (out \o buffer) \o e = out \o (buffer \o e)
      BY <2>1, <2>2, Texts, Zenon
    <3> QED
      BY <3>1, <3>2, Zenon
  <2> HIDE DEF text
  <2>6. /\ SubSeq(text, 1, m) \in Seq(Pieces) /\ SubSeq(text, m + 1, Len(text)) \in Seq(Pieces)
        /\ Len(SubSeq(text, m + 1, Len(text))) = Len(text) - m
        /\ (out \o SubSeq(text, 1, m)) \o SubSeq(text, m + 1, Len(text)) = out \o text
    BY <2>2, <2>3, <2>5, CutLemma
  <2>7. out' \o buffer' = Text[next]
    BY <2>2, <2>3, <2>4, <2>5, <2>6
  <2>8. out' \in Seq(Pieces) /\ buffer' \in Seq(Pieces)
    BY <2>2, <2>3, <2>6
  <2>9. Len(buffer') <= BufSize
    <3>1. Len(buffer') = Len(text) - m
      BY <2>3, <2>6
    <3> QED
      BY <2>3, <3>1
  <2> QED
    BY <2>7, <2>8, <2>9
<1>6. ParentInv'
  <2>1. AllForked' /\ WaitedAll'
    BY <1>1, Facts DEF ParentInv, AllForked, Forked, WaitedAll
  <2>2. next' \in 1 .. Started' + 1 /\ next' - 1 = next
    BY <1>1, <1>2, Facts
  <2>3. (out \o buffer)' = Text'[next' - 1]
    BY <1>5, <2>2, Facts
  <2> QED
    BY <1>1, <1>5, <2>1, <2>2, <2>3 DEF ParentInv
<1>7. ASSUME NEW c \in Children PROVE PipeInv(c)'
  <2>1. c < next + 1 /\ ~(c < next) => c = next
    BY <1>2 DEF Children
  <2>2. c >= next + 1 => c >= next /\ c # next
    BY <1>2 DEF Children
  <2> QED
    BY <1>1, <1>4, <2>1, <2>2, Facts, ZenonT(60) DEF PipeInv, Forked
<1> QED
  BY <1>6, <1>7 DEF Kept

LEMMA EndShowStep ==
  ASSUME Before, EndShow
  PROVE  Kept
<1>1. /\ at = "show" /\ at' = "exit" /\ (next \in Children => ~Forked(next))
      /\ out' = out \o buffer /\ buffer' = <<>>
      /\ UNCHANGED <<next, child, program, written, pipe>>
  BY DEF EndShow, family
<1>2. /\ next \in 1 .. Started + 1 /\ Started \in 0 .. MaxCommands
      /\ \A c \in Children : Forked(c) <=> c <= Started
  BY <1>1, Facts DEF ParentInv, AllForked
<1>3. next = Started + 1
  BY <1>1, <1>2, Facts DEF Children
<1>4. ParentInv'
  <2>1. AllForked' /\ WaitedAll'
    BY <1>1, Facts DEF ParentInv, AllForked, Forked, WaitedAll
  <2>2. out' = Text'[Started'] /\ out' \in Seq(Pieces)
    <3>1. (Started + 1) - 1 = Started
      BY <1>2, Facts
    <3>2. out \o buffer = Text[Started] /\ out \in Seq(Pieces) /\ buffer \in Seq(Pieces)
      BY <1>1, <1>3, <3>1, Facts DEF ParentInv
    <3>3. out \o buffer \in Seq(Pieces)
      BY <3>2, Texts, Zenon
    <3> QED
      BY <1>1, <3>2, <3>3, Facts, Zenon
  <2>3. <<>> \in Seq(Pieces) /\ Len(<<>>) = 0
    OBVIOUS
  <2> QED
    BY <1>1, <2>1, <2>2, <2>3, Facts DEF ParentInv
<1>5. ASSUME NEW c \in Children PROVE PipeInv(c)'
  <2>1. Forked(c) => c < next
    BY <1>2, <1>3, Facts DEF Children
  <2> QED
    BY <1>1, <2>1, Facts DEF PipeInv, Forked
<1> QED
  BY <1>4, <1>5 DEF Kept
-----------------------------------------------------------------------------
LEMMA CommandsInvInit == Init => CommandsInv
<1> SUFFICES ASSUME Init PROVE CommandsInv
  OBVIOUS
<1>1. Shape
  BY DEF Init, Shape
<1>2. Len(job.lines) \in 0 .. MaxCommands /\ MaxCommands \in Nat /\ PipeSize \in Nat
  BY CommandsAssumption DEF Init
<1>3. Forking
  BY <1>2 DEF Init, Forking, Forked, Children
<1>4. <<>> \in Seq(Pieces) /\ Len(<<>>) = 0 /\ BufSize \in Nat
  BY CommandsAssumption
<1>5. ParentInv
  BY <1>3, <1>4 DEF Init, ParentInv
<1>6. ASSUME NEW c \in Children PROVE PipeInv(c)
  BY <1>2 DEF Init, PipeInv, ChildStates, Forked
<1> QED
  BY <1>1, <1>5, <1>6 DEF CommandsInv

LEMMA CommandsInvStep == CommandsInv /\ [Next]_vars => CommandsInv'
<1> SUFFICES ASSUME CommandsInv, [Next]_vars PROVE CommandsInv'
  OBVIOUS
<1>1. Shape' /\ job' = job
  BY ShapeStep, JobLemma DEF CommandsInv
<1>2. ASSUME job.mode = "parallel" PROVE Kept
  <2>1. Before
    BY <1>2 DEF Before
  <2>2. CASE UNCHANGED vars
    <3>1. UNCHANGED <<at, next, child, program, written, pipe, out, buffer>>
      BY <2>2 DEF vars
    <3>2. ParentInv'
      BY <2>1, <3>1, Facts DEF ParentInv, Forking, AllForked, WaitedAll, Forked
    <3>3. \A c \in Children : PipeInv(c)'
      BY <2>1, <3>1, Facts DEF PipeInv, Forked
    <3> QED
      BY <3>2, <3>3 DEF Kept
  <2>3. ASSUME NEW c \in Children, Wait(c) PROVE Kept
    BY <2>1, <2>3, WaitStep
  <2>4. ASSUME NEW c \in Children, Child(c) PROVE Kept
    BY <2>1, <2>4, ChildExecStep, ChildWriteStep, ChildExitStep DEF Child
  <2> QED
    BY <2>1, <2>2, <2>3, <2>4, ForkStep, EndForkStep, EndWaitStep, ShowStep, EndShowStep
       DEF Next, Parent
<1> QED
  BY <1>1, <1>2 DEF CommandsInv, Kept

\* The commands run and end in any order, and still what the parent has written and
\* what its stdout holds back are together the first reads of its children's pipes, in
\* the order of the input file; it holds back at most a buffer, and at its end nothing
\* (execute_in_parallel).
THEOREM OutputInOrderAlways == Spec => []OutputInOrder
<1>1. CommandsInv => OutputInOrder
  <2> SUFFICES ASSUME CommandsInv, job.mode = "parallel" PROVE OutputInOrder
    BY DEF OutputInOrder
  <2>1. ParentInv /\ job \in Jobs
    BY DEF CommandsInv, Shape
  <2>2. Text[0] = <<>> /\ <<>> \o <<>> = <<>>
    BY <2>1, TextLemma
  <2>3. at = "exit" => out \o buffer = Text[Started]
    BY <2>1 DEF ParentInv
  <2> QED
    BY <2>1, <2>2, <2>3 DEF ParentInv, OutputInOrder
<1> QED
  BY <1>1, CommandsInvInit, CommandsInvStep, PTL DEF Spec

\* The parent comes to its end only when every command printed something and none
\* more than its pipe holds: otherwise it hangs in wait or in read, whatever the
\* path, the programs and the number of commands.
THEOREM ExitOnlyIfModerate == Spec => [](at = "exit" => CanEnd)
<1>1. CommandsInv => (at = "exit" => CanEnd)
  <2> SUFFICES ASSUME CommandsInv, at = "exit", job.mode = "parallel", NEW k \in 1 .. Started
               PROVE  Output(k) # <<>> /\ Len(Output(k)) <= PipeSize
    BY DEF CanEnd, Moderate
  <2>1. /\ Started \in 0 .. Len(job.lines) /\ Len(job.lines) \in 0 .. MaxCommands
        /\ MaxCommands \in Nat
    BY CommandsAssumption DEF CommandsInv, Shape, ParentInv, AllForked
  <2>2. k \in Children /\ Forked(k)
    BY <2>1 DEF CommandsInv, ParentInv, AllForked, Children
  <2>3. PipeInv(k) /\ child[k] = "gone"
    BY <2>2 DEF CommandsInv, ParentInv, WaitedAll, Forked
  <2> QED
    BY <2>2, <2>3 DEF PipeInv
<1> QED
  BY <1>1, CommandsInvInit, CommandsInvStep, PTL DEF Spec
=============================================================================
