------------------------------ MODULE Commands ------------------------------
(***************************************************************************)
(* Assignment 1, part 1: executeCommand runs one command in a child and    *)
(* returns its exit status (1.1); execute_in_parallel runs the commands of *)
(* a file at once, each writing into a pipe of its own, waits for all, and *)
(* copies one read of each pipe to the output file, in order (1.2).        *)
(*                                                                         *)
(* Output is counted in pieces: a pipe holds PipeSize (65536 bytes), the   *)
(* parent reads ReadSize (1000 bytes) once and prints what it has read     *)
(* into stdout, whose buffer of BufSize (4096 bytes) goes to the file when *)
(* it is full and at exit.  Nobody closes a pipe end.  The commands share  *)
(* the open input file as their standard input; here they do not read it.  *)
(***************************************************************************)
EXTENDS Integers, Sequences

CONSTANTS Path,       \* the directories of CS330_PATH
          Bin,        \* what a directory holds: name -> option -> behaviour
          Jobs,       \* the runs to try: how, the lines, each <<name, option>>, and what
                      \* the output file holds before
          MaxCommands,\* 100, the pipes fd[] has room for
          PipeSize, ReadSize, BufSize,
          Pieces      \* what a program may write

Blank == <<>>         \* an empty line ends the list, as the end of file does

ASSUME CommandsAssumption ==
    /\ {ReadSize, PipeSize, BufSize} \subseteq Nat \ {0} /\ MaxCommands \in Nat
    /\ \A j \in Jobs : /\ j.mode \in {"single", "parallel"}
                       /\ Len(j.lines) \in 0 .. MaxCommands
                       /\ DOMAIN j.lines = 1 .. Len(j.lines)

VARIABLES job,        \* what is run
          at,         \* the statement the parent is at
          next,       \* the number of the next line
          child,      \* the children: "none", "forked", "runs", "zombie", "gone"
          program,    \* what each child turned into
          written,    \* the pieces it has written
          pipe,       \* the pieces in its pipe
          out,        \* what was written to the output file, from its start
          buffer,     \* what the parent's stdout holds back
          status      \* what the parent returns

vars == <<job, at, next, child, program, written, pipe, out, buffer, status>>
family == <<child, program, written, pipe>>
printed == <<out, buffer>>

Children == 1 .. MaxCommands

\* The child that finds no program prints a line and exits with -1.
Unable == [output |-> <<"UNABLE TO EXECUTE">>, code |-> 255]

Init == /\ job \in Jobs
        /\ at = "fork" /\ next = 1 /\ out = <<>> /\ buffer = <<>> /\ status = 0
        /\ child = [c \in Children |-> "none"]
        /\ program = [c \in Children |-> Unable]
        /\ written = [c \in Children |-> 0]
        /\ pipe = [c \in Children |-> <<>>]

Ends == next \in DOMAIN job.lines => job.lines[next] = Blank

Fork == /\ at = "fork" /\ ~Ends
        /\ child' = [child EXCEPT ![next] = "forked"]
        /\ next' = next + 1
        /\ at' = IF job.mode = "single" THEN "wait" ELSE "fork"
        /\ UNCHANGED <<job, program, written, pipe, printed, status>>

EndFork == /\ at = "fork" /\ Ends
           /\ at' = "wait"
           /\ UNCHANGED <<job, next, family, printed, status>>

Holding(line) == {k \in DOMAIN Path : line[1] \in DOMAIN Bin[Path[k]]}
RunFrom(k, line) == Bin[Path[k]][line[1]][line[2]]

\* Slip: the search goes on behind the directory that has the program.
ExecLast(line) == IF Holding(line) = {} THEN Unable
                  ELSE RunFrom(CHOOSE k \in Holding(line) : \A m \in Holding(line) : m <= k, line)
\* The first directory of the path that holds the program; an exec that fails
\* returns and the next directory is tried.
Exec(line) == IF Holding(line) = {} THEN Unable
              ELSE RunFrom(CHOOSE k \in Holding(line) : \A m \in Holding(line) : k <= m, line)

ASSUME OutputAssumption ==
    \A j \in Jobs : \A k \in DOMAIN j.lines :
        j.lines[k] # Blank => Exec(j.lines[k]).output \in Seq(Pieces)

ChildExec(c) == /\ child[c] = "forked"
                /\ child' = [child EXCEPT ![c] = "runs"]
                /\ program' = [program EXCEPT ![c] = Exec(job.lines[c])]
                /\ UNCHANGED <<job, at, next, written, pipe, printed, status>>

\* In 1.1 the child has the parent's standard output, in 1.2 a pipe.
ChildWrite(c) ==
    /\ child[c] = "runs" /\ written[c] < Len(program[c].output)
    /\ LET piece == program[c].output[written[c] + 1] IN
         IF job.mode = "single"
         THEN /\ out' = Append(out, piece)
              /\ UNCHANGED pipe
         ELSE /\ Len(pipe[c]) < PipeSize
              /\ pipe' = [pipe EXCEPT ![c] = Append(@, piece)]
              /\ UNCHANGED out
    /\ written' = [written EXCEPT ![c] = @ + 1]
    /\ UNCHANGED <<job, at, next, child, program, buffer, status>>

ChildExit(c) == /\ child[c] = "runs" /\ written[c] = Len(program[c].output)
                /\ child' = [child EXCEPT ![c] = "zombie"]
                /\ UNCHANGED <<job, at, next, program, written, pipe, printed, status>>

\* Slip: the parent takes one child's end for the end of all.
WaitedOne == \E c \in Children : child[c] = "gone"
WaitedAll == \A c \in Children : child[c] \in {"none", "gone"}

Wait(c) == /\ at = "wait" /\ child[c] = "zombie"
           /\ child' = [child EXCEPT ![c] = "gone"]
           /\ status' = IF job.mode = "single" THEN program[c].code ELSE status
           /\ UNCHANGED <<job, at, next, program, written, pipe, printed>>

EndWait == /\ at = "wait" /\ WaitedAll
           /\ IF job.mode = "single"
              THEN at' = "exit" /\ UNCHANGED next
              ELSE at' = "show" /\ next' = 1
           /\ UNCHANGED <<job, family, printed, status>>

Forked(c) == child[c] # "none"

FirstPieces(s) == SubSeq(s, 1, IF Len(s) < ReadSize THEN Len(s) ELSE ReadSize)

\* printf(s): whole buffers go to the file; whether one that has just become full
\* does so at once is left to the library.
Printf(s) ==
    LET text == buffer \o s
    IN \E m \in 0 .. Len(text) :
          /\ m % BufSize = 0 /\ Len(text) - m <= BufSize
          /\ out' = out \o SubSeq(text, 1, m)
          /\ buffer' = SubSeq(text, m + 1, Len(text))

\* A read of an empty pipe waits: its writing end is open in the parent itself.
Show == /\ at = "show" /\ next \in Children
        /\ Forked(next) /\ pipe[next] # <<>>
        /\ Printf(FirstPieces(pipe[next]))
        /\ pipe' = [pipe EXCEPT ![next] = SubSeq(@, Len(FirstPieces(@)) + 1, Len(@))]
        /\ next' = next + 1
        /\ UNCHANGED <<job, at, child, program, written, status>>

\* The exit writes what stdout still holds.
EndShow == /\ at = "show"
           /\ next \in Children => ~Forked(next)
           /\ at' = "exit"
           /\ out' = out \o buffer /\ buffer' = <<>>
           /\ UNCHANGED <<job, next, family, status>>

Parent == Fork \/ EndFork \/ (\E c \in Children : Wait(c)) \/ EndWait \/ Show \/ EndShow

Child(c) == ChildExec(c) \/ ChildWrite(c) \/ ChildExit(c)

Next == Parent \/ \E c \in Children : Child(c)

Spec == /\ Init /\ [][Next]_vars
        /\ WF_vars(Parent) /\ \A c \in Children : WF_vars(Child(c))

-----------------------------------------------------------------------------
\* The commands the parent starts: those before the first blank line.
Started == CHOOSE k \in 0 .. Len(job.lines) :
    /\ k < Len(job.lines) => job.lines[k + 1] = Blank
    /\ \A m \in 1 .. k : job.lines[m] # Blank

Output(k) == Exec(job.lines[k]).output

\* The text of the first k commands: the first read of each of their pipes.
Text[k \in 0 .. Started] == IF k = 0 THEN <<>> ELSE Text[k - 1] \o FirstPieces(Output(k))

\* The output file is not emptied when it is opened: behind what was written it
\* holds what it held before.
File == out \o SubSeq(job.old, Len(out) + 1, Len(job.old))

\* executeInParallel.c:85-106.  Whatever the order the commands run and end in, what
\* the parent has written and what its stdout holds back are together the first reads
\* of the pipes, in the order of the input file, none left out, cut or mixed with
\* another; nothing is printed before all commands have ended, stdout holds back no
\* more than a buffer, so that a parent that waits in read may have left the file
\* without the last texts or inside one, and nothing at the end.
OutputInOrder ==
    job.mode = "parallel" =>
        /\ out \o buffer = Text[IF at = "show" THEN next - 1 ELSE IF at = "exit" THEN Started ELSE 0]
        /\ Len(buffer) <= BufSize
        /\ at = "exit" => buffer = <<>>

\* A command alone comes to its end, and the parent returns its status.  A
\* list of commands does so exactly when each of them prints something and no
\* more than a pipe holds: a silent one leaves the parent in read, a talkative
\* one leaves its child in write and the parent in wait.
Moderate == \A k \in 1 .. Started : Output(k) # <<>> /\ Len(Output(k)) <= PipeSize
CanEnd == job.mode = "parallel" => Moderate
Right == job.mode = "single" => out = Output(1) /\ status = Exec(job.lines[1]).code
Ended == at = "exit" /\ Right
=============================================================================
