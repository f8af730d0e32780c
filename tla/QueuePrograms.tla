--------------------------- MODULE QueuePrograms ---------------------------
(***************************************************************************)
(* The test programs of Assignment 2, user/test_cases_part2, on top of the *)
(* message queue: send_rcv.c, bcast.c, add_on_fork.c and block.c.  In each *)
(* the parent creates the queue, forks, and sends its children a message;  *)
(* a child waits for it, answers the sender and exits.  Each step is one   *)
(* system call; a poll of get_msg_count that finds nothing is a stutter.   *)
(***************************************************************************)
EXTENDS MsgQueue

CONSTANTS Programs,   \* the programs to run
          MSG, ACK    \* the two texts

ASSUME ProgramAssumption == {MSG, ACK} \subseteq Bodies

VARIABLES program,  \* the program that runs
          pc,       \* where each process is in it
          ch,       \* the children the parent has forked
          cnt,      \* the answers it has received
          got,      \* the message a child has received, <<>> before
          printed   \* the lines of output

own == <<program, pc, ch, cnt, got, printed>>
pvars == <<vars, own>>

Parent == 1
Kids == IF program = "bcast" THEN 2 ELSE 1

PInit == /\ Init
         /\ program \in Programs
         /\ pc = [p \in Pids |-> IF p = Parent THEN "create" ELSE "none"]
         /\ ch = 0 /\ cnt = 0
         /\ got = [p \in Pids |-> <<>>]
         /\ printed = <<>>

Goto(p, label) == pc' = [pc EXCEPT ![p] = label]
Say(line) == printed' = Append(printed, line)

\* get_member_info fills in the number of members.
SayMembers(when) == Say(<<when, Len(members)>>)

Create == /\ pc[Parent] = "create" /\ CreateMsgQueue(Parent)
          /\ Goto(Parent, IF program = "add_on_fork" THEN "before" ELSE "fork")
          /\ UNCHANGED <<program, ch, cnt, got, printed>>

\* add_on_fork.c:12-13 and 33-34.
CountMembers == /\ pc[Parent] \in {"before", "after"}
                /\ SayMembers(pc[Parent])
                /\ Goto(Parent, IF pc[Parent] = "before" THEN "fork" ELSE "send")
                /\ UNCHANGED <<vars, program, ch, cnt, got>>

ForkChild == /\ pc[Parent] = "fork" /\ ch < Kids
             /\ \E c \in Pids :
                  /\ Fork(Parent, c)
                  /\ pc' = [pc EXCEPT ![c] = "poll",
                              ![Parent] = IF ch + 1 < Kids THEN "fork"
                                          ELSE IF program = "add_on_fork" THEN "after"
                                          ELSE IF program = "block" THEN "block"
                                          ELSE "send"]
             /\ ch' = ch + 1
             /\ UNCHANGED <<program, cnt, got, printed>>

\* The pid fork returned last.
Child == CHOOSE c \in Pids : c # Parent /\ pc[c] # "none"
To == IF program = "bcast" THEN BROADCAST_PID ELSE Child

\* block.c:39.
BlockChild == /\ pc[Parent] = "block" /\ Block(Parent, Child)
              /\ Goto(Parent, "send")
              /\ UNCHANGED <<program, ch, cnt, got, printed>>

\* bcast.c:61-62 goes on only when as many processes were reached.
SendMsg == /\ pc[Parent] = "send"
           /\ IF SendResult(Parent, To) > 0 THEN Send(Parent, To, MSG)
              ELSE UNCHANGED vars
           /\ IF program = "bcast" /\ SendResult(Parent, To) # Kids
              THEN Say("Broadcast FAILED") /\ Goto(Parent, "done")
              ELSE /\ Goto(Parent, IF program = "block" THEN "sleep" ELSE "poll")
                   /\ UNCHANGED printed
           /\ UNCHANGED <<program, ch, cnt, got>>

Poll(p) == /\ pc[p] = "poll" /\ MsgCount(p) > 0
           /\ Goto(p, "rcv")
           /\ UNCHANGED <<vars, program, ch, cnt, got, printed>>

RcvAck == /\ pc[Parent] = "rcv" /\ Rcv(Parent)
          /\ cnt' = cnt + 1
          /\ Goto(Parent, IF cnt' = Kids THEN "done" ELSE "poll")
          /\ printed' = CASE program = "send_rcv" ->
                                Append(printed, <<"Parent got", buf[RcvIndex(Parent)].body>>)
                          [] program = "bcast" /\ cnt' = Kids ->
                                Append(printed, "Broadcast OK")
                          [] OTHER -> printed
          /\ UNCHANGED <<program, ch, got>>

RcvMsg(c) == /\ c # Parent /\ pc[c] = "rcv" /\ Rcv(c)
             /\ got' = [got EXCEPT ![c] = <<buf[RcvIndex(c)]>>]
             /\ IF program = "send_rcv"
                THEN Say(<<"Child received", got'[c][1].body>>)
                ELSE UNCHANGED printed
             /\ Goto(c, "ack")
             /\ UNCHANGED <<program, ch, cnt>>

SendAck(c) ==
    LET to == got[c][1].from IN
    /\ pc[c] = "ack"
    /\ IF SendResult(c, to) > 0 THEN Send(c, to, ACK) ELSE UNCHANGED vars
    /\ IF program = "block"
       THEN Say(IF SendResult(c, to) = EINVAL THEN "Child blocked by parent"
                  ELSE "Child not blocked by parent")
       ELSE UNCHANGED printed
    /\ Goto(c, "done")
    /\ UNCHANGED <<program, ch, cnt, got>>

\* block.c:52-53, "sleep till the child checks if it is blocked": the twenty
\* ticks are taken to be enough for the child's five calls.
WakeUp == /\ pc[Parent] = "sleep"
          /\ pc[Child] \in {"done", "exited"}
          /\ Goto(Parent, "done")
          /\ UNCHANGED <<vars, program, ch, cnt, got, printed>>

Finish(p) == /\ pc[p] = "done" /\ Exit(p)
             /\ Goto(p, "exited")
             /\ UNCHANGED <<program, ch, cnt, got, printed>>

Step(p) == \/ p = Parent /\ \/ Create \/ CountMembers \/ ForkChild \/ BlockChild
                            \/ SendMsg \/ RcvAck \/ WakeUp
           \/ RcvMsg(p) \/ SendAck(p)
           \/ Poll(p) \/ Finish(p)

PNext == \E p \in Pids : Step(p)

\* The scheduler is round robin (Scheduler, NoStarvation), so every process
\* that can go on does.
PSpec == PInit /\ [][PNext]_pvars /\ \A p \in Pids : WF_pvars(Step(p))
-----------------------------------------------------------------------------
\* The contents of the .output files.
Output == [send_rcv |-> <<<<"Child received", MSG>>, <<"Parent got", ACK>>>>,
           bcast |-> <<"Broadcast OK">>,
           add_on_fork |-> <<<<"before", 1>>, <<"after", 2>>>>,
           block |-> <<"Child blocked by parent">>]

\* Each program prints what its .output file shows, however the processes
\* interleave: messages reach every child and nobody else, answers arrive
\* although children leave the queue while others still use it.  In the end
\* all have exited and the queue's pages are free.
TestsPass == <>[](alive = {} /\ st = "freed" /\ printed = Output[program])
=============================================================================
