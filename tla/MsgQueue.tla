------------------------------ MODULE MsgQueue ------------------------------
(***************************************************************************)
(* The message queue of Assignment 2 (msg_queue.c, with do_fork and        *)
(* do_exit of entry.c and do_file_exit of file.c).  System calls run with  *)
(* the single CPU to themselves, so one call is one action; what           *)
(* interleaves is the calls of different processes.                        *)
(*                                                                         *)
(* One queue is modelled: the handlers touch nothing but the queue of the  *)
(* descriptor they are given, and fork and exit visit each queue in turn.  *)
(* A page that is freed keeps its contents until it is allocated again,    *)
(* which nothing here does, so a freed queue is still readable.            *)
(***************************************************************************)
EXTENDS Integers, Sequences, FiniteSets, SequencesExt

CONSTANTS MaxPid,      \* last usable process slot, MAX_PROCESSES - 1
          Fds,         \* descriptors that may come to denote the queue
          Bodies,      \* message texts
          MaxMembers,  \* MAX_MEMBERS
          PerMember    \* messages a process may have pending (32)

ASSUME ConstAssumption == /\ MaxPid \in Nat \ {0}
                          /\ Fds \subseteq Nat /\ Fds # {} /\ IsFiniteSet(Fds)
                          /\ MaxMembers \in Nat \ {0}
                          /\ PerMember \in Nat \ {0}

Pids == 1 .. MaxPid
BROADCAST_PID == 0      \* 0xffffffff in the code; 0 names no user process
EINVAL == -1
FirstFd == CHOOSE fd \in Fds : \A g \in Fds : fd <= g

VARIABLES
  alive,     \* process slots that are not UNUSED
  fds,       \* fds[p]: descriptors of p that denote the queue's file object
  st,        \* the queue's pages: "none", "live", "freed", or "wrecked" once
             \* member_count has wrapped below zero
  members,   \* member_pid[0 .. member_count - 1]
  blocked,   \* pairs <<from, to>> with isblocked[from][to]
  buf,       \* msg_buffer[0 .. qsize - 1]
  refs       \* ref_count of the queue's file object; its page is free at 0

vars == <<alive, fds, st, members, blocked, buf, refs>>

Message == [from : Pids, to : Pids, body : Bodies]

TypeOK == /\ alive \subseteq Pids
          /\ fds \in [Pids -> SUBSET Fds]
          /\ st \in {"none", "live", "freed", "wrecked"}
          /\ members \in Seq(Pids)
          /\ blocked \subseteq Pids \X Pids
          /\ buf \in Seq(Message)
          /\ refs \in {0, 1}
-----------------------------------------------------------------------------
\* The entries of s that are in T, in order: the loops over member_pid and
\* over msg_buffer look at every entry and pass over those that do not match.
Select(s, T) ==
  LET kept[n \in 0 .. Len(s)] ==
        IF n = 0 THEN <<>>
        ELSE IF s[n] \in T THEN Append(kept[n - 1], s[n]) ELSE kept[n - 1]
  IN  kept[Len(s)]
-----------------------------------------------------------------------------
(* Mutated forms of the definitions below: the bugs the properties exclude.*)

\* The first entry goes, whoever leaves.
DropMemberFirst(ms, p) == Tail(ms)

\* The last entry goes, whoever leaves (the overwriting assignment is lost).
DropMemberLast(ms, p) == SubSeq(ms, 1, Len(ms) - 1)

\* The pages are freed while one other member is left.
CloseEarly(q, p) ==
  [members |-> Select(q.members, Pids \ {p}),
   st |-> IF Len(q.members) = 2 THEN "freed" ELSE q.st]

\* The newest message is received first.
RcvIndexLast(p) == CHOOSE i \in DOMAIN buf :
                     /\ buf[i].to = p
                     /\ \A j \in DOMAIN buf : buf[j].to = p => j <= i

\* A broadcast does not ask who has blocked the sender.
AddresseesUnblocked(p, to) ==
  IF to = BROADCAST_PID THEN Select(members, Pids \ {p})
  ELSE IF <<p, to>> \in blocked THEN <<>>
  ELSE Select(members, {to})

\* A broadcast reaches its sender, too.
AddresseesWithSelf(p, to) ==
  IF to = BROADCAST_PID THEN Select(members, {q \in Pids : <<p, q>> \notin blocked})
  ELSE IF <<p, to>> \in blocked THEN <<>>
  ELSE Select(members, {to})

\* do_file_close without the check of line 152.
DropRefsUnchecked(r, n) == r - n
-----------------------------------------------------------------------------
(* Reading the queue.                                                      *)

HasQueue(p) == p \in alive /\ fds[p] # {}
Holders == {p \in alive : fds[p] # {}}
Members == {members[i] : i \in DOMAIN members}

\* do_get_msg_count: how many messages wait for p.
For(p) == [from : Pids, to : {p}, body : Bodies]
Pending(p) == Select(buf, For(p))
MsgCount(p) == Len(Pending(p))

\* Whom a message is appended for, in member order.  A blocked unicast ends
\* at the first match with -EINVAL; a broadcast skips its sender and those
\* that block it.
Addressees(p, to) ==
  IF to = BROADCAST_PID
  THEN Select(members, {q \in Pids \ {p} : <<p, q>> \notin blocked})
  ELSE IF <<p, to>> \in blocked THEN <<>>
  ELSE Select(members, {to})

\* The value msg_queue_send returns.
SendResult(p, to) ==
  IF to \in Members /\ <<p, to>> \in blocked THEN EINVAL
  ELSE Len(Addressees(p, to))

\* The first message for p, the one a receive takes.
RcvIndex(p) == CHOOSE i \in DOMAIN buf :
                 /\ buf[i].to = p
                 /\ \A j \in DOMAIN buf : buf[j].to = p => i <= j
-----------------------------------------------------------------------------
(* Leaving the queue.                                                      *)

\* The first entry of p is overwritten by the last entry and the count goes
\* down by one.  When p has no entry, it is the last entry that is lost.
DropMember(ms, p) ==
  [k \in 1 .. Len(ms) - 1 |->
     IF ms[k] = p /\ \A j \in 1 .. k - 1 : ms[j] # p THEN ms[Len(ms)]
                                                     ELSE ms[k]]

\* One call of do_msg_queue_close; both pages are freed when the count was 1.
Close(q, p) ==
  IF q.members = <<>> THEN [q EXCEPT !.st = "wrecked"]
  ELSE [members |-> DropMember(q.members, p),
        st |-> IF Len(q.members) = 1 THEN "freed" ELSE q.st]

\* n calls, n > 0: do_msg_queue_cleanup calls it for every descriptor.
CloseAll(q, p, n) ==
  LET after[k \in 1 .. n] == IF k = 1 THEN Close(q, p)
                             ELSE Close(after[k - 1], p)
  IN  after[n]

Queue == [members |-> members, st |-> st]

\* n calls of do_file_close on a file object with r references.
DropRefs(r, n) == IF r < n THEN 0 ELSE r - n
-----------------------------------------------------------------------------
(* The system calls.                                                       *)

Init == /\ alive = {1}
        /\ fds = [p \in Pids |-> {}]
        /\ st = "none"
        /\ members = <<>>
        /\ blocked = {}
        /\ buf = <<>>
        /\ refs = 1

\* do_create_msg_queue; the queue's file takes the lowest free descriptor.
CreateMsgQueue(p) ==
  /\ p \in alive
  /\ st = "none"
  /\ fds' = [fds EXCEPT ![p] = {FirstFd}]
  /\ st' = "live"
  /\ members' = <<p>>
  /\ UNCHANGED <<alive, blocked, buf, refs>>

\* do_fork: the lowest free slot, a copy of the descriptors, and one member
\* entry for each of them that denotes the queue.  The reference count stays.
\* Programs do not fork past MAX_MEMBERS entries.
Fork(p, c) ==
  /\ p \in alive
  /\ c \notin alive /\ \A q \in Pids : q < c => q \in alive
  /\ Len(members) + Cardinality(fds[p]) <= MaxMembers
  /\ st = "wrecked" => fds[p] = {}
  /\ alive' = alive \cup {c}
  /\ fds' = [fds EXCEPT ![c] = fds[p]]
  /\ members' = members \o [i \in 1 .. Cardinality(fds[p]) |-> c]
  /\ UNCHANGED <<st, blocked, buf, refs>>

\* do_msg_queue_send, from a process that fills in its own pid.  A call that
\* reaches nobody changes nothing.
Send(p, to, b) ==
  LET R == Addressees(p, to)
  IN  /\ HasQueue(p)
      /\ R # <<>>
      /\ \A i \in DOMAIN R : MsgCount(R[i]) < PerMember
      /\ buf' = buf \o [i \in 1 .. Len(R) |->
                          [from |-> p, to |-> R[i], body |-> b]]
      /\ UNCHANGED <<alive, fds, st, members, blocked, refs>>

\* do_msg_queue_rcv: take the first message for p and close the gap.
Rcv(p) ==
  /\ HasQueue(p)
  /\ \E i \in DOMAIN buf : buf[i].to = p
  /\ buf' = RemoveAt(buf, RcvIndex(p))
  /\ UNCHANGED <<alive, fds, st, members, blocked, refs>>

\* do_msg_queue_block: q must be a member.
Block(p, q) ==
  /\ HasQueue(p)
  /\ q \in Members
  /\ blocked' = blocked \cup {<<q, p>>}
  /\ UNCHANGED <<alive, fds, st, members, buf, refs>>

\* do_exit: leave through every descriptor of the queue, then drop as many
\* references to the file object (a count of 0 is left alone).
Exit(p) ==
  /\ p \in alive
  /\ alive' = alive \ {p}
  /\ fds' = [fds EXCEPT ![p] = {}]
  /\ refs' = DropRefs(refs, Cardinality(fds[p]))
  /\ IF fds[p] = {} THEN UNCHANGED <<st, members>>
     ELSE LET q == CloseAll(Queue, p, Cardinality(fds[p]))
          IN  st' = q.st /\ members' = q.members
  /\ UNCHANGED <<blocked, buf>>

\* msg_queue_close: the descriptor stays in the table.
MsgQueueClose(p) ==
  LET q == Close(Queue, p)
  IN  /\ HasQueue(p)
      /\ st' = q.st /\ members' = q.members
      /\ UNCHANGED <<alive, fds, blocked, buf, refs>>

\* dup2 onto newfd of the queue (toQueue) or of some other file.  The file
\* newfd denoted loses a reference; the one it comes to denote gains none.
Dup2(p, newfd, toQueue) ==
  /\ HasQueue(p)
  /\ toQueue => fds[p] # {newfd}
  /\ fds' = [fds EXCEPT ![p] = IF toQueue THEN @ \cup {newfd} ELSE @ \ {newfd}]
  /\ refs' = DropRefs(refs, IF newfd \in fds[p] THEN 1 ELSE 0)
  /\ UNCHANGED <<alive, st, members, blocked, buf>>

\* Programs that leave a queue by exiting and do not duplicate descriptors.
PlainNext ==
  \E p \in Pids :
    \/ CreateMsgQueue(p) \/ Rcv(p) \/ Exit(p)
    \/ \E q \in Pids : Fork(p, q) \/ Block(p, q)
    \/ \E to \in Pids \cup {BROADCAST_PID}, b \in Bodies : Send(p, to, b)

\* Every program.
Next == \/ PlainNext
        \/ \E p \in Pids :
             \/ MsgQueueClose(p)
             \/ \E fd \in Fds, toQueue \in BOOLEAN : Dup2(p, fd, toQueue)

PlainSpec == Init /\ [][PlainNext]_vars
Spec == Init /\ [][Next]_vars
-----------------------------------------------------------------------------
(* Properties of plain programs.                                           *)

\* Nobody is listed twice, so no broadcast is delivered twice.
NoDuplicates == \A i, j \in DOMAIN members : members[i] = members[j] => i = j

\* The members are exactly the live processes with a descriptor of the queue:
\* fork adds every child, exit removes the exiting process and no other.
MembersAreHolders == Members = Holders

\* The queue's pages are freed by the last process that could use them.
NoUseAfterFree == st \in {"freed", "wrecked"} => Holders = {}
-----------------------------------------------------------------------------
(* Properties of all programs.                                             *)

Between(f, t) == Cardinality({i \in DOMAIN buf : buf[i].from = f /\ buf[i].to = t})

\* Once a receiver has blocked a sender, no call of anyone ever adds a
\* message of that sender for it (do_msg_queue_block, both send paths).
BlockIsFinal == [][\A pair \in blocked :
                     Between(pair[1], pair[2])' <= Between(pair[1], pair[2])]_vars

\* The mailboxes, blocks and members an abstract queue would have.
M == INSTANCE Mailboxes WITH
       group <- Members,
       mail <- [p \in Pids |-> Pending(p)],
       shunned <- blocked

\* Plain programs get what the queue promises: every call is one operation of
\* the abstract mailboxes or changes nothing they show.
ImplementsMailboxes == M!MSpec
-----------------------------------------------------------------------------
(* What a comment says of every program, and the code does not do.         *)

\* "remove the calling process from the message queue" (msg_queue.c:257): a
\* process leaves the queue only in a call of its own that removes it.  A
\* process that has closed the queue is no member; when it exits, the others
\* stay.
OnlyCallerLeaves ==
  [][st = "live" => \A p \in Pids : Exit(p) \/ MsgQueueClose(p) =>
                      Members \ {p} \subseteq Members']_vars
=============================================================================
