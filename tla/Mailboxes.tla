----------------------------- MODULE Mailboxes -----------------------------
(***************************************************************************)
(* What a gemOS message queue promises its members (Assignment 2, part 2): *)
(* a group of processes, one first-in first-out mailbox per process, and   *)
(* a set of pairs <<sender, receiver>> whose messages are refused.  A      *)
(* process enters the group by creating the queue or as the child of a     *)
(* member; it is the only one that can take it out of the group again.     *)
(***************************************************************************)
EXTENDS Integers, Sequences

CONSTANTS Pids,      \* process identifiers
          Bodies     \* message texts

VARIABLES group,     \* the members of the queue
          mail,      \* mail[p]: the messages waiting for p, oldest first
          shunned    \* pairs <<sender, receiver>> the receiver has blocked

mvars == <<group, mail, shunned>>

Letter(from, to, b) == [from |-> from, to |-> to, body |-> b]

MInit == /\ group = {}
         /\ mail = [p \in Pids |-> <<>>]
         /\ shunned = {}

Found(p) == /\ group = {}
            /\ group' = {p}
            /\ UNCHANGED <<mail, shunned>>

Join(p, c) == /\ p \in group
              /\ c \notin group
              /\ group' = group \cup {c}
              /\ UNCHANGED <<mail, shunned>>

Leave(p) == /\ p \in group
            /\ group' = group \ {p}
            /\ UNCHANGED <<mail, shunned>>

\* Post the same text to every process of R at once.
Deliver(p, R, b) ==
  /\ R # {}
  /\ p \in group /\ R \subseteq group
  /\ \A r \in R : <<p, r>> \notin shunned
  /\ mail' = [r \in Pids |-> IF r \in R THEN Append(mail[r], Letter(p, r, b))
                                        ELSE mail[r]]
  /\ UNCHANGED <<group, shunned>>

\* To one member (possibly oneself), or to every other member that listens.
Post(p, b) ==
  \/ \E r \in group : Deliver(p, {r}, b)
  \/ Deliver(p, {r \in group \ {p} : <<p, r>> \notin shunned}, b)

Take(p) == /\ p \in group
           /\ mail[p] # <<>>
           /\ mail' = [mail EXCEPT ![p] = Tail(@)]
           /\ UNCHANGED <<group, shunned>>

Shun(p, q) == /\ p \in group /\ q \in group
              /\ shunned' = shunned \cup {<<q, p>>}
              /\ UNCHANGED <<group, mail>>

MNext == \E p \in Pids :
           \/ Found(p) \/ Leave(p) \/ Take(p)
           \/ \E q \in Pids : Join(p, q) \/ Shun(p, q)
           \/ \E b \in Bodies : Post(p, b)

MSpec == MInit /\ [][MNext]_mvars
=============================================================================
