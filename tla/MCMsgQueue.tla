----------------------------- MODULE MCMsgQueue -----------------------------
(***************************************************************************)
(* MsgQueue for TLC: the descriptors, and bounds on the blocked pairs and  *)
(* on the messages in the buffer.                                          *)
(***************************************************************************)
EXTENDS MsgQueue, TLC

CONSTANTS MaxBlocked,    \* blocked pairs considered
          MaxLetters     \* messages in the buffer considered

MCFds == {3, 4}
MCOneFd == {3}

Small == Cardinality(blocked) <= MaxBlocked /\ Len(buf) <= MaxLetters
=============================================================================
