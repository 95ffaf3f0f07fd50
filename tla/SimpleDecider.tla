----------------------------- MODULE SimpleDecider -----------------------------
(***************************************************************************)
(* The protocols of a message (include/protocol.h) and the choice between  *)
(* them (src/deciders/simpledecider.cc).                                   *)
(***************************************************************************)
EXTENDS Naturals

\* ACK answers EAGER_ACK and is never a sender's choice.
Protocols == {"EAGER", "EAGER_ACK", "ACK"}

SendOperations == {"Send", "Bsend", "Rsend", "Ssend"}

\* A synchronous send asks for an answer.
decide(operation) == IF operation = "Ssend" THEN "EAGER_ACK" ELSE "EAGER"
================================================================================
