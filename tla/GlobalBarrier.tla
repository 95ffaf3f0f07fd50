----------------------------- MODULE GlobalBarrier -----------------------------
(***************************************************************************)
(* What the daemons promise with "execute global barrier": nobody leaves   *)
(* the barrier before everybody has entered it. The members that wait are  *)
(* in entered until the barrier opens and in released until they leave; a  *)
(* member that left may enter the next round while others still leave.     *)
(***************************************************************************)
CONSTANT Members

VARIABLES entered, released

barrierVars == <<entered, released>>

TypeOK == entered \subseteq Members /\ released \subseteq Members

Init == entered = {} /\ released = {}

Enter(m) ==
    /\ m \notin entered \cup released
    /\ entered' = entered \cup {m}
    /\ UNCHANGED released

Open ==
    /\ entered = Members
    /\ entered' = {}
    /\ released' = Members

Leave(m) ==
    /\ m \in released
    /\ released' = released \ {m}
    /\ UNCHANGED entered

Next == Open \/ \E m \in Members : Enter(m) \/ Leave(m)

Spec == Init /\ [][Next]_barrierVars
================================================================================
