------------------------------ MODULE MCRecovery ------------------------------
(* Layouts of small jobs. *)
EXTENDS Recovery, TLC

CONSTANTS r1, r2, r3, n1, n2, n3

\* Two ranks share node n1 (where r3 exists it has node n2 for itself).
SharedNode == [r \in Ranks |-> IF r \in {r1, r2} THEN n1 ELSE n2]

\* One rank per node.
OneRankPerNode == [r \in Ranks |-> CASE r = r1 -> n1 [] r = r2 -> n2 [] OTHER -> n3]

\* The ranks of OneRankPerNode can be exchanged together with their nodes.
WithNodes(p) ==
    [x \in Ranks \cup Nodes |->
        IF x \in Ranks THEN p[x] ELSE NodeOf[p[CHOOSE r \in Ranks : NodeOf[r] = x]]]
Interchangeable == {WithNodes(p) : p \in Permutations(Ranks)}
===============================================================================
