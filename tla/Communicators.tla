----------------------------- MODULE Communicators -----------------------------
(***************************************************************************)
(* The communicators and groups of every rank (src/communicator.cc,        *)
(* src/context.cc, src/group.cc, MPI_Comm_dup and the queries of           *)
(* src/interfaces/interface.cc). A handle is an index into                 *)
(* Universe::communicators, from 0. The group of the world is the only one *)
(* that is ever made.                                                      *)
(***************************************************************************)
EXTENDS Universe, Sequences

VARIABLES
    groups,             \* of each rank
    communicators,      \* of each rank, in the order of their registration
    nextID,             \* Context::nextID of each process
    handles             \* of each rank: the handles its application holds

commVars == <<groups, communicators, nextID, handles>>

MPI_COMM_WORLD == 0
WorldGroup == [group_id |-> 0, process_list |-> [i \in 1..world_size |-> i - 1]]
WorldComm(r) == [rank |-> r, pt2pt |-> 0, coll |-> 1, local |-> 0]

CommInit ==
    /\ groups = [r \in Ranks |-> <<WorldGroup>>]
    /\ communicators = [r \in Ranks |-> <<WorldComm(r)>>]
    /\ nextID = [r \in Ranks |-> 1]
    /\ handles = [r \in Ranks |-> <<MPI_COMM_WORLD>>]

Communicator(r, handle) == communicators[r][handle + 1]
get_context_id_pt2pt(r, handle) == Communicator(r, handle).pt2pt
MPI_Comm_rank(r, handle) == Communicator(r, handle).rank
MPI_Comm_size(r, handle) ==
    LET group == CHOOSE i \in DOMAIN groups[r] :
                     groups[r][i].group_id = Communicator(r, handle).local
    IN  Len(groups[r][group].process_list)

\* get_next_context on rank 0; the others receive the two from it.
NextContext(r) == [pt2pt |-> nextID[r] + 1, coll |-> nextID[r] + 2]
NotCounted(r) == UNCHANGED nextID     \* does not move the counter
get_next_context(r) == nextID' = [nextID EXCEPT ![r] = @ + 2]

\* The handle of the first communicator with a context.
Known(comms, pt2pt) == \E i \in DOMAIN comms : comms[i].pt2pt = pt2pt
EndOf(comms, pt2pt) == Len(comms)     \* one too far
HandleOf(comms, pt2pt) ==
    (CHOOSE i \in DOMAIN comms :
        /\ comms[i].pt2pt = pt2pt
        /\ \A j \in 1..(i - 1) : comms[j].pt2pt # pt2pt) - 1

\* The end of MPI_Comm_dup: the new communicator is registered, and its handle found.
Duplicate(r, handle, contexts) ==
    [Communicator(r, handle) EXCEPT !.pt2pt = contexts.pt2pt, !.coll = contexts.coll]
register(r, handle, contexts) ==
    LET comms == Append(communicators[r], Duplicate(r, handle, contexts))
    IN  /\ communicators' = [communicators EXCEPT ![r] = comms]
        /\ handles' = [handles EXCEPT ![r] = Append(@, HandleOf(comms, contexts.pt2pt))]
        /\ UNCHANGED <<groups, nextID>>
================================================================================
