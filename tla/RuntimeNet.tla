------------------------------ MODULE RuntimeNet ------------------------------
(***************************************************************************)
(* What the processes of an MPI-Stages job share: the layout of the job    *)
(* (which node hosts which rank), the TCP connections between the daemons  *)
(* and the operating system's view of the application processes.           *)
(*                                                                         *)
(* Every connection carries 64 byte packets and is a FIFO sequence here:   *)
(*   rank_out, rank_in   application process  ->, <-  its node's head      *)
(*   fd_out,   fd_in     fault daemon         ->, <-  its node's head      *)
(*   head_out, head_in   head daemon          ->, <-  the controller       *)
(* A packet's words are the fields of a record.                            *)
(***************************************************************************)
EXTENDS Integers, Sequences, FiniteSets

CONSTANTS
    Ranks,      \* the ranks of MPI_COMM_WORLD
    Nodes,      \* the nodes, one head daemon each
    NodeOf      \* NodeOf[r]: the node that hosts rank r

ASSUME LayoutAssumption ==
    /\ IsFiniteSet(Ranks)
    /\ IsFiniteSet(Nodes)
    /\ NodeOf \in [Ranks -> Nodes]
    /\ \A n \in Nodes : \E r \in Ranks : NodeOf[r] = n

\* HeadDaemon.local_ranks, local_rank_count and EXAMPI_NODE_COUNT.
LocalRanks(n) == {r \in Ranks : NodeOf[r] = n}
local_rank_count(n) == Cardinality(LocalRanks(n))
NodeCount == Cardinality(Nodes)

(***************************************************************************)
(* Exit statuses of an application process: MPI_SUCCESS (0),               *)
(* MPIX_TRY_RELOAD (101), and everything else (an uncaught exception, the  *)
(* default action of a signal, MPI_ABORT), which the controller treats     *)
(* alike.                                                                  *)
(***************************************************************************)
Success == "MPI_SUCCESS"
TryReload == "MPIX_TRY_RELOAD"
OtherExit == "other"
ErrorCodes == {Success, TryReload, OtherExit}

\* The None of the python daemons, and the content of an empty epoch file.
None == -1

(***************************************************************************)
(* The packets of each connection.                                         *)
(***************************************************************************)
FromRank == [type : {"barrier"}, pid : Nat] \cup [type : {"cleanup"}, epoch : Nat]
ToRank == [type : {"release"}] \cup [type : {"commit"}, epoch : Nat]
FromFaultDaemon == [type : {"termination"}, code : ErrorCodes, epoch : Nat]
                     \cup [type : {"shutdown_ack"}]
ToFaultDaemon == [type : {"restart"}, epoch : Nat] \cup [type : {"shutdown"}]
FromHead == [type : {"process_exit"}, code : ErrorCodes, epoch : Nat]
              \cup [type : {"node_epoch"}, epoch : Nat]
              \cup [type : {"node_barrier", "node_success", "node_shutdown"}]
ToHead == [type : {"error", "commit"}, epoch : Nat]
            \cup [type : {"release", "shutdown"}]

VARIABLES
    rank_out, rank_in, fd_out, fd_in, head_out, head_in,
    \* the operating system's process table
    pid,        \* pid[r]: the current process of rank r (a launch takes the next)
    proc,       \* "alive", "zombie" (exited, not waited for) or "reaped"
    exit_code,  \* what the last process of r returned
    pending     \* SIGUSR2 was sent to the process and is not yet delivered

rankNet == <<rank_out, rank_in>>
fdNet == <<fd_out, fd_in>>
headNet == <<head_out, head_in>>
osVars == <<pid, proc, exit_code, pending>>

\* Connections.
Push(chan, i, packet) == [chan EXCEPT ![i] = Append(@, packet)]
PushAll(chan, S, packet) ==
    [i \in DOMAIN chan |-> IF i \in S THEN Append(chan[i], packet) ELSE chan[i]]
Pop(chan, i) == [chan EXCEPT ![i] = Tail(@)]
Receives(chan, i, type) == chan[i] # <<>> /\ Head(chan[i]).type = type
Carries(chan, i, type) == \E k \in 1..Len(chan[i]) : chan[i][k].type = type

\* The process of rank r terminates.
Exit(r, code) ==
    /\ proc' = [proc EXCEPT ![r] = "zombie"]
    /\ exit_code' = [exit_code EXCEPT ![r] = code]
    /\ pending' = [pending EXCEPT ![r] = FALSE]
    /\ UNCHANGED pid

NetTypeOK ==
    /\ rank_out \in [Ranks -> Seq(FromRank)]
    /\ rank_in \in [Ranks -> Seq(ToRank)]
    /\ fd_out \in [Ranks -> Seq(FromFaultDaemon)]
    /\ fd_in \in [Ranks -> Seq(ToFaultDaemon)]
    /\ head_out \in [Nodes -> Seq(FromHead)]
    /\ head_in \in [Nodes -> Seq(ToHead)]
    /\ pid \in [Ranks -> Nat]
    /\ proc \in [Ranks -> {"alive", "zombie", "reaped"}]
    /\ exit_code \in [Ranks -> ErrorCodes]
    /\ pending \in [Ranks -> BOOLEAN]

NetInit ==
    /\ rank_out = [r \in Ranks |-> <<>>]
    /\ rank_in = [r \in Ranks |-> <<>>]
    /\ fd_out = [r \in Ranks |-> <<>>]
    /\ fd_in = [r \in Ranks |-> <<>>]
    /\ head_out = [n \in Nodes |-> <<>>]
    /\ head_in = [n \in Nodes |-> <<>>]
    /\ pid = [r \in Ranks |-> 1]
    /\ proc = [r \in Ranks |-> "alive"]
    /\ exit_code = [r \in Ranks |-> Success]
    /\ pending = [r \in Ranks |-> FALSE]
===============================================================================
