------------------------------ MODULE MCCollectives ------------------------------
(* Programs of a small application. *)
EXTENDS Collectives

\* Operands: all different, so that a sum shows which ones are in it; or with equal
\* values, so that locations matter.
Operands(n, op) ==
    [r \in 0..(n - 1) |->
        IF op \in PairOps THEN [val |-> IF r = 1 THEN 1 ELSE 2, loc |-> r] ELSE 2^r]

Plain(n, name) == [name |-> name, comm |-> 1, operands |-> Operands(n, "MPI_SUM")]
Barrier(n) == Plain(n, "MPI_Barrier")
Dup(n) == Plain(n, "MPI_Comm_dup")
Bcast(n, root) == [root |-> root] @@ Plain(n, "MPI_Bcast")
Shift(n) == Plain(n, "MPI_Sendrecv")
Message_(n, from, to, mode) == [from |-> from, to |-> to, mode |-> mode] @@ Plain(n, "Message")
Reduce(n, root, op) ==
    [name |-> "MPI_Reduce", comm |-> 1, root |-> root, op |-> op, operands |-> Operands(n, op)]
Allreduce(n, op) ==
    [name |-> "MPI_Allreduce", comm |-> 1, op |-> op, operands |-> Operands(n, op)]
On(comm, call) == [call EXCEPT !.comm = comm]

Reductions(n) ==
    {Reduce(n, root, "MPI_SUM") : root \in 0..(n - 1)} \cup {Allreduce(n, "MPI_MAXLOC")}
Collective(n) ==
    Reductions(n) \cup {Barrier(n), Shift(n)} \cup {Bcast(n, root) : root \in 0..(n - 1)}
EveryOp(n) == {Reduce(n, 1, op) : op \in ScalarOps \cup PairOps}

\* One message in every mode. The answer to a synchronous one stays with its receiver,
\* under the name of the sender; the receiver receives from another rank afterwards.
EveryMode(n) ==
    {<<Message_(n, 0, 1, mode), Bcast(n, n - 1)>> : mode \in SendOperations}

\* A checkpoint, and calls to which the application returns when a rank fails.
Checkpoint_(n) == <<Plain(n, "MPIX_Checkpoint_write"), Plain(n, "MPIX_Serialize_handles")>>
DupAgain(n) == <<Dup(n)>> \o Checkpoint_(n) \o <<Dup(n)>>
UseOfDup(n) == Checkpoint_(n) \o <<Dup(n), On(2, Bcast(n, 1))>>

\* Two ranks: communicators around a checkpoint. Three: every pair of collectives, and
\* programs that a failure interrupts. Five, with an incomplete tree: each reduction.
Interrupted(n) ==
    CASE n = 2 -> {DupAgain(n), UseOfDup(n), Checkpoint_(n) \o DupAgain(n),
                   Checkpoint_(n) \o <<Barrier(n)>>,
                   <<Bcast(n, 1)>> \o Checkpoint_(n) \o <<Bcast(n, 1)>>,
                   <<Bcast(n, 0), Bcast(n, 1), Shift(n)>>}
      [] n = 3 -> {<<Bcast(n, 0)>>, Checkpoint_(n) \o <<Reduce(n, 1, "MPI_SUM")>>}
      [] OTHER -> {}
Applications(n) ==
    Interrupted(n) \cup
    CASE n = 2 -> {}
      [] n = 3 -> {<<c, d>> : c, d \in Collective(n)} \cup {<<c>> : c \in EveryOp(n)}
                      \cup EveryMode(n)
      [] n = 5 -> {<<c>> : c \in Reductions(n) \cup {Barrier(n)}}
OnlyDup(n) == {DupAgain(n)}

RankOne(program) == IF \E n \in Sizes : program \in Interrupted(n) THEN {1} ELSE {}
Zero(program) == {0}

\* What CallProofs shows of the other calls for any number of ranks, here of the trees of
\* reductions, complete and incomplete ones: each rank receives from each as many messages
\* as that one sends to it, whatever the root.
ASSUME ReductionsFit ==
    \A n \in 1..9 :
        /\ \A root \in 0..(n - 1) : Fits(n, Reduce(n, root, "MPI_SUM"))
        /\ Fits(n, Allreduce(n, "MPI_SUM"))
================================================================================
