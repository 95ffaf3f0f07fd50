------------------------------ MODULE ReductionOps ------------------------------
(***************************************************************************)
(* The predefined reduction operators (src/mpi_ops.cc), on one element:    *)
(* invec is the operand that arrives, inoutvec the one that is updated.    *)
(* Scalars are unsigned integers of Width bits; MAXLOC and MINLOC work on  *)
(* pairs of a value and a location.                                        *)
(***************************************************************************)
EXTENDS Integers, FiniteSets, Functions

CONSTANT Width

ASSUME WidthAssumption == Width \in Nat \ {0}

internal_max_op_fn(invec, inoutvec) == IF invec > inoutvec THEN invec ELSE inoutvec
internal_min_op_fn(invec, inoutvec) == IF invec < inoutvec THEN invec ELSE inoutvec
internal_sum_op_fn(invec, inoutvec) == (inoutvec + invec) % 2^Width

\* Of two equal values the smaller location is kept.
WithSmallerLoc(invec, inoutvec) ==
    [inoutvec EXCEPT !.loc = internal_min_op_fn(invec.loc, inoutvec.loc)]
WithoutTies(invec, inoutvec) ==      \* keeps the location of the first
    IF invec.val > inoutvec.val THEN invec ELSE inoutvec
internal_max_loc_op_fn(invec, inoutvec) ==
    IF invec.val = inoutvec.val THEN WithSmallerLoc(invec, inoutvec)
    ELSE IF invec.val > inoutvec.val THEN invec ELSE inoutvec
internal_min_loc_op_fn(invec, inoutvec) ==
    IF invec.val = inoutvec.val THEN WithSmallerLoc(invec, inoutvec)
    ELSE IF invec.val < inoutvec.val THEN invec ELSE inoutvec

ScalarOps == {"MPI_MAX", "MPI_MIN", "MPI_SUM"}
PairOps == {"MPI_MAXLOC", "MPI_MINLOC"}

\* The table of include/funcType.h.
functions(op, invec, inoutvec) ==
    CASE op = "MPI_SUM" -> internal_sum_op_fn(invec, inoutvec)
      [] op = "MPI_MAX" -> internal_max_op_fn(invec, inoutvec)
      [] op = "MPI_MIN" -> internal_min_op_fn(invec, inoutvec)
      [] op = "MPI_MAXLOC" -> internal_max_loc_op_fn(invec, inoutvec)
      [] op = "MPI_MINLOC" -> internal_min_loc_op_fn(invec, inoutvec)

\* What a reduction of a family of operands is meant to give, whatever the order.
Greatest(S) == CHOOSE x \in S : \A y \in S : y <= x
Least(S) == CHOOSE x \in S : \A y \in S : x <= y
Reduction(op, operands) ==
    LET all == {operands[i] : i \in DOMAIN operands}
        values == {x.val : x \in all}
        WithFirst(v) == [val |-> v, loc |-> Least({x.loc : x \in {y \in all : y.val = v}})]
    IN  CASE op = "MPI_SUM" -> FoldFunction(+, 0, operands) % 2^Width
          [] op = "MPI_MAX" -> Greatest(all)
          [] op = "MPI_MIN" -> Least(all)
          [] op = "MPI_MAXLOC" -> WithFirst(Greatest(values))
          [] op = "MPI_MINLOC" -> WithFirst(Least(values))
================================================================================
