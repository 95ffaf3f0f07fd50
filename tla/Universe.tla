--------------------------------- MODULE Universe ---------------------------------
(***************************************************************************)
(* The size of a job (src/universe.cc): every process reads it from its    *)
(* environment, so that all agree and it never changes.                    *)
(***************************************************************************)
EXTENDS Integers

CONSTANT Sizes          \* the sizes a job may have

ASSUME SizesAssumption == Sizes \subseteq Nat \ {0} /\ Sizes # {}

VARIABLE world_size     \* EXAMPI_WORLD_SIZE

UniverseInit == world_size \in Sizes

Ranks == 0..(world_size - 1)
AnyRank == UNION {0..(n - 1) : n \in Sizes}
================================================================================
