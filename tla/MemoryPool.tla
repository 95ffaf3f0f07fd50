------------------------------- MODULE MemoryPool -------------------------------
(***************************************************************************)
(* The memory pool of third-party/pool.h: arenas of ArenaSize items, and a *)
(* free list that is used as a stack. Items are numbered in the order in   *)
(* which their arenas were allocated.                                      *)
(***************************************************************************)
EXTENDS Naturals, Sequences

CONSTANT ArenaSize

ASSUME ArenaAssumption == ArenaSize \in Nat \ {0}

Arena(first) == [i \in 1..ArenaSize |-> first + i]

NewPool == [free_list |-> Arena(0), size |-> ArenaSize]

\* The pool that allocate finds: with another arena when nothing is free.
Grown(pool) ==
    IF pool.free_list = <<>>
    THEN [free_list |-> Arena(pool.size), size |-> pool.size + ArenaSize]
    ELSE pool
Allocated(pool) == Head(Grown(pool).free_list)
StaysFree(pool) == Grown(pool)      \* the item is not taken from the list
allocate(pool) == [Grown(pool) EXCEPT !.free_list = Tail(@)]

deallocate(pool, item) == [pool EXCEPT !.free_list = <<item>> \o @]
================================================================================
