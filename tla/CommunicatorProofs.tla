------------------------------ MODULE CommunicatorProofs ------------------------------
(***************************************************************************)
(* Theorems about communicators and the state around them, on every number *)
(* of ranks and through failures: handles, checkpoint files and messages   *)
(* stay in their types, and the communicators that MPI_Comm_dup returns    *)
(* have contexts of their own, the same on all ranks.                      *)
(***************************************************************************)
EXTENDS DataProofs

(***************************************************************************)
(* Types, of every program of calls on the world, synchronous messages     *)
(* included, and also after a recovery that was disturbed.                 *)
(***************************************************************************)
AnyStep(n) ==
    [operation : SendOperations \cup Receives, peer : 0..(n - 1), comm : {MPI_COMM_WORLD},
     variable : Names]
AddressedCalls ==
    \A k \in DOMAIN calls :
        calls[k].comm = 1 /\ \A r \in Ranks : Plan(r, k) \in Seq(AnyStep(world_size))

Sorts ==
    /\ world_size \in Sizes /\ calls \in Programs(world_size)
    /\ count \in [Ranks -> Nat] /\ epoch \in [Ranks -> Nat]
    /\ busy \in [Ranks -> BOOLEAN] /\ is_errSet \in [Ranks -> BOOLEAN]
    /\ plan \in [Ranks -> Seq(AnyStep(world_size))] /\ DOMAIN memory = Ranks
    /\ DOMAIN groups = Ranks /\ DOMAIN communicators = Ranks
    /\ DOMAIN handles = Ranks /\ DOMAIN files = Ranks
    /\ failed \in Ranks \cup {NoRank} /\ restarts \in 0..MaxRestarts /\ disturbed \in BOOLEAN

\* The handles that an application may have: those of a file or of its contexts, which
\* begin with the world's, or none after a recovery that lost them.
Starts(h) == Sequence(h) /\ (h # <<>> => h[1] = MPI_COMM_WORLD)
SomeFile(r, k, file) ==
    /\ DOMAIN file = {"groups", "communicators", "cache", "count", "handles", "contexts"}
    /\ file.groups = <<WorldGroup>> /\ WorldFirst(file.communicators, r) /\ Starts(file.handles)
    /\ Sequence(file.contexts) /\ (file.contexts # <<>> => file.contexts[1] = 0)
    /\ file.count \in DOMAIN calls /\ IsWrite(calls[file.count])
    /\ k \in Nat /\ EpochOf(calls, file.count) = k + 1
FileTypes(r) ==
    /\ 0..(epoch[r] - 1) \subseteq DOMAIN files[r]
    /\ \A k \in DOMAIN files[r] : SomeFile(r, k, files[r][k])
CommTypes(r) ==
    groups[r] = <<WorldGroup>> /\ WorldFirst(communicators[r], r) /\ Starts(handles[r])
CountTypes(r) ==
    /\ count[r] <= Len(calls) /\ epoch[r] <= EpochOf(calls, count[r])
    /\ busy[r] => count[r] < Len(calls) /\ DOMAIN memory[r] = Names /\ handles[r] # <<>>
    /\ ~busy[r] => plan[r] = <<>>
    /\ busy[r] \/ ~is_errSet[r] => epoch[r] = EpochOf(calls, count[r])
RankTypes(r) == CountTypes(r) /\ CommTypes(r) /\ FileTypes(r)
StateTypes == Sorts /\ FaultInv /\ \A r \in Ranks : RankTypes(r)

\* What the invariant says of a program.
LEMMA AddressFacts ==
    ASSUME AddressedCalls, Sorts
    PROVE  /\ world_size \in Nat /\ world_size > 0 /\ Ranks = 0..(world_size - 1)
           /\ NoRank \notin Ranks
           /\ Len(calls) \in Nat /\ DOMAIN calls = 1..Len(calls)
           /\ \A j \in DOMAIN calls :
                 calls[j].comm = 1 /\ \A r \in Ranks : Plan(r, j) \in Seq(AnyStep(world_size))
<1>1. world_size \in Sizes /\ world_size \in Nat /\ world_size > 0
  BY SizesAssumption DEF Sorts
<1>2. Len(calls) \in Nat /\ DOMAIN calls = 1..Len(calls)
  BY <1>1, CollectivesAssumption DEF Sorts
<1>3. \A j \in DOMAIN calls :
         calls[j].comm = 1 /\ \A r \in Ranks : Plan(r, j) \in Seq(AnyStep(world_size))
  BY DEF AddressedCalls
<1> QED
  BY <1>1, <1>2, <1>3 DEF Ranks, NoRank

\* A rank as it was.
LEMMA FileTypesKept ==
    ASSUME Rigid, NEW r, FileTypes(r), epoch'[r] = epoch[r], files'[r] = files[r]
    PROVE  FileTypes(r)'
BY DEF Rigid, FileTypes, SomeFile, WorldGroup, WorldFirst, Starts, Sequence, IsWrite,
       EpochOf, MPI_COMM_WORLD

LEMMA CommTypesKept ==
    ASSUME Rigid, NEW r, CommTypes(r), groups'[r] = groups[r],
           communicators'[r] = communicators[r], handles'[r] = handles[r]
    PROVE  CommTypes(r)'
BY DEF Rigid, CommTypes, WorldGroup, WorldFirst, Starts, Sequence, MPI_COMM_WORLD

LEMMA RankTypesKept ==
    ASSUME Rigid, NEW r, RankTypes(r), RankSame(r), DOMAIN memory'[r] = DOMAIN memory[r]
    PROVE  RankTypes(r)'
<1>1. FileTypes(r)' /\ CommTypes(r)'
  BY FileTypesKept, CommTypesKept DEF RankTypes, RankSame
<1>2. CountTypes(r)'
  BY DEF Rigid, RankTypes, CountTypes, RankSame, CountsSame, EpochOf, IsWrite, Names
<1> QED
  BY <1>1, <1>2 DEF RankTypes

LEMMA TypesTogether ==
    ASSUME StateTypes, Sorts', FaultInv', Rigid, NEW r, RankTypes(r)',
           \A q \in Ranks \ {r} : RankSame(q) /\ DOMAIN memory'[q] = DOMAIN memory[q]
    PROVE  StateTypes'
<1>1. Ranks' = Ranks
  BY RigidFacts
<1>2. ASSUME NEW q \in Ranks, q # r PROVE RankTypes(q)'
  <2>1. RankTypes(q) /\ RankSame(q) /\ DOMAIN memory'[q] = DOMAIN memory[q]
    BY <1>2 DEF StateTypes
  <2> QED
    BY <2>1, RankTypesKept
<1> QED
  BY <1>1, <1>2 DEF StateTypes

LEMMA TypeStart == Init => StateTypes
<1> SUFFICES ASSUME Init PROVE StateTypes
  OBVIOUS
<1>1. /\ world_size \in Sizes /\ calls \in Programs(world_size)
      /\ count = [r \in Ranks |-> 0] /\ busy = [r \in Ranks |-> FALSE]
      /\ plan = [r \in Ranks |-> <<>>] /\ memory = [r \in Ranks |-> NoVariables]
      /\ epoch = [r \in Ranks |-> 0] /\ is_errSet = [r \in Ranks |-> FALSE]
      /\ failed = NoRank /\ restarts = 0 /\ disturbed = FALSE
      /\ groups = [r \in Ranks |-> <<WorldGroup>>]
      /\ communicators = [r \in Ranks |-> <<WorldComm(r)>>]
      /\ handles = [r \in Ranks |-> <<MPI_COMM_WORLD>>]
      /\ files = [r \in Ranks |-> [k \in {} |-> 0]]
  BY DEF Init, UniverseInit, CommInit, CheckpointInit
<1>2. Len(calls) \in Nat /\ 0 \in 0..MaxRestarts
  BY <1>1, CollectivesAssumption
<1>3. Sorts
  <2>1. <<>> \in Seq(AnyStep(world_size))
    OBVIOUS
  <2> QED
    BY <1>1, <1>2, <2>1 DEF Sorts
<1>4. FaultInv
  BY <1>1 DEF FaultInv
<1>5. ASSUME NEW r \in Ranks PROVE RankTypes(r)
  <2>1. <<MPI_COMM_WORLD>> \in Seq({MPI_COMM_WORLD}) /\ <<WorldComm(r)>> \in Seq({WorldComm(r)})
    OBVIOUS
  <2>2. Starts(<<MPI_COMM_WORLD>>) /\ WorldFirst(<<WorldComm(r)>>, r)
    BY <2>1 DEF Starts, WorldFirst, Sequence, WorldComm
  <2>3. CommTypes(r)
    BY <1>1, <2>2 DEF CommTypes
  <2>4. CountTypes(r)
    BY <1>1, <1>2, EpochZero DEF CountTypes
  <2>5. epoch[r] = 0 /\ DOMAIN files[r] = {}
    BY <1>1
  <2>6. FileTypes(r)
    BY <2>5 DEF FileTypes
  <2> QED
    BY <2>3, <2>4, <2>6 DEF RankTypes
<1> QED
  BY <1>3, <1>4, <1>5 DEF StateTypes

LEMMA AddressedPlan ==
    ASSUME AddressedCalls, Sorts, NEW r \in Ranks, CommTypes(r), NEW j \in DOMAIN calls,
           calls[j].comm \in DOMAIN handles[r]
    PROVE  PlanOf(r, calls[j]) = Plan(r, j) /\ Plan(r, j) \in Seq(AnyStep(world_size))
<1>1. /\ groups[r] = <<WorldGroup>> /\ communicators[r][1] = WorldComm(r)
      /\ handles[r][calls[j].comm] = MPI_COMM_WORLD
  <2>1. calls[j].comm = 1 /\ Starts(handles[r])
    BY AddressFacts DEF CommTypes
  <2>2. PICK S : handles[r] \in Seq(S)
    BY <2>1 DEF Starts, Sequence
  <2>3. handles[r] # <<>>
    BY <2>1, <2>2
  <2> QED
    BY <2>1, <2>3 DEF CommTypes, WorldFirst, Starts, WorldComm
<1>2. Communicator(r, MPI_COMM_WORLD) = WorldComm(r)
  BY <1>1 DEF Communicator, MPI_COMM_WORLD
<1>3. MPI_Comm_rank(r, MPI_COMM_WORLD) = r /\ get_context_id_pt2pt(r, MPI_COMM_WORLD) = 0
  BY <1>2 DEF MPI_Comm_rank, get_context_id_pt2pt, WorldComm
<1>4. MPI_Comm_size(r, MPI_COMM_WORLD) = world_size
  <2> DEFINE group == CHOOSE i \in DOMAIN groups[r] :
                          groups[r][i].group_id = Communicator(r, MPI_COMM_WORLD).local
  <2>1. DOMAIN groups[r] = {1} /\ groups[r][1] = WorldGroup
    BY <1>1
  <2>2. WorldGroup.group_id = 0 /\ Communicator(r, MPI_COMM_WORLD).local = 0
    BY <1>2 DEF WorldGroup, WorldComm
  <2>3. group = 1
    BY <2>1, <2>2
  <2>4. Len(WorldGroup.process_list) = world_size
    BY AddressFacts DEF WorldGroup
  <2> QED
    BY <2>1, <2>3, <2>4 DEF MPI_Comm_size
<1>5. Within(r, MPI_COMM_WORLD) = World(world_size, r)
  BY <1>3, <1>4 DEF Within, World
<1> QED
  BY <1>1, <1>3, <1>5, AddressFacts DEF PlanOf, Plan, WorldPlan

LEMMA EnterTypes ==
    ASSUME AddressedCalls, StateTypes, UNCHANGED world_size, NEW r \in Ranks, Enter(r)
    PROVE  StateTypes'
<1> DEFINE c == count[r] + 1
<1>1. Sorts /\ FaultInv /\ RankTypes(r) /\ Ranks' = Ranks
  BY DEF StateTypes, Ranks
<1>2. /\ ~busy[r] /\ count[r] < Len(calls) /\ r # failed /\ ~is_errSet[r]
      /\ calls[c].comm \in DOMAIN handles[r]
      /\ busy' = [busy EXCEPT ![r] = TRUE]
      /\ plan' = [plan EXCEPT ![r] = PlanOf(r, calls[c])]
      /\ memory' = [memory EXCEPT ![r] = Variables(r, calls[c])]
      /\ UNCHANGED <<calls, count, epoch, faultVars, groups, communicators, handles, files>>
  BY DEF Enter, Call, checkpointVars
<1>3. c \in DOMAIN calls
  <2>1. count[r] \in Nat
    BY <1>1 DEF Sorts
  <2> QED
    BY <1>1, <1>2, <2>1, AddressFacts
<1>4. PlanOf(r, calls[c]) \in Seq(AnyStep(world_size))
  BY <1>1, <1>2, <1>3, AddressedPlan DEF RankTypes
<1>5. /\ busy' \in [Ranks -> BOOLEAN] /\ plan' \in [Ranks -> Seq(AnyStep(world_size))]
      /\ DOMAIN memory' = Ranks /\ busy'[r] /\ memory'[r] = Variables(r, calls[c])
      /\ \A q \in Ranks \ {r} : /\ busy'[q] = busy[q] /\ plan'[q] = plan[q]
                                /\ memory'[q] = memory[q]
  BY <1>1, <1>2, <1>4 DEF Sorts
<1>6. Sorts'
  BY <1>1, <1>2, <1>5 DEF Sorts, faultVars, NoRank
<1>7. Rigid /\ \A q \in Ranks \ {r} : RankSame(q) /\ DOMAIN memory'[q] = DOMAIN memory[q]
  BY <1>2, <1>5 DEF Rigid, RankSame, CountsSame, faultVars
<1>8. FaultInv'
  <2>1. failed \in Ranks \cup {NoRank} /\ (failed # NoRank => ~busy'[failed])
    BY <1>1, <1>2, <1>5 DEF Sorts, FaultInv
  <2> QED
    BY <1>1, <1>2, <2>1, FaultKept DEF faultVars
<1>9. RankTypes(r)'
  <2>1. FileTypes(r)' /\ CommTypes(r)'
    BY <1>1, <1>2, <1>7, FileTypesKept, CommTypesKept DEF RankTypes
  <2>2. DOMAIN memory'[r] = Names
    BY <1>5 DEF Variables, Names
  <2>4. handles[r] # <<>>
    <3>1. PICK S : handles[r] \in Seq(S)
      BY <1>1 DEF RankTypes, CommTypes, Starts, Sequence
    <3> QED
      BY <1>2, <3>1
  <2>3. CountTypes(r)'
    BY <1>1, <1>2, <1>5, <2>2, <2>4 DEF RankTypes, CountTypes, EpochOf, IsWrite, Names, faultVars
  <2> QED
    BY <2>1, <2>3 DEF RankTypes
<1> QED
  BY <1>6, <1>7, <1>8, <1>9, TypesTogether

\* Plans go on, calls end, failures are reported.
LEMMA CallsGoOn ==
    ASSUME StateTypes, Rigid, FaultInv',
           busy' \in [Ranks -> BOOLEAN], is_errSet' \in [Ranks -> BOOLEAN],
           plan' \in [Ranks -> Seq(AnyStep(world_size))], DOMAIN memory' = Ranks,
           \A q \in Ranks : /\ busy'[q] => busy[q]
                            /\ ~busy'[q] => plan'[q] = <<>>
                            /\ is_errSet[q] => is_errSet'[q]
                            /\ DOMAIN memory'[q] = DOMAIN memory[q],
           UNCHANGED <<count, epoch, groups, communicators, handles, files, disturbed>>,
           failed' \in Ranks \cup {NoRank}, restarts' \in 0..MaxRestarts
    PROVE  StateTypes'
<1>1. Sorts'
  BY DEF StateTypes, Sorts, Rigid, Ranks, NoRank
<1>2. ASSUME NEW q \in Ranks PROVE RankTypes(q)'
  <2>1. FileTypes(q)' /\ CommTypes(q)'
    BY FileTypesKept, CommTypesKept DEF StateTypes, RankTypes
  <2>2. CountTypes(q)'
    <3>1. CountTypes(q) /\ calls' = calls /\ count' = count /\ epoch' = epoch
      BY DEF StateTypes, RankTypes, Rigid
    <3>2. /\ count'[q] <= Len(calls') /\ epoch'[q] <= EpochOf(calls', count'[q])
          /\ busy'[q] => count'[q] < Len(calls') /\ DOMAIN memory'[q] = Names /\ handles'[q] # <<>>
          /\ busy'[q] \/ ~is_errSet'[q] => epoch'[q] = EpochOf(calls', count'[q])
      BY <3>1 DEF CountTypes
    <3> QED
      BY <3>2 DEF CountTypes, Names
  <2> QED
    BY <2>1, <2>2 DEF RankTypes
<1> QED
  BY <1>1, <1>2, RigidFacts DEF StateTypes

LEMMA PlanGoes ==
    ASSUME StateTypes, NEW r \in Ranks, PlanGoesOn(r), plan[r] # <<>>
    PROVE  /\ plan' \in [Ranks -> Seq(AnyStep(world_size))]
           /\ busy[r] /\ \A q \in Ranks : ~busy[q] => plan'[q] = <<>>
<1>1. plan \in [Ranks -> Seq(AnyStep(world_size))] /\ \A q \in Ranks : CountTypes(q)
  BY DEF StateTypes, Sorts, RankTypes
<1>2. plan' = [plan EXCEPT ![r] = Tail(plan[r])] /\ Tail(plan[r]) \in Seq(AnyStep(world_size))
  BY <1>1 DEF PlanGoesOn
<1> QED
  BY <1>1, <1>2 DEF CountTypes

LEMMA PlanEnds ==
    ASSUME StateTypes, NEW r \in Ranks, CallEnds(r)
    PROVE  /\ plan' \in [Ranks -> Seq(AnyStep(world_size))] /\ busy' \in [Ranks -> BOOLEAN]
           /\ ~busy'[r] /\ \A q \in Ranks : /\ busy'[q] => busy[q]
                                            /\ ~busy'[q] => plan'[q] = <<>>
<1>1. /\ plan \in [Ranks -> Seq(AnyStep(world_size))] /\ busy \in [Ranks -> BOOLEAN]
      /\ \A q \in Ranks : CountTypes(q)
  BY DEF StateTypes, Sorts, RankTypes
<1>2. <<>> \in Seq(AnyStep(world_size))
  OBVIOUS
<1>3. plan' = [plan EXCEPT ![r] = <<>>] /\ busy' = [busy EXCEPT ![r] = FALSE]
  BY DEF CallEnds
<1> QED
  BY <1>1, <1>2, <1>3 DEF CountTypes

\* Nothing happens to the failures.
LEMMA FaultsSame ==
    ASSUME StateTypes, UNCHANGED <<world_size, failed, restarts, is_errSet>>,
           \A q \in Ranks : busy'[q] => busy[q]
    PROVE  /\ FaultInv' /\ is_errSet' \in [Ranks -> BOOLEAN]
           /\ failed' \in Ranks \cup {NoRank} /\ restarts' \in 0..MaxRestarts
BY DEF StateTypes, Sorts, FaultInv, Ranks, NoRank

LEMMA SendTypes ==
    ASSUME StateTypes, UNCHANGED world_size, NEW r \in Ranks, MPI_Send(r)
    PROVE  StateTypes'
<1>1. /\ PlanGoesOn(r) /\ plan[r] # <<>>
      /\ UNCHANGED <<calls, count, busy, memory, epoch, faultVars, commVars, checkpointVars>>
  BY DEF MPI_Send, NextIs
<1>2. UNCHANGED <<failed, restarts, is_errSet, disturbed, groups, communicators, handles, files>>
  BY <1>1 DEF faultVars, commVars, checkpointVars
<1>3. Rigid /\ Sorts
  BY <1>1 DEF Rigid, StateTypes
<1> QED
  BY <1>1, <1>2, <1>3, PlanGoes, FaultsSame, CallsGoOn DEF Sorts

LEMMA PostTypes ==
    ASSUME StateTypes, UNCHANGED world_size, NEW r \in Ranks, NEW s \in Ranks, post_header(r, s)
    PROVE  StateTypes'
<1>1. /\ \/ plan' = plan
         \/ PlanGoesOn(r) /\ plan[r] # <<>>
         \/ /\ busy[r] /\ Len(plan[r]) = 2
            /\ plan' = [plan EXCEPT ![r] = <<Head(plan[r])>>]
      /\ UNCHANGED <<calls, count, busy, memory, epoch, faultVars, commVars, checkpointVars>>
  BY DEF post_header, halt, EndsPosted, SendsMeanwhile, NextIs
<1>2. UNCHANGED <<failed, restarts, is_errSet, disturbed, groups, communicators, handles, files>>
  BY <1>1 DEF faultVars, commVars, checkpointVars
<1>3. Rigid /\ Sorts /\ \A q \in Ranks : CountTypes(q)
  BY <1>1 DEF Rigid, StateTypes, RankTypes
<1>4. plan' \in [Ranks -> Seq(AnyStep(world_size))] /\ \A q \in Ranks : ~busy[q] => plan'[q] = <<>>
  <2>1. CASE plan' = plan
    BY <1>3, <2>1 DEF Sorts, CountTypes
  <2>2. CASE PlanGoesOn(r) /\ plan[r] # <<>>
    BY <2>2, PlanGoes
  <2>3. CASE /\ busy[r] /\ Len(plan[r]) = 2
             /\ plan' = [plan EXCEPT ![r] = <<Head(plan[r])>>]
    <3>1. plan \in [Ranks -> Seq(AnyStep(world_size))]
      BY <1>3 DEF Sorts
    <3>2. PICK first : first = Head(plan[r])
      OBVIOUS
    <3>3. first \in AnyStep(world_size)
      <4>1. PICK S, p : S = AnyStep(world_size) /\ p = plan[r]
        OBVIOUS
      <4>2. p \in Seq(S) /\ Len(p) = 2
        BY <2>3, <3>1, <4>1
      <4> QED
        BY <3>2, <4>1, <4>2
    <3>4. plan' = [plan EXCEPT ![r] = <<first>>] /\ <<first>> \in Seq(AnyStep(world_size))
      BY <2>3, <3>2, <3>3
    <3> QED
      BY <1>3, <2>3, <3>1, <3>4 DEF CountTypes
  <2> QED
    BY <1>1, <2>1, <2>2, <2>3
<1> QED
  BY <1>1, <1>2, <1>3, <1>4, FaultsSame, CallsGoOn DEF Sorts

\* The progress thread matches a receive or sends a datagram that is left.
LEMMA LeftStateTypes ==
    ASSUME StateTypes, UNCHANGED world_size, NEW r \in Ranks,
           match_abandoned(r) \/ handle_request(r)
    PROVE  StateTypes'
<1>1. UNCHANGED <<callVars, epoch, faultVars, commVars, checkpointVars>>
  <2>1. CASE match_abandoned(r)
    BY <2>1 DEF match_abandoned
  <2>2. CASE handle_request(r)
    BY <2>2 DEF handle_request
  <2> QED
    BY <2>1, <2>2
<1>2. UNCHANGED <<calls, count, busy, plan, memory, epoch, failed, restarts, is_errSet, disturbed,
                  groups, communicators, handles, files>>
  BY <1>1 DEF callVars, faultVars, commVars, checkpointVars
<1>3. Rigid /\ Sorts /\ \A q \in Ranks : CountTypes(q)
  BY <1>2 DEF Rigid, StateTypes, RankTypes
<1> QED
  BY <1>2, <1>3, FaultsSame, CallsGoOn DEF Sorts, CountTypes

LEMMA RecvTypes ==
    ASSUME StateTypes, UNCHANGED world_size, NEW r \in Ranks, MPI_Recv(r)
    PROVE  StateTypes'
<1>1. /\ plan[r] # <<>>
      /\ PlanGoesOn(r)
      /\ UNCHANGED <<calls, count, busy, epoch, faultVars, commVars, checkpointVars>>
  BY DEF MPI_Recv, NextIs
<1>2. UNCHANGED <<failed, restarts, is_errSet, disturbed, groups, communicators, handles, files>>
  BY <1>1 DEF faultVars, commVars, checkpointVars
<1>3. Rigid /\ Sorts /\ DOMAIN memory = Ranks
  BY <1>1 DEF Rigid, StateTypes, Sorts
<1>4. DOMAIN memory' = Ranks /\ \A q \in Ranks : DOMAIN memory'[q] = DOMAIN memory[q]
  <2>1. PICK n, v : memory' = [memory EXCEPT ![r][n] = v]
    BY DEF MPI_Recv
  <2> QED
    BY <1>3, <2>1
<1> QED
  BY <1>1, <1>2, <1>3, <1>4, PlanGoes, FaultsSame, CallsGoOn DEF Sorts

LEMMA AbortTypes ==
    ASSUME StateTypes, UNCHANGED world_size, NEW r \in Ranks, Abort(r)
    PROVE  StateTypes'
<1>1. CallEnds(r) /\ UNCHANGED <<calls, count, memory, epoch, faultVars, commVars, checkpointVars>>
  BY DEF Abort
<1>2. UNCHANGED <<failed, restarts, is_errSet, disturbed, groups, communicators, handles, files>>
  BY <1>1 DEF faultVars, commVars, checkpointVars
<1>3. Rigid /\ Sorts
  BY <1>1 DEF Rigid, StateTypes
<1> QED
  BY <1>1, <1>2, <1>3, PlanEnds, FaultsSame, CallsGoOn DEF Sorts

LEMMA SetErrTypes ==
    ASSUME AddressedCalls, StateTypes, UNCHANGED world_size, NEW r \in Ranks, setErr(r)
    PROVE  StateTypes'
<1>1. /\ failed \notin {NoRank, r} /\ is_errSet' = [is_errSet EXCEPT ![r] = TRUE]
      /\ UNCHANGED <<callVars, epoch, failed, restarts, disturbed, commVars, checkpointVars>>
  BY DEF setErr
<1>2. UNCHANGED <<calls, count, busy, plan, memory, groups, communicators, handles, files>>
  BY <1>1 DEF callVars, commVars, checkpointVars
<1>3. Rigid /\ Sorts /\ Ranks' = Ranks /\ \A q \in Ranks : CountTypes(q)
  BY <1>2 DEF Rigid, StateTypes, RankTypes, Ranks
<1>4. FaultInv' /\ is_errSet' \in [Ranks -> BOOLEAN] /\ \A q \in Ranks : is_errSet[q] => is_errSet'[q]
  BY <1>1, <1>2, <1>3 DEF FaultInv, StateTypes, Sorts, NoRank
<1> QED
  BY <1>1, <1>2, <1>3, <1>4, CallsGoOn DEF Sorts, CountTypes, NoRank

LEMMA FailTypes ==
    ASSUME AddressedCalls, StateTypes, UNCHANGED world_size, NEW r \in Ranks, Fail(r)
    PROVE  StateTypes'
<1>1. /\ restarts < MaxRestarts /\ failed = NoRank /\ failed' = r /\ restarts' = restarts + 1
      /\ CallEnds(r)
      /\ UNCHANGED <<calls, count, memory, epoch, is_errSet, disturbed, commVars, checkpointVars>>
  BY DEF Fail
<1>2. UNCHANGED <<groups, communicators, handles, files>>
  BY <1>1 DEF commVars, checkpointVars
<1>3. Rigid /\ Sorts /\ Ranks' = Ranks
  BY <1>1 DEF Rigid, StateTypes, Ranks
<1>4. restarts' \in 0..MaxRestarts /\ restarts' # 0
  BY <1>1, <1>3, CollectivesAssumption DEF Sorts
<1>5. ~busy'[r] /\ r # NoRank
  BY <1>1, <1>3, PlanEnds, AddressFacts
<1>6. FaultInv'
  BY <1>1, <1>3, <1>4, <1>5 DEF FaultInv, StateTypes, NoRank
<1> QED
  BY <1>1, <1>2, <1>3, <1>4, <1>6, PlanEnds, CallsGoOn DEF Sorts, NoRank

(***************************************************************************)
(* The return of a call, and the recovery.                                 *)
(***************************************************************************)
LEMMA SomeFileWritten ==
    ASSUME AddressedCalls, StateTypes, NEW r \in Ranks, busy[r], NEW c, c = count[r] + 1,
           IsWrite(calls[c])
    PROVE  SomeFile(r, epoch[r], File(r, c))
<1>1. /\ CountTypes(r) /\ CommTypes(r) /\ Sorts /\ count[r] \in Nat /\ epoch[r] \in Nat
  BY DEF StateTypes, RankTypes, Sorts
<1>2. c \in DOMAIN calls
  BY <1>1, AddressFacts DEF CountTypes
<1>3. EpochOf(calls, c) = epoch[r] + 1
  BY <1>1, EpochStep DEF CountTypes
<1>4. Sequence(<<>>)
  BY DEF Sequence
<1> QED
  BY <1>1, <1>2, <1>3, <1>4 DEF SomeFile, File, NotSerialized, CommTypes

LEMMA SomeFileSerialized ==
    ASSUME NEW r, NEW k, NEW file, SomeFile(r, k, file), NEW contexts, Sequence(contexts),
           contexts # <<>> => contexts[1] = 0, NEW g, g = [file EXCEPT !.contexts = @ \o contexts]
    PROVE  SomeFile(r, k, g)
<1>1. /\ DOMAIN g = DOMAIN file /\ g.groups = file.groups /\ g.communicators = file.communicators
      /\ g.handles = file.handles /\ g.count = file.count
      /\ g.contexts = file.contexts \o contexts
  BY DEF SomeFile
<1>2. /\ Sequence(file.contexts) /\ (file.contexts # <<>> => file.contexts[1] = 0)
  BY DEF SomeFile
<1>3. Sequence(g.contexts) /\ (g.contexts # <<>> => g.contexts[1] = 0)
  <2>1. CASE file.contexts = <<>>
    BY <1>1, <1>2, <2>1, SequencesJoined
  <2>2. CASE file.contexts # <<>>
    BY <1>1, <1>2, <2>2, SequencesJoined
  <2> QED
    BY <2>1, <2>2
<1> QED
  BY <1>1, <1>3 DEF SomeFile

LEMMA ContextsStart ==
    ASSUME NEW r, CommTypes(r), NEW contexts,
           contexts = [i \in DOMAIN handles[r] |-> get_context_id_pt2pt(r, handles[r][i])]
    PROVE  Sequence(contexts) /\ (contexts # <<>> => contexts[1] = 0)
<1>1. Starts(handles[r]) /\ WorldFirst(communicators[r], r)
  BY DEF CommTypes
<1>2. PICK S : handles[r] \in Seq(S)
  BY <1>1 DEF Starts, Sequence
<1>3. contexts \in Seq({get_context_id_pt2pt(r, handles[r][i]) : i \in DOMAIN handles[r]})
      /\ DOMAIN contexts = DOMAIN handles[r] /\ Len(contexts) = Len(handles[r])
  BY <1>2
<1>4. get_context_id_pt2pt(r, 0) = 0
  BY <1>1 DEF get_context_id_pt2pt, Communicator, WorldFirst
<1>5. contexts # <<>> => handles[r] # <<>> /\ 1 \in DOMAIN handles[r]
  BY <1>2, <1>3
<1>6. contexts # <<>> => contexts[1] = 0
  BY <1>1, <1>4, <1>5 DEF Starts, MPI_COMM_WORLD
<1> QED
  BY <1>3, <1>6 DEF Sequence

LEMMA FileTypesFrom ==
    ASSUME Rigid, NEW r, 0..(epoch'[r] - 1) \subseteq DOMAIN files'[r],
           \A k \in DOMAIN files'[r] : SomeFile(r, k, files'[r][k])
    PROVE  FileTypes(r)'
BY DEF Rigid, FileTypes, SomeFile, WorldGroup, WorldFirst, Starts, Sequence, IsWrite,
       EpochOf, MPI_COMM_WORLD

\* The contexts of what an application holds.
HandleContexts(r) == [i \in DOMAIN handles[r] |-> ContextOf(r, i)]

\* What a return makes of the files: the one of the epoch is written, or the contexts are
\* appended to the one before.
LEMMA ReturnWrites ==
    ASSUME AddressedCalls, StateTypes, UNCHANGED world_size, NEW r \in Ranks, Return(r),
           NEW c, c = count[r] + 1
    PROVE  /\ DOMAIN files' = Ranks /\ \A q \in Ranks \ {r} : files'[q] = files[q]
           /\ \/ /\ IsWrite(calls[c])
                 /\ DOMAIN files'[r] = DOMAIN files[r] \cup {epoch[r]}
                 /\ files'[r][epoch[r]] = File(r, c)
                 /\ \A k \in DOMAIN files[r] : k # epoch[r] => files'[r][k] = files[r][k]
                 /\ epoch'[r] = epoch[r] \/ epoch'[r] = epoch[r] + 1
              \/ /\ epoch' = epoch /\ DOMAIN files'[r] = DOMAIN files[r]
                 /\ \E contexts :
                       /\ contexts = HandleContexts(r)
                       /\ Sequence(contexts) /\ (contexts # <<>> => contexts[1] = 0)
                       /\ \A k \in DOMAIN files[r] :
                             \/ files'[r][k] = files[r][k]
                             \/ files'[r][k] = [files[r][k] EXCEPT !.contexts = @ \o contexts]
<1>1. /\ calls' = calls
      /\ CASE calls[c].name = "MPIX_Checkpoint_write" -> write_file(r, epoch[r], count[r] + 1)
           [] calls[c].name = "MPIX_Serialize_handles" -> MPIX_Serialize_handles(r, epoch[r])
           [] OTHER -> UNCHANGED files
      /\ IF calls[c].name = "MPIX_Checkpoint_write" /\ ~is_errSet[r]
         THEN epoch' = [epoch EXCEPT ![r] = @ + 1]
         ELSE UNCHANGED epoch
  BY DEF Return, Call
<1>2. /\ DOMAIN files = Ranks /\ DOMAIN epoch = Ranks /\ CommTypes(r)
  BY DEF StateTypes, Sorts, RankTypes
<1>3. PICK contexts : contexts = HandleContexts(r)
  OBVIOUS
<1>4. Sequence(contexts) /\ (contexts # <<>> => contexts[1] = 0)
  BY <1>2, <1>3, ContextsStart DEF HandleContexts, ContextOf
<1>5. CASE calls[c].name = "MPIX_Checkpoint_write"
  <2>1. files' = [files EXCEPT ![r] = Stored(files[r], epoch[r], File(r, c))]
    BY <1>1, <1>5 DEF write_file
  <2>2. files'[r] = Stored(files[r], epoch[r], File(r, c))
    BY <1>2, <2>1
  <2>3. epoch'[r] = epoch[r] \/ epoch'[r] = epoch[r] + 1
    BY <1>1, <1>2
  <2> QED
    BY <1>2, <1>5, <2>1, <2>2, <2>3 DEF Stored, IsWrite
<1>6. CASE calls[c].name = "MPIX_Serialize_handles"
  <2>1. MPIX_Serialize_handles(r, epoch[r]) /\ epoch' = epoch
    BY <1>1, <1>6
  <2>2. \/ files' = files
        \/ files' = [files EXCEPT ![r] = [files[r] EXCEPT ![epoch[r] - 1] =
                         [files[r][epoch[r] - 1] EXCEPT !.contexts = @ \o contexts]]]
    BY <2>1, <1>3 DEF MPIX_Serialize_handles, HandleContexts, ContextOf
  <2>3. CASE files' = files
    BY <1>2, <1>3, <1>4, <2>1, <2>3
  <2>4. CASE files' = [files EXCEPT ![r] = [files[r] EXCEPT ![epoch[r] - 1] =
                         [files[r][epoch[r] - 1] EXCEPT !.contexts = @ \o contexts]]]
    <3>1. files'[r] = [files[r] EXCEPT ![epoch[r] - 1] =
                           [files[r][epoch[r] - 1] EXCEPT !.contexts = @ \o contexts]]
      BY <1>2, <2>4
    <3>2. DOMAIN files'[r] = DOMAIN files[r]
      BY <3>1
    <3>3. \A k \in DOMAIN files[r] :
             \/ files'[r][k] = files[r][k]
             \/ files'[r][k] = [files[r][k] EXCEPT !.contexts = @ \o contexts]
      BY <3>1
    <3>4. DOMAIN files' = Ranks /\ \A q \in Ranks \ {r} : files'[q] = files[q]
      BY <1>2, <2>4
    <3> QED
      BY <1>3, <1>4, <2>1, <3>2, <3>3, <3>4
  <2> QED
    BY <2>2, <2>3, <2>4
<1>7. CASE calls[c].name \notin {"MPIX_Checkpoint_write", "MPIX_Serialize_handles"}
  <2>1. files' = files /\ epoch' = epoch
    BY <1>1, <1>7
  <2> QED
    BY <1>2, <1>3, <1>4, <2>1
<1> QED
  BY <1>5, <1>6, <1>7

LEMMA ReturnFileTypes ==
    ASSUME AddressedCalls, StateTypes, UNCHANGED world_size, NEW r \in Ranks, Return(r)
    PROVE  FileTypes(r)'
<1> SUFFICES ASSUME NEW c, c = count[r] + 1 PROVE FileTypes(r)'
  OBVIOUS
<1>1. FileTypes(r) /\ epoch[r] \in Nat /\ busy[r] /\ Rigid
  BY DEF StateTypes, Sorts, RankTypes, Return, Rigid
<1>2. CASE IsWrite(calls[c]) /\ DOMAIN files'[r] = DOMAIN files[r] \cup {epoch[r]}
           /\ files'[r][epoch[r]] = File(r, c)
           /\ (\A k \in DOMAIN files[r] : k # epoch[r] => files'[r][k] = files[r][k])
           /\ (epoch'[r] = epoch[r] \/ epoch'[r] = epoch[r] + 1)
  <2>1. SomeFile(r, epoch[r], File(r, c))
    BY <1>1, <1>2, SomeFileWritten
  <2>2. \A k \in DOMAIN files'[r] : SomeFile(r, k, files'[r][k])
    BY <1>1, <1>2, <2>1 DEF FileTypes
  <2>3. 0..(epoch'[r] - 1) \subseteq 0..(epoch[r] - 1) \cup {epoch[r]}
    BY <1>1, <1>2
  <2>4. 0..(epoch'[r] - 1) \subseteq DOMAIN files'[r]
    BY <1>1, <1>2, <2>3 DEF FileTypes
  <2> QED
    BY <1>1, <2>2, <2>4, FileTypesFrom
<1>3. ASSUME epoch' = epoch, DOMAIN files'[r] = DOMAIN files[r], NEW contexts,
             Sequence(contexts), contexts # <<>> => contexts[1] = 0,
             \A k \in DOMAIN files[r] :
                 \/ files'[r][k] = files[r][k]
                 \/ files'[r][k] = [files[r][k] EXCEPT !.contexts = @ \o contexts]
      PROVE  FileTypes(r)'
  <2>1. ASSUME NEW k \in DOMAIN files'[r] PROVE SomeFile(r, k, files'[r][k])
    <3>1. SomeFile(r, k, files[r][k])
      BY <1>1, <1>3 DEF FileTypes
    <3>2. PICK g : g = [files[r][k] EXCEPT !.contexts = @ \o contexts]
      OBVIOUS
    <3>3. SomeFile(r, k, g)
      BY <1>3, <3>1, <3>2, SomeFileSerialized
    <3> QED
      BY <1>3, <3>1, <3>2, <3>3
  <2> QED
    BY <1>1, <1>3, <2>1, FileTypesFrom DEF FileTypes
<1> QED
  BY <1>2, <1>3, ReturnWrites

\* What it makes of the communicators.
Registers(r, x) ==
    \E e : LET comms == Append(communicators[r], e)
           IN  /\ communicators'[r] = comms
               /\ handles'[r] = Append(handles[r], HandleOf(comms, x))
               /\ e = [rank |-> r, pt2pt |-> x, coll |-> e.coll, local |-> 0]
LEMMA ReturnRegisters ==
    ASSUME AddressedCalls, StateTypes, NEW r \in Ranks, Return(r)
    PROVE  /\ groups' = groups /\ DOMAIN communicators' = Ranks /\ DOMAIN handles' = Ranks
           /\ \A q \in Ranks \ {r} : /\ communicators'[q] = communicators[q]
                                     /\ handles'[q] = handles[q]
           /\ IF Call(r).name = "MPI_Comm_dup"
              THEN Registers(r, memory[r].pt2pt)
              ELSE UNCHANGED <<communicators, handles>>
<1>1. DOMAIN communicators = Ranks /\ DOMAIN handles = Ranks /\ CommTypes(r) /\ CountTypes(r)
      /\ Sorts /\ count[r] \in Nat /\ busy[r]
  BY DEF StateTypes, Sorts, RankTypes, Return
<1>2. ASSUME Call(r).name # "MPI_Comm_dup"
      PROVE  UNCHANGED <<groups, communicators, handles>>
  BY <1>2 DEF Return, commVars
<1>3. ASSUME NEW a, NEW b, register(r, handles[r][Call(r).comm], [pt2pt |-> a, coll |-> b])
      PROVE  /\ groups' = groups /\ DOMAIN communicators' = Ranks /\ DOMAIN handles' = Ranks
             /\ \A q \in Ranks \ {r} : /\ communicators'[q] = communicators[q]
                                       /\ handles'[q] = handles[q]
             /\ Registers(r, a)
  <2>1. PICK e : e = Duplicate(r, handles[r][Call(r).comm], [pt2pt |-> a, coll |-> b])
    OBVIOUS
  <2>2. PICK comms : comms = Append(communicators[r], e)
    OBVIOUS
  <2>3. /\ communicators' = [communicators EXCEPT ![r] = comms]
        /\ handles' = [handles EXCEPT ![r] = Append(@, HandleOf(comms, a))]
        /\ groups' = groups
    BY <1>3, <2>1, <2>2 DEF register
  <2>4. e = [rank |-> r, pt2pt |-> a, coll |-> b, local |-> 0]
    <3>1. count[r] + 1 \in DOMAIN calls
      BY <1>1, AddressFacts DEF CountTypes
    <3>2. Call(r).comm = 1
      BY <3>1, <1>1, AddressFacts DEF Call
    <3>3. Communicator(r, handles[r][1]) = [rank |-> r, pt2pt |-> 0, coll |-> 1, local |-> 0]
      BY <1>1 DEF CommTypes, CountTypes, Starts, WorldFirst, MPI_COMM_WORLD, Communicator
    <3>4. Communicator(r, handles[r][Call(r).comm])
              = [rank |-> r, pt2pt |-> 0, coll |-> 1, local |-> 0]
      BY <3>2, <3>3
    <3>5. PICK w : w = [rank |-> r, pt2pt |-> 0, coll |-> 1, local |-> 0]
      OBVIOUS
    <3>6. e = [w EXCEPT !.pt2pt = a, !.coll = b]
      BY <2>1, <3>4, <3>5 DEF Duplicate
    <3> QED
      BY <3>5, <3>6
  <2>5. /\ communicators'[r] = Append(communicators[r], e)
        /\ handles'[r] = Append(handles[r], HandleOf(Append(communicators[r], e), a))
        /\ e = [rank |-> r, pt2pt |-> a, coll |-> e.coll, local |-> 0]
    BY <1>1, <2>2, <2>3, <2>4
  <2>6. Registers(r, a)
    BY <2>5 DEF Registers
  <2> QED
    BY <1>1, <2>3, <2>6
<1> QED
  BY <1>1, <1>2, <1>3 DEF Return

\* A sequence that grows keeps what it begins with.
LEMMA StartsGrows ==
    ASSUME NEW h, Starts(h), NEW e, h # <<>>
    PROVE  Starts(Append(h, e)) /\ Append(h, e) # <<>>
<1>1. PICK S : h \in Seq(S)
  BY DEF Starts, Sequence
<1>2. h \in Seq(S \cup {e}) /\ e \in S \cup {e}
  BY <1>1, SeqLarger
<1>3. Append(h, e) \in Seq(S \cup {e}) /\ Append(h, e) # <<>>
  BY <1>2
<1>4. Append(h, e)[1] = h[1]
  BY <1>2
<1> QED
  BY <1>3, <1>4 DEF Starts, Sequence, MPI_COMM_WORLD

LEMMA ReturnTypes ==
    ASSUME AddressedCalls, StateTypes, UNCHANGED world_size, NEW r \in Ranks, Return(r)
    PROVE  StateTypes'
<1> SUFFICES ASSUME NEW c, c = count[r] + 1 PROVE StateTypes'
  OBVIOUS
<1>1. Sorts /\ FaultInv /\ RankTypes(r) /\ Ranks' = Ranks
  BY DEF StateTypes, Ranks
<1>2. /\ busy[r] /\ plan[r] = <<>>
      /\ busy' = [busy EXCEPT ![r] = FALSE] /\ count' = [count EXCEPT ![r] = c]
      /\ IF calls[c].name = "MPIX_Checkpoint_write" /\ ~is_errSet[r]
         THEN epoch' = [epoch EXCEPT ![r] = @ + 1]
         ELSE UNCHANGED epoch
      /\ UNCHANGED <<calls, plan, memory, faultVars>>
  BY DEF Return, Call
<1>3. /\ groups' = groups /\ DOMAIN communicators' = Ranks /\ DOMAIN handles' = Ranks
      /\ \A q \in Ranks \ {r} : /\ communicators'[q] = communicators[q]
                                /\ handles'[q] = handles[q]
      /\ UNCHANGED <<communicators, handles>> \/ \E x : Registers(r, x)
  BY ReturnRegisters
<1>4. FileTypes(r)' /\ DOMAIN files' = Ranks /\ \A q \in Ranks \ {r} : files'[q] = files[q]
  BY ReturnFileTypes, ReturnWrites
<1>5. /\ count[r] \in Nat /\ epoch[r] \in Nat /\ c \in DOMAIN calls
      /\ epoch[r] = EpochOf(calls, count[r]) /\ r # failed
      /\ count \in [Ranks -> Nat] /\ busy \in [Ranks -> BOOLEAN] /\ epoch \in [Ranks -> Nat]
  <2>1. /\ count \in [Ranks -> Nat] /\ busy \in [Ranks -> BOOLEAN] /\ epoch \in [Ranks -> Nat]
    BY <1>1 DEF Sorts
  <2>2. count[r] < Len(calls) /\ epoch[r] = EpochOf(calls, count[r])
    BY <1>1, <1>2 DEF RankTypes, CountTypes
  <2>3. r # failed
    BY <1>1, <1>2, AddressFacts DEF FaultInv
  <2>4. c \in DOMAIN calls
    BY <1>1, <2>1, <2>2, AddressFacts
  <2> QED
    BY <2>1, <2>2, <2>3, <2>4
<1>6. /\ busy' \in [Ranks -> BOOLEAN] /\ count' \in [Ranks -> Nat] /\ epoch' \in [Ranks -> Nat]
      /\ ~busy'[r] /\ count'[r] = c /\ count'[r] = count[r] + 1
      /\ \A q \in Ranks \ {r} : /\ busy'[q] = busy[q] /\ count'[q] = count[q]
                                /\ epoch'[q] = epoch[q]
  BY <1>2, <1>5
<1>7. /\ ~is_errSet[r] => epoch'[r] = EpochOf(calls, c)
      /\ epoch'[r] <= EpochOf(calls, c)
  <2>1. EpochOf(calls, c) = EpochOf(calls, count[r]) + (IF IsWrite(calls[c]) THEN 1 ELSE 0)
    BY <1>5, EpochStep
  <2>2. CASE calls[c].name = "MPIX_Checkpoint_write" /\ ~is_errSet[r]
    <3>1. epoch'[r] = epoch[r] + 1
      BY <1>2, <1>5, <2>2
    <3> QED
      BY <1>5, <2>1, <2>2, <3>1 DEF IsWrite
  <2>3. CASE ~(calls[c].name = "MPIX_Checkpoint_write" /\ ~is_errSet[r])
    <3>1. epoch'[r] = epoch[r]
      BY <1>2, <2>3
    <3> QED
      BY <1>5, <2>1, <2>3, <3>1 DEF IsWrite
  <2> QED
    BY <2>2, <2>3
<1>8. Sorts'
  BY <1>1, <1>2, <1>3, <1>4, <1>6 DEF Sorts, faultVars, NoRank
<1>9. Rigid /\ \A q \in Ranks \ {r} : RankSame(q) /\ DOMAIN memory'[q] = DOMAIN memory[q]
  BY <1>2, <1>3, <1>4, <1>6 DEF Rigid, RankSame, CountsSame, faultVars
<1>10. FaultInv'
  <2>1. failed \in Ranks \cup {NoRank} /\ (failed # NoRank => ~busy'[failed])
    BY <1>1, <1>5, <1>6 DEF Sorts, FaultInv
  <2> QED
    BY <1>1, <1>2, <2>1, FaultKept DEF faultVars
<1>11. CommTypes(r)'
  <2>1. CommTypes(r) /\ handles[r] # <<>>
    BY <1>1, <1>2 DEF RankTypes, CountTypes
  <2>2. CASE UNCHANGED <<communicators, handles>>
    BY <1>3, <1>9, <2>1, <2>2, CommTypesKept
  <2>3. CASE \E x : Registers(r, x)
    <3>1. PICK e, f : /\ communicators'[r] = Append(communicators[r], e)
                      /\ handles'[r] = Append(handles[r], f)
      BY <2>3 DEF Registers
    <3>2. /\ Sequence(communicators'[r]) /\ communicators'[r] # <<>>
          /\ communicators'[r][1] = communicators[r][1]
      BY <2>1, <3>1, SequenceGrows DEF CommTypes, WorldFirst
    <3>3. Starts(handles'[r]) /\ WorldFirst(communicators'[r], r)
      BY <2>1, <3>1, <3>2, StartsGrows DEF CommTypes, WorldFirst
    <3>4. groups'[r] = <<WorldGroup>>'
      BY <1>3, <2>1 DEF CommTypes, WorldGroup
    <3>5. WorldFirst(communicators[r], r)' /\ Starts(handles[r])'
      BY <3>3 DEF WorldFirst, Starts, Sequence, MPI_COMM_WORLD
    <3> QED
      BY <3>4, <3>5 DEF CommTypes
  <2> QED
    BY <1>3, <2>2, <2>3
<1>12. CountTypes(r)'
  <2>1. count'[r] <= Len(calls')
    BY <1>1, <1>2, <1>5, <1>6, AddressFacts
  <2>2. /\ ~is_errSet'[r] => epoch'[r] = EpochOf(calls', count'[r])
        /\ epoch'[r] <= EpochOf(calls', count'[r])
    BY <1>2, <1>6, <1>7 DEF faultVars
  <2>3. ~busy'[r] /\ plan'[r] = <<>>
    BY <1>2, <1>6
  <2> QED
    BY <2>1, <2>2, <2>3 DEF CountTypes
<1>13. RankTypes(r)'
  BY <1>4, <1>11, <1>12 DEF RankTypes
<1> QED
  BY <1>8, <1>9, <1>10, <1>13, TypesTogether

\* The recovery, disturbed or not.
LEMMA CommittedLeast ==
    ASSUME AddressedCalls, Sorts
    PROVE  Committed \in Nat /\ \A r \in Ranks : Committed <= epoch[r]
<1>1. epoch \in [Ranks -> Nat] /\ Ranks # {}
  BY AddressFacts DEF Sorts
<1> DEFINE S == {epoch[r] : r \in Ranks}
<1>2. S \subseteq Nat /\ S # {}
  BY <1>1
<1>3. Committed = CHOOSE x \in S : \A y \in S : x =< y
  BY DEF Committed, Min
<1> HIDE DEF S
<1>4. Committed \in S /\ \A y \in S : Committed <= y
  BY <1>2, <1>3, LeastNumber
<1> QED
  BY <1>1, <1>2, <1>4 DEF S

LEMMA FileOfEpoch ==
    ASSUME StateTypes, NEW r \in Ranks, NEW E \in Nat \ {0}, E <= epoch[r]
    PROVE  E - 1 \in DOMAIN files[r] /\ SomeFile(r, E - 1, files[r][E - 1])
<1>1. epoch[r] \in Nat /\ FileTypes(r)
  BY DEF StateTypes, Sorts, RankTypes
<1>2. E - 1 \in 0..(epoch[r] - 1)
  BY <1>1
<1> QED
  BY <1>1, <1>2 DEF FileTypes

LEMMA CountRecovered ==
    ASSUME AddressedCalls, StateTypes, NEW r \in Ranks, NEW E \in Nat, E <= epoch[r]
    PROVE  /\ CountAfter(r, E) \in Nat /\ CountAfter(r, E) <= Len(calls)
           /\ EpochOf(calls, CountAfter(r, E)) = E
<1>1. CASE E = 0
  BY <1>1, EpochZero, AddressFacts DEF CountAfter, StateTypes
<1>2. CASE E # 0
  <2>1. SomeFile(r, E - 1, files[r][E - 1])
    BY <1>2, FileOfEpoch
  <2> QED
    BY <1>2, <2>1, AddressFacts DEF CountAfter, SomeFile, StateTypes
<1> QED
  BY <1>1, <1>2

LEMMA FirstContext ==
    ASSUME NEW comms, NEW r, WorldFirst(comms, r)
    PROVE  HandleOf(comms, 0) = 0
<1>1. PICK T : comms \in Seq(T)
  BY DEF WorldFirst, Sequence
<1>2. 1 \in DOMAIN comms /\ comms[1].pt2pt = 0 /\ DOMAIN comms = 1..Len(comms)
  BY <1>1 DEF WorldFirst
<1>3. \A i \in DOMAIN comms :
         (comms[i].pt2pt = 0 /\ \A j \in 1..(i - 1) : comms[j].pt2pt # 0) <=> i = 1
  BY <1>1, <1>2
<1>4. (CHOOSE i \in DOMAIN comms :
          comms[i].pt2pt = 0 /\ \A j \in 1..(i - 1) : comms[j].pt2pt # 0) = 1
  BY <1>2, <1>3
<1> QED
  BY <1>4 DEF HandleOf

LEMMA HandlesRecovered ==
    ASSUME StateTypes, NEW r \in Ranks, NEW E \in Nat, E <= epoch[r]
    PROVE  Starts(HandlesAfter(r, failed, E))
<1>1. CASE E = 0
  <2>1. <<MPI_COMM_WORLD>> \in Seq({MPI_COMM_WORLD})
    OBVIOUS
  <2>2. Starts(<<MPI_COMM_WORLD>>)
    BY <2>1 DEF Starts, Sequence
  <2> QED
    BY <1>1, <2>2 DEF HandlesAfter
<1>2. CASE E # 0
  <2>1. SomeFile(r, E - 1, files[r][E - 1])
    BY <1>2, FileOfEpoch
  <2>2. CASE r = failed \/ ~registered[r]
    BY <1>2, <2>1, <2>2 DEF HandlesAfter, SomeFile
  <2>3. CASE ~(r = failed \/ ~registered[r]) /\ HandlesLost(r, E)
    <3>1. HandlesAfter(r, failed, E) = <<>>
      BY <1>2, <2>3 DEF HandlesAfter
    <3> QED
      BY <3>1 DEF Starts, Sequence
  <2>4. CASE ~(r = failed \/ ~registered[r]) /\ ~HandlesLost(r, E)
    <3> DEFINE file == files[r][E - 1]
               after == HandlesAfter(r, failed, E)
    <3>1. after = [i \in 1..Len(file.handles) |-> HandleOf(communicators[r], file.contexts[i])]
      BY <1>2, <2>4 DEF HandlesAfter, MPIX_Deserialize_handles
    <3>2. Starts(file.handles) /\ file.contexts[1] = 0
      BY <1>2, <2>1, <2>4 DEF SomeFile, HandlesLost, NotSerialized
    <3> HIDE DEF file
    <3>3. PICK S : file.handles \in Seq(S)
      BY <3>2 DEF Starts, Sequence
    <3>4. HandleOf(communicators[r], 0) = 0
      <4>1. WorldFirst(communicators[r], r)
        BY DEF StateTypes, RankTypes, CommTypes
      <4> QED
        BY <4>1, FirstContext
    <3>5. Len(file.handles) \in Nat
      BY <3>3
    <3>6. after # <<>> => after[1] = 0
      BY <3>1, <3>2, <3>4, <3>5
    <3>7. after \in Seq({HandleOf(communicators[r], file.contexts[i]) : i \in 1..Len(file.handles)})
      BY <3>1, <3>5
    <3> HIDE DEF after
    <3>8. Starts(after)
      BY <3>6, <3>7 DEF Starts, Sequence, MPI_COMM_WORLD
    <3> QED
      BY <3>8 DEF after
  <2> QED
    BY <2>2, <2>3, <2>4
<1> QED
  BY <1>1, <1>2

LEMMA RecoverTypes ==
    ASSUME AddressedCalls, StateTypes, UNCHANGED world_size, Recover
    PROVE  StateTypes'
<1> SUFFICES ASSUME NEW C, C = Committed PROVE StateTypes'
  OBVIOUS
<1> DEFINE file == files[failed][C - 1]
<1>1. /\ C \in Nat /\ \A r \in Ranks : C <= epoch[r]
      /\ Sorts /\ FaultInv /\ Ranks' = Ranks /\ \A r \in Ranks : RankTypes(r)
  BY CommittedLeast DEF StateTypes, Ranks
<1>2. /\ failed # NoRank /\ \A r \in Survivors : ~busy[r]
      /\ epoch' = [r \in Ranks |-> EpochAfter(r)]
      /\ handles' = [r \in Ranks |-> HandlesAfter(r, failed, EpochAfter(r))]
      /\ count' = [r \in Ranks |-> CountAfter(r, EpochAfter(r))]
      /\ memory' = [r \in Ranks |-> NoVariables]
      /\ is_errSet' = [r \in Ranks |-> FALSE]
      /\ failed' = NoRank /\ files' = files
      /\ groups' = [groups EXCEPT ![failed] = IF C = 0 THEN <<WorldGroup>> ELSE file.groups]
      /\ communicators' = [communicators EXCEPT ![failed] =
                               IF C = 0 THEN <<WorldComm(failed)>> ELSE file.communicators]
      /\ UNCHANGED <<calls, busy, plan, restarts>>
  BY DEF Recover, load
<1>3. failed \in Ranks /\ \A r \in Ranks : ~busy[r] /\ plan[r] = <<>>
  BY <1>1, <1>2 DEF Sorts, FaultInv, Survivors, RankTypes, CountTypes
<1>4. \A r \in Ranks : EpochAfter(r) \in Nat /\ EpochAfter(r) <= epoch[r]
  <2>1. epoch \in [Ranks -> Nat]
    BY <1>1 DEF Sorts
  <2> QED
    BY <1>1, <2>1 DEF EpochAfter
<1>5. C # 0 => SomeFile(failed, C - 1, file)
  BY <1>1, <1>3, FileOfEpoch
<1> HIDE DEF file
<1>6. ASSUME NEW r \in Ranks
      PROVE  /\ CountAfter(r, EpochAfter(r)) \in Nat /\ CountAfter(r, EpochAfter(r)) <= Len(calls)
             /\ EpochOf(calls, CountAfter(r, EpochAfter(r))) = EpochAfter(r)
  BY <1>4, CountRecovered
<1>7. Sorts'
  <2>1. count' \in [Ranks -> Nat] /\ epoch' \in [Ranks -> Nat]
    BY <1>2, <1>4, <1>6
  <2>2. disturbed' \in BOOLEAN
    <3>1. \E b \in BOOLEAN : disturbed' = (disturbed \/ b)
      BY DEF Recover
    <3> QED
      BY <1>1, <3>1 DEF Sorts
  <2> QED
    BY <1>1, <1>2, <2>1, <2>2 DEF Sorts, NoRank
<1>8. FaultInv'
  BY <1>1, <1>2 DEF FaultInv, NoRank
<1>9. Rigid
  BY <1>2 DEF Rigid
<1>10. ASSUME NEW r \in Ranks PROVE RankTypes(r)'
  <2>1. epoch'[r] = EpochAfter(r) /\ count'[r] = CountAfter(r, EpochAfter(r)) /\ ~busy'[r]
        /\ plan'[r] = <<>>
    BY <1>2, <1>3
  <2>2. CountTypes(r)'
    <3>1. /\ count'[r] <= Len(calls') /\ epoch'[r] = EpochOf(calls', count'[r]) /\ epoch'[r] \in Nat
      BY <1>2, <1>4, <1>6, <2>1
    <3> QED
      BY <2>1, <3>1 DEF CountTypes
  <2>3. FileTypes(r)'
    <3>1. FileTypes(r) /\ epoch[r] \in Nat /\ epoch'[r] \in Nat /\ epoch'[r] <= epoch[r]
      BY <1>1, <1>4, <2>1 DEF RankTypes, Sorts
    <3>2. 0..(epoch'[r] - 1) \subseteq DOMAIN files'[r]
      BY <1>2, <3>1 DEF FileTypes
    <3> QED
      BY <1>2, <1>9, <3>1, <3>2, FileTypesFrom DEF FileTypes
  <2>4. CommTypes(r) /\ DOMAIN groups = Ranks /\ DOMAIN communicators = Ranks
    BY <1>1 DEF RankTypes, Sorts
  <2>5. groups'[r] = <<WorldGroup>> /\ WorldFirst(communicators'[r], r)
    <3>1. CASE r # failed
      BY <1>2, <2>4, <3>1 DEF CommTypes
    <3>2. CASE r = failed /\ C = 0
      <4>1. <<WorldComm(r)>> \in Seq({WorldComm(r)})
        OBVIOUS
      <4>2. WorldFirst(<<WorldComm(r)>>, r)
        BY <4>1 DEF WorldFirst, Sequence, WorldComm
      <4> QED
        BY <1>2, <2>4, <3>2, <4>2
    <3>3. CASE r = failed /\ C # 0
      BY <1>2, <1>5, <2>4, <3>3 DEF SomeFile
    <3> QED
      BY <3>1, <3>2, <3>3
  <2>6. Starts(handles'[r])
    BY <1>2, <1>4, HandlesRecovered
  <2>7. CommTypes(r)'
    <3>1. groups'[r] = <<WorldGroup>>'
      BY <2>5 DEF WorldGroup
    <3>2. WorldFirst(communicators[r], r)' /\ Starts(handles[r])'
      BY <2>5, <2>6 DEF WorldFirst, Starts, Sequence, MPI_COMM_WORLD
    <3> QED
      BY <3>1, <3>2 DEF CommTypes
  <2> QED
    BY <2>2, <2>3, <2>7 DEF RankTypes
<1> QED
  BY <1>1, <1>7, <1>8, <1>10 DEF StateTypes

(***************************************************************************)
(* The headers in memory are the queued ones, and each has a protocol.     *)
(***************************************************************************)
Spoken(h) == h.protocol \in Protocols
MessageTypes ==
    /\ DOMAIN headers = Ranks
    /\ \A r \in Ranks : /\ DOMAIN headers[r] = ToSet(received_header_queue[r])
                        /\ \A h \in DOMAIN headers[r] : Spoken(headers[r][h])
    /\ \A s, r \in Ranks : \A i \in DOMAIN OnTheWay(s, r) : Spoken(OnTheWay(s, r)[i])

LEMMA QueueTypes_ ==
    ASSUME MessageTypes, UNCHANGED <<world_size, received_header_queue, headers>>,
           \A s, r \in Ranks : \A i \in DOMAIN OnTheWay(s, r)' : Spoken(OnTheWay(s, r)'[i])
    PROVE  MessageTypes'
BY DEF MessageTypes, Ranks, Spoken, Protocols

\* A datagram leaves.
LEMMA SentTypes ==
    ASSUME PoolInv, MessageTypes, NEW r \in Ranks, NEW d \in Ranks, NEW h, Spoken(h),
           NEW length, NEW payload, reliable_send(r, d, h, length, payload)
    PROVE  \A s, q \in Ranks : \A i \in DOMAIN OnTheWay(s, q)' : Spoken(OnTheWay(s, q)'[i])
<1> SUFFICES ASSUME NEW s \in Ranks, NEW q \in Ranks, NEW i \in DOMAIN OnTheWay(s, q)'
             PROVE  Spoken(OnTheWay(s, q)'[i])
  OBVIOUS
<1>1. \A k \in DOMAIN OnTheWay(s, q) : Spoken(OnTheWay(s, q)[k])
  BY DEF MessageTypes
<1>2. CASE s # r \/ q # d
  BY <1>1, <1>2, SentOnWire
<1>3. CASE s = r /\ q = d
  <2>1. PICK n \in Nat : /\ Removed(OnTheWay(r, d)', OnTheWay(r, d), n, n + 1)
                         /\ OnTheWay(r, d)'[n + 1] = h
    BY SentOnWire
  <2> QED
    BY <1>1, <1>3, <2>1 DEF Removed, Skip
<1> QED
  BY <1>2, <1>3

LEMMA PostMessageTypes ==
    ASSUME PoolInv, MessageTypes, UNCHANGED world_size, NEW r \in Ranks, NEW s \in Ranks,
           post_header(r, s)
    PROVE  MessageTypes'
<1> DEFINE h == OnTheWay(s, r)[1]
           item == ReceivedHeader(r)
<1>1. /\ \A p, q \in Ranks : p # s \/ q # r => OnTheWay(p, q)' = OnTheWay(p, q)
      /\ \E n \in Nat : Removed(OnTheWay(s, r), OnTheWay(s, r)', n, 1)
      /\ h = Head(network[<<s, r>>]).header
  BY PostedFromWire
<1>2. PICK n \in Nat : Removed(OnTheWay(s, r), OnTheWay(s, r)', n, 1)
  BY <1>1
<1>3. Spoken(h) /\ \A i \in DOMAIN OnTheWay(s, r)' : Spoken(OnTheWay(s, r)'[i])
  BY <1>2 DEF MessageTypes, Removed, Skip
<1>4. \A p, q \in Ranks : \A i \in DOMAIN OnTheWay(p, q)' : Spoken(OnTheWay(p, q)'[i])
  BY <1>1, <1>3 DEF MessageTypes
<1>5. CASE UNCHANGED <<headers, received_header_queue>>
  BY <1>4, <1>5, QueueTypes_
<1>6. CASE ordered_recv(r, s) /\ received_header_queue' =
               [received_header_queue EXCEPT ![r] = Append(@, ReceivedHeader(r))]
  <2>1. headers' = [headers EXCEPT ![r] = Stored(headers[r], item, h)]
    BY <1>1, <1>6 DEF ordered_recv
  <2>2. /\ DOMAIN headers = Ranks /\ DOMAIN received_header_queue = Ranks
        /\ HeadersGood(header_pool[r], received_header_queue[r])
    BY DEF MessageTypes, PoolInv, RanksGood, RankGood
  <2>3. ToSet(received_header_queue'[r]) = ToSet(received_header_queue[r]) \cup {item}
    BY <1>6, <2>2, HeaderQueued DEF ReceivedHeader
  <2> HIDE DEF h, item
  <2>4. headers'[r] = Stored(headers[r], item, h)
    BY <2>1, <2>2
  <2>5. /\ DOMAIN headers'[r] = DOMAIN headers[r] \cup {item}
        /\ \A a \in DOMAIN headers'[r] : Spoken(headers'[r][a])
    BY <1>3, <2>4 DEF Stored, MessageTypes
  <2>6. \A q \in Ranks \ {r} : /\ headers'[q] = headers[q]
                               /\ received_header_queue'[q] = received_header_queue[q]
    BY <1>6, <2>1, <2>2
  <2>7. DOMAIN headers' = Ranks
    BY <2>1, <2>2
  <2> QED
    BY <1>4, <2>3, <2>5, <2>6, <2>7 DEF MessageTypes, Ranks, Spoken, Protocols
<1> QED
  BY <1>5, <1>6 DEF post_header, ordered_recv_and_drop

LEMMA NetworkTypes ==
    ASSUME MessageTypes, UNCHANGED <<world_size, network>>
    PROVE  \A s, r \in Ranks : \A i \in DOMAIN OnTheWay(s, r)' : Spoken(OnTheWay(s, r)'[i])
<1>1. \A s, r \in Ranks : OnTheWay(s, r)' = OnTheWay(s, r)
  BY DEF OnTheWay
<1> QED
  BY <1>1 DEF MessageTypes

\* The receives and datagrams that interrupted calls have left.
Parked(out) == out = <<>> \/ \E d : out = <<d>> /\ d.to \in Ranks /\ Spoken(d.header)
EpochsPosted ==
    \E S : /\ \A e \in S : e.epoch \in 0..Len(calls)
           /\ posted_request_queue \in [Ranks -> Seq(S)]
LeftTypes ==
    /\ caught \in [Ranks -> {"outside", "in_start", "posted"}]
    /\ DOMAIN outbox = Ranks /\ \A r \in Ranks : Parked(outbox[r])
    /\ EpochsPosted

LEMMA DatagramTypes ==
    ASSUME StateTypes, NEW r \in Ranks, NextIs(r, SendOperations)
    PROVE  /\ Datagram(r).to \in Ranks /\ Spoken(Datagram(r).header)
           /\ Parked(<<Datagram(r)>>)
<1>1. PICK step : step = Head(plan[r])
  OBVIOUS
<1>2. plan[r] \in Seq(AnyStep(world_size)) /\ plan[r] # <<>>
  BY DEF StateTypes, Sorts, NextIs
<1>3. step \in AnyStep(world_size)
  BY <1>1, <1>2
<1>4. step.peer \in Ranks
  BY <1>3 DEF AnyStep, Ranks
<1>5. Spoken(HeaderOf(r, decide(step.operation), Envelope(r, r)))
  BY DEF Spoken, HeaderOf, decide, Protocols
<1>6. Datagram(r).to \in Ranks /\ Spoken(Datagram(r).header)
  BY <1>1, <1>4, <1>5 DEF Datagram
<1> QED
  BY <1>6 DEF Parked

\* An epoch is no more than the calls of the program.
LEMMA EpochBound ==
    ASSUME NEW p, NEW c \in Nat
    PROVE  EpochOf(p, c) \in Nat /\ EpochOf(p, c) <= c
<1>1. IsFiniteSet(1..c) /\ Cardinality(1..c) = c
  BY FS_Interval
<1>2. {k \in 1..c : IsWrite(p[k])} \in SUBSET (1..c)
  OBVIOUS
<1> QED
  BY <1>1, <1>2, FS_Subset, FS_CardinalityType DEF EpochOf

LEMMA CountsBounded ==
    ASSUME AddressedCalls, StateTypes, NEW r \in Ranks
    PROVE  count[r] \in 0..Len(calls) /\ epoch[r] \in 0..Len(calls)
<1>1. count[r] \in Nat /\ epoch[r] \in Nat /\ Len(calls) \in Nat
  BY AddressFacts DEF StateTypes, Sorts
<1>2. count[r] <= Len(calls) /\ epoch[r] <= EpochOf(calls, count[r])
  BY DEF StateTypes, RankTypes, CountTypes
<1>3. EpochOf(calls, count[r]) \in Nat /\ EpochOf(calls, count[r]) <= count[r]
  BY <1>1, EpochBound
<1> QED
  BY <1>1, <1>2, <1>3

LEMMA PostedStep ==
    ASSUME AddressedCalls, StateTypes, EpochsPosted, UNCHANGED <<world_size, calls>>,
           NEW r \in Ranks, NEW posted, posted = posted_request_queue[r],
           \/ UNCHANGED posted_request_queue
           \/ Post(r)
           \/ posted_request_queue' = [posted_request_queue EXCEPT ![r] = <<>>]
           \/ \E i \in 1..Len(posted) :
                 posted_request_queue' = [posted_request_queue EXCEPT ![r] = RemoveAt(posted, i)]
    PROVE  EpochsPosted'
<1>1. PICK S : /\ \A e \in S : e.epoch \in 0..Len(calls)
               /\ posted_request_queue \in [Ranks -> Seq(S)]
  BY DEF EpochsPosted
<1>2. PICK envelope : envelope = Envelope(r, ReceiveOf(r)[1].peer)
  OBVIOUS
<1>3. envelope.epoch \in 0..Len(calls)
  BY <1>2, CountsBounded DEF Envelope
<1> DEFINE T == S \cup {envelope}
<1>4. /\ \A e \in T : e.epoch \in 0..Len(calls)
      /\ S \subseteq T /\ envelope \in T
  BY <1>1, <1>3
<1> HIDE DEF T
<1>5. posted_request_queue \in [Ranks -> Seq(T)]
  <2>1. \A q \in Ranks : posted_request_queue[q] \in Seq(T)
    BY <1>1, <1>4, SeqLarger
  <2> QED
    BY <1>1, <2>1
<1>6. posted \in Seq(T)
  BY <1>5
<1>7. posted_request_queue' \in [Ranks -> Seq(T)]
  <2>1. CASE Post(r)
    <3>1. posted_request_queue' = [posted_request_queue EXCEPT ![r] = Append(posted, envelope)]
      BY <1>2, <2>1 DEF Post
    <3>2. Append(posted, envelope) \in Seq(T)
      BY <1>4, <1>6
    <3> QED
      BY <1>5, <3>1, <3>2
  <2>2. CASE posted_request_queue' = [posted_request_queue EXCEPT ![r] = <<>>]
    <3>1. <<>> \in Seq(T)
      OBVIOUS
    <3> QED
      BY <1>5, <2>2, <3>1
  <2>3. ASSUME NEW i \in 1..Len(posted),
               posted_request_queue' = [posted_request_queue EXCEPT ![r] = RemoveAt(posted, i)]
        PROVE  posted_request_queue' \in [Ranks -> Seq(T)]
    <3>1. RemoveAt(posted, i) \in Seq(T)
      BY <1>6, RemoveAtElements
    <3> QED
      BY <1>5, <2>3, <3>1
  <2> QED
    BY <1>5, <2>1, <2>2, <2>3
<1> QED
  BY <1>4, <1>7 DEF EpochsPosted, Ranks

LEMMA LeftTypesFrom ==
    ASSUME LeftTypes, UNCHANGED <<world_size, calls>>, NEW r \in Ranks, EpochsPosted',
           \/ UNCHANGED caught
           \/ \E c \in {"outside", "in_start", "posted"} : caught' = [caught EXCEPT ![r] = c],
           \/ UNCHANGED outbox
           \/ \E out : Parked(out) /\ outbox' = [outbox EXCEPT ![r] = out]
    PROVE  LeftTypes'
<1>1. Ranks' = Ranks /\ \A out : Parked(out) <=> Parked(out)'
  BY DEF Ranks, Parked, Spoken, Protocols
<1>2. caught' \in [Ranks -> {"outside", "in_start", "posted"}]
  BY DEF LeftTypes
<1>3. DOMAIN outbox' = Ranks /\ \A q \in Ranks : Parked(outbox'[q])
  BY DEF LeftTypes
<1>4. \A q \in Ranks : Parked(outbox[q])'
  <2> SUFFICES ASSUME NEW q \in Ranks, NEW out, out = outbox'[q] PROVE Parked(outbox[q])'
    OBVIOUS
  <2>1. Parked(out)
    BY <1>3
  <2> QED
    BY <1>1, <2>1 DEF Parked, Ranks, Spoken, Protocols
<1> QED
  BY <1>1, <1>2, <1>3, <1>4 DEF LeftTypes

LEMMA LeftTypesStep ==
    ASSUME PoolInv, AddressedCalls, StateTypes, LeftTypes, [Next]_vars,
           UNCHANGED <<world_size, calls>>
    PROVE  LeftTypes'
<1>1. Parked(<<>>) /\ EpochsPosted /\ world_size' = world_size /\ Ranks # {}
  BY AddressFacts DEF Parked, LeftTypes, StateTypes
<1>2. ASSUME UNCHANGED leftVars PROVE LeftTypes'
  <2>1. PICK r \in Ranks : TRUE
    BY <1>1
  <2>2. EpochsPosted'
    BY <1>1, <1>2, <2>1, PostedStep DEF leftVars
  <2> QED
    BY <1>2, <2>1, <2>2, LeftTypesFrom DEF leftVars
<1>3. ASSUME NEW r \in Ranks, User(r) PROVE LeftTypes'
  <2>1. CASE Enter(r) \/ MPI_Send(r) \/ MPI_Recv(r) \/ Return(r)
    BY <1>2, <2>1 DEF Enter, MPI_Send, MPI_Recv, Return
  <2>2. CASE setErr(r)
    <3>1. /\ UNCHANGED posted_request_queue \/ Post(r)
          /\ \/ UNCHANGED caught
             \/ \E c \in {"outside", "in_start", "posted"} : caught' = [caught EXCEPT ![r] = c]
          /\ UNCHANGED outbox
      BY <2>2 DEF setErr, FindsReceive
    <3>2. EpochsPosted'
      BY <1>1, <3>1, PostedStep
    <3> QED
      BY <3>1, <3>2, LeftTypesFrom
  <2>3. CASE Abort(r)
    <3>1. /\ UNCHANGED posted_request_queue \/ Post(r)
          /\ caught' = [caught EXCEPT ![r] = "outside"]
          /\ \/ UNCHANGED outbox
             \/ NextIs(r, SendOperations) /\ outbox' = [outbox EXCEPT ![r] = <<Datagram(r)>>]
      BY <2>3 DEF Abort, MayQueueSend
    <3>2. EpochsPosted'
      BY <1>1, <3>1, PostedStep
    <3>3. PICK out : out = <<Datagram(r)>>
      OBVIOUS
    <3>4. UNCHANGED outbox \/ (Parked(out) /\ outbox' = [outbox EXCEPT ![r] = out])
      BY <3>1, <3>3, DatagramTypes
    <3> QED
      BY <3>1, <3>2, <3>4, LeftTypesFrom
  <2> QED
    BY <1>3, <2>1, <2>2, <2>3 DEF User
<1>4. ASSUME NEW r \in Ranks, NEW s \in Ranks, post_header(r, s) PROVE LeftTypes'
  <2>1. /\ UNCHANGED <<caught, outbox>>
        /\ \/ UNCHANGED posted_request_queue
           \/ posted_request_queue' = [posted_request_queue EXCEPT ![r] = <<>>]
    BY <1>4 DEF post_header, halt
  <2>2. EpochsPosted'
    BY <1>1, <2>1, PostedStep
  <2> QED
    BY <2>1, <2>2, LeftTypesFrom
<1>5. ASSUME NEW r \in Ranks, match_abandoned(r) PROVE LeftTypes'
  <2>1. PICK posted, match : /\ posted = posted_request_queue[r]
                             /\ match = FirstMatch(posted, Received(r))
    OBVIOUS
  <2>2. RankGood(r) /\ LeftGood /\ Wanted(r)
    BY <1>5 DEF PoolInv, RanksGood, match_abandoned
  <2>3. match[1] \in 1..Len(posted)
    BY <2>1, <2>2, AbandonedFinds
  <2>4. /\ UNCHANGED <<caught, outbox>>
        /\ posted_request_queue' = [posted_request_queue EXCEPT ![r] = RemoveAt(posted, match[1])]
    BY <1>5, <2>1 DEF match_abandoned
  <2>5. EpochsPosted'
    BY <1>1, <2>1, <2>3, <2>4, PostedStep
  <2> QED
    BY <2>4, <2>5, LeftTypesFrom
<1>6. ASSUME NEW r \in Ranks, handle_request(r) PROVE LeftTypes'
  <2>1. /\ UNCHANGED <<caught, posted_request_queue>>
        /\ outbox' = [outbox EXCEPT ![r] = <<>>]
    BY <1>6 DEF handle_request
  <2>2. EpochsPosted'
    BY <1>1, <2>1, PostedStep
  <2> QED
    BY <1>1, <2>1, <2>2, LeftTypesFrom
<1>7. ASSUME NEW r \in Ranks, Fail(r) PROVE LeftTypes'
  <2>1. /\ caught' = [caught EXCEPT ![r] = "outside"]
        /\ posted_request_queue' = [posted_request_queue EXCEPT ![r] = <<>>]
        /\ outbox' = [outbox EXCEPT ![r] = <<>>]
    BY <1>7 DEF Fail
  <2>2. EpochsPosted'
    BY <1>1, <2>1, PostedStep
  <2> QED
    BY <1>1, <2>1, <2>2, LeftTypesFrom
<1>8. Recover \/ UNCHANGED vars => LeftTypes'
  BY <1>2 DEF Recover, vars
<1> QED
  BY <1>3, <1>4, <1>5, <1>6, <1>7, <1>8 DEF Next, Work, Failure, ProgressThread

LEMMA SendMessageTypes ==
    ASSUME PoolInv, MessageTypes, StateTypes, UNCHANGED world_size, NEW r \in Ranks, MPI_Send(r)
    PROVE  MessageTypes'
<1>1. PICK datagram : datagram = Datagram(r)
  OBVIOUS
<1>2. /\ NextIs(r, SendOperations)
      /\ reliable_send(r, datagram.to, datagram.header, 1, datagram.payload)
      /\ UNCHANGED <<received_header_queue, headers>>
  BY <1>1 DEF MPI_Send, poolVars
<1>3. datagram.to \in Ranks /\ Spoken(datagram.header)
  BY <1>1, <1>2, DatagramTypes
<1> QED
  BY <1>2, <1>3, SentTypes, QueueTypes_

\* The progress thread sends what is left in an outbox.
LEMMA RequestMessageTypes ==
    ASSUME PoolInv, MessageTypes, LeftTypes, UNCHANGED world_size, NEW r \in Ranks,
           handle_request(r)
    PROVE  MessageTypes'
<1>1. PICK datagram : outbox[r] = <<datagram>> /\ datagram.to \in Ranks /\ Spoken(datagram.header)
  BY DEF LeftTypes, Parked, handle_request
<1>2. Head(<<datagram>>) = datagram
  OBVIOUS
<1>3. /\ reliable_send(r, datagram.to, datagram.header, 1, datagram.payload)
      /\ UNCHANGED <<received_header_queue, headers>>
  BY <1>1, <1>2 DEF handle_request, poolVars
<1> QED
  BY <1>1, <1>3, SentTypes, QueueTypes_

\* A message is taken from the queue, and perhaps answered.
LEMMA TakenMessageTypes ==
    ASSUME PoolInv, MessageTypes, UNCHANGED world_size, NEW r \in Ranks,
           NEW queued, queued = received_header_queue[r], NEW p \in 1..Len(queued),
           NEW h, h = queued[p], NEW protocol, NEW envelope, NEW content,
           handle_match(r, h, protocol, envelope, content),
           received_header_queue' = [received_header_queue EXCEPT ![r] = RemoveAt(queued, p)]
    PROVE  MessageTypes'
<1>1. queued = received_header_queue[r]
  OBVIOUS
<1>3. h = queued[p]
  OBVIOUS
<1>4. /\ HeadersGood(header_pool[r], queued) /\ p \in 1..Len(queued)
      /\ DOMAIN headers = Ranks /\ DOMAIN received_header_queue = Ranks
  BY DEF PoolInv, RanksGood, RankGood
<1>5. /\ received_header_queue' = [received_header_queue EXCEPT ![r] = RemoveAt(queued, p)]
      /\ headers' = [headers EXCEPT ![r] = Without(headers[r], h)]
  BY DEF handle_match, fill, release_header
<1>6. ToSet(RemoveAt(queued, p)) = ToSet(queued) \ {h}
  BY <1>3, <1>4, HeaderReleased
<1>7. /\ \A q \in Ranks : DOMAIN headers'[q] = ToSet(received_header_queue'[q])
      /\ \A q \in Ranks : \A a \in DOMAIN headers'[q] : Spoken(headers'[q][a])
      /\ DOMAIN headers' = Ranks
  <2>1. headers'[r] = Without(headers[r], h) /\ received_header_queue'[r] = RemoveAt(queued, p)
    BY <1>4, <1>5
  <2>2. \A q \in Ranks \ {r} : /\ headers'[q] = headers[q]
                               /\ received_header_queue'[q] = received_header_queue[q]
    BY <1>4, <1>5
  <2>3. DOMAIN headers' = Ranks
    BY <1>4, <1>5
  <2>4. ASSUME NEW q \in Ranks
        PROVE  /\ DOMAIN headers'[q] = ToSet(received_header_queue'[q])
               /\ \A a \in DOMAIN headers'[q] : Spoken(headers'[q][a])
    <3>1. /\ DOMAIN headers[q] = ToSet(received_header_queue[q])
          /\ \A a \in DOMAIN headers[q] : Spoken(headers[q][a])
      BY <1>1 DEF MessageTypes
    <3>2. CASE q # r
      BY <2>2, <3>1, <3>2
    <3>3. CASE q = r
      BY <1>1, <1>6, <2>1, <3>1, <3>3 DEF Without
    <3> QED
      BY <3>2, <3>3
  <2> QED
    BY <2>3, <2>4
<1>8. \A s, q \in Ranks : \A i \in DOMAIN OnTheWay(s, q)' : Spoken(OnTheWay(s, q)'[i])
  <2>1. CASE UNCHANGED network
    BY <2>1, NetworkTypes
  <2>2. CASE reliable_send(r, r, HeaderOf(r, "ACK", envelope), 1, content)
    <3>1. Spoken(HeaderOf(r, "ACK", envelope))
      BY DEF Spoken, HeaderOf, Protocols
    <3> QED
      BY <2>2, <3>1, SentTypes
  <2> QED
    BY <2>1, <2>2 DEF handle_match
<1> QED
  BY <1>7, <1>8 DEF MessageTypes, Ranks, Spoken, Protocols

LEMMA RecvMessageTypes ==
    ASSUME PoolInv, MessageTypes, UNCHANGED world_size, NEW r \in Ranks, MPI_Recv(r)
    PROVE  MessageTypes'
<1>1. RankGood(r) /\ Matching(r)
  BY DEF PoolInv, RanksGood, MPI_Recv
<1>2. PICK queued, p : queued = received_header_queue[r] /\ p = Position(r)
  OBVIOUS
<1>3. p \in 1..Len(queued)
  BY <1>1, <1>2, RecvFinds
<1>4. /\ \E protocol, envelope, content : handle_match(r, queued[p], protocol, envelope, content)
      /\ received_header_queue' = [received_header_queue EXCEPT ![r] = RemoveAt(queued, p)]
  BY <1>2 DEF MPI_Recv
<1> QED
  BY <1>2, <1>3, <1>4, TakenMessageTypes

LEMMA AbandonedMessageTypes ==
    ASSUME PoolInv, MessageTypes, UNCHANGED world_size, NEW r \in Ranks, match_abandoned(r)
    PROVE  MessageTypes'
<1>1. RankGood(r) /\ LeftGood /\ Wanted(r)
  BY DEF PoolInv, RanksGood, match_abandoned
<1>2. PICK queued, p : /\ queued = received_header_queue[r]
                       /\ p = FirstMatch(posted_request_queue[r], Received(r))[2]
  OBVIOUS
<1>3. p \in 1..Len(queued)
  BY <1>1, <1>2, AbandonedFinds
<1>4. /\ \E protocol, envelope, content : handle_match(r, queued[p], protocol, envelope, content)
      /\ received_header_queue' = [received_header_queue EXCEPT ![r] = RemoveAt(queued, p)]
  BY <1>2 DEF match_abandoned
<1> QED
  BY <1>2, <1>3, <1>4, TakenMessageTypes

LEMMA SetErrMessageTypes ==
    ASSUME PoolInv, MessageTypes, UNCHANGED world_size, NEW r \in Ranks, setErr(r)
    PROVE  MessageTypes'
<1>1. UNCHANGED <<received_header_queue, headers>>
      /\ (UNCHANGED network \/ reliable_send(r, r, Cleanup(r), 0, 0))
  BY DEF setErr, poolVars
<1>2. Spoken(Cleanup(r))
  BY DEF Spoken, Cleanup, Protocols
<1>3. \A s, q \in Ranks : \A i \in DOMAIN OnTheWay(s, q)' : Spoken(OnTheWay(s, q)'[i])
  BY <1>1, <1>2, NetworkTypes, SentTypes
<1> QED
  BY <1>1, <1>3, QueueTypes_

LEMMA RecoverMessageTypes ==
    ASSUME PoolInv, MessageTypes, UNCHANGED world_size, Recover
    PROVE  MessageTypes'
<1>1. /\ received_header_queue' = [received_header_queue EXCEPT ![failed] = <<>>]
      /\ headers' = [headers EXCEPT ![failed] = NoMemory]
      /\ network' = [pair \in Ranks \X Ranks |-> IF pair[2] = failed THEN <<>> ELSE network[pair]]
  BY DEF Recover, load, RestartTransport
<1>2. DOMAIN headers = Ranks /\ DOMAIN received_header_queue = Ranks
  BY DEF PoolInv, RanksGood
<1>3. ASSUME NEW s \in Ranks, NEW r \in Ranks, NEW i \in DOMAIN OnTheWay(s, r)'
      PROVE  Spoken(OnTheWay(s, r)'[i])
  <2>1. r # failed
    BY <1>1, <1>3 DEF OnTheWay
  <2>2. OnTheWay(s, r)' = OnTheWay(s, r)
    BY <1>1, <2>1 DEF OnTheWay
  <2> QED
    BY <1>3, <2>2 DEF MessageTypes
<1>4. ASSUME NEW r \in Ranks
      PROVE  /\ DOMAIN headers'[r] = ToSet(received_header_queue'[r])
             /\ \A h \in DOMAIN headers'[r] : Spoken(headers'[r][h])
  <2>1. CASE r = failed
    <3>1. headers'[r] = NoMemory /\ received_header_queue'[r] = <<>>
      BY <1>1, <1>2, <2>1
    <3> QED
      BY <3>1 DEF NoMemory, ToSet
  <2>2. CASE r # failed
    BY <1>1, <1>2, <2>2 DEF MessageTypes
  <2> QED
    BY <2>1, <2>2
<1>5. DOMAIN headers' = Ranks
  BY <1>1, <1>2
<1> QED
  BY <1>3, <1>4, <1>5 DEF MessageTypes, Ranks, Spoken, Protocols

LEMMA MessageTypesStay ==
    ASSUME MessageTypes, UNCHANGED <<world_size, received_header_queue, headers, network>>
    PROVE  MessageTypes'
BY NetworkTypes, QueueTypes_

LEMMA MessageTypeStart == Init => MessageTypes
<1> SUFFICES ASSUME Init PROVE MessageTypes
  OBVIOUS
<1>1. /\ headers = [r \in Ranks |-> NoMemory]
      /\ received_header_queue = [r \in Ranks |-> <<>>]
      /\ network = [pair \in Ranks \X Ranks |-> <<>>]
  BY DEF Init, TransportInit
<1>2. DOMAIN NoMemory = {} /\ ToSet(<<>>) = {}
  BY DEF NoMemory, ToSet
<1>3. \A s, r \in Ranks : DOMAIN OnTheWay(s, r) = {}
  BY <1>1 DEF OnTheWay
<1> QED
  BY <1>1, <1>2, <1>3 DEF MessageTypes

(***************************************************************************)
(* While no recovery was disturbed, handles are of communicators.          *)
(***************************************************************************)
Valid(h, comms) == \A i \in DOMAIN h : h[i] \in 0..(Len(comms) - 1)
Shorter(a, b) == Len(a) <= Len(b)
FileHandles(r) ==
    /\ \A k \in DOMAIN files[r] : Valid(files[r][k].handles, files[r][k].communicators)
    /\ \A k \in 0..(epoch[r] - 1) : Shorter(files[r][k].communicators, communicators[r])
    /\ \A k, l \in 0..(epoch[r] - 1) :
          k <= l => Shorter(files[r][k].communicators, files[r][l].communicators)
HandleTypes(r) == Valid(handles[r], communicators[r]) /\ FileHandles(r)
RangeInv == ~disturbed => \A r \in Ranks : HandleTypes(r)

LEMMA HandleTypesKept ==
    ASSUME NEW r, HandleTypes(r), epoch'[r] = epoch[r], files'[r] = files[r],
           handles'[r] = handles[r], communicators'[r] = communicators[r]
    PROVE  HandleTypes(r)'
BY DEF HandleTypes, FileHandles, Valid, Shorter

LEMMA RangesKept ==
    ASSUME RangeInv, UNCHANGED <<world_size, disturbed, epoch, files, handles, communicators>>
    PROVE  RangeInv'
<1>1. ASSUME NEW r, HandleTypes(r) PROVE HandleTypes(r)'
  BY <1>1, HandleTypesKept
<1> QED
  BY <1>1 DEF RangeInv, Ranks

\* The first communicator with a context that one of them has is one of them.
LEMMA HandleInRange ==
    ASSUME NEW comms, Sequence(comms), NEW x, Known(comms, x)
    PROVE  /\ HandleOf(comms, x) \in 0..(Len(comms) - 1)
           /\ comms[HandleOf(comms, x) + 1].pt2pt = x
<1>1. PICK T : comms \in Seq(T)
  BY DEF Sequence
<1>2. Len(comms) \in Nat /\ DOMAIN comms = 1..Len(comms)
  BY <1>1
<1> DEFINE S == {i \in 1..Len(comms) : comms[i].pt2pt = x}
<1>3. S \subseteq Nat /\ S # {}
  BY <1>2 DEF Known
<1> HIDE DEF S
<1>4. PICK m \in S : \A y \in S : m <= y
  <2>1. PICK m : m = CHOOSE n \in S : \A y \in S : n =< y
    OBVIOUS
  <2> QED
    BY <1>3, <2>1, LeastNumber
<1> USE DEF S
<1>5. /\ m \in DOMAIN comms /\ comms[m].pt2pt = x
      /\ \A j \in 1..(m - 1) : comms[j].pt2pt # x
  <2>1. m \in 1..Len(comms) /\ comms[m].pt2pt = x
    BY <1>4
  <2>2. ASSUME NEW j \in 1..(m - 1), comms[j].pt2pt = x PROVE FALSE
    <3>1. j \in S /\ j < m
      BY <1>2, <2>1, <2>2
    <3> QED
      BY <1>4, <2>1, <3>1
  <2> QED
    BY <1>2, <2>1, <2>2
<1> DEFINE c == CHOOSE i \in DOMAIN comms :
                   comms[i].pt2pt = x /\ \A j \in 1..(i - 1) : comms[j].pt2pt # x
<1>6. c \in DOMAIN comms /\ comms[c].pt2pt = x
  BY <1>5
<1>7. HandleOf(comms, x) = c - 1
  BY DEF HandleOf
<1> HIDE DEF c
<1> QED
  BY <1>2, <1>6, <1>7

LEMMA LengthTypes ==
    ASSUME StateTypes, NEW r \in Ranks
    PROVE  /\ Len(communicators[r]) \in Nat /\ Len(communicators[r]) > 0
           /\ \A k \in DOMAIN files[r] : /\ Len(files[r][k].communicators) \in Nat
                                         /\ Len(files[r][k].communicators) > 0
<1>1. ASSUME NEW comms, WorldFirst(comms, r) PROVE Len(comms) \in Nat /\ Len(comms) > 0
  <2>1. PICK T : comms \in Seq(T)
    BY <1>1 DEF WorldFirst, Sequence
  <2> QED
    BY <1>1, <2>1 DEF WorldFirst
<1>2. WorldFirst(communicators[r], r)
  BY DEF StateTypes, RankTypes, CommTypes
<1>3. \A k \in DOMAIN files[r] : WorldFirst(files[r][k].communicators, r)
  BY DEF StateTypes, RankTypes, FileTypes, SomeFile
<1> QED
  BY <1>1, <1>2, <1>3

LEMMA ReturnHandles ==
    ASSUME AddressedCalls, StateTypes, NEW r \in Ranks, Return(r),
           Valid(handles[r], communicators[r])
    PROVE  /\ Valid(handles'[r], communicators'[r])
           /\ Len(communicators'[r]) \in Nat /\ Shorter(communicators[r], communicators'[r])
<1>1. CASE UNCHANGED <<communicators, handles>>
  BY <1>1, LengthTypes DEF Shorter
<1>2. CASE \E x : Registers(r, x)
  <2>1. PICK e, x : /\ communicators'[r] = Append(communicators[r], e) /\ e.pt2pt = x
                    /\ handles'[r] = Append(handles[r], HandleOf(communicators'[r], x))
    <3>1. PICK e, x : /\ communicators'[r] = Append(communicators[r], e)
                      /\ handles'[r] = Append(handles[r], HandleOf(Append(communicators[r], e), x))
                      /\ e = [rank |-> r, pt2pt |-> x, coll |-> e.coll, local |-> 0]
      BY <1>2 DEF Registers
    <3>2. e.pt2pt = x
      BY <3>1
    <3> QED
      BY <3>1, <3>2
  <2>2. PICK comms : comms = communicators'[r]
    OBVIOUS
  <2>3. WorldFirst(communicators[r], r) /\ Starts(handles[r])
    BY DEF StateTypes, RankTypes, CommTypes
  <2>4. PICK S : communicators[r] \in Seq(S)
    BY <2>3 DEF WorldFirst, Sequence
  <2>5. communicators[r] \in Seq(S \cup {e})
    BY <2>4, SeqLarger
  <2>6. /\ comms \in Seq(S \cup {e}) /\ Len(comms) = Len(communicators[r]) + 1
        /\ comms[Len(comms)] = e /\ Len(comms) \in DOMAIN comms
    BY <2>1, <2>2, <2>5
  <2>7. Sequence(comms) /\ Known(comms, x)
    BY <2>1, <2>6 DEF Sequence, Known
  <2>8. HandleOf(comms, x) \in 0..(Len(comms) - 1)
    BY <2>7, HandleInRange
  <2>9. PICK T : handles[r] \in Seq(T)
    BY <2>3 DEF Starts, Sequence
  <2>10. handles[r] \in Seq(T \cup {HandleOf(comms, x)})
    BY <2>9, SeqLarger
  <2>11. \A i \in DOMAIN handles'[r] :
            handles'[r][i] = HandleOf(comms, x)
              \/ (i \in DOMAIN handles[r] /\ handles'[r][i] = handles[r][i])
    BY <2>1, <2>2, <2>10
  <2>12. Len(communicators[r]) \in Nat
    BY LengthTypes
  <2>13. \A n \in 0..(Len(communicators[r]) - 1) : n \in 0..(Len(comms) - 1)
    BY <2>6, <2>12
  <2>14. Valid(handles'[r], comms)
    BY <2>8, <2>11, <2>13 DEF Valid
  <2> QED
    BY <2>2, <2>6, <2>12, <2>14 DEF Shorter
<1> QED
  BY <1>1, <1>2, ReturnRegisters

LEMMA ReturnRange ==
    ASSUME AddressedCalls, StateTypes, UNCHANGED world_size, NEW r \in Ranks, Return(r),
           HandleTypes(r)
    PROVE  HandleTypes(r)'
<1> SUFFICES ASSUME NEW c, c = count[r] + 1 PROVE HandleTypes(r)'
  OBVIOUS
<1>1. PICK comms : comms = communicators'[r]
  OBVIOUS
<1>2. /\ Valid(handles'[r], comms) /\ Len(comms) \in Nat /\ Len(communicators[r]) <= Len(comms)
  BY <1>1, ReturnHandles DEF HandleTypes, Shorter
<1>3. /\ epoch[r] \in Nat /\ 0..(epoch[r] - 1) \subseteq DOMAIN files[r]
      /\ Len(communicators[r]) \in Nat
      /\ \A k \in DOMAIN files[r] : Len(files[r][k].communicators) \in Nat
  BY LengthTypes DEF StateTypes, Sorts, RankTypes, FileTypes
<1>4. FileHandles(r) /\ Valid(handles[r], communicators[r])
  BY DEF HandleTypes
<1>5. CASE /\ DOMAIN files'[r] = DOMAIN files[r] \cup {epoch[r]}
           /\ files'[r][epoch[r]] = File(r, c)
           /\ \A k \in DOMAIN files[r] : k # epoch[r] => files'[r][k] = files[r][k]
           /\ epoch'[r] = epoch[r] \/ epoch'[r] = epoch[r] + 1
  <2>1. PICK g : g = files'[r]
    OBVIOUS
  <2>2. g[epoch[r]].handles = handles[r] /\ g[epoch[r]].communicators = communicators[r]
    BY <1>5, <2>1 DEF File
  <2>3. \A k \in DOMAIN g : Valid(g[k].handles, g[k].communicators)
    BY <1>4, <1>5, <2>1, <2>2 DEF FileHandles
  <2>4. \A k \in 0..(epoch[r] - 1) : g[k] = files[r][k]
    BY <1>3, <1>5, <2>1
  <2>5. ASSUME NEW k \in 0..(epoch'[r] - 1)
        PROVE  (k \in 0..(epoch[r] - 1) /\ g[k] = files[r][k]) \/ k = epoch[r]
    BY <1>3, <1>5, <2>4
  <2>6. ASSUME NEW k \in 0..(epoch'[r] - 1) PROVE Len(g[k].communicators) <= Len(communicators[r])
    BY <1>3, <1>4, <2>2, <2>5 DEF FileHandles, Shorter
  <2>7. ASSUME NEW k \in 0..(epoch'[r] - 1), NEW l \in 0..(epoch'[r] - 1), k <= l
        PROVE  Len(g[k].communicators) <= Len(g[l].communicators)
    <3>1. CASE l = epoch[r]
      BY <2>2, <2>6, <3>1
    <3>2. CASE l \in 0..(epoch[r] - 1) /\ g[l] = files[r][l]
      BY <1>3, <1>4, <2>5, <2>7, <3>2 DEF FileHandles, Shorter
    <3> QED
      BY <2>5, <3>1, <3>2
  <2>8. ASSUME NEW k \in 0..(epoch'[r] - 1) PROVE Len(g[k].communicators) <= Len(comms)
    <3>1. Len(g[k].communicators) \in Nat
      BY <1>3, <2>2, <2>5
    <3> QED
      BY <1>2, <1>3, <2>6, <3>1
  <2> QED
    BY <1>1, <1>2, <2>1, <2>3, <2>7, <2>8 DEF HandleTypes, FileHandles, Valid, Shorter
<1>6. ASSUME epoch' = epoch, DOMAIN files'[r] = DOMAIN files[r], NEW contexts,
             \A k \in DOMAIN files[r] :
                 \/ files'[r][k] = files[r][k]
                 \/ files'[r][k] = [files[r][k] EXCEPT !.contexts = @ \o contexts]
      PROVE  HandleTypes(r)'
  <2>1. \A k \in DOMAIN files[r] : /\ files'[r][k].handles = files[r][k].handles
                                   /\ files'[r][k].communicators = files[r][k].communicators
    <3> SUFFICES ASSUME NEW k \in DOMAIN files[r], NEW f, f = files[r][k], NEW g, g = files'[r][k]
                 PROVE  g.handles = f.handles /\ g.communicators = f.communicators
      OBVIOUS
    <3>1. DOMAIN f = {"groups", "communicators", "cache", "count", "handles", "contexts"}
      BY DEF StateTypes, RankTypes, FileTypes, SomeFile
    <3>2. g = f \/ g = [f EXCEPT !.contexts = @ \o contexts]
      BY <1>6
    <3> QED
      BY <3>1, <3>2
  <2>2. /\ \A k \in DOMAIN files'[r] : Valid(files'[r][k].handles, files'[r][k].communicators)
        /\ \A k, l \in 0..(epoch'[r] - 1) :
              k <= l => Shorter(files'[r][k].communicators, files'[r][l].communicators)
    BY <1>3, <1>4, <1>6, <2>1 DEF FileHandles
  <2>3. ASSUME NEW k \in 0..(epoch'[r] - 1) PROVE Shorter(files'[r][k].communicators, comms)
    <3>1. k \in 0..(epoch[r] - 1) /\ k \in DOMAIN files[r]
      BY <1>3, <1>6
    <3>2. Len(files[r][k].communicators) <= Len(communicators[r])
      BY <1>4, <3>1 DEF FileHandles, Shorter
    <3> QED
      BY <1>2, <1>3, <2>1, <3>1, <3>2 DEF Shorter
  <2> QED
    BY <1>1, <1>2, <2>2, <2>3 DEF HandleTypes, FileHandles, Valid, Shorter
<1> QED
  BY <1>5, <1>6, ReturnWrites

LEMMA RecoverRange ==
    ASSUME AddressedCalls, StateTypes, UNCHANGED world_size, Recover, ~disturbed',
           NEW r \in Ranks, HandleTypes(r)
    PROVE  HandleTypes(r)'
<1> SUFFICES ASSUME NEW C, C = Committed PROVE HandleTypes(r)'
  OBVIOUS
<1>1. /\ C \in Nat /\ C <= epoch[r] /\ Sorts /\ epoch[r] \in Nat
      /\ 0..(epoch[r] - 1) \subseteq DOMAIN files[r] /\ FileHandles(r)
  BY CommittedLeast DEF StateTypes, Sorts, RankTypes, FileTypes, HandleTypes
<1>2. EpochAfter(r) = C /\ (r # failed => ~HandlesLost(r, C))
  <2>1. EpochAfter(failed) = C /\ (r # failed => ~HandlesLost(r, C))
    BY DEF Recover, Survivors
  <2> QED
    BY <2>1 DEF EpochAfter
<1> DEFINE file == files[r][C - 1]
<1>3. /\ epoch'[r] = C /\ files' = files /\ handles'[r] = HandlesAfter(r, failed, C)
      /\ communicators' = [communicators EXCEPT ![failed] =
                               IF C = 0 THEN <<WorldComm(failed)>>
                               ELSE files[failed][C - 1].communicators]
  BY <1>2 DEF Recover, load
<1>4. DOMAIN communicators = Ranks /\ WorldFirst(communicators[r], r)
  BY <1>1 DEF StateTypes, Sorts, RankTypes, CommTypes
<1>5. communicators'[r] = IF r # failed THEN communicators[r]
                          ELSE IF C = 0 THEN <<WorldComm(r)>> ELSE file.communicators
  BY <1>3, <1>4
<1>6. PICK comms : comms = communicators'[r]
  OBVIOUS
<1>7. Len(comms) \in Nat /\ Len(comms) > 0
      /\ \A k \in DOMAIN files[r] : Len(files[r][k].communicators) \in Nat
  <2>1. C # 0 => C - 1 \in DOMAIN files[r]
    BY <1>1
  <2>2. Len(<<WorldComm(r)>>) = 1
    OBVIOUS
  <2> QED
    BY <1>5, <1>6, <2>1, <2>2, LengthTypes
<1>8. C # 0 => /\ C - 1 \in 0..(epoch[r] - 1) /\ SomeFile(r, C - 1, file)
               /\ Valid(file.handles, file.communicators)
               /\ Len(file.communicators) <= Len(communicators[r])
  <2>1. C # 0 => C - 1 \in 0..(epoch[r] - 1)
    BY <1>1
  <2> QED
    BY <1>1, <2>1, FileOfEpoch DEF FileHandles, Shorter
<1> HIDE DEF file
<1>9. Valid(handles'[r], comms)
  <2>1. CASE C = 0
    <3>1. handles'[r] = <<0>>
      BY <1>3, <2>1 DEF HandlesAfter, MPI_COMM_WORLD
    <3>2. DOMAIN <<0>> = {1} /\ <<0>>[1] = 0
      OBVIOUS
    <3> QED
      BY <1>7, <3>1, <3>2 DEF Valid
  <2>2. CASE C # 0 /\ (r = failed \/ ~registered[r])
    <3>1. handles'[r] = file.handles
      BY <1>3, <2>2 DEF HandlesAfter, file
    <3>2. Len(file.communicators) <= Len(comms) /\ Len(file.communicators) \in Nat
      BY <1>1, <1>5, <1>6, <1>7, <1>8, <2>2 DEF file
    <3>3. \A n \in 0..(Len(file.communicators) - 1) : n \in 0..(Len(comms) - 1)
      BY <1>7, <3>2
    <3> QED
      BY <1>8, <2>2, <3>1, <3>3 DEF Valid
  <2>3. CASE C # 0 /\ r # failed /\ registered[r]
    <3>1. \A i \in DOMAIN file.handles : Known(comms, file.contexts[i])
      BY <1>1, <1>2, <1>5, <1>6, <2>3 DEF HandlesLost, file
    <3>2. handles'[r] = [i \in 1..Len(file.handles) |-> HandleOf(comms, file.contexts[i])]
      BY <1>2, <1>3, <1>5, <1>6, <2>3 DEF HandlesAfter, MPIX_Deserialize_handles, file
    <3>3. PICK S : file.handles \in Seq(S)
      BY <1>8, <2>3 DEF SomeFile, Starts, Sequence
    <3>4. DOMAIN file.handles = 1..Len(file.handles)
      BY <3>3
    <3>5. Sequence(comms)
      BY <1>4, <1>5, <1>6, <2>3 DEF WorldFirst
    <3> QED
      BY <3>1, <3>2, <3>4, <3>5, HandleInRange DEF Valid
  <2> QED
    BY <2>1, <2>2, <2>3
<1>10. ASSUME NEW k \in 0..(C - 1) PROVE Len(files[r][k].communicators) <= Len(comms)
  <2>1. k \in 0..(epoch[r] - 1) /\ C # 0 /\ k <= C - 1
    BY <1>1
  <2>2. CASE r # failed
    BY <1>1, <1>5, <1>6, <2>1, <2>2 DEF FileHandles, Shorter
  <2>3. CASE r = failed
    BY <1>1, <1>5, <1>6, <1>8, <2>1, <2>3 DEF FileHandles, Shorter, file
  <2> QED
    BY <2>2, <2>3
<1>11. \A k, l \in 0..(C - 1) :
          k <= l => Len(files[r][k].communicators) <= Len(files[r][l].communicators)
  <2>1. \A k \in 0..(C - 1) : k \in 0..(epoch[r] - 1)
    BY <1>1
  <2> QED
    BY <1>1, <2>1 DEF FileHandles, Shorter
<1>12. \A k \in DOMAIN files[r] : Valid(files[r][k].handles, files[r][k].communicators)
  BY <1>1 DEF FileHandles
<1> QED
  BY <1>3, <1>6, <1>9, <1>10, <1>11, <1>12 DEF HandleTypes, FileHandles, Valid, Shorter

(***************************************************************************)
(* All together.                                                           *)
(***************************************************************************)
TypeInv == StateTypes /\ MessageTypes /\ LeftTypes /\ RangeInv

LEMMA TypeInit == Init => TypeInv
<1> SUFFICES ASSUME Init PROVE RangeInv /\ LeftTypes
  BY TypeStart, MessageTypeStart DEF TypeInv
<1>1. /\ handles = [r \in Ranks |-> <<0>>] /\ communicators = [r \in Ranks |-> <<WorldComm(r)>>]
      /\ files = [r \in Ranks |-> [k \in {} |-> 0]] /\ epoch = [r \in Ranks |-> 0]
  BY DEF Init, CommInit, CheckpointInit, MPI_COMM_WORLD
<1>2. ASSUME NEW r \in Ranks PROVE HandleTypes(r)
  <2>1. handles[r] = <<0>> /\ communicators[r] = <<WorldComm(r)>> /\ DOMAIN files[r] = {}
        /\ epoch[r] = 0
    BY <1>1
  <2>2. DOMAIN <<0>> = {1} /\ <<0>>[1] = 0 /\ Len(<<WorldComm(r)>>) = 1
    OBVIOUS
  <2> QED
    BY <2>1, <2>2 DEF HandleTypes, FileHandles, Valid
<1>3. LeftTypes
  <2>1. /\ posted_request_queue = [r \in Ranks |-> <<>>]
        /\ caught = [r \in Ranks |-> "outside"] /\ outbox = [r \in Ranks |-> <<>>]
    BY DEF Init
  <2>2. posted_request_queue \in [Ranks -> Seq({})]
    BY <2>1
  <2> QED
    BY <2>1, <2>2 DEF LeftTypes, Parked, EpochsPosted
<1> QED
  BY <1>2, <1>3 DEF RangeInv

LEMMA AddressesStay ==
    ASSUME [Next]_vars, AddressedCalls'
    PROVE  AddressedCalls /\ UNCHANGED <<world_size, calls>>
<1>1. UNCHANGED <<world_size, calls>>
  <2>1. ASSUME NEW r \in Ranks, User(r) PROVE calls' = calls
    BY <2>1 DEF User, Enter, MPI_Send, MPI_Recv, Return, setErr, Abort, callVars
  <2>2. ASSUME NEW r \in Ranks, ProgressThread(r) PROVE calls' = calls
    BY <2>2 DEF ProgressThread, post_header, match_abandoned, handle_request, callVars
  <2>3. Recover => calls' = calls
    BY DEF Recover
  <2>4. ASSUME NEW r \in Ranks, Fail(r) PROVE calls' = calls
    BY <2>4 DEF Fail
  <2> QED
    BY <2>1, <2>2, <2>3, <2>4 DEF Next, Work, Failure, vars, callVars
<1>2. \A k \in DOMAIN calls : calls[k].comm = 1 /\ \A r \in Ranks : Plan(r, k) \in Seq(AnyStep(world_size))
  BY <1>1, RigidFacts DEF AddressedCalls, AnyStep, Rigid, Plan
<1> QED
  BY <1>1, <1>2 DEF AddressedCalls

LEMMA TypeStep ==
    PoolInv /\ (AddressedCalls => TypeInv) /\ [Next]_vars => (AddressedCalls => TypeInv)'
<1> SUFFICES ASSUME PoolInv, AddressedCalls => TypeInv, [Next]_vars, AddressedCalls'
             PROVE  TypeInv'
  OBVIOUS
<1>1. AddressedCalls /\ UNCHANGED <<world_size, calls>> /\ StateTypes
      /\ MessageTypes /\ LeftTypes /\ RangeInv
  BY AddressesStay DEF TypeInv
<1>12. LeftTypes'
  BY <1>1, LeftTypesStep
<1>2. ASSUME NEW r \in Ranks, Enter(r) PROVE TypeInv'
  <2>1. StateTypes'
    BY <1>1, <1>2, EnterTypes
  <2>2. UNCHANGED <<disturbed, epoch, files, handles, communicators, received_header_queue,
                    headers, network>>
    BY <1>2 DEF Enter, faultVars, checkpointVars, transportVars, poolVars
  <2> QED
    BY <1>1, <1>12, <2>1, <2>2, RangesKept, MessageTypesStay DEF TypeInv
<1>3. ASSUME NEW r \in Ranks, MPI_Send(r) PROVE TypeInv'
  <2>1. StateTypes' /\ MessageTypes'
    BY <1>1, <1>3, SendTypes, SendMessageTypes
  <2>2. UNCHANGED <<disturbed, epoch, files, handles, communicators>>
    BY <1>3 DEF MPI_Send, faultVars, checkpointVars, commVars
  <2> QED
    BY <1>1, <1>12, <2>1, <2>2, RangesKept DEF TypeInv
<1>4. ASSUME NEW r \in Ranks, MPI_Recv(r) PROVE TypeInv'
  <2>1. StateTypes' /\ MessageTypes'
    BY <1>1, <1>4, RecvTypes, RecvMessageTypes
  <2>2. UNCHANGED <<disturbed, epoch, files, handles, communicators>>
    BY <1>4 DEF MPI_Recv, faultVars, checkpointVars, commVars
  <2> QED
    BY <1>1, <1>12, <2>1, <2>2, RangesKept DEF TypeInv
<1>5. ASSUME NEW r \in Ranks, Return(r) PROVE TypeInv'
  <2>1. StateTypes'
    BY <1>1, <1>5, ReturnTypes
  <2>2. UNCHANGED <<received_header_queue, headers, network, disturbed>>
    BY <1>5 DEF Return, transportVars, poolVars, faultVars
  <2>3. ASSUME ~disturbed, NEW q \in Ranks PROVE HandleTypes(q)'
    <3>1. HandleTypes(q)
      BY <1>1, <2>3 DEF RangeInv
    <3>2. CASE q = r
      BY <1>1, <1>5, <3>1, <3>2, ReturnRange
    <3>3. CASE q # r
      <4>1. /\ files'[q] = files[q] /\ communicators'[q] = communicators[q]
            /\ handles'[q] = handles[q]
        BY <1>1, <1>5, <3>3, ReturnWrites, ReturnRegisters
      <4>2. epoch'[q] = epoch[q]
        <5>1. epoch \in [Ranks -> Nat]
          BY <1>1 DEF StateTypes, Sorts
        <5>2. epoch' = epoch \/ \E v : epoch' = [epoch EXCEPT ![r] = v]
          BY <1>5 DEF Return
        <5> QED
          BY <3>3, <5>1, <5>2
      <4> QED
        BY <3>1, <4>1, <4>2, HandleTypesKept
    <3> QED
      BY <3>2, <3>3
  <2>4. RangeInv'
    BY <1>1, <2>2, <2>3 DEF RangeInv, Ranks
  <2> QED
    BY <1>1, <1>12, <2>1, <2>2, <2>4, MessageTypesStay DEF TypeInv
<1>6. ASSUME NEW r \in Ranks, setErr(r) PROVE TypeInv'
  <2>1. StateTypes' /\ MessageTypes'
    BY <1>1, <1>6, SetErrTypes, SetErrMessageTypes
  <2>2. UNCHANGED <<disturbed, epoch, files, handles, communicators>>
    BY <1>6 DEF setErr, checkpointVars, commVars
  <2> QED
    BY <1>1, <1>12, <2>1, <2>2, RangesKept DEF TypeInv
<1>7. ASSUME NEW r \in Ranks, Abort(r) PROVE TypeInv'
  <2>1. StateTypes'
    BY <1>1, <1>7, AbortTypes
  <2>2. UNCHANGED <<disturbed, epoch, files, handles, communicators, received_header_queue,
                    headers, network>>
    BY <1>7 DEF Abort, faultVars, checkpointVars, commVars, transportVars, poolVars
  <2> QED
    BY <1>1, <1>12, <2>1, <2>2, RangesKept, MessageTypesStay DEF TypeInv
<1>8. ASSUME NEW r \in Ranks, NEW s \in Ranks, post_header(r, s) PROVE TypeInv'
  <2>1. StateTypes' /\ MessageTypes'
    BY <1>1, <1>8, PostTypes, PostMessageTypes
  <2>2. UNCHANGED <<disturbed, epoch, files, handles, communicators>>
    BY <1>8 DEF post_header, faultVars, checkpointVars, commVars
  <2> QED
    BY <1>1, <1>12, <2>1, <2>2, RangesKept DEF TypeInv
<1>13. ASSUME NEW r \in Ranks, match_abandoned(r) \/ handle_request(r) PROVE TypeInv'
  <2>1. StateTypes'
    BY <1>1, <1>13, LeftStateTypes
  <2>2. MessageTypes'
    BY <1>1, <1>13, AbandonedMessageTypes, RequestMessageTypes
  <2>3. UNCHANGED <<disturbed, epoch, files, handles, communicators>>
    BY <1>13 DEF match_abandoned, handle_request, faultVars, checkpointVars, commVars
  <2> QED
    BY <1>1, <1>12, <2>1, <2>2, <2>3, RangesKept DEF TypeInv
<1>9. ASSUME NEW r \in Ranks, Fail(r) PROVE TypeInv'
  <2>1. StateTypes'
    BY <1>1, <1>9, FailTypes
  <2>2. UNCHANGED <<disturbed, epoch, files, handles, communicators, received_header_queue,
                    headers, network>>
    BY <1>9 DEF Fail, checkpointVars, commVars, transportVars, poolVars
  <2> QED
    BY <1>1, <1>12, <2>1, <2>2, RangesKept, MessageTypesStay DEF TypeInv
<1>10. ASSUME Recover PROVE TypeInv'
  <2>1. StateTypes' /\ MessageTypes'
    BY <1>1, <1>10, RecoverTypes, RecoverMessageTypes
  <2>2. ~disturbed' => ~disturbed
    BY <1>10 DEF Recover
  <2>3. ASSUME ~disturbed', NEW r \in Ranks PROVE HandleTypes(r)'
    BY <1>1, <1>10, <2>2, <2>3, RecoverRange DEF RangeInv
  <2> QED
    BY <1>1, <1>12, <2>1, <2>3 DEF TypeInv, RangeInv, Ranks
<1>11. CASE UNCHANGED vars
  <2>1. /\ UNCHANGED <<disturbed, epoch, files, handles, communicators, received_header_queue,
                       headers, network, groups, count, busy, plan, memory, is_errSet, failed,
                       restarts>>
    BY <1>11 DEF vars, callVars, faultVars, checkpointVars, commVars, transportVars, poolVars
  <2>2. StateTypes'
    <3>1. Rigid /\ FaultInv /\ Sorts /\ \A q \in Ranks : CountTypes(q)
      BY <1>1 DEF Rigid, StateTypes, RankTypes
    <3> QED
      BY <1>1, <2>1, <3>1, FaultsSame, CallsGoOn DEF Sorts, CountTypes
  <2> QED
    BY <1>1, <1>12, <2>1, <2>2, RangesKept, MessageTypesStay DEF TypeInv
<1> QED
  BY <1>2, <1>3, <1>4, <1>5, <1>6, <1>7, <1>8, <1>9, <1>10, <1>11, <1>13
     DEF Next, Work, Failure, User, ProgressThread

\* Every program of calls on the world whose schedules name ranks of the job, synchronous
\* messages and reductions included, keeps its types: also after a recovery that was
\* disturbed, except for the handles that it lost.
THEOREM WorldTypesOK == Spec => [](AddressedCalls => TypeOK)
<1>1. Spec => [](AddressedCalls => TypeInv)
  BY PoolInit, PoolStep, TypeInit, TypeStep, PTL DEF Spec
<1>2. ASSUME AddressedCalls, TypeInv PROVE TypeOK
  <2>1. Sorts /\ \A r \in Ranks : RankTypes(r)
    BY <1>2 DEF TypeInv, StateTypes
  <2>2. MessageTypes /\ RangeInv
    BY <1>2 DEF TypeInv
  <2>3. /\ count \in [Ranks -> 0..Len(calls)] /\ epoch \in [Ranks -> 0..Len(calls)]
    <3>1. count \in [Ranks -> Nat] /\ epoch \in [Ranks -> Nat]
      BY <2>1 DEF Sorts
    <3>2. \A r \in Ranks : count[r] \in 0..Len(calls) /\ epoch[r] \in 0..Len(calls)
      BY <1>2, CountsBounded DEF TypeInv
    <3> QED
      BY <3>1, <3>2
  <2>4. ASSUME NEW r \in Ranks, NEW i \in DOMAIN plan[r]
        PROVE  /\ plan[r][i].operation \in SendOperations \cup Receives
               /\ plan[r][i].peer \in Ranks
               /\ plan[r][i].comm \in 0..(Len(communicators[r]) - 1)
               /\ plan[r][i].variable \in DOMAIN memory[r]
    <3>1. plan[r] \in Seq(AnyStep(world_size))
      BY <2>1 DEF Sorts
    <3>2. plan[r][i] \in AnyStep(world_size) /\ plan[r] # <<>>
      BY <3>1
    <3>3. DOMAIN memory[r] = Names
      BY <2>1, <3>2, <2>4 DEF RankTypes, CountTypes
    <3>4. 0 \in 0..(Len(communicators[r]) - 1)
      BY <1>2, LengthTypes DEF TypeInv
    <3> QED
      BY <3>2, <3>3, <3>4 DEF AnyStep, Ranks, MPI_COMM_WORLD
  <2>5. \A r \in Ranks : \A i \in DOMAIN Received(r) : Received(r)[i].protocol \in Protocols
    BY <2>2 DEF MessageTypes, Received, Spoken, ToSet
  <2>6. ~disturbed => \A r \in Ranks : ToSet(handles[r]) \subseteq 0..(Len(communicators[r]) - 1)
    BY <2>2 DEF RangeInv, HandleTypes, Valid, ToSet
  <2>7. /\ caught \in [Ranks -> {"outside", "in_start", "posted"}]
        /\ \A r \in Ranks : \A i \in DOMAIN posted_request_queue[r] :
              posted_request_queue[r][i].epoch \in 0..Len(calls)
        /\ \A r \in Ranks : \A i \in DOMAIN outbox[r] : i = 1 /\ outbox[r][i].to \in Ranks
    <3>1. LeftTypes
      BY <1>2 DEF TypeInv
    <3>2. PICK S : /\ \A e \in S : e.epoch \in 0..Len(calls)
                   /\ posted_request_queue \in [Ranks -> Seq(S)]
      BY <3>1 DEF LeftTypes, EpochsPosted
    <3>3. ASSUME NEW r \in Ranks, NEW i \in DOMAIN posted_request_queue[r]
          PROVE  posted_request_queue[r][i] \in S
      <4>1. posted_request_queue[r] \in Seq(S)
        BY <3>2
      <4> QED
        BY <3>3, <4>1
    <3>4. ASSUME NEW r \in Ranks, NEW i \in DOMAIN outbox[r]
          PROVE  i = 1 /\ outbox[r][i].to \in Ranks
      <4>1. Parked(outbox[r])
        BY <3>1 DEF LeftTypes
      <4> QED
        BY <3>4, <4>1 DEF Parked
    <3> QED
      BY <3>1, <3>2, <3>3, <3>4 DEF LeftTypes
  <2> QED
    BY <2>1, <2>2, <2>3, <2>4, <2>5, <2>6, <2>7 DEF TypeOK, Sorts, MessageTypes
<1> QED
  BY <1>1, <1>2, PTL

(***************************************************************************)
(* MPI_Comm_dup. Each adds a handle to those that a rank has, so that what *)
(* a rank holds is given by the calls that it has completed.               *)
(***************************************************************************)
IsDup(call) == call.name = "MPI_Comm_dup"
Held(p, c) == 1 + Cardinality({k \in 1..c : IsDup(p[k])})

LEMMA HeldType ==
    ASSUME NEW p, NEW c \in Nat
    PROVE  /\ IsFiniteSet({k \in 1..c : IsDup(p[k])}) /\ Cardinality({k \in 1..c : IsDup(p[k])}) \in Nat
           /\ Held(p, c) \in Nat \ {0}
<1>1. IsFiniteSet(1..c)
  BY FS_Interval
<1>2. {k \in 1..c : IsDup(p[k])} \in SUBSET (1..c)
  OBVIOUS
<1>3. IsFiniteSet({k \in 1..c : IsDup(p[k])})
  BY <1>1, <1>2, FS_Subset
<1>4. Cardinality({k \in 1..c : IsDup(p[k])}) \in Nat
  BY <1>3, FS_CardinalityType
<1> QED
  BY <1>3, <1>4 DEF Held

LEMMA HeldStep ==
    ASSUME NEW p, NEW c \in Nat
    PROVE  Held(p, c + 1) = Held(p, c) + (IF IsDup(p[c + 1]) THEN 1 ELSE 0)
<1> DEFINE S == {k \in 1..c : IsDup(p[k])}
           T == {k \in 1..(c + 1) : IsDup(p[k])}
<1>1. IsFiniteSet(S) /\ c + 1 \notin S /\ Cardinality(S) \in Nat
  <2>1. IsFiniteSet(S) /\ Cardinality(S) \in Nat
    BY HeldType
  <2> QED
    BY <2>1
<1>2. CASE IsDup(p[c + 1])
  <2>1. T = S \cup {c + 1}
    BY <1>2
  <2> HIDE DEF S, T
  <2>2. Cardinality(T) = Cardinality(S) + 1
    BY <1>1, <2>1, FS_AddElement
  <2>3. Held(p, c + 1) = 1 + Cardinality(T) /\ Held(p, c) = 1 + Cardinality(S)
    BY DEF Held, S, T
  <2> QED
    BY <1>1, <1>2, <2>2, <2>3
<1>3. CASE ~IsDup(p[c + 1])
  <2>1. T = S
    BY <1>3
  <2>2. Held(p, c) \in Nat
    BY HeldType
  <2> QED
    BY <1>3, <2>1, <2>2 DEF Held
<1> QED
  BY <1>2, <1>3

LEMMA HeldMonotone ==
    ASSUME NEW p, NEW a \in Nat, NEW b \in Nat, a <= b
    PROVE  Held(p, a) <= Held(p, b)
<1> DEFINE S == {k \in 1..a : IsDup(p[k])}
           T == {k \in 1..b : IsDup(p[k])}
<1>1. S \in SUBSET T
  OBVIOUS
<1>2. IsFiniteSet(T) /\ Cardinality(S) \in Nat /\ Cardinality(T) \in Nat
  BY HeldType
<1> HIDE DEF S, T
<1>3. Cardinality(S) <= Cardinality(T)
  BY <1>1, <1>2, FS_Subset
<1>4. Held(p, a) = 1 + Cardinality(S) /\ Held(p, b) = 1 + Cardinality(T)
  BY DEF Held, S, T
<1> QED
  BY <1>2, <1>3, <1>4

LEMMA HeldZero == ASSUME NEW p PROVE Held(p, 0) = 1
<1>1. {k \in 1..0 : IsDup(p[k])} = {}
  OBVIOUS
<1> QED
  BY <1>1, FS_EmptySet DEF Held

\* Before the call that returns a handle there are fewer; from then on there are not.
LEMMA BeforeDup ==
    ASSUME NEW p, NEW j \in Nat \ {0}, IsDup(p[j]), NEW c \in Nat
    PROVE  Held(p, j) <= Held(p, c) <=> j <= c
<1>1. j - 1 \in Nat /\ (j - 1) + 1 = j
  OBVIOUS
<1>2. Held(p, j) = Held(p, j - 1) + 1
  BY <1>1, HeldStep
<1>3. Held(p, j) \in Nat /\ Held(p, c) \in Nat /\ Held(p, j - 1) \in Nat
  BY <1>1, HeldType
<1>4. CASE j <= c
  BY <1>4, HeldMonotone
<1>5. CASE ~(j <= c)
  <2>1. c <= j - 1
    BY <1>5
  <2>2. Held(p, c) <= Held(p, j - 1)
    BY <1>1, <2>1, HeldMonotone
  <2> QED
    BY <1>2, <1>3, <1>5, <2>2
<1> QED
  BY <1>4, <1>5

(***************************************************************************)
(* Its schedule: rank 0 sends the two contexts to all others, one after    *)
(* the other.                                                              *)
(***************************************************************************)
LEMMA SequencesJoin ==
    ASSUME NEW S, NEW a \in Seq(S), NEW b \in Seq(S)
    PROVE  /\ Len(a \o b) = Len(a) + Len(b) /\ DOMAIN (a \o b) = 1..(Len(a) + Len(b))
           /\ \A i \in 1..Len(a) : (a \o b)[i] = a[i]
           /\ \A i \in 1..Len(b) : (a \o b)[i + Len(a)] = b[i]
  OBVIOUS

LEMMA BroadcastOfRoot ==
    ASSUME NEW n \in Nat \ {0}, NEW m, m = n - 1, NEW variable,
           NEW p, p = MPI_Bcast(World(n, 0), 0, variable)
    PROVE  /\ Sequence(p) /\ Len(p) = m /\ DOMAIN p = 1..m
           /\ \A i \in 1..m : p[i].operation = "Send" /\ p[i].peer = i /\ p[i].variable = variable
<1> SUFFICES ASSUME NEW me, me = World(n, 0), NEW others, others = Others(n, 0)
             PROVE  /\ Sequence(p) /\ Len(p) = m /\ DOMAIN p = 1..m
                    /\ \A i \in 1..m : /\ p[i].operation = "Send" /\ p[i].peer = i
                                       /\ p[i].variable = variable
  OBVIOUS
<1>1. me.rank = 0 /\ me.size = n /\ m \in Nat
  BY DEF World
<1>2. DOMAIN others = 1..m /\ \A i \in 1..m : others[i] = i
  BY <1>1 DEF Others
<1>3. p = [i \in 1..m |-> Send(others[i], me, variable)]
  BY <1>1, <1>2 DEF MPI_Bcast
<1>4. DOMAIN p = 1..m /\ \A i \in 1..m : p[i] = Send(i, me, variable)
  BY <1>2, <1>3
<1>5. /\ DOMAIN p = 1..m
      /\ \A i \in 1..m : p[i].operation = "Send" /\ p[i].peer = i /\ p[i].variable = variable
  <2>1. ASSUME NEW i
        PROVE  /\ Send(i, me, variable).operation = "Send" /\ Send(i, me, variable).peer = i
               /\ Send(i, me, variable).variable = variable
    BY DEF Send, Operation
  <2> HIDE DEF Send
  <2> QED
    BY <1>4, <2>1
<1>6. PICK S : \A i \in 1..m : Send(others[i], me, variable) \in S
  <2>1. \A i \in 1..m : Send(others[i], me, variable) \in {Send(others[k], me, variable) : k \in 1..m}
    OBVIOUS
  <2> QED
    BY <2>1
<1>7. p \in [1..m -> S]
  BY <1>3, <1>6
<1>8. p \in Seq(S) /\ Len(p) = m
  BY <1>1, <1>7
<1> QED
  BY <1>5, <1>8 DEF Sequence

TwoBroadcasts(p, m) ==
    /\ Len(p) = m + m /\ DOMAIN p = 1..(m + m)
    /\ \A i \in DOMAIN p : /\ p[i].operation = "Send"
                           /\ p[i].peer = IF i <= m THEN i ELSE i - m
                           /\ i <= m => p[i].variable = "pt2pt"
LEMMA DupOfRoot ==
    ASSUME NEW n \in Nat \ {0}, NEW call, IsDup(call)
    PROVE  TwoBroadcasts(WorldPlan(n, 0, call), n - 1)
<1> SUFFICES ASSUME NEW p, p = WorldPlan(n, 0, call), NEW m, m = n - 1
             PROVE  TwoBroadcasts(p, m)
  OBVIOUS
<1> USE DEF TwoBroadcasts
<1> SUFFICES ASSUME NEW me, me = World(n, 0), NEW a, a = MPI_Bcast(me, 0, "pt2pt"),
                    NEW b, b = MPI_Bcast(me, 0, "coll")
             PROVE  /\ Len(p) = m + m /\ DOMAIN p = 1..(m + m)
                    /\ \A i \in DOMAIN p :
                          /\ p[i].operation = "Send"
                          /\ p[i].peer = IF i <= m THEN i ELSE i - m
                          /\ i <= m => p[i].variable = "pt2pt"
  OBVIOUS
<1>1. [me EXCEPT !.comm = 0] = me /\ m \in Nat
  BY DEF World, MPI_COMM_WORLD
<1>2. p = MPI_Comm_dup(me, 0)
  BY DEF WorldPlan, Schedule, IsDup
<1>3. p = a \o b
  BY <1>1, <1>2 DEF MPI_Comm_dup
<1>4. /\ Sequence(a) /\ Len(a) = m /\ DOMAIN a = 1..m
      /\ Sequence(b) /\ Len(b) = m /\ DOMAIN b = 1..m
      /\ \A i \in 1..m : /\ a[i].operation = "Send" /\ a[i].peer = i /\ a[i].variable = "pt2pt"
                         /\ b[i].operation = "Send" /\ b[i].peer = i
  BY BroadcastOfRoot
<1>5. PICK S, T : a \in Seq(S) /\ b \in Seq(T)
  BY <1>4 DEF Sequence
<1>6. PICK W : a \in Seq(W) /\ b \in Seq(W)
  <2>1. a \in Seq(S \cup T) /\ b \in Seq(S \cup T)
    BY <1>5
  <2> QED
    BY <2>1
<1>7. /\ Len(p) = m + m /\ DOMAIN p = 1..(m + m)
      /\ \A i \in 1..(m + m) : p[i] = IF i <= m THEN a[i] ELSE b[i - m]
  <2>1. /\ Len(p) = m + m /\ DOMAIN p = 1..(m + m) /\ \A i \in 1..m : p[i] = a[i]
        /\ \A i \in 1..m : p[i + m] = b[i]
    BY <1>1, <1>3, <1>4, <1>6, SequencesJoin
  <2>2. ASSUME NEW i \in 1..(m + m), ~(i <= m) PROVE p[i] = b[i - m]
    <3>1. i - m \in 1..m /\ (i - m) + m = i
      BY <1>1, <2>2
    <3> QED
      BY <2>1, <3>1
  <2> QED
    BY <1>1, <2>1, <2>2
<1>8. \A i \in 1..(m + m) : IF i <= m THEN i \in 1..m ELSE i - m \in 1..m
  BY <1>1
<1> QED
  BY <1>4, <1>7, <1>8

LEMMA DupOfOthers ==
    ASSUME NEW n \in Nat \ {0}, NEW r \in 1..(n - 1), NEW call, IsDup(call),
           NEW p, p = WorldPlan(n, r, call)
    PROVE  /\ Len(p) = 2 /\ DOMAIN p = 1..2
           /\ \A i \in 1..2 : p[i].operation = "Receive" /\ p[i].peer = 0
           /\ p[1].variable = "pt2pt" /\ p[2].variable = "coll"
<1> DEFINE me == World(n, r)
<1>1. me.rank = r /\ me.size = n /\ [me EXCEPT !.comm = 0] = me
  BY DEF World, MPI_COMM_WORLD
<1>2. ASSUME NEW variable PROVE MPI_Bcast(me, 0, variable) = <<Recv(0, me, variable)>>
  BY <1>1 DEF MPI_Bcast
<1>3. p = <<Recv(0, me, "pt2pt")>> \o <<Recv(0, me, "coll")>>
  <2>1. p = MPI_Comm_dup(me, 0)
    BY DEF WorldPlan, Schedule, IsDup
  <2>2. p = MPI_Bcast(me, 0, "pt2pt") \o MPI_Bcast(me, 0, "coll")
    BY <1>1, <2>1 DEF MPI_Comm_dup
  <2> QED
    BY <1>2, <2>2
<1>4. PICK a, b : a = Recv(0, me, "pt2pt") /\ b = Recv(0, me, "coll")
  OBVIOUS
<1>5. /\ a.operation = "Receive" /\ a.peer = 0 /\ a.variable = "pt2pt"
      /\ b.operation = "Receive" /\ b.peer = 0 /\ b.variable = "coll"
  BY <1>4 DEF Recv, Operation
<1>6. Len(p) = 2 /\ DOMAIN p = 1..2 /\ p[1] = a /\ p[2] = b
  <2>1. <<a>> \in Seq({a, b}) /\ <<b>> \in Seq({a, b}) /\ p = <<a>> \o <<b>>
    BY <1>3, <1>4
  <2> QED
    BY <2>1
<1> QED
  BY <1>5, <1>6

\* What is sent to a rank first is the context for point to point messages.
LEMMA DupSend ==
    ASSUME NEW n \in Nat \ {0}, NEW call, IsDup(call), NEW S, NEW p \in Seq(S), p # <<>>,
           Rest(p, WorldPlan(n, 0, call)), NEW x, x = Head(p).peer
    PROVE  /\ Head(p).operation = "Send"
           /\ Head(p).variable = "pt2pt" \/ Cardinality(Sends(p, x)) = 1
<1> SUFFICES ASSUME NEW whole, whole = WorldPlan(n, 0, call), NEW m, m = n - 1
             PROVE  /\ Head(p).operation = "Send"
                    /\ Head(p).variable = "pt2pt" \/ Cardinality(Sends(p, x)) = 1
  OBVIOUS
<1>1. PICK d \in 0..Len(whole) : /\ Len(p) = Len(whole) - d
                                 /\ \A i \in 1..Len(p) : p[i] = whole[i + d]
  BY DEF Rest
<1>2. m \in Nat
  OBVIOUS
<1>3. /\ Len(whole) = m + m /\ DOMAIN whole = 1..(m + m)
      /\ \A i \in DOMAIN whole : /\ whole[i].operation = "Send"
                                 /\ whole[i].peer = IF i <= m THEN i ELSE i - m
                                 /\ i <= m => whole[i].variable = "pt2pt"
  <2>1. TwoBroadcasts(whole, m)
    BY DupOfRoot
  <2> QED
    BY <2>1 DEF TwoBroadcasts
<1>4. /\ Len(p) \in Nat /\ Len(p) > 0 /\ DOMAIN p = 1..Len(p) /\ Head(p) = p[1] /\ d \in Nat
      /\ 1 \in 1..Len(p)
  BY <1>1, <1>2, <1>3
<1>5. \A i \in 1..Len(p) : i + d \in 1..(m + m) /\ p[i] = whole[i + d]
  BY <1>1, <1>2, <1>3, <1>4
<1>6. ASSUME NEW i \in 1..Len(p)
      PROVE  /\ p[i].operation = "Send"
             /\ i + d <= m => p[i].variable = "pt2pt"
             /\ ~(i + d <= m) => p[i].peer = i + d - m
  <2>1. PICK k \in DOMAIN whole : k = i + d
    BY <1>3, <1>5
  <2>2. /\ p[i] = whole[k] /\ whole[k].operation = "Send"
        /\ whole[k].peer = IF k <= m THEN k ELSE k - m
        /\ k <= m => whole[k].variable = "pt2pt"
    BY <1>3, <1>5, <2>1
  <2> QED
    BY <2>1, <2>2
<1>7. p[1].operation = "Send"
  BY <1>4, <1>6
<1>8. CASE 1 + d <= m
  BY <1>4, <1>6, <1>8
<1>9. CASE ~(1 + d <= m)
  <2>1. x = 1 + d - m
    BY <1>4, <1>6, <1>9
  <2>2. \A i \in 1..Len(p) : p[i].peer = x => i = 1
    <3> SUFFICES ASSUME NEW i \in 1..Len(p), p[i].peer = x PROVE i = 1
      OBVIOUS
    <3>1. p[i].peer = i + d - m
      BY <1>2, <1>4, <1>6, <1>9
    <3> QED
      BY <1>2, <1>4, <2>1, <3>1
  <2>3. Sends(p, x) = {1}
    BY <1>4, <1>6, <2>2 DEF Sends, SendOperations
  <2> QED
    BY <1>4, <1>7, <2>3, FS_Singleton
<1> QED
  BY <1>8, <1>9

\* Another rank receives the two.
LEMMA DupReceive ==
    ASSUME NEW n \in Nat \ {0}, NEW r \in 1..(n - 1), NEW call, IsDup(call),
           NEW S, NEW p \in Seq(S), Rest(p, WorldPlan(n, r, call))
    PROVE  /\ Cardinality(Receipts(WorldPlan(n, r, call), 0)) = 2
           /\ p = <<>> => Cardinality(Receipts(p, 0)) = 0
           /\ p # <<>> =>
                 /\ Head(p).operation = "Receive" /\ Head(p).peer = 0
                 /\ \/ Cardinality(Receipts(p, 0)) = 2 /\ Head(p).variable = "pt2pt"
                    \/ Cardinality(Receipts(p, 0)) = 1 /\ Head(p).variable = "coll"
<1> SUFFICES ASSUME NEW whole, whole = WorldPlan(n, r, call)
             PROVE  /\ Cardinality(Receipts(whole, 0)) = 2
                    /\ p = <<>> => Cardinality(Receipts(p, 0)) = 0
                    /\ p # <<>> =>
                         /\ Head(p).operation = "Receive" /\ Head(p).peer = 0
                         /\ \/ Cardinality(Receipts(p, 0)) = 2 /\ Head(p).variable = "pt2pt"
                            \/ Cardinality(Receipts(p, 0)) = 1 /\ Head(p).variable = "coll"
  OBVIOUS
<1>1. /\ Len(whole) = 2 /\ DOMAIN whole = 1..2
      /\ \A i \in 1..2 : whole[i].operation = "Receive" /\ whole[i].peer = 0
      /\ whole[1].variable = "pt2pt" /\ whole[2].variable = "coll"
  BY DupOfOthers
<1>2. PICK d \in 0..2 : Len(p) = 2 - d /\ \A i \in 1..Len(p) : p[i] = whole[i + d]
  BY <1>1 DEF Rest
<1>3. DOMAIN p = 1..Len(p) /\ (p # <<>> => Head(p) = p[1])
  OBVIOUS
<1>4. \A i \in 1..Len(p) : p[i].operation = "Receive" /\ p[i].peer = 0
  <2> SUFFICES ASSUME NEW i \in 1..Len(p) PROVE p[i].operation = "Receive" /\ p[i].peer = 0
    OBVIOUS
  <2>1. i + d \in 1..2 /\ p[i] = whole[i + d]
    BY <1>2
  <2> QED
    BY <1>1, <2>1
<1>5. Receipts(p, 0) = 1..Len(p) /\ Receipts(whole, 0) = 1..2
  BY <1>1, <1>3, <1>4 DEF Receipts, Receives
<1>6. Cardinality(1..2) = 2 /\ Cardinality(1..1) = 1 /\ Cardinality(1..0) = 0
  <2>1. 1..2 = {1, 2} /\ 1..1 = {1} /\ 1..0 = {}
    OBVIOUS
  <2>2. IsFiniteSet({1}) /\ Cardinality({1}) = 1
    BY FS_Singleton
  <2>3. 2 \notin {1} /\ {1, 2} = {1} \cup {2}
    OBVIOUS
  <2>4. Cardinality({1, 2}) = 1 + 1
    BY <2>2, <2>3, FS_AddElement
  <2> QED
    BY <2>1, <2>2, <2>4, FS_EmptySet
<1>7. CASE d = 0
  <2>1. Len(p) = 2
    BY <1>2, <1>7
  <2>2. 1 \in 1..Len(p) /\ p # <<>>
    BY <2>1
  <2>3. p[1] = whole[1 + 0]
    BY <1>2, <1>7, <2>2
  <2>4. Head(p) = whole[1]
    BY <1>3, <2>2, <2>3
  <2> QED
    BY <1>1, <1>5, <1>6, <2>1, <2>2, <2>4
<1>8. CASE d = 1
  <2>1. Len(p) = 1
    BY <1>2, <1>8
  <2>2. p # <<>> /\ 1 \in 1..Len(p)
    <3>1. 1 \in 1..1 /\ Len(p) # 0
      BY <2>1
    <3>2. 1 \in 1..Len(p)
      BY <2>1, <3>1
    <3>3. p = <<>> => Len(p) = 0
      OBVIOUS
    <3> QED
      BY <3>1, <3>2, <3>3
  <2>3. p[1] = whole[1 + 1]
    BY <1>2, <1>8, <2>2
  <2>4. Head(p) = whole[2]
    BY <1>3, <2>2, <2>3
  <2>5. Cardinality(Receipts(p, 0)) = 1
    BY <1>5, <1>6, <2>1
  <2>6. whole[2].operation = "Receive" /\ whole[2].peer = 0 /\ whole[2].variable = "coll"
    <3>1. 2 \in 1..2
      OBVIOUS
    <3> QED
      BY <1>1, <3>1
  <2>7. Cardinality(Receipts(whole, 0)) = 2
    BY <1>5, <1>6
  <2> QED
    BY <2>2, <2>4, <2>5, <2>6, <2>7
<1>9. CASE d = 2
  <2>1. Len(p) = 0 /\ p = <<>>
    BY <1>2, <1>9
  <2> QED
    BY <1>5, <1>6, <2>1
<1> QED
  BY <1>7, <1>8, <1>9

(***************************************************************************)
(* The invariant. What rank 0 has drawn numbers the communicators, in      *)
(* ascending order; the i-th of any rank has the i-th context of these,    *)
(* also in its files, and the messages on their way bring it.              *)
(***************************************************************************)
Drawing == busy[0] /\ IsDup(Call(0))
Numbers == IF Drawing THEN Append(HandleContexts(0), memory[0].pt2pt) ELSE HandleContexts(0)

Lens(r) ==
    /\ Len(handles[r]) = Held(calls, count[r])
    /\ \A k \in DOMAIN files[r] : Len(files[r][k].handles) = Held(calls, files[r][k].count)
Ascends(K, bound) ==
    \A i \in 1..Len(K) : /\ K[i] \in Nat /\ K[i] <= bound
                         /\ \A j \in 1..Len(K) : i < j => K[i] < K[j]
Ascending ==
    /\ DOMAIN nextID = Ranks /\ nextID[0] \in Nat /\ failed # 0
    /\ Ascends(Numbers, nextID[0])
Behind == ~Stopped(0) => \A r \in Ranks : Len(handles[r]) <= Len(Numbers)

Alike(h, comms, K) == \A i \in 1..Len(h) : i <= Len(K) => comms[h[i] + 1].pt2pt = K[i]
Noted(file, K) ==
    file.contexts # <<>> =>
        \A i \in 1..Len(file.handles) :
            i \in DOMAIN file.contexts /\ (i <= Len(K) => file.contexts[i] = K[i])
FilesAlike(r, K) ==
    \A k \in 0..(epoch[r] - 1) :
        /\ Alike(files[r][k].handles, communicators[r], K) /\ Noted(files[r][k], K)
        /\ \A l \in 0..(epoch[r] - 1) :
              k <= l => Alike(files[r][k].handles, files[r][l].communicators, K)
HandlesAgree(r, K) == Alike(handles[r], communicators[r], K) /\ FilesAlike(r, K)

\* The first message of a call, and what it brings.
IsFirst(q, i, j) ==
    Hit(q[i], 0, j) /\ \A k \in DOMAIN q : Hit(q[k], 0, j) => i <= k
Brings(r, i) == payloads[r][payload_buffer[r][received_header_queue[r][i]]]
QueueBrings(r, j, x) ==
    \A i \in DOMAIN Received(r) : IsFirst(Received(r), i, j) => Brings(r, i) = x
WireBrings(r, j, x) ==
    (\A i \in DOMAIN Received(r) : ~Hit(Received(r)[i], 0, j))
        => \A i \in DOMAIN OnTheWay(0, r) :
              IsFirst(OnTheWay(0, r), i, j) => network[<<0, r>>][i].payload = x
Awaits(r, j, K) ==
    /\ IsDup(calls[j]) /\ j > count[r] /\ Taken(r, 0, j) = 0
    /\ Held(calls, j) <= Len(K)
Comes(r, j, x) == QueueBrings(r, j, x) /\ WireBrings(r, j, x)
Reads(r) == ~Stopped(r) /\ ~is_errSet[r]
Coming(r, K) ==
    Reads(r) => \A j \in DOMAIN calls : Awaits(r, j, K) => Comes(r, j, K[Held(calls, j)])
Has(r, c, K) ==
    busy[r] /\ IsDup(calls[c]) /\ Taken(r, 0, c) > 0 /\ Held(calls, c) <= Len(K)
        => memory[r].pt2pt = K[Held(calls, c)]
MessagesAgree(r, K) == r # 0 => Has(r, count[r] + 1, K) /\ Coming(r, K)

DupState ==
    /\ \A r \in Ranks : Lens(r)
    /\ Ascending /\ Behind
    /\ \E K \in {Numbers} : \A r \in Ranks : HandlesAgree(r, K) /\ MessagesAgree(r, K)
Unhurt == 0 \notin MayFail(calls)
DupInv == ~disturbed => DupState
All == WorldCalls /\ PoolInv /\ Steady /\ DataInv /\ TypeInv /\ DupState /\ ~disturbed /\ Unhurt

\* What the invariants say of a rank.
LEMMA DupFacts ==
    ASSUME All
    PROVE  /\ 0 \in Ranks /\ world_size \in Nat \ {0} /\ Ranks = 0..(world_size - 1)
           /\ DOMAIN calls = 1..Len(calls) /\ Len(calls) \in Nat
           /\ DOMAIN memory = Ranks /\ DOMAIN payloads = Ranks
           /\ failed # 0 /\ failed \in Ranks \cup {NoRank}
           /\ \A r \in Ranks :
                 /\ RankInv(r) /\ RankTypes(r) /\ HandleTypes(r) /\ Lens(r)
                 /\ HandlesAgree(r, Numbers) /\ MessagesAgree(r, Numbers)
                 /\ count[r] \in Nat /\ epoch[r] \in Nat
                 /\ busy[r] => r # failed /\ ~Stopped(r) /\ count[r] + 1 \in DOMAIN calls
<1> USE DEF All
<1>1. Shape /\ FaultInv /\ \A r \in Ranks : RankInv(r)
  BY DEF Steady
<1>2. /\ world_size \in Nat /\ world_size > 0 /\ Ranks = 0..(world_size - 1)
      /\ Len(calls) \in Nat /\ DOMAIN calls = 1..Len(calls)
  BY <1>1, WorldFacts
<1>3. 0 \in Ranks /\ world_size \in Nat \ {0}
  BY <1>2
<1>4. DOMAIN memory = Ranks /\ DOMAIN payloads = Ranks
  BY DEF DataInv
<1>5. \A r \in Ranks : RankTypes(r) /\ HandleTypes(r)
  BY DEF TypeInv, StateTypes, RangeInv
<1>6. /\ failed # 0
      /\ \A r \in Ranks : Lens(r) /\ HandlesAgree(r, Numbers) /\ MessagesAgree(r, Numbers)
  BY DEF DupState, Ascending
<1>7. failed \in Ranks \cup {NoRank} /\ \A r \in Ranks : count[r] \in Nat /\ epoch[r] \in Nat
  BY <1>1 DEF Shape
<1>8. \A r \in Ranks : busy[r] => count[r] < Len(calls)
  BY <1>1 DEF RankInv
<1>9. \A r \in Ranks : busy[r] => r # failed /\ ~Stopped(r) /\ count[r] + 1 \in DOMAIN calls
  <2> SUFFICES ASSUME NEW r \in Ranks, busy[r]
               PROVE  r # failed /\ ~Stopped(r) /\ count[r] + 1 \in DOMAIN calls
    OBVIOUS
  <2>1. r # failed
    <3>1. failed # NoRank => ~busy[failed]
      BY <1>1 DEF FaultInv
    <3>2. NoRank \notin Ranks
      BY <1>1, WorldFacts
    <3> QED
      BY <3>1, <3>2
  <2>2. count[r] + 1 \in 1..Len(calls)
    BY <1>2, <1>7, <1>8
  <2> QED
    BY <1>2, <2>1, <2>2 DEF Stopped
<1> QED
  BY <1>1, <1>2, <1>3, <1>4, <1>5, <1>6, <1>7, <1>9

\* The handles that it holds, and how many there are in a file.
LEMMA HandleFacts ==
    ASSUME All, NEW r \in Ranks
    PROVE  /\ Len(handles[r]) \in Nat /\ DOMAIN handles[r] = 1..Len(handles[r])
           /\ Len(handles[r]) = Held(calls, count[r]) /\ Sequence(handles[r])
           /\ handles[r] # <<>> /\ handles[r][1] = 0
           /\ Sequence(communicators[r]) /\ Len(communicators[r]) \in Nat
           /\ communicators[r][1].pt2pt = 0
           /\ Valid(handles[r], communicators[r])
           /\ \A k \in 0..(epoch[r] - 1) :
                 /\ k \in DOMAIN files[r] /\ Sequence(files[r][k].handles)
                 /\ Len(files[r][k].handles) \in Nat
                 /\ DOMAIN files[r][k].handles = 1..Len(files[r][k].handles)
                 /\ Len(files[r][k].handles) <= Len(handles[r])
                 /\ Sequence(files[r][k].contexts)
                 /\ Valid(files[r][k].handles, communicators[r])
<1>1. RankInv(r) /\ RankTypes(r) /\ HandleTypes(r) /\ Lens(r) /\ count[r] \in Nat /\ epoch[r] \in Nat
  BY DupFacts
<1>2. /\ WorldFirst(communicators[r], r) /\ WorldHandle(handles[r]) /\ FilesInv(r)
  BY <1>1 DEF RankInv
<1>3. Sequence(handles[r]) /\ handles[r] # <<>> /\ handles[r][1] = 0
  BY <1>2 DEF WorldHandle, MPI_COMM_WORLD
<1>4. Sequence(communicators[r]) /\ communicators[r][1].pt2pt = 0 /\ Len(communicators[r]) \in Nat
  BY <1>2 DEF WorldFirst, Sequence
<1>5. Len(handles[r]) \in Nat /\ DOMAIN handles[r] = 1..Len(handles[r])
  BY <1>3 DEF Sequence
<1>6. Len(handles[r]) = Held(calls, count[r])
  BY <1>1 DEF Lens
<1>7. Valid(handles[r], communicators[r])
  BY <1>1 DEF HandleTypes
<1>8. ASSUME NEW k \in 0..(epoch[r] - 1)
      PROVE  /\ k \in DOMAIN files[r] /\ Sequence(files[r][k].handles)
             /\ Len(files[r][k].handles) \in Nat
             /\ DOMAIN files[r][k].handles = 1..Len(files[r][k].handles)
             /\ Len(files[r][k].handles) <= Len(handles[r])
             /\ Sequence(files[r][k].contexts)
             /\ Valid(files[r][k].handles, communicators[r])
  <2> SUFFICES ASSUME NEW file, file = files[r][k]
               PROVE  /\ k \in DOMAIN files[r] /\ Sequence(file.handles)
                      /\ Len(file.handles) \in Nat /\ DOMAIN file.handles = 1..Len(file.handles)
                      /\ Len(file.handles) <= Len(handles[r]) /\ Sequence(file.contexts)
                      /\ Valid(file.handles, communicators[r])
    OBVIOUS
  <2>1. k \in DOMAIN files[r] /\ GoodFile(r, k, file)
    BY <1>2, <1>8 DEF FilesInv
  <2>2. /\ Sequence(file.handles) /\ Sequence(file.contexts) /\ file.count \in DOMAIN calls
        /\ IsWrite(calls[file.count]) /\ EpochOf(calls, file.count) = k + 1
    BY <2>1 DEF GoodFile, WorldHandle
  <2>3. Len(file.handles) \in Nat /\ DOMAIN file.handles = 1..Len(file.handles)
    BY <2>2 DEF Sequence
  <2>4. Len(file.handles) = Held(calls, file.count)
    BY <1>1, <2>1 DEF Lens
  <2>5. file.count \in Nat \ {0}
    BY <2>2, DupFacts
  <2>6. epoch[r] <= EpochOf(calls, count[r]) /\ EpochOf(calls, count[r]) \in Nat
    BY <1>1, EpochType DEF RankTypes, CountTypes
  <2>7. EpochOf(calls, count[r]) >= EpochOf(calls, file.count)
    BY <1>1, <2>2, <2>6
  <2>8. count[r] >= file.count
    BY <1>1, <2>2, <2>5, <2>7, BeforeWrite
  <2>9. Len(file.handles) <= Len(handles[r])
    <3>1. Held(calls, file.count) <= Held(calls, count[r])
      BY <1>1, <2>5, <2>8, HeldMonotone
    <3> QED
      BY <1>6, <2>4, <3>1
  <2>10. Valid(file.handles, communicators[r])
    <3>1. Valid(file.handles, file.communicators) /\ Shorter(file.communicators, communicators[r])
      BY <1>1, <1>8, <2>1 DEF HandleTypes, FileHandles
    <3>2. Len(file.communicators) \in Nat
      BY <2>1 DEF GoodFile, WorldFirst, Sequence
    <3> QED
      BY <1>4, <3>1, <3>2 DEF Valid, Shorter
  <2> QED
    BY <2>1, <2>2, <2>3, <2>9, <2>10
<1> QED
  BY <1>3, <1>4, <1>5, <1>6, <1>7, <1>8

\* The contexts that rank 0 has drawn.
LEMMA NumberFacts ==
    ASSUME All, NEW K, K = Numbers, NEW n, n = Len(handles[0])
    PROVE  /\ Sequence(K) /\ n \in Nat \ {0} /\ n = Held(calls, count[0])
           /\ Len(K) \in Nat /\ DOMAIN K = 1..Len(K) /\ n <= Len(K)
           /\ Len(K) = IF Drawing THEN n + 1 ELSE n
           /\ Drawing => K[n + 1] = memory[0].pt2pt
           /\ \A i \in 1..n : K[i] = ContextOf(0, i)
           /\ K[1] = 0
<1>1. 0 \in Ranks
  BY DupFacts
<1>2. /\ n \in Nat /\ DOMAIN handles[0] = 1..n /\ handles[0] # <<>> /\ handles[0][1] = 0
      /\ n = Held(calls, count[0]) /\ communicators[0][1].pt2pt = 0
  BY <1>1, HandleFacts
<1>3. n \in Nat \ {0}
  <2>1. Sequence(handles[0])
    BY <1>1, HandleFacts
  <2> QED
    BY <1>2, <2>1 DEF Sequence
<1>4. PICK h : h = HandleContexts(0)
  OBVIOUS
<1>5. /\ DOMAIN h = 1..n /\ \A i \in 1..n : h[i] = ContextOf(0, i)
  BY <1>2, <1>4 DEF HandleContexts
<1>6. PICK S : h \in Seq(S)
  <2>1. h = [i \in 1..n |-> ContextOf(0, i)]
    BY <1>2, <1>4 DEF HandleContexts
  <2>2. h \in [1..n -> {ContextOf(0, i) : i \in 1..n}]
    BY <2>1
  <2>3. h \in Seq({ContextOf(0, i) : i \in 1..n})
    BY <1>2, <2>2
  <2> QED
    BY <2>3
<1>7. Len(h) = n
  BY <1>2, <1>5, <1>6
<1>8. h[1] = 0
  <2>1. 1 \in 1..n
    BY <1>3
  <2> QED
    BY <1>2, <1>5, <2>1 DEF ContextOf, get_context_id_pt2pt, Communicator
<1>9. CASE Drawing
  <2>1. PICK x : x = memory[0].pt2pt
    OBVIOUS
  <2>2. K = Append(h, x)
    BY <1>4, <1>9, <2>1 DEF Numbers
  <2>3. h \in Seq(S \cup {x}) /\ x \in S \cup {x}
    BY <1>6
  <2>4. /\ K \in Seq(S \cup {x}) /\ Len(K) = n + 1 /\ K[n + 1] = x /\ DOMAIN K = 1..(n + 1)
        /\ \A i \in 1..n : K[i] = h[i]
    BY <1>2, <1>7, <2>2, <2>3
  <2> QED
    BY <1>2, <1>3, <1>5, <1>8, <1>9, <2>1, <2>4 DEF Sequence
<1>10. CASE ~Drawing
  <2>1. K = h
    BY <1>4, <1>10 DEF Numbers
  <2> QED
    BY <1>2, <1>3, <1>5, <1>6, <1>7, <1>8, <1>10, <2>1 DEF Sequence
<1> QED
  BY <1>9, <1>10

\* Where a rank is in the duplication that it is in.
LEMMA DupTaken ==
    ASSUME WorldCalls, Steady, NEW r \in Ranks, r # 0, NEW j \in DOMAIN calls, IsDup(calls[j])
    PROVE  /\ SentTotal(0, r, j) = 2 /\ TakenTotal(r, 0, j) = 2
           /\ busy[r] /\ j = count[r] + 1 =>
                 /\ plan[r] = <<>> => Taken(r, 0, j) = 2
                 /\ plan[r] # <<>> =>
                       /\ Head(plan[r]).operation = "Receive" /\ Head(plan[r]).peer = 0
                       /\ \/ Taken(r, 0, j) = 0 /\ Head(plan[r]).variable = "pt2pt"
                          \/ Taken(r, 0, j) = 1 /\ Head(plan[r]).variable = "coll"
<1>1. Shape /\ RankInv(r)
  BY DEF Steady
<1>2. /\ world_size \in Nat /\ world_size > 0 /\ Ranks = 0..(world_size - 1)
  BY <1>1, WorldFacts
<1>3. world_size \in Nat \ {0} /\ r \in 1..(world_size - 1) /\ 0 \in Ranks
  BY <1>2
<1>4. PICK whole : whole = Plan(r, j)
  OBVIOUS
<1>5. whole = WorldPlan(world_size, r, calls[j])
  BY <1>4 DEF Plan
<1>6. whole \in Seq(Steps(world_size)) /\ SentTotal(0, r, j) = TakenTotal(r, 0, j)
  BY <1>1, <1>3, <1>4, PlanFacts
<1>7. Rest(whole, whole)
  BY <1>6, RestAll
<1>8. Cardinality(Receipts(whole, 0)) = 2
  BY <1>3, <1>5, <1>6, <1>7, DupReceive
<1>9. TakenTotal(r, 0, j) = 2
  BY <1>4, <1>8 DEF TakenTotal
<1>10. ASSUME busy[r], j = count[r] + 1
       PROVE  /\ plan[r] = <<>> => Taken(r, 0, j) = 2
              /\ plan[r] # <<>> =>
                    /\ Head(plan[r]).operation = "Receive" /\ Head(plan[r]).peer = 0
                    /\ \/ Taken(r, 0, j) = 0 /\ Head(plan[r]).variable = "pt2pt"
                       \/ Taken(r, 0, j) = 1 /\ Head(plan[r]).variable = "coll"
  <2>1. PICK p : p = plan[r]
    OBVIOUS
  <2>2. p \in Seq(Steps(world_size))
    BY <1>1, <2>1 DEF Shape
  <2>3. Rest(p, WorldPlan(world_size, r, calls[j]))
    BY <1>1, <1>5, <1>10, <2>1 DEF RankInv, Plan
  <2>4. /\ p = <<>> => Cardinality(Receipts(p, 0)) = 0
        /\ p # <<>> =>
              /\ Head(p).operation = "Receive" /\ Head(p).peer = 0
              /\ \/ Cardinality(Receipts(p, 0)) = 2 /\ Head(p).variable = "pt2pt"
                 \/ Cardinality(Receipts(p, 0)) = 1 /\ Head(p).variable = "coll"
    BY <1>3, <2>2, <2>3, DupReceive
  <2>5. count[r] \in Nat
    BY <1>1 DEF Shape
  <2>6. Taken(r, 0, j) = 2 - Cardinality(Receipts(p, 0))
    BY <1>9, <1>10, <2>1, <2>5 DEF Taken
  <2> QED
    BY <2>1, <2>4, <2>6
<1> QED
  BY <1>6, <1>9, <1>10

\* Of a call that a rank has yet to begin, it has all messages before it.
LEMMA NothingTaken ==
    ASSUME WorldCalls, PoolInv, Steady, NEW r \in Ranks, Reads(r), 0 \in Ranks, ~Stopped(0),
           NEW j \in DOMAIN calls, j > count[r], Taken(r, 0, j) = 0
    PROVE  /\ Sent(0, r, j) \in Nat
           /\ Sent(0, r, j) > 0 <=> \/ \E i \in DOMAIN Received(r) : Hit(Received(r)[i], 0, j)
                                    \/ \E i \in DOMAIN OnTheWay(0, r) : Hit(OnTheWay(0, r)[i], 0, j)
<1>1. /\ Shape /\ RankInv(r) /\ RankInv(0) /\ PairInv(0, r) /\ FaultInv
      /\ DOMAIN calls \subseteq Nat \ {0}
  <2>1. Shape
    BY DEF Steady
  <2>2. DOMAIN calls = 1..Len(calls)
    BY <2>1, WorldFacts
  <2> QED
    BY <2>1, <2>2 DEF Steady, PairsInv
<1>2. count[r] \in Nat /\ j - 1 \in Nat /\ count[r] <= j - 1 /\ epoch[r] \in Nat
  BY <1>1 DEF Shape
<1>3. Live(r, j)
  <2>1. epoch[r] = EpochOf(calls, count[r])
    <3>1. busy[r] \/ ~is_errSet[r]
      BY DEF Reads
    <3> QED
      BY <1>1, <3>1 DEF RankInv
  <2>2. EpochOf(calls, count[r]) <= EpochOf(calls, j - 1)
    BY <1>2, EpochMonotone
  <2>3. EpochOf(calls, j - 1) \in Nat
    BY <1>2, EpochType
  <2> QED
    BY <1>2, <2>1, <2>2, <2>3 DEF Live, Reads
<1>4. Pending(0, r, j) + Taken(r, 0, j) = Sent(0, r, j)
  BY <1>1, <1>3 DEF PairInv, PairAt, Reads
<1>5. Sent(0, r, j) \in Nat
  BY <1>1, CountFacts
<1>6. /\ Pending(0, r, j) \in Nat
      /\ Pending(0, r, j) > 0 <=> \/ \E i \in DOMAIN Received(r) : Hit(Received(r)[i], 0, j)
                                  \/ \E i \in DOMAIN OnTheWay(0, r) : Hit(OnTheWay(0, r)[i], 0, j)
  BY PendingType
<1>7. Pending(0, r, j) = Sent(0, r, j)
  BY <1>4, <1>6
<1> QED
  BY <1>5, <1>6, <1>7

\* What a rank has taken of a call, rank 0 has sent.
LEMMA TakenIsSent ==
    ASSUME WorldCalls, Steady, NEW r \in Ranks, ~Stopped(r), 0 \in Ranks, ~Stopped(0),
           NEW j \in DOMAIN calls, Taken(r, 0, j) > 0
    PROVE  /\ Sent(0, r, j) > 0 /\ Sent(0, r, j) \in Nat
           /\ j <= count[0] \/ (j = count[0] + 1 /\ busy[0])
<1>1. Shape /\ RankInv(r) /\ RankInv(0) /\ PairInv(0, r)
  BY DEF Steady, PairsInv
<1>2. Taken(r, 0, j) <= Sent(0, r, j)
  BY <1>1 DEF PairInv, PairAt
<1>3. Taken(r, 0, j) \in Nat /\ Sent(0, r, j) \in Nat
  BY <1>1, CountFacts
<1>4. Sent(0, r, j) > 0
  BY <1>2, <1>3
<1>5. Sent(0, r, j) # 0
  BY <1>3, <1>4
<1> QED
  BY <1>3, <1>4, <1>5 DEF Sent

\* A context that rank 0 is about to draw: nobody has it.
LEMMA NobodyHasNext ==
    ASSUME All, ~busy[0], ~is_errSet[0], NEW c, c = count[0] + 1, c \in DOMAIN calls,
           IsDup(calls[c]), NEW x, NEW K, K = Append(Numbers, x), NEW q \in Ranks
    PROVE  HandlesAgree(q, K) /\ MessagesAgree(q, K)
<1> SUFFICES ASSUME NEW N, N = Numbers, NEW n, n = Len(handles[0])
             PROVE  HandlesAgree(q, K) /\ MessagesAgree(q, K)
  OBVIOUS
<1>1. /\ 0 \in Ranks /\ failed # 0 /\ count[0] \in Nat /\ count[q] \in Nat
      /\ HandlesAgree(q, N) /\ MessagesAgree(q, N)
      /\ DOMAIN calls = 1..Len(calls) /\ Len(calls) \in Nat
      /\ busy[q] => q # failed /\ ~Stopped(q) /\ count[q] + 1 \in DOMAIN calls
  BY DupFacts
<1>2. ~Stopped(0) /\ ~Drawing
  BY <1>1 DEF Stopped, Drawing
<1>3. Sequence(N) /\ Len(N) = n /\ n \in Nat /\ n = Held(calls, count[0])
  BY <1>2, NumberFacts
<1>4. Len(K) = n + 1 /\ \A i \in 1..n : K[i] = N[i]
  BY <1>3 DEF Sequence
<1>5. Len(handles[q]) <= n
  BY <1>2, <1>3 DEF All, DupState, Behind
<1>6. /\ Len(handles[q]) \in Nat
      /\ \A k \in 0..(epoch[q] - 1) : /\ Len(files[q][k].handles) \in Nat
                                      /\ Len(files[q][k].handles) <= Len(handles[q])
  BY HandleFacts
<1>7. ASSUME NEW h, NEW comms, Len(h) \in Nat, Len(h) <= n, Alike(h, comms, N) PROVE Alike(h, comms, K)
  BY <1>3, <1>4, <1>7 DEF Alike
<1>8. HandlesAgree(q, K)
  <2>1. Alike(handles[q], communicators[q], K)
    BY <1>1, <1>5, <1>6, <1>7 DEF HandlesAgree
  <2>2. FilesAlike(q, K)
    <3> SUFFICES ASSUME NEW k \in 0..(epoch[q] - 1), NEW file, file = files[q][k]
                 PROVE  /\ Alike(file.handles, communicators[q], K) /\ Noted(file, K)
                        /\ \A l \in 0..(epoch[q] - 1) :
                              k <= l => Alike(file.handles, files[q][l].communicators, K)
      BY DEF FilesAlike
    <3>1. /\ Alike(file.handles, communicators[q], N) /\ Noted(file, N)
          /\ \A l \in 0..(epoch[q] - 1) :
                k <= l => Alike(file.handles, files[q][l].communicators, N)
      BY <1>1 DEF HandlesAgree, FilesAlike
    <3>2. Len(file.handles) \in Nat /\ Len(file.handles) <= n
      <4>1. Len(file.handles) \in Nat /\ Len(file.handles) <= Len(handles[q])
        BY <1>6
      <4> QED
        BY <1>3, <1>5, <1>6, <4>1
    <3>3. Noted(file, K)
      BY <1>3, <1>4, <3>1, <3>2 DEF Noted
    <3> QED
      BY <1>7, <3>1, <3>2, <3>3
  <2> QED
    BY <2>1, <2>2 DEF HandlesAgree
<1>9. ASSUME NEW j \in DOMAIN calls, IsDup(calls[j]), Held(calls, j) <= Len(K), ~(Held(calls, j) <= n)
      PROVE  j > count[0] /\ Sent(0, q, j) = 0
  <2>1. j \in Nat \ {0}
    BY <1>1
  <2>2. ~(j <= count[0])
    BY <1>1, <1>3, <1>9, <2>1, BeforeDup
  <2> QED
    BY <1>1, <2>1, <2>2 DEF Sent
<1>10. ASSUME NEW j \in DOMAIN calls
       PROVE  /\ Held(calls, j) \in Nat \ {0}
              /\ Held(calls, j) <= n => Held(calls, j) \in 1..n /\ K[Held(calls, j)] = N[Held(calls, j)]
  <2>1. j \in Nat
    BY <1>1
  <2>2. Held(calls, j) \in Nat \ {0}
    BY <2>1, HeldType
  <2> QED
    BY <1>3, <1>4, <2>2
<1>11. ASSUME q # 0 PROVE Has(q, count[q] + 1, K)
  <2> SUFFICES ASSUME NEW j, j = count[q] + 1, busy[q], IsDup(calls[j]), Taken(q, 0, j) > 0,
                      Held(calls, j) <= Len(K)
               PROVE  memory[q].pt2pt = K[Held(calls, j)]
    BY DEF Has
  <2>1. j \in DOMAIN calls /\ ~Stopped(q) /\ WorldCalls /\ Steady
    BY <1>1 DEF All
  <2>2. Sent(0, q, j) > 0
    BY <1>1, <1>2, <2>1, TakenIsSent
  <2>3. Held(calls, j) <= n
    BY <1>9, <2>1, <2>2
  <2>4. memory[q].pt2pt = N[Held(calls, j)]
    BY <1>1, <1>3, <1>11, <2>3 DEF MessagesAgree, Has
  <2> QED
    BY <1>10, <2>1, <2>3, <2>4
<1>12. ASSUME q # 0 PROVE Coming(q, K)
  <2> SUFFICES ASSUME Reads(q), NEW j \in DOMAIN calls, Awaits(q, j, K)
               PROVE  Comes(q, j, K[Held(calls, j)])
    BY DEF Coming
  <2>1. IsDup(calls[j]) /\ j > count[q] /\ Taken(q, 0, j) = 0 /\ Held(calls, j) <= Len(K)
    BY DEF Awaits
  <2>2. CASE Held(calls, j) <= n
    <3>1. Awaits(q, j, N)
      BY <1>3, <2>1, <2>2 DEF Awaits
    <3>2. Comes(q, j, N[Held(calls, j)])
      BY <1>1, <1>12, <3>1 DEF MessagesAgree, Coming
    <3> QED
      BY <1>10, <2>2, <3>2
  <2>3. CASE ~(Held(calls, j) <= n)
    <3>1. Sent(0, q, j) = 0
      BY <1>9, <2>1, <2>3
    <3>2. WorldCalls /\ PoolInv /\ Steady
      BY DEF All
    <3>3. /\ \A i \in DOMAIN Received(q) : ~Hit(Received(q)[i], 0, j)
          /\ \A i \in DOMAIN OnTheWay(0, q) : ~Hit(OnTheWay(0, q)[i], 0, j)
      BY <1>1, <1>2, <2>1, <3>1, <3>2, NothingTaken
    <3> QED
      BY <3>3 DEF Comes, QueueBrings, WireBrings, IsFirst
  <2> QED
    BY <2>2, <2>3
<1> QED
  BY <1>8, <1>11, <1>12 DEF MessagesAgree

(***************************************************************************)
(* What a step leaves as it is.                                            *)
(***************************************************************************)
LEMMA HandlesAgreeKept ==
    ASSUME NEW r, NEW K, HandlesAgree(r, K), epoch'[r] = epoch[r], files'[r] = files[r],
           handles'[r] = handles[r], communicators'[r] = communicators[r]
    PROVE  HandlesAgree(r, K)'
  BY DEF HandlesAgree, FilesAlike, Alike, Noted

LEMMA LensKept ==
    ASSUME Rigid, NEW r, Lens(r), count'[r] = count[r], files'[r] = files[r],
           handles'[r] = handles[r]
    PROVE  Lens(r)'
  BY DEF Lens, Rigid, Held, IsDup

LEMMA ComesKept ==
    ASSUME NEW r, received_header_queue'[r] = received_header_queue[r],
           headers'[r] = headers[r], payloads'[r] = payloads[r],
           payload_buffer'[r] = payload_buffer[r], network'[<<0, r>>] = network[<<0, r>>],
           NEW j, NEW x, Comes(r, j, x)
    PROVE  Comes(r, j, x)'
<1>1. Received(r)' = Received(r) /\ OnTheWay(0, r)' = OnTheWay(0, r)
  BY DEF Received, OnTheWay
<1>2. QueueBrings(r, j, x)'
  BY <1>1 DEF Comes, QueueBrings, Brings, IsFirst, Hit
<1>3. WireBrings(r, j, x)'
  BY <1>1 DEF Comes, WireBrings, IsFirst, Hit
<1> QED
  BY <1>2, <1>3 DEF Comes

\* A rank that completes no call and takes nothing.
Passive(r) ==
    /\ count'[r] = count[r]
    /\ busy'[r] => busy[r] /\ memory'[r].pt2pt = memory[r].pt2pt
    /\ Reads(r)' => Reads(r)
    /\ busy'[r] \/ Reads(r)' => \A j \in DOMAIN calls : Taken(r, 0, j)' = Taken(r, 0, j)
StillComes(r, K) ==
    \A j \in DOMAIN calls : \A x :
        /\ Reads(r) /\ Awaits(r, j, K) /\ x = K[Held(calls, j)] /\ Comes(r, j, x)
        => Comes(r, j, x)'

LEMMA MessagesAgreeKept ==
    ASSUME All, Rigid, NEW r \in Ranks, NEW K, MessagesAgree(r, K), Passive(r),
           r # 0 => StillComes(r, K)
    PROVE  MessagesAgree(r, K)'
<1> SUFFICES ASSUME r # 0 PROVE Has(r, count[r] + 1, K)' /\ Coming(r, K)'
  BY DEF MessagesAgree
<1>1. calls' = calls /\ DOMAIN calls' = DOMAIN calls /\ \A j : Held(calls, j)' = Held(calls, j)
  BY DEF Rigid
<1>2. Has(r, count[r] + 1, K) /\ Coming(r, K)
  BY DEF MessagesAgree
<1>3. Has(r, count[r] + 1, K)'
  <2> SUFFICES ASSUME NEW c, c = count[r] + 1, busy'[r], IsDup(calls[c]), Taken(r, 0, c)' > 0,
                      Held(calls, c) <= Len(K)
               PROVE  memory'[r].pt2pt = K[Held(calls, c)]
    BY <1>1 DEF Has, Passive, IsDup
  <2>1. busy[r] /\ memory'[r].pt2pt = memory[r].pt2pt
    BY DEF Passive
  <2>2. c \in DOMAIN calls
    BY <2>1, DupFacts
  <2>3. Taken(r, 0, c) > 0
    BY <2>2 DEF Passive
  <2> QED
    BY <1>2, <2>1, <2>3 DEF Has
<1>4. Coming(r, K)'
  <2> SUFFICES ASSUME Reads(r)', NEW j \in DOMAIN calls, Awaits(r, j, K)',
                      NEW x, x = K[Held(calls, j)]
               PROVE  Comes(r, j, x)'
    BY <1>1 DEF Coming
  <2>1. Reads(r) /\ Taken(r, 0, j)' = Taken(r, 0, j) /\ count'[r] = count[r]
    BY DEF Passive
  <2>2. Awaits(r, j, K)
    BY <1>1, <2>1 DEF Awaits, IsDup
  <2>3. Comes(r, j, x)
    BY <1>2, <2>1, <2>2 DEF Coming
  <2> QED
    BY <2>1, <2>2, <2>3 DEF StillComes
<1> QED
  BY <1>3, <1>4

\* A rank whose variables and messages stay as they are.
MailSame(r) ==
    /\ received_header_queue'[r] = received_header_queue[r] /\ headers'[r] = headers[r]
    /\ payloads'[r] = payloads[r] /\ payload_buffer'[r] = payload_buffer[r]
    /\ network'[<<0, r>>] = network[<<0, r>>]
LEMMA MailKept ==
    ASSUME NEW r, MailSame(r), NEW K
    PROVE  StillComes(r, K)
<1>1. ASSUME NEW j, NEW x, Comes(r, j, x) PROVE Comes(r, j, x)'
  BY <1>1, ComesKept DEF MailSame
<1> QED
  BY <1>1 DEF StillComes

LEMMA PassiveSame ==
    ASSUME Rigid, NEW r, CountsSame(r), memory'[r] = memory[r], Reads(r)' => Reads(r)
    PROVE  Passive(r)
<1>1. \A j : Taken(r, 0, j)' = Taken(r, 0, j)
  BY CountsKept
<1> QED
  BY <1>1 DEF Passive, CountsSame

(***************************************************************************)
(* The invariant of the next state, from what its parts say of the numbers *)
(* of this one.                                                            *)
(***************************************************************************)
Prefix(N, K) == Len(N) \in Nat /\ Len(N) <= Len(K) /\ \A i \in 1..Len(N) : N[i] = K[i]

LEMMA Shorten ==
    ASSUME NEW N, NEW K, Prefix(N, K), Len(K) \in Nat, NEW r, HandlesAgree(r, K)', MessagesAgree(r, K)',
           DOMAIN calls \subseteq Nat, Rigid, count'[r] \in Nat
    PROVE  HandlesAgree(r, N)' /\ MessagesAgree(r, N)'
<1>1. \A i \in Nat \ {0} : i <= Len(N) => i <= Len(K) /\ N[i] = K[i]
  BY DEF Prefix
<1>2. ASSUME NEW h, NEW comms, Alike(h, comms, K) PROVE Alike(h, comms, N)
  BY <1>1, <1>2 DEF Alike
<1>3. ASSUME NEW file, Noted(file, K) PROVE Noted(file, N)
  BY <1>1, <1>3 DEF Noted
<1>4. HandlesAgree(r, N)'
  <2>1. Alike(handles'[r], communicators'[r], N)
    BY <1>2 DEF HandlesAgree
  <2>2. FilesAlike(r, N)'
    <3> SUFFICES ASSUME NEW k \in 0..(epoch'[r] - 1)
                 PROVE  /\ Alike(files'[r][k].handles, communicators'[r], N)
                        /\ Noted(files'[r][k], N)
                        /\ \A l \in 0..(epoch'[r] - 1) :
                              k <= l => Alike(files'[r][k].handles, files'[r][l].communicators, N)
      BY DEF FilesAlike
    <3>1. /\ Alike(files'[r][k].handles, communicators'[r], K) /\ Noted(files'[r][k], K)
          /\ \A l \in 0..(epoch'[r] - 1) :
                k <= l => Alike(files'[r][k].handles, files'[r][l].communicators, K)
      BY DEF HandlesAgree, FilesAlike
    <3> QED
      BY <1>2, <1>3, <3>1
  <2> QED
    BY <2>1, <2>2 DEF HandlesAgree
<1>5. calls' = calls
  BY DEF Rigid
<1>6. ASSUME NEW c \in Nat PROVE Held(calls, c) \in Nat \ {0}
  BY HeldType
<1>7. ASSUME r # 0 PROVE Has(r, count[r] + 1, N)'
  <2>1. PICK c : c = count'[r] + 1 /\ c \in Nat
    OBVIOUS
  <2>2. PICK m \in Nat \ {0} : m = Held(calls, c)
    BY <1>6, <2>1
  <2>3. m <= Len(N) => m <= Len(K) /\ N[m] = K[m]
    BY <1>1
  <2>4. busy'[r] /\ IsDup(calls[c]) /\ Taken(r, 0, c)' > 0 /\ m <= Len(K) => memory'[r].pt2pt = K[m]
    BY <1>5, <1>7, <2>1, <2>2 DEF MessagesAgree, Has, IsDup
  <2>5. busy'[r] /\ IsDup(calls[c]) /\ Taken(r, 0, c)' > 0 /\ m <= Len(N) => memory'[r].pt2pt = N[m]
    BY <2>3, <2>4
  <2> QED
    BY <1>5, <2>1, <2>2, <2>5 DEF Has, IsDup
<1>8. ASSUME r # 0 PROVE Coming(r, N)'
  <2> SUFFICES ASSUME Reads(r)', NEW j \in DOMAIN calls, Awaits(r, j, N)',
                      NEW m, m = Held(calls, j)
               PROVE  Comes(r, j, N[m])'
    BY <1>5 DEF Coming
  <2>1. m \in Nat \ {0}
    BY <1>6
  <2>2. m <= Len(N)
    BY <1>5, <2>1 DEF Awaits
  <2>3. PICK x : m <= Len(K) /\ N[m] = x /\ K[m] = x
    BY <1>1, <2>1, <2>2
  <2>4. Awaits(r, j, K)'
    BY <1>5, <2>1, <2>3 DEF Awaits
  <2>5. Comes(r, j, x)'
    BY <1>5, <1>8, <2>1, <2>3, <2>4 DEF MessagesAgree, Coming
  <2> QED
    BY <2>3, <2>5
<1> QED
  BY <1>4, <1>7, <1>8 DEF MessagesAgree

LEMMA DupTogether ==
    ASSUME All, Rigid, NEW K, Len(K) \in Nat, Prefix(Numbers', K),
           \A r \in Ranks : /\ HandlesAgree(r, K)' /\ MessagesAgree(r, K)'
                            /\ Lens(r)' /\ count'[r] \in Nat,
           Ascending', Behind'
    PROVE  DupState'
<1>1. Ranks' = Ranks /\ DOMAIN calls \subseteq Nat
  <2>1. DOMAIN calls = 1..Len(calls)
    BY DupFacts
  <2> QED
    BY <2>1 DEF Rigid, Ranks
<1>2. PICK N : N = Numbers'
  OBVIOUS
<1>3. \A r \in Ranks : HandlesAgree(r, N)' /\ MessagesAgree(r, N)'
  BY <1>1, <1>2, Shorten
<1> QED
  BY <1>1, <1>2, <1>3 DEF DupState

\* The numbers do not change, or rank 0 gives up the one that it has drawn.
LEMMA NumbersKept ==
    ASSUME Rigid, count'[0] = count[0], busy'[0] = busy[0], handles'[0] = handles[0],
           communicators'[0] = communicators[0],
           Drawing => memory'[0].pt2pt = memory[0].pt2pt
    PROVE  Numbers' = Numbers
<1>1. Drawing' = Drawing
  BY DEF Drawing, Call, IsDup, Rigid
<1>2. HandleContexts(0)' = HandleContexts(0)
  BY DEF HandleContexts, ContextOf, get_context_id_pt2pt, Communicator
<1> QED
  BY <1>1, <1>2 DEF Numbers

LEMMA AscendsPrefix ==
    ASSUME NEW N, NEW K, Prefix(N, K), Len(K) \in Nat, NEW bound, Ascends(K, bound)
    PROVE  Ascends(N, bound)
  BY DEF Prefix, Ascends

LEMMA AscendingKept ==
    ASSUME All, Rigid, Prefix(Numbers', Numbers), DOMAIN nextID' = DOMAIN nextID,
           nextID'[0] = nextID[0], failed' # 0
    PROVE  Ascending'
<1>1. PICK N, K, bound : N = Numbers' /\ K = Numbers /\ bound = nextID[0]
  OBVIOUS
<1>2. Ascending
  BY DEF All, DupState
<1>3. Len(K) \in Nat
  BY <1>1, NumberFacts
<1>4. Ascends(K, bound)
  BY <1>1, <1>2 DEF Ascending
<1>5. Ascends(N, bound)
  BY <1>1, <1>3, <1>4, AscendsPrefix
<1>6. Ascends(Numbers, nextID[0])'
  BY <1>1, <1>5 DEF Ascends
<1> QED
  BY <1>2, <1>6 DEF Ascending, Rigid, Ranks

LEMMA DupGoesOn ==
    ASSUME All, Rigid, UNCHANGED <<count, epoch, files, handles, communicators, nextID>>,
           failed' # 0, ~Stopped(0)' => ~Stopped(0),
           Numbers' = Numbers \/ (Numbers' = HandleContexts(0) /\ Stopped(0)'),
           NEW K, K = Numbers, \A r \in Ranks : MessagesAgree(r, K)'
    PROVE  DupState'
<1>1. \A r \in Ranks : HandlesAgree(r, K) /\ Lens(r) /\ count[r] \in Nat
  BY DupFacts
<1>2. \A r \in Ranks : HandlesAgree(r, K)'
  BY <1>1, HandlesAgreeKept
<1>3. \A r \in Ranks : Lens(r)'
  BY <1>1, LensKept
<1>4. PICK n : n = Len(handles[0])
  OBVIOUS
<1>5. /\ n \in Nat /\ Len(K) \in Nat /\ n <= Len(K) /\ \A i \in 1..n : K[i] = ContextOf(0, i)
  BY <1>4, NumberFacts
<1>6. Prefix(Numbers', K)
  <2>1. PICK h : h = HandleContexts(0)
    OBVIOUS
  <2>2. DOMAIN h = 1..n /\ \A i \in 1..n : h[i] = ContextOf(0, i)
    <3>1. DOMAIN handles[0] = 1..n
      BY <1>4, DupFacts, HandleFacts
    <3> QED
      BY <2>1, <3>1 DEF HandleContexts
  <2>3. Len(h) = n
    BY <1>5, <2>2
  <2>4. Prefix(h, K) /\ Prefix(K, K)
    BY <1>5, <2>2, <2>3 DEF Prefix
  <2> QED
    BY <2>1, <2>4
<1>7. Ascending'
  BY <1>6, AscendingKept
<1>8. Behind'
  <2> SUFFICES ASSUME ~Stopped(0)' PROVE \A r \in Ranks : Len(handles[r]) <= Len(Numbers')
    BY DEF Behind, Rigid, Ranks
  <2>1. Behind
    BY DEF All, DupState
  <2> QED
    BY <2>1 DEF Behind
<1> QED
  BY <1>1, <1>2, <1>3, <1>5, <1>6, <1>7, <1>8, DupTogether

(***************************************************************************)
(* The messages on their way: what is sent, and what the progress thread   *)
(* queues or drops.                                                        *)
(***************************************************************************)
LEMMA FirstOfLonger ==
    ASSUME NEW long, NEW short, NEW n, Removed(long, short, n, n + 1), NEW j,
           NEW i \in DOMAIN long, IsFirst(long, i, j)
    PROVE  \/ i \in DOMAIN short /\ IsFirst(short, i, j)
           \/ i = n + 1 /\ Hit(long[n + 1], 0, j) /\ \A k \in DOMAIN short : ~Hit(short[k], 0, j)
<1>1. /\ n \in Nat /\ DOMAIN short = 1..n /\ DOMAIN long = 1..(n + 1)
      /\ \A k \in 1..n : long[k] = short[k]
  BY AddedElements
<1>2. Hit(long[i], 0, j) /\ \A k \in 1..(n + 1) : Hit(long[k], 0, j) => i <= k
  BY <1>1 DEF IsFirst
<1>3. \A k \in 1..n : k \in 1..(n + 1)
  BY <1>1
<1>4. CASE i \in 1..n
  <2>1. \A k \in 1..n : Hit(short[k], 0, j) => i <= k
    BY <1>1, <1>2, <1>3
  <2> QED
    BY <1>1, <1>2, <1>4, <2>1 DEF IsFirst
<1>5. CASE i = n + 1
  <2>1. \A k \in 1..n : ~Hit(short[k], 0, j)
    BY <1>1, <1>2, <1>3, <1>5
  <2> QED
    BY <1>1, <1>2, <1>5, <2>1
<1> QED
  BY <1>1, <1>4, <1>5

LEMMA FirstOfShorter ==
    ASSUME NEW long, NEW short, NEW n, NEW p, Removed(long, short, n, p), NEW j,
           ~Hit(long[p], 0, j), NEW i \in DOMAIN short, IsFirst(short, i, j)
    PROVE  /\ Skip(p, i) \in DOMAIN long /\ long[Skip(p, i)] = short[i]
           /\ IsFirst(long, Skip(p, i), j)
<1>1. /\ n \in Nat /\ p \in 1..(n + 1) /\ DOMAIN long = 1..(n + 1) /\ DOMAIN short = 1..n
      /\ \A k \in 1..n : short[k] = long[Skip(p, k)]
  BY DEF Removed
<1>2. /\ \A k \in 1..n : Skip(p, k) \in 1..(n + 1) /\ Skip(p, k) # p
      /\ \A k, l \in 1..n : k < l => Skip(p, k) < Skip(p, l)
      /\ \A k \in 1..(n + 1) : k # p => \E l \in 1..n : Skip(p, l) = k
  BY <1>1, SkipFacts
<1>3. Hit(long[Skip(p, i)], 0, j)
  BY <1>1 DEF IsFirst
<1>4. ASSUME NEW k \in 1..(n + 1), Hit(long[k], 0, j) PROVE Skip(p, i) <= k
  <2>1. k # p
    BY <1>4
  <2>2. PICK l \in 1..n : Skip(p, l) = k
    BY <1>2, <2>1
  <2>3. i <= l
    BY <1>1, <1>4, <2>2 DEF IsFirst
  <2>4. i = l \/ i < l
    BY <1>1, <2>3
  <2> QED
    BY <1>1, <1>2, <2>2, <2>4
<1> QED
  BY <1>1, <1>2, <1>3, <1>4 DEF IsFirst

\* A datagram at the end of its wire.
LEMMA SentLetter ==
    ASSUME PoolInv, NEW r \in Ranks, NEW d \in Ranks, NEW h, NEW length, NEW payload,
           reliable_send(r, d, h, length, payload)
    PROVE  /\ \A p, q \in Ranks : p # r \/ q # d => network'[<<p, q>>] = network[<<p, q>>]
           /\ \E n \in Nat : /\ Removed(OnTheWay(r, d)', OnTheWay(r, d), n, n + 1)
                             /\ OnTheWay(r, d)'[n + 1] = h
                             /\ network'[<<r, d>>][n + 1].payload = payload
                             /\ \A i \in 1..n : network'[<<r, d>>][i] = network[<<r, d>>][i]
<1> SUFFICES ASSUME NEW datagram, datagram = [header |-> h, length |-> length, payload |-> payload],
                    NEW old, old = network[<<r, d>>]
             PROVE  /\ \A p, q \in Ranks : p # r \/ q # d => network'[<<p, q>>] = network[<<p, q>>]
                    /\ \E n \in Nat : /\ Removed(OnTheWay(r, d)', OnTheWay(r, d), n, n + 1)
                                      /\ OnTheWay(r, d)'[n + 1] = h
                                      /\ network'[<<r, d>>][n + 1].payload = payload
                                      /\ \A i \in 1..n : network'[<<r, d>>][i] = old[i]
  OBVIOUS
<1>1. PICK S : network \in [Ranks \X Ranks -> Seq(S)]
  BY DEF PoolInv, NetworkGood
<1>2. old \in Seq(S) /\ <<r, d>> \in Ranks \X Ranks
  BY <1>1
<1>3. network' = [network EXCEPT ![<<r, d>>] = Append(old, datagram)]
  BY DEF reliable_send
<1>4. datagram.payload = payload
  OBVIOUS
<1>5. network'[<<r, d>>] = Append(old, datagram)
  BY <1>1, <1>2, <1>3
<1>6. \A p, q \in Ranks : p # r \/ q # d => network'[<<p, q>>] = network[<<p, q>>]
  BY <1>1, <1>3
<1>7. /\ Len(old) \in Nat /\ DOMAIN old = 1..Len(old)
      /\ \A i \in 1..Len(old) : Append(old, datagram)[i] = old[i]
      /\ Append(old, datagram)[Len(old) + 1] = datagram
  BY <1>2
<1>8. PICK n \in Nat : /\ Removed(OnTheWay(r, d)', OnTheWay(r, d), n, n + 1)
                       /\ OnTheWay(r, d)'[n + 1] = h
  BY SentOnWire
<1>9. n = Len(old)
  <2>1. 1..n = 1..Len(old)
    BY <1>7, <1>8 DEF Removed, OnTheWay
  <2> QED
    BY <1>7, <2>1
<1>10. PICK new : new = network'[<<r, d>>]
  OBVIOUS
<1>11. new = Append(old, datagram)
  BY <1>5, <1>10
<1>12. new[n + 1].payload = payload
  BY <1>4, <1>7, <1>9, <1>11
<1>13. \A i \in 1..n : new[i] = old[i]
  BY <1>7, <1>9, <1>11
<1> QED
  BY <1>6, <1>8, <1>10, <1>12, <1>13

\* The message that rank 0 sends is the first of its call to a rank only if it brings the
\* context that was drawn.
LEMMA SendStillComes ==
    ASSUME All, UNCHANGED world_size, NEW r \in Ranks, MPI_Send(r), NEW q \in Ranks, q # 0,
           NEW K, K = Numbers
    PROVE  StillComes(q, K)
<1> SUFFICES ASSUME NEW step, step = Head(plan[r]), NEW payload, payload = memory[r][step.variable],
                    NEW h, h = HeaderOf(r, decide(step.operation), Envelope(r, r))
             PROVE  StillComes(q, K)
  OBVIOUS
<1>1. /\ plan[r] # <<>> /\ step.operation \in SendOperations
      /\ reliable_send(r, step.peer, h, 1, payload)
      /\ UNCHANGED <<calls, count, busy, memory, received_header_queue, faultVars, poolVars>>
  BY DEF MPI_Send, NextIs, Datagram
<1>2. WorldCalls /\ PoolInv /\ Steady /\ 0 \in Ranks
  BY DupFacts DEF All
<1>3. /\ busy[r] /\ ~Stopped(r) /\ plan[r] \in Seq(Steps(world_size)) /\ step.peer \in Ranks
      /\ h.tag = 0 /\ h.source = r /\ h.call = count[r] + 1 /\ count[r] + 1 \in DOMAIN calls
  BY <1>1, <1>2, AtStep DEF HeaderOf
<1>4. /\ \A a, b \in Ranks : a # r \/ b # step.peer => network'[<<a, b>>] = network[<<a, b>>]
      /\ \E n \in Nat : /\ Removed(OnTheWay(r, step.peer)', OnTheWay(r, step.peer), n, n + 1)
                        /\ OnTheWay(r, step.peer)'[n + 1] = h
                        /\ network'[<<r, step.peer>>][n + 1].payload = payload
                        /\ \A i \in 1..n : network'[<<r, step.peer>>][i] = network[<<r, step.peer>>][i]
  <2>1. PICK d \in Ranks : d = step.peer
    BY <1>3
  <2>2. reliable_send(r, d, h, 1, payload)
    BY <1>1, <2>1
  <2>3. /\ \A a, b \in Ranks : a # r \/ b # d => network'[<<a, b>>] = network[<<a, b>>]
        /\ \E n \in Nat : /\ Removed(OnTheWay(r, d)', OnTheWay(r, d), n, n + 1)
                          /\ OnTheWay(r, d)'[n + 1] = h
                          /\ network'[<<r, d>>][n + 1].payload = payload
                          /\ \A i \in 1..n : network'[<<r, d>>][i] = network[<<r, d>>][i]
    BY <1>2, <2>2, SentLetter
  <2> QED
    BY <2>1, <2>3
<1>5. CASE r # 0 \/ step.peer # q
  <2>1. MailSame(q)
    BY <1>1, <1>2, <1>4, <1>5 DEF MailSame, poolVars
  <2> QED
    BY <2>1, MailKept
<1>6. CASE r = 0 /\ step.peer = q
  <2> SUFFICES ASSUME NEW j \in DOMAIN calls, NEW x, Reads(q), Awaits(q, j, K),
                      x = K[Held(calls, j)], Comes(q, j, x)
               PROVE  Comes(q, j, x)'
    BY DEF StillComes
  <2>1. PICK n \in Nat : /\ Removed(OnTheWay(0, q)', OnTheWay(0, q), n, n + 1)
                         /\ OnTheWay(0, q)'[n + 1] = h
                         /\ network'[<<0, q>>][n + 1].payload = payload
                         /\ \A i \in 1..n : network'[<<0, q>>][i] = network[<<0, q>>][i]
    BY <1>4, <1>6
  <2>2. Received(q)' = Received(q) /\ \A i : Brings(q, i)' = Brings(q, i)
    BY <1>1 DEF Received, Brings, poolVars
  <2>3. QueueBrings(q, j, x)'
    BY <2>2 DEF Comes, QueueBrings, IsFirst, Hit
  <2>4. WireBrings(q, j, x)'
    <3> SUFFICES ASSUME \A i \in DOMAIN Received(q) : ~Hit(Received(q)[i], 0, j),
                        NEW long, long = OnTheWay(0, q)', NEW i \in DOMAIN long, IsFirst(long, i, j)
                 PROVE  network'[<<0, q>>][i].payload = x
      BY <2>2 DEF WireBrings, IsFirst, Hit
    <3>0. PICK short : short = OnTheWay(0, q)
      OBVIOUS
    <3>1. \/ i \in DOMAIN short /\ IsFirst(short, i, j)
          \/ i = n + 1 /\ Hit(long[n + 1], 0, j) /\ \A k \in DOMAIN short : ~Hit(short[k], 0, j)
      <4>1. Removed(long, short, n, n + 1)
        BY <2>1, <3>0
      <4> QED
        BY <4>1, FirstOfLonger
    <3>2. CASE i \in DOMAIN short /\ IsFirst(short, i, j)
      <4>1. network[<<0, q>>][i].payload = x
        BY <3>0, <3>2 DEF Comes, WireBrings
      <4>2. i \in 1..n
        BY <2>1, <3>0, <3>2 DEF Removed
      <4> QED
        BY <2>1, <4>1, <4>2
    <3>3. CASE i = n + 1 /\ Hit(long[n + 1], 0, j) /\ \A k \in DOMAIN short : ~Hit(short[k], 0, j)
      <4>1. j = count[0] + 1
        BY <1>3, <1>6, <2>1, <3>3 DEF Hit
      <4>2. IsDup(calls[j]) /\ j > count[q] /\ Taken(q, 0, j) = 0
        BY DEF Awaits
      <4>3. Sent(0, q, j) \in Nat /\ ~(Sent(0, q, j) > 0)
        <5>1. ~Stopped(0)
          BY <1>3, <1>6
        <5>2. /\ Sent(0, q, j) \in Nat
              /\ Sent(0, q, j) > 0 => \/ \E k \in DOMAIN Received(q) : Hit(Received(q)[k], 0, j)
                                      \/ \E k \in DOMAIN OnTheWay(0, q) : Hit(OnTheWay(0, q)[k], 0, j)
          BY <1>2, <4>2, <5>1, NothingTaken
        <5>3. \A k \in DOMAIN OnTheWay(0, q) : ~Hit(OnTheWay(0, q)[k], 0, j)
          BY <3>0, <3>3
        <5> QED
          BY <5>2, <5>3
      <4>4. SentTotal(0, q, j) = 2
        BY <1>2, <4>2, DupTaken
      <4>5. count[0] \in Nat
        BY <1>2, DupFacts
      <4>6. Sent(0, q, j) = 2 - Cardinality(Sends(plan[0], q))
        BY <1>3, <1>6, <4>1, <4>4, <4>5 DEF Sent
      <4>7. Cardinality(Sends(plan[0], q)) # 1
        BY <4>3, <4>6
      <4>8. step.variable = "pt2pt"
        <5>1. PICK p : p = plan[0]
          OBVIOUS
        <5>2. p \in Seq(Steps(world_size)) /\ p # <<>> /\ step = Head(p)
          BY <1>1, <1>3, <1>6, <5>1
        <5>3. Rest(p, WorldPlan(world_size, 0, calls[j]))
          BY <1>2, <1>3, <1>6, <4>1, <5>1 DEF Steady, RankInv, Plan
        <5>4. world_size \in Nat \ {0}
          BY DupFacts
        <5>5. step.variable = "pt2pt" \/ Cardinality(Sends(p, q)) = 1
          BY <1>6, <4>2, <5>2, <5>3, <5>4, DupSend
        <5> QED
          BY <4>7, <5>1, <5>5
      <4>9. payload = memory[0].pt2pt
        BY <1>6, <4>8
      <4>10. Drawing
        BY <1>3, <1>6, <4>1, <4>2 DEF Drawing, Call
      <4>11. PICK m : m = Len(handles[0])
        OBVIOUS
      <4>12. m = Held(calls, count[0]) /\ m \in Nat /\ K[m + 1] = memory[0].pt2pt
        <5>1. All /\ K = Numbers /\ m = Len(handles[0])
          BY <4>11
        <5>2. m \in Nat \ {0} /\ m = Held(calls, count[0]) /\ (Drawing => K[m + 1] = memory[0].pt2pt)
          BY <5>1, NumberFacts
        <5> QED
          BY <4>10, <5>2
      <4>13. Held(calls, j) = m + 1
        BY <4>1, <4>2, <4>5, <4>12, HeldStep
      <4> QED
        BY <2>1, <3>3, <4>9, <4>12, <4>13
    <3> QED
      BY <3>1, <3>2, <3>3
  <2> QED
    BY <2>3, <2>4 DEF Comes
<1> QED
  BY <1>5, <1>6

\* What a rank has yet to take, it will not drop.
LEMMA LiveAhead ==
    ASSUME WorldCalls, Steady, NEW r \in Ranks, Reads(r), NEW j \in DOMAIN calls, j > count[r]
    PROVE  Live(r, j)
<1>1. Shape /\ RankInv(r)
  BY DEF Steady
<1>2. DOMAIN calls \subseteq Nat \ {0}
  <2>1. DOMAIN calls = 1..Len(calls)
    BY <1>1, WorldFacts
  <2> QED
    BY <2>1
<1>3. count[r] \in Nat /\ j - 1 \in Nat /\ count[r] <= j - 1 /\ epoch[r] \in Nat
  BY <1>1, <1>2 DEF Shape
<1>4. epoch[r] = EpochOf(calls, count[r])
  <2>1. busy[r] \/ ~is_errSet[r]
    BY DEF Reads
  <2> QED
    BY <1>1, <2>1 DEF RankInv
<1>5. EpochOf(calls, count[r]) <= EpochOf(calls, j - 1)
  BY <1>3, EpochMonotone
<1>6. EpochOf(calls, j - 1) \in Nat
  BY <1>3, EpochType
<1> QED
  BY <1>3, <1>4, <1>5, <1>6 DEF Live, Reads

\* The progress thread: the payloads of the messages of calls stay with them.
LEMMA PostBrings ==
    ASSUME PoolInv, DataInv, MessagesData, Rigid, NEW r \in Ranks, NEW s \in Ranks,
           post_header(r, s), NEW datagram, datagram = Head(network[<<s, r>>])
    PROVE  /\ \A q \in Ranks : q # r =>
                 /\ received_header_queue'[q] = received_header_queue[q]
                 /\ headers'[q] = headers[q]
                 /\ payloads'[q] = payloads[q] /\ payload_buffer'[q] = payload_buffer[q]
           /\ \A p, q \in Ranks : p # s \/ q # r => network'[<<p, q>>] = network[<<p, q>>]
           /\ datagram = network[<<s, r>>][1]
           /\ \A i \in DOMAIN network'[<<s, r>>] :
                 network'[<<s, r>>][i] = network[<<s, r>>][i + 1]
           /\ \A i \in DOMAIN Received(r) :
                 Received(r)[i].tag = 0 => Brings(r, i)' = Brings(r, i)
           /\ \A m : /\ m = Len(received_header_queue[r]) /\ datagram.header.tag = 0
                     /\ ~(datagram.header.epoch < epoch[r])
                     => Brings(r, m + 1)' = datagram.payload
<1> SUFFICES ASSUME NEW old, old = network[<<s, r>>], NEW h, h = ReceivedHeader(r),
                    NEW queued, queued = received_header_queue[r]
             PROVE  /\ \A q \in Ranks : q # r =>
                          /\ received_header_queue'[q] = received_header_queue[q]
                          /\ headers'[q] = headers[q]
                          /\ payloads'[q] = payloads[q] /\ payload_buffer'[q] = payload_buffer[q]
                    /\ \A p, q \in Ranks : p # s \/ q # r => network'[<<p, q>>] = network[<<p, q>>]
                    /\ datagram = old[1]
                    /\ \A i \in DOMAIN network'[<<s, r>>] : network'[<<s, r>>][i] = old[i + 1]
                    /\ \A i \in DOMAIN Received(r) :
                          Received(r)[i].tag = 0 => Brings(r, i)' = Brings(r, i)
                    /\ \A m : /\ m = Len(queued) /\ datagram.header.tag = 0
                              /\ ~(datagram.header.epoch < epoch[r])
                              => Brings(r, m + 1)' = datagram.payload
  OBVIOUS
<1>1. old # <<>> /\ TakePayload(r, s) /\ network' = [network EXCEPT ![<<s, r>>] = Tail(old)]
  BY DEF post_header, ordered_recv, ordered_recv_and_drop, TakePayload
<1>2. PICK S : network \in [Ranks \X Ranks -> Seq(S)]
  BY DEF PoolInv, NetworkGood
<1>3. old \in Seq(S) /\ <<s, r>> \in Ranks \X Ranks
  BY <1>2
<1>4. HasPayload(datagram)
  BY <1>1, <1>3, NetworkShrinks DEF PoolInv, Rigid
<1>5. datagram = old[1] /\ \A i \in DOMAIN Tail(old) : Tail(old)[i] = old[i + 1]
  BY <1>1, <1>3
<1>6. /\ \A i \in DOMAIN network'[<<s, r>>] : network'[<<s, r>>][i] = old[i + 1]
      /\ \A p, q \in Ranks : p # s \/ q # r => network'[<<p, q>>] = network[<<p, q>>]
  <2>1. PICK rest : rest = Tail(old)
    OBVIOUS
  <2>2. network'[<<s, r>>] = rest
    BY <1>1, <1>2, <1>3, <2>1
  <2> QED
    BY <1>1, <1>2, <1>5, <2>1, <2>2
<1>7. /\ h \notin ToSet(queued)
      /\ \A g \in WithPayload(r) :
            payloads'[r][payload_buffer'[r][g]] = payloads[r][payload_buffer[r][g]]
      /\ datagram.length > 0 => payloads'[r][payload_buffer'[r][h]] = datagram.payload
      /\ \A q \in Ranks \ {r} :
            payloads'[q] = payloads[q] /\ payload_buffer'[q] = payload_buffer[q]
  BY <1>1, PostedPayloads DEF MessagesData
<1>8. /\ queued \in Seq(Nat) /\ DOMAIN headers = Ranks /\ DOMAIN received_header_queue = Ranks
  BY DEF PoolInv, RanksGood, RankGood, HeadersGood
<1>9. DOMAIN Received(r) = DOMAIN queued
  BY DEF Received
<1>10. \/ UNCHANGED <<headers, received_header_queue>> /\ datagram.header.epoch < epoch[r]
       \/ /\ \E content : headers' = [headers EXCEPT ![r] = content]
          /\ received_header_queue' = [received_header_queue EXCEPT ![r] = Append(queued, h)]
  <2>1. CASE datagram.header.epoch < epoch[r]
    BY <2>1 DEF post_header, ordered_recv_and_drop
  <2>2. CASE ~(datagram.header.epoch < epoch[r])
    BY <2>2 DEF post_header, ordered_recv
  <2> QED
    BY <2>1, <2>2
<1>11. /\ \A q \in Ranks : q # r => /\ received_header_queue'[q] = received_header_queue[q]
                                    /\ headers'[q] = headers[q]
       /\ \A i \in DOMAIN queued : received_header_queue'[r][i] = queued[i]
  <2>1. CASE UNCHANGED <<headers, received_header_queue>>
    BY <2>1
  <2>2. ASSUME NEW content, headers' = [headers EXCEPT ![r] = content], NEW new, new = Append(queued, h),
               received_header_queue' = [received_header_queue EXCEPT ![r] = new]
        PROVE  /\ \A q \in Ranks : q # r => /\ received_header_queue'[q] = received_header_queue[q]
                                           /\ headers'[q] = headers[q]
               /\ \A i \in DOMAIN queued : received_header_queue'[r][i] = queued[i]
    <3>1. received_header_queue'[r] = new
      BY <1>8, <2>2
    <3>2. \A i \in DOMAIN queued : new[i] = queued[i]
      BY <1>8, <2>2
    <3>3. \A q \in Ranks : q # r => /\ received_header_queue'[q] = received_header_queue[q]
                                    /\ headers'[q] = headers[q]
      BY <1>8, <2>2
    <3> QED
      BY <3>1, <3>2, <3>3
  <2> QED
    BY <1>10, <2>1, <2>2
<1>12. ASSUME NEW i \in DOMAIN Received(r), Received(r)[i].tag = 0
       PROVE  Brings(r, i)' = Brings(r, i)
  <2>1. PICK g : g = queued[i]
    OBVIOUS
  <2>2. g \in ToSet(queued) /\ headers[r][g].tag = 0
    BY <1>8, <1>9, <1>12, <2>1 DEF Received, ToSet
  <2>3. g \in WithPayload(r)
    BY <2>2 DEF WithPayload, MPIX_CLEANUP_TAG
  <2>4. received_header_queue'[r][i] = g /\ received_header_queue[r][i] = g
    BY <1>9, <1>11, <2>1
  <2> QED
    BY <1>7, <2>3, <2>4 DEF Brings
<1>13. ASSUME NEW m, m = Len(queued), datagram.header.tag = 0, ~(datagram.header.epoch < epoch[r])
       PROVE  Brings(r, m + 1)' = datagram.payload
  <2>1. received_header_queue' = [received_header_queue EXCEPT ![r] = Append(queued, h)]
    BY <1>10, <1>13
  <2>2. PICK new : new = Append(queued, h)
    OBVIOUS
  <2>3. received_header_queue'[r] = new /\ new[m + 1] = h
    BY <1>8, <1>13, <2>1, <2>2
  <2>4. datagram.length > 0
    BY <1>4, <1>13 DEF HasPayload, MPIX_CLEANUP_TAG
  <2> QED
    BY <1>7, <2>3, <2>4 DEF Brings
<1> QED
  BY <1>5, <1>6, <1>7, <1>11, <1>12, <1>13

LEMMA PostStillComes ==
    ASSUME All, UNCHANGED world_size, NEW r \in Ranks, NEW s \in Ranks, post_header(r, s),
           NEW q \in Ranks, q # 0, NEW K
    PROVE  StillComes(q, K)
<1> SUFFICES ASSUME NEW datagram, datagram = Head(network[<<s, r>>]),
                    NEW h, h = OnTheWay(s, r)[1]
             PROVE  StillComes(q, K)
  OBVIOUS
<1>1. WorldCalls /\ PoolInv /\ Steady /\ DataInv /\ MessagesData /\ 0 \in Ranks
  BY DupFacts DEF All, DataInv
<1>2. Rigid
  BY DEF post_header, Rigid
<1>3. /\ \A p \in Ranks : p # r =>
            /\ received_header_queue'[p] = received_header_queue[p]
            /\ headers'[p] = headers[p]
            /\ payloads'[p] = payloads[p] /\ payload_buffer'[p] = payload_buffer[p]
      /\ \A a, b \in Ranks : a # s \/ b # r => network'[<<a, b>>] = network[<<a, b>>]
      /\ datagram = network[<<s, r>>][1]
      /\ \A i \in DOMAIN network'[<<s, r>>] : network'[<<s, r>>][i] = network[<<s, r>>][i + 1]
      /\ \A i \in DOMAIN Received(r) : Received(r)[i].tag = 0 => Brings(r, i)' = Brings(r, i)
      /\ \A m : /\ m = Len(received_header_queue[r]) /\ datagram.header.tag = 0
                /\ ~(datagram.header.epoch < epoch[r])
                => Brings(r, m + 1)' = datagram.payload
  BY <1>1, <1>2, PostBrings
<1>4. CASE q # r
  <2>1. MailSame(q)
    BY <1>1, <1>3, <1>4 DEF MailSame
  <2> QED
    BY <2>1, MailKept
<1>5. CASE q = r
  <2> SUFFICES ASSUME NEW j \in DOMAIN calls, NEW x, Reads(r), Awaits(r, j, K),
                      Comes(r, j, x)
               PROVE  Comes(r, j, x)'
    BY <1>5 DEF StillComes
  <2>1. PICK Q, new, W, rest : /\ Q = Received(r) /\ new = Received(r)'
                               /\ W = OnTheWay(0, r) /\ rest = OnTheWay(0, r)'
    OBVIOUS
  <2>2. /\ \A a, b \in Ranks : a # s \/ b # r => OnTheWay(a, b)' = OnTheWay(a, b)
        /\ \E n \in Nat : Removed(OnTheWay(s, r), OnTheWay(s, r)', n, 1)
        /\ h = datagram.header
        /\ \/ h.epoch < epoch[r] /\ new = Q
           \/ ~(h.epoch < epoch[r]) /\ \E m \in Nat : Removed(new, Q, m, m + 1) /\ new[m + 1] = h
    BY <1>1, <2>1, PostedFromWire
  <2>3. /\ \A i \in DOMAIN Q : IsFirst(Q, i, j) => Brings(r, i) = x
        /\ (\A i \in DOMAIN Q : ~Hit(Q[i], 0, j)) =>
              \A i \in DOMAIN W : IsFirst(W, i, j) => network[<<0, r>>][i].payload = x
    BY <2>1 DEF Comes, QueueBrings, WireBrings
  <2>4. 1 \in DOMAIN OnTheWay(s, r)
    BY <2>2 DEF Removed
  <2>5. ASSUME Hit(h, 0, j) PROVE s = 0 /\ ~(h.epoch < epoch[r]) /\ h.tag = 0
    <3>1. WireInv(s, r)
      BY <1>1 DEF Steady, PairsInv
    <3>2. GoodMessage(h, s) \/ h.tag = MPIX_CLEANUP_TAG
      BY <2>4, <3>1 DEF WireInv
    <3>3. s = 0 /\ h.tag = 0
      BY <2>5, <3>2 DEF GoodMessage, Hit, MPIX_CLEANUP_TAG
    <3>4. Live(r, j) /\ ~Stopped(r)
      BY <1>1, LiveAhead DEF Awaits, Reads
    <3> QED
      BY <1>1, <2>4, <2>5, <3>3, <3>4, DroppedIsOld
  <2>6. ASSUME NEW i \in DOMAIN Q, Hit(Q[i], 0, j)
        PROVE  Brings(r, i)' = Brings(r, i)
    BY <1>3, <2>1, <2>6 DEF Hit
  <2>7. \A i \in DOMAIN Q : i \in DOMAIN new /\ new[i] = Q[i]
    <3>1. CASE new = Q
      BY <3>1
    <3>2. ASSUME NEW m \in Nat, Removed(new, Q, m, m + 1)
          PROVE  \A i \in DOMAIN Q : i \in DOMAIN new /\ new[i] = Q[i]
      <4>0. Removed(new, Q, m, m + 1)
        BY <3>2
      <4>1. DOMAIN Q = 1..m /\ DOMAIN new = 1..(m + 1) /\ \A i \in 1..m : new[i] = Q[i]
        BY <4>0, AddedElements, ZenonT(40)
      <4> QED
        BY <4>1
    <3> QED
      BY <2>2, <3>1, <3>2
  <2>8. ASSUME Hit(h, 0, j), \A i \in DOMAIN Q : ~Hit(Q[i], 0, j)
        PROVE  datagram.payload = x
    <3>1. s = 0
      BY <2>5, <2>8
    <3>2. h = W[1] /\ 1 \in DOMAIN W
      BY <2>1, <2>4, <3>1
    <3>3. DOMAIN W \subseteq Nat \ {0}
      <4>1. DOMAIN W = 1..Len(network[<<0, r>>]) /\ Len(network[<<0, r>>]) \in Nat
        BY <1>1, <2>1, HeaderSequences
      <4> QED
        BY <4>1
    <3>4. IsFirst(W, 1, j)
      BY <2>8, <3>2, <3>3 DEF IsFirst
    <3>5. network[<<0, r>>][1].payload = x
      BY <2>3, <2>8, <3>2, <3>4
    <3> QED
      BY <1>3, <3>1, <3>5
  <2>9. ASSUME NEW i \in DOMAIN new, IsFirst(new, i, j) PROVE Brings(r, i)' = x
    <3>1. CASE i \in DOMAIN Q /\ IsFirst(Q, i, j)
      <4>1. Brings(r, i) = x /\ Hit(Q[i], 0, j)
        BY <2>3, <3>1 DEF IsFirst
      <4> QED
        BY <2>6, <3>1, <4>1
    <3>2. ASSUME NEW m \in Nat, Removed(new, Q, m, m + 1), i = m + 1, new[m + 1] = h,
                 Hit(new[m + 1], 0, j), \A k \in DOMAIN Q : ~Hit(Q[k], 0, j)
          PROVE  Brings(r, i)' = x
      <4>1. datagram.payload = x
        BY <2>8, <3>2
      <4>2. m = Len(received_header_queue[r])
        <5>1. DOMAIN Q = 1..m
          BY <3>2, AddedElements
        <5>2. DOMAIN Q = 1..Len(received_header_queue[r]) /\ Len(received_header_queue[r]) \in Nat
          BY <1>1, <2>1, HeaderSequences
        <5> QED
          BY <5>1, <5>2
      <4>3. h.tag = 0 /\ ~(h.epoch < epoch[r])
        BY <2>5, <3>2
      <4> QED
        BY <1>3, <2>2, <3>2, <4>1, <4>2, <4>3
    <3>3. CASE new = Q
      BY <2>9, <3>1, <3>3
    <3>4. CASE \E m \in Nat : Removed(new, Q, m, m + 1) /\ new[m + 1] = h
      <4>1. PICK m \in Nat : Removed(new, Q, m, m + 1) /\ new[m + 1] = h
        BY <3>4
      <4>2. \/ i \in DOMAIN Q /\ IsFirst(Q, i, j)
            \/ i = m + 1 /\ Hit(new[m + 1], 0, j) /\ \A k \in DOMAIN Q : ~Hit(Q[k], 0, j)
        BY <2>9, <4>1, FirstOfLonger
      <4> QED
        BY <3>1, <3>2, <4>1, <4>2
    <3> QED
      BY <2>2, <3>3, <3>4
  <2>10. ASSUME \A i \in DOMAIN new : ~Hit(new[i], 0, j), NEW i \in DOMAIN rest, IsFirst(rest, i, j)
         PROVE  network'[<<0, r>>][i].payload = x
    <3>1. \A k \in DOMAIN Q : ~Hit(Q[k], 0, j)
      BY <2>7, <2>10
    <3>2. CASE s # 0
      <4>1. rest = W /\ network'[<<0, r>>] = network[<<0, r>>]
        BY <1>1, <1>3, <2>1, <2>2, <3>2
      <4> QED
        BY <2>3, <2>10, <3>1, <4>1
    <3>3. CASE s = 0
      <4>1. PICK n \in Nat : Removed(W, rest, n, 1)
        BY <2>1, <2>2, <3>3
      <4>2. ~Hit(W[1], 0, j)
        <5> SUFFICES ASSUME Hit(W[1], 0, j) PROVE FALSE
          OBVIOUS
        <5>1. Hit(h, 0, j)
          BY <2>1, <3>3
        <5>2. ~(h.epoch < epoch[r])
          BY <2>5, <5>1
        <5>3. PICK m \in Nat : Removed(new, Q, m, m + 1) /\ new[m + 1] = h
          BY <2>2, <5>2
        <5>4. m + 1 \in DOMAIN new
          <6>1. DOMAIN new = 1..(m + 1)
            BY <5>3, AddedElements
          <6> QED
            BY <6>1
        <5> QED
          BY <2>10, <5>1, <5>3, <5>4
      <4>3. /\ Skip(1, i) \in DOMAIN W /\ IsFirst(W, Skip(1, i), j)
        BY <2>10, <4>1, <4>2, FirstOfShorter
      <4>4. i \in Nat \ {0} /\ Skip(1, i) = i + 1
        <5>1. i \in 1..n
          BY <2>10, <4>1 DEF Removed
        <5> QED
          BY <5>1 DEF Skip
      <4>5. network[<<0, r>>][i + 1].payload = x
        BY <2>3, <3>1, <4>3, <4>4
      <4>6. i \in DOMAIN network'[<<0, r>>]
        BY <2>1, <2>10 DEF OnTheWay
      <4>7. network'[<<0, r>>][i] = network[<<0, r>>][i + 1]
        BY <1>3, <3>3, <4>6
      <4> QED
        BY <4>5, <4>7
    <3> QED
      BY <3>2, <3>3
  <2>11. QueueBrings(r, j, x)'
    BY <2>1, <2>9 DEF QueueBrings, IsFirst, Hit
  <2>12. WireBrings(r, j, x)'
    BY <2>1, <2>10 DEF WireBrings, IsFirst, Hit
  <2> QED
    BY <2>11, <2>12 DEF Comes
<1> QED
  BY <1>4, <1>5

\* A receive takes no message of another call, and finds the first of its own.
LEMMA RecvBrings ==
    ASSUME PoolInv, DataInv, MessagesData, Rigid, NEW r \in Ranks, MPI_Recv(r),
           NEW p, p = Position(r), NEW h, h = received_header_queue[r][p], h \in WithPayload(r),
           p \in 1..Len(received_header_queue[r]), fill(r, h)
    PROVE  /\ \A q \in Ranks : q # r =>
                 /\ received_header_queue'[q] = received_header_queue[q]
                 /\ headers'[q] = headers[q]
                 /\ payloads'[q] = payloads[q] /\ payload_buffer'[q] = payload_buffer[q]
           /\ \A i \in DOMAIN Received(r)' :
                 Skip(p, i) \in DOMAIN Received(r) /\ Received(r)[Skip(p, i)].tag = 0
                    => Brings(r, i)' = Brings(r, Skip(p, i))
<1> SUFFICES ASSUME NEW queued, queued = received_header_queue[r], NEW item,
                    item = payload_buffer[r][h], NEW rest, rest = RemoveAt(queued, p)
             PROVE  /\ \A q \in Ranks : q # r =>
                          /\ received_header_queue'[q] = received_header_queue[q]
                          /\ headers'[q] = headers[q]
                          /\ payloads'[q] = payloads[q] /\ payload_buffer'[q] = payload_buffer[q]
                    /\ \A i \in DOMAIN Received(r)' :
                          Skip(p, i) \in DOMAIN Received(r) /\ Received(r)[Skip(p, i)].tag = 0
                             => Brings(r, i)' = Brings(r, Skip(p, i))
  OBVIOUS
<1>1. /\ received_header_queue' = [received_header_queue EXCEPT ![r] = rest]
      /\ payloads' = [payloads EXCEPT ![r] = Without(payloads[r], item)]
      /\ headers' = [headers EXCEPT ![r] = Without(headers[r], h)]
      /\ payload_buffer' = payload_buffer
  BY DEF MPI_Recv, fill, release_header
<1>2. /\ HeadersGood(header_pool[r], queued)
      /\ PayloadsGood(payload_pool[r], WithPayload(r), payload_buffer[r])
      /\ DOMAIN headers = Ranks /\ DOMAIN received_header_queue = Ranks /\ DOMAIN payloads = Ranks
  BY DEF PoolInv, RanksGood, RankGood, DataInv
<1>3. queued \in Seq(Nat) /\ IsInjective(queued)
  BY <1>2 DEF HeadersGood
<1>4. PICK memory_ : memory_ = Without(payloads[r], item)
  OBVIOUS
<1>5. /\ payloads'[r] = memory_ /\ payload_buffer'[r] = payload_buffer[r]
      /\ received_header_queue'[r] = rest
  BY <1>1, <1>2, <1>4
<1>6. \A a \in (DOMAIN payloads[r]) \ {item} : memory_[a] = payloads[r][a]
  BY <1>4 DEF Without
<1>7. ASSUME NEW i \in DOMAIN Received(r)', NEW k, k = Skip(p, i), k \in DOMAIN Received(r),
             Received(r)[k].tag = 0
      PROVE  Brings(r, i)' = Brings(r, k)
  <2>1. /\ DOMAIN Received(r) = DOMAIN queued /\ DOMAIN Received(r)' = DOMAIN rest
        /\ Received(r)[k] = headers[r][queued[k]]
    BY <1>5, <1>7 DEF Received
  <2>2. /\ rest \in Seq(Nat) /\ Len(rest) = Len(queued) - 1
        /\ \A j \in 1..(Len(queued) - 1) : rest[j] = IF j < p THEN queued[j] ELSE queued[j + 1]
    BY <1>3, RemoveAtPositions
  <2>3. i \in 1..(Len(queued) - 1) /\ k \in 1..Len(queued)
    <3>1. i \in DOMAIN rest /\ k \in DOMAIN queued
      BY <1>7, <2>1
    <3>2. DOMAIN rest = 1..Len(rest) /\ DOMAIN queued = 1..Len(queued)
      BY <1>3, <2>2
    <3> QED
      BY <2>2, <3>1, <3>2
  <2>4. rest[i] = queued[k] /\ k # p
    <3>1. rest[i] = IF i < p THEN queued[i] ELSE queued[i + 1]
      BY <2>2, <2>3
    <3> QED
      BY <1>7, <2>3, <3>1 DEF Skip
  <2>5. PICK g : g = queued[k]
    OBVIOUS
  <2>6. g \in ToSet(queued) /\ g # h
    BY <1>3, <2>3, <2>4, <2>5 DEF IsInjective, ToSet
  <2>7. g \in WithPayload(r)
    BY <1>7, <2>1, <2>5, <2>6 DEF WithPayload, MPIX_CLEANUP_TAG
  <2>8. payload_buffer[r][g] # item
    BY <1>2, <2>6, <2>7 DEF PayloadsGood
  <2>9. payload_buffer[r][g] \in DOMAIN payloads[r]
    BY <2>7 DEF MessagesData, QueueData
  <2>10. memory_[payload_buffer[r][g]] = payloads[r][payload_buffer[r][g]]
    BY <1>6, <2>8, <2>9
  <2> QED
    BY <1>5, <2>4, <2>5, <2>10 DEF Brings
<1>8. \A q \in Ranks : q # r =>
         /\ received_header_queue'[q] = received_header_queue[q]
         /\ headers'[q] = headers[q]
         /\ payloads'[q] = payloads[q] /\ payload_buffer'[q] = payload_buffer[q]
  BY <1>1, <1>2
<1> QED
  BY <1>7, <1>8

LEMMA RecvStillComes ==
    ASSUME All, Rigid, NEW r \in Ranks, MPI_Recv(r)
    PROVE  /\ \A q \in Ranks \ {r} : MailSame(q)
           /\ \A j \in DOMAIN calls : \A x :
                 j # count[r] + 1 /\ Comes(r, j, x) => Comes(r, j, x)'
           /\ \A x : /\ r # 0 /\ Head(plan[r]).peer = 0 /\ Comes(r, count[r] + 1, x)
                     => Payload(r, received_header_queue[r][Position(r)]) = x
<1> SUFFICES ASSUME NEW p, p = Position(r), NEW h, h = received_header_queue[r][p],
                    NEW c, c = count[r] + 1, NEW f, f = Received(r)[p], NEW s, s = Head(plan[r]).peer
             PROVE  /\ \A q \in Ranks \ {r} : MailSame(q)
                    /\ \A j \in DOMAIN calls : \A x : j # c /\ Comes(r, j, x) => Comes(r, j, x)'
                    /\ \A x : s = 0 /\ Comes(r, c, x) => Payload(r, h) = x
  OBVIOUS
<1>1. WorldCalls /\ PoolInv /\ Steady /\ DataInv /\ ~disturbed /\ MessagesData /\ 0 \in Ranks
  BY DupFacts DEF All, DataInv
<1>2. /\ h \in WithPayload(r) /\ p \in 1..Len(received_header_queue[r])
      /\ fill(r, h) /\ network' = network
  BY <1>1, FoundData
<1>3. /\ \A q \in Ranks : q # r =>
            /\ received_header_queue'[q] = received_header_queue[q]
            /\ headers'[q] = headers[q]
            /\ payloads'[q] = payloads[q] /\ payload_buffer'[q] = payload_buffer[q]
      /\ \A i \in DOMAIN Received(r)' :
            Skip(p, i) \in DOMAIN Received(r) /\ Received(r)[Skip(p, i)].tag = 0
               => Brings(r, i)' = Brings(r, Skip(p, i))
  BY <1>1, <1>2, RecvBrings
<1>4. \A q \in Ranks \ {r} : MailSame(q)
  BY <1>2, <1>3 DEF MailSame
<1>5. /\ GoodMessage(f, s) /\ f.call = c /\ s \in Ranks
  BY <1>1, FoundFacts
<1>6. ASSUME NEW j \in DOMAIN calls, NEW x, j # c, Comes(r, j, x)
      PROVE  Comes(r, j, x)'
  <2>1. PICK Q, new : Q = Received(r) /\ new = Received(r)'
    OBVIOUS
  <2>2. PICK m \in Nat : Removed(Q, new, m, p)
    BY <1>1, <2>1, TakenFromQueue
  <2>3. ~Hit(Q[p], 0, j)
    BY <1>5, <1>6, <2>1 DEF Hit
  <2>4. ASSUME NEW i \in DOMAIN new, IsFirst(new, i, j) PROVE Brings(r, i)' = x
    <3>1. PICK k : k = Skip(p, i)
      OBVIOUS
    <3>2. k \in DOMAIN Q /\ IsFirst(Q, k, j)
      BY <2>2, <2>3, <2>4, <3>1, FirstOfShorter
    <3>3. Q[k].tag = 0
      BY <3>2 DEF IsFirst, Hit
    <3>4. Brings(r, i)' = Brings(r, k)
      BY <1>3, <2>1, <2>4, <3>1, <3>2, <3>3
    <3> QED
      BY <1>6, <2>1, <3>2, <3>4 DEF Comes, QueueBrings
  <2>5. ASSUME \A i \in DOMAIN new : ~Hit(new[i], 0, j), NEW i \in DOMAIN Q PROVE ~Hit(Q[i], 0, j)
    <3>1. i # p => \E k \in DOMAIN new : new[k] = Q[i]
      BY <2>2, LeftOver
    <3> QED
      BY <2>3, <2>5, <3>1
  <2>6. OnTheWay(0, r)' = OnTheWay(0, r)
    BY <1>2 DEF OnTheWay
  <2>7. QueueBrings(r, j, x)'
    BY <2>1, <2>4 DEF QueueBrings, IsFirst, Hit
  <2>8. WireBrings(r, j, x)'
    <3> SUFFICES ASSUME \A i \in DOMAIN new : ~Hit(new[i], 0, j), NEW i \in DOMAIN OnTheWay(0, r),
                        IsFirst(OnTheWay(0, r), i, j)
                 PROVE  network[<<0, r>>][i].payload = x
      BY <1>2, <2>1, <2>6 DEF WireBrings, IsFirst, Hit
    <3>1. \A k \in DOMAIN Q : ~Hit(Q[k], 0, j)
      BY <2>5
    <3> QED
      BY <1>6, <2>1, <3>1 DEF Comes, WireBrings
  <2> QED
    BY <2>7, <2>8 DEF Comes
<1>7. ASSUME NEW x, s = 0, Comes(r, c, x) PROVE Payload(r, h) = x
  <2>1. /\ NextIs(r, Receives) /\ Matching(r) /\ plan[r] # <<>>
    BY DEF MPI_Recv, NextIs
  <2>2. /\ p \in DOMAIN Received(r)
        /\ \A i \in DOMAIN Received(r) :
              /\ Received(r)[i].tag = 0 /\ Received(r)[i].source = s
              /\ Received(r)[i].epoch = epoch[r]
              => p <= i
    BY <1>1, <2>1, FoundFits
  <2>3. epoch[r] = EpochOf(calls, count[r]) /\ count[r] \in Nat
    BY <1>1, <2>1, AtStep, DupFacts
  <2>4. c - 1 = count[r]
    BY <2>3
  <2>5. ASSUME NEW i \in DOMAIN Received(r), Hit(Received(r)[i], 0, c) PROVE p <= i
    <3>1. PICK a \in Ranks : GoodMessage(Received(r)[i], a)
      BY <1>1, <2>5 DEF Steady, QueueInv, Hit
    <3>2. Received(r)[i].epoch = epoch[r]
      BY <2>3, <2>4, <2>5, <3>1 DEF GoodMessage, Hit
    <3> QED
      BY <1>7, <2>2, <2>5, <3>2 DEF Hit
  <2>6. IsFirst(Received(r), p, c)
    BY <1>5, <1>7, <2>5 DEF IsFirst, Hit, GoodMessage
  <2>7. Brings(r, p) = x
    BY <1>7, <2>2, <2>6 DEF Comes, QueueBrings
  <2> QED
    BY <2>7 DEF Brings, Payload
<1> QED
  BY <1>4, <1>6, <1>7

(***************************************************************************)
(* The steps that complete no call.                                        *)
(***************************************************************************)
LEMMA PassiveSend ==
    ASSUME All, Rigid, NEW r \in Ranks, plan[r] # <<>>, Head(plan[r]).operation \in SendOperations,
           plan'[r] = Tail(plan[r]), NEW q \in Ranks,
           q # r => plan'[q] = plan[q],
           UNCHANGED <<count, busy, memory, failed, is_errSet>>
    PROVE  Passive(q)
<1>1. Reads(q)' => Reads(q)
  BY DEF Stopped, Reads
<1>2. CASE q # r
  <2>1. CountsSame(q)
    BY <1>2 DEF CountsSame
  <2> QED
    BY <1>1, <2>1, PassiveSame
<1>3. CASE q = r
  <2>1. 0 \in Ranks /\ WorldCalls /\ Steady
    BY DupFacts DEF All
  <2>2. \A j \in DOMAIN calls : Taken(r, 0, j)' = Taken(r, 0, j)
    BY <2>1, PlanStep
  <2> QED
    BY <1>1, <1>3, <2>2 DEF Passive
<1> QED
  BY <1>2, <1>3

LEMMA SendDup ==
    ASSUME All, UNCHANGED world_size, NEW r \in Ranks, MPI_Send(r)
    PROVE  DupState'
<1>1. /\ plan[r] # <<>> /\ Head(plan[r]).operation \in SendOperations
      /\ plan' = [plan EXCEPT ![r] = Tail(@)]
      /\ UNCHANGED <<calls, count, busy, memory, epoch, failed, is_errSet, files, handles,
                     communicators, nextID>>
  BY DEF MPI_Send, NextIs, PlanGoesOn, faultVars, commVars, checkpointVars
<1>2. Rigid /\ WorldCalls /\ Steady /\ failed # 0
  BY <1>1, DupFacts DEF Rigid, All
<1>3. DOMAIN plan = Ranks
  BY <1>2 DEF Steady, Shape
<1>4. PICK K : K = Numbers
  OBVIOUS
<1>5. \A q \in Ranks : MessagesAgree(q, K)
  BY <1>4, DupFacts
<1>6. Numbers' = Numbers
  BY <1>1, <1>2, NumbersKept
<1>7. plan'[r] = Tail(plan[r]) /\ \A q \in Ranks : q # r => plan'[q] = plan[q]
  BY <1>1, <1>3
<1>8. \A q \in Ranks : Passive(q)
  BY <1>1, <1>2, <1>7, PassiveSend
<1>9. \A q \in Ranks : q # 0 => StillComes(q, K)
  BY <1>4, SendStillComes
<1>10. \A q \in Ranks : MessagesAgree(q, K)'
  BY <1>2, <1>5, <1>8, <1>9, MessagesAgreeKept
<1>11. ~Stopped(0)' => ~Stopped(0)
  BY <1>1 DEF Stopped
<1> QED
  BY <1>1, <1>2, <1>4, <1>6, <1>10, <1>11, DupGoesOn

LEMMA PostDup ==
    ASSUME All, UNCHANGED world_size, NEW r \in Ranks, NEW s \in Ranks, post_header(r, s)
    PROVE  DupState'
<1> SUFFICES ASSUME NEW h, h = Head(network[<<s, r>>]).header
             PROVE  DupState'
  OBVIOUS
<1>1. /\ halt(r, h)
      /\ UNCHANGED <<calls, count, busy, memory, epoch, failed, is_errSet, files, handles,
                     communicators, nextID>>
  BY DEF post_header, faultVars, commVars, checkpointVars
<1>2. Rigid /\ WorldCalls /\ PoolInv /\ Steady /\ failed # 0
  BY <1>1, DupFacts DEF Rigid, All
<1>3. UNCHANGED plan
  <2>1. h = OnTheWay(s, r)[1] /\ 1 \in DOMAIN OnTheWay(s, r)
    <3>1. /\ h = OnTheWay(s, r)[1]
          /\ \E n \in Nat : Removed(OnTheWay(s, r), OnTheWay(s, r)', n, 1)
      BY <1>2, PostedFromWire
    <3> QED
      BY <3>1 DEF Removed
  <2>2. h.tag = 0 \/ is_errSet[r]
    BY <1>2, <2>1 DEF Steady, PairsInv, WireInv, GoodMessage
  <2> QED
    BY <1>1, <2>2 DEF halt, EndsPosted, MPIX_CLEANUP_TAG
<1>4. PICK K : K = Numbers
  OBVIOUS
<1>5. \A q \in Ranks : MessagesAgree(q, K)
  BY <1>4, DupFacts
<1>6. Numbers' = Numbers
  BY <1>1, <1>2, NumbersKept
<1>7. \A q \in Ranks : CountsSame(q) /\ memory'[q] = memory[q] /\ (~Stopped(q)' => ~Stopped(q))
            /\ (Reads(q)' => Reads(q))
  BY <1>1, <1>3 DEF CountsSame, Stopped, Reads
<1>8. \A q \in Ranks : Passive(q)
  BY <1>2, <1>7, PassiveSame
<1>9. \A q \in Ranks : q # 0 => StillComes(q, K)
  BY PostStillComes
<1>10. \A q \in Ranks : MessagesAgree(q, K)'
  BY <1>2, <1>5, <1>8, <1>9, MessagesAgreeKept
<1>11. ~Stopped(0)' => ~Stopped(0)
  BY <1>1 DEF Stopped
<1> QED
  BY <1>1, <1>2, <1>4, <1>6, <1>10, <1>11, DupGoesOn

LEMMA SetErrDup ==
    ASSUME All, UNCHANGED world_size, NEW r \in Ranks, setErr(r)
    PROVE  DupState'
<1>1. /\ is_errSet' = [is_errSet EXCEPT ![r] = TRUE]
      /\ UNCHANGED network \/ \E datagram : network' = [network EXCEPT ![<<r, r>>] = datagram]
      /\ UNCHANGED <<calls, count, busy, plan, memory, epoch, failed, files, handles,
                     communicators, nextID, received_header_queue, poolVars>>
  BY DEF setErr, reliable_send, callVars, commVars, checkpointVars
<1>2. Rigid /\ WorldCalls /\ PoolInv /\ Steady /\ failed # 0
  BY <1>1, DupFacts DEF Rigid, All
<1>3. DOMAIN is_errSet = Ranks
  BY <1>2 DEF Steady, Shape
<1>4. PICK K : K = Numbers
  OBVIOUS
<1>5. \A q \in Ranks : MessagesAgree(q, K)
  BY <1>4, DupFacts
<1>6. Numbers' = Numbers
  BY <1>1, <1>2, NumbersKept
<1>7. \A q \in Ranks : CountsSame(q) /\ memory'[q] = memory[q] /\ (~Stopped(q)' => ~Stopped(q))
            /\ (Reads(q)' => Reads(q))
  BY <1>1, <1>3 DEF CountsSame, Stopped, Reads
<1>8. \A q \in Ranks : Passive(q)
  BY <1>2, <1>7, PassiveSame
<1>9. \A q \in Ranks : q # 0 => StillComes(q, K)
  <2> SUFFICES ASSUME NEW q \in Ranks, q # 0 PROVE StillComes(q, K)
    OBVIOUS
  <2>1. network'[<<0, q>>] = network[<<0, q>>]
    <3>1. PICK a, b : a = <<0, q>> /\ b = <<r, r>>
      OBVIOUS
    <3>2. a # b /\ a \in Ranks \X Ranks
      BY <3>1, DupFacts
    <3>3. DOMAIN network = Ranks \X Ranks
      BY <1>2 DEF PoolInv, NetworkGood
    <3>4. network'[a] = network[a]
      BY <1>1, <3>1, <3>2, <3>3
    <3> QED
      BY <3>1, <3>4
  <2>2. MailSame(q)
    BY <1>1, <2>1 DEF MailSame, poolVars
  <2> QED
    BY <2>2, MailKept
<1>10. \A q \in Ranks : MessagesAgree(q, K)'
  BY <1>2, <1>5, <1>8, <1>9, MessagesAgreeKept
<1>11. ~Stopped(0)' => ~Stopped(0)
  BY <1>7, DupFacts
<1> QED
  BY <1>1, <1>2, <1>4, <1>6, <1>10, <1>11, DupGoesOn

\* A call ends with an error, or with its process: the number that rank 0 has drawn is lost.
LEMMA NumbersIdle ==
    ASSUME ~Drawing, ~Drawing', handles'[0] = handles[0], communicators'[0] = communicators[0]
    PROVE  Numbers' = Numbers
<1>1. HandleContexts(0)' = HandleContexts(0)
  BY DEF HandleContexts, ContextOf, get_context_id_pt2pt, Communicator
<1> QED
  BY <1>1 DEF Numbers

LEMMA NumbersLost ==
    ASSUME ~busy'[0], handles'[0] = handles[0], communicators'[0] = communicators[0]
    PROVE  Numbers' = HandleContexts(0)
<1>1. HandleContexts(0)' = HandleContexts(0)
  BY DEF HandleContexts, ContextOf, get_context_id_pt2pt, Communicator
<1> QED
  BY <1>1 DEF Numbers, Drawing

LEMMA CallEndsDup ==
    ASSUME All, Rigid, NEW r \in Ranks, CallEnds(r), Stopped(r)', failed' # 0,
           UNCHANGED <<count, epoch, is_errSet, files, handles, communicators, nextID, memory,
                       received_header_queue, network, poolVars>>,
           \A q \in Ranks : ~Stopped(q)' => ~Stopped(q)
    PROVE  DupState'
<1>1. WorldCalls /\ PoolInv /\ Steady /\ 0 \in Ranks
  BY DupFacts DEF All
<1>2. DOMAIN busy = Ranks /\ DOMAIN plan = Ranks /\ busy'[r] = FALSE
  BY <1>1 DEF Steady, Shape, CallEnds
<1>3. \A q \in Ranks \ {r} : CountsSame(q)
  BY <1>2 DEF CallEnds, CountsSame
<1>4. PICK K : K = Numbers
  OBVIOUS
<1>5. \A q \in Ranks : MessagesAgree(q, K)
  BY <1>4, DupFacts
<1>6. Numbers' = Numbers \/ (Numbers' = HandleContexts(0) /\ Stopped(0)')
  <2>1. CASE r = 0
    BY <1>2, <2>1, NumbersLost
  <2>2. CASE r # 0
    <3>1. busy'[0] = busy[0]
      BY <1>1, <1>3, <2>2 DEF CountsSame
    <3> QED
      BY <3>1, NumbersKept
  <2> QED
    BY <2>1, <2>2
<1>7. ASSUME NEW q \in Ranks PROVE Passive(q)
  <2>1. CASE q # r
    <3>1. CountsSame(q) /\ memory'[q] = memory[q] /\ (Reads(q)' => Reads(q))
      BY <1>3, <2>1 DEF Reads
    <3> QED
      BY <3>1, PassiveSame
  <2>2. CASE q = r
    BY <1>2, <2>2 DEF Passive, Reads
  <2> QED
    BY <2>1, <2>2
<1>8. \A q \in Ranks : StillComes(q, K)
  <2>1. \A q \in Ranks : MailSame(q)
    BY DEF MailSame, poolVars
  <2> QED
    BY <2>1, MailKept
<1>9. \A q \in Ranks : MessagesAgree(q, K)'
  BY <1>5, <1>7, <1>8, MessagesAgreeKept
<1> QED
  BY <1>1, <1>4, <1>6, <1>9, DupGoesOn

LEMMA AbortDup ==
    ASSUME All, UNCHANGED world_size, NEW r \in Ranks, Abort(r)
    PROVE  DupState'
<1>1. /\ is_errSet[r] /\ CallEnds(r)
      /\ UNCHANGED <<calls, count, epoch, failed, is_errSet, files, handles, communicators, nextID,
                     memory, received_header_queue, network, poolVars>>
  BY DEF Abort, faultVars, commVars, checkpointVars, transportVars
<1>2. Rigid /\ Steady /\ failed # 0
  BY <1>1, DupFacts DEF Rigid, All
<1>3. DOMAIN busy = Ranks
  BY <1>2 DEF Steady, Shape
<1>4. Stopped(r)' /\ \A q \in Ranks : ~Stopped(q)' => ~Stopped(q)
  BY <1>1, <1>3 DEF Stopped, CallEnds
<1> QED
  BY <1>1, <1>2, <1>4, CallEndsDup

LEMMA FailDup ==
    ASSUME All, UNCHANGED world_size, NEW r \in Ranks, Fail(r)
    PROVE  DupState'
<1>1. /\ r \in MayFail(calls) /\ failed' = r /\ failed = NoRank /\ CallEnds(r)
      /\ UNCHANGED <<calls, count, epoch, is_errSet, files, handles, communicators, nextID,
                     memory, received_header_queue, network, poolVars>>
  BY DEF Fail, commVars, checkpointVars, transportVars
<1>2. Rigid /\ Steady /\ WorldCalls /\ failed' # 0
  BY <1>1 DEF Rigid, All, Unhurt
<1>3. DOMAIN busy = Ranks /\ NoRank \notin Ranks
  BY <1>2, WorldFacts DEF Steady, Shape
<1>4. Stopped(r)' /\ \A q \in Ranks : ~Stopped(q)' => ~Stopped(q)
  BY <1>1, <1>3 DEF Stopped, CallEnds
<1> QED
  BY <1>1, <1>2, <1>4, CallEndsDup

\* Rank 0 only sends while it duplicates.
LEMMA RootSends ==
    ASSUME All, Drawing, plan[0] # <<>>
    PROVE  Head(plan[0]).operation = "Send"
<1>1. /\ WorldCalls /\ Steady /\ Shape /\ 0 \in Ranks /\ RankInv(0) /\ world_size \in Nat \ {0}
  BY DupFacts DEF All, Steady
<1>2. PICK p, c : p = plan[0] /\ c = count[0] + 1
  OBVIOUS
<1>3. p \in Seq(Steps(world_size)) /\ p # <<>>
  BY <1>1, <1>2 DEF Shape
<1>4. Rest(p, WorldPlan(world_size, 0, calls[c])) /\ IsDup(calls[c])
  BY <1>1, <1>2 DEF Drawing, RankInv, Plan, Call
<1>5. Head(p).operation = "Send"
  BY <1>1, <1>3, <1>4, DupSend
<1> QED
  BY <1>2, <1>5

\* What the receiver of a duplication has after its receive, and what it still awaits.
LEMMA RecvAgrees ==
    ASSUME All, Rigid, NEW r \in Ranks, r # 0, MPI_Recv(r), NEW K, K = Numbers,
           plan'[r] = Tail(plan[r]), UNCHANGED <<busy, count, failed, is_errSet>>
    PROVE  MessagesAgree(r, K)'
<1> SUFFICES ASSUME NEW h, h = received_header_queue[r][Position(r)], NEW step, step = Head(plan[r]),
                    NEW c, c = count[r] + 1, NEW value, value = Value(r, "EAGER", Payload(r, h))
             PROVE  Has(r, c, K)' /\ Coming(r, K)'
  BY DEF MessagesAgree
<1>1. /\ WorldCalls /\ PoolInv /\ Steady /\ DataInv /\ ~disturbed /\ 0 \in Ranks
      /\ MessagesAgree(r, K) /\ RankTypes(r) /\ count[r] \in Nat
      /\ DOMAIN memory = Ranks
  BY DupFacts DEF All
<1>2. headers[r][h].protocol = "EAGER"
  BY <1>1, FoundData
<1>3. /\ plan[r] # <<>> /\ step.operation \in Receives
      /\ memory' = [memory EXCEPT ![r][step.variable] = value]
  BY <1>2 DEF MPI_Recv, NextIs
<1>4. /\ busy[r] /\ ~Stopped(r) /\ c \in DOMAIN calls
  BY <1>1, <1>3, AtStep
<1> Reads(r)
  BY <1>4 DEF Reads, MPI_Recv
<1>5. DOMAIN memory[r] = Names
  BY <1>1, <1>4 DEF RankTypes, CountTypes
<1>6. ASSUME NEW j \in DOMAIN calls
      PROVE  Taken(r, 0, j)' = Taken(r, 0, j) + (IF j = c /\ step.peer = 0 THEN 1 ELSE 0)
  BY <1>1, <1>3, PlanStep
<1>7. /\ \A j \in DOMAIN calls : \A x : j # c /\ Comes(r, j, x) => Comes(r, j, x)'
      /\ \A x : step.peer = 0 /\ Comes(r, c, x) => Payload(r, h) = x
  BY RecvStillComes
<1>8. calls' = calls /\ \A j : Held(calls, j)' = Held(calls, j)
  BY DEF Rigid
<1>9. Has(r, c, K)'
  <2> SUFFICES ASSUME IsDup(calls[c]), NEW n, n = Held(calls, c), n <= Len(K)
               PROVE  memory'[r].pt2pt = K[n]
    BY <1>8 DEF Has, IsDup
  <2>1. /\ step.operation = "Receive" /\ step.peer = 0
        /\ \/ Taken(r, 0, c) = 0 /\ step.variable = "pt2pt"
           \/ Taken(r, 0, c) = 1 /\ step.variable = "coll"
    BY <1>1, <1>3, <1>4, DupTaken
  <2>2. CASE Taken(r, 0, c) = 0 /\ step.variable = "pt2pt"
    <3>1. Awaits(r, c, K)
      BY <1>1, <2>2 DEF Awaits
    <3>2. Comes(r, c, K[n])
      BY <1>1, <1>4, <3>1 DEF MessagesAgree, Coming
    <3>3. Payload(r, h) = K[n]
      BY <1>7, <2>1, <3>2
    <3>4. value = K[n]
      BY <2>1, <3>3 DEF Value
    <3> QED
      BY <1>1, <1>3, <1>5, <2>2, <3>4 DEF Names
  <2>3. CASE Taken(r, 0, c) = 1 /\ step.variable = "coll"
    <3>1. memory[r].pt2pt = K[n]
      BY <1>1, <1>4, <2>3 DEF MessagesAgree, Has
    <3>2. memory'[r].pt2pt = memory[r].pt2pt
      BY <1>1, <1>3, <1>5, <2>3 DEF Names
    <3> QED
      BY <3>1, <3>2
  <2> QED
    BY <2>1, <2>2, <2>3
<1>10. Coming(r, K)'
  <2> SUFFICES ASSUME NEW j \in DOMAIN calls, Awaits(r, j, K)', NEW x, x = K[Held(calls, j)]
               PROVE  Comes(r, j, x)'
    BY <1>8 DEF Coming
  <2>1. /\ IsDup(calls[j]) /\ j > count[r] /\ Taken(r, 0, j)' = 0 /\ Held(calls, j) <= Len(K)
    BY <1>8 DEF Awaits, IsDup
  <2>2. Taken(r, 0, j) \in Nat
    BY <1>1, CountFacts DEF Steady
  <2>3. Taken(r, 0, j) = 0 /\ ~(j = c /\ step.peer = 0)
    BY <1>6, <2>1, <2>2
  <2>4. Awaits(r, j, K)
    BY <2>1, <2>3 DEF Awaits
  <2>5. Comes(r, j, x)
    BY <1>1, <1>4, <2>4 DEF MessagesAgree, Coming
  <2>6. j # c
    <3>1. j = c => step.peer = 0
      BY <1>1, <1>3, <1>4, <2>1, DupTaken
    <3> QED
      BY <2>3, <3>1
  <2> QED
    BY <1>7, <2>5, <2>6
<1> QED
  BY <1>9, <1>10

LEMMA RecvDup ==
    ASSUME All, UNCHANGED world_size, NEW r \in Ranks, MPI_Recv(r)
    PROVE  DupState'
<1>1. /\ plan[r] # <<>> /\ Head(plan[r]).operation \in Receives
      /\ \E value : memory' = [memory EXCEPT ![r][Head(plan[r]).variable] = value]
      /\ plan' = [plan EXCEPT ![r] = Tail(@)]
      /\ UNCHANGED <<busy, calls, count, epoch, failed, is_errSet, files, handles, communicators,
                     nextID>>
  BY DEF MPI_Recv, NextIs, PlanGoesOn, faultVars, commVars, checkpointVars
<1>2. Rigid /\ WorldCalls /\ Steady /\ failed # 0 /\ 0 \in Ranks /\ DOMAIN memory = Ranks
  BY <1>1, DupFacts DEF Rigid, All
<1>3. DOMAIN plan = Ranks
  BY <1>2 DEF Steady, Shape
<1>4. PICK K : K = Numbers
  OBVIOUS
<1>5. \A q \in Ranks : MessagesAgree(q, K)
  BY <1>4, DupFacts
<1>6. ASSUME NEW q \in Ranks, q # r PROVE CountsSame(q) /\ memory'[q] = memory[q]
  BY <1>1, <1>2, <1>3, <1>6 DEF CountsSame
<1>7. \A q \in Ranks : (~Stopped(q)' => ~Stopped(q)) /\ (Reads(q)' => Reads(q))
  BY <1>1 DEF Stopped, Reads
<1>8. Numbers' = Numbers
  <2>1. CASE r # 0
    <3>1. busy'[0] = busy[0] /\ memory'[0] = memory[0]
      BY <1>2, <1>6, <2>1 DEF CountsSame
    <3> QED
      BY <1>1, <1>2, <3>1, NumbersKept
  <2>2. CASE r = 0
    <3>1. ~Drawing
      BY <1>1, <2>2, RootSends DEF Receives
    <3>2. ~Drawing'
      BY <1>1, <2>2, <3>1 DEF Drawing, Call, IsDup
    <3> QED
      BY <1>1, <3>1, <3>2, NumbersIdle
  <2> QED
    BY <2>1, <2>2
<1>9. ASSUME NEW q \in Ranks, q # r PROVE MessagesAgree(q, K)'
  <2>1. Passive(q)
    BY <1>2, <1>6, <1>7, <1>9, PassiveSame
  <2>2. MailSame(q)
    BY <1>2, <1>9, RecvStillComes
  <2>3. StillComes(q, K)
    BY <2>2, MailKept
  <2> QED
    BY <1>2, <1>5, <2>1, <2>3, MessagesAgreeKept
<1>10. MessagesAgree(r, K)'
  <2>1. CASE r = 0
    BY <2>1 DEF MessagesAgree
  <2>2. CASE r # 0
    <3>1. plan'[r] = Tail(plan[r])
      BY <1>1, <1>3
    <3> QED
      BY <1>1, <1>2, <1>4, <2>2, <3>1, RecvAgrees
  <2> QED
    BY <2>1, <2>2
<1>11. \A q \in Ranks : MessagesAgree(q, K)'
  BY <1>9, <1>10
<1> QED
  BY <1>1, <1>2, <1>4, <1>7, <1>8, <1>11, DupGoesOn

\* A receive that is left posted takes a message of a rank that is told of a failure, and
\* that reads no message before the recovery.
LEMMA AbandonedDup ==
    ASSUME All, UNCHANGED world_size, LeftInv, NEW r \in Ranks, match_abandoned(r)
    PROVE  DupState'
<1> SUFFICES ASSUME NEW queued, queued = received_header_queue[r],
                    NEW match, match = FirstMatch(posted_request_queue[r], Received(r)),
                    NEW h, h = queued[match[2]]
             PROVE  DupState'
  OBVIOUS
<1>1. /\ Wanted(r)
      /\ received_header_queue' = [received_header_queue EXCEPT ![r] = RemoveAt(queued, match[2])]
      /\ UNCHANGED <<calls, count, busy, plan, memory, epoch, failed, is_errSet, files, handles,
                     communicators, nextID>>
  BY DEF match_abandoned, callVars, faultVars, commVars, checkpointVars
<1>2. /\ Rigid /\ WorldCalls /\ PoolInv /\ Steady /\ DataInv /\ ~disturbed /\ failed # 0
      /\ RankGood(r) /\ LeftGood
  BY <1>1, DupFacts DEF Rigid, All, PoolInv, RanksGood
<1>3. is_errSet[r]
  BY <1>2, LeftFacts
<1>4. match[2] \in 1..Len(queued) /\ h \in WithPayload(r) /\ headers[r][h].tag = 0
  BY <1>1, <1>2, AbandonedFinds
<1>5. headers[r][h].protocol = "EAGER"
  <2>1. DOMAIN queued = 1..Len(queued)
    BY <1>2 DEF RankGood, HeadersGood
  <2>2. \A k \in DOMAIN queued : k \in DOMAIN Received(r) /\ Received(r)[k] = headers[r][queued[k]]
    BY DEF Received
  <2>3. match[2] \in DOMAIN Received(r) /\ Received(r)[match[2]] = headers[r][h]
    BY <1>4, <2>1, <2>2
  <2>4. QueueInv(r)
    BY <1>2 DEF Steady
  <2> QED
    BY <1>4, <2>3, <2>4 DEF QueueInv, GoodMessage
<1>6. fill(r, h) /\ network' = network
  BY <1>5 DEF match_abandoned, handle_match
<1>7. \A q \in Ranks \ {r} : MailSame(q)
  BY <1>1, <1>6 DEF MailSame, fill, release_header
<1>8. PICK K : K = Numbers
  OBVIOUS
<1>9. \A q \in Ranks : MessagesAgree(q, K)
  BY <1>8, DupFacts
<1>10. Numbers' = Numbers
  BY <1>1, <1>2, NumbersKept
<1>11. ASSUME NEW q \in Ranks
       PROVE  CountsSame(q) /\ memory'[q] = memory[q] /\ (Reads(q)' => Reads(q))
  BY <1>1 DEF CountsSame, Stopped, Reads
<1>12. \A q \in Ranks : Passive(q)
  BY <1>2, <1>11, PassiveSame
<1>13. ASSUME NEW q \in Ranks PROVE StillComes(q, K)
  <2>1. CASE q = r
    BY <1>3, <2>1 DEF StillComes, Reads
  <2>2. CASE q # r
    BY <1>7, <2>2, MailKept
  <2> QED
    BY <2>1, <2>2
<1>14. \A q \in Ranks : MessagesAgree(q, K)'
  BY <1>2, <1>9, <1>12, <1>13, MessagesAgreeKept
<1>15. ~Stopped(0)' => ~Stopped(0)
  BY <1>1 DEF Stopped
<1> QED
  BY <1>1, <1>2, <1>8, <1>10, <1>14, <1>15, DupGoesOn

(***************************************************************************)
(* A rank enters a call, and rank 0 draws a number.                        *)
(***************************************************************************)
LEMMA EnterAgrees ==
    ASSUME All, UNCHANGED world_size, NEW r \in Ranks, Enter(r), NEW K, NEW q \in Ranks,
           MessagesAgree(q, K)
    PROVE  MessagesAgree(q, K)'
<1> SUFFICES ASSUME NEW c, c = count[r] + 1
             PROVE  MessagesAgree(q, K)'
  OBVIOUS
<1>1. /\ ~busy[r] /\ count[r] < Len(calls) /\ r # failed /\ ~is_errSet[r]
      /\ busy' = [busy EXCEPT ![r] = TRUE]
      /\ plan' = [plan EXCEPT ![r] = PlanOf(r, calls[c])]
      /\ memory' = [memory EXCEPT ![r] = Variables(r, calls[c])]
      /\ UNCHANGED <<calls, count, failed, is_errSet, received_header_queue, network, poolVars>>
  BY DEF Enter, Call, faultVars, transportVars
<1>2. /\ Rigid /\ WorldCalls /\ PoolInv /\ Steady /\ Shape /\ 0 \in Ranks /\ DOMAIN memory = Ranks
      /\ RankInv(r) /\ DOMAIN calls = 1..Len(calls) /\ Len(calls) \in Nat /\ count[r] \in Nat
  BY <1>1, DupFacts DEF Rigid, All, Steady
<1>3. DOMAIN plan = Ranks /\ DOMAIN busy = Ranks
  BY <1>2 DEF Shape
<1>4. MailSame(q)
  BY <1>1 DEF MailSame, poolVars
<1>5. CASE q # r
  <2>1. CountsSame(q) /\ memory'[q] = memory[q] /\ (Reads(q)' => Reads(q))
    BY <1>1, <1>2, <1>3, <1>5 DEF CountsSame, Stopped, Reads
  <2>2. Passive(q)
    BY <1>2, <2>1, PassiveSame
  <2>3. StillComes(q, K)
    BY <1>4, MailKept
  <2> QED
    BY <1>2, <2>2, <2>3, MessagesAgreeKept
<1>6. CASE q = r /\ r # 0
  <2>1. c \in DOMAIN calls
    BY <1>1, <1>2
  <2>2. plan'[r] = Plan(r, c) /\ busy'[r]
    BY <1>1, <1>2, <1>3, <2>1, PlanOfCall
  <2>3. TakenTotal(r, 0, c) \in Nat
    BY <1>2, <2>1, PlanFacts
  <2>4. Taken(r, 0, c)' = 0
    <3>1. TakenTotal(r, 0, c)' = TakenTotal(r, 0, c) /\ ~(c <= count[r])
      BY <1>2, RigidFacts
    <3>2. Cardinality(Receipts(plan[r], 0))' = TakenTotal(r, 0, c)
      BY <2>2 DEF TakenTotal, Receipts
    <3> QED
      BY <1>1, <2>2, <2>3, <3>1, <3>2 DEF Taken
  <2>5. Has(r, c, K)'
    BY <2>4 DEF Has
  <2>6. Coming(r, K)'
    <3> SUFFICES ASSUME NEW j \in DOMAIN calls, Awaits(r, j, K)', NEW x, x = K[Held(calls, j)]
                 PROVE  Comes(r, j, x)'
      BY <1>2 DEF Coming, Rigid, Held, IsDup
    <3>1. IsDup(calls[j]) /\ j > count[r] /\ Held(calls, j) <= Len(K)
      BY <1>1 DEF Awaits, IsDup, Held
    <3>2. Taken(r, 0, j) = 0
      BY <1>1, <1>2, <3>1 DEF Taken
    <3>3. Awaits(r, j, K) /\ Reads(r)
      BY <1>1, <3>1, <3>2 DEF Awaits, Stopped, Reads
    <3>4. Comes(r, j, x)
      BY <1>6, <3>3 DEF MessagesAgree, Coming
    <3> QED
      BY <1>4, <1>6, <3>4, ComesKept DEF MailSame
  <2> QED
    BY <1>1, <1>6, <2>5, <2>6 DEF MessagesAgree
<1>7. CASE q = 0
  BY <1>7 DEF MessagesAgree
<1> QED
  BY <1>5, <1>6, <1>7

\* Rank 0 draws two contexts.
LEMMA DrawDup ==
    ASSUME All, UNCHANGED world_size, Enter(0), IsDup(Call(0)), 0 \in Ranks
    PROVE  DupState'
<1> SUFFICES ASSUME NEW c, c = count[0] + 1, NEW x, x = nextID[0] + 1,
                    NEW N, N = Numbers, NEW K, K = Append(N, x)
             PROVE  DupState'
  OBVIOUS
<1>1. /\ ~busy[0] /\ count[0] < Len(calls) /\ 0 # failed /\ ~is_errSet[0] /\ IsDup(calls[c])
      /\ busy' = [busy EXCEPT ![0] = TRUE]
      /\ memory' = [memory EXCEPT ![0] = Variables(0, calls[c])]
      /\ nextID' = [nextID EXCEPT ![0] = @ + 2]
      /\ UNCHANGED <<calls, count, failed, is_errSet, epoch, files, handles, communicators>>
  BY DEF Enter, Call, faultVars, checkpointVars, IsDup, get_next_context
<1>2. /\ Rigid /\ Steady /\ Shape /\ DOMAIN memory = Ranks /\ Ascending /\ Behind
      /\ DOMAIN calls = 1..Len(calls) /\ Len(calls) \in Nat /\ count[0] \in Nat
      /\ \A q \in Ranks : Lens(q) /\ count[q] \in Nat
  BY <1>1, DupFacts DEF Rigid, All, Steady, DupState
<1>3. DOMAIN busy = Ranks /\ DOMAIN nextID = Ranks /\ nextID[0] \in Nat /\ Ascends(N, nextID[0])
  BY <1>2 DEF Shape, Ascending
<1>4. ~Stopped(0) /\ ~Drawing /\ c \in DOMAIN calls
  BY <1>1, <1>2 DEF Stopped, Drawing
<1>5. Sequence(N) /\ Len(N) \in Nat /\ N = HandleContexts(0)
  BY <1>4, NumberFacts DEF Numbers
<1>6. Len(K) = Len(N) + 1 /\ (\A i \in 1..Len(N) : K[i] = N[i]) /\ K[Len(N) + 1] = x
  BY <1>5 DEF Sequence
<1>7. Numbers' = K
  <2>1. Drawing'
    BY <1>1, <1>2, <1>3 DEF Drawing, Call, IsDup
  <2>2. HandleContexts(0)' = N
    BY <1>1, <1>5 DEF HandleContexts, ContextOf, get_context_id_pt2pt, Communicator
  <2>3. memory'[0].pt2pt = x
    BY <1>1, <1>2 DEF Variables, Drawn, NextContext, IsDup
  <2> QED
    BY <2>1, <2>2, <2>3 DEF Numbers
<1>8. ASSUME NEW q \in Ranks PROVE HandlesAgree(q, K)' /\ MessagesAgree(q, K)' /\ Lens(q)'
  <2>1. HandlesAgree(q, K) /\ MessagesAgree(q, K)
    BY <1>1, <1>4, NobodyHasNext
  <2>2. MessagesAgree(q, K)'
    BY <2>1, EnterAgrees
  <2>3. HandlesAgree(q, K)'
    BY <1>1, <2>1, HandlesAgreeKept
  <2> QED
    BY <1>1, <1>2, <2>2, <2>3, LensKept
<1>9. Ascends(K, nextID[0] + 2)
  <2> SUFFICES ASSUME NEW i \in 1..Len(K)
               PROVE  /\ K[i] \in Nat /\ K[i] <= nextID[0] + 2
                      /\ \A j \in 1..Len(K) : i < j => K[i] < K[j]
    BY DEF Ascends
  <2>1. \A j \in 1..Len(N) : K[j] \in Nat /\ K[j] <= nextID[0]
    BY <1>3, <1>6 DEF Ascends
  <2>2. CASE i = Len(N) + 1
    BY <1>3, <1>5, <1>6, <2>2
  <2>3. CASE i \in 1..Len(N)
    <3>1. \A j \in 1..Len(N) : i < j => K[i] < K[j]
      BY <1>3, <1>6, <2>3 DEF Ascends
    <3> QED
      BY <1>3, <1>5, <1>6, <2>1, <2>3, <3>1
  <2> QED
    BY <1>5, <1>6, <2>2, <2>3
<1>10. Ascending'
  <2>1. nextID'[0] = nextID[0] + 2 /\ DOMAIN nextID' = Ranks'
    BY <1>1, <1>2, <1>3 DEF Rigid, Ranks
  <2>2. Ascends(Numbers, nextID[0])'
    BY <1>7, <1>9, <2>1 DEF Ascends
  <2> QED
    BY <1>1, <1>3, <2>1, <2>2 DEF Ascending
<1>11. Behind'
  <2>1. \A q \in Ranks : Len(handles[q]) <= Len(N) /\ Len(handles[q]) \in Nat
    BY <1>2, <1>4, HandleFacts DEF Behind
  <2>2. \A q \in Ranks : Len(handles[q]) <= Len(K)
    BY <1>5, <1>6, <2>1
  <2>3. \A q \in Ranks : Len(handles[q])' <= Len(Numbers)'
    BY <1>1, <1>7, <2>2
  <2> QED
    BY <1>2, <2>3 DEF Behind, Rigid, Ranks
<1>12. Prefix(Numbers', K) /\ Len(K) \in Nat
  <2>1. Len(K) \in Nat
    BY <1>5, <1>6
  <2>2. Prefix(K, K)
    BY <2>1 DEF Prefix
  <2> QED
    BY <1>7, <2>1, <2>2
<1> QED
  BY <1>1, <1>2, <1>8, <1>10, <1>11, <1>12, DupTogether

LEMMA EnterDup ==
    ASSUME All, UNCHANGED world_size, NEW r \in Ranks, Enter(r)
    PROVE  DupState'
<1>1. /\ ~busy[r] /\ r # failed /\ ~is_errSet[r] /\ busy' = [busy EXCEPT ![r] = TRUE]
      /\ \E value : memory' = [memory EXCEPT ![r] = value]
      /\ UNCHANGED <<calls, count, failed, is_errSet, epoch, files, handles, communicators>>
      /\ ~(IsDup(Call(r)) /\ r = 0) => UNCHANGED nextID
  BY DEF Enter, faultVars, checkpointVars, IsDup
<1>2. Rigid /\ Steady /\ failed # 0 /\ 0 \in Ranks /\ DOMAIN memory = Ranks
  BY <1>1, DupFacts DEF Rigid, All
<1>3. DOMAIN busy = Ranks
  BY <1>2 DEF Steady, Shape
<1>4. CASE IsDup(Call(r)) /\ r = 0
  BY <1>4, DrawDup
<1>5. CASE ~(IsDup(Call(r)) /\ r = 0)
  <2>1. PICK K : K = Numbers
    OBVIOUS
  <2>2. \A q \in Ranks : MessagesAgree(q, K)
    BY <2>1, DupFacts
  <2>3. \A q \in Ranks : MessagesAgree(q, K)'
    BY <2>2, EnterAgrees
  <2>4. Numbers' = Numbers
    <3>1. CASE r # 0
      <4>1. busy'[0] = busy[0] /\ memory'[0] = memory[0]
        BY <1>1, <1>2, <1>3, <3>1
      <4> QED
        BY <1>1, <1>2, <4>1, NumbersKept
    <3>2. CASE r = 0
      <4>1. ~Drawing /\ ~Drawing'
        BY <1>1, <1>5, <3>2 DEF Drawing, Call, IsDup
      <4> QED
        BY <1>1, <4>1, NumbersIdle
    <3> QED
      BY <3>1, <3>2
  <2>5. ~Stopped(0)' => ~Stopped(0)
    BY <1>1, <1>2, <1>3 DEF Stopped
  <2> QED
    BY <1>1, <1>2, <1>5, <2>1, <2>3, <2>4, <2>5, DupGoesOn
<1> QED
  BY <1>4, <1>5

(***************************************************************************)
(* A call returns: the communicator that it registers is the next one.     *)
(***************************************************************************)
LEMMA SequenceAppends ==
    ASSUME NEW a, Sequence(a), NEW e
    PROVE  Sequence(Append(a, e))
<1>1. PICK S : a \in Seq(S)
  BY DEF Sequence
<1>2. PICK T : T = S \cup {e}
  OBVIOUS
<1>3. a \in Seq(T) /\ e \in T
  BY <1>1, <1>2
<1>4. Append(a, e) \in Seq(T)
  BY <1>3
<1> QED
  BY <1>4 DEF Sequence

LEMMA WorldAddressed ==
    ASSUME WorldCalls, Shape
    PROVE  AddressedCalls
<1> SUFFICES ASSUME NEW k \in DOMAIN calls
             PROVE  calls[k].comm = 1 /\ \A r \in Ranks : Plan(r, k) \in Seq(AnyStep(world_size))
  BY DEF AddressedCalls
<1>1. calls[k].comm = 1 /\ \A r \in Ranks : Plan(r, k) \in Seq(Steps(world_size))
  BY WorldFacts, PlanFacts
<1>2. Steps(world_size) \subseteq AnyStep(world_size)
  BY DEF Steps, AnyStep, Names
<1> QED
  BY <1>1, <1>2

LEMMA NumbersFromHandles ==
    ASSUME ~Drawing', NEW K, Len(K) \in Nat, NEW h, h = handles'[0], DOMAIN h = 1..Len(h), Len(h) \in Nat,
           Alike(h, communicators'[0], K), Len(h) <= Len(K)
    PROVE  Prefix(Numbers', K) /\ Len(Numbers') = Len(h)
<1>1. PICK N : N = HandleContexts(0)'
  OBVIOUS
<1>2. DOMAIN N = 1..Len(h) /\ \A i \in 1..Len(h) : N[i] = communicators'[0][h[i] + 1].pt2pt
  BY <1>1 DEF HandleContexts, ContextOf, get_context_id_pt2pt, Communicator
<1>3. Len(N) = Len(h)
  BY <1>2
<1>4. Numbers' = N
  BY <1>1 DEF Numbers
<1>5. Prefix(N, K)
  BY <1>2, <1>3 DEF Prefix, Alike
<1> QED
  BY <1>3, <1>4, <1>5

\* The number of the communicator that a duplication returns.
LEMMA DupReturns ==
    ASSUME All, NEW r \in Ranks, Return(r), IsDup(Call(r)), NEW K, K = Numbers,
           NEW n, n = Len(handles[r])
    PROVE  /\ n + 1 = Held(calls, count[r] + 1)
           /\ n + 1 <= Len(K) => memory[r].pt2pt = K[n + 1]
           /\ ~Stopped(0) => n + 1 <= Len(K)
<1> SUFFICES ASSUME NEW c, c = count[r] + 1
             PROVE  /\ n + 1 = Held(calls, c)
                    /\ n + 1 <= Len(K) => memory[r].pt2pt = K[n + 1]
                    /\ ~Stopped(0) => n + 1 <= Len(K)
  OBVIOUS
<1>1. busy[r] /\ plan[r] = <<>>
  BY DEF Return
<1>2. /\ WorldCalls /\ Steady /\ 0 \in Ranks /\ ~Stopped(r) /\ c \in DOMAIN calls /\ IsDup(calls[c])
      /\ count[r] \in Nat /\ count[0] \in Nat /\ DOMAIN calls = 1..Len(calls)
  BY <1>1, DupFacts DEF All, Call
<1>3. n = Held(calls, count[r]) /\ n \in Nat
  BY HandleFacts
<1>4. n + 1 = Held(calls, c)
  BY <1>2, <1>3, HeldStep
<1>5. PICK m : m = Len(handles[0])
  OBVIOUS
<1>6. /\ m \in Nat /\ m = Held(calls, count[0]) /\ m <= Len(K) /\ Len(K) \in Nat
      /\ Len(K) = IF Drawing THEN m + 1 ELSE m
      /\ Drawing => K[m + 1] = memory[0].pt2pt
  BY <1>5, NumberFacts
<1>7. CASE r = 0
  <2>1. Drawing
    BY <1>1, <1>7 DEF Drawing
  <2>2. n = m /\ memory[r].pt2pt = memory[0].pt2pt
    BY <1>5, <1>7
  <2> QED
    BY <1>4, <1>6, <2>1, <2>2
<1>8. CASE r # 0
  <2>1. Taken(r, 0, c) = 2
    BY <1>1, <1>2, <1>8, DupTaken
  <2>2. MessagesAgree(r, K)
    BY DupFacts
  <2>3. n + 1 <= Len(K) => memory[r].pt2pt = K[n + 1]
    BY <1>1, <1>2, <1>4, <1>8, <2>1, <2>2 DEF MessagesAgree, Has
  <2>4. ASSUME ~Stopped(0) PROVE n + 1 <= Len(K)
    <3>1. c <= count[0] \/ (c = count[0] + 1 /\ busy[0])
      BY <1>2, <2>1, <2>4, TakenIsSent
    <3>2. CASE c <= count[0]
      <4>1. c \in Nat
        BY <1>2
      <4>2. Held(calls, c) <= Held(calls, count[0])
        BY <1>2, <3>2, <4>1, HeldMonotone
      <4> QED
        BY <1>3, <1>4, <1>6, <4>2
    <3>3. CASE c = count[0] + 1 /\ busy[0]
      <4>1. Drawing
        BY <1>2, <3>3 DEF Drawing, Call
      <4>2. count[0] = count[r]
        BY <1>2, <3>3
      <4> QED
        BY <1>3, <1>6, <4>1, <4>2
    <3> QED
      BY <3>1, <3>2, <3>3
  <2> QED
    BY <1>4, <2>3, <2>4
<1> QED
  BY <1>7, <1>8

\* Handles of communicators keep their contexts when one is registered.
LEMMA AlikeGrows ==
    ASSUME NEW comms, Sequence(comms), NEW e, NEW h, DOMAIN h = 1..Len(h), Valid(h, comms), NEW K,
           Alike(h, comms, K)
    PROVE  Alike(h, Append(comms, e), K)
<1> SUFFICES ASSUME NEW i \in 1..Len(h), i <= Len(K)
             PROVE  Append(comms, e)[h[i] + 1].pt2pt = K[i]
  BY DEF Alike
<1>1. h[i] \in 0..(Len(comms) - 1) /\ Len(comms) \in Nat
  BY DEF Valid, Sequence
<1>2. Append(comms, e)[h[i] + 1] = comms[h[i] + 1]
  <2>1. h[i] + 1 \in 1..Len(comms)
    BY <1>1
  <2> QED
    BY <2>1 DEF Sequence
<1> QED
  BY <1>2 DEF Alike

LEMMA ReturnAlike ==
    ASSUME All, NEW r \in Ranks, Return(r), NEW K, K = Numbers, NEW hs, hs = handles'[r],
           NEW comms, comms = communicators'[r], NEW c, c = count[r] + 1, NEW n, n = Len(handles[r])
    PROVE  /\ Alike(hs, comms, K) /\ DOMAIN hs = 1..Len(hs) /\ Len(hs) \in Nat
           /\ Len(hs) = Held(calls, c)
           /\ ~IsDup(Call(r)) => hs = handles[r] /\ comms = communicators[r]
           /\ IsDup(Call(r)) => Len(hs) = n + 1
           /\ \A h : /\ DOMAIN h = 1..Len(h) /\ Valid(h, communicators[r])
                     /\ Alike(h, communicators[r], K)
                     => Alike(h, comms, K)
<1>0. PICK x : x = memory[r].pt2pt
  OBVIOUS
<1>1. /\ AddressedCalls /\ StateTypes /\ count[r] \in Nat /\ HandlesAgree(r, K)
  BY WorldAddressed, DupFacts DEF All, TypeInv, Steady
<1>2. /\ n \in Nat /\ DOMAIN handles[r] = 1..n /\ n = Held(calls, count[r]) /\ Sequence(handles[r])
      /\ Sequence(communicators[r]) /\ Valid(handles[r], communicators[r])
  BY HandleFacts
<1>3. Alike(handles[r], communicators[r], K)
  BY <1>1 DEF HandlesAgree
<1>4. IF IsDup(Call(r)) THEN Registers(r, x) ELSE UNCHANGED <<communicators, handles>>
  BY <1>0, <1>1, ReturnRegisters DEF IsDup
<1>5. CASE ~IsDup(Call(r))
  <2>1. hs = handles[r] /\ comms = communicators[r]
    BY <1>4, <1>5
  <2>2. Held(calls, c) = Held(calls, count[r])
    BY <1>1, <1>2, <1>5, HeldStep DEF Call
  <2> QED
    BY <1>2, <1>3, <1>5, <2>1, <2>2
<1>6. CASE IsDup(Call(r))
  <2>1. PICK e : /\ comms = Append(communicators[r], e) /\ hs = Append(handles[r], HandleOf(comms, x))
                 /\ e.pt2pt = x
    <3>1. \E e : /\ communicators'[r] = Append(communicators[r], e)
                /\ handles'[r] = Append(handles[r], HandleOf(Append(communicators[r], e), x))
                /\ e = [rank |-> r, pt2pt |-> x, coll |-> e.coll, local |-> 0]
      BY <1>4, <1>6 DEF Registers
    <3>2. PICK e : /\ communicators'[r] = Append(communicators[r], e)
                   /\ handles'[r] = Append(handles[r], HandleOf(Append(communicators[r], e), x))
                   /\ e = [rank |-> r, pt2pt |-> x, coll |-> e.coll, local |-> 0]
      BY <3>1
    <3>3. e.pt2pt = x
      BY <3>2
    <3> QED
      BY <3>2, <3>3
  <2>2. PICK y : y = HandleOf(comms, x)
    OBVIOUS
  <2>3. Sequence(comms) /\ Known(comms, x)
    <3>1. Len(comms) = Len(communicators[r]) + 1 /\ comms[Len(communicators[r]) + 1] = e
          /\ Len(communicators[r]) \in Nat /\ DOMAIN comms = 1..Len(comms)
      BY <1>2, <2>1 DEF Sequence
    <3>2. Len(communicators[r]) + 1 \in DOMAIN comms
      BY <3>1
    <3>3. Sequence(comms)
      BY <1>2, <2>1, SequenceAppends
    <3> QED
      BY <2>1, <3>1, <3>2, <3>3 DEF Known
  <2>4. comms[y + 1].pt2pt = x
    BY <2>2, <2>3, HandleInRange
  <2>5. /\ Len(hs) = n + 1 /\ DOMAIN hs = 1..(n + 1) /\ hs[n + 1] = y
        /\ \A i \in 1..n : hs[i] = handles[r][i]
    BY <1>2, <2>1, <2>2 DEF Sequence
  <2>6. \A h : /\ DOMAIN h = 1..Len(h) /\ Valid(h, communicators[r])
               /\ Alike(h, communicators[r], K)
               => Alike(h, comms, K)
    BY <1>2, <2>1, AlikeGrows
  <2>7. n + 1 = Held(calls, c) /\ (n + 1 <= Len(K) => x = K[n + 1])
    BY <1>0, <1>6, DupReturns
  <2>8. Alike(handles[r], comms, K)
    BY <1>2, <1>3, <2>6
  <2>9. Alike(hs, comms, K)
    <3> SUFFICES ASSUME NEW i \in 1..(n + 1), i <= Len(K) PROVE comms[hs[i] + 1].pt2pt = K[i]
      BY <2>5 DEF Alike
    <3>1. CASE i = n + 1
      BY <2>4, <2>5, <2>7, <3>1
    <3>2. CASE i \in 1..n
      BY <2>5, <2>8, <3>2, <1>2 DEF Alike
    <3> QED
      BY <1>2, <3>1, <3>2
  <2> QED
    BY <1>2, <1>6, <2>5, <2>6, <2>7, <2>9
<1> QED
  BY <1>5, <1>6

\* What the serialize handlers append to a file are contexts of numbers.
LEMMA AppendedContexts ==
    ASSUME NEW a, NEW b, Sequence(a), Sequence(b), NEW s, s = a \o b
    PROVE  (\A i \in DOMAIN a : i \in DOMAIN s /\ s[i] = a[i]) /\ (a = <<>> => s = b)
<1>1. PICK S, T : a \in Seq(S) /\ b \in Seq(T)
  BY DEF Sequence
<1>2. PICK U : U = S \cup T
  OBVIOUS
<1>3. a \in Seq(U) /\ b \in Seq(U)
  BY <1>1, <1>2
<1>4. /\ DOMAIN (a \o b) = 1..(Len(a) + Len(b)) /\ \A k \in 1..Len(a) : (a \o b)[k] = a[k]
  BY <1>3, SequencesJoin
<1>5. Len(a) \in Nat /\ Len(b) \in Nat /\ DOMAIN a = 1..Len(a)
  BY <1>3
<1>6. a = <<>> => a \o b = b
  BY <1>3
<1> QED
  BY <1>4, <1>5, <1>6

Serialized(file, contexts, g) ==
    /\ DOMAIN file = {"groups", "communicators", "cache", "count", "handles", "contexts"}
    /\ Sequence(file.contexts) /\ Sequence(contexts)
    /\ g = [file EXCEPT !.contexts = @ \o contexts]
Numbered(contexts, n, K) ==
    DOMAIN contexts = 1..n /\ \A i \in 1..n : i <= Len(K) => contexts[i] = K[i]
LEMMA NotedSerialized ==
    ASSUME NEW file, NEW contexts, NEW g, Serialized(file, contexts, g), NEW K, Noted(file, K),
           Len(file.handles) \in Nat, NEW n \in Nat, Len(file.handles) <= n, Numbered(contexts, n, K)
    PROVE  Noted(g, K) /\ g.handles = file.handles /\ g.communicators = file.communicators
<1>1. g.handles = file.handles /\ g.communicators = file.communicators /\ g.contexts = file.contexts \o contexts
  BY DEF Serialized
<1>2. PICK a, s : a = file.contexts /\ s = a \o contexts
  OBVIOUS
<1>3. (\A i \in DOMAIN a : i \in DOMAIN s /\ s[i] = a[i]) /\ (a = <<>> => s = contexts)
  <2>1. Sequence(a) /\ Sequence(contexts)
    BY <1>2 DEF Serialized
  <2> QED
    BY <1>2, <2>1, AppendedContexts
<1>4. ASSUME NEW i \in 1..Len(file.handles)
      PROVE  i \in DOMAIN s /\ (i <= Len(K) => s[i] = K[i])
  <2>1. CASE a = <<>>
    <3>1. i \in 1..n
      BY <1>4
    <3> QED
      BY <1>3, <2>1, <3>1 DEF Numbered
  <2>2. CASE a # <<>>
    <3>1. i \in DOMAIN a /\ (i <= Len(K) => a[i] = K[i])
      BY <1>2, <1>4, <2>2 DEF Noted
    <3> QED
      BY <1>3, <3>1
  <2> QED
    BY <2>1, <2>2
<1> QED
  BY <1>1, <1>2, <1>4 DEF Noted

LEMMA ReturnFilesAlike ==
    ASSUME All, UNCHANGED world_size, NEW r \in Ranks, Return(r), NEW K, K = Numbers
    PROVE  FilesAlike(r, K)'
<1> SUFFICES ASSUME NEW hs, hs = handles'[r], NEW comms, comms = communicators'[r], NEW c, c = count[r] + 1,
                    NEW e, e = epoch[r], NEW n, n = Len(handles[r])
             PROVE  FilesAlike(r, K)'
  OBVIOUS
<1>1. /\ WorldCalls /\ AddressedCalls /\ StateTypes /\ FileTypes(r) /\ e \in Nat /\ HandlesAgree(r, K)
      /\ Alike(handles[r], communicators[r], K) /\ FilesAlike(r, K)
  BY WorldAddressed, DupFacts DEF All, TypeInv, Steady, RankTypes, HandlesAgree
<1>2. /\ n \in Nat /\ DOMAIN handles[r] = 1..n /\ Valid(handles[r], communicators[r])
      /\ \A k \in 0..(e - 1) :
            /\ k \in DOMAIN files[r] /\ Len(files[r][k].handles) \in Nat
            /\ DOMAIN files[r][k].handles = 1..Len(files[r][k].handles)
            /\ Len(files[r][k].handles) <= n
            /\ Sequence(files[r][k].contexts)
            /\ Valid(files[r][k].handles, communicators[r])
  BY HandleFacts
<1>3. /\ ~IsDup(Call(r)) => comms = communicators[r]
      /\ \A h : /\ DOMAIN h = 1..Len(h) /\ Valid(h, communicators[r])
                /\ Alike(h, communicators[r], K)
                => Alike(h, comms, K)
  BY ReturnAlike
<1>4. \A k \in 0..(e - 1) : Alike(files[r][k].handles, comms, K)
  BY <1>1, <1>2, <1>3 DEF FilesAlike
<1>5. CASE /\ IsWrite(calls[c]) /\ files'[r][e] = File(r, c)
           /\ \A k \in DOMAIN files[r] : k # e => files'[r][k] = files[r][k]
           /\ epoch'[r] = e \/ epoch'[r] = e + 1
  <2>1. PICK new : new = files'[r]
    OBVIOUS
  <2>2. \A k \in 0..(e - 1) : new[k] = files[r][k]
    BY <1>1, <1>2, <1>5, <2>1
  <2>3. /\ new[e].handles = handles[r] /\ new[e].communicators = communicators[r]
        /\ new[e].contexts = <<>>
    BY <1>5, <2>1 DEF File, NotSerialized
  <2>4. comms = communicators[r]
    BY <1>3, <1>5 DEF IsWrite, IsDup, Call
  <2>5. ASSUME NEW k \in 0..(e - 1)
        PROVE  /\ Alike(new[k].handles, comms, K) /\ Noted(new[k], K)
               /\ \A l \in 0..e : k <= l => Alike(new[k].handles, new[l].communicators, K)
    <3>1. ASSUME NEW l \in 0..e, k <= l PROVE Alike(new[k].handles, new[l].communicators, K)
      <4>1. CASE l = e
        BY <1>4, <2>2, <2>3, <2>4, <2>5, <4>1
      <4>2. CASE l \in 0..(e - 1)
        BY <1>1, <2>2, <2>5, <3>1, <4>2 DEF FilesAlike
      <4> QED
        BY <1>1, <4>1, <4>2
    <3> QED
      BY <1>1, <1>4, <2>2, <2>5, <3>1 DEF FilesAlike
  <2>6. /\ Alike(new[e].handles, comms, K) /\ Noted(new[e], K)
        /\ \A l \in 0..e : e <= l => Alike(new[e].handles, new[l].communicators, K)
    <3>1. \A l \in 0..e : e <= l => l = e
      BY <1>1
    <3> QED
      BY <1>1, <2>3, <2>4, <3>1 DEF Noted
  <2>7. ASSUME NEW k \in 0..(epoch'[r] - 1)
        PROVE  /\ Alike(new[k].handles, comms, K) /\ Noted(new[k], K)
               /\ \A l \in 0..(epoch'[r] - 1) : k <= l => Alike(new[k].handles, new[l].communicators, K)
    <3>1. 0..(epoch'[r] - 1) \subseteq 0..e /\ (k = e \/ k \in 0..(e - 1))
      BY <1>1, <1>5, <2>7
    <3> QED
      BY <2>5, <2>6, <3>1
  <2> QED
    BY <2>1, <2>7 DEF FilesAlike, Alike, Noted
<1>6. CASE /\ epoch' = epoch /\ DOMAIN files'[r] = DOMAIN files[r]
           /\ \E contexts :
                 /\ contexts = HandleContexts(r)
                 /\ Sequence(contexts) /\ (contexts # <<>> => contexts[1] = 0)
                 /\ \A k \in DOMAIN files[r] :
                       \/ files'[r][k] = files[r][k]
                       \/ files'[r][k] = [files[r][k] EXCEPT !.contexts = @ \o contexts]
  <2>1. PICK contexts :
                 /\ contexts = HandleContexts(r) /\ Sequence(contexts)
                 /\ \A k \in DOMAIN files[r] :
                       \/ files'[r][k] = files[r][k]
                       \/ files'[r][k] = [files[r][k] EXCEPT !.contexts = @ \o contexts]
    BY <1>6
  <2>2. DOMAIN contexts = 1..n /\ \A i \in 1..n : i <= Len(K) => contexts[i] = K[i]
    BY <1>1, <1>2, <2>1 DEF HandleContexts, ContextOf, get_context_id_pt2pt, Communicator, Alike
  <2>3. PICK new : new = files'[r]
    OBVIOUS
  <2>4. ASSUME NEW k \in 0..(e - 1)
        PROVE  /\ new[k].handles = files[r][k].handles
               /\ new[k].communicators = files[r][k].communicators /\ Noted(new[k], K)
    <3>1. PICK file : file = files[r][k]
      OBVIOUS
    <3>2. Noted(file, K)
      BY <1>1, <3>1 DEF FilesAlike
    <3>3. CASE new[k] = file
      BY <3>1, <3>2, <3>3
    <3>4. CASE new[k] = [file EXCEPT !.contexts = @ \o contexts]
      <4>1. DOMAIN file = {"groups", "communicators", "cache", "count", "handles", "contexts"}
        BY <1>1, <1>2, <3>1 DEF FileTypes, SomeFile
      <4>2. PICK g : g = new[k]
        OBVIOUS
      <4>3. Noted(g, K) /\ g.handles = file.handles /\ g.communicators = file.communicators
        <5>1. Serialized(file, contexts, g)
          BY <1>2, <2>1, <3>1, <3>4, <4>1, <4>2 DEF Serialized
        <5>2. Numbered(contexts, n, K)
          BY <2>2 DEF Numbered
        <5>3. Len(file.handles) \in Nat /\ Len(file.handles) <= n
          BY <1>2, <2>1, <3>1
        <5> QED
          BY <1>2, <3>2, <5>1, <5>2, <5>3, NotedSerialized
      <4> QED
        BY <3>1, <4>2, <4>3
    <3> QED
      BY <1>2, <2>1, <2>3, <3>1, <3>3, <3>4
  <2>5. ASSUME NEW k \in 0..(e - 1)
        PROVE  /\ Alike(new[k].handles, comms, K) /\ Noted(new[k], K)
               /\ \A l \in 0..(e - 1) : k <= l => Alike(new[k].handles, new[l].communicators, K)
    <3>1. ASSUME NEW l \in 0..(e - 1), k <= l PROVE Alike(new[k].handles, new[l].communicators, K)
      BY <1>1, <2>4, <2>5, <3>1 DEF FilesAlike
    <3> QED
      BY <1>4, <2>4, <2>5, <3>1
  <2>6. epoch'[r] = e
    BY <1>6
  <2> QED
    BY <2>3, <2>5, <2>6 DEF FilesAlike, Alike, Noted
<1>7. \/ /\ IsWrite(calls[c]) /\ files'[r][epoch[r]] = File(r, c)
         /\ \A k \in DOMAIN files[r] : k # epoch[r] => files'[r][k] = files[r][k]
         /\ epoch'[r] = epoch[r] \/ epoch'[r] = epoch[r] + 1
      \/ /\ epoch' = epoch /\ DOMAIN files'[r] = DOMAIN files[r]
         /\ \E contexts :
               /\ contexts = HandleContexts(r)
               /\ Sequence(contexts) /\ (contexts # <<>> => contexts[1] = 0)
               /\ \A k \in DOMAIN files[r] :
                     \/ files'[r][k] = files[r][k]
                     \/ files'[r][k] = [files[r][k] EXCEPT !.contexts = @ \o contexts]
  BY <1>1, ReturnWrites
<1> QED
  BY <1>5, <1>6, <1>7

LEMMA ReturnLens ==
    ASSUME All, UNCHANGED world_size, NEW r \in Ranks, Return(r)
    PROVE  Lens(r)'
<1> SUFFICES ASSUME NEW c, c = count[r] + 1, NEW e, e = epoch[r], NEW new, new = files'[r]
             PROVE  Lens(r)'
  OBVIOUS
<1>1. /\ AddressedCalls /\ StateTypes /\ FileTypes(r) /\ e \in Nat /\ Lens(r) /\ count[r] \in Nat
      /\ DOMAIN count = Ranks
  BY WorldAddressed, DupFacts DEF All, TypeInv, Steady, RankTypes, Shape
<1>2. calls' = calls /\ count'[r] = c
  BY <1>1 DEF Return
<1>3. Len(handles'[r]) = Held(calls, c)
  <2>1. PICK hs, comms, K, n : /\ hs = handles'[r] /\ comms = communicators'[r] /\ K = Numbers
                               /\ n = Len(handles[r])
    OBVIOUS
  <2>2. Len(hs) = Held(calls, c)
    BY <2>1, ReturnAlike
  <2> QED
    BY <2>1, <2>2
<1>4. ASSUME NEW k \in DOMAIN new PROVE Len(new[k].handles) = Held(calls, new[k].count)
  <2>1. CASE /\ IsWrite(calls[c]) /\ DOMAIN files'[r] = DOMAIN files[r] \cup {e}
             /\ files'[r][e] = File(r, c)
             /\ \A i \in DOMAIN files[r] : i # e => files'[r][i] = files[r][i]
    <3>1. CASE k = e
      <4>1. new[k].handles = handles[r] /\ new[k].count = c
        BY <2>1, <3>1 DEF File
      <4>2. ~IsDup(calls[c])
        BY <2>1 DEF IsWrite, IsDup
      <4>3. Held(calls, c) = Held(calls, count[r])
        <5>1. Held(calls, count[r] + 1)
                 = Held(calls, count[r]) + (IF IsDup(calls[count[r] + 1]) THEN 1 ELSE 0)
          BY <1>1, HeldStep
        <5>2. Held(calls, count[r]) \in Nat
          BY <1>1, HeldType
        <5> QED
          BY <4>2, <5>1, <5>2
      <4> QED
        BY <1>1, <4>1, <4>3 DEF Lens
    <3>2. CASE k # e
      BY <1>1, <1>4, <2>1, <3>2 DEF Lens
    <3> QED
      BY <3>1, <3>2
  <2>2. CASE /\ DOMAIN files'[r] = DOMAIN files[r]
             /\ \E contexts : \A i \in DOMAIN files[r] :
                   \/ files'[r][i] = files[r][i]
                   \/ files'[r][i] = [files[r][i] EXCEPT !.contexts = @ \o contexts]
    <3>1. PICK file : file = files[r][k]
      OBVIOUS
    <3>2. Len(file.handles) = Held(calls, file.count)
      BY <1>1, <1>4, <2>2, <3>1 DEF Lens
    <3>3. PICK contexts : new[k] = file \/ new[k] = [file EXCEPT !.contexts = @ \o contexts]
      BY <1>4, <2>2, <3>1
    <3>4. DOMAIN file = {"groups", "communicators", "cache", "count", "handles", "contexts"}
      BY <1>1, <1>4, <2>2, <3>1 DEF FileTypes, SomeFile
    <3>5. new[k].handles = file.handles /\ new[k].count = file.count
      BY <3>3, <3>4
    <3> QED
      BY <3>2, <3>5
  <2>3. \/ /\ IsWrite(calls[c]) /\ DOMAIN files'[r] = DOMAIN files[r] \cup {e}
           /\ files'[r][e] = File(r, c)
           /\ \A i \in DOMAIN files[r] : i # e => files'[r][i] = files[r][i]
        \/ /\ DOMAIN files'[r] = DOMAIN files[r]
           /\ \E contexts : \A i \in DOMAIN files[r] :
                 \/ files'[r][i] = files[r][i]
                 \/ files'[r][i] = [files[r][i] EXCEPT !.contexts = @ \o contexts]
    <3>1. \/ /\ IsWrite(calls[c])
             /\ DOMAIN files'[r] = DOMAIN files[r] \cup {epoch[r]}
             /\ files'[r][epoch[r]] = File(r, c)
             /\ \A l \in DOMAIN files[r] : l # epoch[r] => files'[r][l] = files[r][l]
             /\ epoch'[r] = epoch[r] \/ epoch'[r] = epoch[r] + 1
          \/ /\ epoch' = epoch /\ DOMAIN files'[r] = DOMAIN files[r]
             /\ \E contexts :
                   /\ contexts = HandleContexts(r)
                   /\ Sequence(contexts) /\ (contexts # <<>> => contexts[1] = 0)
                   /\ \A l \in DOMAIN files[r] :
                         \/ files'[r][l] = files[r][l]
                         \/ files'[r][l] = [files[r][l] EXCEPT !.contexts = @ \o contexts]
      BY <1>1, ReturnWrites
    <3> QED
      BY <3>1
  <2> QED
    BY <2>1, <2>2, <2>3
<1> QED
  BY <1>2, <1>3, <1>4 DEF Lens, Held, IsDup

LEMMA ReturnAgrees ==
    ASSUME All, UNCHANGED world_size, NEW r \in Ranks, Return(r), NEW K, NEW q \in Ranks,
           MessagesAgree(q, K)
    PROVE  MessagesAgree(q, K)'
<1> SUFFICES ASSUME NEW c, c = count[r] + 1
             PROVE  MessagesAgree(q, K)'
  OBVIOUS
<1>1. /\ busy[r] /\ busy' = [busy EXCEPT ![r] = FALSE] /\ count' = [count EXCEPT ![r] = @ + 1]
      /\ UNCHANGED <<calls, plan, memory, failed, is_errSet, received_header_queue, network, poolVars>>
  BY DEF Return, faultVars, transportVars
<1>2. /\ Rigid /\ Steady /\ Shape /\ count[r] \in Nat /\ ~Stopped(r) /\ DOMAIN calls = 1..Len(calls)
  BY <1>1, DupFacts DEF Rigid, All, Steady
<1>3. DOMAIN busy = Ranks /\ DOMAIN count = Ranks
  BY <1>2 DEF Shape
<1>4. MailSame(q)
  BY <1>1 DEF MailSame, poolVars
<1>5. CASE q # r
  <2>1. CountsSame(q) /\ memory'[q] = memory[q] /\ (Reads(q)' => Reads(q))
    BY <1>1, <1>3, <1>5 DEF CountsSame, Stopped, Reads
  <2>2. Passive(q)
    BY <1>2, <2>1, PassiveSame
  <2>3. StillComes(q, K)
    BY <1>4, MailKept
  <2> QED
    BY <1>2, <2>2, <2>3, MessagesAgreeKept
<1>6. CASE q = r /\ r # 0
  <2>1. ~busy'[r] /\ count'[r] = c
    BY <1>1, <1>3
  <2>2. Has(r, count[r] + 1, K)'
    BY <2>1 DEF Has
  <2>3. Coming(r, K)'
    <3> SUFFICES ASSUME NEW j \in DOMAIN calls, Reads(r)', Awaits(r, j, K)', NEW x, x = K[Held(calls, j)]
                 PROVE  Comes(r, j, x)'
      BY <1>2 DEF Coming, Rigid, Held, IsDup
    <3>0. Reads(r)
      BY <1>1, <1>2 DEF Reads
    <3>1. IsDup(calls[j]) /\ j > c /\ Held(calls, j) <= Len(K)
      BY <1>2, <2>1 DEF Awaits, IsDup, Held, Rigid
    <3>2. j > count[r] /\ Taken(r, 0, j) = 0
      BY <1>2, <3>1 DEF Taken
    <3>3. Awaits(r, j, K)
      BY <3>1, <3>2 DEF Awaits
    <3>4. Comes(r, j, x)
      BY <1>2, <1>6, <3>0, <3>3 DEF MessagesAgree, Coming
    <3> QED
      BY <1>4, <1>6, <3>4, ComesKept DEF MailSame
  <2> QED
    BY <1>6, <2>2, <2>3 DEF MessagesAgree
<1>7. CASE q = 0
  BY <1>7 DEF MessagesAgree
<1> QED
  BY <1>5, <1>6, <1>7

LEMMA ReturnDup ==
    ASSUME All, UNCHANGED world_size, NEW r \in Ranks, Return(r)
    PROVE  DupState'
<1> SUFFICES ASSUME NEW K, K = Numbers, NEW hs, hs = handles'[r], NEW comms, comms = communicators'[r],
                    NEW c, c = count[r] + 1, NEW n, n = Len(handles[r])
             PROVE  DupState'
  OBVIOUS
<1>1. /\ busy[r] /\ busy' = [busy EXCEPT ![r] = FALSE] /\ count' = [count EXCEPT ![r] = @ + 1]
      /\ UNCHANGED <<calls, memory, failed, is_errSet, nextID>>
  <2>1. UNCHANGED nextID
    BY DEF Return, register, commVars
  <2> QED
    BY <2>1 DEF Return, faultVars
<1>2. /\ Rigid /\ AddressedCalls /\ StateTypes /\ Steady /\ Shape /\ failed # 0 /\ 0 \in Ranks /\ Behind
      /\ ~Stopped(r) /\ \A q \in Ranks : /\ HandlesAgree(q, K) /\ MessagesAgree(q, K) /\ Lens(q)
                                         /\ count[q] \in Nat
  BY <1>1, WorldAddressed, DupFacts DEF Rigid, All, TypeInv, Steady, DupState
<1>3. DOMAIN busy = Ranks /\ DOMAIN count = Ranks
  BY <1>2 DEF Shape
<1>4. \A q \in Ranks \ {r} : /\ communicators'[q] = communicators[q] /\ handles'[q] = handles[q]
                             /\ files'[q] = files[q] /\ epoch'[q] = epoch[q] /\ count'[q] = count[q]
  <2>1. \A q \in Ranks \ {r} : /\ communicators'[q] = communicators[q] /\ handles'[q] = handles[q]
                               /\ files'[q] = files[q]
    BY <1>2, ReturnRegisters, ReturnWrites
  <2>2. epoch' = epoch \/ epoch' = [epoch EXCEPT ![r] = @ + 1]
    BY DEF Return
  <2>3. DOMAIN epoch = Ranks
    BY <1>2 DEF Shape
  <2> QED
    BY <1>1, <1>3, <2>1, <2>2, <2>3
<1>5. /\ Alike(hs, comms, K) /\ DOMAIN hs = 1..Len(hs) /\ Len(hs) \in Nat
      /\ Len(hs) = Held(calls, c)
      /\ ~IsDup(Call(r)) => hs = handles[r] /\ comms = communicators[r]
      /\ IsDup(Call(r)) => Len(hs) = n + 1
  <2>1. Alike(hs, comms, K) /\ DOMAIN hs = 1..Len(hs) /\ Len(hs) \in Nat
    BY ReturnAlike
  <2>2. Len(hs) = Held(calls, c)
    BY ReturnAlike
  <2>3. ~IsDup(Call(r)) => hs = handles[r] /\ comms = communicators[r]
    BY ReturnAlike
  <2>4. IsDup(Call(r)) => Len(hs) = n + 1
    BY ReturnAlike
  <2> QED
    BY <2>1, <2>2, <2>3, <2>4
<1>6. ASSUME NEW q \in Ranks
      PROVE  HandlesAgree(q, K)' /\ MessagesAgree(q, K)' /\ Lens(q)' /\ count'[q] \in Nat
  <2>1. MessagesAgree(q, K)'
    BY <1>2, ReturnAgrees
  <2>2. CASE q # r
    <3>1. HandlesAgree(q, K)'
      BY <1>2, <1>4, <2>2, HandlesAgreeKept
    <3>2. Lens(q)'
      BY <1>2, <1>4, <2>2, LensKept
    <3> QED
      BY <1>2, <1>4, <2>1, <2>2, <3>1, <3>2
  <2>3. CASE q = r
    <3>1. FilesAlike(r, K)'
      BY ReturnFilesAlike
    <3>2. HandlesAgree(r, K)'
      BY <1>5, <3>1 DEF HandlesAgree, Alike
    <3>3. Lens(r)'
      BY ReturnLens
    <3>4. count'[r] \in Nat
      BY <1>1, <1>2, <1>3
    <3> QED
      BY <2>1, <2>3, <3>2, <3>3, <3>4
  <2> QED
    BY <2>2, <2>3
<1>7. PICK m : m = Len(handles[0])
  OBVIOUS
<1>8. m \in Nat /\ Len(K) \in Nat /\ m <= Len(K) /\ Len(K) = IF Drawing THEN m + 1 ELSE m
  BY <1>7, NumberFacts
<1>9. PICK N : N = Numbers'
  OBVIOUS
<1>10. Prefix(N, K) /\ Len(N) = Len(K)
  <2>1. CASE r # 0
    <3>1. busy'[0] = busy[0] /\ memory'[0] = memory[0]
      BY <1>1, <1>2, <1>3, <2>1
    <3>2. N = K
      BY <1>2, <1>4, <1>9, <2>1, <3>1, NumbersKept
    <3> QED
      BY <1>8, <3>2 DEF Prefix
  <2>2. CASE r = 0
    <3>1. ~Drawing' /\ (Drawing <=> IsDup(Call(r)))
      BY <1>1, <1>3, <2>2 DEF Drawing
    <3>2. Len(hs) = Len(K)
      BY <1>5, <1>7, <1>8, <2>2, <3>1
    <3>3. Prefix(Numbers', K) /\ Len(Numbers') = Len(hs)
      BY <1>5, <1>8, <2>2, <3>1, <3>2, NumbersFromHandles
    <3> QED
      BY <1>9, <3>2, <3>3
  <2> QED
    BY <2>1, <2>2
<1>11. Ascending'
  BY <1>1, <1>2, <1>9, <1>10, AscendingKept
<1>12. Behind'
  <2> SUFFICES ASSUME ~Stopped(0)', NEW q \in Ranks PROVE Len(handles[q])' <= Len(N)
    BY <1>2, <1>9 DEF Behind, Rigid, Ranks
  <2>1. ~Stopped(0)
    BY <1>1, <1>2, <1>3 DEF Stopped
  <2>2. Len(handles[q]) <= Len(K)
    BY <1>2, <2>1 DEF Behind
  <2>3. CASE q # r
    BY <1>4, <1>10, <2>2, <2>3
  <2>4. CASE q = r /\ ~IsDup(Call(r))
    BY <1>5, <1>10, <2>2, <2>4
  <2>5. CASE q = r /\ IsDup(Call(r))
    <3>1. n + 1 <= Len(K)
      BY <2>1, <2>5, DupReturns
    <3> QED
      BY <1>5, <1>10, <2>5, <3>1
  <2> QED
    BY <2>3, <2>4, <2>5
<1> QED
  BY <1>2, <1>6, <1>8, <1>9, <1>10, <1>11, <1>12, DupTogether

(***************************************************************************)
(* A recovery that is not disturbed: all ranks hold again what they held   *)
(* when the epoch that they return to began.                               *)
(***************************************************************************)
Restores(C, c) ==
    /\ C \in Nat /\ c \in Nat /\ EpochOf(calls, c) = C
    /\ \A j \in Nat : EpochOf(calls, j) >= C <=> j >= c
    /\ \A r \in Ranks :
          /\ C <= epoch[r] /\ epoch'[r] = C /\ CountAfter(r, C) = c /\ count'[r] = c /\ ~busy'[r]
          /\ handles'[r] = HandlesAfter(r, failed, C)
          /\ r # failed => ~HandlesLost(r, C)
          /\ communicators'[r] = IF r # failed THEN communicators[r]
                                 ELSE IF C = 0 THEN <<WorldComm(r)>> ELSE files[r][C - 1].communicators
    /\ Rigid /\ files' = files /\ failed' # 0
    /\ DOMAIN nextID' = DOMAIN nextID /\ nextID'[0] = nextID[0]

LEMMA RecoverRestores ==
    ASSUME All, UNCHANGED world_size, Recover, ~disturbed', NEW C, C = Committed
    PROVE  \E c : Restores(C, c)
<1>1. WorldCalls /\ Steady /\ FaultInv /\ StateTypes /\ failed # 0
  BY DupFacts DEF All, TypeInv, Steady
<1>2. /\ C \in Nat /\ failed \in Ranks /\ \A r \in Ranks : C <= epoch[r] /\ EpochAfter(r) = C
      /\ \A r \in Survivors : ~HandlesLost(r, C)
  BY <1>1, RecoveryEpoch
<1>3. /\ failed # NoRank /\ \A r \in Survivors : is_errSet[r] /\ ~busy[r]
      /\ epoch' = [r \in Ranks |-> EpochAfter(r)]
      /\ handles' = [r \in Ranks |-> HandlesAfter(r, failed, EpochAfter(r))]
      /\ count' = [r \in Ranks |-> CountAfter(r, EpochAfter(r))]
      /\ communicators' = [communicators EXCEPT ![failed] =
                               IF C = 0 THEN <<WorldComm(failed)>>
                               ELSE files[failed][C - 1].communicators]
      /\ nextID' = [nextID EXCEPT ![failed] = 1]
      /\ failed' = NoRank /\ files' = files
      /\ UNCHANGED <<calls, busy>>
  BY DEF Recover, load
<1>4. PICK c \in Nat : /\ c <= Len(calls) /\ EpochOf(calls, c) = C
                       /\ \A j \in Nat : EpochOf(calls, j) >= C <=> j >= c
                       /\ \A r \in Ranks : CountAfter(r, C) = c
  BY <1>1, <1>2, RecoveryCount
<1>5. \A r \in Ranks : ~busy[r]
  BY <1>1, <1>2, <1>3 DEF FaultInv, Survivors
<1>6. DOMAIN communicators = Ranks
  BY <1>1 DEF StateTypes, Sorts
<1>7. Rigid /\ failed' # 0
  BY <1>3 DEF Rigid, NoRank
<1>8. DOMAIN nextID' = DOMAIN nextID /\ nextID'[0] = nextID[0]
  BY <1>1, <1>3
<1>9. ASSUME NEW r \in Ranks
      PROVE  /\ epoch'[r] = C /\ count'[r] = c /\ ~busy'[r] /\ handles'[r] = HandlesAfter(r, failed, C)
             /\ r # failed => ~HandlesLost(r, C)
             /\ communicators'[r] = IF r # failed THEN communicators[r]
                                    ELSE IF C = 0 THEN <<WorldComm(r)>> ELSE files[r][C - 1].communicators
  <2>1. epoch'[r] = C /\ count'[r] = c /\ ~busy'[r] /\ handles'[r] = HandlesAfter(r, failed, C)
    BY <1>2, <1>3, <1>4, <1>5
  <2>2. r # failed => ~HandlesLost(r, C)
    BY <1>2 DEF Survivors
  <2>3. communicators'[r] = IF r # failed THEN communicators[r]
                            ELSE IF C = 0 THEN <<WorldComm(r)>> ELSE files[r][C - 1].communicators
    BY <1>3, <1>6
  <2> QED
    BY <2>1, <2>2, <2>3
<1> QED
  BY <1>2, <1>3, <1>4, <1>7, <1>8, <1>9 DEF Restores

\* The file that a rank returns to.
LEMMA RestoredFile ==
    ASSUME All, NEW C, NEW c, Restores(C, c), C # 0, NEW r \in Ranks, NEW K, K = Numbers,
           NEW file, file = files[r][C - 1], NEW n, n = Len(file.handles)
    PROVE  /\ C - 1 \in 0..(epoch[r] - 1)
           /\ n \in Nat /\ DOMAIN file.handles = 1..n /\ n = Held(calls, c)
           /\ Alike(file.handles, communicators[r], K)
           /\ Alike(file.handles, file.communicators, K) /\ Noted(file, K)
<1>1. /\ WorldCalls /\ Steady /\ C \in Nat \ {0} /\ C <= epoch[r] /\ epoch[r] \in Nat
      /\ CountAfter(r, C) = c /\ HandlesAgree(r, K) /\ FilesAlike(r, K) /\ Lens(r)
  BY DupFacts DEF Restores, All, HandlesAgree
<1>2. C - 1 \in 0..(epoch[r] - 1)
  BY <1>1
<1>3. C - 1 \in DOMAIN files[r] /\ n \in Nat /\ DOMAIN file.handles = 1..n
  BY <1>2, HandleFacts
<1>4. c = file.count
  BY <1>1 DEF CountAfter
<1>5. n = Held(calls, c)
  BY <1>1, <1>3, <1>4 DEF Lens
<1>6. /\ Alike(file.handles, communicators[r], K)
      /\ Alike(file.handles, file.communicators, K) /\ Noted(file, K)
  BY <1>1, <1>2 DEF FilesAlike
<1> QED
  BY <1>2, <1>3, <1>5, <1>6

LEMMA RestoredHandles ==
    ASSUME All, NEW C, NEW c, Restores(C, c), NEW r \in Ranks, NEW K, K = Numbers,
           NEW hs, hs = handles'[r], NEW comms, comms = communicators'[r]
    PROVE  /\ Alike(hs, comms, K) /\ DOMAIN hs = 1..Len(hs) /\ Len(hs) \in Nat /\ Len(hs) = Held(calls, c)
<1>1. /\ C \in Nat /\ c \in Nat /\ hs = HandlesAfter(r, failed, C) /\ (r # failed => ~HandlesLost(r, C))
      /\ CountAfter(r, C) = c
      /\ comms = IF r # failed THEN communicators[r]
                 ELSE IF C = 0 THEN <<WorldComm(r)>> ELSE files[r][C - 1].communicators
  BY DEF Restores
<1>2. Sequence(communicators[r]) /\ communicators[r][1].pt2pt = 0
  BY HandleFacts
<1>3. CASE C = 0
  <2>1. hs = <<0>>
    BY <1>1, <1>3 DEF HandlesAfter, MPI_COMM_WORLD
  <2>2. comms[1].pt2pt = 0
    BY <1>1, <1>2, <1>3 DEF WorldComm
  <2>3. K[1] = 0
    <3>1. PICK n : n = Len(handles[0])
      OBVIOUS
    <3> QED
      BY <3>1, NumberFacts
  <2>4. Len(hs) = 1 /\ DOMAIN hs = 1..1 /\ hs[1] = 0
    BY <2>1
  <2>5. Alike(hs, comms, K)
    BY <2>2, <2>3, <2>4 DEF Alike
  <2>6. c = 0
    BY <1>1, <1>3 DEF CountAfter
  <2> QED
    BY <2>4, <2>5, <2>6, HeldZero
<1>4. CASE C # 0
  <2>1. PICK file, n : file = files[r][C - 1] /\ n = Len(file.handles)
    OBVIOUS
  <2>2. /\ n \in Nat /\ DOMAIN file.handles = 1..n /\ n = Held(calls, c)
        /\ Alike(file.handles, communicators[r], K)
        /\ Alike(file.handles, file.communicators, K) /\ Noted(file, K)
    BY <1>4, <2>1, RestoredFile
  <2>3. CASE r = failed
    BY <1>1, <1>4, <2>1, <2>2, <2>3 DEF HandlesAfter
  <2>4. CASE r # failed /\ ~registered[r]
    BY <1>1, <1>4, <2>1, <2>2, <2>4 DEF HandlesAfter
  <2>5. CASE r # failed /\ registered[r]
    <3>1. /\ file.contexts # <<>>
          /\ \A i \in 1..n : Known(communicators[r], file.contexts[i])
      BY <1>1, <1>4, <2>1, <2>2, <2>5 DEF HandlesLost, NotSerialized
    <3>2. hs = [i \in 1..n |-> HandleOf(communicators[r], file.contexts[i])]
      BY <1>1, <1>4, <2>1, <2>5 DEF HandlesAfter, MPIX_Deserialize_handles
    <3>3. DOMAIN hs = 1..n /\ Len(hs) = n
      BY <2>2, <3>2
    <3>4. ASSUME NEW i \in 1..n, i <= Len(K) PROVE comms[hs[i] + 1].pt2pt = K[i]
      <4>1. PICK x, h : x = file.contexts[i] /\ h = HandleOf(communicators[r], x)
        OBVIOUS
      <4>2. Known(communicators[r], x)
        BY <3>1, <4>1
      <4>3. communicators[r][h + 1].pt2pt = x
        BY <1>2, <4>1, <4>2, HandleInRange
      <4>4. x = K[i]
        BY <2>1, <2>2, <3>1, <3>4, <4>1 DEF Noted
      <4> QED
        BY <1>1, <2>5, <3>2, <4>1, <4>3, <4>4
    <3>5. Alike(hs, comms, K)
      BY <3>3, <3>4 DEF Alike
    <3> QED
      BY <2>2, <3>3, <3>5
  <2> QED
    BY <2>3, <2>4, <2>5
<1> QED
  BY <1>3, <1>4

LEMMA RestoredFiles ==
    ASSUME All, NEW C, NEW c, Restores(C, c), NEW r \in Ranks, NEW K, K = Numbers
    PROVE  FilesAlike(r, K)'
<1> SUFFICES ASSUME NEW comms, comms = communicators'[r]
             PROVE  FilesAlike(r, K)'
  OBVIOUS
<1>1. /\ C \in Nat /\ C <= epoch[r] /\ epoch[r] \in Nat /\ epoch'[r] = C /\ files' = files
      /\ FilesAlike(r, K)
      /\ comms = IF r # failed THEN communicators[r]
                 ELSE IF C = 0 THEN <<WorldComm(r)>> ELSE files[r][C - 1].communicators
  BY DupFacts DEF Restores, HandlesAgree
<1>2. ASSUME NEW k \in 0..(C - 1)
      PROVE  /\ Alike(files[r][k].handles, comms, K) /\ Noted(files[r][k], K)
             /\ \A l \in 0..(C - 1) : k <= l => Alike(files[r][k].handles, files[r][l].communicators, K)
  <2>1. k \in 0..(epoch[r] - 1) /\ 0..(C - 1) \subseteq 0..(epoch[r] - 1) /\ C - 1 \in 0..(C - 1)
        /\ k <= C - 1 /\ C # 0
    BY <1>1, <1>2
  <2>2. /\ Alike(files[r][k].handles, communicators[r], K) /\ Noted(files[r][k], K)
        /\ \A l \in 0..(C - 1) : k <= l => Alike(files[r][k].handles, files[r][l].communicators, K)
    BY <1>1, <2>1 DEF FilesAlike
  <2> QED
    BY <1>1, <2>1, <2>2
<1>3. files'[r] = files[r]
  BY <1>1
<1> QED
  BY <1>1, <1>2, <1>3 DEF FilesAlike, Alike, Noted

\* The messages that are left are of calls before the one that all return to.
LEMMA RestoredMessages ==
    ASSUME All, UNCHANGED world_size, Recover, ~disturbed', NEW C, C = Committed, NEW c, Restores(C, c),
           NEW r \in Ranks, NEW K
    PROVE  MessagesAgree(r, K)'
<1>1. /\ C \in Nat /\ c \in Nat /\ Rigid /\ count'[r] = c /\ ~busy'[r]
      /\ \A j \in Nat : EpochOf(calls, j) >= C <=> j >= c
  BY DEF Restores
<1>2. WorldCalls /\ PoolInv /\ Steady /\ 0 \in Ranks /\ DOMAIN calls = 1..Len(calls) /\ Len(calls) \in Nat
  BY DupFacts DEF All
<1>3. ASSUME NEW h, NEW s \in Ranks, GoodMessage(h, s), h.epoch < C, NEW j \in Nat \ {0}, j > c,
             Hit(h, 0, j)
      PROVE  FALSE
  <2>1. h.call = j /\ h.epoch = EpochOf(calls, j - 1) /\ j - 1 \in Nat
    BY <1>3 DEF GoodMessage, Hit
  <2>2. EpochOf(calls, j - 1) \in Nat
    BY <2>1, EpochBound
  <2> QED
    BY <1>1, <1>3, <2>1, <2>2
<1>4. ASSUME NEW i \in DOMAIN Received(r)', NEW j \in Nat \ {0}, j > c
      PROVE  ~Hit(Received(r)'[i], 0, j)
  <2>1. /\ Received(r)' = Received(r)
        /\ Received(r)[i].tag = 0 =>
              \E s \in Ranks : GoodMessage(Received(r)[i], s) /\ Received(r)[i].epoch < C
    BY <1>2, RecoveryMessages
  <2> QED
    BY <1>3, <1>4, <2>1 DEF Hit
<1>5. ASSUME NEW i \in DOMAIN OnTheWay(0, r)', NEW j \in Nat \ {0}, j > c
      PROVE  ~Hit(OnTheWay(0, r)'[i], 0, j)
  <2>1. /\ OnTheWay(0, r)' = OnTheWay(0, r)
        /\ GoodMessage(OnTheWay(0, r)[i], 0) /\ OnTheWay(0, r)[i].epoch < C
    BY <1>2, RecoveryMessages
  <2> QED
    BY <1>2, <1>3, <1>5, <2>1
<1>6. ASSUME NEW j \in Nat \ {0}, j > c, NEW x PROVE Comes(r, j, x)'
  <2>1. QueueBrings(r, j, x)'
    BY <1>4, <1>6 DEF QueueBrings, IsFirst, Hit
  <2>2. WireBrings(r, j, x)'
    BY <1>5, <1>6 DEF WireBrings, IsFirst, Hit
  <2> QED
    BY <2>1, <2>2 DEF Comes
<1>7. Coming(r, K)'
  <2> SUFFICES ASSUME NEW j \in DOMAIN calls, Awaits(r, j, K)', NEW x, x = K[Held(calls, j)]'
               PROVE  Comes(r, j, x)'
    BY <1>1 DEF Coming, Rigid
  <2>1. j > c /\ j \in Nat \ {0}
    BY <1>1, <1>2 DEF Awaits
  <2> QED
    BY <1>6, <2>1
<1> QED
  BY <1>1, <1>7 DEF MessagesAgree, Has

LEMMA RecoverDup ==
    ASSUME All, UNCHANGED world_size, Recover, ~disturbed'
    PROVE  DupState'
<1>1. PICK C, K, n : C = Committed /\ K = Numbers /\ n = Len(handles[0])
  OBVIOUS
<1>2. PICK c : Restores(C, c)
  BY <1>1, RecoverRestores
<1>3. /\ C \in Nat /\ c \in Nat /\ EpochOf(calls, c) = C /\ Rigid /\ files' = files /\ failed' # 0
      /\ \A j \in Nat : EpochOf(calls, j) >= C <=> j >= c
      /\ \A r \in Ranks : C <= epoch[r] /\ count'[r] = c /\ ~busy'[r]
      /\ DOMAIN nextID' = DOMAIN nextID /\ nextID'[0] = nextID[0]
  BY <1>2 DEF Restores
<1>4. /\ 0 \in Ranks /\ Ranks' = Ranks /\ \A r \in Ranks : Lens(r) /\ RankTypes(r) /\ count[r] \in Nat /\ epoch[r] \in Nat
  BY <1>3, DupFacts DEF Rigid, Ranks
<1>5. n \in Nat \ {0} /\ n = Held(calls, count[0]) /\ Len(K) \in Nat /\ n <= Len(K)
  BY <1>1, NumberFacts
<1>6. Held(calls, c) <= Len(K)
  <2>1. epoch[0] <= EpochOf(calls, count[0]) /\ EpochOf(calls, count[0]) \in Nat
    BY <1>4, EpochBound DEF RankTypes, CountTypes
  <2>2. c <= count[0]
    BY <1>3, <1>4, <2>1
  <2>3. Held(calls, c) <= n /\ Held(calls, c) \in Nat
    BY <1>3, <1>4, <1>5, <2>2, HeldMonotone, HeldType
  <2> QED
    BY <1>5, <2>3
<1>7. ASSUME NEW r \in Ranks
      PROVE  /\ HandlesAgree(r, K)' /\ MessagesAgree(r, K)' /\ Lens(r)' /\ count'[r] \in Nat
             /\ Len(handles'[r]) = Held(calls, c)
  <2>1. PICK hs, comms : hs = handles'[r] /\ comms = communicators'[r]
    OBVIOUS
  <2>2. Alike(hs, comms, K)
    BY <1>1, <1>2, <2>1, RestoredHandles
  <2>3. Len(hs) = Held(calls, c)
    BY <1>1, <1>2, <2>1, RestoredHandles
  <2>4. FilesAlike(r, K)'
    BY <1>1, <1>2, RestoredFiles
  <2>5. HandlesAgree(r, K)'
    BY <2>1, <2>2, <2>4 DEF HandlesAgree, Alike
  <2>6. Lens(r)'
    <3>1. \A k \in DOMAIN files[r] : Len(files[r][k].handles) = Held(calls, files[r][k].count)
      BY <1>4 DEF Lens
    <3>2. handles'[r] = hs /\ Len(hs) = Held(calls, c) /\ count'[r] = c /\ files' = files /\ calls' = calls
      BY <1>3, <2>1, <2>3 DEF Rigid
    <3> QED
      BY <3>1, <3>2 DEF Lens, Held, IsDup
  <2>7. MessagesAgree(r, K)'
    BY <1>1, <1>2, RestoredMessages
  <2> QED
    BY <1>3, <2>1, <2>3, <2>5, <2>6, <2>7
<1>8. PICK hs, comms : hs = handles'[0] /\ comms = communicators'[0]
  OBVIOUS
<1>9. Alike(hs, comms, K) /\ DOMAIN hs = 1..Len(hs) /\ Len(hs) \in Nat /\ Len(hs) = Held(calls, c)
  <2>1. Alike(hs, comms, K)
    BY <1>1, <1>2, <1>4, <1>8, RestoredHandles
  <2>2. DOMAIN hs = 1..Len(hs) /\ Len(hs) \in Nat
    BY <1>1, <1>2, <1>4, <1>8, RestoredHandles
  <2>3. Len(hs) = Held(calls, c)
    BY <1>1, <1>2, <1>4, <1>8, RestoredHandles
  <2> QED
    BY <2>1, <2>2, <2>3
<1>10. ~Drawing'
  BY <1>3, <1>4 DEF Drawing
<1>11. PICK N : N = Numbers'
  OBVIOUS
<1>12. Prefix(N, K) /\ Len(N) = Len(hs)
  <2>1. Prefix(Numbers', K) /\ Len(Numbers') = Len(hs)
    BY <1>5, <1>6, <1>8, <1>9, <1>10, NumbersFromHandles
  <2> QED
    BY <1>11, <2>1
<1>13. Ascending'
  BY <1>1, <1>3, <1>11, <1>12, AscendingKept
<1>14. Behind'
  <2>1. \A r \in Ranks : Len(handles'[r]) <= Len(N)
    BY <1>3, <1>7, <1>9, <1>12, HeldType
  <2> QED
    BY <1>4, <1>11, <2>1 DEF Behind
<1> QED
  BY <1>3, <1>5, <1>7, <1>11, <1>12, <1>13, <1>14, DupTogether

LEMMA DupStart == Init => (WorldCalls => DupState)
<1> SUFFICES ASSUME Init, WorldCalls PROVE DupState
  OBVIOUS
<1>1. /\ count = [r \in Ranks |-> 0] /\ busy = [r \in Ranks |-> FALSE]
      /\ epoch = [r \in Ranks |-> 0] /\ received_header_queue = [r \in Ranks |-> <<>>]
      /\ failed = NoRank /\ disturbed = FALSE
      /\ network = [pair \in Ranks \X Ranks |-> <<>>]
      /\ communicators = [r \in Ranks |-> <<WorldComm(r)>>]
      /\ nextID = [r \in Ranks |-> 1] /\ handles = [r \in Ranks |-> <<MPI_COMM_WORLD>>]
      /\ files = [r \in Ranks |-> [k \in {} |-> 0]]
  BY DEF Init, UniverseInit, TransportInit, CommInit, CheckpointInit
<1>2. Shape
  BY <1>1, CallStart DEF CallInv, Steady
<1>3. 0 \in Ranks /\ DOMAIN calls = 1..Len(calls)
  BY <1>2, WorldFacts
<1>4. \A r \in Ranks : /\ handles[r] = <<0>> /\ communicators[r][1].pt2pt = 0 /\ DOMAIN files[r] = {}
                       /\ Len(handles[r]) = 1 /\ DOMAIN handles[r] = 1..1 /\ handles[r][1] = 0
  BY <1>1 DEF MPI_COMM_WORLD, WorldComm
<1>5. PICK K : K = Numbers
  OBVIOUS
<1>6. K = HandleContexts(0)
  BY <1>1, <1>3, <1>5 DEF Numbers, Drawing
<1>7. DOMAIN K = 1..1 /\ K[1] = 0 /\ Len(K) = 1
  <2>1. DOMAIN K = 1..1 /\ K[1] = 0
    BY <1>3, <1>4, <1>6 DEF HandleContexts, ContextOf, get_context_id_pt2pt, Communicator
  <2>2. K = <<0>>
    BY <1>6, <2>1 DEF HandleContexts
  <2> QED
    BY <2>1, <2>2
<1>8. ASSUME NEW r \in Ranks PROVE Lens(r) /\ HandlesAgree(r, K) /\ MessagesAgree(r, K)
  <2>1. Lens(r)
    BY <1>1, <1>4, HeldZero DEF Lens
  <2>2. HandlesAgree(r, K)
    BY <1>1, <1>4, <1>7 DEF HandlesAgree, FilesAlike, Alike
  <2>3. ASSUME NEW j, NEW x PROVE Comes(r, j, x)
    <3>1. DOMAIN Received(r) = {} /\ DOMAIN OnTheWay(0, r) = {}
      BY <1>1, <1>3 DEF Received, OnTheWay
    <3> QED
      BY <3>1 DEF Comes, QueueBrings, WireBrings
  <2>4. MessagesAgree(r, K)
    BY <1>1, <2>3 DEF MessagesAgree, Has, Coming
  <2> QED
    BY <2>1, <2>2, <2>4
<1>9. Ascending
  <2>1. failed # 0 /\ nextID[0] = 1 /\ DOMAIN nextID = Ranks
    BY <1>1, <1>3 DEF NoRank
  <2>2. Ascends(K, 1)
    BY <1>7 DEF Ascends
  <2> QED
    BY <1>5, <2>1, <2>2 DEF Ascending
<1>10. Behind
  <2>1. ASSUME NEW r \in Ranks PROVE Len(handles[r]) <= Len(K)
    <3>1. PICK a, b : a = Len(handles[r]) /\ b = Len(K)
      OBVIOUS
    <3>2. a = 1 /\ b = 1
      BY <1>4, <1>7, <3>1
    <3>3. a <= b
      BY <3>2
    <3> QED
      BY <3>1, <3>3
  <2> QED
    BY <1>5, <2>1 DEF Behind
<1> QED
  BY <1>5, <1>8, <1>9, <1>10 DEF DupState

LEMMA StutterDup ==
    ASSUME All, UNCHANGED vars
    PROVE  DupState'
<1>1. /\ Rigid /\ UNCHANGED <<count, busy, plan, memory, epoch, files, handles, communicators, nextID,
                              received_header_queue, network, headers, payloads, payload_buffer,
                              failed, is_errSet>>
  BY DEF vars, callVars, transportVars, poolVars, commVars, checkpointVars, faultVars, Rigid
<1>2. PICK K : K = Numbers
  OBVIOUS
<1>3. failed # 0 /\ \A r \in Ranks : MessagesAgree(r, K)
  BY <1>2, DupFacts
<1>4. ASSUME NEW r \in Ranks PROVE MessagesAgree(r, K)'
  <2>1. Passive(r)
    BY <1>1, PassiveSame DEF CountsSame, Stopped, Reads
  <2>2. StillComes(r, K)
    BY <1>1, MailKept DEF MailSame
  <2> QED
    BY <1>1, <1>3, <2>1, <2>2, MessagesAgreeKept
<1>5. Numbers' = Numbers
  BY <1>1, NumbersKept
<1> QED
  BY <1>1, <1>2, <1>3, <1>4, <1>5, DupGoesOn DEF Stopped

LEMMA DupProgress ==
    PoolInv /\ LeftInv /\ (WorldCalls => CallInv) /\ (WorldCalls => DataInv)
       /\ (AddressedCalls => TypeInv) /\ (WorldCalls /\ Unhurt => DupInv) /\ [Next]_vars
        => (WorldCalls /\ Unhurt => DupInv)'
<1> SUFFICES ASSUME PoolInv, LeftInv, WorldCalls => CallInv, WorldCalls => DataInv, AddressedCalls => TypeInv,
                    WorldCalls /\ Unhurt => DupInv, [Next]_vars, WorldCalls', Unhurt', ~disturbed'
             PROVE  DupState'
  BY DEF DupInv
<1>1. WorldCalls /\ DataInv /\ CallInv /\ UNCHANGED <<world_size, calls>>
  BY ProgramStays
<1>2. disturbed => disturbed'
  <2>1. ASSUME NEW r \in Ranks, User(r) PROVE disturbed' = disturbed
    BY <2>1 DEF User, Enter, MPI_Send, MPI_Recv, Return, setErr, Abort, faultVars
  <2>2. ASSUME NEW r \in Ranks, ProgressThread(r) PROVE disturbed' = disturbed
    BY <2>2 DEF ProgressThread, post_header, match_abandoned, handle_request, faultVars
  <2>3. Recover => (disturbed => disturbed')
    BY DEF Recover
  <2>4. ASSUME NEW r \in Ranks, Fail(r) PROVE disturbed' = disturbed
    BY <2>4 DEF Fail
  <2> QED
    BY <2>1, <2>2, <2>3, <2>4 DEF Next, Work, Failure, vars, faultVars
<1>3. ~disturbed /\ Unhurt
  BY <1>1, <1>2 DEF Unhurt
<1>4. Steady /\ DupState
  BY <1>1, <1>3 DEF CallInv, DupInv
<1>5. AddressedCalls
  BY <1>1, <1>4, WorldAddressed DEF Steady
<1>6. All
  BY <1>1, <1>3, <1>4, <1>5 DEF All
<1>7. ASSUME NEW r \in Ranks, User(r) PROVE DupState'
  BY <1>1, <1>6, <1>7, EnterDup, SendDup, RecvDup, ReturnDup, SetErrDup, AbortDup DEF User
<1>8. ASSUME NEW r \in Ranks, ProgressThread(r) PROVE DupState'
  <2>1. ~handle_request(r)
    <3>1. CASE is_errSet[r]
      BY <3>1 DEF handle_request
    <3>2. CASE ~is_errSet[r]
      BY <1>3, <3>2, LeftFacts
    <3> QED
      BY <3>1, <3>2
  <2> QED
    BY <1>1, <1>6, <1>8, <2>1, PostDup, AbandonedDup DEF ProgressThread
<1>9. Recover => DupState'
  BY <1>1, <1>6, RecoverDup
<1>10. ASSUME NEW r \in Ranks, Fail(r) PROVE DupState'
  BY <1>1, <1>6, <1>10, FailDup
<1>11. CASE UNCHANGED vars
  BY <1>6, <1>11, StutterDup
<1> QED
  BY <1>7, <1>8, <1>9, <1>10, <1>11 DEF Next, Work, Failure

\* In every program of calls on the world in which rank 0 does not fail, and through every
\* recovery of another rank that is not disturbed, MPI_Comm_dup returns communicators with
\* contexts of their own, and the i-th communicator that the application holds has the
\* same context on all ranks, one that has yet to return from its duplication, or one that
\* took its handles from a file, included. The counter of rank 0, from which
\* get_next_context draws, is lost with its process: this is why rank 0 is excepted.
THEOREM WorldDupReturnsNew ==
    Spec => [](WorldCalls /\ 0 \notin MayFail(calls) => DupReturnsNew)
<1>1. Spec => []PoolInv /\ []LeftInv /\ [](WorldCalls => CallInv)
  BY CallInvariant
<1>2. Spec => [](AddressedCalls => TypeInv)
  BY PoolInit, PoolStep, TypeInit, TypeStep, PTL DEF Spec
<1>3. Init => (WorldCalls => DataInv)
  BY DataStart
<1>4. Spec => [](WorldCalls => DataInv)
  BY <1>3, DataStep, CallInvariant, PTL DEF Spec
<1>5. Init => (WorldCalls /\ Unhurt => DupInv)
  BY DupStart DEF DupInv
<1>6. Spec => [](WorldCalls /\ Unhurt => DupInv)
  BY <1>1, <1>2, <1>4, <1>5, DupProgress, PTL DEF Spec
<1>7. ASSUME PoolInv, WorldCalls => CallInv, WorldCalls => DataInv, AddressedCalls => TypeInv,
             WorldCalls /\ Unhurt => DupInv, WorldCalls, 0 \notin MayFail(calls)
      PROVE  DupReturnsNew
  <2> SUFFICES ASSUME ~disturbed, failed = NoRank, NEW K, K = Numbers
               PROVE  /\ \A r \in Ranks : \A i, j \in DOMAIN handles[r] :
                            ContextOf(r, i) = ContextOf(r, j) => i = j
                      /\ \A r, s \in Ranks : \A i \in (DOMAIN handles[r]) \cap (DOMAIN handles[s]) :
                            ContextOf(r, i) = ContextOf(s, i)
    BY DEF DupReturnsNew
  <2>1. Steady /\ DupState /\ DataInv
    BY <1>7 DEF CallInv, DupInv, Unhurt
  <2>2. TypeInv
    BY <1>7, <2>1, WorldAddressed DEF Steady
  <2>3. All
    BY <1>7, <2>1, <2>2 DEF All, Unhurt
  <2>4. 0 \in Ranks /\ ~Stopped(0)
    BY <2>1, <2>3, DupFacts DEF Stopped, Steady, FaultInv, NoRank
  <2>5. ASSUME NEW r \in Ranks, NEW i \in DOMAIN handles[r]
        PROVE  i \in 1..Len(K) /\ ContextOf(r, i) = K[i]
    <3>1. /\ DOMAIN handles[r] = 1..Len(handles[r]) /\ Len(handles[r]) \in Nat
          /\ HandlesAgree(r, K)
      BY <2>3, HandleFacts, DupFacts
    <3>2. Len(handles[r]) <= Len(K)
      BY <2>1, <2>4 DEF DupState, Behind
    <3>3. PICK n : n = Len(handles[0])
      OBVIOUS
    <3>4. Len(K) \in Nat
      BY <2>3, <3>3, NumberFacts
    <3>5. i \in 1..Len(handles[r]) /\ i <= Len(K)
      BY <2>5, <3>1, <3>2, <3>4
    <3>6. communicators[r][handles[r][i] + 1].pt2pt = K[i]
      BY <3>1, <3>5 DEF HandlesAgree, Alike
    <3> QED
      BY <3>1, <3>4, <3>5, <3>6 DEF ContextOf, get_context_id_pt2pt, Communicator
  <2>6. \A i, j \in 1..Len(K) : K[i] = K[j] => i = j
    <3>1. Ascends(K, nextID[0])
      BY <2>1 DEF DupState, Ascending
    <3>2. PICK n : n = Len(handles[0])
      OBVIOUS
    <3>3. Len(K) \in Nat
      BY <2>3, <3>2, NumberFacts
    <3>4. \A i, j \in 1..Len(K) : K[i] \in Nat /\ (i < j => K[i] < K[j])
      BY <3>1 DEF Ascends
    <3> QED
      BY <3>3, <3>4
  <2> QED
    BY <2>5, <2>6
<1> QED
  BY <1>1, <1>2, <1>4, <1>6, <1>7, PTL DEF Unhurt
================================================================================
