----------------------------- MODULE RecoveryProofs -----------------------------
(***************************************************************************)
(* Theorems about the runtime, for every number of ranks and nodes and of  *)
(* checkpoints. The first hold for every layout and any number of          *)
(* failures, overlapping ones included; those about one recovery, with one *)
(* rank on each node, say that all processes are told the same epoch; the  *)
(* last, about the files that one failure leaves, is for every layout.     *)
(***************************************************************************)
EXTENDS Recovery, FiniteSetTheorems, TLAPS

(***************************************************************************)
(* Connections.                                                            *)
(***************************************************************************)
\* Sending a packet keeps a family of connections well typed.
LEMMA PushType ==
    ASSUME NEW S, NEW P, NEW chan \in [S -> Seq(P)], NEW i \in S, NEW packet \in P
    PROVE  Push(chan, i, packet) \in [S -> Seq(P)]
BY DEF Push

\* Sending a packet on several connections does too.
LEMMA PushAllType ==
    ASSUME NEW S, NEW P, NEW chan \in [S -> Seq(P)], NEW T, NEW packet \in P
    PROVE  PushAll(chan, T, packet) \in [S -> Seq(P)]
BY DEF PushAll

\* So does receiving a packet.
LEMMA PopType ==
    ASSUME NEW S, NEW P, NEW chan \in [S -> Seq(P)], NEW i \in S, chan[i] # <<>>
    PROVE  /\ Pop(chan, i) \in [S -> Seq(P)]
           /\ Head(chan[i]) \in P
BY DEF Pop

\* The counters of the head daemons stay natural numbers.
LEMMA CounterType ==
    ASSUME NEW counter \in [Nodes -> Nat], NEW n \in Nodes
    PROVE  Bump(counter, n) \in [Nodes -> Nat] /\ Reset(counter, n) \in [Nodes -> Nat]
BY DEF Bump, Reset

--------------------------------------------------------------------------------
(***************************************************************************)
(* Type correctness: one lemma per component.                              *)
(***************************************************************************)
LEMMA InitType == Init => TypeOK
BY DEF Init, TypeOK, NetInit, NetTypeOK, RankInit, RankTypeOK, FaultDaemonInit, None,
       FaultDaemonTypeOK, HeadInit, HeadTypeOK, ControllerInit, ControllerTypeOK,
       Locations, ErrorCodes, Success

\* The steps of an application process.
LEMMA RankType ==
    ASSUME NetTypeOK, RankTypeOK, NEW r \in Ranks,
           RankStep(r) \/ setErr(r) \/ Fail(r)
    PROVE  NetTypeOK' /\ RankTypeOK'
<1>. USE DEF NetTypeOK, RankTypeOK, rankNet, fdNet, headNet, osVars, rankVars, At, Goto,
             Locations, InBarrier, InCheckpoint, Exit, ErrorCodes, Success, TryReload, OtherExit
<1>0. [type |-> "cleanup", epoch |-> epoch[r]] \in FromRank /\ BarrierPacket(r) \in FromRank
  BY DEF FromRank, BarrierPacket
<1>1. CASE MPI_Init(r)
  BY <1>0, <1>1, PushType DEF MPI_Init
<1>2. CASE checkpoint_read_throws(r)
  BY <1>2 DEF checkpoint_read_throws
<1>3. CASE recv_barrier_release(r)
  BY <1>3, PopType DEF recv_barrier_release, EpochAfterBarrier, None
<1>4. CASE MPI_Comm_set_errhandler(r)
  BY <1>4 DEF MPI_Comm_set_errhandler
<1>5. CASE checkpoint_write_open(r) \/ checkpoint_write_file(r)
  <2>1. checkpoints' \in [Ranks -> SUBSET Nat] /\ torn' \in [Ranks -> SUBSET Nat]
    <3>. WrittenCheckpoint(r) \in Nat
      BY DEF WrittenCheckpoint
    <3>1. CASE checkpoint_write_open(r)
      BY <3>1 DEF checkpoint_write_open
    <3>2. CASE checkpoint_write_file(r)
      BY <3>2 DEF checkpoint_write_file
    <3>. QED  BY <1>5, <3>1, <3>2
  <2>. QED  BY <1>5, <2>1 DEF checkpoint_write_open, checkpoint_write_file
<1>6. CASE checkpoint_write_check(r)
  BY <1>6 DEF checkpoint_write_check
<1>7. CASE checkpoint_write_epoch(r) \/ checkpoint_write_close(r)
  <2>1. epoch' \in [Ranks -> Nat] /\ epoch_file' \in [Ranks -> Nat \cup {None}]
    <3>. epoch[r] \in Nat /\ epoch[r] + 1 \in Nat
      OBVIOUS
    <3>1. CASE checkpoint_write_epoch(r)
      BY <3>1 DEF checkpoint_write_epoch
    <3>2. CASE checkpoint_write_close(r)
      BY <3>2 DEF checkpoint_write_close
    <3>. QED  BY <1>7, <3>1, <3>2
  <2>. QED  BY <1>7, <2>1 DEF checkpoint_write_epoch, checkpoint_write_close
<1>8. CASE MPIX_Checkpoint_read(r)
  BY <1>8 DEF MPIX_Checkpoint_read
<1>9. CASE wait_commit(r)
  <2>1. /\ Pop(rank_in, r) \in [Ranks -> Seq(ToRank)]
        /\ Head(rank_in[r]) \in ToRank
    BY <1>9, PopType DEF wait_commit
  <2>2. Head(rank_in[r]).type = "commit" => CommittedEpoch(r) \in Nat
    BY <2>1 DEF ToRank, CommittedEpoch
  <2>3. Push(rank_out, r, BarrierPacket(r)) \in [Ranks -> Seq(FromRank)]
    BY <1>0, PushType
  <2>. QED  BY <1>9, <2>1, <2>2, <2>3 DEF wait_commit
<1>10. CASE MPI_Finalize(r)
  BY <1>10 DEF MPI_Finalize
<1>11. CASE setErr(r)
  <2>1. CASE handler[r]
    <3>1. Push(rank_out, r, [type |-> "cleanup", epoch |-> epoch[r]])
              \in [Ranks -> Seq(FromRank)]
      BY <1>0, PushType
    <3>. QED  BY <1>11, <2>1, <3>1 DEF setErr
  <2>2. CASE ~handler[r]
    BY <1>11, <2>2 DEF setErr
  <2>. QED  BY <2>1, <2>2
<1>12. CASE Fail(r)
  BY <1>12 DEF Fail
<1>. QED
  BY <1>1, <1>2, <1>3, <1>4, <1>5, <1>6, <1>7, <1>8, <1>9, <1>10, <1>11, <1>12 DEF RankStep

\* The steps of a fault daemon.
LEMMA FaultDaemonType ==
    ASSUME NetTypeOK, RankTypeOK, FaultDaemonTypeOK, NEW r \in Ranks, FaultDaemonStep(r)
    PROVE  NetTypeOK' /\ RankTypeOK' /\ FaultDaemonTypeOK'
<1>. USE DEF NetTypeOK, RankTypeOK, FaultDaemonTypeOK, rankNet, fdNet, headNet, osVars,
             rankVars
<1>1. CASE inform_head(r)
  <2>1. [type |-> "termination", code |-> exit_code[r], epoch |-> ReadEpochFile(r)]
            \in FromFaultDaemon
    BY DEF FromFaultDaemon, ReadEpochFile, None
  <2>. QED  BY <1>1, <2>1, PushType DEF inform_head
<1>2. CASE restart(r)
  <2>1. /\ Pop(fd_in, r) \in [Ranks -> Seq(ToFaultDaemon)]
        /\ Head(fd_in[r]) \in ToFaultDaemon
    BY <1>2, PopType DEF restart, Receives
  <2>2. Head(fd_in[r]).epoch \in Nat
    BY <1>2, <2>1 DEF restart, Receives, ToFaultDaemon
  <2>3. <<>> \in Seq(ToRank) /\ "launched" \in Locations
    BY DEF Locations
  <2>7. [rank_in EXCEPT ![r] = <<>>] \in [Ranks -> Seq(ToRank)]
    BY <2>3
  <2>4. NetTypeOK'
    BY <1>2, <2>1, <2>7 DEF restart, Launch
  <2>5. RankTypeOK'
    BY <1>2, <2>2, <2>3 DEF restart, Launch, Goto
  <2>6. FaultDaemonTypeOK'
    BY <1>2, <2>2 DEF restart
  <2>. QED  BY <2>4, <2>5, <2>6
<1>3. CASE shutdown_ack(r)
  <2>1. Pop(fd_in, r) \in [Ranks -> Seq(ToFaultDaemon)]
    BY <1>3, PopType DEF shutdown_ack, Receives
  <2>2. [type |-> "shutdown_ack"] \in FromFaultDaemon
    BY DEF FromFaultDaemon
  <2>. QED  BY <1>3, <2>1, <2>2, PushType DEF shutdown_ack
<1>. QED
  BY <1>1, <1>2, <1>3 DEF FaultDaemonStep

\* The steps of a head daemon that serve a rank or its fault daemon.
LEMMA HeadRankType ==
    ASSUME NetTypeOK, HeadTypeOK, LayoutAssumption, NEW r \in Ranks,
           \/ process_barrier(r) \/ process_cleanup(r)
           \/ process_termination(r) \/ process_shutdown_ack(r)
    PROVE  NetTypeOK' /\ HeadTypeOK'
<1>. USE DEF rankNet, fdNet, headNet, osVars
<1>. DEFINE n == NodeOf[r]
<1>0. n \in Nodes
  BY DEF LayoutAssumption
<1>n. /\ rank_out \in [Ranks -> Seq(FromRank)]
      /\ fd_out \in [Ranks -> Seq(FromFaultDaemon)]
      /\ head_out \in [Nodes -> Seq(FromHead)]
  BY DEF NetTypeOK
<1>1. CASE process_barrier(r)
  <2>1. rank_out' \in [Ranks -> Seq(FromRank)] /\ Head(rank_out[r]) \in FromRank
    BY <1>n, <1>1, PopType DEF process_barrier, Receives
  <2>2. Head(rank_out[r]).pid \in Nat
    BY <1>1, <2>1 DEF process_barrier, Receives, FromRank
  <2>3. Push(head_out, n, [type |-> "node_barrier"]) \in [Nodes -> Seq(FromHead)]
    BY <1>n, <1>0, PushType DEF FromHead
  <2>4. head_out' \in [Nodes -> Seq(FromHead)]
    BY <1>n, <1>1, <2>3 DEF process_barrier, SendToController
  <2>5. HeadTypeOK'
    BY <1>0, <1>1, <2>2, CounterType DEF process_barrier, HeadTypeOK
  <2>6. NetTypeOK'
    BY <1>1, <2>1, <2>4 DEF process_barrier, NetTypeOK
  <2>. QED  BY <2>5, <2>6
<1>2. CASE process_cleanup(r)
  <2>. DEFINE lowest == Minimum(node_minimum_epoch[n], Head(rank_out[r]).epoch)
  <2>1. rank_out' \in [Ranks -> Seq(FromRank)] /\ Head(rank_out[r]) \in FromRank
    BY <1>n, <1>2, PopType DEF process_cleanup, Receives
  <2>2. Head(rank_out[r]).epoch \in Nat
    BY <1>2, <2>1 DEF process_cleanup, Receives, FromRank
  <2>3. lowest \in Nat
    BY <1>0, <2>2 DEF Minimum, HeadTypeOK
  <2>4. Push(head_out, n, [type |-> "node_epoch", epoch |-> lowest]) \in [Nodes -> Seq(FromHead)]
    <3>1. [type |-> "node_epoch", epoch |-> lowest] \in FromHead
      BY <2>3 DEF FromHead
    <3>. QED  BY <1>n, <1>0, <3>1, PushType
  <2>5. head_out' \in [Nodes -> Seq(FromHead)]
    BY <1>n, <1>2, <2>4 DEF process_cleanup, SendToController
  <2>8. Bump(cleanups, n) \in [Nodes -> Nat] /\ Reset(cleanups, n) \in [Nodes -> Nat]
    BY <1>0, CounterType DEF HeadTypeOK
  <2>6. HeadTypeOK'
    BY <1>0, <1>2, <2>3, <2>8 DEF process_cleanup, HeadTypeOK, Raises
  <2>7. NetTypeOK'
    BY <1>2, <2>1, <2>5 DEF process_cleanup, NetTypeOK
  <2>. QED  BY <2>6, <2>7
<1>3. CASE process_termination(r)
  <2>. DEFINE exit == [type |-> "process_exit", code |-> Head(fd_out[r]).code,
                       epoch |-> Head(fd_out[r]).epoch]
  <2>1. fd_out' \in [Ranks -> Seq(FromFaultDaemon)] /\ Head(fd_out[r]) \in FromFaultDaemon
    BY <1>n, <1>3, PopType DEF process_termination, Receives
  <2>2. Head(fd_out[r]).code \in ErrorCodes /\ Head(fd_out[r]).epoch \in Nat
    BY <1>3, <2>1 DEF process_termination, Receives, FromFaultDaemon
  <2>3. exit \in FromHead /\ [type |-> "node_success"] \in FromHead
    BY <2>2 DEF FromHead
  <2>4. /\ Push(head_out, n, exit) \in [Nodes -> Seq(FromHead)]
        /\ Push(head_out, n, [type |-> "node_success"]) \in [Nodes -> Seq(FromHead)]
    BY <1>n, <1>0, <2>3, PushType
  <2>5. head_out' \in [Nodes -> Seq(FromHead)]
    BY <1>n, <1>3, <2>4 DEF process_termination, SendToController
  <2>8. /\ Bump(success_counter, n) \in [Nodes -> Nat]
        /\ Reset(success_counter, n) \in [Nodes -> Nat]
    BY <1>0, CounterType DEF HeadTypeOK
  <2>6. HeadTypeOK'
    BY <1>0, <1>3, <2>8 DEF process_termination, HeadTypeOK, Raises
  <2>7. NetTypeOK'
    BY <1>3, <2>1, <2>5 DEF process_termination, NetTypeOK
  <2>. QED  BY <2>6, <2>7
<1>4. CASE process_shutdown_ack(r)
  <2>1. fd_out' \in [Ranks -> Seq(FromFaultDaemon)]
    BY <1>n, <1>4, PopType DEF process_shutdown_ack, Receives
  <2>2. Push(head_out, n, [type |-> "node_shutdown"]) \in [Nodes -> Seq(FromHead)]
    BY <1>n, <1>0, PushType DEF FromHead
  <2>3. head_out' \in [Nodes -> Seq(FromHead)]
    BY <1>n, <1>4, <2>2 DEF process_shutdown_ack, SendToController
  <2>6. Bump(disconnected, n) \in [Nodes -> Nat] /\ Reset(disconnected, n) \in [Nodes -> Nat]
    BY <1>0, CounterType DEF HeadTypeOK
  <2>4. HeadTypeOK'
    BY <1>0, <1>4, <2>6 DEF process_shutdown_ack, HeadTypeOK
  <2>5. NetTypeOK'
    BY <1>4, <2>1, <2>3 DEF process_shutdown_ack, NetTypeOK
  <2>. QED  BY <2>4, <2>5
<1>. QED
  BY <1>1, <1>2, <1>3, <1>4

\* The steps of a head daemon that carry out a decision of the controller.
LEMMA HeadDecisionType ==
    ASSUME NetTypeOK, HeadTypeOK, NEW n \in Nodes,
           process_release(n) \/ process_error(n) \/ process_commit(n) \/ process_shutdown(n)
    PROVE  NetTypeOK' /\ HeadTypeOK'
<1>. USE DEF rankNet, fdNet, headNet, osVars, headVars
<1>n. /\ rank_in \in [Ranks -> Seq(ToRank)]
      /\ fd_in \in [Ranks -> Seq(ToFaultDaemon)]
      /\ head_out \in [Nodes -> Seq(FromHead)]
      /\ head_in \in [Nodes -> Seq(ToHead)]
      /\ pending \in [Ranks -> BOOLEAN]
  BY DEF NetTypeOK
<1>0. /\ head_in' \in [Nodes -> Seq(ToHead)]
      /\ Head(head_in[n]) \in ToHead
  BY <1>n, PopType DEF process_release, process_error, process_commit, process_shutdown, Receives
<1>1. CASE process_release(n)
  <2>1. [type |-> "release"] \in ToRank
    BY DEF ToRank
  <2>2. rank_in' \in [Ranks -> Seq(ToRank)]
    BY <1>n, <1>1, <2>1, PushAllType DEF process_release, SendToRanks
  <2>3. NetTypeOK'
    BY <1>0, <1>1, <2>2 DEF process_release, NetTypeOK
  <2>4. HeadTypeOK'
    BY <1>1 DEF process_release, HeadTypeOK, Raises
  <2>. QED  BY <2>3, <2>4
<1>2. CASE process_error(n)
  <2>1. Head(head_in[n]).epoch \in Nat
    BY <1>0, <1>2 DEF process_error, Receives, ToHead
  <2>2. [type |-> "node_epoch", epoch |-> Head(head_in[n]).epoch] \in FromHead
    BY <2>1 DEF FromHead
  <2>3. head_out' \in [Nodes -> Seq(FromHead)]
    <3>1. Push(head_out, n, [type |-> "node_epoch", epoch |-> Head(head_in[n]).epoch])
              \in [Nodes -> Seq(FromHead)]
      BY <1>n, <2>2, PushType
    <3>. QED  BY <1>n, <1>2, <3>1 DEF process_error, SendToController
  <2>4. pending' \in [Ranks -> BOOLEAN]
    <3>1. CASE AllDead(n)
      BY <1>n, <1>2, <3>1 DEF process_error
    <3>2. CASE ~AllDead(n)
      <4>1. pending' = [r \in Ranks |-> pending[r] \/ (r \in ranks(n) /\ Connected(r))]
        BY <1>2, <3>2 DEF process_error
      <4>. QED  BY <4>1, Zenon
    <3>. QED  BY <3>1, <3>2
  <2>5. NetTypeOK'
    BY <1>0, <1>2, <2>3, <2>4 DEF process_error, NetTypeOK
  <2>6. HeadTypeOK'
    BY <1>2 DEF process_error, HeadTypeOK, Raises
  <2>. QED  BY <2>5, <2>6
<1>3. CASE process_commit(n)
  <2>. DEFINE commit == [type |-> "commit", epoch |-> Head(head_in[n]).epoch]
              again == [type |-> "restart", epoch |-> Head(head_in[n]).epoch]
  <2>1. Head(head_in[n]).epoch \in Nat
    BY <1>0, <1>3 DEF process_commit, Receives, ToHead
  <2>2. commit \in ToRank /\ again \in ToFaultDaemon
    BY <2>1 DEF ToRank, ToFaultDaemon
  <2>3. rank_in' \in [Ranks -> Seq(ToRank)]
    BY <1>n, <1>3, <2>2, PushAllType DEF process_commit, SendToRanks
  <2>4. fd_in' \in [Ranks -> Seq(ToFaultDaemon)]
    <3>1. PushAll(fd_in, ActiveFaultDaemons(n), again) \in [Ranks -> Seq(ToFaultDaemon)]
      BY <1>n, <2>2, PushAllType
    <3>. QED  BY <1>n, <1>3, <3>1 DEF process_commit
  <2>5. NetTypeOK'
    BY <1>0, <1>3, <2>3, <2>4 DEF process_commit, NetTypeOK
  <2>6. HeadTypeOK'
    BY <1>3 DEF process_commit, HeadTypeOK, Raises
  <2>. QED  BY <2>5, <2>6
<1>4. CASE process_shutdown(n)
  <2>1. [type |-> "shutdown"] \in ToFaultDaemon
    BY DEF ToFaultDaemon
  <2>2. fd_in' \in [Ranks -> Seq(ToFaultDaemon)]
    BY <1>n, <1>4, <2>1, PushAllType DEF process_shutdown
  <2>3. NetTypeOK'
    BY <1>0, <1>4, <2>2 DEF process_shutdown, NetTypeOK
  <2>4. HeadTypeOK'
    BY <1>4 DEF process_shutdown, HeadTypeOK
  <2>. QED  BY <2>3, <2>4
<1>. QED
  BY <1>1, <1>2, <1>3, <1>4

\* The steps of the controller.
LEMMA ControllerType ==
    ASSUME NetTypeOK, ControllerTypeOK, LayoutAssumption, ControllerStep
    PROVE  NetTypeOK' /\ ControllerTypeOK'
<1>. USE DEF rankNet, fdNet, osVars
<1>. PICK n \in Nodes : \/ node_barrier(n) \/ node_success(n) \/ node_shutdown(n)
                        \/ process_exit(n) \/ node_epoch(n)
  BY DEF ControllerStep
<1>n. /\ head_out \in [Nodes -> Seq(FromHead)]
      /\ head_in \in [Nodes -> Seq(ToHead)]
  BY DEF NetTypeOK
<1>0. /\ head_out' \in [Nodes -> Seq(FromHead)]
      /\ Head(head_out[n]) \in FromHead
  <2>1. head_out[n] # <<>> /\ head_out' = Pop(head_out, n)
    BY DEF node_barrier, node_success, node_shutdown, process_exit, node_epoch, Takes, Receives
  <2>. QED  BY <1>n, <2>1, PopType
<1>t. UNCHANGED <<rank_out, rank_in, fd_out, fd_in, pid, proc, exit_code, pending>>
  BY DEF node_barrier, node_success, node_shutdown, process_exit, node_epoch, Takes
<1>s. ASSUME NEW packet \in ToHead, NEW S
      PROVE  PushAll(head_in, S, packet) \in [Nodes -> Seq(ToHead)]
  BY <1>n, PushAllType
<1>h. head_in' \in [Nodes -> Seq(ToHead)] => NetTypeOK'
  BY <1>0, <1>t DEF NetTypeOK
<1>1. CASE node_barrier(n)
  <2>1. [type |-> "release"] \in ToHead
    BY DEF ToHead
  <2>2. head_in' \in [Nodes -> Seq(ToHead)]
    BY <1>n, <1>s, <1>1, <2>1 DEF node_barrier, SendToHeadDaemons
  <2>3. ControllerTypeOK'
    BY <1>1 DEF node_barrier, ControllerTypeOK
  <2>. QED  BY <1>h, <2>2, <2>3
<1>2. CASE node_success(n)
  <2>1. [type |-> "shutdown"] \in ToHead
    BY DEF ToHead
  <2>2. head_in' \in [Nodes -> Seq(ToHead)]
    BY <1>n, <1>s, <1>2, <2>1 DEF node_success, SendToHeadDaemons
  <2>3. ControllerTypeOK'
    BY <1>2 DEF node_success, ControllerTypeOK
  <2>. QED  BY <1>h, <2>2, <2>3
<1>3. CASE node_shutdown(n)
  <2>1. ControllerTypeOK'
    BY <1>3 DEF node_shutdown, ControllerTypeOK
  <2>2. head_in' = head_in
    BY <1>3 DEF node_shutdown
  <2>. QED  BY <1>h, <1>n, <2>1, <2>2
<1>4. CASE process_exit(n)
  <2>1. Receives(head_out, n, "process_exit")
    BY <1>4 DEF process_exit, Takes
  <2>2. Head(head_out[n]).epoch \in Nat
    BY <1>0, <2>1 DEF Receives, FromHead
  <2>3. [type |-> "error", epoch |-> Head(head_out[n]).epoch] \in ToHead
    BY <2>2 DEF ToHead
  <2>4. head_in' \in [Nodes -> Seq(ToHead)]
    BY <1>n, <1>s, <1>4, <2>3 DEF process_exit, SendToHeadDaemons
  <2>5. ControllerTypeOK'
    BY <1>4 DEF process_exit, ControllerTypeOK
  <2>. QED  BY <1>h, <2>4, <2>5
<1>5. CASE node_epoch(n)
  <2>. DEFINE lowest == GlobalMinimum(Head(head_out[n]).epoch)
  <2>1. Receives(head_out, n, "node_epoch")
    BY <1>5 DEF node_epoch, Takes
  <2>2. Head(head_out[n]).epoch \in Nat
    BY <1>0, <2>1 DEF Receives, FromHead
  <2>3. lowest \in Nat
    BY <2>2 DEF GlobalMinimum, ControllerTypeOK
  <2>4. [type |-> "commit", epoch |-> lowest] \in ToHead
    BY <2>3 DEF ToHead
  <2>5. head_in' \in [Nodes -> Seq(ToHead)]
    BY <1>n, <1>s, <1>5, <2>4 DEF node_epoch, SendToHeadDaemons
  <2>6. ControllerTypeOK'
    BY <1>5, <2>3 DEF node_epoch, ControllerTypeOK
  <2>. QED  BY <1>h, <2>5, <2>6
<1>. QED
  BY <1>1, <1>2, <1>3, <1>4, <1>5

--------------------------------------------------------------------------------
(***************************************************************************)
(* The theorems.                                                           *)
(***************************************************************************)
\* A step of the job is a step of one of its processes or leaves everything unchanged.
LEMMA StepType == TypeOK /\ [Next]_vars => TypeOK'
<1>. SUFFICES ASSUME TypeOK, [Next]_vars
              PROVE  TypeOK'
  OBVIOUS
<1>. USE DEF TypeOK
<1>f. UNCHANGED faultDaemonVars => FaultDaemonTypeOK'
  BY DEF faultDaemonVars, FaultDaemonTypeOK
<1>k. UNCHANGED rankVars => RankTypeOK'
  BY DEF rankVars, RankTypeOK
<1>h. UNCHANGED headVars => HeadTypeOK'
  BY DEF headVars, HeadTypeOK
<1>c. UNCHANGED controllerVars => ControllerTypeOK'
  BY DEF controllerVars, ControllerTypeOK
<1>1. ASSUME NEW r \in Ranks, Rank(r) \/ Signal(r) \/ Failure(r)
      PROVE  TypeOK'
  BY <1>1, <1>f, <1>h, <1>c, RankType DEF Rank, Signal, Failure
<1>2. ASSUME NEW r \in Ranks, Monitor(r)
      PROVE  TypeOK'
  BY <1>2, <1>h, <1>c, FaultDaemonType DEF Monitor
<1>3. ASSUME NEW n \in Nodes, NodeHead(n)
      PROVE  TypeOK'
  <2>1. HeadStep(n) => NetTypeOK' /\ HeadTypeOK'
    BY LayoutAssumption, HeadRankType, HeadDecisionType DEF HeadStep, LocalRanks
  <2>. QED  BY <1>3, <1>f, <1>k, <1>c, <2>1 DEF NodeHead
<1>4. CASE Controller
  BY <1>4, <1>f, <1>k, <1>h, ControllerType, LayoutAssumption DEF Controller
<1>5. CASE UNCHANGED vars
  <2>1. UNCHANGED <<netVars, osVars>> => NetTypeOK'
    BY DEF netVars, rankNet, fdNet, headNet, osVars, NetTypeOK
  <2>. QED  BY <1>5, <1>f, <1>k, <1>h, <1>c, <2>1 DEF vars
<1>. QED
  BY <1>1, <1>2, <1>3, <1>4, <1>5 DEF Next, Finished

\* Every packet, table entry and counter of the runtime stays in its type, whatever
\* fails: in particular no daemon ever sends None for an epoch.
THEOREM TypeCorrect == Spec => []TypeOK
<1>1. Init => TypeOK
  BY InitType
<1>2. TypeOK /\ [Next]_vars => TypeOK'
  BY StepType
<1>. QED
  BY <1>1, <1>2, PTL DEF Spec

--------------------------------------------------------------------------------
(***************************************************************************)
(* One process per rank: a fault daemon that waits for a decision has      *)
(* waited for its process.                                                 *)
(***************************************************************************)
DecisionAfterWait == \A r \in Ranks : fault_daemon[r] = "recv" => proc[r] = "reaped"

LEMMA StepDecision == TypeOK /\ DecisionAfterWait /\ [Next]_vars => DecisionAfterWait'
<1>. SUFFICES ASSUME TypeOK, DecisionAfterWait, [Next]_vars
              PROVE  DecisionAfterWait'
  OBVIOUS
<1>s. UNCHANGED <<proc, fault_daemon>> => DecisionAfterWait'
  BY DEF DecisionAfterWait
<1>1. ASSUME NEW r \in Ranks, Rank(r) \/ Signal(r) \/ Failure(r)
      PROVE  DecisionAfterWait'
  <2>1. UNCHANGED fault_daemon
    BY <1>1 DEF Rank, Signal, Failure, faultDaemonVars
  <2>2. \/ UNCHANGED proc
        \/ proc[r] = "alive" /\ proc' = [proc EXCEPT ![r] = "zombie"]
    BY <1>1 DEF Rank, Signal, Failure, RankStep, MPI_Init, checkpoint_read_throws, At, Exit,
                recv_barrier_release, MPI_Comm_set_errhandler, checkpoint_write_open,
                checkpoint_write_file, checkpoint_write_check, checkpoint_write_epoch,
                checkpoint_write_close, MPIX_Checkpoint_read,
                wait_commit, MPI_Finalize, setErr, Fail, osVars
  <2>3. proc \in [Ranks -> {"alive", "zombie", "reaped"}]
    BY DEF TypeOK, NetTypeOK
  <2>. QED  BY <2>1, <2>2, <2>3 DEF DecisionAfterWait
<1>2. ASSUME NEW r \in Ranks, Monitor(r)
      PROVE  DecisionAfterWait'
  <2>1. /\ proc \in [Ranks -> {"alive", "zombie", "reaped"}]
        /\ fault_daemon \in [Ranks -> {"app", "recv", "stopped"}]
    BY DEF TypeOK, NetTypeOK, FaultDaemonTypeOK
  <2>2. CASE inform_head(r)
    BY <2>1, <2>2 DEF inform_head, WaitReturns, DecisionAfterWait
  <2>3. CASE restart(r)
    BY <2>1, <2>3 DEF restart, Launch, DecisionAfterWait
  <2>4. CASE shutdown_ack(r)
    BY <2>1, <2>4 DEF shutdown_ack, DecisionAfterWait, osVars
  <2>. QED  BY <1>2, <2>2, <2>3, <2>4 DEF Monitor, FaultDaemonStep
<1>3. ASSUME NEW n \in Nodes, NodeHead(n)
      PROVE  DecisionAfterWait'
  <2>1. UNCHANGED <<proc, fault_daemon>>
    BY <1>3 DEF NodeHead, HeadStep, LocalRanks, process_barrier, process_cleanup,
                process_termination, process_shutdown_ack, process_release, process_error,
                process_commit, process_shutdown, osVars, faultDaemonVars
  <2>. QED  BY <1>s, <2>1
<1>4. CASE Controller
  <2>1. UNCHANGED <<proc, fault_daemon>>
    BY <1>4 DEF Controller, ControllerStep, node_barrier, node_success, node_shutdown,
                process_exit, node_epoch, Takes, osVars, faultDaemonVars
  <2>. QED  BY <1>s, <2>1
<1>5. CASE UNCHANGED vars
  BY <1>5, <1>s DEF vars, osVars, faultDaemonVars
<1>. QED
  BY <1>1, <1>2, <1>3, <1>4, <1>5 DEF Next, Finished

\* A new process is launched for a rank only by a "restart" decision, which is taken
\* only when the previous process has been waited for.
LEMMA LaunchAfterWait ==
    DecisionAfterWait /\ [Next]_vars
        => [\A r \in Ranks : pid'[r] # pid[r] => proc[r] = "reaped"]_vars
<1>. SUFFICES ASSUME DecisionAfterWait, Next, NEW q \in Ranks, pid'[q] # pid[q]
              PROVE  proc[q] = "reaped"
  OBVIOUS
<1>1. ASSUME NEW r \in Ranks, Rank(r) \/ Signal(r) \/ Failure(r)
      PROVE  UNCHANGED pid
  BY <1>1 DEF Rank, Signal, Failure, RankStep, MPI_Init, checkpoint_read_throws, Exit,
              recv_barrier_release, MPI_Comm_set_errhandler, checkpoint_write_open,
              checkpoint_write_file, checkpoint_write_check, checkpoint_write_epoch,
              checkpoint_write_close, MPIX_Checkpoint_read,
              wait_commit, MPI_Finalize, setErr, Fail, osVars
<1>2. ASSUME NEW n \in Nodes, NodeHead(n)
      PROVE  UNCHANGED pid
  BY <1>2 DEF NodeHead, HeadStep, LocalRanks, process_barrier, process_cleanup,
              process_termination, process_shutdown_ack, process_release, process_error,
              process_commit, process_shutdown, osVars
<1>3. ASSUME Controller
      PROVE  UNCHANGED pid
  BY <1>3 DEF Controller, ControllerStep, node_barrier, node_success, node_shutdown,
              process_exit, node_epoch, Takes, osVars
<1>4. Finished => UNCHANGED pid
  BY DEF Finished, vars, osVars
<1>5. PICK r \in Ranks : Monitor(r)
  BY <1>1, <1>2, <1>3, <1>4 DEF Next
<1>6. restart(r)
  BY <1>5 DEF Monitor, FaultDaemonStep, inform_head, shutdown_ack, osVars
<1>7. q = r
  BY <1>6 DEF restart, Launch
<1>. QED
  BY <1>6, <1>7 DEF restart, DecisionAfterWait

\* A rank never has two live processes, whatever stale decisions reach its fault daemon.
THEOREM OneProcess == Spec => OneProcessPerRank
<1>1. Init => DecisionAfterWait
  BY DEF Init, FaultDaemonInit, DecisionAfterWait
<1>2. TypeOK /\ DecisionAfterWait /\ [Next]_vars => DecisionAfterWait'
  BY StepDecision
<1>3. DecisionAfterWait /\ [Next]_vars
        => [\A r \in Ranks : pid'[r] # pid[r] => proc[r] = "reaped"]_vars
  BY LaunchAfterWait
<1>. QED
  BY <1>1, <1>2, <1>3, TypeCorrect, PTL DEF Spec, OneProcessPerRank

(***************************************************************************)
(* One recovery with one rank on each node: whenever the process fails and *)
(* however far the others are, there is one decision, every process that   *)
(* recovers is told the same epoch, which all have reached, and whoever is *)
(* to be restarted waits for that.                                         *)
(***************************************************************************)
OneRankPerNode == \A q, r \in Ranks : NodeOf[q] = NodeOf[r] => q = r

(***************************************************************************)
(* Packets of a kind on a connection.                                      *)
(***************************************************************************)
Has(s, S) == \E k \in 1..Len(s) : s[k] \in S
Once(s, S) == \A j, k \in 1..Len(s) : s[j] \in S /\ s[k] \in S => j = k
Epochs(chan, S) ==
    {p.epoch : p \in {q \in S : \E i \in DOMAIN chan : \E k \in 1..Len(chan[i]) : chan[i][k] = q}}

Terminations == [type : {"termination"}, code : {TryReload}, epoch : Nat]
Exits == [type : {"process_exit"}, code : {TryReload}, epoch : Nat]
Errors == [type : {"error"}, epoch : Nat]
Cleanups == [type : {"cleanup"}, epoch : Nat]
Reports == [type : {"node_epoch"}, epoch : Nat]
Commits == [type : {"commit"}, epoch : Nat]
RestartPackets == [type : {"restart"}, epoch : Nat]

(***************************************************************************)
(* The three stages of a recovery. A failure travels from the process over *)
(* its fault daemon and head daemon to the controller; a request to report *)
(* an epoch goes to each node and comes back as the report; a decision     *)
(* goes to the processes and into the barrier.                             *)
(***************************************************************************)
Died(r) == proc[r] = "zombie" /\ exit_code[r] = TryReload
FailsAt(r) ==
    Died(r) \/ Has(fd_out[r], Terminations) \/ Has(head_out[NodeOf[r]], Exits)
OneFailure(r) ==
    /\ Once(fd_out[r], Terminations) /\ Once(head_out[NodeOf[r]], Exits)
    /\ Died(r) => ~Has(fd_out[r], Terminations) /\ ~Has(head_out[NodeOf[r]], Exits)
    /\ Has(fd_out[r], Terminations) => ~Has(head_out[NodeOf[r]], Exits)

ReportsAt(r) ==
    \/ Has(head_in[NodeOf[r]], Errors) \/ pending[r]
    \/ Has(rank_out[r], Cleanups) \/ Has(head_out[NodeOf[r]], Reports)
OneReport(r) ==
    /\ Once(head_in[NodeOf[r]], Errors) /\ Once(rank_out[r], Cleanups)
    /\ Once(head_out[NodeOf[r]], Reports)
    /\ Has(head_in[NodeOf[r]], Errors) =>
          ~pending[r] /\ ~Has(rank_out[r], Cleanups) /\ ~Has(head_out[NodeOf[r]], Reports)
    /\ pending[r] => ~Has(rank_out[r], Cleanups) /\ ~Has(head_out[NodeOf[r]], Reports)
    /\ Has(rank_out[r], Cleanups) => ~Has(head_out[NodeOf[r]], Reports)
ReportingNodes == {n \in Nodes : \E r \in Ranks : NodeOf[r] = n /\ ReportsAt(r)}

Restored(r) ==
    /\ proc[r] = "alive"
    /\ pc[r] \in {"restore_barrier", "reload_barrier"} \/ (pc[r] = "launched" /\ epoch[r] > 0)
Decisions ==
    Epochs(head_in, Commits) \cup Epochs(rank_in, Commits) \cup Epochs(fd_in, RestartPackets)
        \cup {epoch[r] : r \in {q \in Ranks : Restored(q)}}

(***************************************************************************)
(* The invariant. At most one failure is on its way; before it arrives     *)
(* nobody reports and nothing is decided. Each node has at most one report *)
(* to make, and none once there is a decision.                             *)
(***************************************************************************)
NothingUnderWay == ReportingNodes = {} /\ node_epochs = 0 /\ Decisions = {}
FailureInv ==
    /\ \A r \in Ranks : OneFailure(r)
    /\ \A q, r \in Ranks : FailsAt(q) /\ FailsAt(r) => q = r
    /\ \A r \in Ranks : FailsAt(r) => faults > 0 /\ NothingUnderWay
    /\ faults = 0 => NothingUnderWay
ReportInv ==
    /\ \A r \in Ranks : OneReport(r)
    /\ node_epochs + Cardinality(ReportingNodes) <= NodeCount
DecisionInv ==
    /\ ReportingNodes # {} => Decisions = {}
    /\ \A d, e \in Decisions : d = e
AgreementInv == FailureInv /\ ReportInv /\ DecisionInv

\* All have reported: there will be no other decision.
Over == faults > 0 /\ ReportingNodes = {} /\ \A r \in Ranks : ~FailsAt(r)

\* What a step may do: only the first failure starts to report, only its arrival at the
\* controller asks for reports, only the last report decides.
Decides(n) == Controller /\ node_epoch(n)
Onward ==
    /\ Over => Over'
    /\ faults = 0 \/ (\A r \in Ranks : FailsAt(r)' => FailsAt(r))
    /\ NothingUnderWay \/ ReportingNodes' \subseteq ReportingNodes
    /\ Decisions' \subseteq Decisions \/ \E n \in Nodes : Decides(n)
--------------------------------------------------------------------------------
(***************************************************************************)
(* Packets of a kind on one connection, when a packet is taken off it or   *)
(* sent on it.                                                             *)
(***************************************************************************)
LEMMA TailHas ==
    ASSUME NEW P, NEW s \in Seq(P), s # <<>>, NEW S
    PROVE  /\ Has(Tail(s), S) => Has(s, S)
           /\ Once(s, S) => Once(Tail(s), S)
           /\ Head(s) \in S => Has(s, S)
           /\ Once(s, S) /\ Head(s) \in S => ~Has(Tail(s), S)
<1>1. /\ Tail(s) \in Seq(P) /\ Len(Tail(s)) = Len(s) - 1 /\ Len(s) \in Nat /\ Len(s) > 0
      /\ \A k \in 1..Len(Tail(s)) : k + 1 \in 1..Len(s) /\ Tail(s)[k] = s[k + 1]
      /\ 1 \in 1..Len(s) /\ Head(s) = s[1]
  OBVIOUS
<1>2. Has(Tail(s), S) => Has(s, S)
  BY <1>1 DEF Has
<1>3. Once(s, S) => Once(Tail(s), S)
  BY <1>1 DEF Once
<1>4. Head(s) \in S => Has(s, S)
  BY <1>1 DEF Has
<1>5. Once(s, S) /\ Head(s) \in S => ~Has(Tail(s), S)
  BY <1>1 DEF Once, Has
<1>. QED  BY <1>2, <1>3, <1>4, <1>5

LEMMA AppendHas ==
    ASSUME NEW P, NEW s \in Seq(P), NEW packet \in P, NEW S
    PROVE  /\ packet \notin S => (Has(Append(s, packet), S) <=> Has(s, S))
           /\ packet \notin S /\ Once(s, S) => Once(Append(s, packet), S)
           /\ ~Has(s, S) => Once(Append(s, packet), S)
<1>. DEFINE t == Append(s, packet)
<1>1. /\ Len(t) = Len(s) + 1 /\ Len(s) \in Nat /\ t[Len(s) + 1] = packet
      /\ \A k \in 1..Len(s) : t[k] = s[k] /\ k \in 1..Len(t)
      /\ \A k \in 1..Len(t) : k \in 1..Len(s) \/ k = Len(s) + 1
  OBVIOUS
<1>. HIDE DEF t
<1>2. packet \notin S => (Has(t, S) <=> Has(s, S))
  BY <1>1 DEF Has
<1>3. packet \notin S /\ Once(s, S) => Once(t, S)
  BY <1>1 DEF Once
<1>4. ~Has(s, S) => Once(t, S)
  BY <1>1 DEF Once, Has
<1>. QED  BY <1>2, <1>3, <1>4 DEF t

LEMMA EmptyHas == ASSUME NEW S PROVE ~Has(<<>>, S) /\ Once(<<>>, S)
BY DEF Has, Once

(***************************************************************************)
(* A family of connections has no packets of a kind that it had not        *)
(* before.                                                                 *)
(***************************************************************************)
Fewer(new, old, S) ==
    /\ \A i \in DOMAIN old : /\ Has(new[i], S) => Has(old[i], S)
                             /\ Once(old[i], S) => Once(new[i], S)
    /\ Epochs(new, S) \subseteq Epochs(old, S)

LEMMA PopFewer ==
    ASSUME NEW I, NEW P, NEW chan \in [I -> Seq(P)], NEW i \in I, chan[i] # <<>>, NEW S
    PROVE  Fewer(Pop(chan, i), chan, S)
<1>. DEFINE new == Pop(chan, i)
<1>1. /\ new \in [I -> Seq(P)] /\ new[i] = Tail(chan[i])
      /\ \A j \in I : j # i => new[j] = chan[j]
  BY DEF Pop
<1>. HIDE DEF new
<1>2. \A j \in I : /\ Has(new[j], S) => Has(chan[j], S)
                   /\ Once(chan[j], S) => Once(new[j], S)
  <2>. TAKE j \in I
  <2>1. CASE j # i
    BY <1>1, <2>1
  <2>2. CASE j = i
    BY <1>1, <2>2, TailHas
  <2>. QED  BY <2>1, <2>2
<1>3. ASSUME NEW j \in I, NEW k \in 1..Len(new[j])
      PROVE  \E l \in 1..Len(chan[j]) : chan[j][l] = new[j][k]
  <2>1. CASE j # i
    BY <1>1, <2>1
  <2>2. CASE j = i
    <3>1. k + 1 \in 1..Len(chan[i]) /\ Tail(chan[i])[k] = chan[i][k + 1]
      BY <1>1, <2>2
    <3>. QED  BY <1>1, <2>2, <3>1
  <2>. QED  BY <2>1, <2>2
<1>4. Epochs(new, S) \subseteq Epochs(chan, S)
  BY <1>1, <1>3 DEF Epochs
<1>. QED  BY <1>2, <1>4 DEF Fewer, new

\* Sending a packet adds at most its epoch, and nothing when it is of another kind.
LEMMA PushAllFewer ==
    ASSUME NEW I, NEW P, NEW chan \in [I -> Seq(P)], NEW T, NEW packet \in P, NEW S
    PROVE  /\ Epochs(PushAll(chan, T, packet), S) \subseteq Epochs(chan, S) \cup {packet.epoch}
           /\ packet \notin S => Fewer(PushAll(chan, T, packet), chan, S)
<1>. DEFINE new == PushAll(chan, T, packet)
<1>1. /\ new \in [I -> Seq(P)]
      /\ \A j \in I : new[j] = chan[j] \/ new[j] = Append(chan[j], packet)
  BY DEF PushAll
<1>. HIDE DEF new
<1>2. ASSUME NEW j \in I, NEW k \in 1..Len(new[j])
      PROVE  \/ new[j][k] = packet
             \/ \E l \in 1..Len(chan[j]) : chan[j][l] = new[j][k]
  <2>1. CASE new[j] = chan[j]
    BY <2>1
  <2>2. CASE new[j] = Append(chan[j], packet)
    <3>1. k \in 1..Len(chan[j]) \/ k = Len(chan[j]) + 1
      BY <2>2
    <3>2. k \in 1..Len(chan[j]) => new[j][k] = chan[j][k]
      BY <2>2
    <3>3. k = Len(chan[j]) + 1 => new[j][k] = packet
      BY <2>2
    <3>. QED  BY <3>1, <3>2, <3>3
  <2>. QED  BY <1>1, <2>1, <2>2
<1>3. Epochs(new, S) \subseteq Epochs(chan, S) \cup {packet.epoch}
  BY <1>1, <1>2 DEF Epochs
<1>4. packet \notin S => Epochs(new, S) \subseteq Epochs(chan, S)
  BY <1>1, <1>2 DEF Epochs
<1>5. ASSUME packet \notin S, NEW j \in I
      PROVE  /\ Has(new[j], S) => Has(chan[j], S)
             /\ Once(chan[j], S) => Once(new[j], S)
  <2>1. CASE new[j] = chan[j]
    BY <2>1
  <2>2. CASE new[j] = Append(chan[j], packet)
    BY <1>5, <2>2, AppendHas
  <2>. QED  BY <1>1, <2>1, <2>2
<1>. QED  BY <1>3, <1>4, <1>5 DEF Fewer, new

LEMMA PushFewer ==
    ASSUME NEW I, NEW P, NEW chan \in [I -> Seq(P)], NEW i \in I, NEW packet \in P, NEW S,
           packet \notin S
    PROVE  Fewer(Push(chan, i, packet), chan, S)
<1>1. Push(chan, i, packet) = PushAll(chan, {i}, packet)
  BY DEF Push, PushAll
<1>. QED  BY <1>1, PushAllFewer

LEMMA SameFewer == ASSUME NEW chan, NEW S PROVE Fewer(chan, chan, S)
BY DEF Fewer
--------------------------------------------------------------------------------
(***************************************************************************)
(* Steps that bring nothing new to a stage keep it.                        *)
(***************************************************************************)
LEMMA FailuresKept ==
    ASSUME NetTypeOK, LayoutAssumption, Fewer(fd_out', fd_out, Terminations),
           Fewer(head_out', head_out, Exits), \A r \in Ranks : Died(r)' => Died(r)
    PROVE  \A r \in Ranks : (FailsAt(r)' => FailsAt(r)) /\ (OneFailure(r) => OneFailure(r)')
<1>1. /\ \A r \in Ranks : /\ Has(fd_out'[r], Terminations) => Has(fd_out[r], Terminations)
                          /\ Once(fd_out[r], Terminations) => Once(fd_out'[r], Terminations)
      /\ \A n \in Nodes : /\ Has(head_out'[n], Exits) => Has(head_out[n], Exits)
                          /\ Once(head_out[n], Exits) => Once(head_out'[n], Exits)
  <2>1. DOMAIN fd_out = Ranks /\ DOMAIN head_out = Nodes
    BY DEF NetTypeOK
  <2>. QED  BY <2>1 DEF Fewer
<1>2. \A r \in Ranks : NodeOf[r] \in Nodes
  BY DEF LayoutAssumption
<1>. QED  BY <1>1, <1>2 DEF FailsAt, OneFailure

LEMMA ReportsKept ==
    ASSUME NetTypeOK, LayoutAssumption, Fewer(head_in', head_in, Errors),
           Fewer(rank_out', rank_out, Cleanups), Fewer(head_out', head_out, Reports),
           \A r \in Ranks : pending'[r] => pending[r]
    PROVE  \A r \in Ranks : (ReportsAt(r)' => ReportsAt(r)) /\ (OneReport(r) => OneReport(r)')
<1>1. /\ \A r \in Ranks : /\ Has(rank_out'[r], Cleanups) => Has(rank_out[r], Cleanups)
                          /\ Once(rank_out[r], Cleanups) => Once(rank_out'[r], Cleanups)
      /\ \A n \in Nodes : /\ Has(head_out'[n], Reports) => Has(head_out[n], Reports)
                          /\ Once(head_out[n], Reports) => Once(head_out'[n], Reports)
                          /\ Has(head_in'[n], Errors) => Has(head_in[n], Errors)
                          /\ Once(head_in[n], Errors) => Once(head_in'[n], Errors)
  <2>1. DOMAIN rank_out = Ranks /\ DOMAIN head_out = Nodes /\ DOMAIN head_in = Nodes
    BY DEF NetTypeOK
  <2>. QED  BY <2>1 DEF Fewer
<1>2. \A r \in Ranks : NodeOf[r] \in Nodes
  BY DEF LayoutAssumption
<1>. QED  BY <1>1, <1>2 DEF ReportsAt, OneReport

LEMMA DecisionsKept ==
    ASSUME Fewer(head_in', head_in, Commits), Fewer(rank_in', rank_in, Commits),
           Fewer(fd_in', fd_in, RestartPackets),
           \A r \in Ranks : Restored(r)' => epoch'[r] \in Decisions
    PROVE  Decisions' \subseteq Decisions
BY DEF Fewer, Decisions

\* What a step that is no failure, brings nobody to report and decides nothing leaves.
LEMMA InvariantKept ==
    ASSUME AgreementInv, UNCHANGED <<faults, node_epochs>>,
           \A r \in Ranks : (FailsAt(r)' => FailsAt(r)) /\ OneFailure(r)',
           \A r \in Ranks : (ReportsAt(r)' => ReportsAt(r)) /\ OneReport(r)',
           Decisions' \subseteq Decisions,
           TypeOK, LayoutAssumption
    PROVE  AgreementInv' /\ Onward
<1>1. ReportingNodes' \subseteq ReportingNodes /\ ReportingNodes \subseteq Nodes
  BY DEF ReportingNodes
<1>2. IsFiniteSet(ReportingNodes)
  BY <1>1, FS_Subset DEF LayoutAssumption
<1>3. /\ Cardinality(ReportingNodes') <= Cardinality(ReportingNodes)
      /\ Cardinality(ReportingNodes') \in Nat /\ Cardinality(ReportingNodes) \in Nat
  BY <1>1, <1>2, FS_Subset, FS_CardinalityType
<1>4. NothingUnderWay => NothingUnderWay'
  BY <1>1 DEF NothingUnderWay
<1>5. FailureInv'
  BY <1>4 DEF AgreementInv, FailureInv
<1>6. ReportInv'
  <2>1. node_epochs \in Nat /\ NodeCount \in Nat
    BY FS_CardinalityType DEF TypeOK, ControllerTypeOK, NodeCount, LayoutAssumption
  <2>2. node_epochs' + Cardinality(ReportingNodes') <= NodeCount
    BY <1>3, <2>1 DEF AgreementInv, ReportInv
  <2>. QED  BY <2>2 DEF ReportInv
<1>7. DecisionInv'
  BY <1>1 DEF AgreementInv, DecisionInv
<1>8. Over => Over'
  BY <1>1 DEF Over
<1>. QED  BY <1>1, <1>5, <1>6, <1>7, <1>8 DEF AgreementInv, Onward

\* A decision that is on its way, or that a process has taken over.
LEMMA DecisionOnTheWay ==
    ASSUME NetTypeOK
    PROVE  /\ \A n \in Nodes : Receives(head_in, n, "commit")
                 => Head(head_in[n]).epoch \in Decisions \cap Nat
           /\ \A r \in Ranks : rank_in[r] # <<>> /\ Head(rank_in[r]).type = "commit"
                 => Head(rank_in[r]).epoch \in Decisions \cap Nat
           /\ \A r \in Ranks : Receives(fd_in, r, "restart")
                 => Head(fd_in[r]).epoch \in Decisions \cap Nat
           /\ \A r \in Ranks : Restored(r) => epoch[r] \in Decisions
<1>1. ASSUME NEW I, NEW P, NEW chan \in [I -> Seq(P)], NEW i \in I, chan[i] # <<>>, NEW S,
             Head(chan[i]) \in S
      PROVE  Head(chan[i]).epoch \in Epochs(chan, S)
  <2>1. 1 \in 1..Len(chan[i]) /\ chan[i][1] = Head(chan[i])
    BY <1>1
  <2>. QED  BY <1>1, <2>1 DEF Epochs
<1>2. ASSUME NEW n \in Nodes, Receives(head_in, n, "commit")
      PROVE  Head(head_in[n]).epoch \in Decisions \cap Nat
  <2>1. head_in \in [Nodes -> Seq(ToHead)] /\ head_in[n] # <<>>
    BY <1>2 DEF NetTypeOK, Receives
  <2>2. Head(head_in[n]) \in ToHead
    BY <2>1
  <2>3. Head(head_in[n]) \in Commits
    BY <1>2, <2>2 DEF ToHead, Commits, Receives
  <2>4. Head(head_in[n]).epoch \in Epochs(head_in, Commits)
    BY <1>1, <2>1, <2>3
  <2>. QED  BY <2>3, <2>4 DEF Decisions, Commits
<1>3. ASSUME NEW r \in Ranks, rank_in[r] # <<>>, Head(rank_in[r]).type = "commit"
      PROVE  Head(rank_in[r]).epoch \in Decisions \cap Nat
  <2>1. rank_in \in [Ranks -> Seq(ToRank)] /\ rank_in[r] # <<>>
    BY <1>3 DEF NetTypeOK
  <2>2. Head(rank_in[r]) \in ToRank
    BY <2>1
  <2>3. Head(rank_in[r]) \in Commits
    BY <1>3, <2>2 DEF ToRank, Commits
  <2>4. Head(rank_in[r]).epoch \in Epochs(rank_in, Commits)
    BY <1>1, <2>1, <2>3
  <2>. QED  BY <2>3, <2>4 DEF Decisions, Commits
<1>4. ASSUME NEW r \in Ranks, Receives(fd_in, r, "restart")
      PROVE  Head(fd_in[r]).epoch \in Decisions \cap Nat
  <2>1. fd_in \in [Ranks -> Seq(ToFaultDaemon)] /\ fd_in[r] # <<>>
    BY <1>4 DEF NetTypeOK, Receives
  <2>2. Head(fd_in[r]) \in ToFaultDaemon
    BY <2>1
  <2>3. Head(fd_in[r]) \in RestartPackets
    BY <1>4, <2>2 DEF ToFaultDaemon, RestartPackets, Receives
  <2>4. Head(fd_in[r]).epoch \in Epochs(fd_in, RestartPackets)
    BY <1>1, <2>1, <2>3
  <2>. QED  BY <2>3, <2>4 DEF Decisions, RestartPackets
<1>5. \A r \in Ranks : Restored(r) => epoch[r] \in Decisions
  BY DEF Decisions
<1>. QED  BY <1>2, <1>3, <1>4, <1>5
--------------------------------------------------------------------------------
(***************************************************************************)
(* The processes.                                                          *)
(***************************************************************************)
\* Where the steps of a process leave the other processes and its own decision.
LEMMA RankMoves ==
    ASSUME NetTypeOK, RankTypeOK, NEW r \in Ranks, RankStep(r)
    PROVE  /\ UNCHANGED <<fdNet, headNet, faults>>
           /\ rank_out' \in {rank_out, Push(rank_out, r, BarrierPacket(r))}
           /\ rank_in' = rank_in \/ (rank_in[r] # <<>> /\ rank_in' = Pop(rank_in, r))
           /\ \A q \in Ranks : (Died(q)' => Died(q)) /\ (pending'[q] => pending[q])
           /\ \A q \in Ranks : Restored(q)' =>
                 \/ Restored(q) /\ epoch'[q] = epoch[q]
                 \/ /\ q = r /\ rank_in[r] # <<>> /\ Head(rank_in[r]).type = "commit"
                    /\ epoch'[q] = Head(rank_in[r]).epoch
<1>. USE DEF NetTypeOK, RankTypeOK, rankNet, fdNet, headNet, osVars, rankVars, At, Goto, Exit,
             Died, Restored, TryReload, OtherExit, Success, InBarrier
<1>1. CASE MPI_Init(r)
  BY <1>1 DEF MPI_Init
<1>2. CASE checkpoint_read_throws(r)
  BY <1>2 DEF checkpoint_read_throws
<1>3. CASE recv_barrier_release(r)
  BY <1>3 DEF recv_barrier_release
<1>4. CASE MPI_Comm_set_errhandler(r)
  BY <1>4 DEF MPI_Comm_set_errhandler
<1>5. CASE checkpoint_write_open(r) \/ checkpoint_write_file(r)
  BY <1>5 DEF checkpoint_write_open, checkpoint_write_file
<1>6. CASE checkpoint_write_check(r)
  BY <1>6 DEF checkpoint_write_check
<1>7. CASE checkpoint_write_epoch(r) \/ checkpoint_write_close(r)
  BY <1>7 DEF checkpoint_write_epoch, checkpoint_write_close
<1>8. CASE MPIX_Checkpoint_read(r)
  BY <1>8 DEF MPIX_Checkpoint_read
<1>9. CASE wait_commit(r)
  BY <1>9 DEF wait_commit, CommittedEpoch
<1>10. CASE MPI_Finalize(r)
  BY <1>10 DEF MPI_Finalize
<1>. QED
  BY <1>1, <1>2, <1>3, <1>4, <1>5, <1>6, <1>7, <1>8, <1>9, <1>10 DEF RankStep

LEMMA RankAgreement ==
    ASSUME TypeOK, LayoutAssumption, AgreementInv, NEW r \in Ranks, Rank(r)
    PROVE  AgreementInv' /\ Onward
<1>1. /\ RankStep(r) /\ UNCHANGED <<fdNet, headNet, faults, node_epochs>>
      /\ NetTypeOK /\ RankTypeOK
  BY RankMoves DEF Rank, controllerVars, TypeOK
<1>2. Fewer(rank_out', rank_out, Cleanups)
  <2>1. rank_out \in [Ranks -> Seq(FromRank)] /\ BarrierPacket(r) \in FromRank
    BY <1>1 DEF NetTypeOK, BarrierPacket, FromRank
  <2>2. BarrierPacket(r) \notin Cleanups
    BY DEF BarrierPacket, Cleanups
  <2>. QED  BY <1>1, <2>1, <2>2, RankMoves, SameFewer, PushFewer
<1>3. Fewer(rank_in', rank_in, Commits)
  <2>1. rank_in \in [Ranks -> Seq(ToRank)]
    BY <1>1 DEF NetTypeOK
  <2>. QED  BY <1>1, <2>1, RankMoves, SameFewer, PopFewer
<1>4. \A q \in Ranks : (FailsAt(q)' => FailsAt(q)) /\ (OneFailure(q) => OneFailure(q)')
  BY <1>1, RankMoves, FailuresKept, SameFewer DEF fdNet, headNet
<1>5. \A q \in Ranks : (ReportsAt(q)' => ReportsAt(q)) /\ (OneReport(q) => OneReport(q)')
  BY <1>1, <1>2, RankMoves, ReportsKept, SameFewer DEF headNet
<1>6. Decisions' \subseteq Decisions
  <2>1. \A q \in Ranks : Restored(q)' => epoch'[q] \in Decisions
    BY <1>1, RankMoves, DecisionOnTheWay
  <2>. QED  BY <1>1, <1>3, <2>1, DecisionsKept, SameFewer DEF fdNet, headNet
<1>. QED
  BY <1>1, <1>4, <1>5, <1>6, InvariantKept DEF AgreementInv, FailureInv, ReportInv

\* The signal handler turns the pending signal into the report of the process.
LEMMA SignalAgreement ==
    ASSUME TypeOK, LayoutAssumption, AgreementInv, NEW r \in Ranks, Signal(r)
    PROVE  AgreementInv' /\ Onward
<1>1. /\ setErr(r) /\ pending[r] /\ UNCHANGED <<rank_in, fdNet, headNet, faults, node_epochs>>
      /\ NetTypeOK /\ RankTypeOK
  BY DEF Signal, setErr, controllerVars, TypeOK
<1>2. \A q \in Ranks : /\ Died(q)' => Died(q)
                       /\ Restored(q)' => Restored(q) /\ epoch'[q] = epoch[q]
                       /\ pending'[q] => pending[q] /\ q # r
  <2>. USE DEF Died, Restored, NetTypeOK
  <2>1. CASE handler[r]
    BY <1>1, <2>1 DEF setErr
  <2>2. CASE ~handler[r]
    <3>1. Exit(r, OtherExit) /\ UNCHANGED <<pc, epoch>>
      BY <1>1, <2>2 DEF setErr
    <3>2. OtherExit # TryReload
      BY DEF OtherExit, TryReload
    <3>. QED  BY <1>1, <3>1, <3>2 DEF Exit
  <2>. QED  BY <2>1, <2>2
<1>3. \A q \in Ranks : (FailsAt(q)' => FailsAt(q)) /\ (OneFailure(q) => OneFailure(q)')
  BY <1>1, <1>2, FailuresKept, SameFewer DEF fdNet, headNet
<1>4. Decisions' \subseteq Decisions
  <2>1. \A q \in Ranks : Restored(q)' => epoch'[q] \in Decisions
    BY <1>1, <1>2, DecisionOnTheWay
  <2>. QED  BY <1>1, <2>1, DecisionsKept, SameFewer DEF fdNet, headNet
<1>5. \A q \in Ranks : (ReportsAt(q)' => ReportsAt(q)) /\ OneReport(q)'
  <2>1. CASE UNCHANGED rank_out
    BY <1>1, <1>2, <2>1, ReportsKept, SameFewer DEF headNet, AgreementInv, ReportInv
  <2>2. CASE rank_out' = Push(rank_out, r, [type |-> "cleanup", epoch |-> epoch[r]])
    <3>. DEFINE packet == [type |-> "cleanup", epoch |-> epoch[r]]
    <3>1. /\ rank_out \in [Ranks -> Seq(FromRank)] /\ packet \in FromRank
          /\ OneReport(r) /\ ReportsAt(r)
      BY <1>1 DEF NetTypeOK, RankTypeOK, FromRank, AgreementInv, ReportInv, ReportsAt
    <3>2. /\ ~Has(rank_out[r], Cleanups) /\ ~Has(head_in[NodeOf[r]], Errors)
          /\ ~Has(head_out[NodeOf[r]], Reports) /\ Once(head_in[NodeOf[r]], Errors)
          /\ Once(head_out[NodeOf[r]], Reports)
      BY <1>1, <3>1 DEF OneReport
    <3>3. Once(rank_out'[r], Cleanups)
      <4>1. rank_out'[r] = Append(rank_out[r], packet)
        BY <2>2, <3>1 DEF Push
      <4>. QED  BY <3>1, <3>2, <4>1, AppendHas
    <3>4. OneReport(r)'
      BY <1>1, <1>2, <3>2, <3>3 DEF OneReport, headNet
    <3>5. ASSUME NEW q \in Ranks, q # r
          PROVE  (ReportsAt(q)' => ReportsAt(q)) /\ OneReport(q)'
      <4>1. OneReport(q) /\ rank_out'[q] = rank_out[q]
        BY <2>2, <3>1, <3>5 DEF Push, AgreementInv, ReportInv
      <4>. QED  BY <1>1, <1>2, <4>1 DEF OneReport, ReportsAt, headNet
    <3>. QED  BY <3>1, <3>4, <3>5
  <2>. QED  BY <1>1, <2>1, <2>2 DEF setErr
<1>. QED
  BY <1>1, <1>3, <1>4, <1>5, InvariantKept DEF AgreementInv, FailureInv

\* The failure: nobody reports and nothing is decided before it.
LEMMA FailAgreement ==
    ASSUME TypeOK, LayoutAssumption, AgreementInv, MaxFaults <= 1, NEW r \in Ranks, Failure(r)
    PROVE  AgreementInv' /\ Onward
<1>1. /\ Fail(r) /\ UNCHANGED <<rankNet, fdNet, headNet, node_epochs>>
      /\ NetTypeOK /\ RankTypeOK
  BY DEF Failure, Fail, controllerVars, TypeOK
<1>2. faults = 0 /\ faults' = 1
  BY <1>1, ApplicationAssumption DEF Fail, RankTypeOK, ApplicationAssumption
<1>3. NothingUnderWay /\ \A q \in Ranks : ~FailsAt(q) /\ OneFailure(q) /\ OneReport(q)
  BY <1>2 DEF AgreementInv, FailureInv, ReportInv
<1>4. \A q \in Ranks : /\ q # r => (Died(q)' => Died(q))
                       /\ Restored(q)' => Restored(q) /\ epoch'[q] = epoch[q]
                       /\ pending'[q] => pending[q]
  BY <1>1 DEF Fail, Exit, Died, Restored, NetTypeOK
<1>5. \A q \in Ranks : (FailsAt(q)' => q = r) /\ OneFailure(q)'
  BY <1>1, <1>3, <1>4 DEF FailsAt, OneFailure, fdNet, headNet
<1>6. \A q \in Ranks : (ReportsAt(q)' => ReportsAt(q)) /\ OneReport(q)'
  BY <1>1, <1>3, <1>4, ReportsKept, SameFewer DEF rankNet, headNet
<1>7. Decisions' \subseteq Decisions
  <2>1. \A q \in Ranks : Restored(q)' => epoch'[q] \in Decisions
    BY <1>1, <1>4, DecisionOnTheWay
  <2>. QED  BY <1>1, <2>1, DecisionsKept, SameFewer DEF rankNet, fdNet, headNet
<1>8. NothingUnderWay' /\ ReportingNodes' = ReportingNodes
  <2>1. ReportingNodes' = {}
    BY <1>3, <1>6 DEF NothingUnderWay, ReportingNodes
  <2>. QED  BY <1>1, <1>3, <1>7, <2>1 DEF NothingUnderWay
<1>9. FailureInv'
  BY <1>2, <1>5, <1>8 DEF FailureInv
<1>10. ReportInv'
  BY <1>1, <1>6, <1>8 DEF AgreementInv, ReportInv
<1>11. DecisionInv'
  BY <1>8 DEF NothingUnderWay, DecisionInv
<1>12. Onward
  BY <1>2, <1>7, <1>8 DEF Over, Onward
<1>. QED  BY <1>9, <1>10, <1>11, <1>12 DEF AgreementInv
--------------------------------------------------------------------------------
(***************************************************************************)
(* The fault daemons.                                                      *)
(***************************************************************************)
\* The new process of a rank has a new connection.
LEMMA ClearFewer ==
    ASSUME NEW I, NEW P, NEW chan \in [I -> Seq(P)], NEW i \in I, NEW S
    PROVE  Fewer([chan EXCEPT ![i] = <<>>], chan, S)
<1>. DEFINE new == [chan EXCEPT ![i] = <<>>]
<1>1. /\ new[i] = <<>> /\ DOMAIN new = I /\ DOMAIN chan = I
      /\ \A j \in I : j # i => new[j] = chan[j]
  OBVIOUS
<1>2. \A j \in I : \A k \in 1..Len(new[j]) : j # i
  BY <1>1
<1>. HIDE DEF new
<1>3. Epochs(new, S) \subseteq Epochs(chan, S)
  BY <1>1, <1>2 DEF Epochs
<1>4. \A j \in I : /\ Has(new[j], S) => Has(chan[j], S)
                   /\ Once(chan[j], S) => Once(new[j], S)
  BY <1>1, EmptyHas
<1>. QED  BY <1>1, <1>3, <1>4 DEF Fewer, new

LEMMA MonitorAgreement ==
    ASSUME TypeOK, LayoutAssumption, AgreementInv, NEW r \in Ranks, Monitor(r)
    PROVE  AgreementInv' /\ Onward
<1>n. /\ fd_out \in [Ranks -> Seq(FromFaultDaemon)] /\ fd_in \in [Ranks -> Seq(ToFaultDaemon)]
      /\ rank_in \in [Ranks -> Seq(ToRank)]
      /\ proc \in [Ranks -> {"alive", "zombie", "reaped"}] /\ pending \in [Ranks -> BOOLEAN]
      /\ pc \in [Ranks -> Locations] /\ epoch \in [Ranks -> Nat]
      /\ exit_code \in [Ranks -> ErrorCodes] /\ NetTypeOK
  BY DEF TypeOK, NetTypeOK, RankTypeOK
<1>u. UNCHANGED <<rank_out, headNet, faults, node_epochs>>
  BY DEF Monitor, FaultDaemonStep, inform_head, restart, shutdown_ack, Launch, rankNet, rankVars,
         controllerVars
<1>i. \A q \in Ranks : OneFailure(q) /\ OneReport(q)
  BY DEF AgreementInv, FailureInv, ReportInv
<1>r. (\A q \in Ranks : pending'[q] => pending[q])
          => \A q \in Ranks : (ReportsAt(q)' => ReportsAt(q)) /\ OneReport(q)'
  BY <1>n, <1>u, <1>i, ReportsKept, SameFewer DEF headNet
<1>1. CASE inform_head(r)
  <2>. DEFINE report == [type |-> "termination", code |-> exit_code[r],
                         epoch |-> ReadEpochFile(r)]
  <2>1. /\ proc[r] = "zombie" /\ proc' = [proc EXCEPT ![r] = "reaped"]
        /\ fd_out' = Push(fd_out, r, report)
        /\ UNCHANGED <<rankNet, fd_in, exit_code, pending, rankVars>>
    BY <1>1, <1>n DEF inform_head, WaitReturns
  <2>2. report \in FromFaultDaemon
    BY DEF TypeOK, NetTypeOK, RankTypeOK, FromFaultDaemon, ReadEpochFile, None
  <2>3. \A q \in Ranks : q # r => fd_out'[q] = fd_out[q] /\ proc'[q] = proc[q]
    BY <1>n, <2>1 DEF Push
  <2>4. fd_out'[r] = Append(fd_out[r], report) /\ ~Died(r)'
    BY <1>n, <2>1 DEF Push, Died
  <2>5. (FailsAt(r)' => FailsAt(r)) /\ OneFailure(r)'
    <3>1. CASE report \in Terminations
      <4>1. Died(r)
        BY <2>1, <3>1 DEF Died, Terminations
      <4>2. /\ ~Has(fd_out[r], Terminations) /\ ~Has(head_out[NodeOf[r]], Exits)
            /\ Once(head_out[NodeOf[r]], Exits)
        BY <1>i, <4>1 DEF OneFailure
      <4>3. Once(fd_out'[r], Terminations)
        BY <1>n, <2>2, <2>4, <4>2, AppendHas
      <4>. QED  BY <1>u, <2>4, <4>1, <4>2, <4>3 DEF FailsAt, OneFailure, headNet
    <3>2. CASE report \notin Terminations
      <4>1. /\ Has(fd_out'[r], Terminations) => Has(fd_out[r], Terminations)
            /\ Once(fd_out[r], Terminations) => Once(fd_out'[r], Terminations)
        BY <1>n, <2>2, <2>4, <3>2, AppendHas
      <4>. QED  BY <1>u, <1>i, <2>4, <4>1 DEF FailsAt, OneFailure, headNet
    <3>. QED  BY <3>1, <3>2
  <2>6. ASSUME NEW q \in Ranks, q # r
        PROVE  (FailsAt(q)' => FailsAt(q)) /\ OneFailure(q)'
    <3>1. Died(q)' = Died(q)
      BY <2>1, <2>3, <2>6 DEF Died
    <3>. QED  BY <1>u, <1>i, <2>3, <2>6, <3>1 DEF FailsAt, OneFailure, headNet
  <2>7. \A q \in Ranks : Restored(q)' => Restored(q) /\ epoch'[q] = epoch[q]
    BY <2>1, <2>3 DEF Restored, rankVars
  <2>8. Decisions' \subseteq Decisions
    <3>1. \A q \in Ranks : Restored(q)' => epoch'[q] \in Decisions
      BY <1>n, <2>7, DecisionOnTheWay
    <3>. QED  BY <1>u, <2>1, <3>1, DecisionsKept, SameFewer DEF headNet, rankNet
  <2>. QED
    <3>1. \A q \in Ranks : (FailsAt(q)' => FailsAt(q)) /\ OneFailure(q)'
      BY <2>5, <2>6
    <3>. QED  BY <1>u, <1>r, <2>1, <2>8, <3>1, InvariantKept
<1>2. CASE restart(r)
  <2>1. /\ fd_in[r] # <<>> /\ fd_in' = Pop(fd_in, r) /\ Receives(fd_in, r, "restart")
        /\ rank_in' = [rank_in EXCEPT ![r] = <<>>]
        /\ proc' = [proc EXCEPT ![r] = "alive"] /\ pending' = [pending EXCEPT ![r] = FALSE]
        /\ pc' = [pc EXCEPT ![r] = "launched"]
        /\ epoch' = [epoch EXCEPT ![r] = Head(fd_in[r]).epoch]
        /\ UNCHANGED <<fd_out, exit_code>>
    BY <1>2 DEF restart, Launch, Goto, Receives
  <2>2. \A q \in Ranks : (Died(q)' => Died(q)) /\ (pending'[q] => pending[q])
    BY <1>n, <2>1 DEF Died
  <2>3. \A q \in Ranks : Restored(q)' => \/ Restored(q) /\ epoch'[q] = epoch[q]
                                         \/ q = r /\ epoch'[q] = Head(fd_in[r]).epoch
    BY <1>n, <2>1 DEF Restored
  <2>4. \A q \in Ranks : (FailsAt(q)' => FailsAt(q)) /\ OneFailure(q)'
    BY <1>n, <1>u, <1>i, <2>1, <2>2, FailuresKept, SameFewer DEF headNet
  <2>5. Decisions' \subseteq Decisions
    <3>1. \A q \in Ranks : Restored(q)' => epoch'[q] \in Decisions
      BY <1>n, <2>1, <2>3, DecisionOnTheWay
    <3>2. Fewer(rank_in', rank_in, Commits)
      BY <1>n, <2>1, ClearFewer
    <3>3. Fewer(fd_in', fd_in, RestartPackets)
      BY <1>n, <2>1, PopFewer
    <3>. QED  BY <1>u, <3>1, <3>2, <3>3, DecisionsKept, SameFewer DEF headNet
  <2>. QED  BY <1>u, <1>r, <2>2, <2>4, <2>5, InvariantKept
<1>3. CASE shutdown_ack(r)
  <2>1. /\ fd_in[r] # <<>> /\ fd_in' = Pop(fd_in, r)
        /\ fd_out' = Push(fd_out, r, [type |-> "shutdown_ack"])
        /\ UNCHANGED <<rank_in, osVars, pc, epoch>>
    BY <1>3 DEF shutdown_ack, Receives, rankNet, rankVars
  <2>2. \A q \in Ranks : /\ Died(q)' => Died(q)
                         /\ pending'[q] => pending[q]
                         /\ Restored(q)' => Restored(q) /\ epoch'[q] = epoch[q]
    BY <2>1 DEF Died, Restored, osVars
  <2>3. [type |-> "shutdown_ack"] \in FromFaultDaemon /\ [type |-> "shutdown_ack"] \notin Terminations
    BY DEF FromFaultDaemon, Terminations
  <2>4. Fewer(fd_out', fd_out, Terminations)
    BY <1>n, <2>1, <2>3, PushFewer
  <2>5. \A q \in Ranks : (FailsAt(q)' => FailsAt(q)) /\ OneFailure(q)'
    BY <1>n, <1>u, <1>i, <2>2, <2>4, FailuresKept, SameFewer DEF headNet
  <2>6. Decisions' \subseteq Decisions
    <3>1. \A q \in Ranks : Restored(q)' => epoch'[q] \in Decisions
      BY <1>n, <2>2, DecisionOnTheWay
    <3>2. Fewer(fd_in', fd_in, RestartPackets)
      BY <1>n, <2>1, PopFewer
    <3>. QED  BY <1>u, <2>1, <3>1, <3>2, DecisionsKept, SameFewer DEF headNet
  <2>. QED  BY <1>u, <1>r, <2>2, <2>5, <2>6, InvariantKept
<1>. QED  BY <1>1, <1>2, <1>3 DEF Monitor, FaultDaemonStep
--------------------------------------------------------------------------------
(***************************************************************************)
(* The head daemons: packets of the ranks and of the fault daemons.        *)
(***************************************************************************)
LEMMA HeadLeaves ==
    ASSUME NEW n \in Nodes, NodeHead(n)
    PROVE  UNCHANGED <<rankVars, faultDaemonVars, controllerVars, proc, exit_code, pid>>
BY DEF NodeHead, HeadStep, process_barrier, process_cleanup, process_termination,
       process_shutdown_ack, process_release, process_error, process_commit, process_shutdown,
       osVars

\* Packets that only the barrier and the shutdown are about.
LEMMA OtherPackets ==
    /\ \A t \in {"node_barrier", "node_success", "node_shutdown"} :
          /\ [type |-> t] \in FromHead
          /\ [type |-> t] \notin Exits /\ [type |-> t] \notin Reports
    /\ [type |-> "release"] \in ToRank /\ [type |-> "release"] \notin Commits
    /\ [type |-> "release"] \in ToHead /\ [type |-> "shutdown"] \in ToHead
    /\ [type |-> "release"] \notin Errors
    /\ [type |-> "shutdown"] \notin Errors /\ [type |-> "shutdown"] \notin Commits
    /\ [type |-> "shutdown"] \in ToFaultDaemon /\ [type |-> "shutdown"] \notin RestartPackets
BY DEF FromHead, Exits, Reports, ToRank, Commits, ToHead, Errors, ToFaultDaemon, RestartPackets

\* A packet of another kind that a head daemon may send to the controller.
LEMMA HeadOutFewer ==
    ASSUME NetTypeOK, NEW n \in Nodes, NEW packet \in FromHead, NEW S, packet \notin S,
           head_out' \in {head_out, Push(head_out, n, packet)}
    PROVE  Fewer(head_out', head_out, S)
<1>1. head_out \in [Nodes -> Seq(FromHead)]
  BY DEF NetTypeOK
<1>2. CASE head_out' = head_out
  BY <1>2, SameFewer
<1>3. CASE head_out' = Push(head_out, n, packet)
  BY <1>1, <1>3, PushFewer
<1>. QED  BY <1>2, <1>3

\* Barrier and acknowledgement: the recovery does not notice.
LEMMA HeadBarrierAgreement ==
    ASSUME TypeOK, LayoutAssumption, AgreementInv, NEW r \in Ranks, NodeHead(NodeOf[r]),
           process_barrier(r) \/ process_shutdown_ack(r)
    PROVE  AgreementInv' /\ Onward
<1>. DEFINE n == NodeOf[r]
<1>n. /\ fd_out \in [Ranks -> Seq(FromFaultDaemon)] /\ rank_out \in [Ranks -> Seq(FromRank)]
      /\ head_out \in [Nodes -> Seq(FromHead)] /\ NetTypeOK /\ n \in Nodes
  BY DEF TypeOK, NetTypeOK, LayoutAssumption
<1>u. /\ UNCHANGED <<rank_in, fd_in, head_in, osVars, rankVars, controllerVars>>
      /\ UNCHANGED <<proc, exit_code, pending, pc, epoch, faults, node_epochs>>
  BY <1>n, HeadLeaves DEF process_barrier, process_shutdown_ack, fdNet, rankNet, osVars,
     rankVars, controllerVars
<1>1. \E t \in {"node_barrier", "node_shutdown"} :
         head_out' \in {head_out, Push(head_out, n, [type |-> t])}
  BY DEF process_barrier, process_shutdown_ack, SendToController
<1>2. Fewer(head_out', head_out, Exits) /\ Fewer(head_out', head_out, Reports)
  <2>1. PICK t \in {"node_barrier", "node_shutdown"} :
                 head_out' \in {head_out, Push(head_out, n, [type |-> t])}
    BY <1>1
  <2>. QED  BY <1>n, <2>1, OtherPackets, HeadOutFewer
<1>3. Fewer(rank_out', rank_out, Cleanups) /\ Fewer(fd_out', fd_out, Terminations)
  <2>1. CASE process_barrier(r)
    BY <1>n, <2>1, PopFewer, SameFewer DEF process_barrier, Receives, fdNet
  <2>2. CASE process_shutdown_ack(r)
    BY <1>n, <2>2, PopFewer, SameFewer DEF process_shutdown_ack, Receives, rankNet
  <2>. QED  BY <2>1, <2>2
<1>4. \A q \in Ranks : (FailsAt(q)' => FailsAt(q)) /\ (OneFailure(q) => OneFailure(q)')
  BY <1>n, <1>u, <1>2, <1>3, FailuresKept DEF Died
<1>5. \A q \in Ranks : (ReportsAt(q)' => ReportsAt(q)) /\ (OneReport(q) => OneReport(q)')
  BY <1>n, <1>u, <1>2, <1>3, ReportsKept, SameFewer
<1>6. Decisions' \subseteq Decisions
  <2>1. \A q \in Ranks : Restored(q)' => epoch'[q] \in Decisions
    BY <1>n, <1>u, DecisionOnTheWay DEF Restored
  <2>. QED  BY <1>u, <2>1, DecisionsKept, SameFewer
<1>. QED
  BY <1>u, <1>4, <1>5, <1>6, InvariantKept DEF AgreementInv, FailureInv, ReportInv

\* The head daemon passes the failure on.
LEMMA TerminationAgreement ==
    ASSUME TypeOK, LayoutAssumption, OneRankPerNode, AgreementInv, NEW r \in Ranks,
           NodeHead(NodeOf[r]), process_termination(r)
    PROVE  AgreementInv' /\ Onward
<1>. DEFINE n == NodeOf[r]
            exit == [type |-> "process_exit", code |-> Head(fd_out[r]).code,
                     epoch |-> Head(fd_out[r]).epoch]
<1>n. /\ fd_out \in [Ranks -> Seq(FromFaultDaemon)] /\ fd_out[r] # <<>>
      /\ head_out \in [Nodes -> Seq(FromHead)] /\ NetTypeOK /\ n \in Nodes
  BY DEF TypeOK, NetTypeOK, LayoutAssumption, process_termination, Receives
<1>u. /\ UNCHANGED <<rank_out, rank_in, fd_in, head_in>>
      /\ UNCHANGED <<proc, exit_code, pending, pc, epoch, faults, node_epochs>>
      /\ fd_out' = Pop(fd_out, r)
  BY <1>n, HeadLeaves DEF process_termination, rankNet, osVars, rankVars, controllerVars
<1>h. Head(fd_out[r]) \in FromFaultDaemon /\ Head(fd_out[r]).type = "termination"
  BY <1>n DEF process_termination, Receives
<1>e. /\ exit \in FromHead /\ exit \notin Reports
      /\ exit \in Exits <=> Head(fd_out[r]) \in Terminations
  <2>1. /\ Head(fd_out[r]).code \in ErrorCodes /\ Head(fd_out[r]).epoch \in Nat
        /\ Head(fd_out[r]) \in [type : {"termination"}, code : ErrorCodes, epoch : Nat]
    BY <1>h DEF FromFaultDaemon
  <2>. QED  BY <2>1 DEF FromHead, Reports, Exits, Terminations
<1>1. \/ head_out' \in {head_out, Push(head_out, n, [type |-> "node_success"])}
      \/ head_out' = Push(head_out, n, exit)
  BY DEF process_termination, SendToController
<1>2. Fewer(head_out', head_out, Reports)
  <2>1. CASE head_out' \in {head_out, Push(head_out, n, [type |-> "node_success"])}
    BY <1>n, <2>1, OtherPackets, HeadOutFewer
  <2>2. CASE head_out' = Push(head_out, n, exit)
    BY <1>n, <1>e, <2>2, HeadOutFewer
  <2>. QED  BY <1>1, <2>1, <2>2
<1>3. Fewer(fd_out', fd_out, Terminations)
  BY <1>n, <1>u, PopFewer
<1>i. \A q \in Ranks : OneFailure(q) /\ OneReport(q)
  BY DEF AgreementInv, FailureInv, ReportInv
<1>4. \A q \in Ranks : (FailsAt(q)' => FailsAt(q)) /\ OneFailure(q)'
  <2>1. CASE Fewer(head_out', head_out, Exits)
    BY <1>n, <1>u, <1>i, <1>3, <2>1, FailuresKept DEF Died
  <2>2. CASE head_out' = Push(head_out, n, exit) /\ exit \in Exits
    <3>1. /\ fd_out'[r] = Tail(fd_out[r]) /\ head_out'[n] = Append(head_out[n], exit)
          /\ \A q \in Ranks : q # r => fd_out'[q] = fd_out[q] /\ NodeOf[q] # n
          /\ \A m \in Nodes : m # n => head_out'[m] = head_out[m]
      BY <1>n, <1>u, <2>2 DEF Pop, Push, OneRankPerNode
    <3>2. Head(fd_out[r]) \in Terminations /\ Has(fd_out[r], Terminations)
      BY <1>n, <1>e, <2>2, TailHas
    <3>3. ~Has(head_out[n], Exits) /\ ~Died(r) /\ ~Has(fd_out'[r], Terminations)
      BY <1>n, <1>i, <3>1, <3>2, TailHas DEF OneFailure
    <3>4. Once(head_out'[n], Exits) /\ Once(fd_out'[r], Terminations)
      BY <1>n, <1>e, <1>i, <3>1, <3>3, AppendHas, TailHas DEF OneFailure
    <3>5. (FailsAt(r)' => FailsAt(r)) /\ OneFailure(r)'
      BY <1>u, <3>2, <3>3, <3>4 DEF FailsAt, OneFailure, Died
    <3>6. ASSUME NEW q \in Ranks, q # r
          PROVE  (FailsAt(q)' => FailsAt(q)) /\ OneFailure(q)'
      <4>1. fd_out'[q] = fd_out[q] /\ head_out'[NodeOf[q]] = head_out[NodeOf[q]]
        BY <3>1, <3>6 DEF LayoutAssumption
      <4>. QED  BY <1>u, <1>i, <4>1 DEF FailsAt, OneFailure, Died
    <3>. QED  BY <3>5, <3>6
  <2>3. CASE head_out' \in {head_out, Push(head_out, n, [type |-> "node_success"])}
    <3>1. Fewer(head_out', head_out, Exits)
      BY <1>n, <2>3, OtherPackets, HeadOutFewer
    <3>. QED  BY <2>1, <3>1
  <2>4. CASE head_out' = Push(head_out, n, exit) /\ exit \notin Exits
    <3>1. Fewer(head_out', head_out, Exits)
      BY <1>n, <1>e, <2>4, HeadOutFewer
    <3>. QED  BY <2>1, <3>1
  <2>. QED  BY <1>1, <2>2, <2>3, <2>4
<1>5. \A q \in Ranks : (ReportsAt(q)' => ReportsAt(q)) /\ OneReport(q)'
  BY <1>n, <1>u, <1>i, <1>2, ReportsKept, SameFewer
<1>6. Decisions' \subseteq Decisions
  <2>1. \A q \in Ranks : Restored(q)' => epoch'[q] \in Decisions
    BY <1>n, <1>u, DecisionOnTheWay DEF Restored
  <2>. QED  BY <1>u, <2>1, DecisionsKept, SameFewer
<1>. QED
  BY <1>u, <1>4, <1>5, <1>6, InvariantKept

\* The head daemon makes the report of its node of the report of its rank, or loses it
\* when it does not count as many as are registered.
LEMMA CleanupAgreement ==
    ASSUME TypeOK, LayoutAssumption, OneRankPerNode, AgreementInv, NEW r \in Ranks,
           NodeHead(NodeOf[r]), process_cleanup(r)
    PROVE  AgreementInv' /\ Onward
<1>. DEFINE n == NodeOf[r]
            report == [type |-> "node_epoch",
                       epoch |-> Minimum(node_minimum_epoch[n], Head(rank_out[r]).epoch)]
<1>n. /\ rank_out \in [Ranks -> Seq(FromRank)] /\ rank_out[r] # <<>>
      /\ head_out \in [Nodes -> Seq(FromHead)] /\ NetTypeOK /\ n \in Nodes
  BY DEF TypeOK, NetTypeOK, LayoutAssumption, process_cleanup, Receives
<1>u. /\ UNCHANGED <<fd_out, rank_in, fd_in, head_in>>
      /\ UNCHANGED <<proc, exit_code, pending, pc, epoch, faults, node_epochs>>
      /\ rank_out' = Pop(rank_out, r)
      /\ head_out' \in {head_out, Push(head_out, n, report)}
  BY <1>n, HeadLeaves DEF process_cleanup, fdNet, osVars, rankVars, controllerVars,
     SendToController
<1>h. Head(rank_out[r]) \in Cleanups /\ Head(rank_out[r]).epoch \in Nat
  <2>1. Head(rank_out[r]) \in FromRank /\ Head(rank_out[r]).type = "cleanup"
    BY <1>n DEF process_cleanup, Receives
  <2>. QED  BY <2>1 DEF FromRank, Cleanups
<1>e. report \in FromHead /\ report \notin Exits
  <2>1. node_minimum_epoch[n] \in Nat \cup {None}
    BY <1>n DEF TypeOK, HeadTypeOK
  <2>2. report.epoch \in Nat
    BY <1>h, <2>1 DEF Minimum
  <2>. QED  BY <2>2 DEF FromHead, Exits
<1>i. \A q \in Ranks : OneFailure(q) /\ OneReport(q)
  BY DEF AgreementInv, FailureInv, ReportInv
<1>1. \A q \in Ranks : (FailsAt(q)' => FailsAt(q)) /\ OneFailure(q)'
  <2>1. Fewer(head_out', head_out, Exits)
    BY <1>n, <1>u, <1>e, HeadOutFewer
  <2>. QED  BY <1>n, <1>u, <1>i, <2>1, FailuresKept, SameFewer DEF Died
<1>2. ReportsAt(r) /\ ~Has(rank_out'[r], Cleanups) /\ Once(rank_out'[r], Cleanups)
  <2>1. rank_out'[r] = Tail(rank_out[r])
    BY <1>n, <1>u DEF Pop
  <2>. QED  BY <1>n, <1>h, <1>i, <2>1, TailHas DEF ReportsAt, OneReport
<1>3. /\ ~Has(head_in[n], Errors) /\ ~pending[r] /\ ~Has(head_out[n], Reports)
      /\ Once(head_in[n], Errors)
  <2>1. Has(rank_out[r], Cleanups)
    BY <1>n, <1>h, TailHas
  <2>. QED  BY <1>i, <2>1 DEF OneReport
<1>4. Once(head_out'[n], Reports)
  <2>1. head_out'[n] \in {head_out[n], Append(head_out[n], report)}
    BY <1>n, <1>u DEF Push
  <2>2. Once(head_out[n], Reports) /\ Once(Append(head_out[n], report), Reports)
    BY <1>n, <1>e, <1>i, <1>3, AppendHas DEF OneReport
  <2>. QED  BY <2>1, <2>2
<1>5. OneReport(r)'
  BY <1>u, <1>2, <1>3, <1>4 DEF OneReport
<1>6. ASSUME NEW q \in Ranks, q # r
      PROVE  (ReportsAt(q)' => ReportsAt(q)) /\ OneReport(q)'
  <2>1. rank_out'[q] = rank_out[q] /\ head_out'[NodeOf[q]] = head_out[NodeOf[q]]
    BY <1>n, <1>u, <1>6 DEF Pop, Push, OneRankPerNode
  <2>. QED  BY <1>u, <1>i, <2>1 DEF ReportsAt, OneReport
<1>7. Decisions' \subseteq Decisions
  <2>1. \A q \in Ranks : Restored(q)' => epoch'[q] \in Decisions
    BY <1>n, <1>u, DecisionOnTheWay DEF Restored
  <2>. QED  BY <1>u, <2>1, DecisionsKept, SameFewer
<1>. QED
  <2>1. \A q \in Ranks : (ReportsAt(q)' => ReportsAt(q)) /\ OneReport(q)'
    BY <1>2, <1>5, <1>6
  <2>. QED  BY <1>u, <1>1, <1>7, <2>1, InvariantKept
--------------------------------------------------------------------------------
(***************************************************************************)
(* The head daemons: packets of the controller.                            *)
(***************************************************************************)
\* A decision reaches the processes and the fault daemons of the node.
LEMMA HeadDecisionAgreement ==
    ASSUME TypeOK, LayoutAssumption, AgreementInv, NEW n \in Nodes, NodeHead(n),
           process_release(n) \/ process_commit(n) \/ process_shutdown(n)
    PROVE  AgreementInv' /\ Onward
<1>. DEFINE e == Head(head_in[n]).epoch
<1>n. /\ head_in \in [Nodes -> Seq(ToHead)] /\ head_in[n] # <<>> /\ NetTypeOK
      /\ rank_in \in [Ranks -> Seq(ToRank)] /\ fd_in \in [Ranks -> Seq(ToFaultDaemon)]
  BY DEF TypeOK, NetTypeOK, process_release, process_commit, process_shutdown, Receives
<1>u. /\ UNCHANGED <<rank_out, fd_out, head_out>> /\ head_in' = Pop(head_in, n)
      /\ UNCHANGED <<proc, exit_code, pending, pc, epoch, faults, node_epochs>>
  BY HeadLeaves DEF process_release, process_commit, process_shutdown, rankNet, fdNet, osVars,
     rankVars, controllerVars
<1>1. \A S : Fewer(head_in', head_in, S)
  BY <1>n, <1>u, PopFewer
<1>2. \A q \in Ranks : (FailsAt(q)' => FailsAt(q)) /\ (OneFailure(q) => OneFailure(q)')
  BY <1>n, <1>u, FailuresKept, SameFewer DEF Died
<1>3. \A q \in Ranks : (ReportsAt(q)' => ReportsAt(q)) /\ (OneReport(q) => OneReport(q)')
  BY <1>n, <1>u, <1>1, ReportsKept, SameFewer
<1>4. \A q \in Ranks : Restored(q)' => epoch'[q] \in Decisions
  BY <1>n, <1>u, DecisionOnTheWay DEF Restored
<1>5. Decisions' \subseteq Decisions
  <2>1. CASE process_release(n)
    <3>1. UNCHANGED fd_in
      BY <2>1 DEF process_release, fdNet
    <3>2. Fewer(rank_in', rank_in, Commits)
      BY <1>n, <2>1, OtherPackets, PushAllFewer DEF process_release, SendToRanks
    <3>. QED  BY <1>1, <1>4, <3>1, <3>2, DecisionsKept, SameFewer
  <2>2. CASE process_shutdown(n)
    <3>1. UNCHANGED rank_in
      BY <2>2 DEF process_shutdown, rankNet
    <3>2. Fewer(fd_in', fd_in, RestartPackets)
      BY <1>n, <2>2, OtherPackets, PushAllFewer DEF process_shutdown
    <3>. QED  BY <1>1, <1>4, <3>1, <3>2, DecisionsKept, SameFewer
  <2>3. CASE process_commit(n)
    <3>1. e \in Decisions \cap Nat
      BY <1>n, <2>3, DecisionOnTheWay DEF process_commit
    <3>2. /\ [type |-> "commit", epoch |-> e] \in ToRank
          /\ [type |-> "restart", epoch |-> e] \in ToFaultDaemon
      BY <3>1 DEF ToRank, ToFaultDaemon
    <3>3. Epochs(rank_in', Commits) \subseteq Epochs(rank_in, Commits) \cup {e}
      <4>. DEFINE commit == [type |-> "commit", epoch |-> e]
                  open == {r \in ranks(n) : Connected(r)}
      <4>1. rank_in' = PushAll(rank_in, open, commit) /\ commit.epoch = e
        BY <2>3 DEF process_commit, SendToRanks
      <4>2. commit \in ToRank
        BY <3>2
      <4>. HIDE DEF commit, open
      <4>3. Epochs(PushAll(rank_in, open, commit), Commits)
                \subseteq Epochs(rank_in, Commits) \cup {commit.epoch}
        BY <1>n, <4>2, PushAllFewer
      <4>. QED  BY <4>1, <4>3
    <3>4. Epochs(fd_in', RestartPackets) \subseteq Epochs(fd_in, RestartPackets) \cup {e}
      <4>. DEFINE again == [type |-> "restart", epoch |-> e]
      <4>1. fd_in' \in {fd_in, PushAll(fd_in, ActiveFaultDaemons(n), again)} /\ again.epoch = e
        BY <2>3 DEF process_commit
      <4>2. again \in ToFaultDaemon
        BY <3>2
      <4>. HIDE DEF again
      <4>3. Epochs(PushAll(fd_in, ActiveFaultDaemons(n), again), RestartPackets)
                \subseteq Epochs(fd_in, RestartPackets) \cup {again.epoch}
        BY <1>n, <4>2, PushAllFewer
      <4>. QED  BY <4>1, <4>3
    <3>5. Epochs(head_in', Commits) \subseteq Epochs(head_in, Commits)
      BY <1>1 DEF Fewer
    <3>. QED  BY <1>4, <3>1, <3>3, <3>4, <3>5 DEF Decisions
  <2>. QED  BY <2>1, <2>2, <2>3
<1>. QED
  BY <1>u, <1>2, <1>3, <1>5, InvariantKept DEF AgreementInv, FailureInv, ReportInv

\* The request to report becomes the report of a node whose process has failed, and the
\* signal of the one that has not.
LEMMA ErrorAgreement ==
    ASSUME TypeOK, LayoutAssumption, OneRankPerNode, AgreementInv, NEW n \in Nodes, NodeHead(n),
           process_error(n)
    PROVE  AgreementInv' /\ Onward
<1>. DEFINE report == [type |-> "node_epoch", epoch |-> Head(head_in[n]).epoch]
<1>r. PICK r \in Ranks : NodeOf[r] = n /\ \A q \in Ranks : q # r => NodeOf[q] # n
  BY DEF LayoutAssumption, OneRankPerNode
<1>n. /\ head_in \in [Nodes -> Seq(ToHead)] /\ head_in[n] # <<>> /\ NetTypeOK
      /\ head_out \in [Nodes -> Seq(FromHead)] /\ pending \in [Ranks -> BOOLEAN]
  BY DEF TypeOK, NetTypeOK, process_error, Receives
<1>u. /\ UNCHANGED <<rank_out, rank_in, fd_out, fd_in>> /\ head_in' = Pop(head_in, n)
      /\ UNCHANGED <<proc, exit_code, pc, epoch, faults, node_epochs>>
  BY HeadLeaves DEF process_error, rankNet, fdNet, rankVars, controllerVars
<1>h. Head(head_in[n]) \in Errors /\ Head(head_in[n]).epoch \in Nat
  <2>1. Head(head_in[n]) \in ToHead /\ Head(head_in[n]).type = "error"
    BY <1>n DEF process_error, Receives
  <2>. QED  BY <2>1 DEF ToHead, Errors
<1>e. report \in FromHead /\ report \notin Exits
  BY <1>h DEF FromHead, Exits
<1>i. \A q \in Ranks : OneFailure(q) /\ OneReport(q)
  BY DEF AgreementInv, FailureInv, ReportInv
<1>1. \/ head_out' = Push(head_out, n, report) /\ UNCHANGED pending
      \/ head_out' = head_out /\ \A q \in Ranks : q # r => pending'[q] = pending[q]
  <2>1. CASE AllDead(n)
    BY <2>1 DEF process_error, SendToController
  <2>2. CASE ~AllDead(n)
    <3>1. /\ pending' = [q \in Ranks |-> pending[q] \/ (q \in ranks(n) /\ Connected(q))]
          /\ head_out' = head_out
      BY <2>2 DEF process_error
    <3>2. \A q \in Ranks : q # r => q \notin ranks(n)
      BY <1>r DEF ranks, LocalRanks
    <3>3. ASSUME NEW q \in Ranks, q # r
          PROVE  pending'[q] = pending[q]
      <4>1. pending'[q] = (pending[q] \/ (q \in ranks(n) /\ Connected(q)))
        BY <3>1, Zenon
      <4>2. q \notin ranks(n) /\ pending[q] \in BOOLEAN
        BY <1>n, <3>2, <3>3
      <4>. QED  BY <4>1, <4>2
    <3>. QED  BY <3>1, <3>3
  <2>. QED  BY <2>1, <2>2
<1>2. \A q \in Ranks : (FailsAt(q)' => FailsAt(q)) /\ OneFailure(q)'
  <2>1. Fewer(head_out', head_out, Exits)
    BY <1>n, <1>e, <1>1, HeadOutFewer
  <2>. QED  BY <1>n, <1>u, <1>i, <2>1, FailuresKept, SameFewer DEF Died
<1>3. /\ head_in'[n] = Tail(head_in[n]) /\ Has(head_in[n], Errors)
      /\ ~Has(head_in'[n], Errors) /\ Once(head_in'[n], Errors)
  <2>1. head_in'[n] = Tail(head_in[n]) /\ Once(head_in[n], Errors)
    BY <1>r, <1>n, <1>u, <1>i DEF Pop, OneReport
  <2>. QED  BY <1>n, <1>h, <2>1, TailHas
<1>4. /\ ReportsAt(r) /\ ~pending[r] /\ ~Has(rank_out[r], Cleanups) /\ ~Has(head_out[n], Reports)
      /\ Once(rank_out[r], Cleanups) /\ Once(head_out[n], Reports)
  BY <1>r, <1>i, <1>3 DEF OneReport, ReportsAt
<1>5. OneReport(r)'
  <2>1. CASE head_out' = Push(head_out, n, report) /\ UNCHANGED pending
    <3>1. head_out'[n] = Append(head_out[n], report)
      BY <1>n, <2>1 DEF Push
    <3>2. Once(head_out'[n], Reports)
      BY <1>n, <1>e, <1>4, <3>1, AppendHas
    <3>. QED  BY <1>r, <1>u, <1>3, <1>4, <2>1, <3>2 DEF OneReport
  <2>2. CASE head_out' = head_out
    BY <1>r, <1>u, <1>3, <1>4, <2>2 DEF OneReport
  <2>. QED  BY <1>1, <2>1, <2>2
<1>6. ASSUME NEW q \in Ranks, q # r
      PROVE  (ReportsAt(q)' => ReportsAt(q)) /\ OneReport(q)'
  <2>1. NodeOf[q] \in Nodes /\ NodeOf[q] # n
    BY <1>r, <1>6 DEF LayoutAssumption
  <2>2. /\ head_in'[NodeOf[q]] = head_in[NodeOf[q]] /\ pending'[q] = pending[q]
        /\ head_out'[NodeOf[q]] = head_out[NodeOf[q]]
    BY <1>n, <1>u, <1>1, <1>6, <2>1 DEF Pop, Push
  <2>. QED  BY <1>u, <1>i, <2>2 DEF ReportsAt, OneReport
<1>7. Decisions' \subseteq Decisions
  <2>1. \A q \in Ranks : Restored(q)' => epoch'[q] \in Decisions
    BY <1>n, <1>u, DecisionOnTheWay DEF Restored
  <2>2. Fewer(head_in', head_in, Commits)
    BY <1>n, <1>u, PopFewer
  <2>. QED  BY <1>u, <2>1, <2>2, DecisionsKept, SameFewer
<1>. QED
  <2>1. \A q \in Ranks : (ReportsAt(q)' => ReportsAt(q)) /\ OneReport(q)'
    BY <1>r, <1>4, <1>5, <1>6
  <2>. QED  BY <1>u, <1>2, <1>7, <2>1, InvariantKept
--------------------------------------------------------------------------------
(***************************************************************************)
(* The controller.                                                         *)
(***************************************************************************)
LEMMA ControllerLeaves ==
    ASSUME NEW n \in Nodes, Controller,
           node_barrier(n) \/ node_success(n) \/ node_shutdown(n) \/ process_exit(n) \/ node_epoch(n)
    PROVE  /\ UNCHANGED <<rank_out, rank_in, fd_out, fd_in>>
           /\ UNCHANGED <<proc, exit_code, pending, pc, epoch, faults>>
           /\ head_out[n] # <<>> /\ head_out' = Pop(head_out, n)
BY DEF Controller, node_barrier, node_success, node_shutdown, process_exit, node_epoch, Takes,
       Receives, rankNet, fdNet, osVars, rankVars

\* Barrier, success and shutdown: the recovery does not notice. Nor does it of an exit
\* status it does not recover from.
LEMMA ControllerOtherAgreement ==
    ASSUME TypeOK, LayoutAssumption, AgreementInv, NEW n \in Nodes, Controller,
           \/ node_barrier(n) \/ node_success(n) \/ node_shutdown(n)
           \/ process_exit(n) /\ Head(head_out[n]).code # TryReload
    PROVE  AgreementInv' /\ Onward
<1>n. /\ head_in \in [Nodes -> Seq(ToHead)] /\ head_out \in [Nodes -> Seq(FromHead)] /\ NetTypeOK
  BY DEF TypeOK, NetTypeOK
<1>u. /\ UNCHANGED <<rank_out, rank_in, fd_out, fd_in>>
      /\ UNCHANGED <<proc, exit_code, pending, pc, epoch, faults, node_epochs>>
      /\ head_out[n] # <<>> /\ head_out' = Pop(head_out, n)
  BY ControllerLeaves DEF node_barrier, node_success, node_shutdown, process_exit
<1>1. \A S : Fewer(head_out', head_out, S)
  BY <1>n, <1>u, PopFewer
<1>2. Fewer(head_in', head_in, Errors) /\ Fewer(head_in', head_in, Commits)
  <2>1. \E t \in {"release", "shutdown"} : \E S :
           head_in' = head_in \/ head_in' = PushAll(head_in, S, [type |-> t])
    BY DEF node_barrier, node_success, node_shutdown, process_exit, SendToHeadDaemons
  <2>2. PICK t \in {"release", "shutdown"} : \E S :
           head_in' = head_in \/ head_in' = PushAll(head_in, S, [type |-> t])
    BY <2>1
  <2>3. PICK S : head_in' = head_in \/ head_in' = PushAll(head_in, S, [type |-> t])
    BY <2>2
  <2>. DEFINE packet == [type |-> t]
  <2>4. packet \in ToHead /\ packet \notin Errors /\ packet \notin Commits
    BY OtherPackets DEF Commits
  <2>5. head_in' = head_in \/ head_in' = PushAll(head_in, S, packet)
    BY <2>3
  <2>. HIDE DEF packet
  <2>6. CASE head_in' = PushAll(head_in, S, packet)
    BY <1>n, <2>4, <2>6, PushAllFewer
  <2>7. CASE head_in' = head_in
    BY <2>7, SameFewer
  <2>. QED  BY <2>5, <2>6, <2>7
<1>3. \A q \in Ranks : (FailsAt(q)' => FailsAt(q)) /\ (OneFailure(q) => OneFailure(q)')
  BY <1>n, <1>u, <1>1, FailuresKept, SameFewer DEF Died
<1>4. \A q \in Ranks : (ReportsAt(q)' => ReportsAt(q)) /\ (OneReport(q) => OneReport(q)')
  BY <1>n, <1>u, <1>1, <1>2, ReportsKept, SameFewer
<1>5. Decisions' \subseteq Decisions
  <2>1. \A q \in Ranks : Restored(q)' => epoch'[q] \in Decisions
    BY <1>n, <1>u, DecisionOnTheWay DEF Restored
  <2>. QED  BY <1>u, <1>2, <2>1, DecisionsKept, SameFewer
<1>. QED
  BY <1>u, <1>3, <1>4, <1>5, InvariantKept DEF AgreementInv, FailureInv, ReportInv

\* The one failure arrives: each node is asked once to report.
LEMMA ExitAgreement ==
    ASSUME TypeOK, LayoutAssumption, OneRankPerNode, AgreementInv, NEW n \in Nodes, Controller,
           process_exit(n), Head(head_out[n]).code = TryReload
    PROVE  AgreementInv' /\ Onward
<1>. DEFINE exit == Head(head_out[n])
            error == [type |-> "error", epoch |-> exit.epoch]
<1>r. PICK r \in Ranks : NodeOf[r] = n
  BY DEF LayoutAssumption
<1>n. /\ head_in \in [Nodes -> Seq(ToHead)] /\ head_out \in [Nodes -> Seq(FromHead)] /\ NetTypeOK
      /\ \A q \in Ranks : NodeOf[q] \in Nodes
  BY DEF TypeOK, NetTypeOK, LayoutAssumption
<1>u. /\ UNCHANGED <<rank_out, rank_in, fd_out, fd_in>>
      /\ UNCHANGED <<proc, exit_code, pending, pc, epoch, faults, node_epochs>>
      /\ head_out[n] # <<>> /\ head_out' = Pop(head_out, n)
      /\ head_in' = PushAll(head_in, head_daemons, error)
  BY ControllerLeaves DEF process_exit, SendToHeadDaemons
<1>h. exit \in Exits /\ exit.epoch \in Nat
  <2>1. exit \in FromHead /\ exit.type = "process_exit"
    BY <1>n DEF process_exit, Takes, Receives
  <2>. QED  BY <2>1 DEF FromHead, Exits
<1>e. error \in ToHead /\ error \notin Commits
  BY <1>h DEF ToHead, Commits
<1>. HIDE DEF error
<1>1. /\ FailsAt(r) /\ OneFailure(r)
      /\ head_out'[n] = Tail(head_out[n]) /\ ~Has(head_out'[n], Exits)
  <2>1. head_out'[n] = Tail(head_out[n]) /\ OneFailure(r)
    BY <1>n, <1>u DEF Pop, AgreementInv, FailureInv
  <2>2. Has(head_out[n], Exits) /\ Once(head_out[n], Exits)
    BY <1>r, <1>n, <1>u, <1>h, <2>1, TailHas DEF OneFailure
  <2>3. ~Has(head_out'[n], Exits)
    BY <1>n, <1>u, <1>h, <2>1, <2>2, TailHas
  <2>. QED  BY <1>r, <2>1, <2>2, <2>3 DEF FailsAt
<1>2. faults > 0 /\ NothingUnderWay /\ \A q \in Ranks : FailsAt(q) => q = r
  BY <1>1 DEF AgreementInv, FailureInv
<1>3. \A S : Fewer(head_out', head_out, S)
  BY <1>n, <1>u, PopFewer
<1>4. \A q \in Ranks : (FailsAt(q)' => FailsAt(q)) /\ OneFailure(q)'
  BY <1>n, <1>u, <1>3, FailuresKept, SameFewer DEF Died, AgreementInv, FailureInv
<1>5. \A q \in Ranks : ~FailsAt(q)'
  <2>1. ~FailsAt(r)'
    <3>1. ~Died(r) /\ ~Has(fd_out[r], Terminations)
      <4>1. Has(head_out[n], Exits)
        BY <1>n, <1>u, <1>h, TailHas
      <4>. QED  BY <1>r, <1>1, <4>1 DEF OneFailure
    <3>. QED  BY <1>r, <1>u, <1>1, <3>1 DEF FailsAt, Died
  <2>. QED  BY <1>2, <1>4, <2>1
<1>6. FailureInv'
  BY <1>u, <1>2, <1>4, <1>5 DEF FailureInv, TypeOK, RankTypeOK
<1>7. \A q \in Ranks : ~ReportsAt(q) /\ OneReport(q)
  BY <1>n, <1>2 DEF NothingUnderWay, ReportingNodes, AgreementInv, ReportInv
<1>8. \A q \in Ranks : OneReport(q)'
  <2>. TAKE q \in Ranks
  <2>1. /\ ~Has(head_in[NodeOf[q]], Errors) /\ ~pending[q] /\ ~Has(rank_out[q], Cleanups)
        /\ ~Has(head_out[NodeOf[q]], Reports)
    BY <1>7 DEF ReportsAt
  <2>2. head_in'[NodeOf[q]] \in {head_in[NodeOf[q]], Append(head_in[NodeOf[q]], error)}
    BY <1>n, <1>u DEF PushAll
  <2>3. Once(head_in'[NodeOf[q]], Errors)
    <3>1. Once(head_in[NodeOf[q]], Errors) /\ Once(Append(head_in[NodeOf[q]], error), Errors)
      BY <1>n, <1>e, <1>7, <2>1, AppendHas DEF OneReport
    <3>. QED  BY <2>2, <3>1
  <2>4. ~Has(head_out'[NodeOf[q]], Reports) /\ Once(head_out'[NodeOf[q]], Reports)
    <3>1. Once(head_out[NodeOf[q]], Reports) /\ NodeOf[q] \in DOMAIN head_out
      BY <1>n, <1>7 DEF OneReport
    <3>. QED  BY <1>3, <2>1, <3>1 DEF Fewer
  <2>. QED  BY <1>u, <1>7, <2>1, <2>3, <2>4 DEF OneReport
<1>9. ReportInv'
  <2>1. ReportingNodes' \subseteq Nodes /\ IsFiniteSet(Nodes) /\ node_epochs' = 0
    BY <1>u, <1>2 DEF ReportingNodes, LayoutAssumption, NothingUnderWay
  <2>2. /\ Cardinality(ReportingNodes') <= NodeCount
        /\ Cardinality(ReportingNodes') \in Nat /\ NodeCount \in Nat
    BY <2>1, FS_Subset, FS_CardinalityType DEF NodeCount
  <2>3. node_epochs' + Cardinality(ReportingNodes') <= NodeCount
    BY <2>1, <2>2
  <2>. QED  BY <1>8, <2>3 DEF ReportInv
<1>10. Decisions' \subseteq Decisions
  <2>1. \A q \in Ranks : Restored(q)' => epoch'[q] \in Decisions
    BY <1>n, <1>u, DecisionOnTheWay DEF Restored
  <2>2. Fewer(head_in', head_in, Commits)
    BY <1>n, <1>u, <1>e, PushAllFewer
  <2>. QED  BY <1>u, <2>1, <2>2, DecisionsKept, SameFewer
<1>11. DecisionInv'
  BY <1>2, <1>10 DEF DecisionInv, NothingUnderWay
<1>12. Onward
  BY <1>1, <1>2, <1>4, <1>10 DEF Over, Onward
<1>. QED  BY <1>6, <1>9, <1>11, <1>12 DEF AgreementInv

\* The controller counts a report; with the last one nobody has a report to make, and the
\* epoch it commits is the only decision.
LEMMA EpochAgreement ==
    ASSUME TypeOK, LayoutAssumption, OneRankPerNode, AgreementInv, NEW n \in Nodes, Controller,
           node_epoch(n)
    PROVE  /\ AgreementInv' /\ Onward /\ ~Over /\ (head_in' = head_in \/ Over')
           /\ n \in ReportingNodes /\ ReportingNodes' \subseteq ReportingNodes \ {n}
           /\ Decisions' \subseteq IF node_epochs + 1 = NodeCount
                                 THEN {GlobalMinimum(Head(head_out[n]).epoch)} ELSE {}
<1>. DEFINE lowest == GlobalMinimum(Head(head_out[n]).epoch)
            commit == [type |-> "commit", epoch |-> lowest]
<1>r. PICK r \in Ranks : NodeOf[r] = n /\ \A q \in Ranks : q # r => NodeOf[q] # n
  BY DEF LayoutAssumption, OneRankPerNode
<1>n. /\ head_in \in [Nodes -> Seq(ToHead)] /\ head_out \in [Nodes -> Seq(FromHead)] /\ NetTypeOK
      /\ \A q \in Ranks : NodeOf[q] \in Nodes
      /\ node_epochs \in Nat /\ IsFiniteSet(Nodes) /\ NodeCount \in Nat
  BY FS_CardinalityType DEF TypeOK, NetTypeOK, ControllerTypeOK, LayoutAssumption, NodeCount
<1>u. /\ UNCHANGED <<rank_out, rank_in, fd_out, fd_in>>
      /\ UNCHANGED <<proc, exit_code, pending, pc, epoch, faults>>
      /\ head_out[n] # <<>> /\ head_out' = Pop(head_out, n)
  BY ControllerLeaves
<1>h. Head(head_out[n]) \in Reports /\ Head(head_out[n]).epoch \in Nat
  <2>1. Head(head_out[n]) \in FromHead /\ Head(head_out[n]).type = "node_epoch"
    BY <1>n DEF node_epoch, Takes, Receives
  <2>. QED  BY <2>1 DEF FromHead, Reports
<1>e. commit \in ToHead /\ commit \notin Errors /\ commit.epoch = lowest
  <2>1. lowest \in Nat
    BY <1>h DEF GlobalMinimum, TypeOK, ControllerTypeOK
  <2>. QED  BY <2>1 DEF ToHead, Errors
<1>. HIDE DEF commit
<1>1. \/ /\ node_epochs + 1 = NodeCount /\ node_epochs' = 0
         /\ head_in' = PushAll(head_in, head_daemons, commit)
      \/ node_epochs' = node_epochs + 1 /\ head_in' = head_in
  BY DEF node_epoch, SendToHeadDaemons, commit
<1>2. \A S : Fewer(head_out', head_out, S)
  BY <1>n, <1>u, PopFewer
<1>3. Fewer(head_in', head_in, Errors)
  <2>1. CASE head_in' = head_in
    BY <2>1, SameFewer
  <2>2. CASE head_in' = PushAll(head_in, head_daemons, commit)
    BY <1>n, <1>e, <2>2, PushAllFewer
  <2>. QED  BY <1>1, <2>1, <2>2
<1>i. \A q \in Ranks : OneFailure(q) /\ OneReport(q)
  BY DEF AgreementInv, FailureInv, ReportInv
<1>4. \A q \in Ranks : (FailsAt(q)' => FailsAt(q)) /\ OneFailure(q)'
  BY <1>n, <1>u, <1>i, <1>2, FailuresKept, SameFewer DEF Died
<1>5. \A q \in Ranks : (ReportsAt(q)' => ReportsAt(q)) /\ OneReport(q)'
  BY <1>n, <1>u, <1>i, <1>2, <1>3, ReportsKept, SameFewer
<1>6. Has(head_out[n], Reports) /\ ~Has(head_out'[n], Reports)
  <2>1. head_out'[n] = Tail(head_out[n]) /\ Once(head_out[n], Reports)
    BY <1>r, <1>n, <1>u, <1>i DEF Pop, OneReport
  <2>. QED  BY <1>n, <1>u, <1>h, <2>1, TailHas
<1>7. n \in ReportingNodes /\ ReportingNodes' \subseteq ReportingNodes \ {n} /\ ReportingNodes \subseteq Nodes
  <2>1. ReportsAt(r)
    BY <1>r, <1>6 DEF ReportsAt
  <2>2. ~ReportsAt(r)'
    <3>1. /\ ~Has(head_in[n], Errors) /\ ~pending[r] /\ ~Has(rank_out[r], Cleanups)
          /\ Once(head_in[n], Errors)
      BY <1>r, <1>i, <1>6 DEF OneReport
    <3>2. ~Has(head_in'[n], Errors)
      BY <1>n, <1>3, <3>1 DEF Fewer
    <3>. QED  BY <1>r, <1>u, <1>6, <3>1, <3>2 DEF ReportsAt
  <2>. QED  BY <1>r, <1>5, <2>1, <2>2 DEF ReportingNodes
<1>8. /\ Cardinality(ReportingNodes') <= Cardinality(ReportingNodes) - 1 /\ IsFiniteSet(ReportingNodes')
      /\ Cardinality(ReportingNodes) \in Nat /\ Cardinality(ReportingNodes') \in Nat
  <2>1. IsFiniteSet(ReportingNodes)
    BY <1>n, <1>7, FS_Subset
  <2>2. IsFiniteSet(ReportingNodes \ {n}) /\ Cardinality(ReportingNodes \ {n}) = Cardinality(ReportingNodes) - 1
    BY <1>7, <2>1, FS_RemoveElement
  <2>3. IsFiniteSet(ReportingNodes') /\ Cardinality(ReportingNodes') <= Cardinality(ReportingNodes \ {n})
    BY <1>7, <2>2, FS_Subset
  <2>. QED  BY <2>1, <2>2, <2>3, FS_CardinalityType
<1>9. /\ \A q \in Ranks : ~FailsAt(q)' /\ ~FailsAt(q)
      /\ faults' # 0 /\ Decisions = {}
  BY <1>u, <1>4, <1>7 DEF AgreementInv, FailureInv, DecisionInv, NothingUnderWay
<1>10. FailureInv'
  BY <1>4, <1>9 DEF FailureInv
<1>11. ReportInv'
  <2>1. node_epochs + Cardinality(ReportingNodes) <= NodeCount
    BY DEF AgreementInv, ReportInv
  <2>2. node_epochs' + Cardinality(ReportingNodes') <= NodeCount
    BY <1>n, <1>1, <1>8, <2>1
  <2>. QED  BY <1>5, <2>2 DEF ReportInv
<1>12. \A q \in Ranks : Restored(q)' => epoch'[q] \in Decisions
  BY <1>n, <1>u, DecisionOnTheWay DEF Restored
<1>13. head_in' # head_in => ReportingNodes' = {}
  <2>. SUFFICES ASSUME head_in' # head_in
                PROVE  ReportingNodes' = {}
    OBVIOUS
  <2>1. Cardinality(ReportingNodes') = 0
    BY <1>n, <1>1, <1>8 DEF AgreementInv, ReportInv
  <2>. QED  BY <1>8, <2>1, FS_EmptySet
<1>14. head_in' = head_in \/ Over'
  BY <1>u, <1>9, <1>13 DEF Over, TypeOK, RankTypeOK
<1>15. Decisions' \subseteq IF node_epochs + 1 = NodeCount THEN {lowest} ELSE {}
  <2>1. CASE head_in' = head_in
    <3>1. Decisions' \subseteq Decisions
      BY <1>u, <1>12, <2>1, DecisionsKept, SameFewer
    <3>. QED  BY <1>9, <3>1
  <2>2. CASE head_in' # head_in
    <3>1. Epochs(head_in', Commits) \subseteq Epochs(head_in, Commits) \cup {commit.epoch}
      BY <1>n, <1>e, <1>1, <2>2, PushAllFewer
    <3>2. /\ Epochs(rank_in', Commits) = Epochs(rank_in, Commits)
          /\ Epochs(fd_in', RestartPackets) = Epochs(fd_in, RestartPackets)
      BY <1>u
    <3>3. Decisions' \subseteq Decisions \cup {commit.epoch}
      BY <1>12, <3>1, <3>2 DEF Decisions
    <3>. QED  BY <1>e, <1>1, <1>9, <2>2, <3>3
  <2>. QED  BY <2>1, <2>2
<1>16. DecisionInv'
  <2>1. Decisions' # {} => ReportingNodes' = {}
    BY <1>n, <1>1, <1>8, <1>15, FS_EmptySet DEF AgreementInv, ReportInv
  <2>. QED  BY <1>15, <2>1 DEF DecisionInv
<1>17. ~Over
  BY <1>7 DEF Over
<1>18. Onward
  BY <1>4, <1>7, <1>17 DEF Onward, Decides
<1>. QED  BY <1>7, <1>10, <1>11, <1>14, <1>15, <1>16, <1>17, <1>18 DEF AgreementInv

--------------------------------------------------------------------------------
LEMMA InitAgreement == Init /\ LayoutAssumption => AgreementInv
<1>. SUFFICES ASSUME Init, LayoutAssumption
              PROVE  AgreementInv
  OBVIOUS
<1>1. \A q \in Ranks : /\ ~FailsAt(q) /\ OneFailure(q) /\ ~ReportsAt(q) /\ OneReport(q)
                       /\ ~Restored(q)
  BY EmptyHas DEF Init, NetInit, RankInit, LayoutAssumption, FailsAt, OneFailure, ReportsAt,
     OneReport, Restored, Died
<1>2. /\ \A S : Epochs(head_in, S) = {} /\ Epochs(rank_in, S) = {} /\ Epochs(fd_in, S) = {}
  BY DEF Init, NetInit, Epochs
<1>3. ReportingNodes = {} /\ Decisions = {} /\ node_epochs = 0
  BY <1>1, <1>2 DEF Init, ControllerInit, ReportingNodes, Decisions
<1>4. node_epochs + Cardinality(ReportingNodes) <= NodeCount
  BY <1>3, FS_EmptySet, FS_CardinalityType DEF NodeCount, LayoutAssumption
<1>. QED
  BY <1>1, <1>3, <1>4 DEF AgreementInv, FailureInv, ReportInv, DecisionInv, NothingUnderWay

LEMMA StepAgreement ==
    ASSUME TypeOK, OneRankPerNode, MaxFaults <= 1, AgreementInv, [Next]_vars
    PROVE  AgreementInv' /\ Onward
<1>l. LayoutAssumption
  BY LayoutAssumption
<1>1. ASSUME NEW r \in Ranks, Rank(r) \/ Signal(r) \/ Failure(r) \/ Monitor(r)
      PROVE  AgreementInv' /\ Onward
  BY <1>l, <1>1, RankAgreement, SignalAgreement, FailAgreement, MonitorAgreement
<1>2. ASSUME NEW n \in Nodes, NodeHead(n)
      PROVE  AgreementInv' /\ Onward
  <2>1. ASSUME NEW r \in Ranks, NodeOf[r] = n,
               \/ process_barrier(r) \/ process_cleanup(r)
               \/ process_termination(r) \/ process_shutdown_ack(r)
        PROVE  AgreementInv' /\ Onward
    BY <1>l, <1>2, <2>1, HeadBarrierAgreement, CleanupAgreement, TerminationAgreement
  <2>2. ASSUME process_release(n) \/ process_error(n) \/ process_commit(n) \/ process_shutdown(n)
        PROVE  AgreementInv' /\ Onward
    BY <1>l, <1>2, <2>2, HeadDecisionAgreement, ErrorAgreement
  <2>. QED  BY <1>2, <2>1, <2>2 DEF NodeHead, HeadStep, LocalRanks
<1>3. CASE Controller
  <2>1. PICK n \in Nodes : \/ node_barrier(n) \/ node_success(n) \/ node_shutdown(n)
                           \/ process_exit(n) \/ node_epoch(n)
    BY <1>3 DEF Controller, ControllerStep
  <2>2. CASE process_exit(n) /\ Head(head_out[n]).code = TryReload
    BY <1>l, <1>3, <2>2, ExitAgreement
  <2>3. CASE \/ node_barrier(n) \/ node_success(n) \/ node_shutdown(n)
             \/ process_exit(n) /\ Head(head_out[n]).code # TryReload
    BY <1>l, <1>3, <2>3, ControllerOtherAgreement
  <2>4. CASE node_epoch(n)
    BY <1>l, <1>3, <2>4, EpochAgreement
  <2>. QED  BY <2>1, <2>2, <2>3, <2>4
<1>4. CASE UNCHANGED vars
  <2>1. /\ UNCHANGED <<rank_out, rank_in, fd_out, fd_in, head_out, head_in>>
        /\ UNCHANGED <<proc, exit_code, pending, pc, epoch, faults, node_epochs>>
    BY <1>4 DEF vars, netVars, rankNet, fdNet, headNet, osVars, rankVars, controllerVars
  <2>2. NetTypeOK
    BY DEF TypeOK
  <2>3. \A q \in Ranks : (FailsAt(q)' => FailsAt(q)) /\ (OneFailure(q) => OneFailure(q)')
    BY <1>l, <2>1, <2>2, FailuresKept, SameFewer DEF Died
  <2>4. \A q \in Ranks : (ReportsAt(q)' => ReportsAt(q)) /\ (OneReport(q) => OneReport(q)')
    BY <1>l, <2>1, <2>2, ReportsKept, SameFewer
  <2>5. Decisions' \subseteq Decisions
    <3>1. \A q \in Ranks : Restored(q)' => epoch'[q] \in Decisions
      BY <2>1, <2>2, DecisionOnTheWay DEF Restored
    <3>. QED  BY <2>1, <3>1, DecisionsKept, SameFewer
  <2>. QED
    BY <1>l, <2>1, <2>3, <2>4, <2>5, InvariantKept DEF AgreementInv, FailureInv, ReportInv
<1>. QED
  BY <1>1, <1>2, <1>3, <1>4 DEF Next, Finished

\* Where each node has one rank and one process fails, at whatever point of its own and of
\* the other processes' work, the processes that wait in the barrier of the recovery are
\* in the same epoch.
THEOREM RecoveriesAgree ==
    ASSUME OneRankPerNode, MaxFaults <= 1
    PROVE  Spec => []RecoveryEpochsAgree
<1>1. Init => AgreementInv
  BY LayoutAssumption, InitAgreement
<1>2. TypeOK /\ AgreementInv /\ [Next]_vars => AgreementInv'
  BY StepAgreement
<1>3. AgreementInv => RecoveryEpochsAgree
  BY DEF AgreementInv, DecisionInv, Decisions, Restored, RecoveryEpochsAgree
<1>. QED
  BY <1>1, <1>2, <1>3, TypeCorrect, PTL DEF Spec

--------------------------------------------------------------------------------
(***************************************************************************)
(* The decision of the recovery: whom it finds, and which epoch it names.  *)
(***************************************************************************)
AnyTerminations == [type : {"termination"}, code : ErrorCodes, epoch : Nat]

\* The fault daemon waits for a decision, and its head knows that it does.
Told(r) == fault_daemon[r] # "app" /\ ~Has(fd_out[r], AnyTerminations)

\* No decision to restart is on its way to the fault daemon, and none will be.
NoneToCome(r) == Over /\ ~Has(head_in[NodeOf[r]], Commits) /\ ~Has(fd_in[r], RestartPackets)

(***************************************************************************)
(* The invariant. The one commit becomes one decision to restart for each  *)
(* fault daemon that the head has an entry of. Entries are never removed:  *)
(* the entry of a restarted process is stale, and harmless because no      *)
(* other commit comes.                                                     *)
(***************************************************************************)
OneDecision(r) ==
    /\ Once(head_in[NodeOf[r]], Commits) /\ Once(fd_in[r], RestartPackets)
    /\ Has(head_in[NodeOf[r]], Commits) => Over /\ ~Has(fd_in[r], RestartPackets)
    /\ Has(fd_in[r], RestartPackets) => Told(r)
OneTermination(r) ==
    /\ Once(fd_out[r], AnyTerminations)
    /\ Has(fd_out[r], AnyTerminations) => fault_daemon[r] # "app"
    /\ fault_daemon[r] # "app" => proc[r] = "reaped"
GoodEntry(r) ==
    /\ \A n \in Nodes : r \in fault_daemons[n] => n = NodeOf[r]
    /\ r \in fault_daemons[NodeOf[r]] => Told(r) \/ NoneToCome(r)
    /\ Has(fd_in[r], RestartPackets) => Over
RestartAt(r) == OneDecision(r) /\ OneTermination(r) /\ GoodEntry(r)
RestartInv == \A r \in Ranks : RestartAt(r)

--------------------------------------------------------------------------------
\* A step that sends no termination, no commit and no decision to restart.
LEMMA RestartKept ==
    ASSUME NetTypeOK, LayoutAssumption, Over => Over', UNCHANGED fault_daemons,
           Fewer(head_in', head_in, Commits), Fewer(fd_in', fd_in, RestartPackets),
           Fewer(fd_out', fd_out, AnyTerminations), NEW r \in Ranks,
           fault_daemon'[r] = "app" <=> fault_daemon[r] = "app",
           proc[r] = "reaped" => proc'[r] = "reaped", RestartAt(r)
    PROVE  RestartAt(r)'
<1>1. /\ Has(fd_in'[r], RestartPackets) => Has(fd_in[r], RestartPackets)
      /\ Once(fd_in[r], RestartPackets) => Once(fd_in'[r], RestartPackets)
      /\ Has(fd_out'[r], AnyTerminations) => Has(fd_out[r], AnyTerminations)
      /\ Once(fd_out[r], AnyTerminations) => Once(fd_out'[r], AnyTerminations)
      /\ Has(head_in'[NodeOf[r]], Commits) => Has(head_in[NodeOf[r]], Commits)
      /\ Once(head_in[NodeOf[r]], Commits) => Once(head_in'[NodeOf[r]], Commits)
  <2>1. /\ DOMAIN fd_in = Ranks /\ DOMAIN fd_out = Ranks /\ DOMAIN head_in = Nodes
        /\ NodeOf[r] \in Nodes
    BY DEF NetTypeOK, LayoutAssumption
  <2>. QED  BY <2>1 DEF Fewer
<1>. QED
  BY <1>1 DEF RestartAt, OneDecision, OneTermination, GoodEntry, Told, NoneToCome

\* The steps of the processes.
LEMMA RankRestart ==
    ASSUME TypeOK, LayoutAssumption, RestartInv, Over => Over', NEW r \in Ranks,
           Rank(r) \/ Signal(r) \/ Failure(r)
    PROVE  RestartInv'
<1>1. UNCHANGED <<fd_out, fd_in, head_in, fault_daemon, fault_daemons>> /\ NetTypeOK
  <2>1. UNCHANGED <<fdNet, headNet, faultDaemonVars, headVars>>
    <3>1. CASE Rank(r)
      BY <3>1, RankMoves DEF Rank, TypeOK
    <3>2. CASE Signal(r) \/ Failure(r)
      BY <3>2 DEF Signal, Failure, setErr, Fail
    <3>. QED  BY <3>1, <3>2
  <2>. QED  BY <2>1 DEF fdNet, headNet, faultDaemonVars, headVars, TypeOK
<1>2. \A q \in Ranks : proc[q] = "reaped" => proc'[q] = "reaped"
  <2>1. \/ UNCHANGED proc
        \/ proc[r] = "alive" /\ proc' = [proc EXCEPT ![r] = "zombie"]
    BY DEF Rank, Signal, Failure, RankStep, MPI_Init, checkpoint_read_throws, At, Exit,
           recv_barrier_release, MPI_Comm_set_errhandler, checkpoint_write_open,
           checkpoint_write_file, checkpoint_write_check, checkpoint_write_epoch,
           checkpoint_write_close, MPIX_Checkpoint_read,
           wait_commit, MPI_Finalize, setErr, Fail, osVars
  <2>. QED  BY <1>1, <2>1 DEF NetTypeOK
<1>. QED
  BY <1>1, <1>2, RestartKept, SameFewer DEF RestartInv

\* The steps of the fault daemons.
LEMMA MonitorRestart ==
    ASSUME TypeOK, LayoutAssumption, RestartInv, Over => Over', NEW r \in Ranks, Monitor(r)
    PROVE  RestartInv'
<1>n. /\ fd_out \in [Ranks -> Seq(FromFaultDaemon)] /\ fd_in \in [Ranks -> Seq(ToFaultDaemon)]
      /\ proc \in [Ranks -> {"alive", "zombie", "reaped"}]
      /\ fault_daemon \in [Ranks -> {"app", "recv", "stopped"}] /\ NetTypeOK
      /\ \A q \in Ranks : NodeOf[q] \in Nodes
  BY DEF TypeOK, NetTypeOK, FaultDaemonTypeOK, LayoutAssumption
<1>u. UNCHANGED <<head_in, fault_daemons>>
  BY DEF Monitor, FaultDaemonStep, inform_head, restart, shutdown_ack, headNet, headVars
<1>i. \A q \in Ranks : RestartAt(q)
  BY DEF RestartInv
\* The others notice nothing.
<1>o. ASSUME NEW q \in Ranks, fd_out'[q] = fd_out[q], fd_in'[q] = fd_in[q],
             fault_daemon'[q] = fault_daemon[q], proc'[q] = proc[q]
      PROVE  RestartAt(q)'
  BY <1>u, <1>i, <1>o DEF RestartAt, OneDecision, OneTermination, GoodEntry, Told, NoneToCome
<1>1. CASE inform_head(r)
  <2>. DEFINE report == [type |-> "termination", code |-> exit_code[r],
                         epoch |-> ReadEpochFile(r)]
  <2>1. /\ fault_daemon[r] = "app" /\ proc[r] = "zombie" /\ UNCHANGED fd_in
        /\ fd_out' = Push(fd_out, r, report) /\ proc' = [proc EXCEPT ![r] = "reaped"]
        /\ fault_daemon' = [fault_daemon EXCEPT ![r] = "recv"]
    BY <1>1, <1>n DEF inform_head, WaitReturns
  <2>2. report \in FromFaultDaemon
    BY DEF TypeOK, NetTypeOK, RankTypeOK, FromFaultDaemon, ReadEpochFile, None
  <2>3. /\ ~Has(fd_out[r], AnyTerminations) /\ ~Has(fd_in[r], RestartPackets)
        /\ fault_daemon'[r] = "recv" /\ proc'[r] = "reaped"
    BY <1>n, <1>i, <2>1 DEF RestartAt, OneDecision, OneTermination, Told
  <2>4. Once(fd_out'[r], AnyTerminations)
    <3>1. fd_out'[r] = Append(fd_out[r], report)
      BY <1>n, <2>1 DEF Push
    <3>. QED  BY <1>n, <2>2, <2>3, <3>1, AppendHas
  <2>5. r \in fault_daemons[NodeOf[r]] => NoneToCome(r)
    BY <1>i, <2>1 DEF RestartAt, GoodEntry, Told
  <2>6. RestartAt(r)'
    BY <1>u, <1>i, <2>1, <2>3, <2>4, <2>5
       DEF RestartAt, OneDecision, OneTermination, GoodEntry, NoneToCome
  <2>7. \A q \in Ranks : q # r => RestartAt(q)'
    BY <1>n, <1>o, <2>1 DEF Push
  <2>. QED  BY <2>6, <2>7 DEF RestartInv
<1>2. CASE restart(r)
  <2>1. /\ fd_in[r] # <<>> /\ fd_in' = Pop(fd_in, r) /\ Receives(fd_in, r, "restart")
        /\ proc' = [proc EXCEPT ![r] = "alive"] /\ UNCHANGED fd_out
        /\ fault_daemon' = [fault_daemon EXCEPT ![r] = "app"]
    BY <1>2 DEF restart, Launch, Receives
  <2>2. Head(fd_in[r]) \in RestartPackets
    <3>1. Head(fd_in[r]) \in ToFaultDaemon
      BY <1>n, <2>1
    <3>. QED  BY <2>1, <3>1 DEF ToFaultDaemon, RestartPackets, Receives
  <2>3. Has(fd_in[r], RestartPackets) /\ ~Has(fd_in'[r], RestartPackets) /\ Once(fd_in'[r], RestartPackets)
    <3>1. fd_in'[r] = Tail(fd_in[r]) /\ Once(fd_in[r], RestartPackets)
      BY <1>n, <1>i, <2>1 DEF Pop, RestartAt, OneDecision
    <3>. QED  BY <1>n, <2>1, <2>2, <3>1, TailHas
  <2>4. /\ Over /\ Told(r) /\ ~Has(head_in[NodeOf[r]], Commits)
        /\ Once(head_in[NodeOf[r]], Commits) /\ Once(fd_out[r], AnyTerminations)
        /\ \A n \in Nodes : r \in fault_daemons[n] => n = NodeOf[r]
    BY <1>i, <2>3 DEF RestartAt, OneDecision, OneTermination, GoodEntry
  <2>5. RestartAt(r)'
    BY <1>n, <1>u, <2>1, <2>3, <2>4
       DEF RestartAt, OneDecision, OneTermination, GoodEntry, NoneToCome, Told
  <2>6. \A q \in Ranks : q # r => RestartAt(q)'
    BY <1>n, <1>o, <2>1 DEF Pop
  <2>. QED  BY <2>5, <2>6 DEF RestartInv
<1>3. CASE shutdown_ack(r)
  <2>1. /\ fd_in[r] # <<>> /\ fd_in' = Pop(fd_in, r) /\ UNCHANGED proc
        /\ fd_out' = Push(fd_out, r, [type |-> "shutdown_ack"])
        /\ fault_daemon[r] = "recv" /\ fault_daemon' = [fault_daemon EXCEPT ![r] = "stopped"]
    BY <1>3 DEF shutdown_ack, Receives, osVars
  <2>2. /\ [type |-> "shutdown_ack"] \in FromFaultDaemon
        /\ [type |-> "shutdown_ack"] \notin AnyTerminations
    BY DEF FromFaultDaemon, AnyTerminations
  <2>3. Fewer(fd_out', fd_out, AnyTerminations)
    BY <1>n, <2>1, <2>2, PushFewer
  <2>4. Fewer(fd_in', fd_in, RestartPackets)
    BY <1>n, <2>1, PopFewer
  <2>5. \A q \in Ranks : fault_daemon'[q] = "app" <=> fault_daemon[q] = "app"
    BY <1>n, <2>1
  <2>. QED  BY <1>n, <1>u, <1>i, <2>1, <2>3, <2>4, <2>5, RestartKept, SameFewer DEF RestartInv
<1>. QED  BY <1>1, <1>2, <1>3 DEF Monitor, FaultDaemonStep

\* The steps of a head daemon that serve a rank or its fault daemon: a termination makes
\* the entry.
LEMMA HeadRankRestart ==
    ASSUME TypeOK, LayoutAssumption, RestartInv, Over => Over', NEW r \in Ranks,
           NodeHead(NodeOf[r]),
           \/ process_barrier(r) \/ process_cleanup(r)
           \/ process_termination(r) \/ process_shutdown_ack(r)
    PROVE  RestartInv'
<1>n. /\ fd_out \in [Ranks -> Seq(FromFaultDaemon)] /\ NetTypeOK
      /\ NodeOf[r] \in Nodes /\ fault_daemons \in [Nodes -> SUBSET Ranks]
  BY DEF TypeOK, NetTypeOK, HeadTypeOK, LayoutAssumption
<1>u. UNCHANGED <<proc, fault_daemon, fd_in, head_in>>
  BY <1>n, HeadLeaves DEF process_barrier, process_cleanup, process_termination,
     process_shutdown_ack, fdNet, faultDaemonVars
<1>i. \A q \in Ranks : RestartAt(q)
  BY DEF RestartInv
<1>1. Fewer(fd_out', fd_out, AnyTerminations)
  <2>1. \/ fd_out' = fd_out
        \/ fd_out[r] # <<>> /\ fd_out' = Pop(fd_out, r)
    BY DEF process_barrier, process_cleanup, process_termination, process_shutdown_ack, fdNet,
           Receives
  <2>2. CASE fd_out' = fd_out
    BY <2>2, SameFewer
  <2>3. CASE fd_out[r] # <<>> /\ fd_out' = Pop(fd_out, r)
    BY <1>n, <2>3, PopFewer
  <2>. QED  BY <2>1, <2>2, <2>3
<1>2. CASE UNCHANGED fault_daemons
  BY <1>n, <1>u, <1>i, <1>1, <1>2, RestartKept, SameFewer DEF RestartInv
<1>3. CASE /\ process_termination(r)
           /\ fault_daemons' = [fault_daemons EXCEPT ![NodeOf[r]] = @ \cup {r}]
  <2>1. /\ fd_out[r] # <<>> /\ fd_out' = Pop(fd_out, r)
        /\ Head(fd_out[r]) \in AnyTerminations
    <3>1. fd_out[r] # <<>> /\ fd_out' = Pop(fd_out, r) /\ Head(fd_out[r]).type = "termination"
      BY <1>3 DEF process_termination, Receives
    <3>2. Head(fd_out[r]) \in FromFaultDaemon
      BY <1>n, <3>1
    <3>. QED  BY <3>1, <3>2 DEF FromFaultDaemon, AnyTerminations
  <2>2. /\ Has(fd_out[r], AnyTerminations) /\ ~Has(fd_out'[r], AnyTerminations)
        /\ Once(fd_out'[r], AnyTerminations)
    <3>1. fd_out'[r] = Tail(fd_out[r]) /\ Once(fd_out[r], AnyTerminations)
      BY <1>n, <1>i, <2>1 DEF Pop, RestartAt, OneTermination
    <3>. QED  BY <1>n, <2>1, <3>1, TailHas
  <2>3. fault_daemon[r] # "app" /\ proc[r] = "reaped" /\ Told(r)'
    BY <1>u, <1>i, <2>2 DEF RestartAt, OneTermination, Told
  <2>4. \A n \in Nodes : r \in fault_daemons'[n] => n = NodeOf[r]
    BY <1>n, <1>i, <1>3 DEF RestartAt, GoodEntry
  <2>5. RestartAt(r)'
    BY <1>u, <1>i, <2>2, <2>3, <2>4 DEF RestartAt, OneDecision, OneTermination, GoodEntry
  <2>6. ASSUME NEW q \in Ranks, q # r
        PROVE  RestartAt(q)'
    <3>1. /\ fd_out'[q] = fd_out[q]
          /\ \A n \in Nodes : q \in fault_daemons'[n] <=> q \in fault_daemons[n]
      BY <1>n, <1>3, <2>1, <2>6 DEF Pop
    <3>2. NodeOf[q] \in Nodes
      BY DEF LayoutAssumption
    <3>. QED
      BY <1>u, <1>i, <3>1, <3>2
         DEF RestartAt, OneDecision, OneTermination, GoodEntry, Told, NoneToCome
  <2>. QED  BY <2>5, <2>6 DEF RestartInv
<1>. QED
  BY <1>2, <1>3 DEF process_barrier, process_cleanup, process_termination, process_shutdown_ack

\* The steps of a head daemon that carry out a decision.
LEMMA HeadDecisionRestart ==
    ASSUME TypeOK, LayoutAssumption, RestartInv, Over => Over', NEW n \in Nodes, NodeHead(n),
           process_release(n) \/ process_error(n) \/ process_commit(n) \/ process_shutdown(n)
    PROVE  RestartInv'
<1>n. /\ head_in \in [Nodes -> Seq(ToHead)] /\ head_in[n] # <<>> /\ NetTypeOK
      /\ fd_in \in [Ranks -> Seq(ToFaultDaemon)] /\ head_in' = Pop(head_in, n)
      /\ \A q \in Ranks : NodeOf[q] \in Nodes
  BY DEF TypeOK, NetTypeOK, LayoutAssumption, process_release, process_error, process_commit,
         process_shutdown, Receives
<1>u. UNCHANGED <<proc, fault_daemon, fd_out, fault_daemons>>
  BY <1>n, HeadLeaves DEF process_release, process_error, process_commit, process_shutdown,
     fdNet, faultDaemonVars, headVars
<1>i. \A q \in Ranks : RestartAt(q)
  BY DEF RestartInv
<1>1. \A S : Fewer(head_in', head_in, S)
  BY <1>n, PopFewer
<1>2. CASE Fewer(fd_in', fd_in, RestartPackets)
  BY <1>n, <1>u, <1>i, <1>1, <1>2, RestartKept, SameFewer DEF RestartInv
<1>3. CASE process_shutdown(n)
  <2>1. Fewer(fd_in', fd_in, RestartPackets)
    BY <1>n, <1>3, OtherPackets, PushAllFewer DEF process_shutdown
  <2>. QED  BY <1>2, <2>1
<1>4. CASE UNCHANGED fd_in
  BY <1>2, <1>4, SameFewer
<1>5. CASE /\ process_commit(n)
           /\ fd_in' = PushAll(fd_in, fault_daemons[n],
                               [type |-> "restart", epoch |-> Head(head_in[n]).epoch])
  <2>. DEFINE again == [type |-> "restart", epoch |-> Head(head_in[n]).epoch]
  <2>1. Head(head_in[n]) \in Commits /\ again \in ToFaultDaemon
    <3>1. Head(head_in[n]) \in ToHead /\ Head(head_in[n]).type = "commit"
      BY <1>n, <1>5 DEF process_commit, Receives
    <3>2. Head(head_in[n]) \in Commits /\ Head(head_in[n]).epoch \in Nat
      BY <3>1 DEF ToHead, Commits
    <3>. QED  BY <3>2 DEF ToFaultDaemon
  <2>2. fd_in' = PushAll(fd_in, fault_daemons[n], again)
    BY <1>5
  <2>. HIDE DEF again
  <2>3. ASSUME NEW q \in Ranks, q \in fault_daemons[n]
        PROVE  RestartAt(q)'
    <3>1. NodeOf[q] = n
      BY <1>i, <2>3 DEF RestartAt, GoodEntry
    <3>2. /\ Has(head_in[n], Commits) /\ ~Has(head_in'[n], Commits)
          /\ Once(head_in'[n], Commits)
      <4>1. head_in'[n] = Tail(head_in[n]) /\ Once(head_in[n], Commits)
        BY <1>n, <1>i, <3>1 DEF Pop, RestartAt, OneDecision
      <4>. QED  BY <1>n, <2>1, <4>1, TailHas
    <3>3. Over /\ Told(q) /\ ~Has(fd_in[q], RestartPackets)
      BY <1>i, <2>3, <3>1, <3>2 DEF RestartAt, OneDecision, GoodEntry, NoneToCome
    <3>4. Once(fd_in'[q], RestartPackets)
      <4>1. fd_in'[q] = Append(fd_in[q], again)
        BY <1>n, <2>2, <2>3 DEF PushAll
      <4>. QED  BY <1>n, <2>1, <3>3, <4>1, AppendHas
    <3>5. Told(q)'
      BY <1>u, <3>3 DEF Told
    <3>. QED
      BY <1>u, <1>i, <3>1, <3>2, <3>3, <3>4, <3>5
         DEF RestartAt, OneDecision, OneTermination, GoodEntry
  <2>4. ASSUME NEW q \in Ranks, q \notin fault_daemons[n]
        PROVE  RestartAt(q)'
    <3>1. fd_in'[q] = fd_in[q]
      BY <1>n, <2>2, <2>4 DEF PushAll
    <3>2. /\ Has(head_in'[NodeOf[q]], Commits) => Has(head_in[NodeOf[q]], Commits)
          /\ Once(head_in[NodeOf[q]], Commits) => Once(head_in'[NodeOf[q]], Commits)
      BY <1>n, <1>1 DEF Fewer
    <3>. QED
      BY <1>u, <1>i, <3>1, <3>2
         DEF RestartAt, OneDecision, OneTermination, GoodEntry, Told, NoneToCome
  <2>. QED  BY <2>3, <2>4 DEF RestartInv
<1>. QED
  BY <1>3, <1>4, <1>5 DEF process_release, process_error, process_commit, process_shutdown,
     fdNet, ActiveFaultDaemons

\* The steps of the controller: it commits when the recovery has not been decided yet.
LEMMA ControllerRestart ==
    ASSUME TypeOK, LayoutAssumption, OneRankPerNode, AgreementInv, RestartInv, Over => Over',
           Controller
    PROVE  RestartInv'
<1>. PICK n \in Nodes : \/ node_barrier(n) \/ node_success(n) \/ node_shutdown(n)
                        \/ process_exit(n) \/ node_epoch(n)
  BY DEF Controller, ControllerStep
<1>n. /\ head_in \in [Nodes -> Seq(ToHead)] /\ NetTypeOK
      /\ \A q \in Ranks : NodeOf[q] \in Nodes
  BY DEF TypeOK, NetTypeOK, LayoutAssumption
<1>u. UNCHANGED <<proc, fd_out, fd_in, fault_daemon, fault_daemons>>
  BY ControllerLeaves DEF Controller, faultDaemonVars, headVars
<1>i. \A q \in Ranks : RestartAt(q)
  BY DEF RestartInv
<1>1. CASE Fewer(head_in', head_in, Commits)
  BY <1>n, <1>u, <1>i, <1>1, RestartKept, SameFewer DEF RestartInv
<1>2. CASE head_in' = head_in
  BY <1>1, <1>2, SameFewer
<1>3. ASSUME NEW packet \in ToHead, packet \notin Commits, NEW S,
             head_in' = PushAll(head_in, S, packet)
      PROVE  RestartInv'
  BY <1>n, <1>1, <1>3, PushAllFewer
<1>4. CASE node_barrier(n) \/ node_success(n) \/ node_shutdown(n)
  <2>1. [type |-> "release"] \notin Commits
    BY DEF Commits
  <2>. QED
    BY <1>2, <1>3, <1>4, <2>1, OtherPackets
       DEF node_barrier, node_success, node_shutdown, SendToHeadDaemons
<1>5. CASE process_exit(n)
  <2>1. Head(head_out[n]) \in FromHead /\ Head(head_out[n]).type = "process_exit"
    BY <1>5 DEF process_exit, Takes, Receives, TypeOK, NetTypeOK
  <2>2. Head(head_out[n]).epoch \in Nat
    BY <2>1 DEF FromHead
  <2>. DEFINE error == [type |-> "error", epoch |-> Head(head_out[n]).epoch]
  <2>3. error \in ToHead /\ error \notin Commits
    BY <2>2 DEF ToHead, Commits
  <2>4. head_in' = head_in \/ head_in' = PushAll(head_in, head_daemons, error)
    BY <1>5 DEF process_exit, SendToHeadDaemons
  <2>. HIDE DEF error
  <2>. QED  BY <1>2, <1>3, <2>3, <2>4
<1>6. CASE node_epoch(n)
  <2>1. ~Over /\ (head_in' = head_in \/ Over')
    BY <1>6, EpochAgreement
  <2>2. CASE Over'
    <3>. DEFINE commit == [type |-> "commit",
                           epoch |-> GlobalMinimum(Head(head_out[n]).epoch)]
    <3>1. commit \in ToHead
      <4>1. Head(head_out[n]) \in FromHead /\ Head(head_out[n]).type = "node_epoch"
        BY <1>6 DEF node_epoch, Takes, Receives, TypeOK, NetTypeOK
      <4>2. Head(head_out[n]).epoch \in Nat
        BY <4>1 DEF FromHead
      <4>3. GlobalMinimum(Head(head_out[n]).epoch) \in Nat
        BY <4>2 DEF GlobalMinimum, TypeOK, ControllerTypeOK
      <4>. QED  BY <4>3 DEF ToHead
    <3>2. head_in' = head_in \/ head_in' = PushAll(head_in, head_daemons, commit)
      BY <1>6 DEF node_epoch, SendToHeadDaemons
    <3>. HIDE DEF commit
    <3>3. ASSUME NEW q \in Ranks
          PROVE  RestartAt(q)'
      <4>1. ~Has(head_in[NodeOf[q]], Commits) /\ ~Has(fd_in[q], RestartPackets)
        BY <1>i, <2>1 DEF RestartAt, OneDecision, GoodEntry
      <4>2. Once(head_in'[NodeOf[q]], Commits)
        <5>1. \/ head_in'[NodeOf[q]] = head_in[NodeOf[q]]
              \/ head_in'[NodeOf[q]] = Append(head_in[NodeOf[q]], commit)
          BY <1>n, <3>2 DEF PushAll
        <5>2. Once(head_in[NodeOf[q]], Commits)
          BY <1>i DEF RestartAt, OneDecision
        <5>3. Once(Append(head_in[NodeOf[q]], commit), Commits)
          BY <1>n, <3>1, <4>1, AppendHas
        <5>. QED  BY <5>1, <5>2, <5>3
      <4>3. q \in fault_daemons[NodeOf[q]] => Told(q)
        BY <1>i, <2>1 DEF RestartAt, GoodEntry, NoneToCome
      <4>. QED
        BY <1>u, <1>i, <2>2, <4>1, <4>2, <4>3
           DEF RestartAt, OneDecision, OneTermination, GoodEntry, Told
    <3>. QED  BY <3>3 DEF RestartInv
  <2>. QED  BY <1>2, <2>1, <2>2
<1>. QED  BY <1>4, <1>5, <1>6

LEMMA StepRestart ==
    ASSUME TypeOK, OneRankPerNode, MaxFaults <= 1, AgreementInv, RestartInv, [Next]_vars
    PROVE  RestartInv'
<1>l. LayoutAssumption
  BY LayoutAssumption
<1>o. Over => Over'
  BY StepAgreement DEF Onward
<1>1. ASSUME NEW r \in Ranks, Rank(r) \/ Signal(r) \/ Failure(r)
      PROVE  RestartInv'
  BY <1>l, <1>o, <1>1, RankRestart
<1>2. ASSUME NEW r \in Ranks, Monitor(r)
      PROVE  RestartInv'
  BY <1>l, <1>o, <1>2, MonitorRestart
<1>3. ASSUME NEW n \in Nodes, NodeHead(n)
      PROVE  RestartInv'
  <2>1. ASSUME NEW r \in Ranks, NodeOf[r] = n,
               \/ process_barrier(r) \/ process_cleanup(r)
               \/ process_termination(r) \/ process_shutdown_ack(r)
        PROVE  RestartInv'
    BY <1>l, <1>o, <1>3, <2>1, HeadRankRestart
  <2>2. ASSUME process_release(n) \/ process_error(n) \/ process_commit(n) \/ process_shutdown(n)
        PROVE  RestartInv'
    BY <1>l, <1>o, <1>3, <2>2, HeadDecisionRestart
  <2>. QED  BY <1>3, <2>1, <2>2 DEF NodeHead, HeadStep, LocalRanks
<1>4. CASE Controller
  BY <1>l, <1>o, <1>4, ControllerRestart
<1>5. CASE UNCHANGED vars
  <2>1. UNCHANGED <<proc, fd_out, fd_in, head_in, fault_daemon, fault_daemons>> /\ NetTypeOK
    BY <1>5 DEF vars, netVars, fdNet, headNet, osVars, faultDaemonVars, headVars, TypeOK
  <2>. QED  BY <1>l, <1>o, <2>1, RestartKept, SameFewer DEF RestartInv
<1>. QED
  BY <1>1, <1>2, <1>3, <1>4, <1>5 DEF Next, Finished

LEMMA InitRestart == Init /\ LayoutAssumption => RestartInv
BY EmptyHas
   DEF Init, NetInit, FaultDaemonInit, HeadInit, LayoutAssumption, RestartInv, RestartAt,
       OneDecision, OneTermination, GoodEntry

\* Where each node has one rank and one process fails, a decision to restart finds no
\* process running, although entries of fault_daemons outlive the processes they are
\* about: a live process is never launched a second time, nor left a decision to find
\* after its own exit.
THEOREM RestartsFindTerminated ==
    ASSUME OneRankPerNode, MaxFaults <= 1
    PROVE  Spec => []RestartOnlyTerminated
<1>1. Init => AgreementInv /\ RestartInv
  BY LayoutAssumption, InitAgreement, InitRestart
<1>2. TypeOK /\ AgreementInv /\ RestartInv /\ [Next]_vars => AgreementInv' /\ RestartInv'
  BY StepAgreement, StepRestart
<1>3. TypeOK /\ RestartInv => RestartOnlyTerminated
  <2>. SUFFICES ASSUME TypeOK, RestartInv, NEW r \in Ranks, Carries(fd_in, r, "restart")
                PROVE  proc[r] # "alive"
    BY DEF RestartOnlyTerminated
  <2>1. Has(fd_in[r], RestartPackets)
    <3>1. fd_in[r] \in Seq(ToFaultDaemon)
      BY DEF TypeOK, NetTypeOK
    <3>2. PICK k \in 1..Len(fd_in[r]) : fd_in[r][k].type = "restart"
      BY DEF Carries
    <3>3. fd_in[r][k] \in RestartPackets
      BY <3>1, <3>2 DEF ToFaultDaemon, RestartPackets
    <3>. QED  BY <3>3 DEF Has
  <2>. QED  BY <2>1 DEF RestartInv, RestartAt, OneDecision, OneTermination, Told
<1>. QED
  BY <1>1, <1>2, <1>3, TypeCorrect, PTL DEF Spec
--------------------------------------------------------------------------------
(***************************************************************************)
(* The start of the job. As long as a process is not registered at its     *)
(* head, all are on their way into the first barrier: launched, or waiting *)
(* with one packet on the way to the controller, or counted there. D are   *)
(* the nodes that have been counted.                                       *)
(***************************************************************************)
Outside(r) == proc[r] = "alive" /\ pid[r] = 1 /\ registered[r] = 0

Quiet(r) ==
    /\ proc[r] = "alive" /\ pid[r] = 1 /\ epoch[r] = 0 /\ ~pending[r]
    /\ rank_in[r] = <<>> /\ fd_out[r] = <<>> /\ fd_in[r] = <<>>
    /\ head_in[NodeOf[r]] = <<>> /\ barrier_count[NodeOf[r]] = 0

NodeBarrier == [type |-> "node_barrier"]
Entering(r, D) ==
    \/ /\ pc[r] = "launched" /\ NodeOf[r] \notin D
       /\ rank_out[r] = <<>> /\ head_out[NodeOf[r]] = <<>>
    \/ /\ pc[r] = "init_barrier" /\ NodeOf[r] \notin D
       /\ rank_out[r] = <<BarrierPacket(r)>> /\ head_out[NodeOf[r]] = <<>>
    \/ /\ pc[r] = "init_barrier" /\ NodeOf[r] \notin D /\ registered[r] # 0
       /\ rank_out[r] = <<>> /\ head_out[NodeOf[r]] = <<NodeBarrier>>
    \/ /\ pc[r] = "init_barrier" /\ NodeOf[r] \in D /\ registered[r] # 0
       /\ rank_out[r] = <<>> /\ head_out[NodeOf[r]] = <<>>

StartState ==
    /\ faults = 0 /\ \A r \in Ranks : Quiet(r)
    /\ \E D \in SUBSET Nodes : /\ Cardinality(D) = head_daemon_count
                               /\ \A r \in Ranks : Entering(r, D)
StartInv == \A r \in Ranks : pid[r] >= 1 /\ (Outside(r) => StartState)

\* A process that is registered, or has exited, does not get outside again.
LEMMA OutsideStays ==
    ASSUME TypeOK, RestartInv, StartInv, [Next]_vars, NEW s \in Ranks
    PROVE  pid'[s] >= pid[s] /\ (Outside(s)' => Outside(s))
<1>n. /\ proc \in [Ranks -> {"alive", "zombie", "reaped"}] /\ pid \in [Ranks -> Nat]
      /\ registered \in [Ranks -> Nat] /\ fd_out \in [Ranks -> Seq(FromFaultDaemon)]
      /\ pid[s] >= 1
  BY DEF TypeOK, NetTypeOK, HeadTypeOK, StartInv
<1>1. ASSUME NEW r \in Ranks, Rank(r) \/ Signal(r) \/ Failure(r)
      PROVE  pid'[s] >= pid[s] /\ (Outside(s)' => Outside(s))
  <2>1. /\ UNCHANGED <<pid, registered>>
        /\ UNCHANGED proc \/ proc' = [proc EXCEPT ![r] = "zombie"]
    BY <1>1 DEF Rank, Signal, Failure, RankStep, MPI_Init, checkpoint_read_throws, At, Exit,
                recv_barrier_release, MPI_Comm_set_errhandler, checkpoint_write_open,
                checkpoint_write_file, checkpoint_write_check, checkpoint_write_epoch,
                checkpoint_write_close, MPIX_Checkpoint_read,
                wait_commit, MPI_Finalize, setErr, Fail, osVars, headVars
  <2>. QED  BY <1>n, <2>1 DEF Outside
<1>2. ASSUME NEW r \in Ranks, Monitor(r)
      PROVE  pid'[s] >= pid[s] /\ (Outside(s)' => Outside(s))
  <2>1. UNCHANGED registered
    BY <1>2 DEF Monitor, headVars
  <2>2. CASE inform_head(r)
    BY <1>n, <2>1, <2>2 DEF inform_head, WaitReturns, Outside
  <2>3. CASE restart(r)
    <3>1. pid' = [pid EXCEPT ![r] = @ + 1] /\ proc' = [proc EXCEPT ![r] = "alive"]
      BY <2>3 DEF restart, Launch
    <3>. QED  BY <1>n, <2>1, <3>1 DEF Outside
  <2>4. CASE shutdown_ack(r)
    BY <1>n, <2>1, <2>4 DEF shutdown_ack, osVars, Outside
  <2>. QED  BY <1>2, <2>2, <2>3, <2>4 DEF Monitor, FaultDaemonStep
<1>3. ASSUME NEW n \in Nodes, NodeHead(n)
      PROVE  pid'[s] >= pid[s] /\ (Outside(s)' => Outside(s))
  <2>1. UNCHANGED <<pid, proc>>
    BY <1>3, HeadLeaves
  <2>2. registered[s] # 0 => registered'[s] # 0 \/ Has(fd_out[s], AnyTerminations)
    <3>1. CASE UNCHANGED registered
      BY <3>1
    <3>2. CASE \E r \in Ranks : process_barrier(r)
      BY <1>n, <3>2 DEF process_barrier
    <3>3. ASSUME NEW r \in Ranks, process_termination(r),
                 registered' = [registered EXCEPT ![r] = 0]
          PROVE  registered[s] # 0 => registered'[s] # 0 \/ Has(fd_out[s], AnyTerminations)
      <4>1. fd_out[r] # <<>> /\ Head(fd_out[r]).type = "termination"
        BY <3>3 DEF process_termination, Receives
      <4>2. Head(fd_out[r]) \in FromFaultDaemon
        BY <1>n, <4>1
      <4>3. Head(fd_out[r]) \in AnyTerminations
        BY <4>1, <4>2 DEF FromFaultDaemon, AnyTerminations
      <4>4. Has(fd_out[r], AnyTerminations)
        BY <1>n, <4>1, <4>3, TailHas
      <4>. QED  BY <1>n, <3>3, <4>4
    <3>. QED
      BY <1>3, <3>1, <3>2, <3>3
         DEF NodeHead, HeadStep, LocalRanks, process_barrier, process_cleanup,
             process_termination, process_shutdown_ack, process_release, process_error,
             process_commit, process_shutdown, headVars
  <2>3. Has(fd_out[s], AnyTerminations) => proc[s] = "reaped"
    BY DEF RestartInv, RestartAt, OneTermination
  <2>. QED  BY <1>n, <2>1, <2>2, <2>3 DEF Outside
<1>4. CASE Controller
  <2>1. UNCHANGED <<proc, pid, registered>>
    BY <1>4 DEF Controller, ControllerStep, node_barrier, node_success, node_shutdown,
                process_exit, node_epoch, Takes, osVars, headVars
  <2>. QED  BY <1>n, <2>1 DEF Outside
<1>5. CASE UNCHANGED vars
  BY <1>n, <1>5 DEF vars, osVars, headVars, Outside
<1>. QED
  BY <1>1, <1>2, <1>3, <1>4, <1>5 DEF Next, Finished

\* As long as a process is outside, the others enter the barrier and do nothing else.
LEMMA StartKept ==
    ASSUME TypeOK, LayoutAssumption, OneRankPerNode, RestartInv, StartInv, [Next]_vars
    PROVE  StartInv'
<1>t. pid \in [Ranks -> Nat] /\ pid' \in [Ranks -> Nat]
  BY StepType DEF TypeOK, NetTypeOK
<1>0. SUFFICES ASSUME NEW s \in Ranks, Outside(s)'
               PROVE  StartState'
  <2>1. \A r \in Ranks : pid'[r] >= pid[r] /\ pid[r] >= 1
    BY OutsideStays DEF StartInv
  <2>2. \A r \in Ranks : pid'[r] >= 1
    BY <1>t, <2>1
  <2>. QED  BY <2>2 DEF StartInv
<1>s. Outside(s) /\ faults = 0 /\ \A r \in Ranks : Quiet(r)
  BY <1>0, OutsideStays DEF StartInv, StartState
<1>D. PICK D \in SUBSET Nodes : /\ Cardinality(D) = head_daemon_count
                                /\ \A r \in Ranks : Entering(r, D)
  BY <1>0, OutsideStays DEF StartInv, StartState
<1>n. /\ rank_out \in [Ranks -> Seq(FromRank)] /\ rank_in \in [Ranks -> Seq(ToRank)]
      /\ fd_out \in [Ranks -> Seq(FromFaultDaemon)] /\ fd_in \in [Ranks -> Seq(ToFaultDaemon)]
      /\ head_out \in [Nodes -> Seq(FromHead)] /\ head_in \in [Nodes -> Seq(ToHead)]
      /\ proc \in [Ranks -> {"alive", "zombie", "reaped"}] /\ pid \in [Ranks -> Nat]
      /\ registered \in [Ranks -> Nat] /\ pc \in [Ranks -> Locations]
      /\ barrier_count \in [Nodes -> Nat]
      /\ \A r \in Ranks : NodeOf[r] \in Nodes
  BY DEF TypeOK, NetTypeOK, HeadTypeOK, RankTypeOK, LayoutAssumption
<1>1. ASSUME NEW r \in Ranks, Rank(r) \/ Signal(r) \/ Failure(r)
      PROVE  StartState'
  <2>1. MPI_Init(r) /\ epoch[r] = 0 /\ UNCHANGED <<headVars, controllerVars>>
    BY <1>s, <1>D, <1>1 DEF Quiet, Entering, Rank, Signal, Failure, RankStep, MPI_Init,
       checkpoint_read_throws, At, recv_barrier_release, MPI_Comm_set_errhandler,
       checkpoint_write_open, checkpoint_write_file, checkpoint_write_check,
       checkpoint_write_epoch, checkpoint_write_close,
       MPIX_Checkpoint_read, wait_commit, MPI_Finalize, setErr, Fail, InCheckpoint
  <2>2. /\ pc[r] = "launched" /\ pc' = [pc EXCEPT ![r] = "init_barrier"]
        /\ rank_out' = Push(rank_out, r, BarrierPacket(r))
        /\ UNCHANGED <<rank_in, fd_out, fd_in, head_out, head_in, proc, pid, pending, epoch, faults,
                       registered, barrier_count, head_daemon_count>>
    BY <2>1 DEF MPI_Init, At, Goto, fdNet, headNet, osVars, headVars, controllerVars
  <2>3. \A q \in Ranks : Quiet(q)'
    BY <1>s, <2>2 DEF Quiet
  <2>4. Entering(r, D)'
    <3>1. NodeOf[r] \notin D /\ rank_out[r] = <<>> /\ head_out[NodeOf[r]] = <<>>
      BY <1>D, <2>2 DEF Entering
    <3>2. rank_out'[r] = <<BarrierPacket(r)>> /\ pc'[r] = "init_barrier"
      BY <1>n, <2>2, <3>1 DEF Push
    <3>. QED  BY <2>2, <3>1, <3>2 DEF Entering, BarrierPacket
  <2>5. \A q \in Ranks : q # r => Entering(q, D)'
    <3>1. \A q \in Ranks : q # r => rank_out'[q] = rank_out[q] /\ pc'[q] = pc[q]
      BY <1>n, <2>2 DEF Push
    <3>. QED  BY <1>D, <2>2, <3>1 DEF Entering, BarrierPacket
  <2>. QED  BY <1>s, <1>D, <2>2, <2>3, <2>4, <2>5 DEF StartState
<1>2. ASSUME NEW r \in Ranks, Monitor(r)
      PROVE  StartState'
  BY <1>s, <1>n, <1>2 DEF Quiet, Monitor, FaultDaemonStep, inform_head, WaitReturns, restart,
     shutdown_ack, Receives
<1>3. ASSUME NEW n \in Nodes, NodeHead(n)
      PROVE  StartState'
  <2>1. head_in[n] = <<>>
    BY <1>s DEF Quiet, LayoutAssumption
  <2>2. PICK r \in Ranks : NodeOf[r] = n /\ process_barrier(r)
    <3>1. \A r \in Ranks : fd_out[r] = <<>>
      BY <1>s DEF Quiet
    <3>2. \A r \in Ranks : rank_out[r] = <<>> \/ Head(rank_out[r]).type # "cleanup"
      <4>1. \A r \in Ranks : rank_out[r] = <<>> \/ rank_out[r] = <<BarrierPacket(r)>>
        BY <1>D DEF Entering
      <4>2. \A r \in Ranks : Head(<<BarrierPacket(r)>>) = BarrierPacket(r)
        OBVIOUS
      <4>3. \A r \in Ranks : BarrierPacket(r).type # "cleanup"
        BY DEF BarrierPacket
      <4>. QED  BY <4>1, <4>2, <4>3
    <3>. QED
      BY <1>3, <2>1, <3>1, <3>2 DEF NodeHead, HeadStep, LocalRanks, process_cleanup,
         process_termination, process_shutdown_ack, process_release, process_error,
         process_commit, process_shutdown, Receives
  <2>3. /\ rank_out[r] = <<BarrierPacket(r)>> /\ pc[r] = "init_barrier" /\ n \notin D
        /\ head_out[n] = <<>> /\ barrier_count[n] = 0 /\ pid[r] = 1
    BY <1>s, <1>D, <2>2 DEF process_barrier, Receives, Entering, Quiet
  <2>4. local_rank_count(n) = 1
    <3>1. LocalRanks(n) = {r}
      BY <2>2 DEF LocalRanks, OneRankPerNode
    <3>. QED  BY <3>1, FS_Singleton DEF local_rank_count
  <2>5. /\ rank_out' = Pop(rank_out, r) /\ head_out' = Push(head_out, n, NodeBarrier)
        /\ barrier_count' = [barrier_count EXCEPT ![n] = 0]
        /\ registered' = IF registered[r] = 0 THEN [registered EXCEPT ![r] = 1] ELSE registered
        /\ UNCHANGED <<rank_in, fd_out, fd_in, head_in, proc, pid, pending, pc, epoch, faults,
                       head_daemon_count>>
    <3>1. Head(rank_out[r]).pid = 1
      BY <2>3 DEF BarrierPacket
    <3>2. barrier_count[n] + 1 = local_rank_count(n)
      BY <2>3, <2>4
    <3>3. /\ rank_out' = Pop(rank_out, r) /\ head_out' = Push(head_out, n, NodeBarrier)
          /\ barrier_count' = [barrier_count EXCEPT ![n] = 0]
          /\ registered' = IF registered[r] = 0 THEN [registered EXCEPT ![r] = 1] ELSE registered
          /\ UNCHANGED <<rank_in, fdNet, head_in, osVars>>
      BY <2>2, <3>1, <3>2 DEF process_barrier, SendToController, Reset, NodeBarrier
    <3>4. UNCHANGED <<pc, epoch, faults, head_daemon_count>>
      BY <1>3, HeadLeaves DEF rankVars, controllerVars
    <3>. QED  BY <3>3, <3>4 DEF fdNet, osVars
  <2>6. \A q \in Ranks : Quiet(q)'
    BY <1>s, <1>n, <2>5 DEF Quiet
  <2>7. Entering(r, D)'
    <3>1. rank_out'[r] = <<>> /\ head_out'[n] = <<NodeBarrier>> /\ registered'[r] # 0
      BY <1>n, <2>3, <2>5 DEF Pop, Push
    <3>. QED  BY <2>2, <2>3, <2>5, <3>1 DEF Entering
  <2>8. \A q \in Ranks : q # r => Entering(q, D)'
    <3>1. \A q \in Ranks : q # r => /\ rank_out'[q] = rank_out[q] /\ registered'[q] = registered[q]
                                    /\ head_out'[NodeOf[q]] = head_out[NodeOf[q]]
      BY <1>n, <2>2, <2>5 DEF Pop, Push, OneRankPerNode
    <3>. QED  BY <1>D, <2>5, <3>1 DEF Entering, BarrierPacket
  <2>. QED  BY <1>s, <1>D, <2>5, <2>6, <2>7, <2>8 DEF StartState
<1>4. CASE Controller
  <2>1. PICK n \in Nodes : \/ node_barrier(n) \/ node_success(n) \/ node_shutdown(n)
                           \/ process_exit(n) \/ node_epoch(n)
    BY <1>4 DEF Controller, ControllerStep
  <2>2. PICK r \in Ranks : NodeOf[r] = n
    BY DEF LayoutAssumption
  <2>3. head_out[n] # <<>>
    BY <1>4, <2>1, ControllerLeaves
  <2>4. /\ pc[r] = "init_barrier" /\ n \notin D /\ registered[r] # 0
        /\ rank_out[r] = <<>> /\ head_out[n] = <<NodeBarrier>>
    BY <1>D, <2>2, <2>3 DEF Entering
  <2>5. node_barrier(n)
    <3>1. Head(head_out[n]).type = "node_barrier"
      BY <2>4 DEF NodeBarrier
    <3>. QED
      BY <2>1, <3>1 DEF node_success, node_shutdown, process_exit, node_epoch, Takes, Receives
  <2>6. IsFiniteSet(D) /\ Cardinality(D \cup {n}) = Cardinality(D) + 1
    <3>1. IsFiniteSet(D)
      BY FS_Subset DEF LayoutAssumption
    <3>. QED  BY <2>4, <3>1, FS_AddElement
  <2>7. ~AllNodesWaiting(n)
    <3>1. NodeOf[s] \notin D \cup {n}
      BY <1>s, <1>D, <2>2, <2>4 DEF Entering, Outside, OneRankPerNode
    <3>2. D \cup {n} \subseteq Nodes /\ D \cup {n} # Nodes
      BY <1>n, <3>1
    <3>3. Cardinality(D \cup {n}) # Cardinality(Nodes)
      BY <3>2, FS_Subset DEF LayoutAssumption
    <3>. QED  BY <1>D, <2>6, <3>3 DEF AllNodesWaiting, NodeCount
  <2>8. head_daemon_count' = head_daemon_count + 1 /\ UNCHANGED head_in
    BY <2>5, <2>7 DEF node_barrier
  <2>9. /\ head_out' = Pop(head_out, n)
        /\ UNCHANGED <<rank_out, rank_in, fd_out, fd_in, proc, pid, pending, pc, epoch, faults,
                       registered, barrier_count>>
    BY <1>4, <2>5, ControllerLeaves DEF Controller, node_barrier, Takes, osVars, headVars
  <2>10. \A q \in Ranks : Quiet(q)'
    BY <1>s, <2>8, <2>9 DEF Quiet
  <2>11. ASSUME NEW q \in Ranks
         PROVE  Entering(q, D \cup {n})'
    <3>1. CASE q = r
      <4>1. head_out'[n] = <<>>
        BY <1>n, <2>4, <2>9 DEF Pop
      <4>. QED  BY <2>2, <2>4, <2>9, <3>1, <4>1 DEF Entering
    <3>2. CASE q # r
      <4>1. NodeOf[q] # n /\ head_out'[NodeOf[q]] = head_out[NodeOf[q]]
        BY <1>n, <2>2, <2>9, <3>2 DEF Pop, OneRankPerNode
      <4>. QED  BY <1>D, <2>9, <4>1 DEF Entering, BarrierPacket
    <3>. QED  BY <3>1, <3>2
  <2>12. D \cup {n} \in SUBSET Nodes /\ Cardinality(D \cup {n}) = head_daemon_count'
    BY <1>D, <2>6, <2>8
  <2>. QED  BY <1>s, <2>9, <2>10, <2>11, <2>12 DEF StartState
<1>5. CASE UNCHANGED vars
  <2>1. UNCHANGED <<rank_out, rank_in, fd_out, fd_in, head_out, head_in, proc, pid, pending, pc,
                    epoch, faults, registered, barrier_count, head_daemon_count>>
    BY <1>5 DEF vars, netVars, rankNet, fdNet, headNet, osVars, rankVars, headVars, controllerVars
  <2>. QED  BY <1>s, <1>D, <2>1 DEF StartState, Quiet, Entering, BarrierPacket
<1>. QED
  BY <1>1, <1>2, <1>3, <1>4, <1>5 DEF Next, Finished
--------------------------------------------------------------------------------
(***************************************************************************)
(* What the epochs of the processes and of the packets have to do with     *)
(* each other. A process is never ahead of its epoch file. A process that  *)
(* has exited had failed, was at its end, or has been asked for its report *)
(* before; then it is not asked again. An epoch that a failure reports is  *)
(* one the failed process had reached, and none is beyond the last one; an *)
(* epoch on the way to a decision has been reached by those who reported.  *)
(***************************************************************************)
\* A process installs the handler before it computes, and keeps it.
HandlerAt(r) ==
    pc[r] \notin {"launched", "init_barrier", "restore_barrier", "initialized"} => handler[r]

Past(r) == faults > 0 /\ (\A q \in Ranks : ~FailsAt(q)) /\ ~Has(head_in[NodeOf[r]], Errors)

FilesAt(r) ==
    /\ ReadEpochFile(r) <= LastEpoch
    /\ IF pc[r] = "naming" THEN epoch[r] <= LastEpoch ELSE epoch[r] <= ReadEpochFile(r)
    /\ pc[r] \in {"saving", "written", "counting"} => epoch[r] < LastEpoch
    /\ HandlerAt(r)

EndAt(r) ==
    /\ is_errSet[r] \/ pc[r] = "wait_commit" => Past(r)
    /\ proc[r] # "alive" =>
          exit_code[r] = TryReload \/ LastEpoch <= ReadEpochFile(r) \/ Past(r)
    /\ pid[r] # 1 => Over
    /\ exit_code[r] = TryReload => faults > 0 /\ (proc[r] = "alive" => Over)
    /\ \A q \in Ranks : exit_code[q] = TryReload /\ exit_code[r] = TryReload => q = r

Unreached(S) ==
    {p \in S : ~(/\ p.epoch <= LastEpoch
                 /\ \A r \in Ranks : exit_code[r] = TryReload => p.epoch <= ReadEpochFile(r))}
FailuresReached ==
    /\ \A r \in Ranks : ~Has(fd_out[r], Unreached(Terminations))
    /\ \A n \in Nodes : /\ ~Has(head_out[n], Unreached(Exits))
                        /\ ~Has(head_in[n], Unreached(Errors))

Beyond(r, S) == {p \in S : ~RankReached(r, p.epoch)}
ReportReached(r) ==
    ~Has(rank_out[r], Beyond(r, Cleanups)) /\ ~Has(head_out[NodeOf[r]], Beyond(r, Reports))

Counted(D) ==
    /\ Cardinality(D) = node_epochs
    /\ \A r \in Ranks : NodeOf[r] \in D =>
          global_minimum_epoch # None /\ RankReached(r, global_minimum_epoch)
CountReached == \E D \in SUBSET (Nodes \ ReportingNodes) : Counted(D)

DecisionsReached ==
    /\ Decisions # {} => node_epochs = 0
    /\ \A e \in Decisions : \A r \in Ranks : RankReached(r, e)

ReachInv ==
    /\ \A r \in Ranks : FilesAt(r) /\ EndAt(r) /\ ReportReached(r)
    /\ FailuresReached /\ CountReached /\ DecisionsReached

\* A decision is made when all have reported, and there is no other.
LEMMA DecisionsAreLast ==
    ASSUME TypeOK, LayoutAssumption, AgreementInv
    PROVE  /\ Decisions # {} => Over
           /\ Over => \A r \in Ranks : ~ReportsAt(r) /\ Past(r)
           /\ \A r \in Ranks : pending[r] => Past(r)
           /\ Decisions \subseteq Nat
<1>1. \A r \in Ranks : ReportsAt(r) => NodeOf[r] \in ReportingNodes
  BY DEF ReportingNodes, LayoutAssumption
<1>2. faults \in Nat
  BY DEF TypeOK, RankTypeOK
<1>3. Decisions # {} => Over
  BY <1>2 DEF AgreementInv, FailureInv, DecisionInv, NothingUnderWay, Over
<1>4. Over => \A r \in Ranks : ~ReportsAt(r) /\ Past(r)
  BY <1>1 DEF Over, Past, ReportsAt
<1>5. \A r \in Ranks : pending[r] => Past(r)
  <2>. SUFFICES ASSUME NEW r \in Ranks, pending[r]
                PROVE  Past(r)
    OBVIOUS
  <2>1. ~NothingUnderWay /\ ~Has(head_in[NodeOf[r]], Errors)
    BY <1>1 DEF ReportsAt, NothingUnderWay, AgreementInv, ReportInv, OneReport
  <2>. QED  BY <1>2, <2>1 DEF AgreementInv, FailureInv, Past
<1>6. Decisions \subseteq Nat
  <2>1. \A r \in Ranks : epoch[r] \in Nat
    BY DEF TypeOK, RankTypeOK
  <2>. QED  BY <2>1 DEF Decisions, Epochs, Commits, RestartPackets
<1>. QED  BY <1>3, <1>4, <1>5, <1>6

\* How a step changes one process.
LEMMA ProcessChanges ==
    ASSUME TypeOK, LayoutAssumption, [Next]_vars, NEW r \in Ranks
    PROVE  /\ is_errSet'[r] \/ pc'[r] = "wait_commit" =>
                 is_errSet[r] \/ pc[r] = "wait_commit" \/ pending[r]
           /\ proc'[r] # "alive" =>
                 \/ proc[r] # "alive" /\ exit_code'[r] = exit_code[r]
                       /\ epoch_file'[r] = epoch_file[r]
                 \/ exit_code'[r] = TryReload
                 \/ pc[r] = "run" /\ LastEpoch <= epoch[r] /\ epoch_file'[r] = epoch_file[r]
                 \/ pc[r] = "wait_commit" \/ pending[r] \/ Restored(r)
           /\ pid'[r] = pid[r] \/ Has(fd_in[r], RestartPackets)
           /\ exit_code'[r] = TryReload =>
                 \/ exit_code[r] = TryReload
                 \/ Fail(r)
           /\ exit_code'[r] = TryReload /\ proc'[r] = "alive" =>
                 Has(fd_in[r], RestartPackets) \/ (exit_code[r] = TryReload /\ proc[r] = "alive")
           /\ proc[r] # "alive" => epoch_file'[r] = epoch_file[r]
<1>n. /\ proc \in [Ranks -> {"alive", "zombie", "reaped"}] /\ pid \in [Ranks -> Nat]
      /\ exit_code \in [Ranks -> ErrorCodes] /\ pc \in [Ranks -> Locations]
      /\ epoch_file \in [Ranks -> Nat \cup {None}] /\ is_errSet \in [Ranks -> BOOLEAN]
      /\ epoch \in [Ranks -> Nat] /\ fd_in \in [Ranks -> Seq(ToFaultDaemon)]
  BY DEF TypeOK, NetTypeOK, RankTypeOK
<1>0. CASE UNCHANGED <<proc, pid, exit_code, pc, epoch_file, is_errSet>>
  BY <1>0
<1>1. ASSUME NEW q \in Ranks, Rank(q) \/ Signal(q) \/ Failure(q)
      PROVE  /\ is_errSet'[r] \/ pc'[r] = "wait_commit" =>
                   is_errSet[r] \/ pc[r] = "wait_commit" \/ pending[r]
             /\ proc'[r] # "alive" =>
                   \/ proc[r] # "alive" /\ exit_code'[r] = exit_code[r]
                         /\ epoch_file'[r] = epoch_file[r]
                   \/ exit_code'[r] = TryReload
                   \/ pc[r] = "run" /\ LastEpoch <= epoch[r] /\ epoch_file'[r] = epoch_file[r]
                   \/ pc[r] = "wait_commit" \/ pending[r] \/ Restored(r)
             /\ pid'[r] = pid[r]
             /\ exit_code'[r] = TryReload => exit_code[r] = TryReload \/ Fail(r)
             /\ exit_code'[r] = TryReload /\ proc'[r] = "alive" =>
                   exit_code[r] = TryReload /\ proc[r] = "alive"
             /\ proc[r] # "alive" => epoch_file'[r] = epoch_file[r]
  <2>. USE <1>n DEF At, Goto, Exit, osVars, rankVars, Success, TryReload, OtherExit
  <2>1. CASE MPI_Init(q) \/ recv_barrier_release(q) \/ MPI_Comm_set_errhandler(q)
    BY <2>1 DEF MPI_Init, recv_barrier_release, MPI_Comm_set_errhandler
  <2>2. CASE \/ checkpoint_write_open(q) \/ checkpoint_write_file(q)
             \/ checkpoint_write_check(q) \/ MPIX_Checkpoint_read(q)
    BY <2>2 DEF checkpoint_write_open, checkpoint_write_file, checkpoint_write_check,
       MPIX_Checkpoint_read
  <2>3. CASE checkpoint_write_epoch(q) \/ checkpoint_write_close(q)
    BY <2>3 DEF checkpoint_write_epoch, checkpoint_write_close
  <2>4. CASE checkpoint_read_throws(q)
    BY <2>4 DEF checkpoint_read_throws, Restored
  <2>5. CASE wait_commit(q)
    BY <2>5 DEF wait_commit
  <2>6. CASE MPI_Finalize(q)
    BY <2>6 DEF MPI_Finalize
  <2>7. CASE setErr(q)
    <3>1. /\ proc[q] = "alive" /\ pending[q] /\ UNCHANGED <<pid, pc, epoch_file>>
          /\ \/ is_errSet' = [is_errSet EXCEPT ![q] = TRUE] /\ UNCHANGED <<proc, exit_code>>
             \/ /\ proc' = [proc EXCEPT ![q] = "zombie"] /\ UNCHANGED is_errSet
                /\ exit_code' = [exit_code EXCEPT ![q] = "other"]
      BY <2>7 DEF setErr
    <3>2. CASE q = r
      BY <3>1, <3>2
    <3>3. CASE q # r
      <4>1. UNCHANGED <<is_errSet[r], proc[r], exit_code[r], pid[r], pc[r], epoch_file[r]>>
        BY <3>1, <3>3
      <4>. QED  BY <4>1
    <3>. QED  BY <3>2, <3>3
  <2>8. CASE Fail(q)
    <3>1. /\ proc[q] = "alive" /\ proc' = [proc EXCEPT ![q] = "zombie"]
          /\ exit_code' = [exit_code EXCEPT ![q] = TryReload]
          /\ UNCHANGED <<pid, pc, epoch_file, is_errSet>>
      BY <2>8 DEF Fail
    <3>. QED  BY <2>8, <3>1
  <2>. QED
    BY <1>1, <2>1, <2>2, <2>3, <2>4, <2>5, <2>6, <2>7, <2>8
       DEF Rank, Signal, Failure, RankStep
<1>2. ASSUME NEW q \in Ranks, Monitor(q)
      PROVE  /\ is_errSet'[r] \/ pc'[r] = "wait_commit" => is_errSet[r] \/ pc[r] = "wait_commit"
             /\ proc'[r] # "alive" => proc[r] # "alive"
             /\ UNCHANGED <<exit_code, epoch_file>>
             /\ \/ pid'[r] = pid[r] /\ (proc'[r] = "alive" => proc[r] = "alive")
                \/ Has(fd_in[r], RestartPackets)
  <2>1. CASE inform_head(q)
    BY <1>n, <2>1 DEF inform_head, WaitReturns, rankVars
  <2>2. CASE restart(q)
    <3>1. /\ pid' = [pid EXCEPT ![q] = @ + 1] /\ proc' = [proc EXCEPT ![q] = "alive"]
          /\ pc' = [pc EXCEPT ![q] = "launched"] /\ is_errSet' = [is_errSet EXCEPT ![q] = FALSE]
          /\ UNCHANGED <<exit_code, epoch_file>> /\ Receives(fd_in, q, "restart")
      BY <2>2 DEF restart, Launch, Goto
    <3>2. Has(fd_in[q], RestartPackets)
      <4>1. Head(fd_in[q]) \in ToFaultDaemon /\ fd_in[q] # <<>>
        BY <1>n, <3>1 DEF Receives
      <4>2. Head(fd_in[q]) \in RestartPackets
        BY <3>1, <4>1 DEF Receives, ToFaultDaemon, RestartPackets
      <4>. QED  BY <1>n, <4>1, <4>2, TailHas
    <3>. QED  BY <1>n, <3>1, <3>2
  <2>3. CASE shutdown_ack(q)
    BY <2>3 DEF shutdown_ack, osVars, rankVars
  <2>. QED  BY <1>2, <2>1, <2>2, <2>3 DEF Monitor, FaultDaemonStep
<1>3. ASSUME NEW n \in Nodes, NodeHead(n)
      PROVE  UNCHANGED <<proc, pid, exit_code, pc, epoch_file, is_errSet>>
  BY <1>3, HeadLeaves DEF rankVars
<1>4. CASE Controller
  BY <1>4 DEF Controller, ControllerStep, node_barrier, node_success, node_shutdown,
     process_exit, node_epoch, Takes, osVars, rankVars
<1>5. CASE UNCHANGED vars
  BY <1>5 DEF vars, osVars, rankVars
<1>. QED
  BY <1>0, <1>1, <1>2, <1>3, <1>4, <1>5 DEF Next, Finished

(***************************************************************************)
(* Where packets come from.                                                *)
(***************************************************************************)
LEMMA RankOutNews ==
    ASSUME TypeOK, LayoutAssumption, [Next]_vars
    PROVE  \/ \A S : Fewer(rank_out', rank_out, S)
           \/ \E r \in Ranks : \E p \in FromRank :
                 /\ rank_out' = Push(rank_out, r, p)
                 /\ p \in Cleanups => proc[r] = "alive" /\ p.epoch = epoch[r]
<1>n. rank_out \in [Ranks -> Seq(FromRank)] /\ pid \in [Ranks -> Nat] /\ epoch \in [Ranks -> Nat]
  BY DEF TypeOK, NetTypeOK, RankTypeOK
<1>0. CASE UNCHANGED rank_out
  BY <1>0, SameFewer
<1>1. ASSUME NEW r \in Ranks, Rank(r)
      PROVE  \/ UNCHANGED rank_out
             \/ \E p \in FromRank : /\ rank_out' = Push(rank_out, r, p)
                                    /\ p \notin Cleanups
  <2>1. rank_out' \in {rank_out, Push(rank_out, r, BarrierPacket(r))}
    BY <1>1, RankMoves DEF Rank, TypeOK
  <2>2. BarrierPacket(r) \in FromRank /\ BarrierPacket(r) \notin Cleanups
    BY <1>n DEF BarrierPacket, FromRank, Cleanups
  <2>. QED  BY <2>1, <2>2
<1>2. ASSUME NEW r \in Ranks, Signal(r)
      PROVE  \/ UNCHANGED rank_out
             \/ \E p \in FromRank : /\ rank_out' = Push(rank_out, r, p)
                                    /\ proc[r] = "alive" /\ p.epoch = epoch[r]
  <2>. DEFINE p == [type |-> "cleanup", epoch |-> epoch[r]]
  <2>1. p \in FromRank /\ p.epoch = epoch[r]
    BY <1>n DEF FromRank
  <2>2. proc[r] = "alive" /\ rank_out' \in {rank_out, Push(rank_out, r, p)}
    BY <1>2 DEF Signal, setErr
  <2>. HIDE DEF p
  <2>. QED  BY <2>1, <2>2
<1>3. ASSUME NEW r \in Ranks, Failure(r) \/ Monitor(r)
      PROVE  UNCHANGED rank_out
  BY <1>3 DEF Failure, Fail, Monitor, FaultDaemonStep, inform_head, restart, shutdown_ack,
     Launch, rankNet
<1>4. ASSUME NEW n \in Nodes, NodeHead(n)
      PROVE  \/ UNCHANGED rank_out
             \/ \E r \in Ranks : rank_out[r] # <<>> /\ rank_out' = Pop(rank_out, r)
  BY <1>4 DEF NodeHead, HeadStep, LocalRanks, process_barrier, process_cleanup,
     process_termination, process_shutdown_ack, process_release, process_error, process_commit,
     process_shutdown, rankNet, Receives
<1>5. ASSUME NEW r \in Ranks, rank_out[r] # <<>>, rank_out' = Pop(rank_out, r), NEW S
      PROVE  Fewer(rank_out', rank_out, S)
  BY <1>n, <1>5, PopFewer
<1>6. CASE Controller
  BY <1>0, <1>6, ControllerLeaves DEF Controller, ControllerStep
<1>7. CASE UNCHANGED vars
  BY <1>0, <1>7 DEF vars, netVars, rankNet
<1>. QED
  BY <1>0, <1>1, <1>2, <1>3, <1>4, <1>5, <1>6, <1>7 DEF Next, Finished

LEMMA FaultDaemonNews ==
    ASSUME TypeOK, LayoutAssumption, [Next]_vars
    PROVE  \/ \A S : Fewer(fd_out', fd_out, S)
           \/ \E r \in Ranks : \E p \in FromFaultDaemon :
                 /\ fd_out' = Push(fd_out, r, p)
                 /\ p \in Terminations => exit_code[r] = TryReload /\ p.epoch = ReadEpochFile(r)
<1>n. fd_out \in [Ranks -> Seq(FromFaultDaemon)]
  BY DEF TypeOK, NetTypeOK
<1>0. CASE UNCHANGED fd_out
  BY <1>0, SameFewer
<1>1. ASSUME NEW r \in Ranks, Rank(r) \/ Signal(r) \/ Failure(r)
      PROVE  UNCHANGED fd_out
  BY <1>1, RankMoves DEF Rank, Signal, setErr, Failure, Fail, fdNet, TypeOK
<1>2. ASSUME NEW r \in Ranks, Monitor(r)
      PROVE  \/ UNCHANGED fd_out
             \/ \E p \in FromFaultDaemon :
                   /\ fd_out' = Push(fd_out, r, p)
                   /\ p \in Terminations => exit_code[r] = TryReload /\ p.epoch = ReadEpochFile(r)
  <2>1. CASE inform_head(r)
    <3>. DEFINE p == [type |-> "termination", code |-> exit_code[r], epoch |-> ReadEpochFile(r)]
    <3>1. p \in FromFaultDaemon /\ fd_out' = Push(fd_out, r, p)
      BY <2>1 DEF inform_head, TypeOK, NetTypeOK, RankTypeOK, FromFaultDaemon, ReadEpochFile, None
    <3>2. p \in Terminations => exit_code[r] = TryReload /\ p.epoch = ReadEpochFile(r)
      BY DEF Terminations
    <3>. HIDE DEF p
    <3>. QED  BY <3>1, <3>2
  <2>2. CASE restart(r)
    BY <2>2 DEF restart
  <2>3. CASE shutdown_ack(r)
    <3>. DEFINE p == [type |-> "shutdown_ack"]
    <3>1. p \in FromFaultDaemon /\ p \notin Terminations /\ fd_out' = Push(fd_out, r, p)
      BY <2>3 DEF shutdown_ack, FromFaultDaemon, Terminations
    <3>. HIDE DEF p
    <3>. QED  BY <3>1
  <2>. QED  BY <1>2, <2>1, <2>2, <2>3 DEF Monitor, FaultDaemonStep
<1>3. ASSUME NEW n \in Nodes, NodeHead(n)
      PROVE  UNCHANGED fd_out \/ \E r \in Ranks : fd_out[r] # <<>> /\ fd_out' = Pop(fd_out, r)
  BY <1>3 DEF NodeHead, HeadStep, LocalRanks, process_barrier, process_cleanup,
     process_termination, process_shutdown_ack, process_release, process_error, process_commit,
     process_shutdown, fdNet, Receives
<1>4. ASSUME NEW r \in Ranks, fd_out[r] # <<>>, fd_out' = Pop(fd_out, r), NEW S
      PROVE  Fewer(fd_out', fd_out, S)
  BY <1>n, <1>4, PopFewer
<1>5. CASE Controller
  BY <1>0, <1>5, ControllerLeaves DEF Controller, ControllerStep
<1>6. CASE UNCHANGED vars
  BY <1>0, <1>6 DEF vars, netVars, fdNet
<1>. QED
  BY <1>0, <1>1, <1>2, <1>3, <1>4, <1>5, <1>6 DEF Next, Finished

\* A head daemon reports what a process has reported or, without one, the epoch that it
\* is told.
ReportOf(n, p) ==
    \/ \E r \in Ranks : /\ NodeOf[r] = n /\ rank_out[r] # <<>>
                        /\ Head(rank_out[r]) \in Cleanups /\ p.epoch <= Head(rank_out[r]).epoch
    \/ /\ AllDead(n) /\ head_in[n] # <<>>
       /\ Head(head_in[n]) \in Errors /\ p.epoch = Head(head_in[n]).epoch
ExitOf(n, p) ==
    \E r \in Ranks : /\ NodeOf[r] = n /\ fd_out[r] # <<>>
                     /\ Head(fd_out[r]) \in Terminations /\ p.epoch = Head(fd_out[r]).epoch
LEMMA HeadOutNews ==
    ASSUME TypeOK, LayoutAssumption, [Next]_vars
    PROVE  \/ \A S : Fewer(head_out', head_out, S)
           \/ \E n \in Nodes : \E p \in FromHead :
                 /\ head_out' = Push(head_out, n, p)
                 /\ p \in Exits => ExitOf(n, p)
                 /\ p \in Reports => ReportOf(n, p)
<1>n. /\ head_out \in [Nodes -> Seq(FromHead)] /\ head_in \in [Nodes -> Seq(ToHead)]
      /\ fd_out \in [Ranks -> Seq(FromFaultDaemon)] /\ rank_out \in [Ranks -> Seq(FromRank)]
      /\ node_minimum_epoch \in [Nodes -> Nat \cup {None}]
      /\ \A r \in Ranks : NodeOf[r] \in Nodes
  BY DEF TypeOK, NetTypeOK, HeadTypeOK, LayoutAssumption
<1>0. CASE UNCHANGED head_out
  BY <1>0, SameFewer
<1>1. ASSUME NEW r \in Ranks, Rank(r) \/ Signal(r) \/ Failure(r) \/ Monitor(r)
      PROVE  UNCHANGED head_out
  BY <1>1, RankMoves DEF Rank, Signal, setErr, Failure, Fail, Monitor, FaultDaemonStep,
     inform_head, restart, shutdown_ack, headNet, TypeOK
<1>2. ASSUME NEW n \in Nodes, NodeHead(n)
      PROVE  \/ UNCHANGED head_out
             \/ \E p \in FromHead : /\ head_out' = Push(head_out, n, p)
                                    /\ p \in Exits => ExitOf(n, p)
                                    /\ p \in Reports => ReportOf(n, p)
  <2>. DEFINE Sent(p) == head_out' = Push(head_out, n, p)
  <2>1. ASSUME NEW r \in Ranks, NodeOf[r] = n,
               process_barrier(r) \/ process_shutdown_ack(r) \/ process_termination(r),
               UNCHANGED head_out \/ \E t \in {"node_barrier", "node_success", "node_shutdown"} :
                                         Sent([type |-> t])
        PROVE  \/ UNCHANGED head_out
               \/ \E p \in FromHead : Sent(p) /\ p \notin Exits /\ p \notin Reports
    BY <2>1, OtherPackets
  <2>2. ASSUME NEW r \in Ranks, NodeOf[r] = n, process_termination(r),
               Sent([type |-> "process_exit", code |-> Head(fd_out[r]).code,
                     epoch |-> Head(fd_out[r]).epoch])
        PROVE  \E p \in FromHead : Sent(p) /\ (p \in Exits => ExitOf(n, p)) /\ p \notin Reports
    <3>. DEFINE p == [type |-> "process_exit", code |-> Head(fd_out[r]).code,
                      epoch |-> Head(fd_out[r]).epoch]
    <3>1. fd_out[r] # <<>> /\ Head(fd_out[r]) \in [type : {"termination"}, code : ErrorCodes,
                                                    epoch : Nat]
      <4>1. fd_out[r] # <<>> /\ Head(fd_out[r]).type = "termination"
        BY <2>2 DEF process_termination, Receives
      <4>2. Head(fd_out[r]) \in FromFaultDaemon
        BY <1>n, <4>1
      <4>. QED  BY <4>1, <4>2 DEF FromFaultDaemon
    <3>2. /\ p \in FromHead /\ p \notin Reports /\ p.epoch = Head(fd_out[r]).epoch
          /\ p \in Exits => Head(fd_out[r]) \in Terminations
      BY <3>1 DEF FromHead, Reports, Exits, Terminations
    <3>3. Sent(p)
      BY <2>2
    <3>. HIDE DEF p, Sent
    <3>. QED  BY <2>2, <3>1, <3>2, <3>3 DEF ExitOf
  <2>3. ASSUME NEW r \in Ranks, NodeOf[r] = n, process_cleanup(r)
        PROVE  \/ UNCHANGED head_out
               \/ \E p \in FromHead : Sent(p) /\ p \notin Exits /\ ReportOf(n, p)
    <3>. DEFINE lowest == Minimum(node_minimum_epoch[n], Head(rank_out[r]).epoch)
                p == [type |-> "node_epoch", epoch |-> lowest]
    <3>1. rank_out[r] # <<>> /\ Head(rank_out[r]) \in Cleanups /\ Head(rank_out[r]).epoch \in Nat
      <4>1. rank_out[r] # <<>> /\ Head(rank_out[r]).type = "cleanup"
        BY <2>3 DEF process_cleanup, Receives
      <4>2. Head(rank_out[r]) \in FromRank
        BY <1>n, <4>1
      <4>. QED  BY <4>1, <4>2 DEF FromRank, Cleanups
    <3>2. lowest \in Nat /\ lowest <= Head(rank_out[r]).epoch
      <4>1. /\ node_minimum_epoch[n] = None \/ node_minimum_epoch[n] \in Nat
            /\ Head(rank_out[r]).epoch \in Nat
        BY <1>n, <3>1
      <4>. QED  BY <4>1 DEF Minimum
    <3>3. p \in FromHead /\ p \notin Exits /\ p.epoch = lowest
      BY <3>2 DEF FromHead, Exits
    <3>4. UNCHANGED head_out \/ Sent(p)
      BY <2>3 DEF process_cleanup, SendToController
    <3>. HIDE DEF p, lowest, Sent
    <3>. QED  BY <2>3, <3>1, <3>2, <3>3, <3>4 DEF ReportOf
  <2>4. ASSUME process_error(n)
        PROVE  \/ UNCHANGED head_out
               \/ \E p \in FromHead : Sent(p) /\ p \notin Exits /\ ReportOf(n, p)
    <3>. DEFINE p == [type |-> "node_epoch", epoch |-> Head(head_in[n]).epoch]
    <3>1. head_in[n] # <<>> /\ Head(head_in[n]) \in Errors /\ Head(head_in[n]).epoch \in Nat
      <4>1. head_in[n] # <<>> /\ Head(head_in[n]).type = "error"
        BY <2>4 DEF process_error, Receives
      <4>2. Head(head_in[n]) \in ToHead
        BY <1>n, <4>1
      <4>. QED  BY <4>1, <4>2 DEF ToHead, Errors
    <3>2. p \in FromHead /\ p \notin Exits /\ p.epoch = Head(head_in[n]).epoch
      BY <3>1 DEF FromHead, Exits
    <3>3. UNCHANGED head_out \/ (AllDead(n) /\ Sent(p))
      BY <2>4 DEF process_error, SendToController
    <3>. HIDE DEF p, Sent
    <3>. QED  BY <3>1, <3>2, <3>3 DEF ReportOf
  <2>5. ASSUME process_release(n) \/ process_commit(n) \/ process_shutdown(n)
        PROVE  UNCHANGED head_out
    BY <2>5 DEF process_release, process_commit, process_shutdown
  <2>6. ASSUME NEW r \in Ranks, NodeOf[r] = n,
               process_barrier(r) \/ process_shutdown_ack(r) \/ process_termination(r)
        PROVE  \/ UNCHANGED head_out
               \/ \E t \in {"node_barrier", "node_success", "node_shutdown"} : Sent([type |-> t])
               \/ /\ process_termination(r)
                  /\ Sent([type |-> "process_exit", code |-> Head(fd_out[r]).code,
                           epoch |-> Head(fd_out[r]).epoch])
    BY <2>6 DEF process_barrier, process_shutdown_ack, process_termination, SendToController
  <2>. HIDE DEF Sent
  <2>7. \/ UNCHANGED head_out
        \/ \E p \in FromHead : /\ Sent(p)
                               /\ p \in Exits => ExitOf(n, p)
                               /\ p \in Reports => ReportOf(n, p)
    BY <1>2, <2>1, <2>2, <2>3, <2>4, <2>5, <2>6 DEF NodeHead, HeadStep, LocalRanks
  <2>. QED  BY <2>7 DEF Sent
<1>3. CASE Controller
  <2>1. PICK n \in Nodes : head_out[n] # <<>> /\ head_out' = Pop(head_out, n)
    BY <1>3, ControllerLeaves DEF Controller, ControllerStep
  <2>. QED  BY <1>n, <2>1, PopFewer
<1>4. CASE UNCHANGED vars
  BY <1>0, <1>4 DEF vars, netVars, headNet
<1>. QED
  BY <1>0, <1>1, <1>2, <1>3, <1>4 DEF Next, Finished

\* The controller asks for reports with the epoch that a failure has reported.
LEMMA HeadInNews ==
    ASSUME TypeOK, LayoutAssumption, [Next]_vars
    PROVE  \/ \A S : Fewer(head_in', head_in, S)
           \/ \E p \in ToHead : \E T :
                 /\ head_in' = PushAll(head_in, T, p)
                 /\ p \in Errors => \E n \in Nodes : /\ head_out[n] # <<>>
                                                     /\ Head(head_out[n]) \in Exits
                                                     /\ p.epoch = Head(head_out[n]).epoch
<1>n. head_out \in [Nodes -> Seq(FromHead)] /\ head_in \in [Nodes -> Seq(ToHead)]
  BY DEF TypeOK, NetTypeOK
<1>0. CASE UNCHANGED head_in
  BY <1>0, SameFewer
<1>1. ASSUME NEW r \in Ranks, Rank(r) \/ Signal(r) \/ Failure(r) \/ Monitor(r)
      PROVE  UNCHANGED head_in
  BY <1>1, RankMoves DEF Rank, Signal, setErr, Failure, Fail, Monitor, FaultDaemonStep,
     inform_head, restart, shutdown_ack, headNet, TypeOK
<1>2. ASSUME NEW n \in Nodes, NodeHead(n)
      PROVE  UNCHANGED head_in \/ (head_in[n] # <<>> /\ head_in' = Pop(head_in, n))
  BY <1>2 DEF NodeHead, HeadStep, LocalRanks, process_barrier, process_cleanup,
     process_termination, process_shutdown_ack, process_release, process_error, process_commit,
     process_shutdown, Receives
<1>3. ASSUME NEW n \in Nodes, head_in[n] # <<>>, head_in' = Pop(head_in, n), NEW S
      PROVE  Fewer(head_in', head_in, S)
  BY <1>n, <1>3, PopFewer
<1>4. CASE Controller
  <2>. DEFINE Sent(p) == \E T : head_in' = PushAll(head_in, T, p)
  <2>1. PICK n \in Nodes : \/ node_barrier(n) \/ node_success(n) \/ node_shutdown(n)
                           \/ process_exit(n) \/ node_epoch(n)
    BY <1>4 DEF Controller, ControllerStep
  <2>2. CASE node_barrier(n) \/ node_success(n) \/ node_shutdown(n)
    <3>1. UNCHANGED head_in \/ \E t \in {"release", "shutdown"} : Sent([type |-> t])
      BY <2>2 DEF node_barrier, node_success, node_shutdown, SendToHeadDaemons
    <3>. HIDE DEF Sent
    <3>2. UNCHANGED head_in \/ \E p \in ToHead : Sent(p) /\ p \notin Errors
      BY <3>1, OtherPackets
    <3>. QED  BY <1>0, <3>2 DEF Sent
  <2>3. CASE process_exit(n)
    <3>. DEFINE p == [type |-> "error", epoch |-> Head(head_out[n]).epoch]
    <3>1. /\ head_out[n] # <<>>
          /\ UNCHANGED head_in \/ (Head(head_out[n]).code = TryReload /\ Sent(p))
      BY <2>3 DEF process_exit, Takes, Receives, SendToHeadDaemons
    <3>2. /\ Head(head_out[n]).code = TryReload => Head(head_out[n]) \in Exits
          /\ Head(head_out[n]).epoch \in Nat
      <4>1. Head(head_out[n]) \in FromHead /\ Head(head_out[n]).type = "process_exit"
        BY <1>n, <2>3, <3>1 DEF process_exit, Takes, Receives
      <4>. QED  BY <4>1 DEF FromHead, Exits
    <3>3. p \in ToHead /\ p.epoch = Head(head_out[n]).epoch
      BY <3>2 DEF ToHead
    <3>. HIDE DEF p, Sent
    <3>4. \/ UNCHANGED head_in
          \/ p \in ToHead /\ Sent(p) /\ Head(head_out[n]) \in Exits
      BY <3>1, <3>2, <3>3
    <3>. QED  BY <1>0, <3>1, <3>3, <3>4 DEF Sent
  <2>4. CASE node_epoch(n)
    <3>. DEFINE p == [type |-> "commit", epoch |-> GlobalMinimum(Head(head_out[n]).epoch)]
    <3>1. UNCHANGED head_in \/ Sent(p)
      BY <2>4 DEF node_epoch, SendToHeadDaemons
    <3>2. p \in ToHead /\ p \notin Errors
      <4>1. Head(head_out[n]) \in FromHead /\ Head(head_out[n]).type = "node_epoch"
        BY <1>n, <2>4 DEF node_epoch, Takes, Receives
      <4>2. Head(head_out[n]).epoch \in Nat
        BY <4>1 DEF FromHead
      <4>3. GlobalMinimum(Head(head_out[n]).epoch) \in Nat
        BY <4>2 DEF GlobalMinimum, TypeOK, ControllerTypeOK
      <4>. QED  BY <4>3 DEF ToHead, Errors
    <3>. HIDE DEF p, Sent
    <3>. QED  BY <1>0, <3>1, <3>2 DEF Sent
  <2>. QED  BY <2>1, <2>2, <2>3, <2>4
<1>5. CASE UNCHANGED vars
  BY <1>0, <1>5 DEF vars, netVars, headNet
<1>. QED
  BY <1>0, <1>1, <1>2, <1>3, <1>4, <1>5 DEF Next, Finished

\* How far a process is, and how a step changes that: only a decision can put it back.
Limit(r) == IF proc[r] = "alive" THEN epoch[r] ELSE ReadEpochFile(r)
Adopts(r) == Limit(r)' \in Decisions
LEMMA LimitIsReached ==
    ASSUME TypeOK, NEW r \in Ranks
    PROVE  Limit(r) \in Nat /\ \A e : RankReached(r, e) <=> e <= Limit(r)
BY DEF TypeOK, RankTypeOK, Limit, RankReached, ReadEpochFile, None

LEMMA LimitMoves ==
    ASSUME TypeOK, LayoutAssumption, RestartInv, ReachInv, [Next]_vars, NEW r \in Ranks
    PROVE  FilesAt(r)' /\ (Limit(r) <= Limit(r)' \/ Adopts(r) \/ Fail(r))
<1>n. /\ proc \in [Ranks -> {"alive", "zombie", "reaped"}] /\ pc \in [Ranks -> Locations]
      /\ epoch_file \in [Ranks -> Nat \cup {None}] /\ epoch \in [Ranks -> Nat]
      /\ LastEpoch \in Nat /\ NetTypeOK /\ None = -1 /\ handler \in [Ranks -> BOOLEAN]
  BY ApplicationAssumption DEF TypeOK, NetTypeOK, RankTypeOK, None
<1>f. \A q \in Ranks : FilesAt(q)
  BY DEF ReachInv
<1>e. \A e \in Decisions : \A q \in Ranks : e <= Limit(q)
  BY LimitIsReached DEF ReachInv, DecisionsReached
<1>. USE DEF FilesAt, HandlerAt, Limit, ReadEpochFile
<1>0. ASSUME UNCHANGED <<epoch, epoch_file, pc, handler>>,
             proc'[r] = "alive" => proc[r] = "alive",
             proc'[r] # "alive" /\ pc[r] = "naming" => proc[r] # "alive" \/ Fail(r)
      PROVE  FilesAt(r)' /\ (Limit(r) <= Limit(r)' \/ Adopts(r) \/ Fail(r))
  BY <1>0, <1>n, <1>f
<1>1. ASSUME NEW q \in Ranks, Rank(q) \/ Signal(q) \/ Failure(q)
      PROVE  FilesAt(r)' /\ (Limit(r) <= Limit(r)' \/ Adopts(r) \/ Fail(r))
  <2>. USE <1>n DEF At, Goto, Exit, osVars, rankVars
  <2>1. CASE MPI_Init(q) \/ MPI_Comm_set_errhandler(q)
    BY <1>f, <2>1 DEF MPI_Init, MPI_Comm_set_errhandler
  <2>2. CASE \/ checkpoint_write_open(q) \/ checkpoint_write_file(q)
             \/ checkpoint_write_check(q) \/ MPIX_Checkpoint_read(q)
    BY <1>f, <2>2 DEF checkpoint_write_open, checkpoint_write_file, checkpoint_write_check,
       MPIX_Checkpoint_read
  <2>3. CASE checkpoint_write_epoch(q) \/ checkpoint_write_close(q)
    BY <1>f, <2>3 DEF checkpoint_write_epoch, checkpoint_write_close
  <2>4. CASE checkpoint_read_throws(q) \/ MPI_Finalize(q) \/ setErr(q) \/ Fail(q)
    <3>1. /\ UNCHANGED <<epoch, epoch_file, pc, handler>> /\ proc[q] = "alive"
          /\ UNCHANGED proc \/ proc' = [proc EXCEPT ![q] = "zombie"]
      BY <2>4 DEF checkpoint_read_throws, MPI_Finalize, setErr, Fail
    <3>2. UNCHANGED proc \/ pc[q] # "naming" \/ Fail(q)
      BY <1>f, <2>4 DEF checkpoint_read_throws, MPI_Finalize, setErr
    <3>. QED  BY <1>0, <3>1, <3>2
  <2>5. CASE recv_barrier_release(q)
    BY <1>f, <2>5 DEF recv_barrier_release, EpochAfterBarrier, InBarrier
  <2>6. CASE wait_commit(q)
    <3>1. CASE Head(rank_in[q]).type = "commit"
      <4>1. /\ proc[q] = "alive" /\ UNCHANGED <<proc, epoch_file>>
            /\ epoch' = [epoch EXCEPT ![q] = Head(rank_in[q]).epoch]
            /\ pc' = [pc EXCEPT ![q] = "reload_barrier"]
        BY <2>6, <3>1 DEF wait_commit, CommittedEpoch
      <4>h. pc[q] = "wait_commit" /\ UNCHANGED handler
        BY <2>6 DEF wait_commit
      <4>2. Head(rank_in[q]).epoch \in Decisions \cap Nat
        BY <2>6, <3>1, DecisionOnTheWay DEF wait_commit
      <4>3. Head(rank_in[q]).epoch <= epoch[q]
        BY <1>e, <4>1, <4>2
      <4>4. CASE r = q
        <5>1. epoch'[r] = Head(rank_in[q]).epoch /\ pc'[r] = "reload_barrier"
          BY <4>1, <4>4
        <5>2. Adopts(r)
          BY <4>1, <4>2, <4>4, <5>1 DEF Adopts
        <5>3. FilesAt(r)'
          BY <1>f, <4>1, <4>2, <4>3, <4>4, <4>h, <5>1
        <5>. QED  BY <5>2, <5>3
      <4>5. CASE r # q
        BY <1>f, <4>1, <4>5, <4>h
      <4>. QED  BY <4>4, <4>5
    <3>2. CASE Head(rank_in[q]).type # "commit"
      <4>1. /\ UNCHANGED <<epoch, epoch_file, pc, handler>> /\ pc[q] = "wait_commit"
            /\ proc' = [proc EXCEPT ![q] = "zombie"] /\ proc[q] = "alive"
        BY <2>6, <3>2 DEF wait_commit
      <4>. QED  BY <1>0, <4>1
    <3>. QED  BY <3>1, <3>2
  <2>. QED
    BY <1>1, <2>1, <2>2, <2>3, <2>4, <2>5, <2>6 DEF Rank, Signal, Failure, RankStep
<1>2. ASSUME NEW q \in Ranks, Monitor(q)
      PROVE  FilesAt(r)' /\ (Limit(r) <= Limit(r)' \/ Adopts(r) \/ Fail(r))
  <2>1. CASE inform_head(q) \/ shutdown_ack(q)
    BY <1>0, <1>n, <2>1 DEF inform_head, WaitReturns, shutdown_ack, rankVars, osVars
  <2>2. CASE restart(q)
    <3>1. /\ fault_daemon[q] # "app" /\ Receives(fd_in, q, "restart") /\ UNCHANGED epoch_file
          /\ epoch' = [epoch EXCEPT ![q] = Head(fd_in[q]).epoch]
          /\ proc' = [proc EXCEPT ![q] = "alive"] /\ pc' = [pc EXCEPT ![q] = "launched"]
          /\ handler' = [handler EXCEPT ![q] = FALSE]
      BY <2>2 DEF restart, Launch, Goto
    <3>2. Head(fd_in[q]).epoch \in Decisions \cap Nat
      BY <1>n, <3>1, DecisionOnTheWay
    <3>3. proc[q] = "reaped"
      BY <3>1 DEF RestartInv, RestartAt, OneTermination
    <3>4. Head(fd_in[q]).epoch <= ReadEpochFile(q)
      BY <1>e, <3>2, <3>3
    <3>5. CASE r = q
      <4>1. epoch'[r] = Head(fd_in[q]).epoch /\ pc'[r] = "launched" /\ proc'[r] = "alive"
        BY <1>n, <3>1, <3>5
      <4>2. Adopts(r)
        BY <3>2, <4>1 DEF Adopts
      <4>3. FilesAt(r)'
        BY <1>n, <1>f, <3>1, <3>2, <3>4, <3>5, <4>1
      <4>. QED  BY <4>2, <4>3
    <3>6. CASE r # q
      BY <1>n, <1>f, <3>1, <3>6
    <3>. QED  BY <3>5, <3>6
  <2>. QED  BY <1>2, <2>1, <2>2 DEF Monitor, FaultDaemonStep
<1>3. ASSUME NEW n \in Nodes, NodeHead(n)
      PROVE  FilesAt(r)' /\ (Limit(r) <= Limit(r)' \/ Adopts(r) \/ Fail(r))
  BY <1>0, <1>3, HeadLeaves DEF rankVars
<1>4. CASE Controller
  BY <1>0, <1>4 DEF Controller, ControllerStep, node_barrier, node_success, node_shutdown,
     process_exit, node_epoch, Takes, osVars, rankVars
<1>5. CASE UNCHANGED vars
  BY <1>0, <1>5 DEF vars, osVars, rankVars
<1>. QED
  BY <1>1, <1>2, <1>3, <1>4, <1>5 DEF Next, Finished

\* There is at most one failure.
LEMMA FirstFailure ==
    ASSUME TypeOK, MaxFaults <= 1, [Next]_vars
    PROVE  /\ faults' \in Nat /\ faults' >= faults
           /\ \A r \in Ranks : Fail(r) =>
                 /\ faults = 0 /\ faults' = 1 /\ UNCHANGED <<fdNet, headNet, epoch_file>>
                 /\ \A q \in Ranks \ {r} : exit_code'[q] = exit_code[q]
<1>n. faults \in Nat /\ MaxFaults \in Nat /\ exit_code \in [Ranks -> ErrorCodes]
  BY ApplicationAssumption DEF TypeOK, NetTypeOK, RankTypeOK
<1>1. \A r \in Ranks : Fail(r) =>
         /\ faults = 0 /\ faults' = 1 /\ UNCHANGED <<fdNet, headNet, epoch_file>>
         /\ \A q \in Ranks \ {r} : exit_code'[q] = exit_code[q]
  BY <1>n DEF Fail, Exit
<1>2. faults' = faults \/ \E r \in Ranks : Fail(r)
  <2>1. ASSUME NEW r \in Ranks, Rank(r) \/ Signal(r) \/ Monitor(r)
        PROVE  faults' = faults
    BY <2>1, RankMoves DEF Rank, Signal, setErr, Monitor, FaultDaemonStep, inform_head, restart,
       Launch, shutdown_ack, rankVars, TypeOK
  <2>2. ASSUME NEW n \in Nodes, NodeHead(n)
        PROVE  faults' = faults
    BY <2>2, HeadLeaves DEF rankVars
  <2>3. Controller \/ UNCHANGED vars => faults' = faults
    BY DEF Controller, vars, rankVars
  <2>. QED  BY <2>1, <2>2, <2>3 DEF Next, Failure, Finished
<1>. QED  BY <1>n, <1>1, <1>2

\* A process that is past its report stays so.
LEMMA PastStays ==
    ASSUME TypeOK, LayoutAssumption, OneRankPerNode, MaxFaults <= 1, AgreementInv, [Next]_vars,
           NEW r \in Ranks, Past(r)
    PROVE  Past(r)'
<1>n. /\ head_in \in [Nodes -> Seq(ToHead)] /\ head_out \in [Nodes -> Seq(FromHead)]
      /\ NodeOf[r] \in Nodes /\ faults \in Nat
  BY DEF TypeOK, NetTypeOK, RankTypeOK, LayoutAssumption
<1>1. faults' > 0 /\ \A q \in Ranks : ~FailsAt(q)'
  BY <1>n, FirstFailure, StepAgreement DEF Onward, Past
<1>2. Fewer(head_in', head_in, Errors)
  <2>1. ASSUME NEW n \in Nodes, head_out[n] # <<>>, Head(head_out[n]) \in Exits
        PROVE  FALSE
    <3>1. PICK q \in Ranks : NodeOf[q] = n
      BY DEF LayoutAssumption
    <3>2. Has(head_out[n], Exits)
      BY <1>n, <2>1, TailHas
    <3>. QED  BY <3>1, <3>2 DEF Past, FailsAt
  <2>2. \/ Fewer(head_in', head_in, Errors)
        \/ \E p \in ToHead : \E T : head_in' = PushAll(head_in, T, p) /\ p \notin Errors
    BY <2>1, HeadInNews
  <2>3. ASSUME NEW p \in ToHead, NEW T, head_in' = PushAll(head_in, T, p), p \notin Errors
        PROVE  Fewer(head_in', head_in, Errors)
    BY <1>n, <2>3, PushAllFewer
  <2>. QED  BY <2>2, <2>3
<1>. QED  BY <1>n, <1>1, <1>2 DEF Past, Fewer

LEMMA EndStays ==
    ASSUME TypeOK, LayoutAssumption, OneRankPerNode, MaxFaults <= 1, AgreementInv, RestartInv,
           ReachInv, [Next]_vars, NEW r \in Ranks
    PROVE  EndAt(r)'
<1>e. \A q \in Ranks : EndAt(q) /\ FilesAt(q)
  BY DEF ReachInv
<1>n. faults \in Nat /\ LastEpoch \in Nat /\ epoch \in [Ranks -> Nat]
      /\ epoch_file \in [Ranks -> Nat \cup {None}]
  BY ApplicationAssumption DEF TypeOK, RankTypeOK
<1>o. Over => Over'
  BY StepAgreement DEF Onward
<1>p. Past(r) => Past(r)'
  BY PastStays
<1>1. is_errSet'[r] \/ pc'[r] = "wait_commit" => Past(r)'
  BY <1>e, <1>p, ProcessChanges, DecisionsAreLast DEF EndAt
<1>2. proc'[r] # "alive" =>
         exit_code'[r] = TryReload \/ LastEpoch <= ReadEpochFile(r)' \/ Past(r)'
  <2>1. Restored(r) => Past(r)
    BY DecisionsAreLast DEF Decisions
  <2>2. epoch_file'[r] = epoch_file[r] => ReadEpochFile(r)' = ReadEpochFile(r)
    BY DEF ReadEpochFile
  <2>3. CASE proc[r] # "alive" /\ exit_code'[r] = exit_code[r] /\ epoch_file'[r] = epoch_file[r]
    BY <1>e, <1>p, <2>2, <2>3 DEF EndAt
  <2>4. CASE pc[r] = "run" /\ LastEpoch <= epoch[r] /\ epoch_file'[r] = epoch_file[r]
    <3>1. ReadEpochFile(r) \in Int
      BY <1>n DEF ReadEpochFile, None
    <3>. QED  BY <1>e, <1>n, <2>2, <2>4, <3>1 DEF FilesAt
  <2>5. CASE pc[r] = "wait_commit" \/ pending[r] \/ Restored(r)
    BY <1>e, <1>p, <2>1, <2>5, DecisionsAreLast DEF EndAt
  <2>. QED  BY <2>3, <2>4, <2>5, ProcessChanges
<1>3. Has(fd_in[r], RestartPackets) => Over
  BY DEF RestartInv, RestartAt, GoodEntry
<1>4. pid'[r] # 1 => Over'
  BY <1>e, <1>o, <1>3, ProcessChanges DEF EndAt
<1>5. exit_code'[r] = TryReload => faults' > 0 /\ (proc'[r] = "alive" => Over')
  <2>1. exit_code[r] = TryReload \/ Fail(r) => faults' > 0
    BY <1>e, <1>n, FirstFailure DEF EndAt
  <2>. QED  BY <1>e, <1>o, <1>3, <2>1, ProcessChanges DEF EndAt
<1>6. ASSUME NEW q \in Ranks, exit_code'[q] = TryReload, exit_code'[r] = TryReload
      PROVE  q = r
  <2>1. /\ exit_code[q] = TryReload \/ Fail(q)
        /\ exit_code[r] = TryReload \/ Fail(r)
    BY <1>6, ProcessChanges
  <2>2. CASE Fail(q) /\ q # r
    BY <1>6, <1>e, <2>2, FirstFailure DEF EndAt
  <2>3. CASE Fail(r) /\ q # r
    BY <1>6, <1>e, <2>3, FirstFailure DEF EndAt
  <2>. QED  BY <1>e, <2>1, <2>2, <2>3 DEF EndAt
<1>. QED  BY <1>1, <1>2, <1>4, <1>5, <1>6 DEF EndAt

LEMMA StaysFree ==
    ASSUME NEW chan, NEW new, NEW S, NEW U, U \subseteq S, NEW i \in DOMAIN chan,
           Fewer(new, chan, S) \/ new[i] = chan[i], ~Has(chan[i], S)
    PROVE  ~Has(new[i], U)
BY DEF Fewer, Has

LEMMA FailuresStay ==
    ASSUME TypeOK, LayoutAssumption, OneRankPerNode, MaxFaults <= 1, AgreementInv, RestartInv,
           ReachInv, [Next]_vars
    PROVE  FailuresReached'
<1>n. /\ fd_out \in [Ranks -> Seq(FromFaultDaemon)] /\ head_out \in [Nodes -> Seq(FromHead)]
      /\ head_in \in [Nodes -> Seq(ToHead)] /\ \A r \in Ranks : NodeOf[r] \in Nodes
      /\ \A n \in Nodes : \E r \in Ranks : NodeOf[r] = n
  BY DEF TypeOK, NetTypeOK, LayoutAssumption
<1>e. \A r \in Ranks : EndAt(r) /\ FilesAt(r)
  BY DEF ReachInv
<1>w. \A r \in Ranks : ReadEpochFile(r) \in Int
  BY DEF TypeOK, RankTypeOK, ReadEpochFile, None
<1>f. FailuresReached
  BY DEF ReachInv
<1>u. \A S : Unreached(S) \subseteq S /\ Unreached(S)' \subseteq S
  BY DEF Unreached
\* Nothing is on the way once all have reported, nor before the failure.
<1>1. ASSUME \A r \in Ranks : /\ ~Has(fd_out'[r], Terminations)
                              /\ ~Has(head_out'[NodeOf[r]], Exits)
                              /\ ~Has(head_in'[NodeOf[r]], Errors)
      PROVE  FailuresReached'
  <2>1. \A s : \A S : ~Has(s, S) => ~Has(s, Unreached(S)')
    BY <1>u DEF Has
  <2>. QED  BY <1>n, <1>1, <2>1 DEF FailuresReached
<1>2. CASE Over
  <2>1. Over'
    BY <1>2, StepAgreement DEF Onward
  <2>. QED  BY <1>1, <1>n, <2>1 DEF Over, ReportingNodes, ReportsAt, FailsAt
<1>3. ASSUME NEW q \in Ranks, Fail(q)
      PROVE  FailuresReached'
  <2>1. faults = 0 /\ UNCHANGED <<fdNet, headNet>>
    BY <1>3, FirstFailure
  <2>2. \A r \in Ranks : ~FailsAt(r) /\ ~ReportsAt(r)
    BY <1>n, <2>1 DEF AgreementInv, FailureInv, NothingUnderWay, ReportingNodes
  <2>. QED  BY <1>1, <2>1, <2>2 DEF FailsAt, ReportsAt, fdNet, headNet
<1>4. ASSUME ~Over, \A q \in Ranks : ~Fail(q)
      PROVE  FailuresReached'
  <2>1. ASSUME NEW r \in Ranks, exit_code'[r] = TryReload
        PROVE  exit_code[r] = TryReload /\ ReadEpochFile(r)' = ReadEpochFile(r)
    <3>1. exit_code[r] = TryReload /\ proc[r] # "alive"
      BY <1>4, <1>e, <2>1, ProcessChanges DEF EndAt
    <3>. QED  BY <3>1, ProcessChanges DEF ReadEpochFile
  <2>2. \A S : Unreached(S)' \subseteq Unreached(S)
    BY <2>1 DEF Unreached
\* The fault daemon reports the epoch file of the one process that has failed.
  <2>3. ASSUME NEW i \in Ranks
        PROVE  ~Has(fd_out'[i], Unreached(Terminations)')
    <3>1. ASSUME NEW r \in Ranks, NEW p \in FromFaultDaemon,
                 p \in Terminations => exit_code[r] = TryReload /\ p.epoch = ReadEpochFile(r)
          PROVE  p \notin Unreached(Terminations)
      <4>1. SUFFICES ASSUME p \in Terminations
                     PROVE  p \notin Unreached(Terminations)
        BY <1>u
      <4>2. exit_code[r] = TryReload /\ p.epoch = ReadEpochFile(r)
        BY <3>1, <4>1
      <4>3. p.epoch <= LastEpoch /\ \A q \in Ranks : exit_code[q] = TryReload => q = r
        BY <1>e, <4>2 DEF EndAt, FilesAt
      <4>4. p.epoch <= ReadEpochFile(r)
        BY <1>w, <4>2
      <4>. QED  BY <4>2, <4>3, <4>4 DEF Unreached
    <3>2. Fewer(fd_out', fd_out, Unreached(Terminations))
      <4>1. \/ Fewer(fd_out', fd_out, Unreached(Terminations))
            \/ \E r \in Ranks : \E p \in FromFaultDaemon :
                  fd_out' = Push(fd_out, r, p) /\ p \notin Unreached(Terminations)
        BY <3>1, FaultDaemonNews
      <4>2. ASSUME NEW r \in Ranks, NEW p \in FromFaultDaemon,
                   fd_out' = Push(fd_out, r, p), p \notin Unreached(Terminations)
            PROVE  Fewer(fd_out', fd_out, Unreached(Terminations))
        BY <1>n, <4>2, PushFewer
      <4>. QED  BY <4>1, <4>2
    <3>3. ~Has(fd_out[i], Unreached(Terminations))
      BY <1>f DEF FailuresReached
    <3>. QED  BY <1>n, <2>2, <3>2, <3>3, StaysFree
  <2>4. ASSUME NEW i \in Nodes
        PROVE  ~Has(head_out'[i], Unreached(Exits)')
    <3>1. ASSUME NEW n \in Nodes, NEW p \in FromHead, p \in Exits => ExitOf(n, p)
          PROVE  p \notin Unreached(Exits)
      <4>1. SUFFICES ASSUME p \in Exits
                     PROVE  p \notin Unreached(Exits)
        BY <1>u
      <4>2. PICK r \in Ranks : /\ fd_out[r] # <<>> /\ Head(fd_out[r]) \in Terminations
                               /\ p.epoch = Head(fd_out[r]).epoch
        BY <3>1, <4>1 DEF ExitOf
      <4>3. Head(fd_out[r]) \notin Unreached(Terminations)
        BY <1>n, <1>f, <4>2, TailHas DEF FailuresReached
      <4>. QED  BY <4>2, <4>3 DEF Unreached
    <3>2. Fewer(head_out', head_out, Unreached(Exits))
      <4>1. \/ Fewer(head_out', head_out, Unreached(Exits))
            \/ \E n \in Nodes : \E p \in FromHead :
                  head_out' = Push(head_out, n, p) /\ p \notin Unreached(Exits)
        BY <3>1, HeadOutNews
      <4>. QED  BY <1>n, <4>1, PushFewer
    <3>3. ~Has(head_out[i], Unreached(Exits))
      BY <1>f DEF FailuresReached
    <3>. QED  BY <1>n, <2>2, <3>2, <3>3, StaysFree
  <2>5. ASSUME NEW i \in Nodes
        PROVE  ~Has(head_in'[i], Unreached(Errors)')
    <3>1. ASSUME NEW p \in ToHead,
                 p \in Errors => \E n \in Nodes : /\ head_out[n] # <<>>
                                                  /\ Head(head_out[n]) \in Exits
                                                  /\ p.epoch = Head(head_out[n]).epoch
          PROVE  p \notin Unreached(Errors)
      <4>1. SUFFICES ASSUME p \in Errors
                     PROVE  p \notin Unreached(Errors)
        BY <1>u
      <4>2. PICK n \in Nodes : /\ head_out[n] # <<>> /\ Head(head_out[n]) \in Exits
                               /\ p.epoch = Head(head_out[n]).epoch
        BY <3>1, <4>1
      <4>3. Head(head_out[n]) \notin Unreached(Exits)
        BY <1>n, <1>f, <4>2, TailHas DEF FailuresReached
      <4>. QED  BY <4>2, <4>3 DEF Unreached
    <3>2. Fewer(head_in', head_in, Unreached(Errors))
      <4>1. \/ Fewer(head_in', head_in, Unreached(Errors))
            \/ \E p \in ToHead : \E T :
                  head_in' = PushAll(head_in, T, p) /\ p \notin Unreached(Errors)
        BY <3>1, HeadInNews
      <4>2. ASSUME NEW p \in ToHead, NEW T,
                   head_in' = PushAll(head_in, T, p), p \notin Unreached(Errors)
            PROVE  Fewer(head_in', head_in, Unreached(Errors))
        BY <1>n, <4>2, PushAllFewer
      <4>. QED  BY <4>1, <4>2
    <3>3. ~Has(head_in[i], Unreached(Errors))
      BY <1>f DEF FailuresReached
    <3>. QED  BY <1>n, <2>2, <3>2, <3>3, StaysFree
  <2>. QED  BY <2>3, <2>4, <2>5 DEF FailuresReached
<1>. QED  BY <1>2, <1>3, <1>4

\* Only a report that arrives changes the controller's count.
LEMMA Undecided ==
    ASSUME [Next]_vars, \A n \in Nodes : ~Decides(n)
    PROVE  UNCHANGED <<node_epochs, global_minimum_epoch>>
<1>1. ASSUME NEW r \in Ranks, Rank(r) \/ Signal(r) \/ Failure(r) \/ Monitor(r)
      PROVE  UNCHANGED controllerVars
  BY <1>1 DEF Rank, Signal, Failure, Monitor
<1>2. ASSUME NEW n \in Nodes, NodeHead(n)
      PROVE  UNCHANGED controllerVars
  BY <1>2, HeadLeaves
<1>3. CASE Controller
  BY <1>3 DEF Decides, Controller, ControllerStep, node_barrier, node_success, node_shutdown,
     process_exit
<1>. QED  BY <1>1, <1>2, <1>3 DEF Next, Finished, vars, controllerVars

\* The failure finds nobody reporting and nothing decided, and leaves it so.
LEMMA FailingFinds ==
    ASSUME TypeOK, LayoutAssumption, OneRankPerNode, MaxFaults <= 1, AgreementInv, [Next]_vars,
           NEW q \in Ranks, Fail(q)
    PROVE  /\ Decisions' = {} /\ ReportingNodes' = {} /\ node_epochs' = 0
           /\ \A n \in Nodes : ~Decides(n)
<1>1. faults = 0 /\ faults' = 1
  BY FirstFailure
<1>2. PICK r \in Ranks : Failure(r)
  <2>1. ASSUME NEW r \in Ranks, Rank(r) \/ Signal(r) \/ Monitor(r)
        PROVE  faults' = faults
    BY <2>1, RankMoves DEF Rank, Signal, setErr, Monitor, FaultDaemonStep, inform_head, restart,
       Launch, shutdown_ack, rankVars, TypeOK
  <2>2. ASSUME NEW n \in Nodes, NodeHead(n)
        PROVE  faults' = faults
    BY <2>2, HeadLeaves DEF rankVars
  <2>3. Controller \/ UNCHANGED vars => faults' = faults
    BY DEF Controller, vars, rankVars
  <2>. QED  BY <1>1, <2>1, <2>2, <2>3 DEF Next, Finished
<1>3. NothingUnderWay
  BY <1>1 DEF AgreementInv, FailureInv
<1>4. ReportingNodes' = {}
  <2>1. UNCHANGED <<rankNet, headNet>> /\ \A s \in Ranks : pending'[s] => pending[s]
    BY <1>2 DEF Failure, Fail, Exit, TypeOK, NetTypeOK
  <2>2. \A s \in Ranks : ReportsAt(s)' => ReportsAt(s)
    BY <2>1 DEF ReportsAt, rankNet, headNet
  <2>. QED  BY <1>3, <2>2 DEF NothingUnderWay, ReportingNodes
<1>5. \A n \in Nodes : ~Decides(n)
  BY <1>1 DEF Decides, Controller, rankVars
<1>. QED  BY <1>3, <1>4, <1>5, StepAgreement, Undecided DEF NothingUnderWay, Onward

\* Without a decision and a failure no process goes back.
LEMMA NoneGoesBack ==
    ASSUME TypeOK, LayoutAssumption, RestartInv, ReachInv, [Next]_vars, Decisions = {},
           \A q \in Ranks : ~Fail(q)
    PROVE  \A r \in Ranks : \A e \in Int : RankReached(r, e) => RankReached(r, e)'
<1>. TAKE r \in Ranks
<1>. TAKE e \in Int
<1>1. Limit(r) \in Int /\ Limit(r)' \in Int /\ Limit(r) <= Limit(r)'
  <2>1. TypeOK'
    BY StepType
  <2>2. Limit(r)' \in Int
    BY <2>1 DEF TypeOK, RankTypeOK, Limit, ReadEpochFile, None
  <2>. QED  BY <2>2, LimitIsReached, LimitMoves DEF Adopts
<1>2. RankReached(r, e) <=> e <= Limit(r)
  BY LimitIsReached
<1>3. RankReached(r, e)' <=> e <= Limit(r)'
  BY DEF RankReached, Limit
<1>. QED  BY <1>1, <1>2, <1>3

\* A report, of a process or of a node whose process has exited, is of an epoch that the
\* process has reached.
LEMMA ReportsStay ==
    ASSUME TypeOK, LayoutAssumption, OneRankPerNode, MaxFaults <= 1, AgreementInv, RestartInv,
           StartInv, ReachInv, [Next]_vars, NEW r \in Ranks
    PROVE  ReportReached(r)'
<1>. DEFINE n == NodeOf[r]
<1>n. /\ rank_out \in [Ranks -> Seq(FromRank)] /\ head_out \in [Nodes -> Seq(FromHead)]
      /\ head_in \in [Nodes -> Seq(ToHead)] /\ n \in Nodes /\ epoch \in [Ranks -> Nat]
      /\ epoch_file \in [Ranks -> Nat \cup {None}] /\ LastEpoch \in Nat
  BY ApplicationAssumption DEF TypeOK, NetTypeOK, RankTypeOK, LayoutAssumption
<1>r. ~Has(rank_out[r], Beyond(r, Cleanups)) /\ ~Has(head_out[n], Beyond(r, Reports))
  BY DEF ReachInv, ReportReached
<1>e. EndAt(r) /\ FailuresReached
  BY DEF ReachInv
<1>1. CASE Over'
  <2>1. ~Has(rank_out'[r], Cleanups) /\ ~Has(head_out'[n], Reports)
    BY <1>1, <1>n DEF Over, ReportingNodes, ReportsAt
  <2>. QED  BY <2>1 DEF ReportReached, Beyond, Has
<1>f. ASSUME NEW q \in Ranks, Fail(q)
      PROVE  ReportReached(r)'
  <2>1. ~Has(rank_out'[r], Cleanups) /\ ~Has(head_out'[n], Reports)
    BY <1>f, <1>n, FailingFinds DEF ReportingNodes, ReportsAt
  <2>. QED  BY <2>1 DEF ReportReached, Beyond, Has
<1>2. ASSUME ~Over', \A q \in Ranks : ~Fail(q)
      PROVE  ReportReached(r)'
  <2>1. ~Over /\ Decisions = {} /\ \A q \in Ranks : ~Fail(q)
    BY <1>2, StepAgreement, DecisionsAreLast DEF Onward
  <2>2. Beyond(r, Cleanups)' \subseteq Beyond(r, Cleanups)
    BY <2>1, NoneGoesBack DEF Beyond, Cleanups
  <2>3. Beyond(r, Reports)' \subseteq Beyond(r, Reports)
    BY <2>1, NoneGoesBack DEF Beyond, Reports
  <2>4. Fewer(rank_out', rank_out, Beyond(r, Cleanups)) \/ rank_out'[r] = rank_out[r]
    <3>1. ASSUME NEW q \in Ranks, NEW p \in FromRank, rank_out' = Push(rank_out, q, p),
                 p \in Cleanups => proc[q] = "alive" /\ p.epoch = epoch[q]
          PROVE  Fewer(rank_out', rank_out, Beyond(r, Cleanups)) \/ rank_out'[r] = rank_out[r]
      <4>1. CASE q # r
        BY <1>n, <3>1, <4>1 DEF Push
      <4>2. CASE q = r
        <5>1. p \notin Beyond(r, Cleanups)
          BY <1>n, <3>1, <4>2 DEF Beyond, RankReached
        <5>. QED  BY <1>n, <3>1, <5>1, PushFewer
      <4>. QED  BY <4>1, <4>2
    <3>. QED  BY <3>1, RankOutNews
  <2>5. ASSUME NEW p \in FromHead, ReportOf(n, p)
        PROVE  p \notin Beyond(r, Reports)
    <3>1. SUFFICES ASSUME p \in Reports
                   PROVE  RankReached(r, p.epoch)
      BY DEF Beyond
    <3>2. ASSUME NEW q \in Ranks, NodeOf[q] = n, rank_out[q] # <<>>,
                 Head(rank_out[q]) \in Cleanups, p.epoch <= Head(rank_out[q]).epoch
          PROVE  RankReached(r, p.epoch)
      <4>1. q = r
        BY <3>2 DEF OneRankPerNode
      <4>2. Head(rank_out[r]) \notin Beyond(r, Cleanups)
        BY <1>n, <1>r, <3>2, <4>1, TailHas
      <4>3. RankReached(r, Head(rank_out[r]).epoch)
        BY <3>2, <4>1, <4>2 DEF Beyond
      <4>4. p.epoch \in Nat /\ Head(rank_out[r]).epoch \in Nat
        BY <3>1, <3>2, <4>1 DEF Reports, Cleanups
      <4>. QED  BY <3>2, <4>1, <4>3, <4>4, LimitIsReached
    <3>3. ASSUME AllDead(n), head_in[n] # <<>>, Head(head_in[n]) \in Errors,
                 p.epoch = Head(head_in[n]).epoch
          PROVE  RankReached(r, p.epoch)
      <4>1. Has(head_in[n], Errors) /\ Head(head_in[n]) \notin Unreached(Errors)
        BY <1>n, <1>e, <3>3, TailHas DEF FailuresReached
      <4>2. registered[r] = 0
        BY <3>3 DEF AllDead, ranks, LocalRanks
      <4>3. proc[r] # "alive"
        BY <1>e, <2>1, <3>3, <4>2 DEF EndAt, StartInv, Outside, StartState, Quiet
      <4>4. ~Past(r)
        BY <4>1 DEF Past
      <4>5. exit_code[r] = TryReload \/ LastEpoch <= ReadEpochFile(r)
        BY <1>e, <4>3, <4>4 DEF EndAt
      <4>6. /\ p.epoch <= LastEpoch
            /\ exit_code[r] = TryReload => p.epoch <= ReadEpochFile(r)
        BY <3>3, <4>1 DEF Unreached
      <4>7. p.epoch \in Nat /\ ReadEpochFile(r) \in Int
        BY <1>n, <3>1 DEF Reports, ReadEpochFile, None
      <4>. QED  BY <1>n, <4>3, <4>5, <4>6, <4>7 DEF RankReached
    <3>. QED  BY <2>5, <3>2, <3>3 DEF ReportOf
  <2>6. Fewer(head_out', head_out, Beyond(r, Reports)) \/ head_out'[n] = head_out[n]
    <3>1. ASSUME NEW m \in Nodes, NEW p \in FromHead, head_out' = Push(head_out, m, p),
                 p \in Reports => ReportOf(m, p)
          PROVE  Fewer(head_out', head_out, Beyond(r, Reports)) \/ head_out'[n] = head_out[n]
      <4>1. CASE m # n
        BY <1>n, <3>1, <4>1 DEF Push
      <4>2. CASE m = n
        <5>1. p \notin Beyond(r, Reports)
          BY <2>5, <3>1, <4>2 DEF Beyond
        <5>. QED  BY <1>n, <3>1, <5>1, PushFewer
      <4>. QED  BY <4>1, <4>2
    <3>. QED  BY <3>1, HeadOutNews
  <2>7. ~Has(rank_out'[r], Beyond(r, Cleanups)')
    BY <1>n, <1>r, <2>2, <2>4, StaysFree
  <2>8. ~Has(head_out'[n], Beyond(r, Reports)')
    BY <1>n, <1>r, <2>3, <2>6, StaysFree
  <2>. QED  BY <2>7, <2>8 DEF ReportReached
<1>. QED  BY <1>1, <1>2, <1>f

LEMMA CountStays ==
    ASSUME TypeOK, LayoutAssumption, OneRankPerNode, MaxFaults <= 1, AgreementInv, RestartInv,
           ReachInv, [Next]_vars
    PROVE  CountReached' /\ DecisionsReached'
<1>n. /\ head_out \in [Nodes -> Seq(FromHead)] /\ node_epochs \in Nat
      /\ global_minimum_epoch \in Nat \cup {None} /\ \A r \in Ranks : NodeOf[r] \in Nodes
      /\ IsFiniteSet(Nodes) /\ None = -1
  BY DEF TypeOK, NetTypeOK, ControllerTypeOK, LayoutAssumption, None
<1>D. PICK D \in SUBSET (Nodes \ ReportingNodes) : Counted(D)
  BY DEF ReachInv, CountReached
<1>d. /\ Cardinality(D) = node_epochs /\ IsFiniteSet(D) /\ D \subseteq Nodes
      /\ \A r \in Ranks : NodeOf[r] \in D =>
            global_minimum_epoch \in Nat /\ RankReached(r, global_minimum_epoch)
  BY <1>D, <1>n, FS_Subset DEF Counted
<1>1. ASSUME NEW n \in Nodes, Decides(n)
      PROVE  CountReached' /\ DecisionsReached'
  <2>. DEFINE e == Head(head_out[n]).epoch
  <2>1. /\ ~Over /\ n \in ReportingNodes /\ ReportingNodes' \subseteq ReportingNodes \ {n}
        /\ Decisions' \subseteq IF node_epochs + 1 = NodeCount THEN {GlobalMinimum(e)} ELSE {}
    BY <1>1, EpochAgreement DEF Decides
  <2>2. \A r \in Ranks : \A x \in Int : RankReached(r, x) => RankReached(r, x)'
    BY <1>1, <2>1, DecisionsAreLast, NoneGoesBack, FailingFinds
  <2>3. e \in Nat /\ \A r \in Ranks : NodeOf[r] = n => RankReached(r, e)
    <3>1. Receives(head_out, n, "node_epoch")
      BY <1>1 DEF Decides, node_epoch, Takes
    <3>2. head_out[n] # <<>> /\ Head(head_out[n]) \in Reports
      <4>1. head_out[n] # <<>> /\ Head(head_out[n]) \in FromHead
        BY <1>n, <3>1 DEF Receives
      <4>. QED  BY <3>1, <4>1 DEF Receives, FromHead, Reports
    <3>3. ASSUME NEW r \in Ranks, NodeOf[r] = n
          PROVE  RankReached(r, e)
      <4>1. ~Has(head_out[n], Beyond(r, Reports))
        BY <3>3 DEF ReachInv, ReportReached
      <4>2. Head(head_out[n]) \notin Beyond(r, Reports)
        BY <1>n, <3>2, <4>1, TailHas
      <4>. QED  BY <3>2, <4>2 DEF Beyond
    <3>. QED  BY <3>2, <3>3 DEF Reports
  <2>4. PICK lowest \in Nat : /\ lowest = GlobalMinimum(e) /\ lowest <= e
                              /\ global_minimum_epoch \in Nat => lowest <= global_minimum_epoch
    BY <1>n, <2>3 DEF GlobalMinimum
  <2>5. \A r \in Ranks : NodeOf[r] \in D \cup {n} => RankReached(r, lowest)'
    <3>1. ASSUME NEW r \in Ranks, NodeOf[r] \in D \cup {n}
          PROVE  RankReached(r, lowest)
      <4>1. Limit(r) \in Nat /\ \A x : RankReached(r, x) <=> x <= Limit(r)
        BY LimitIsReached
      <4>2. CASE NodeOf[r] = n
        BY <2>3, <2>4, <4>1, <4>2
      <4>3. CASE NodeOf[r] \in D
        BY <1>d, <2>4, <4>1, <4>3
      <4>. QED  BY <3>1, <4>2, <4>3
    <3>. QED  BY <2>2, <2>4, <3>1
  <2>6. /\ n \notin D /\ D \cup {n} \in SUBSET (Nodes \ ReportingNodes')
        /\ Cardinality(D \cup {n}) = node_epochs + 1
    BY <1>D, <1>d, <2>1, FS_AddElement
  <2>7. node_epoch(n)
    BY <1>1 DEF Decides
  <2>8. CASE node_epochs + 1 = NodeCount
    <3>1. node_epochs' = 0
      BY <2>7, <2>8 DEF node_epoch
    <3>2. {} \in SUBSET (Nodes \ ReportingNodes') /\ Counted({})'
      BY <3>1, FS_EmptySet DEF Counted
    <3>3. D \cup {n} = Nodes
      BY <1>n, <2>6, <2>8, FS_Subset DEF NodeCount
    <3>4. \A r \in Ranks : RankReached(r, lowest)'
      BY <1>n, <2>5, <3>3
    <3>5. Decisions' \subseteq {lowest}
      BY <2>1, <2>4, <2>8
    <3>6. DecisionsReached'
      BY <3>1, <3>4, <3>5 DEF DecisionsReached
    <3>. QED  BY <3>2, <3>6 DEF CountReached
  <2>9. CASE node_epochs + 1 # NodeCount
    <3>1. node_epochs' = node_epochs + 1 /\ global_minimum_epoch' = lowest
      <4>1. global_minimum_epoch' = GlobalMinimum(e)
        BY <2>7, <2>9 DEF node_epoch
      <4>. QED  BY <2>4, <2>7, <2>9, <4>1 DEF node_epoch
    <3>2. Counted(D \cup {n})'
      BY <1>n, <2>4, <2>5, <2>6, <3>1 DEF Counted
    <3>3. Decisions' = {}
      BY <2>1, <2>9
    <3>. QED  BY <2>6, <3>2, <3>3 DEF CountReached, DecisionsReached
  <2>. QED  BY <2>8, <2>9
<1>f. ASSUME NEW q \in Ranks, Fail(q)
      PROVE  CountReached' /\ DecisionsReached'
  <2>1. Decisions' = {} /\ node_epochs' = 0
    BY <1>f, FailingFinds
  <2>2. {} \in SUBSET (Nodes \ ReportingNodes') /\ Counted({})'
    BY <2>1, FS_EmptySet DEF Counted
  <2>. QED  BY <2>1, <2>2 DEF CountReached, DecisionsReached
<1>2. ASSUME \A n \in Nodes : ~Decides(n), \A q \in Ranks : ~Fail(q)
      PROVE  CountReached' /\ DecisionsReached'
  <2>1. UNCHANGED <<node_epochs, global_minimum_epoch>>
    BY <1>2, Undecided
  <2>2. (NothingUnderWay \/ ReportingNodes' \subseteq ReportingNodes) /\ Decisions' \subseteq Decisions
    BY <1>2, StepAgreement DEF Onward
  <2>3. CountReached'
    <3>1. D \in SUBSET (Nodes \ ReportingNodes')
      <4>1. NothingUnderWay => D = {}
        BY <1>d, FS_EmptySet DEF NothingUnderWay
      <4>. QED  BY <1>D, <2>2, <4>1
    <3>2. ASSUME NEW r \in Ranks, NodeOf[r] \in D
          PROVE  global_minimum_epoch # None /\ RankReached(r, global_minimum_epoch)'
      <4>1. node_epochs # 0
        BY <1>d, <3>2, FS_EmptySet
      <4>2. Decisions = {}
        BY <4>1 DEF ReachInv, DecisionsReached
      <4>. QED  BY <1>n, <1>d, <1>2, <3>2, <4>2, <2>1, NoneGoesBack
    <3>3. Counted(D)'
      BY <1>d, <2>1, <3>2 DEF Counted
    <3>. QED  BY <3>1, <3>3 DEF CountReached
  <2>4. DecisionsReached'
    <3>1. Decisions' # {} => node_epochs' = 0
      BY <2>1, <2>2 DEF ReachInv, DecisionsReached
    <3>2. ASSUME NEW d \in Decisions', NEW r \in Ranks
          PROVE  RankReached(r, d)'
      <4>1. d \in Decisions /\ d \in Nat /\ d <= Limit(r)
        BY <2>2, <3>2, DecisionsAreLast, LimitIsReached DEF ReachInv, DecisionsReached
      <4>2. Limit(r) <= Limit(r)' \/ Limit(r)' = d
        BY <1>2, <4>1, LimitMoves DEF Adopts, AgreementInv, DecisionInv
      <4>3. Limit(r) \in Int /\ Limit(r)' \in Int
        <5>1. TypeOK'
          BY StepType
        <5>. QED
          BY <5>1, LimitIsReached DEF TypeOK, RankTypeOK, Limit, ReadEpochFile, None
      <4>4. RankReached(r, d)' <=> d <= Limit(r)'
        BY DEF RankReached, Limit
      <4>. QED  BY <4>1, <4>2, <4>3, <4>4
    <3>. QED  BY <3>1, <3>2 DEF DecisionsReached
  <2>. QED  BY <2>3, <2>4
<1>. QED  BY <1>1, <1>2, <1>f

LEMMA StepReach ==
    ASSUME TypeOK, OneRankPerNode, MaxFaults <= 1, AgreementInv, RestartInv, StartInv, ReachInv,
           [Next]_vars
    PROVE  StartInv' /\ ReachInv'
<1>l. LayoutAssumption
  BY LayoutAssumption
<1>1. \A r \in Ranks : FilesAt(r)' /\ EndAt(r)' /\ ReportReached(r)'
  BY <1>l, LimitMoves, EndStays, ReportsStay
<1>2. FailuresReached' /\ CountReached' /\ DecisionsReached'
  BY <1>l, FailuresStay, CountStays
<1>. QED  BY <1>l, <1>1, <1>2, StartKept DEF ReachInv

LEMMA InitReach == Init /\ LayoutAssumption => StartInv /\ ReachInv
<1>. SUFFICES ASSUME Init, LayoutAssumption
              PROVE  StartInv /\ ReachInv
  OBVIOUS
<1>n. /\ \A r \in Ranks : /\ rank_out[r] = <<>> /\ rank_in[r] = <<>> /\ fd_out[r] = <<>>
                          /\ fd_in[r] = <<>> /\ proc[r] = "alive" /\ pid[r] = 1 /\ ~pending[r]
                          /\ exit_code[r] = Success /\ pc[r] = "launched" /\ epoch[r] = 0
                          /\ ~is_errSet[r] /\ epoch_file[r] = None /\ registered[r] = 0
                          /\ NodeOf[r] \in Nodes
      /\ \A n \in Nodes : head_out[n] = <<>> /\ head_in[n] = <<>> /\ barrier_count[n] = 0
      /\ faults = 0 /\ head_daemon_count = 0 /\ node_epochs = 0 /\ LastEpoch \in Nat
  BY ApplicationAssumption DEF Init, NetInit, RankInit, HeadInit, ControllerInit, LayoutAssumption
<1>1. StartInv
  <2>1. \A r \in Ranks : Quiet(r) /\ Entering(r, {})
    BY <1>n DEF Quiet, Entering
  <2>2. StartState
    BY <1>n, <2>1, FS_EmptySet DEF StartState
  <2>. QED  BY <1>n, <2>2 DEF StartInv
<1>2. \A r \in Ranks : FilesAt(r) /\ EndAt(r) /\ ReportReached(r)
  BY <1>n, EmptyHas DEF FilesAt, HandlerAt, EndAt, ReportReached, ReadEpochFile, Success,
     TryReload
<1>3. FailuresReached
  BY <1>n, EmptyHas DEF FailuresReached
<1>4. CountReached
  <2>1. Counted({})
    BY <1>n, FS_EmptySet DEF Counted
  <2>. QED  BY <2>1 DEF CountReached
<1>5. DecisionsReached
  BY <1>n, InitAgreement DEF AgreementInv, FailureInv, NothingUnderWay, DecisionsReached
<1>. QED  BY <1>1, <1>2, <1>3, <1>4, <1>5 DEF ReachInv

\* Where each node has one rank and one process fails, at whatever point of its own and of
\* the other processes' work, the epoch that the controller commits is one that every rank
\* can go back to: no process that lives is behind it, and none that has exited has left an
\* older checkpoint, whether it failed, had finished or was reported for by its head daemon.
THEOREM CommitsAreReached ==
    ASSUME OneRankPerNode, MaxFaults <= 1
    PROVE  Spec => []CommitReachedByAll
<1>1. Init => AgreementInv /\ RestartInv /\ StartInv /\ ReachInv
  BY LayoutAssumption, InitAgreement, InitRestart, InitReach
<1>2. /\ TypeOK /\ AgreementInv /\ RestartInv /\ StartInv /\ ReachInv /\ [Next]_vars
      => AgreementInv' /\ RestartInv' /\ StartInv' /\ ReachInv'
  BY StepAgreement, StepRestart, StepReach
<1>3. TypeOK /\ ReachInv => CommitReachedByAll
  <2>. SUFFICES ASSUME TypeOK, ReachInv, NEW n \in Nodes, NEW k \in 1..Len(head_in[n]),
                       head_in[n][k].type = "commit", NEW r \in Ranks
                PROVE  RankReached(r, head_in[n][k].epoch)
    BY DEF CommitReachedByAll, LocalRanks
  <2>1. head_in \in [Nodes -> Seq(ToHead)] /\ head_in[n][k] \in ToHead
    BY DEF TypeOK, NetTypeOK
  <2>2. head_in[n][k] \in Commits
    BY <2>1 DEF ToHead, Commits
  <2>3. head_in[n][k].epoch \in Decisions
    BY <2>1, <2>2 DEF Decisions, Epochs
  <2>. QED  BY <2>3 DEF ReachInv, DecisionsReached
<1>. QED
  BY <1>1, <1>2, <1>3, TypeCorrect, PTL DEF Spec
--------------------------------------------------------------------------------
(***************************************************************************)
(* Crash consistency of checkpoint_write. A process that dies between the  *)
(* two files, or while one of them is open, leaves an epoch file that      *)
(* names a complete checkpoint, or an empty one. Only a rank that has gone *)
(* back overwrites the checkpoint that its epoch file names, and it does   *)
(* not die, the one failure having been before.                            *)
(***************************************************************************)
FileAt(r) ==
    /\ pc[r] \in {"written", "counting"} => epoch[r] \in checkpoints[r]
    /\ pc[r] = "naming" => epoch[r] - 1 \in checkpoints[r]
    /\ epoch_file[r] # None =>
          \/ epoch_file[r] - 1 \in checkpoints[r]
          \/ faults > 0 /\ At(r, "saving") /\ epoch[r] = epoch_file[r] - 1
    /\ HandlerAt(r)

\* Before the failure nobody recovers, and no process is behind its epoch file.
RecoveryPackets ==
    Terminations \cup Exits \cup Errors \cup Cleanups \cup Reports \cup Commits \cup RestartPackets
Clean(chan) == \A i \in DOMAIN chan : ~Has(chan[i], RecoveryPackets)
AllClean ==
    /\ Clean(rank_out) /\ Clean(rank_in) /\ Clean(fd_out) /\ Clean(fd_in)
    /\ Clean(head_out) /\ Clean(head_in)
Untouched(r) ==
    /\ exit_code[r] # TryReload /\ ~pending[r] /\ ~is_errSet[r]
    /\ pc[r] \notin {"wait_commit", "restore_barrier", "reload_barrier"}
    /\ pc[r] = "launched" => epoch[r] = 0
    /\ epoch_file[r] # None => epoch_file[r] <= epoch[r]
Fresh == AllClean /\ \A r \in Ranks : Untouched(r)

DurableInv == (\A r \in Ranks : FileAt(r)) /\ (faults = 0 => Fresh)

\* Taking a packet off a connection, or sending another one, keeps the connections clean.
LEMMA CleanPop ==
    ASSUME NEW I, NEW P, NEW chan \in [I -> Seq(P)], Clean(chan), NEW i \in I, chan[i] # <<>>
    PROVE  Clean(Pop(chan, i))
<1>1. Fewer(Pop(chan, i), chan, RecoveryPackets)
  BY PopFewer
<1>. QED  BY <1>1 DEF Fewer, Clean, Pop

LEMMA CleanPushAll ==
    ASSUME NEW I, NEW P, NEW chan \in [I -> Seq(P)], Clean(chan), NEW T,
           NEW p \in P, p \notin RecoveryPackets
    PROVE  Clean(PushAll(chan, T, p))
<1>1. Fewer(PushAll(chan, T, p), chan, RecoveryPackets)
  BY PushAllFewer
<1>. QED  BY <1>1 DEF Fewer, Clean, PushAll

LEMMA CleanPush ==
    ASSUME NEW I, NEW P, NEW chan \in [I -> Seq(P)], Clean(chan), NEW i \in I,
           NEW p \in P, p \notin RecoveryPackets
    PROVE  Clean(Push(chan, i, p))
<1>1. Fewer(Push(chan, i, p), chan, RecoveryPackets)
  BY PushFewer
<1>. QED  BY <1>1 DEF Fewer, Clean, Push

\* On a clean connection none is the next packet.
LEMMA CleanHead ==
    ASSUME NEW I, NEW P, NEW chan \in [I -> Seq(P)], Clean(chan), NEW i \in I, chan[i] # <<>>
    PROVE  Head(chan[i]) \in P /\ Head(chan[i]) \notin RecoveryPackets
<1>1. chan[i] \in Seq(P) /\ ~Has(chan[i], RecoveryPackets)
  BY DEF Clean
<1>. QED  BY <1>1, TailHas

LEMMA HarmlessPackets ==
    /\ \A r \in Ranks : BarrierPacket(r) \notin RecoveryPackets
    /\ \A t \in {"release", "shutdown", "shutdown_ack", "node_barrier", "node_success",
                 "node_shutdown"} : [type |-> t] \notin RecoveryPackets
    /\ \A c \in ErrorCodes \ {TryReload} : \A e \in Nat :
          /\ [type |-> "termination", code |-> c, epoch |-> e] \notin RecoveryPackets
          /\ [type |-> "process_exit", code |-> c, epoch |-> e] \notin RecoveryPackets
BY DEF BarrierPacket, RecoveryPackets, Terminations, Exits, Errors, Cleanups, Reports, Commits,
       RestartPackets

\* The steps of a process before the failure.
LEMMA RankFresh ==
    ASSUME NetTypeOK, RankTypeOK, Fresh, NEW r \in Ranks, RankStep(r)
    PROVE  Fresh'
<1>1. AllClean'
  <2>1. rank_out \in [Ranks -> Seq(FromRank)] /\ rank_in \in [Ranks -> Seq(ToRank)]
    BY DEF NetTypeOK
  <2>2. BarrierPacket(r) \in FromRank \ RecoveryPackets
    BY HarmlessPackets DEF NetTypeOK, BarrierPacket, FromRank
  <2>3. Clean(rank_out)'
    <3>1. rank_out' \in {rank_out, Push(rank_out, r, BarrierPacket(r))} /\ Clean(rank_out)
      BY RankMoves DEF Fresh, AllClean
    <3>2. Clean(Push(rank_out, r, BarrierPacket(r)))
      BY <2>1, <2>2, <3>1, CleanPush
    <3>. QED  BY <3>1, <3>2 DEF Clean
  <2>4. Clean(rank_in)'
    BY <2>1, RankMoves, CleanPop DEF Fresh, AllClean
  <2>5. UNCHANGED <<fdNet, headNet>>
    BY RankMoves
  <2>. QED  BY <2>3, <2>4, <2>5 DEF Fresh, AllClean, fdNet, headNet
<1>2. ASSUME NEW q \in Ranks
      PROVE  Untouched(q)'
  <2>. USE DEF Untouched, Fresh, NetTypeOK, RankTypeOK, rankNet, fdNet, headNet, osVars, rankVars,
               At, Goto, Exit, TryReload, OtherExit, Success, InBarrier, None
  <2>1. CASE MPI_Init(r)
    BY <2>1 DEF MPI_Init
  <2>2. CASE checkpoint_read_throws(r)
    BY <2>2 DEF checkpoint_read_throws
  <2>3. CASE recv_barrier_release(r)
    BY <2>3 DEF recv_barrier_release, EpochAfterBarrier
  <2>4. CASE MPI_Comm_set_errhandler(r)
    BY <2>4 DEF MPI_Comm_set_errhandler
  <2>5. CASE checkpoint_write_open(r) \/ checkpoint_write_file(r)
    BY <2>5 DEF checkpoint_write_open, checkpoint_write_file
  <2>6. CASE checkpoint_write_check(r)
    BY <2>6 DEF checkpoint_write_check
  <2>7. CASE checkpoint_write_epoch(r)
    BY <2>7 DEF checkpoint_write_epoch
  <2>8. CASE checkpoint_write_close(r)
    BY <2>8 DEF checkpoint_write_close
  <2>9. CASE MPI_Finalize(r)
    BY <2>9 DEF MPI_Finalize
  <2>. QED
    BY <2>1, <2>2, <2>3, <2>4, <2>5, <2>6, <2>7, <2>8, <2>9
       DEF RankStep, MPIX_Checkpoint_read, wait_commit
<1>. QED  BY <1>1, <1>2 DEF Fresh

\* The steps of a fault daemon: no decision to restart has been made.
LEMMA MonitorFresh ==
    ASSUME NetTypeOK, RankTypeOK, Fresh, NEW r \in Ranks, FaultDaemonStep(r)
    PROVE  Fresh' /\ UNCHANGED rankVars
<1>n. /\ fd_out \in [Ranks -> Seq(FromFaultDaemon)] /\ fd_in \in [Ranks -> Seq(ToFaultDaemon)]
      /\ Clean(fd_out) /\ Clean(fd_in)
  BY DEF NetTypeOK, Fresh, AllClean
<1>1. ~restart(r)
  <2>1. ~Receives(fd_in, r, "restart")
    BY <1>n, CleanHead DEF Receives, ToFaultDaemon, RecoveryPackets, RestartPackets
  <2>. QED  BY <2>1 DEF restart
<1>2. CASE inform_head(r)
  <2>. DEFINE report == [type |-> "termination", code |-> exit_code[r],
                         epoch |-> ReadEpochFile(r)]
  <2>1. report \in FromFaultDaemon \ RecoveryPackets
    <3>1. exit_code[r] \in ErrorCodes \ {TryReload} /\ ReadEpochFile(r) \in Nat
      BY DEF NetTypeOK, RankTypeOK, Fresh, Untouched, ReadEpochFile, None
    <3>. QED  BY <3>1, HarmlessPackets DEF FromFaultDaemon
  <2>2. fd_out' = Push(fd_out, r, report)
    BY <1>2 DEF inform_head
  <2>3. Clean(fd_out)'
    <3>. HIDE DEF report
    <3>. QED  BY <1>n, <2>1, <2>2, CleanPush
  <2>4. UNCHANGED <<rankNet, fd_in, headNet, exit_code, pending, rankVars>>
    BY <1>2 DEF inform_head
  <2>. QED  BY <2>3, <2>4 DEF Fresh, AllClean, Untouched, rankNet, headNet, rankVars
<1>3. CASE shutdown_ack(r)
  <2>1. [type |-> "shutdown_ack"] \in FromFaultDaemon \ RecoveryPackets
    BY HarmlessPackets DEF FromFaultDaemon
  <2>2. /\ fd_out' = Push(fd_out, r, [type |-> "shutdown_ack"])
        /\ fd_in[r] # <<>> /\ fd_in' = Pop(fd_in, r)
        /\ UNCHANGED <<rankNet, headNet, osVars, rankVars>>
    BY <1>3 DEF shutdown_ack, Receives
  <2>3. Clean(fd_out)' /\ Clean(fd_in)'
    BY <1>n, <2>1, <2>2, CleanPop, CleanPush
  <2>. QED  BY <2>2, <2>3 DEF Fresh, AllClean, Untouched, rankNet, headNet, osVars, rankVars
<1>. QED  BY <1>1, <1>2, <1>3 DEF FaultDaemonStep

\* The steps of a head daemon: nobody reports, and nothing is decided.
LEMMA HeadFresh ==
    ASSUME TypeOK, LayoutAssumption, Fresh, NEW n \in Nodes, NodeHead(n)
    PROVE  Fresh'
<1>n. /\ rank_out \in [Ranks -> Seq(FromRank)] /\ rank_in \in [Ranks -> Seq(ToRank)]
      /\ fd_out \in [Ranks -> Seq(FromFaultDaemon)] /\ fd_in \in [Ranks -> Seq(ToFaultDaemon)]
      /\ head_out \in [Nodes -> Seq(FromHead)] /\ head_in \in [Nodes -> Seq(ToHead)]
      /\ Clean(rank_out) /\ Clean(rank_in) /\ Clean(fd_out) /\ Clean(fd_in)
      /\ Clean(head_out) /\ Clean(head_in) /\ \A r \in Ranks : NodeOf[r] \in Nodes
  BY DEF TypeOK, NetTypeOK, Fresh, AllClean, LayoutAssumption
<1>p. /\ \A t \in {"node_barrier", "node_success", "node_shutdown"} :
            [type |-> t] \in FromHead \ RecoveryPackets
      /\ [type |-> "release"] \in ToRank \ RecoveryPackets
      /\ [type |-> "shutdown"] \in ToFaultDaemon \ RecoveryPackets
  BY HarmlessPackets DEF FromHead, ToRank, ToFaultDaemon
<1>o. ASSUME NEW p \in FromHead \ RecoveryPackets, NEW m \in Nodes,
             head_out' = head_out \/ head_out' = Push(head_out, m, p)
      PROVE  Clean(head_out)'
  <2>1. Clean(Push(head_out, m, p))
    BY <1>n, CleanPush
  <2>. QED  BY <1>n, <1>o, <2>1
<1>r. ASSUME NEW p \in ToRank \ RecoveryPackets, NEW T, rank_in' = PushAll(rank_in, T, p)
      PROVE  Clean(rank_in)'
  <2>1. Clean(PushAll(rank_in, T, p))
    BY <1>n, CleanPushAll
  <2>. QED  BY <1>r, <2>1
<1>f. ASSUME NEW p \in ToFaultDaemon \ RecoveryPackets, NEW T, fd_in' = PushAll(fd_in, T, p)
      PROVE  Clean(fd_in)'
  <2>1. Clean(PushAll(fd_in, T, p))
    BY <1>n, CleanPushAll
  <2>. QED  BY <1>f, <2>1
<1>h. \A r \in Ranks : ~Receives(rank_out, r, "cleanup")
  <2>. SUFFICES ASSUME NEW r \in Ranks, rank_out[r] # <<>>, Head(rank_out[r]).type = "cleanup"
                PROVE  FALSE
    BY DEF Receives
  <2>1. Head(rank_out[r]) \in FromRank /\ Head(rank_out[r]) \notin RecoveryPackets
    BY <1>n, CleanHead
  <2>. QED  BY <2>1 DEF FromRank, RecoveryPackets, Cleanups
<1>i. ~Receives(head_in, n, "error") /\ ~Receives(head_in, n, "commit")
  <2>1. head_in[n] # <<>> =>
           Head(head_in[n]) \in ToHead /\ Head(head_in[n]) \notin RecoveryPackets
    BY <1>n, CleanHead
  <2>. QED  BY <2>1 DEF Receives, ToHead, RecoveryPackets, Errors, Commits
<1>u. UNCHANGED <<rankVars, proc, exit_code, pid>>
  BY HeadLeaves
<1>k. ASSUME AllClean', UNCHANGED pending
      PROVE  Fresh'
  BY <1>k, <1>u DEF Fresh, Untouched, rankVars
<1>1. ASSUME NEW r \in Ranks, process_barrier(r)
      PROVE  Fresh'
  <2>1. /\ rank_out[r] # <<>> /\ rank_out' = Pop(rank_out, r)
        /\ UNCHANGED <<rank_in, fdNet, head_in, pending>>
        /\ head_out' = head_out \/ head_out' = Push(head_out, NodeOf[r], [type |-> "node_barrier"])
    BY <1>1 DEF process_barrier, Receives, SendToController, osVars
  <2>2. Clean(rank_out)'
    BY <1>n, <2>1, CleanPop
  <2>3. Clean(head_out)'
    BY <1>n, <1>o, <1>p, <2>1
  <2>. QED  BY <1>k, <1>n, <2>1, <2>2, <2>3 DEF AllClean, fdNet
<1>2. ASSUME NEW r \in Ranks, process_termination(r)
      PROVE  Fresh'
  <2>. DEFINE code == Head(fd_out[r]).code
              exit == [type |-> "process_exit", code |-> code, epoch |-> Head(fd_out[r]).epoch]
  <2>1. /\ fd_out[r] # <<>> /\ fd_out' = Pop(fd_out, r) /\ Head(fd_out[r]).type = "termination"
        /\ UNCHANGED <<rankNet, fd_in, head_in, pending>>
        /\ \/ head_out' = head_out
           \/ head_out' = Push(head_out, NodeOf[r], [type |-> "node_success"])
           \/ head_out' = Push(head_out, NodeOf[r], exit)
    BY <1>2 DEF process_termination, Receives, SendToController, osVars
  <2>2. exit \in FromHead \ RecoveryPackets
    <3>1. Head(fd_out[r]) \in FromFaultDaemon /\ Head(fd_out[r]) \notin RecoveryPackets
      BY <1>n, <2>1, CleanHead
    <3>2. code \in ErrorCodes \ {TryReload} /\ Head(fd_out[r]).epoch \in Nat
      BY <2>1, <3>1 DEF FromFaultDaemon, RecoveryPackets, Terminations
    <3>. QED  BY <3>2, HarmlessPackets DEF FromHead
  <2>3. Clean(fd_out)'
    BY <1>n, <2>1, CleanPop
  <2>4. Clean(head_out)'
    <3>. HIDE DEF exit
    <3>. QED  BY <1>n, <1>o, <1>p, <2>1, <2>2
  <2>. QED  BY <1>k, <1>n, <2>1, <2>3, <2>4 DEF AllClean, rankNet
<1>3. ASSUME NEW r \in Ranks, process_shutdown_ack(r)
      PROVE  Fresh'
  <2>1. /\ fd_out[r] # <<>> /\ fd_out' = Pop(fd_out, r)
        /\ UNCHANGED <<rankNet, fd_in, head_in, pending>>
        /\ head_out' = head_out \/ head_out' = Push(head_out, NodeOf[r], [type |-> "node_shutdown"])
    BY <1>3 DEF process_shutdown_ack, Receives, SendToController, osVars
  <2>2. Clean(fd_out)'
    BY <1>n, <2>1, CleanPop
  <2>3. Clean(head_out)'
    BY <1>n, <1>o, <1>p, <2>1
  <2>. QED  BY <1>k, <1>n, <2>1, <2>2, <2>3 DEF AllClean, rankNet
<1>4. CASE process_release(n)
  <2>1. /\ head_in[n] # <<>> /\ head_in' = Pop(head_in, n)
        /\ UNCHANGED <<rank_out, fdNet, head_out, pending>>
        /\ \E T : rank_in' = PushAll(rank_in, T, [type |-> "release"])
    BY <1>4 DEF process_release, Receives, SendToRanks, osVars
  <2>2. Clean(head_in)'
    BY <1>n, <2>1, CleanPop
  <2>3. Clean(rank_in)'
    BY <1>p, <1>r, <2>1
  <2>. QED  BY <1>k, <1>n, <2>1, <2>2, <2>3 DEF AllClean, fdNet
<1>5. CASE process_shutdown(n)
  <2>1. /\ head_in[n] # <<>> /\ head_in' = Pop(head_in, n)
        /\ UNCHANGED <<rankNet, fd_out, head_out, pending>>
        /\ \E T : fd_in' = PushAll(fd_in, T, [type |-> "shutdown"])
    BY <1>5 DEF process_shutdown, Receives, osVars
  <2>2. Clean(head_in)'
    BY <1>n, <2>1, CleanPop
  <2>3. Clean(fd_in)'
    BY <1>p, <1>f, <2>1
  <2>. QED  BY <1>k, <1>n, <2>1, <2>2, <2>3 DEF AllClean, rankNet
<1>. QED
  BY <1>h, <1>i, <1>1, <1>2, <1>3, <1>4, <1>5
     DEF NodeHead, HeadStep, LocalRanks, process_cleanup, process_error, process_commit

\* The steps of the controller: no failure and no report arrives.
LEMMA ControllerFresh ==
    ASSUME TypeOK, Fresh, Controller
    PROVE  Fresh'
<1>n. /\ head_out \in [Nodes -> Seq(FromHead)] /\ head_in \in [Nodes -> Seq(ToHead)]
      /\ Clean(head_out) /\ Clean(head_in)
  BY DEF TypeOK, NetTypeOK, Fresh, AllClean
<1>p. \A t \in {"release", "shutdown"} : [type |-> t] \in ToHead \ RecoveryPackets
  BY HarmlessPackets DEF ToHead
<1>1. PICK n \in Nodes : \/ node_barrier(n) \/ node_success(n) \/ node_shutdown(n)
                         \/ process_exit(n) \/ node_epoch(n)
  BY DEF Controller, ControllerStep
<1>2. /\ head_out[n] # <<>> /\ head_out' = Pop(head_out, n)
      /\ UNCHANGED <<rankNet, fdNet, osVars, rankVars>>
  BY <1>1 DEF Controller, node_barrier, node_success, node_shutdown, process_exit, node_epoch,
              Takes, Receives
<1>3. Head(head_out[n]) \in FromHead /\ Head(head_out[n]) \notin RecoveryPackets
  BY <1>n, <1>2, CleanHead
<1>4. ~node_epoch(n)
  BY <1>3 DEF node_epoch, Takes, Receives, FromHead, RecoveryPackets, Reports
<1>5. \/ head_in' = head_in
      \/ \E T : \E t \in {"release", "shutdown"} : head_in' = PushAll(head_in, T, [type |-> t])
  <2>1. CASE node_barrier(n)
    BY <2>1 DEF node_barrier, SendToHeadDaemons
  <2>2. CASE node_success(n)
    BY <2>2 DEF node_success, SendToHeadDaemons
  <2>3. CASE node_shutdown(n)
    BY <2>3 DEF node_shutdown
  <2>4. CASE process_exit(n)
    <3>1. Head(head_out[n]).code # TryReload
      BY <1>3, <2>4 DEF process_exit, Takes, Receives, FromHead, RecoveryPackets, Exits
    <3>. QED  BY <2>4, <3>1 DEF process_exit
  <2>. QED  BY <1>1, <1>4, <2>1, <2>2, <2>3, <2>4
<1>6. Clean(head_out)'
  BY <1>n, <1>2, CleanPop
<1>7. Clean(head_in)'
  <2>1. ASSUME NEW T, NEW p \in ToHead \ RecoveryPackets, head_in' = PushAll(head_in, T, p)
        PROVE  Clean(head_in)'
    <3>1. Clean(PushAll(head_in, T, p))
      BY <1>n, CleanPushAll
    <3>. QED  BY <2>1, <3>1
  <2>. QED  BY <1>n, <1>p, <1>5, <2>1
<1>. QED
  BY <1>2, <1>6, <1>7 DEF Fresh, AllClean, Untouched, rankNet, fdNet, osVars, rankVars

\* A process keeps its files in order.
LEMMA RankFiles ==
    ASSUME NetTypeOK, RankTypeOK, MaxFaults <= 1, DurableInv, NEW r \in Ranks,
           RankStep(r) \/ setErr(r) \/ Fail(r), NEW q \in Ranks
    PROVE  FileAt(q)'
<1>f. FileAt(q) /\ (faults = 0 => Untouched(q)) /\ faults \in Nat
  BY DEF DurableInv, Fresh, RankTypeOK
<1>u. ASSUME UNCHANGED <<pc, epoch, handler, checkpoints, epoch_file, faults>>,
             proc'[q] = proc[q] \/ pc[q] # "saving"
      PROVE  FileAt(q)'
  BY <1>f, <1>u DEF FileAt, HandlerAt, At
<1>. USE DEF NetTypeOK, RankTypeOK, At, Goto, Exit, osVars, rankVars, InBarrier
<1>1. CASE MPI_Init(r)
  BY <1>f, <1>1 DEF MPI_Init, FileAt, HandlerAt
<1>2. CASE checkpoint_read_throws(r)
  BY <1>u, <1>2 DEF checkpoint_read_throws
<1>3. CASE recv_barrier_release(r)
  BY <1>f, <1>3 DEF recv_barrier_release, FileAt, HandlerAt
<1>4. CASE MPI_Comm_set_errhandler(r)
  BY <1>f, <1>4 DEF MPI_Comm_set_errhandler, FileAt, HandlerAt
<1>5. CASE checkpoint_write_open(r)
  <2>1. /\ proc[r] = "alive" /\ pc[r] = "run" /\ UNCHANGED <<proc, epoch, handler, epoch_file, faults>>
        /\ checkpoints' = [checkpoints EXCEPT ![r] = @ \ {epoch[r]}]
        /\ pc' = [pc EXCEPT ![r] = "saving"]
    BY <1>5 DEF checkpoint_write_open, WrittenCheckpoint
  <2>2. CASE q # r
    BY <1>f, <2>1, <2>2 DEF FileAt, HandlerAt
  <2>3. CASE q = r
    <3>1. pc'[q] = "saving" /\ checkpoints'[q] = checkpoints[q] \ {epoch[q]} /\ HandlerAt(q)'
      BY <1>f, <2>1, <2>3 DEF FileAt, HandlerAt
    <3>2. ASSUME epoch_file[q] # None, epoch_file[q] - 1 = epoch[q]
          PROVE  faults > 0
      BY <1>f, <3>2 DEF Untouched, None
    <3>3. epoch_file[q] # None => epoch_file[q] - 1 \in checkpoints[q]
      BY <1>f, <2>1, <2>3 DEF FileAt
    <3>. QED  BY <2>1, <2>3, <3>1, <3>2, <3>3 DEF FileAt
  <2>. QED  BY <2>2, <2>3
<1>6. CASE checkpoint_write_file(r)
  <2>1. /\ proc[r] = "alive" /\ pc[r] = "saving"
        /\ UNCHANGED <<proc, epoch, handler, epoch_file, faults>>
        /\ checkpoints' = [checkpoints EXCEPT ![r] = @ \cup {epoch[r]}]
        /\ pc' = [pc EXCEPT ![r] = "written"]
    BY <1>6 DEF checkpoint_write_file, WrittenCheckpoint
  <2>2. CASE q # r
    BY <1>f, <2>1, <2>2 DEF FileAt, HandlerAt
  <2>3. CASE q = r
    BY <1>f, <2>1, <2>3 DEF FileAt, HandlerAt
  <2>. QED  BY <2>2, <2>3
<1>7. CASE checkpoint_write_check(r)
  BY <1>f, <1>7 DEF checkpoint_write_check, FileAt, HandlerAt
<1>8. CASE checkpoint_write_epoch(r)
  BY <1>f, <1>8 DEF checkpoint_write_epoch, FileAt, HandlerAt
<1>9. CASE checkpoint_write_close(r)
  BY <1>f, <1>9 DEF checkpoint_write_close, FileAt, HandlerAt
<1>10. CASE MPIX_Checkpoint_read(r)
  BY <1>f, <1>10 DEF MPIX_Checkpoint_read, FileAt, HandlerAt
<1>11. CASE wait_commit(r)
  <2>1. /\ proc[r] = "alive" /\ pc[r] = "wait_commit"
        /\ UNCHANGED <<handler, checkpoints, epoch_file, faults>>
        /\ \/ /\ pc' = [pc EXCEPT ![r] = "reload_barrier"] /\ UNCHANGED proc
              /\ \E e : epoch' = [epoch EXCEPT ![r] = e]
           \/ proc' = [proc EXCEPT ![r] = "zombie"] /\ UNCHANGED <<pc, epoch>>
    BY <1>11 DEF wait_commit
  <2>. QED  BY <1>f, <2>1 DEF FileAt, HandlerAt
<1>12. CASE MPI_Finalize(r)
  BY <1>u, <1>12 DEF MPI_Finalize
<1>13. CASE setErr(r)
  <2>1. /\ UNCHANGED <<pc, epoch, handler, checkpoints, epoch_file, faults>>
        /\ handler[r] => UNCHANGED proc
        /\ proc' = proc \/ proc' = [proc EXCEPT ![r] = "zombie"]
    BY <1>13 DEF setErr
  <2>2. pc[r] = "saving" => handler[r]
    BY DEF DurableInv, FileAt, HandlerAt
  <2>. QED  BY <1>u, <2>1, <2>2
<1>14. CASE Fail(r)
  <2>1. /\ faults = 0 /\ faults' = faults + 1
        /\ UNCHANGED <<pc, epoch, handler, checkpoints, epoch_file>>
    BY <1>f, <1>14, ApplicationAssumption DEF Fail, ApplicationAssumption
  <2>. QED  BY <1>f, <2>1 DEF FileAt, HandlerAt
<1>. QED
  BY <1>1, <1>2, <1>3, <1>4, <1>5, <1>6, <1>7, <1>8, <1>9, <1>10, <1>11, <1>12, <1>13, <1>14
     DEF RankStep

LEMMA StepDurable ==
    TypeOK /\ MaxFaults <= 1 /\ DecisionAfterWait /\ DurableInv /\ [Next]_vars => DurableInv'
<1>. SUFFICES ASSUME TypeOK, MaxFaults <= 1, DecisionAfterWait, DurableInv, [Next]_vars
              PROVE  DurableInv'
  OBVIOUS
<1>n. NetTypeOK /\ RankTypeOK /\ LayoutAssumption /\ faults \in Nat
  BY LayoutAssumption DEF TypeOK, RankTypeOK
<1>u. ASSUME UNCHANGED rankVars,
             \A q \in Ranks : pc[q] = "saving" /\ proc[q] = "alive" => proc'[q] = "alive"
      PROVE  \A q \in Ranks : FileAt(q)'
  BY <1>u DEF DurableInv, FileAt, HandlerAt, At, rankVars
<1>1. ASSUME NEW r \in Ranks, Rank(r)
      PROVE  DurableInv'
  <2>1. RankStep(r) /\ UNCHANGED faults
    BY <1>1, <1>n, RankMoves DEF Rank
  <2>. QED  BY <1>n, <2>1, RankFiles, RankFresh DEF DurableInv
<1>2. ASSUME NEW r \in Ranks, Signal(r)
      PROVE  DurableInv'
  <2>1. setErr(r) /\ pending[r] /\ UNCHANGED faults
    BY <1>2 DEF Signal, setErr
  <2>2. faults # 0
    BY <2>1 DEF DurableInv, Fresh, Untouched
  <2>. QED  BY <1>n, <2>1, <2>2, RankFiles DEF DurableInv
<1>3. ASSUME NEW r \in Ranks, Failure(r)
      PROVE  DurableInv'
  <2>1. Fail(r) /\ faults' = faults + 1
    BY <1>3 DEF Failure, Fail
  <2>. QED  BY <1>n, <2>1, RankFiles DEF DurableInv
<1>4. ASSUME NEW r \in Ranks, Monitor(r)
      PROVE  DurableInv'
  <2>1. faults' = faults /\ (faults = 0 => Fresh')
    <3>1. faults' = faults
      BY <1>4 DEF Monitor, FaultDaemonStep, inform_head, restart, Launch, shutdown_ack, rankVars
    <3>. QED  BY <1>4, <1>n, <3>1, MonitorFresh DEF Monitor, DurableInv
  <2>2. CASE inform_head(r) \/ shutdown_ack(r)
    <3>1. UNCHANGED rankVars /\ \A q \in Ranks : proc[q] = "alive" => proc'[q] = "alive"
      BY <1>n, <2>2 DEF inform_head, shutdown_ack, WaitReturns, osVars, NetTypeOK
    <3>. QED  BY <1>u, <2>1, <3>1 DEF DurableInv
  <2>3. CASE restart(r)
    <3>1. /\ proc[r] = "reaped" /\ UNCHANGED <<checkpoints, epoch_file, faults>>
          /\ proc' = [proc EXCEPT ![r] = "alive"] /\ pc' = [pc EXCEPT ![r] = "launched"]
          /\ handler' = [handler EXCEPT ![r] = FALSE]
          /\ \E e : epoch' = [epoch EXCEPT ![r] = e]
      BY <2>3 DEF restart, Launch, Goto, DecisionAfterWait
    <3>2. \A q \in Ranks : FileAt(q)'
      BY <1>n, <3>1 DEF DurableInv, FileAt, HandlerAt, At, NetTypeOK, RankTypeOK
    <3>. QED  BY <2>1, <3>2 DEF DurableInv
  <2>. QED  BY <1>4, <2>2, <2>3 DEF Monitor, FaultDaemonStep
<1>5. ASSUME NEW n \in Nodes, NodeHead(n)
      PROVE  DurableInv'
  <2>1. UNCHANGED <<rankVars, proc>>
    BY <1>5, HeadLeaves
  <2>. QED  BY <1>n, <1>u, <1>5, <2>1, HeadFresh DEF DurableInv, rankVars
<1>6. CASE Controller
  <2>1. UNCHANGED <<rankVars, proc>>
    BY <1>6 DEF Controller, ControllerStep, node_barrier, node_success, node_shutdown,
                process_exit, node_epoch, Takes, osVars
  <2>. QED  BY <1>n, <1>u, <1>6, <2>1, ControllerFresh DEF DurableInv, rankVars
<1>7. CASE UNCHANGED vars
  <2>1. UNCHANGED <<rankVars, proc>> /\ (Fresh => Fresh')
    BY <1>7 DEF vars, netVars, rankNet, fdNet, headNet, osVars, rankVars, Fresh, AllClean, Untouched
  <2>. QED  BY <1>u, <2>1 DEF DurableInv, rankVars
<1>. QED
  BY <1>1, <1>2, <1>3, <1>4, <1>5, <1>6, <1>7 DEF Next, Finished

LEMMA InitDurable == Init => DurableInv
<1>. SUFFICES ASSUME Init
              PROVE  DurableInv
  OBVIOUS
<1>1. AllClean
  BY EmptyHas DEF Init, NetInit, AllClean, Clean
<1>2. \A r \in Ranks : FileAt(r) /\ Untouched(r)
  BY DEF Init, NetInit, RankInit, FileAt, HandlerAt, Untouched, Success, TryReload
<1>. QED  BY <1>1, <1>2 DEF DurableInv, Fresh

LEMMA AlwaysDurable == ASSUME MaxFaults <= 1 PROVE Spec => []DurableInv
<1>1. Init => DecisionAfterWait
  BY DEF Init, FaultDaemonInit, DecisionAfterWait
<1>2. TypeOK /\ DecisionAfterWait /\ [Next]_vars => DecisionAfterWait'
  BY StepDecision
<1>3. TypeOK /\ DecisionAfterWait /\ DurableInv /\ [Next]_vars => DurableInv'
  BY StepDurable
<1>. QED
  BY <1>1, <1>2, <1>3, InitDurable, TypeCorrect, PTL DEF Spec

\* At whatever step of checkpoint_write the one process that fails dies, while the checkpoint
\* file is open, between the two files, or while the epoch file is open: the checkpoint of the
\* epoch before the one that its fault daemon reports is complete.
THEOREM Durable ==
    ASSUME MaxFaults <= 1
    PROVE  Spec => []ReportedEpochIsDurable
<1>1. DurableInv => ReportedEpochIsDurable
  <2>. SUFFICES ASSUME DurableInv, NEW r \in Ranks, proc[r] # "alive", ReadEpochFile(r) > 0
                PROVE  ReadEpochFile(r) - 1 \in checkpoints[r]
    BY DEF ReportedEpochIsDurable
  <2>1. epoch_file[r] # None /\ ReadEpochFile(r) = epoch_file[r]
    BY DEF ReadEpochFile
  <2>. QED  BY <2>1 DEF DurableInv, FileAt, At
<1>. QED
  BY <1>1, AlwaysDurable, PTL
================================================================================
