------------------------------- MODULE QuietProofs -------------------------------
(***************************************************************************)
(* Theorems about the case the runtime is built for: an application that   *)
(* synchronises its ranks around its checkpoints, and at most one failure, *)
(* while every rank computes in the same epoch. They hold for every number *)
(* of ranks and nodes, every layout and every number of checkpoints.       *)
(***************************************************************************)
EXTENDS RecoveryProofs

QuietCase == Lockstep /\ FailWhen = "quiet" /\ MaxFaults <= 1

(***************************************************************************)
(* The states of a rank: its process, its fault daemon, its entry in ranks *)
(* of the head daemon, and the packets between them. Every connection      *)
(* carries one packet at most.                                             *)
(***************************************************************************)
Release == [type |-> "release"]
Commit(e) == [type |-> "commit", epoch |-> e]
Cleanup(e) == [type |-> "cleanup", epoch |-> e]

Linked(r, out, in) == rank_out[r] = out /\ rank_in[r] = in
Watched(r) == fault_daemon[r] = "app" /\ fd_out[r] = <<>> /\ fd_in[r] = <<>>
Calm(r) == ~is_errSet[r] /\ ~pending[r]
Living(r) ==
    /\ proc[r] = "alive" /\ Watched(r)
    /\ pc[r] \in {"run", "wait_commit", "reload_barrier"} \cup InCheckpoint => handler[r]
Waits(r) == Living(r) /\ Calm(r) /\ pc[r] \in InBarrier

Launching(r) ==
    Living(r) /\ Calm(r) /\ pc[r] = "launched" /\ registered[r] = 0 /\ Linked(r, <<>>, <<>>)
Knocking(r) ==
    Waits(r) /\ registered[r] \in {0, pid[r]} /\ Linked(r, <<BarrierPacket(r)>>, <<>>)
Inside(r) == Waits(r) /\ registered[r] = pid[r] /\ Linked(r, <<>>, <<>>)
Freed(r) == Waits(r) /\ registered[r] = pid[r] /\ Linked(r, <<>>, <<Release>>)
Computing(r) ==
    /\ Living(r) /\ Calm(r) /\ registered[r] = pid[r] /\ Linked(r, <<>>, <<>>)
    /\ pc[r] \in {"initialized", "run"} \cup InCheckpoint
    /\ pc[r] \in {"saving", "written", "counting"} => epoch[r] < LastEpoch

\* A survivor of a failure: it is sent the signal, and answers it.
Alerted(r) ==
    /\ Living(r) /\ ~is_errSet[r] /\ pending[r] /\ pc[r] = "run"
    /\ registered[r] = pid[r] /\ Linked(r, <<>>, <<>>)
Recovering(r, out, in) ==
    /\ Living(r) /\ ~pending[r] /\ registered[r] = pid[r] /\ Linked(r, out, in)
    /\ \/ pc[r] = "run" /\ is_errSet[r]
       \/ pc[r] = "wait_commit" /\ ~is_errSet[r]

\* The end of a process: it exits, is waited for and reported, and the report is taken.
Ended(r, code) == exit_code[r] = code /\ ~pending[r] /\ Linked(r, <<>>, <<>>)
Exited(r, code) ==
    Ended(r, code) /\ proc[r] = "zombie" /\ Watched(r) /\ registered[r] = pid[r]
Reported(r, code) ==
    /\ Ended(r, code) /\ proc[r] = "reaped" /\ fault_daemon[r] = "recv" /\ fd_in[r] = <<>>
    /\ fd_out[r] = <<[type |-> "termination", code |-> code, epoch |-> ReadEpochFile(r)]>>
    /\ registered[r] = pid[r]
Settled(r, code, decision) ==
    /\ Ended(r, code) /\ proc[r] = "reaped" /\ fault_daemon[r] = "recv"
    /\ fd_in[r] = decision /\ fd_out[r] = <<>> /\ registered[r] = 0

(***************************************************************************)
(* The phases of a job.                                                    *)
(***************************************************************************)
NoBarrier == head_daemon_count = 0 /\ \A n \in Nodes : barrier_count[n] = 0
NoReports ==
    /\ node_epochs = 0 /\ global_minimum_epoch = None
    /\ \A n \in Nodes : cleanups[n] = 0 /\ node_minimum_epoch[n] = None
NoSuccess ==
    /\ node_successes = 0 /\ \A n \in Nodes : success_counter[n] = 0
Started == head_daemons = Nodes
Failed(f) == faults = 1 /\ \A n \in Nodes : fault_daemons[n] = IF n = NodeOf[f] THEN {f} ELSE {}
Level(e) == \A r \in Ranks : epoch[r] = e

\* The daemons' barrier while it fills: the ranks W have been counted by their heads, the
\* nodes D by the controller.
Filling(W, D) ==
    /\ head_daemon_count = Cardinality(D) /\ D \subseteq head_daemons /\ D # Nodes
    /\ \A r \in W : Inside(r)
    /\ \A n \in Nodes :
          IF LocalRanks(n) \subseteq W
          THEN barrier_count[n] = 0 /\ head_out[n] = IF n \in D THEN <<>> ELSE <<[type |-> "node_barrier"]>>
          ELSE /\ n \notin D /\ head_out[n] = <<>>
               /\ barrier_count[n] = Cardinality(W \cap LocalRanks(n))

Starting(W, D) ==
    /\ NoReports /\ NoSuccess /\ faults = 0 /\ Level(0) /\ Filling(W, D)
    /\ \A n \in Nodes : fault_daemons[n] = {} /\ head_in[n] = <<>>
    /\ \A r \in Ranks \ W : Launching(r) \/ Knocking(r)

\* The barrier has opened, and the ranks leave it and compute.
Open(e) ==
    /\ NoReports /\ NoSuccess /\ NoBarrier /\ Started
    /\ faults = 0 => \A n \in Nodes : fault_daemons[n] = {}
    /\ \A n \in Nodes : fault_daemons[n] \subseteq LocalRanks(n)
    /\ \A n \in Nodes : head_out[n] = <<>> /\ head_in[n] \in {<<>>, <<Release>>}
    /\ \A r \in Ranks :
          IF head_in[NodeOf[r]] = <<Release>> THEN Inside(r) ELSE Freed(r) \/ Computing(r)
    /\ \A r \in Ranks : pc[r] \in InBarrier => epoch[r] = e

\* Rank f has failed in epoch e. Its end is reported, to the controller in the end.
Running(r) == Computing(r) /\ pc[r] = "run"
Ending(r) == Computing(r) /\ pc[r] \in {"run", "naming"}
Failing(f, e) ==
    /\ NoReports /\ NoSuccess /\ NoBarrier /\ Started /\ faults = 1 /\ Level(e)
    /\ \A r \in Ranks \ {f} : Running(r)
    /\ \A n \in Nodes : head_in[n] = <<>>
    /\ \/ /\ Exited(f, TryReload) \/ Reported(f, TryReload)
          /\ \A n \in Nodes : head_out[n] = <<>> /\ fault_daemons[n] = {}
       \/ /\ Settled(f, TryReload, <<>>) /\ Failed(f)
          /\ \A n \in Nodes : head_out[n] =
                IF n = NodeOf[f] THEN <<[type |-> "process_exit", code |-> TryReload, epoch |-> e]>>
                ELSE <<>>

\* The survivors C have reported to their heads, the nodes D to the controller.
Survivors(n, f) == LocalRanks(n) \ {f}
Minima(S, e) == IF S = {} THEN None ELSE e
Unaware(n, f, e, C, D) ==
    /\ n \notin D /\ head_in[n] = <<[type |-> "error", epoch |-> e]>> /\ head_out[n] = <<>>
    /\ cleanups[n] = 0 /\ node_minimum_epoch[n] = None
    /\ \A r \in Survivors(n, f) : r \notin C /\ Running(r)
Collecting(n, f, e, C, D) ==
    /\ n \notin D /\ head_in[n] = <<>> /\ head_out[n] = <<>>
    /\ ~(Survivors(n, f) \subseteq C)
    /\ cleanups[n] = Cardinality(C \cap LocalRanks(n))
    /\ node_minimum_epoch[n] = Minima(C \cap LocalRanks(n), e)
    /\ \A r \in Survivors(n, f) \ C : Alerted(r) \/ Recovering(r, <<Cleanup(e)>>, <<>>)
Answered(n, f, e, C, D) ==
    /\ head_in[n] = <<>> /\ Survivors(n, f) \subseteq C
    /\ cleanups[n] = 0 /\ node_minimum_epoch[n] = None
    /\ head_out[n] = IF n \in D THEN <<>> ELSE <<[type |-> "node_epoch", epoch |-> e]>>
Reporting(f, e, C, D) ==
    /\ NoSuccess /\ NoBarrier /\ Started /\ Failed(f) /\ Level(e)
    /\ Settled(f, TryReload, <<>>)
    /\ node_epochs = Cardinality(D) /\ D # Nodes /\ global_minimum_epoch = Minima(D, e)
    /\ f \notin C /\ \A r \in C : Recovering(r, <<>>, <<>>)
    /\ \A n \in Nodes :
          Unaware(n, f, e, C, D) \/ Collecting(n, f, e, C, D) \/ Answered(n, f, e, C, D)

\* The epoch is committed: the survivors go back to it, the failed rank is restarted in
\* it, and all meet in the barrier.
Returns(r, e) ==
    IF head_in[NodeOf[r]] = <<>>
    THEN Recovering(r, <<>>, <<Commit(e)>>) \/ Knocking(r)
    ELSE Recovering(r, <<>>, <<>>)
Restarts(f, e) ==
    IF head_in[NodeOf[f]] = <<>>
    THEN \/ Settled(f, TryReload, <<[type |-> "restart", epoch |-> e]>>)
         \/ Launching(f) \/ Knocking(f)
    ELSE Settled(f, TryReload, <<>>)
Returning(f, e, W, D) ==
    /\ NoReports /\ NoSuccess /\ Started /\ Failed(f) /\ Level(e) /\ Filling(W, D)
    /\ \A n \in Nodes : head_in[n] \in {<<>>, <<Commit(e)>>}
    /\ \A r \in W : head_in[NodeOf[r]] = <<>>
    /\ \A r \in Ranks \ (W \cup {f}) : Returns(r, e)
    /\ f \notin W => Restarts(f, e)

\* The first rank has finished, and the others have counted their last epoch. The ends of the ranks E have been counted by their heads,
\* the nodes D by the controller.
Finishing(E, D) ==
    /\ NoReports /\ NoBarrier /\ Started
    /\ \A r \in Ranks : epoch[r] >= LastEpoch
    /\ \E r \in Ranks : proc[r] # "alive"
    /\ \A r \in E : Settled(r, Success, <<>>)
    /\ \A r \in Ranks \ E : Ending(r) \/ Exited(r, Success) \/ Reported(r, Success)
    /\ node_successes = Cardinality(D) /\ D # Nodes
    /\ \A n \in Nodes :
          /\ head_in[n] = <<>>
          /\ E \cap LocalRanks(n) \subseteq fault_daemons[n] /\ fault_daemons[n] \subseteq LocalRanks(n)
          /\ IF LocalRanks(n) \subseteq E
             THEN success_counter[n] = 0 /\ head_out[n] = IF n \in D THEN <<>> ELSE <<[type |-> "node_success"]>>
             ELSE /\ n \notin D /\ head_out[n] = <<>>
                  /\ success_counter[n] = Cardinality(E \cap LocalRanks(n))

\* All have finished, and the daemons stop.
Stopping ==
    /\ \A r \in Ranks :
          /\ proc[r] = "reaped" /\ exit_code[r] = Success /\ Linked(r, <<>>, <<>>)
          /\ fault_daemon[r] # "app"
    /\ fd_in \in [Ranks -> Seq([type : {"shutdown"}])]
    /\ fd_out \in [Ranks -> Seq([type : {"shutdown_ack"}])]
    /\ head_in \in [Nodes -> Seq([type : {"shutdown"}])]
    /\ head_out \in [Nodes -> Seq([type : {"node_shutdown"}])]

\* The epoch of a process is that of its file, unless the file is open, and a launched one
\* is in the epoch that its fault daemon was given.
EpochsInOrder ==
    \A r \in Ranks :
        /\ epoch_file[r] = IF epoch[r] = 0 \/ At(r, "naming") THEN None ELSE epoch[r]
        /\ At(r, "naming") => epoch[r] > 0
        /\ pc[r] \in {"launched", "restore_barrier"} => epoch[r] = set_epoch[r]
        /\ pid[r] > 0
AllUp == controller = "up" /\ \A n \in Nodes : head_state[n] = "up"

Phase ==
    \/ AllUp /\ \E W \in SUBSET Ranks, D \in SUBSET Nodes : Starting(W, D)
    \/ AllUp /\ \E e \in Nat : Open(e)
    \/ AllUp /\ \E f \in Ranks : Failing(f, epoch[f])
    \/ AllUp /\ \E f \in Ranks, C \in SUBSET Ranks, D \in SUBSET Nodes : Reporting(f, epoch[f], C, D)
    \/ AllUp /\ \E f \in Ranks, W \in SUBSET Ranks, D \in SUBSET Nodes : Returning(f, epoch[f], W, D)
    \/ AllUp /\ \E E \in SUBSET Ranks, D \in SUBSET Nodes : Finishing(E, D)
    \/ Intact /\ Stopping
QuietInv == EpochsInOrder /\ Phase

--------------------------------------------------------------------------------
(***************************************************************************)
(* What a step does to one rank, the others being as they were.            *)
(***************************************************************************)
SameRank(q) ==
    /\ proc'[q] = proc[q] /\ pid'[q] = pid[q] /\ exit_code'[q] = exit_code[q]
    /\ pending'[q] = pending[q] /\ pc'[q] = pc[q] /\ epoch'[q] = epoch[q]
    /\ is_errSet'[q] = is_errSet[q] /\ handler'[q] = handler[q]
    /\ epoch_file'[q] = epoch_file[q] /\ set_epoch'[q] = set_epoch[q]
    /\ rank_out'[q] = rank_out[q] /\ rank_in'[q] = rank_in[q]
    /\ fd_out'[q] = fd_out[q] /\ fd_in'[q] = fd_in[q]
    /\ fault_daemon'[q] = fault_daemon[q] /\ registered'[q] = registered[q]
SameNode(n) ==
    /\ head_state'[n] = head_state[n] /\ fault_daemons'[n] = fault_daemons[n]
    /\ barrier_count'[n] = barrier_count[n] /\ success_counter'[n] = success_counter[n]
    /\ cleanups'[n] = cleanups[n] /\ node_minimum_epoch'[n] = node_minimum_epoch[n]
    /\ head_out'[n] = head_out[n] /\ head_in'[n] = head_in[n]
OthersSame(r) == \A q \in Ranks \ {r} : SameRank(q)
NodesSame == \A n \in Nodes : SameNode(n)
RankAlone(r) == OthersSame(r) /\ NodesSame /\ UNCHANGED controllerVars

\* A rank that is left alone stays as it is.
LEMMA RankSame ==
    ASSUME NEW q, SameRank(q)
    PROVE  /\ Launching(q) => Launching(q)'
           /\ Knocking(q) => Knocking(q)'
           /\ Inside(q) => Inside(q)'
           /\ Freed(q) => Freed(q)'
           /\ Computing(q) => Computing(q)'
           /\ Running(q) => Running(q)'
           /\ Ending(q) => Ending(q)'
           /\ Alerted(q) => Alerted(q)'
           /\ \A out, in : Recovering(q, out, in) => Recovering(q, out, in)'
           /\ \A code : Exited(q, code) => Exited(q, code)'
           /\ \A code : Reported(q, code) => Reported(q, code)'
           /\ \A code, d : Settled(q, code, d) => Settled(q, code, d)'
<1>. USE DEF SameRank, Linked, Watched, Calm, Living, Waits, InCheckpoint
<1>1. Launching(q) => Launching(q)'
  BY DEF Launching
<1>2. Knocking(q) => Knocking(q)'
  BY DEF Knocking, BarrierPacket, InBarrier
<1>3. Inside(q) => Inside(q)'
  BY DEF Inside, InBarrier
<1>4. Freed(q) => Freed(q)'
  BY DEF Freed, InBarrier, Release
<1>5. Computing(q) => Computing(q)'
  BY DEF Computing
<1>6. Running(q) => Running(q)'
  BY <1>5 DEF Running
<1>12. Ending(q) => Ending(q)'
  BY <1>5 DEF Ending
<1>7. Alerted(q) => Alerted(q)'
  BY DEF Alerted
<1>8. ASSUME NEW out, NEW in PROVE Recovering(q, out, in) => Recovering(q, out, in)'
  BY DEF Recovering
<1>9. ASSUME NEW code PROVE Exited(q, code) => Exited(q, code)'
  BY DEF Exited, Ended
<1>10. ASSUME NEW code PROVE Reported(q, code) => Reported(q, code)'
  BY DEF Reported, Ended, ReadEpochFile, None
<1>11. ASSUME NEW code, NEW d PROVE Settled(q, code, d) => Settled(q, code, d)'
  BY DEF Settled, Ended
<1>. QED
  BY <1>1, <1>2, <1>3, <1>4, <1>5, <1>6, <1>7, <1>8, <1>9, <1>10, <1>11, <1>12

\* The types of what a process and its fault daemon touch.
LEMMA RankTypes ==
    ASSUME TypeOK
    PROVE  /\ rank_out \in [Ranks -> Seq(FromRank)] /\ rank_in \in [Ranks -> Seq(ToRank)]
           /\ fd_out \in [Ranks -> Seq(FromFaultDaemon)] /\ fd_in \in [Ranks -> Seq(ToFaultDaemon)]
           /\ pid \in [Ranks -> Nat] /\ DOMAIN proc = Ranks /\ DOMAIN exit_code = Ranks
           /\ pending \in [Ranks -> BOOLEAN] /\ DOMAIN pc = Ranks /\ epoch \in [Ranks -> Nat]
           /\ is_errSet \in [Ranks -> BOOLEAN] /\ handler \in [Ranks -> BOOLEAN]
           /\ DOMAIN epoch_file = Ranks /\ DOMAIN set_epoch = Ranks
           /\ DOMAIN fault_daemon = Ranks /\ registered \in [Ranks -> Nat]
BY DEF TypeOK, NetTypeOK, RankTypeOK, FaultDaemonTypeOK, HeadTypeOK

\* MPI_Init sends "barrier" and waits.
LEMMA InitStep ==
    ASSUME TypeOK, NEW r \in Ranks, Rank(r), MPI_Init(r), Launching(r)
    PROVE  RankAlone(r) /\ Knocking(r)' /\ epoch' = epoch /\ UNCHANGED <<faults, pid>>
<1>. USE RankTypes DEF Rank, MPI_Init, rankNet, fdNet, headNet, osVars, faultDaemonVars,
             headVars, controllerVars, At, Goto, Push
<1>1. /\ pc'[r] \in {"init_barrier", "restore_barrier"}
      /\ rank_out'[r] = Append(rank_out[r], BarrierPacket(r))
  OBVIOUS
<1>2. rank_out'[r] = <<BarrierPacket(r)>>
  BY <1>1 DEF Launching, Linked
<1>3. OthersSame(r) /\ NodesSame
  BY DEF OthersSame, NodesSame, SameRank, SameNode
<1>4. Knocking(r)'
  BY <1>1, <1>2 DEF Launching, Knocking, Waits, Living, Calm, Watched, Linked, BarrierPacket,
                    InBarrier, InCheckpoint
<1>. QED
  BY <1>3, <1>4 DEF RankAlone

\* The checkpoint that a process is restarted from is there.
LEMMA CheckpointExists ==
    ASSUME DurableInv, EpochsInOrder, NEW r \in Ranks, At(r, "launched")
    PROVE  ~checkpoint_read_throws(r)
BY DEF DurableInv, FileAt, At, EpochsInOrder, checkpoint_read_throws, None

\* A process leaves the barrier in the epoch in which it entered.
LEMMA LeaveStep ==
    ASSUME TypeOK, EpochsInOrder, NEW r \in Ranks, Rank(r), recv_barrier_release(r), Freed(r)
    PROVE  RankAlone(r) /\ Computing(r)' /\ epoch' = epoch /\ UNCHANGED <<faults, pid>>
<1>. USE RankTypes DEF Rank, recv_barrier_release, rankNet, fdNet, headNet, osVars,
             faultDaemonVars, headVars, controllerVars, Goto, Pop
<1>1. /\ pc'[r] = IF pc[r] = "reload_barrier" THEN "run" ELSE "initialized"
      /\ rank_in'[r] = Tail(rank_in[r])
  OBVIOUS
<1>2. rank_in'[r] = <<>>
  BY <1>1 DEF Freed, Linked
<1>3. epoch' = epoch
  BY DEF EpochAfterBarrier, EpochsInOrder, None, At
<1>4. OthersSame(r) /\ NodesSame
  BY <1>3 DEF OthersSame, NodesSame, SameRank, SameNode
<1>5. Computing(r)'
  BY <1>1, <1>2 DEF Freed, Computing, Waits, Living, Calm, Watched, Linked, InCheckpoint
<1>. QED
  BY <1>3, <1>4, <1>5 DEF RankAlone

\* The steps of a process that computes.
LEMMA ComputeStep ==
    ASSUME TypeOK, NEW r \in Ranks, Rank(r), Computing(r),
           \/ MPI_Comm_set_errhandler(r) \/ checkpoint_write_open(r) \/ checkpoint_write_file(r)
           \/ checkpoint_write_check(r) \/ checkpoint_write_epoch(r) \/ checkpoint_write_close(r)
    PROVE  RankAlone(r) /\ Computing(r)' /\ UNCHANGED <<faults, pid, proc>>
<1>. USE RankTypes DEF Rank, rankNet, fdNet, headNet, osVars, faultDaemonVars, headVars,
             controllerVars, At, Goto, Computing, Living, Calm, Watched, Linked, OthersSame,
             NodesSame, SameRank, SameNode, RankAlone, InCheckpoint
<1>1. CASE MPI_Comm_set_errhandler(r)
  BY <1>1 DEF MPI_Comm_set_errhandler
<1>2. CASE checkpoint_write_file(r)
  BY <1>2 DEF checkpoint_write_file
<1>3. CASE checkpoint_write_check(r)
  BY <1>3 DEF checkpoint_write_check
<1>4. CASE checkpoint_write_epoch(r)
  BY <1>4 DEF checkpoint_write_epoch
<1>5. CASE checkpoint_write_open(r)
  BY <1>5 DEF checkpoint_write_open
<1>6. CASE checkpoint_write_close(r)
  BY <1>6 DEF checkpoint_write_close
<1>. QED
  BY <1>1, <1>2, <1>3, <1>4, <1>5, <1>6

\* A survivor calls MPIX_Checkpoint_read.
LEMMA ReadStep ==
    ASSUME TypeOK, NEW r \in Ranks, Rank(r), MPIX_Checkpoint_read(r), NEW out, NEW in,
           Recovering(r, out, in)
    PROVE  /\ RankAlone(r) /\ Recovering(r, out, in)' /\ epoch' = epoch
           /\ UNCHANGED <<faults, pid>>
BY RankTypes DEF Rank, MPIX_Checkpoint_read, rankNet, fdNet, headNet, osVars, faultDaemonVars,
       headVars, controllerVars, At, Goto, Recovering, Living, Watched, Linked, OthersSame,
       NodesSame, SameRank, SameNode, RankAlone

\* A survivor gets the decision, and enters the barrier.
LEMMA CommitStep ==
    ASSUME TypeOK, NEW r \in Ranks, Rank(r), wait_commit(r),
           Recovering(r, <<>>, <<Commit(epoch[r])>>)
    PROVE  RankAlone(r) /\ Knocking(r)' /\ epoch' = epoch /\ UNCHANGED <<faults, pid>>
<1>. USE RankTypes DEF Rank, wait_commit, rankNet, fdNet, headNet, osVars, faultDaemonVars,
             headVars, controllerVars, At, Goto, Pop, Push
<1>0. /\ rank_in[r] = <<Commit(epoch[r])>> /\ rank_out[r] = <<>> /\ proc[r] = "alive"
      /\ pc[r] = "wait_commit" /\ ~is_errSet[r]
  BY DEF Recovering, Linked
<1>1. Head(rank_in[r]).type = "commit" /\ CommittedEpoch(r) = epoch[r] /\ Tail(rank_in[r]) = <<>>
  BY <1>0 DEF Commit, CommittedEpoch
<1>2. /\ pc' = [pc EXCEPT ![r] = "reload_barrier"]
      /\ rank_out' = [rank_out EXCEPT ![r] = Append(@, BarrierPacket(r))]
      /\ rank_in' = [rank_in EXCEPT ![r] = Tail(@)]
      /\ epoch' = [epoch EXCEPT ![r] = epoch[r]]
      /\ UNCHANGED <<pid, proc, exit_code, pending>>
  BY <1>1
<1>3. rank_out'[r] = <<BarrierPacket(r)>> /\ rank_in'[r] = <<>> /\ epoch' = epoch
  BY <1>0, <1>1, <1>2
<1>4. OthersSame(r) /\ NodesSame
  BY <1>2, <1>3 DEF OthersSame, NodesSame, SameRank, SameNode
<1>5. Knocking(r)'
  BY <1>0, <1>2, <1>3 DEF Recovering, Knocking, Waits, Living, Calm, Watched, Linked,
                          BarrierPacket, InBarrier
<1>. QED
  BY <1>3, <1>4, <1>5, <1>2 DEF RankAlone

\* A process ends, with success or as the failure.
LEMMA ExitStep ==
    ASSUME TypeOK, NEW r \in Ranks, NEW code, Running(r), Exit(r, code),
           UNCHANGED <<rankNet, fdNet, headNet, pc, epoch, is_errSet, handler, epoch_file>>,
           UNCHANGED <<faultDaemonVars, headVars, controllerVars>>
    PROVE  RankAlone(r) /\ Exited(r, code)' /\ epoch' = epoch /\ UNCHANGED pid
BY RankTypes DEF rankNet, fdNet, headNet, faultDaemonVars, headVars, controllerVars, Exit,
       Running, Computing, Exited, Ended, Living, Watched, Linked, OthersSame, NodesSame,
       SameRank, SameNode, RankAlone

\* The signal is delivered, and the handler reports the epoch.
LEMMA SignalStep ==
    ASSUME TypeOK, NEW r \in Ranks, Signal(r), Alerted(r)
    PROVE  /\ RankAlone(r) /\ Recovering(r, <<Cleanup(epoch[r])>>, <<>>)' /\ epoch' = epoch
           /\ UNCHANGED <<faults, pid>>
<1>. USE RankTypes DEF Signal, setErr, rankNet, fdNet, headNet, osVars, faultDaemonVars,
             headVars, controllerVars, Push
<1>0. handler[r] /\ rank_out[r] = <<>>
  BY DEF Alerted, Living, Linked
<1>1. rank_out'[r] = <<Cleanup(epoch[r])>>
  BY <1>0 DEF Cleanup
<1>2. OthersSame(r) /\ NodesSame
  BY <1>0 DEF OthersSame, NodesSame, SameRank, SameNode
<1>3. Recovering(r, <<Cleanup(epoch[r])>>, <<>>)'
  BY <1>0, <1>1 DEF Alerted, Recovering, Living, Watched, Linked, Cleanup
<1>. QED
  BY <1>0, <1>2, <1>3 DEF RankAlone

\* The fault daemon waits for the process, and reports.
LEMMA InformStep ==
    ASSUME TypeOK, NEW r \in Ranks, Monitor(r), inform_head(r), NEW code, Exited(r, code)
    PROVE  RankAlone(r) /\ Reported(r, code)' /\ epoch' = epoch /\ UNCHANGED <<faults, pid>>
<1>. USE RankTypes DEF Monitor, inform_head, rankNet, fdNet, headNet, rankVars,
             headVars, controllerVars, Push
<1>0. fd_out[r] = <<>> /\ exit_code[r] = code /\ proc[r] = "zombie"
  BY DEF Exited, Ended, Watched
<1>1. fd_out'[r] = <<[type |-> "termination", code |-> code, epoch |-> ReadEpochFile(r)]>>
  BY <1>0
<1>2. OthersSame(r) /\ NodesSame
  BY DEF OthersSame, NodesSame, SameRank, SameNode
<1>3. Reported(r, code)'
  BY <1>0, <1>1 DEF Exited, Reported, Ended, Watched, Linked, ReadEpochFile, None
<1>. QED
  BY <1>2, <1>3 DEF RankAlone

\* The fault daemon restarts the process in the epoch that it had reached.
LEMMA RestartStep ==
    ASSUME TypeOK, NEW r \in Ranks, Monitor(r), restart(r), NEW code,
           Settled(r, code, <<[type |-> "restart", epoch |-> epoch[r]]>>)
    PROVE  /\ RankAlone(r) /\ Launching(r)' /\ epoch' = epoch /\ set_epoch'[r] = epoch[r]
           /\ UNCHANGED faults /\ pid' = [pid EXCEPT ![r] = @ + 1]
<1>. USE RankTypes DEF Monitor, restart, Launch, fdNet, headNet, headVars, controllerVars,
             Goto, Pop
<1>0. /\ Head(fd_in[r]).epoch = epoch[r] /\ Tail(fd_in[r]) = <<>> /\ fd_out[r] = <<>>
      /\ registered[r] = 0 /\ rank_out[r] = <<>>
  BY DEF Settled, Ended, Linked
<1>1. epoch' = epoch /\ fd_in'[r] = <<>> /\ set_epoch'[r] = epoch[r]
  BY <1>0
<1>2. OthersSame(r) /\ NodesSame
  BY <1>1 DEF OthersSame, NodesSame, SameRank, SameNode
<1>3. Launching(r)'
  BY <1>0, <1>1 DEF Launching, Living, Watched, Calm, Linked, InCheckpoint
<1>. QED
  BY <1>1, <1>2, <1>3 DEF RankAlone

--------------------------------------------------------------------------------
(***************************************************************************)
(* What a step of a daemon does to the ranks and the nodes.                *)
(***************************************************************************)
LEMMA NodeTypes ==
    ASSUME TypeOK
    PROVE  /\ head_out \in [Nodes -> Seq(FromHead)] /\ head_in \in [Nodes -> Seq(ToHead)]
           /\ DOMAIN head_state = Nodes /\ fault_daemons \in [Nodes -> SUBSET Ranks]
           /\ barrier_count \in [Nodes -> Nat] /\ success_counter \in [Nodes -> Nat]
           /\ cleanups \in [Nodes -> Nat] /\ DOMAIN node_minimum_epoch = Nodes
           /\ disconnected \in [Nodes -> Nat]
           /\ NodeOf \in [Ranks -> Nodes]
BY LayoutAssumption DEF TypeOK, NetTypeOK, HeadTypeOK

OtherNodesSame(n) == \A m \in Nodes \ {n} : SameNode(m)

\* A packet of the barrier is counted by the head.
LEMMA HeadCountsBarrier ==
    ASSUME TypeOK, EpochsInOrder, NEW r \in Ranks, NodeHead(NodeOf[r]), process_barrier(r), Knocking(r)
    PROVE  LET n == NodeOf[r]
               complete == barrier_count[n] + 1 = local_rank_count(n)
           IN  /\ OthersSame(r) /\ Inside(r)' /\ epoch' = epoch /\ OtherNodesSame(n)
               /\ UNCHANGED <<controllerVars, faults, pid, proc, pc>>
               /\ UNCHANGED <<head_state, head_in, fault_daemons, success_counter, cleanups,
                              node_minimum_epoch>>
               /\ barrier_count'[n] = IF complete THEN 0 ELSE barrier_count[n] + 1
               /\ head_out'[n] = IF complete THEN Append(head_out[n], [type |-> "node_barrier"])
                                 ELSE head_out[n]
<1>. USE RankTypes, NodeTypes DEF NodeHead, process_barrier, rankNet, fdNet, osVars, rankVars,
             faultDaemonVars, controllerVars, Pop, Push, Bump, Reset, SendToController
<1>. DEFINE n == NodeOf[r]
<1>0. /\ rank_out[r] = <<BarrierPacket(r)>> /\ Head(rank_out[r]).pid = pid[r]
      /\ registered[r] \in {0, pid[r]} /\ pid[r] > 0 /\ n \in Nodes
  BY DEF Knocking, Linked, BarrierPacket, EpochsInOrder
<1>1. rank_out'[r] = <<>> /\ registered'[r] = pid[r]
  BY <1>0
<1>2. OthersSame(r)
  BY DEF OthersSame, SameRank
<1>3. OtherNodesSame(n)
  BY <1>0 DEF OtherNodesSame, SameNode
<1>4. Inside(r)'
  BY <1>0, <1>1 DEF Knocking, Inside, Waits, Living, Calm, Watched, Linked
<1>5. /\ barrier_count'[n] = IF barrier_count[n] + 1 = local_rank_count(n) THEN 0
                             ELSE barrier_count[n] + 1
      /\ head_out'[n] = IF barrier_count[n] + 1 = local_rank_count(n)
                        THEN Append(head_out[n], [type |-> "node_barrier"]) ELSE head_out[n]
  BY <1>0
<1>. QED
  BY <1>2, <1>3, <1>4, <1>5

\* The report of a survivor is counted by the head.
LEMMA HeadCountsCleanup ==
    ASSUME TypeOK, EpochsInOrder, NEW r \in Ranks, NodeHead(NodeOf[r]), process_cleanup(r),
           NEW e \in Nat, Recovering(r, <<Cleanup(e)>>, <<>>)
    PROVE  LET n == NodeOf[r]
               lowest == Minimum(node_minimum_epoch[n], e)
               complete == cleanups[n] + 1 = Cardinality(ranks(n))
           IN  /\ OthersSame(r) /\ Recovering(r, <<>>, <<>>)' /\ epoch' = epoch
               /\ OtherNodesSame(n) /\ UNCHANGED <<controllerVars, faults, pid, proc, pc>>
               /\ UNCHANGED <<head_state, head_in, fault_daemons, success_counter, barrier_count>>
               /\ cleanups'[n] = IF complete THEN 0 ELSE cleanups[n] + 1
               /\ node_minimum_epoch'[n] = IF complete THEN None ELSE lowest
               /\ head_out'[n] = IF complete
                                 THEN Append(head_out[n], [type |-> "node_epoch", epoch |-> lowest])
                                 ELSE head_out[n]
<1>. USE RankTypes, NodeTypes DEF NodeHead, process_cleanup, rankNet, fdNet, osVars, rankVars,
             faultDaemonVars, controllerVars, Pop, Push, Bump, Reset, SendToController
<1>. DEFINE n == NodeOf[r]
<1>0. /\ rank_out[r] = <<Cleanup(e)>> /\ Head(rank_out[r]).epoch = e
      /\ registered[r] # 0 /\ n \in Nodes
  BY DEF Recovering, Linked, Cleanup, EpochsInOrder
<1>1. rank_out'[r] = <<>>
  BY <1>0
<1>2. OthersSame(r)
  BY <1>0 DEF OthersSame, SameRank
<1>3. OtherNodesSame(n) /\ UNCHANGED head_state
  BY <1>0 DEF OtherNodesSame, SameNode
<1>4. Recovering(r, <<>>, <<>>)'
  BY <1>0, <1>1 DEF Recovering, Living, Watched, Linked
<1>5. /\ cleanups'[n] = IF cleanups[n] + 1 = Cardinality(ranks(n)) THEN 0 ELSE cleanups[n] + 1
      /\ node_minimum_epoch'[n] = IF cleanups[n] + 1 = Cardinality(ranks(n)) THEN None
                                  ELSE Minimum(node_minimum_epoch[n], e)
      /\ head_out'[n] = IF cleanups[n] + 1 = Cardinality(ranks(n))
                        THEN Append(head_out[n], [type |-> "node_epoch",
                                         epoch |-> Minimum(node_minimum_epoch[n], e)])
                        ELSE head_out[n]
  <2>1. CASE cleanups[n] + 1 = Cardinality(ranks(n))
    BY <1>0, <2>1
  <2>2. CASE cleanups[n] + 1 # Cardinality(ranks(n))
    BY <1>0, <2>2
  <2>. QED  BY <2>1, <2>2
<1>. QED
  BY <1>2, <1>3, <1>4, <1>5

\* The end of a process is taken by the head.
LEMMA HeadTakesTermination ==
    ASSUME TypeOK, EpochsInOrder, NEW r \in Ranks, NodeHead(NodeOf[r]), process_termination(r),
           NEW code, Reported(r, code)
    PROVE  LET n == NodeOf[r]
               complete == success_counter[n] + 1 = local_rank_count(n)
           IN  /\ OthersSame(r) /\ Settled(r, code, <<>>)' /\ epoch' = epoch /\ OtherNodesSame(n)
               /\ UNCHANGED <<controllerVars, faults, pid, proc, pc>>
               /\ UNCHANGED <<head_state, head_in, cleanups, node_minimum_epoch, barrier_count>>
               /\ fault_daemons'[n] = fault_daemons[n] \cup {r}
               /\ IF code = Success
                  THEN /\ success_counter'[n] = IF complete THEN 0 ELSE success_counter[n] + 1
                       /\ head_out'[n] = IF complete THEN Append(head_out[n], [type |-> "node_success"])
                                         ELSE head_out[n]
                  ELSE /\ success_counter'[n] = success_counter[n]
                       /\ head_out'[n] = Append(head_out[n], [type |-> "process_exit", code |-> code,
                                                              epoch |-> ReadEpochFile(r)])
<1>. USE RankTypes, NodeTypes DEF NodeHead, process_termination, rankNet, fdNet, osVars, rankVars,
             faultDaemonVars, controllerVars, Pop, Push, Bump, Reset, SendToController
<1>. DEFINE n == NodeOf[r]
<1>0. /\ Head(fd_out[r]).code = code /\ Head(fd_out[r]).epoch = ReadEpochFile(r)
      /\ Tail(fd_out[r]) = <<>> /\ registered[r] # 0 /\ n \in Nodes
  BY DEF Reported, EpochsInOrder
<1>1. fd_out'[r] = <<>> /\ registered'[r] = 0
  BY <1>0
<1>2. OthersSame(r)
  BY <1>0 DEF OthersSame, SameRank
<1>3. OtherNodesSame(n) /\ UNCHANGED head_state
  BY <1>0 DEF OtherNodesSame, SameNode
<1>4. Settled(r, code, <<>>)'
  BY <1>0, <1>1 DEF Reported, Settled, Ended, Linked
<1>5. /\ fault_daemons'[n] = fault_daemons[n] \cup {r}
      /\ IF code = Success
         THEN /\ success_counter'[n] = IF success_counter[n] + 1 = local_rank_count(n) THEN 0
                                       ELSE success_counter[n] + 1
              /\ head_out'[n] = IF success_counter[n] + 1 = local_rank_count(n)
                                THEN Append(head_out[n], [type |-> "node_success"])
                                ELSE head_out[n]
         ELSE /\ success_counter'[n] = success_counter[n]
              /\ head_out'[n] = Append(head_out[n], [type |-> "process_exit", code |-> code,
                                                     epoch |-> ReadEpochFile(r)])
  <2>1. /\ fault_daemons' = [fault_daemons EXCEPT ![n] = @ \cup {r}]
        /\ \/ /\ code = Success /\ success_counter[n] + 1 = local_rank_count(n)
              /\ success_counter' = [success_counter EXCEPT ![n] = 0]
              /\ head_out' = [head_out EXCEPT ![n] = Append(@, [type |-> "node_success"])]
           \/ /\ code = Success /\ success_counter[n] + 1 # local_rank_count(n)
              /\ success_counter' = [success_counter EXCEPT ![n] = @ + 1]
              /\ UNCHANGED head_out
           \/ /\ code # Success /\ UNCHANGED success_counter
              /\ head_out' = [head_out EXCEPT ![n] = Append(@, [type |-> "process_exit",
                                     code |-> code, epoch |-> ReadEpochFile(r)])]
    BY <1>0
  <2>. QED
    <3>. USE <1>0, <2>1
    <3>. HIDE DEF process_termination
    <3>. QED  OBVIOUS
<1>. QED
  BY <1>2, <1>3, <1>4, <1>5

\* What a packet of the controller leaves alone in any case.
DecisionTaken(n) ==
    /\ head_in'[n] = Tail(head_in[n]) /\ \A m \in Nodes \ {n} : SameNode(m)
    /\ UNCHANGED <<controllerVars, faults, pid, proc, pc, epoch>>
    /\ UNCHANGED <<fault_daemons, success_counter, cleanups, node_minimum_epoch, barrier_count>>
    /\ \A q \in Ranks : NodeOf[q] # n => SameRank(q)

\* The ranks that a head has registered.
LEMMA RegisteredRanks ==
    ASSUME NEW n \in Nodes, NEW q \in Ranks
    PROVE  q \in ranks(n) <=> NodeOf[q] = n /\ registered[q] # 0
BY DEF ranks, LocalRanks

\* "release" reaches every rank of a node, if all of them wait inside.
LEMMA HeadReleases ==
    ASSUME TypeOK, EpochsInOrder, NEW n \in Nodes, NodeHead(n), process_release(n),
           \A q \in LocalRanks(n) : Inside(q)
    PROVE  /\ DecisionTaken(n) /\ UNCHANGED <<head_state, head_out>>
           /\ \A q \in LocalRanks(n) : Freed(q)'
<1>. USE RankTypes, NodeTypes DEF NodeHead, process_release, fdNet, osVars, rankVars,
             faultDaemonVars, controllerVars, Pop, SendToRanks
<1>0. ASSUME NEW q \in Ranks PROVE q \in ranks(n) => Connected(q) /\ q \in LocalRanks(n)
  BY RegisteredRanks DEF LocalRanks, Inside, Waits, Living, Connected
<1>1. ~SendMayRaise(n)
  BY <1>0 DEF SendMayRaise, ranks, LocalRanks
<1>2. UNCHANGED <<head_state, head_out>>
  BY <1>1
<1>3. ASSUME NEW q \in Ranks, NodeOf[q] # n PROVE SameRank(q)
  <2>1. q \notin {r \in ranks(n) : Connected(r)}
    BY <1>0, <1>3 DEF LocalRanks
  <2>2. rank_in'[q] = rank_in[q]
    BY <2>1 DEF PushAll
  <2>. QED  BY <2>2 DEF SameRank
<1>4. ASSUME NEW q \in LocalRanks(n) PROVE Freed(q)'
  <2>1. q \in Ranks /\ registered[q] # 0 /\ NodeOf[q] = n /\ Connected(q) /\ rank_in[q] = <<>>
    BY DEF LocalRanks, Inside, EpochsInOrder, Linked, Connected, Waits, Living
  <2>2. q \in {r \in ranks(n) : Connected(r)}
    BY <2>1, RegisteredRanks
  <2>3. rank_in'[q] = <<Release>>
    BY <2>1, <2>2 DEF PushAll, Release
  <2>. QED  BY <2>1, <2>3 DEF Inside, Freed, Waits, Living, Calm, Watched, Linked, Release
<1>5. head_in'[n] = Tail(head_in[n]) /\ \A m \in Nodes \ {n} : SameNode(m)
  BY <1>2 DEF SameNode
<1>. QED
  BY <1>2, <1>3, <1>4, <1>5 DEF DecisionTaken

--------------------------------------------------------------------------------
(***************************************************************************)
(* The steps that a rank's process and its fault daemon can take, state    *)
(* by state.                                                               *)
(***************************************************************************)
Own(r) == Rank(r) \/ Signal(r) \/ Failure(r) \/ Monitor(r)

\* A process that is not alive takes no step, and a live one is left alone by its fault
\* daemon and, while it is calm, by the signal.
LEMMA DeadSteps ==
    ASSUME NEW r \in Ranks, Own(r), proc[r] # "alive"
    PROVE  Monitor(r)
BY DEF Own, Rank, RankStep, MPI_Init, checkpoint_read_throws, recv_barrier_release,
       MPI_Comm_set_errhandler, checkpoint_write_open, checkpoint_write_file,
       checkpoint_write_check, checkpoint_write_epoch, checkpoint_write_close, MPIX_Checkpoint_read, wait_commit, MPI_Finalize, At, Signal,
       setErr, Failure, Fail

LEMMA LivingSteps ==
    ASSUME NEW r \in Ranks, Own(r), Living(r)
    PROVE  \/ Rank(r)
           \/ Signal(r) /\ pending[r]
           \/ Failure(r) /\ pc[r] \in {"run"} \cup InCheckpoint
BY DEF Own, Living, Watched, Monitor, FaultDaemonStep, inform_head, WaitReturns, restart,
       shutdown_ack, Signal, setErr, Failure, Fail, At

\* The steps of a process, by the place where it is.
LEMMA StepsByPlace ==
    ASSUME NEW r \in Ranks, Rank(r)
    PROVE  \/ pc[r] = "launched" /\ (MPI_Init(r) \/ checkpoint_read_throws(r))
           \/ pc[r] \in InBarrier /\ rank_in[r] # <<>> /\ recv_barrier_release(r)
           \/ pc[r] = "initialized" /\ MPI_Comm_set_errhandler(r)
           \/ pc[r] = "run" /\ Synchronised(r) /\ (checkpoint_write_open(r) \/ MPI_Finalize(r))
           \/ pc[r] = "saving" /\ checkpoint_write_file(r)
           \/ pc[r] = "written" /\ checkpoint_write_check(r)
           \/ pc[r] = "counting" /\ checkpoint_write_epoch(r)
           \/ pc[r] = "naming" /\ checkpoint_write_close(r)
           \/ pc[r] = "run" /\ is_errSet[r] /\ MPIX_Checkpoint_read(r)
           \/ pc[r] = "wait_commit" /\ rank_in[r] # <<>> /\ wait_commit(r)
BY DEF Rank, RankStep, MPI_Init, checkpoint_read_throws, recv_barrier_release,
       MPI_Comm_set_errhandler, checkpoint_write_open, checkpoint_write_file,
       checkpoint_write_check, checkpoint_write_epoch, checkpoint_write_close, MPIX_Checkpoint_read, wait_commit, MPI_Finalize, At

\* What every own step below leaves alone.
Quietly(r) == RankAlone(r) /\ epoch' = epoch /\ faults' = faults

LEMMA LaunchingMoves ==
    ASSUME TypeOK, DurableInv, EpochsInOrder, NEW r \in Ranks, Own(r), Launching(r)
    PROVE  Quietly(r) /\ Knocking(r)'
<1>1. Rank(r)
  BY LivingSteps DEF Launching, Calm, InCheckpoint
<1>2. MPI_Init(r) \/ checkpoint_read_throws(r)
  BY <1>1, StepsByPlace DEF Launching, InBarrier
<1>3. MPI_Init(r)
  BY <1>2, CheckpointExists DEF checkpoint_read_throws
<1>. QED
  BY <1>1, <1>3, InitStep DEF Quietly

\* In the barrier a process waits for the release.
LEMMA WaitingStays ==
    ASSUME NEW r \in Ranks, Knocking(r) \/ Inside(r)
    PROVE  ~Own(r)
<1>. SUFFICES ASSUME Own(r) PROVE FALSE
  OBVIOUS
<1>0. Waits(r) /\ rank_in[r] = <<>>
  BY DEF Knocking, Inside, Linked
<1>1. Rank(r)
  BY <1>0, LivingSteps DEF Waits, Calm, InBarrier, InCheckpoint
<1>. QED
  BY <1>0, <1>1, StepsByPlace DEF Waits, InBarrier

LEMMA FreedMoves ==
    ASSUME TypeOK, EpochsInOrder, NEW r \in Ranks, Own(r), Freed(r)
    PROVE  Quietly(r) /\ Computing(r)'
<1>1. Rank(r)
  BY LivingSteps DEF Freed, Waits, Calm, InBarrier, InCheckpoint
<1>2. recv_barrier_release(r)
  BY <1>1, StepsByPlace DEF Freed, Waits, InBarrier
<1>. QED
  BY <1>1, <1>2, LeaveStep DEF Quietly

\* A process that computes goes on computing, exits or fails.
LEMMA ComputingMoves ==
    ASSUME QuietCase, TypeOK, NEW r \in Ranks, Own(r), Computing(r)
    PROVE  \/ RankAlone(r) /\ Computing(r)' /\ faults' = faults /\ (epoch' = epoch \/ pc[r] = "counting")
           \/ /\ Quietly(r) /\ Running(r) /\ Exited(r, Success)' /\ Synchronised(r)
              /\ epoch[r] >= LastEpoch /\ pc' = pc
           \/ /\ RankAlone(r) /\ epoch' = epoch /\ Running(r) /\ Exited(r, TryReload)' /\ MayFail(r)
              /\ faults < MaxFaults /\ faults' = faults + 1 /\ pc' = pc
<1>1. CASE Rank(r) /\ ~MPI_Finalize(r)
  <2>1. \/ MPI_Comm_set_errhandler(r) \/ checkpoint_write_open(r) \/ checkpoint_write_file(r)
        \/ checkpoint_write_check(r) \/ checkpoint_write_epoch(r) \/ checkpoint_write_close(r)
    BY <1>1, StepsByPlace DEF Computing, Calm, InBarrier, InCheckpoint
  <2>2. epoch' = epoch \/ pc[r] = "counting"
    BY <2>1 DEF MPI_Comm_set_errhandler, checkpoint_write_open, checkpoint_write_file,
                checkpoint_write_check, checkpoint_write_epoch, checkpoint_write_close, At
  <2>. QED  BY <1>1, <2>1, <2>2, ComputeStep
<1>2. CASE Rank(r) /\ MPI_Finalize(r)
  <2>1. Running(r) /\ Synchronised(r) /\ epoch[r] >= LastEpoch /\ UNCHANGED rankVars
    BY <1>2 DEF MPI_Finalize, At, Running
  <2>2. RankAlone(r) /\ Exited(r, Success)'
    BY <1>2, <2>1, ExitStep DEF Rank, MPI_Finalize, rankVars
  <2>. QED  BY <2>1, <2>2 DEF Quietly, rankVars
<1>3. CASE Failure(r)
  <2>1. /\ Running(r) /\ MayFail(r) /\ faults < MaxFaults /\ faults' = faults + 1
        /\ epoch' = epoch /\ pc' = pc
    BY <1>3 DEF QuietCase, Failure, Fail, MayFail, At, Running
  <2>2. RankAlone(r) /\ Exited(r, TryReload)'
    BY <1>3, <2>1, ExitStep DEF Failure, Fail
  <2>. QED  BY <2>1, <2>2
<1>. QED
  BY <1>1, <1>2, <1>3, LivingSteps DEF Computing, Calm

\* While a failed process is not restarted, the others do not get past their next
\* synchronisation.
LEMMA RunningHalts ==
    ASSUME QuietCase, NEW r \in Ranks, Running(r),
           NEW f \in Ranks, proc[f] # "alive", exit_code[f] = TryReload
    PROVE  ~Own(r)
<1>. SUFFICES ASSUME Own(r) PROVE FALSE
  OBVIOUS
<1>1. ~Synchronised(r)
  BY DEF QuietCase, Synchronised, TryReload, Success
<1>2. ~Failure(r)
  BY DEF QuietCase, Failure, Fail, MayFail, At
<1>3. Rank(r)
  BY <1>2, LivingSteps DEF Running, Computing, Calm
<1>. QED
  BY <1>1, <1>3, StepsByPlace DEF Running, Computing, Calm, InBarrier

LEMMA AlertedMoves ==
    ASSUME TypeOK, QuietCase, NEW r \in Ranks, Own(r), Alerted(r),
           NEW f \in Ranks, proc[f] # "alive", exit_code[f] = TryReload
    PROVE  Quietly(r) /\ Recovering(r, <<Cleanup(epoch[r])>>, <<>>)'
<1>1. ~Synchronised(r)
  BY DEF QuietCase, Synchronised, TryReload, Success
<1>2. ~Failure(r)
  BY DEF QuietCase, Failure, Fail, MayFail, At
<1>3. ~Rank(r)
  BY <1>1, StepsByPlace DEF Alerted, InBarrier
<1>4. Signal(r)
  BY <1>2, <1>3, LivingSteps DEF Alerted
<1>. QED
  BY <1>4, SignalStep DEF Quietly

\* A survivor that has reported reads its checkpoint, and waits for the decision.
LEMMA RecoveringMoves ==
    ASSUME TypeOK, QuietCase, NEW r \in Ranks, Own(r), NEW out, NEW in,
           Recovering(r, out, in), in = <<>> \/ (out = <<>> /\ in = <<Commit(epoch[r])>>)
    PROVE  /\ Quietly(r)
           /\ Recovering(r, out, in)' \/ (in # <<>> /\ Knocking(r)')
<1>1. ~Synchronised(r) \/ pc[r] # "run"
  BY DEF QuietCase, Synchronised, Recovering
<1>2. ~Failure(r)
  BY DEF QuietCase, Failure, Fail, MayFail, At, Recovering
<1>3. Rank(r)
  BY <1>2, LivingSteps DEF Recovering
<1>4. MPIX_Checkpoint_read(r) \/ (wait_commit(r) /\ rank_in[r] # <<>>)
  BY <1>1, <1>3, StepsByPlace DEF Recovering, InBarrier
<1>5. CASE MPIX_Checkpoint_read(r)
  BY <1>3, <1>5, ReadStep DEF Quietly
<1>6. CASE wait_commit(r) /\ rank_in[r] # <<>>
  <2>1. in # <<>> /\ Recovering(r, <<>>, <<Commit(epoch[r])>>)
    BY <1>6 DEF Recovering, Linked
  <2>. QED  BY <1>3, <1>6, <2>1, CommitStep DEF Quietly
<1>. QED
  BY <1>4, <1>5, <1>6

LEMMA ExitedMoves ==
    ASSUME TypeOK, NEW r \in Ranks, Own(r), NEW code, Exited(r, code)
    PROVE  Quietly(r) /\ Reported(r, code)'
<1>1. Monitor(r) /\ inform_head(r)
  BY DeadSteps DEF Exited, Watched, Monitor, FaultDaemonStep, restart, shutdown_ack
<1>. QED
  BY <1>1, InformStep DEF Quietly

LEMMA SettledStays ==
    ASSUME NEW r \in Ranks, NEW code, Reported(r, code) \/ Settled(r, code, <<>>)
    PROVE  ~Own(r)
BY DeadSteps DEF Reported, Settled, Monitor, FaultDaemonStep, inform_head, restart, shutdown_ack,
                 Receives

LEMMA SettledMoves ==
    ASSUME TypeOK, NEW r \in Ranks, Own(r), NEW code,
           Settled(r, code, <<[type |-> "restart", epoch |-> epoch[r]]>>)
    PROVE  /\ Quietly(r) /\ Launching(r)'
           /\ set_epoch'[r] = epoch[r] /\ pid' = [pid EXCEPT ![r] = @ + 1]
<1>0. /\ proc[r] = "reaped" /\ fault_daemon[r] = "recv"
      /\ fd_in[r] = <<[type |-> "restart", epoch |-> epoch[r]]>>
  BY DEF Settled
<1>1. Monitor(r) /\ restart(r)
  <2>1. Monitor(r)
    BY <1>0, DeadSteps
  <2>2. Head(fd_in[r]).type = "restart"
    BY <1>0
  <2>. QED  BY <1>0, <2>1, <2>2 DEF Monitor, FaultDaemonStep, inform_head, shutdown_ack, Receives
<1>. QED
  BY <1>1, RestartStep DEF Quietly

\* "error" reaches the survivors of a node as a signal; a node without survivors answers.
LEMMA HeadAlerts ==
    ASSUME TypeOK, EpochsInOrder, NEW n \in Nodes, NodeHead(n), process_error(n),
           NEW e \in Nat, head_in[n] = <<[type |-> "error", epoch |-> e]>>,
           NEW f \in Ranks, Settled(f, TryReload, <<>>),
           \A q \in Survivors(n, f) : Running(q)
    PROVE  /\ DecisionTaken(n) /\ UNCHANGED head_state /\ SameRank(f)
           /\ \A q \in Survivors(n, f) : Alerted(q)'
           /\ head_out'[n] = IF Survivors(n, f) = {}
                             THEN Append(head_out[n], [type |-> "node_epoch", epoch |-> e])
                             ELSE head_out[n]
<1>0. Head(head_in[n]).epoch = e
  OBVIOUS
<1>1. registered[f] = 0
  BY DEF Settled
<1>2. ASSUME NEW q \in Survivors(n, f)
      PROVE  /\ q \in Ranks /\ NodeOf[q] = n /\ q # f /\ q \in ranks(n) /\ Connected(q)
             /\ ~PidGone(q)
  <2>1. q \in Ranks /\ NodeOf[q] = n /\ q # f /\ Running(q)
    BY DEF Survivors, LocalRanks
  <2>2. registered[q] = pid[q] /\ pid[q] > 0 /\ proc[q] = "alive"
    BY <2>1 DEF Running, Computing, Living, EpochsInOrder
  <2>. QED  BY <2>1, <2>2, RegisteredRanks DEF Connected, PidGone
<1>3. ranks(n) = Survivors(n, f)
  BY <1>1, <1>2 DEF ranks, Survivors, LocalRanks
<1>4. ~\E r \in ranks(n) : PidGone(r)
  BY <1>2, <1>3
<1>. USE RankTypes, NodeTypes DEF NodeHead, process_error, rankNet, fdNet, rankVars,
             faultDaemonVars, controllerVars, Pop, Push, SendToController
<1>5. /\ UNCHANGED head_state
      /\ \A q \in Ranks : pending'[q] = (pending[q] \/ q \in Survivors(n, f))
      /\ head_out'[n] = IF Survivors(n, f) = {}
                        THEN Append(head_out[n], [type |-> "node_epoch", epoch |-> e])
                        ELSE head_out[n]
  <2>1. CASE AllDead(n)
    <3>1. Survivors(n, f) = {}
      BY <1>3, <2>1 DEF AllDead
    <3>. QED  BY <1>0, <2>1, <3>1
  <2>2. CASE ~AllDead(n)
    <3>1. Survivors(n, f) # {}
      BY <1>3, <2>2 DEF AllDead
    <3>2. ASSUME NEW q \in Ranks
          PROVE  q \in Survivors(n, f) <=> q \in ranks(n) /\ Connected(q)
      BY <1>2, <1>3
    <3>3. /\ pending' = [r \in Ranks |-> pending[r] \/ (r \in ranks(n) /\ Connected(r))]
          /\ UNCHANGED <<head_state, head_out>>
      BY <1>4, <2>2
    <3>4. ASSUME NEW q \in Ranks PROVE pending'[q] = (pending[q] \/ q \in Survivors(n, f))
      BY <3>2, <3>3, Zenon
    <3>. QED  BY <3>1, <3>3, <3>4
  <2>. QED  BY <2>1, <2>2
<1>6. ASSUME NEW q \in Ranks, NodeOf[q] # n \/ q = f PROVE SameRank(q)
  BY <1>2, <1>5, <1>6 DEF SameRank
<1>7. ASSUME NEW q \in Survivors(n, f) PROVE Alerted(q)'
  BY <1>2, <1>5 DEF Running, Computing, Alerted, Living, Watched, Calm, Linked
<1>8. \A m \in Nodes \ {n} : SameNode(m)
  BY <1>5 DEF SameNode
<1>. QED
  BY <1>5, <1>6, <1>7, <1>8 DEF DecisionTaken

\* "commit" reaches the survivors of a node, and "restart" the failed rank's fault daemon.
LEMMA HeadCommits ==
    ASSUME TypeOK, EpochsInOrder, NEW n \in Nodes, NodeHead(n), process_commit(n),
           NEW e \in Nat, head_in[n] = <<Commit(e)>>,
           NEW f \in Ranks, NodeOf[f] = n => Settled(f, TryReload, <<>>),
           fault_daemons[n] = IF n = NodeOf[f] THEN {f} ELSE {},
           \A q \in Survivors(n, f) : Recovering(q, <<>>, <<>>)
    PROVE  /\ DecisionTaken(n) /\ UNCHANGED <<head_state, head_out>>
           /\ \A q \in Survivors(n, f) : Recovering(q, <<>>, <<Commit(e)>>)'
           /\ NodeOf[f] = n => Settled(f, TryReload, <<[type |-> "restart", epoch |-> e]>>)'
<1>. USE RankTypes, NodeTypes DEF NodeHead, process_commit, osVars, rankVars,
             faultDaemonVars, controllerVars, Pop, SendToRanks
<1>0. Head(head_in[n]).epoch = e
  BY DEF Commit
<1>1. NodeOf[f] = n => registered[f] = 0
  BY DEF Settled
<1>2. ASSUME NEW q \in Survivors(n, f)
      PROVE  q \in Ranks /\ NodeOf[q] = n /\ q # f /\ q \in ranks(n) /\ Connected(q)
  BY RegisteredRanks DEF Survivors, LocalRanks, Recovering, Living, EpochsInOrder, Connected
<1>3. ranks(n) = Survivors(n, f)
  BY <1>1, <1>2 DEF ranks, Survivors, LocalRanks
<1>4. ~SendMayRaise(n)
  BY <1>2, <1>3 DEF SendMayRaise
<1>5. /\ UNCHANGED <<head_state, head_out>>
      /\ rank_in' = PushAll(rank_in, {r \in ranks(n) : Connected(r)}, [type |-> "commit", epoch |-> e])
      /\ fd_in' = PushAll(fd_in, fault_daemons[n], [type |-> "restart", epoch |-> e])
  BY <1>0, <1>4 DEF ActiveFaultDaemons
<1>6. ASSUME NEW q \in Ranks, NodeOf[q] # n PROVE SameRank(q)
  <2>1. q \notin {r \in ranks(n) : Connected(r)} /\ q \notin fault_daemons[n]
    BY <1>2, <1>3, <1>6
  <2>2. rank_in'[q] = rank_in[q] /\ fd_in'[q] = fd_in[q]
    BY <1>5, <2>1 DEF PushAll
  <2>. QED  BY <2>2 DEF SameRank
<1>7. ASSUME NEW q \in Survivors(n, f) PROVE Recovering(q, <<>>, <<Commit(e)>>)'
  <2>1. q \in {r \in ranks(n) : Connected(r)} /\ q \notin fault_daemons[n] /\ rank_in[q] = <<>>
    BY <1>2 DEF Recovering, Linked
  <2>2. /\ rank_in'[q] = Append(rank_in[q], [type |-> "commit", epoch |-> e])
        /\ fd_in'[q] = fd_in[q]
    BY <1>2, <1>5, <2>1 DEF PushAll
  <2>3. rank_in'[q] = <<Commit(e)>>
    <3>. HIDE DEF process_commit, NodeHead
    <3>. QED  BY <2>1, <2>2 DEF Commit
  <2>. QED  BY <1>2, <2>2, <2>3 DEF Recovering, Living, Watched, Linked, Commit
<1>8. ASSUME NodeOf[f] = n PROVE Settled(f, TryReload, <<[type |-> "restart", epoch |-> e]>>)'
  <2>1. f \notin {r \in ranks(n) : Connected(r)} /\ f \in fault_daemons[n] /\ fd_in[f] = <<>>
    BY <1>2, <1>3, <1>8 DEF Settled
  <2>2. fd_in'[f] = <<[type |-> "restart", epoch |-> e]>> /\ rank_in'[f] = rank_in[f]
    BY <1>5, <2>1 DEF PushAll
  <2>. QED  BY <1>8, <2>2 DEF Settled, Ended, Linked
<1>9. \A m \in Nodes \ {n} : SameNode(m)
  BY <1>5 DEF SameNode
<1>. QED
  BY <1>5, <1>6, <1>7, <1>8, <1>9 DEF DecisionTaken

\* A packet taken by the controller leaves the ranks and the state of the heads alone.
RanksSame == \A q \in Ranks : SameRank(q)
LEMMA ControllerTakes ==
    ASSUME TypeOK, NEW n \in Nodes, NEW type, Controller, Takes(n, type)
    PROVE  /\ RanksSame
           /\ UNCHANGED <<rankNet, fdNet, osVars, rankVars, faultDaemonVars, headVars>>
           /\ head_out' = [head_out EXCEPT ![n] = Tail(@)]
BY DEF Controller, Takes, rankNet, fdNet, osVars, rankVars, faultDaemonVars, headVars, RanksSame,
       SameRank, Pop

\* What the controller sends to every node.
LEMMA SentToAll ==
    ASSUME TypeOK, NEW packet, head_in' = PushAll(head_in, Nodes, packet)
    PROVE  \A n \in Nodes : head_in'[n] = Append(head_in[n], packet)
BY NodeTypes DEF PushAll

\* The head takes a packet of one of its ranks or of the controller.
LEMMA HeadTakes ==
    ASSUME NEW n \in Nodes, NodeHead(n)
    PROVE  \/ \E r \in LocalRanks(n) :
                 \/ process_barrier(r) /\ Receives(rank_out, r, "barrier")
                 \/ process_cleanup(r) /\ Receives(rank_out, r, "cleanup")
                 \/ process_termination(r) /\ Receives(fd_out, r, "termination")
                 \/ process_shutdown_ack(r) /\ Receives(fd_out, r, "shutdown_ack")
           \/ process_release(n) /\ Receives(head_in, n, "release")
           \/ process_error(n) /\ Receives(head_in, n, "error")
           \/ process_commit(n) /\ Receives(head_in, n, "commit")
           \/ process_shutdown(n) /\ Receives(head_in, n, "shutdown")
<1>1. ASSUME NEW r
      PROVE  /\ process_barrier(r) => Receives(rank_out, r, "barrier")
             /\ process_cleanup(r) => Receives(rank_out, r, "cleanup")
             /\ process_termination(r) => Receives(fd_out, r, "termination")
             /\ process_shutdown_ack(r) => Receives(fd_out, r, "shutdown_ack")
  BY DEF process_barrier, process_cleanup, process_termination, process_shutdown_ack
<1>2. /\ process_release(n) => Receives(head_in, n, "release")
      /\ process_error(n) => Receives(head_in, n, "error")
      /\ process_commit(n) => Receives(head_in, n, "commit")
      /\ process_shutdown(n) => Receives(head_in, n, "shutdown")
  BY DEF process_release, process_error, process_commit, process_shutdown
<1>. QED
  BY <1>1, <1>2, Zenon DEF NodeHead, HeadStep

LEMMA ControllerActs ==
    ASSUME Controller
    PROVE  \E n \in Nodes :
              \/ node_barrier(n) /\ Takes(n, "node_barrier") /\ Receives(head_out, n, "node_barrier")
              \/ node_success(n) /\ Takes(n, "node_success") /\ Receives(head_out, n, "node_success")
              \/ node_shutdown(n) /\ Takes(n, "node_shutdown") /\ Receives(head_out, n, "node_shutdown")
              \/ process_exit(n) /\ Takes(n, "process_exit") /\ Receives(head_out, n, "process_exit")
              \/ node_epoch(n) /\ Takes(n, "node_epoch") /\ Receives(head_out, n, "node_epoch")
BY DEF Controller, ControllerStep, node_barrier, node_success, node_shutdown, process_exit,
       node_epoch, Takes

--------------------------------------------------------------------------------
(***************************************************************************)
(* Counting.                                                               *)
(***************************************************************************)
LEMMA Finiteness ==
    /\ IsFiniteSet(Ranks) /\ IsFiniteSet(Nodes)
    /\ \A n \in Nodes : IsFiniteSet(LocalRanks(n)) /\ LocalRanks(n) \subseteq Ranks
    /\ \A r \in Ranks : NodeOf[r] \in Nodes /\ r \in LocalRanks(NodeOf[r])
BY LayoutAssumption, FS_Subset DEF LocalRanks

\* One more member makes the count of a set complete when it is the last.
LEMMA OneMore ==
    \A T, S, x :
        IsFiniteSet(T) /\ S \subseteq T /\ x \in T /\ x \notin S
        => /\ Cardinality(S \cup {x}) = Cardinality(S) + 1
           /\ Cardinality(S) + 1 = Cardinality(T) <=> S \cup {x} = T
<1>. SUFFICES ASSUME NEW T, NEW S, NEW x, IsFiniteSet(T), S \subseteq T, x \in T, x \notin S
              PROVE  /\ Cardinality(S \cup {x}) = Cardinality(S) + 1
                     /\ Cardinality(S) + 1 = Cardinality(T) <=> S \cup {x} = T
  BY Zenon
<1>1. IsFiniteSet(S)
  BY FS_Subset
<1>2. Cardinality(S \cup {x}) = Cardinality(S) + 1
  BY <1>1, FS_AddElement
<1>3. S \cup {x} \subseteq T
  OBVIOUS
<1>4. Cardinality(S \cup {x}) = Cardinality(T) => S \cup {x} = T
  BY <1>3, FS_Subset
<1>. QED
  BY <1>2, <1>4

--------------------------------------------------------------------------------
(***************************************************************************)
(* The barrier of the daemons while it fills.                              *)
(***************************************************************************)
\* A step, and what a stuttering step leaves alone.
LEMMA Steps ==
    ASSUME [Next]_vars
    PROVE  \/ \E r \in Ranks : Own(r)
           \/ \E n \in Nodes : NodeHead(n)
           \/ Controller
           \/ UNCHANGED vars
BY DEF Next, Own, Finished

Idle == RanksSame /\ NodesSame /\ UNCHANGED controllerVars /\ faults' = faults /\ epoch' = epoch
LEMMA Stutter == UNCHANGED vars => Idle
BY DEF vars, netVars, rankNet, fdNet, headNet, osVars, rankVars, faultDaemonVars, headVars,
       controllerVars, Idle, RanksSame, NodesSame, SameRank, SameNode

\* A rank whose channels to its head are empty sends nothing.
Silent(r) == rank_out[r] = <<>> /\ fd_out[r] = <<>>
LEMMA SilentRanks ==
    ASSUME NEW r
    PROVE  /\ Launching(r) \/ Inside(r) \/ Freed(r) \/ Computing(r) \/ Alerted(r) => Silent(r)
           /\ \A in : Recovering(r, <<>>, in) => Silent(r)
           /\ \A code : Exited(r, code) => Silent(r)
           /\ \A code, d : Settled(r, code, d) => Silent(r)
           /\ Knocking(r) => fd_out[r] = <<>> /\ Head(rank_out[r]).type = "barrier"
           /\ \A e, in : Recovering(r, <<Cleanup(e)>>, in)
                            => fd_out[r] = <<>> /\ Head(rank_out[r]).type = "cleanup"
           /\ \A code : Reported(r, code)
                           => rank_out[r] = <<>> /\ Head(fd_out[r]).type = "termination"
<1>. USE DEF Silent, Linked, Living, Watched, Waits
<1>1. Launching(r) \/ Inside(r) \/ Freed(r) \/ Computing(r) \/ Alerted(r) => Silent(r)
  BY DEF Launching, Inside, Freed, Computing, Alerted
<1>2. \A in : Recovering(r, <<>>, in) => Silent(r)
  BY DEF Recovering
<1>3. (\A code : Exited(r, code) => Silent(r)) /\ (\A code, d : Settled(r, code, d) => Silent(r))
  BY DEF Exited, Settled, Ended
<1>4. Knocking(r) => fd_out[r] = <<>> /\ Head(rank_out[r]).type = "barrier"
  BY DEF Knocking, BarrierPacket
<1>5. \A e, in : Recovering(r, <<Cleanup(e)>>, in)
                    => fd_out[r] = <<>> /\ Head(rank_out[r]).type = "cleanup"
  BY DEF Recovering, Cleanup
<1>6. \A code : Reported(r, code) => rank_out[r] = <<>> /\ Head(fd_out[r]).type = "termination"
  BY DEF Reported, Ended
<1>. QED
  BY <1>1, <1>2, <1>3, <1>4, <1>5, <1>6

LEMMA FillingKept ==
    ASSUME NEW W, NEW D, Filling(W, D), UNCHANGED controllerVars, \A r \in W : Inside(r)',
           \A n \in Nodes : barrier_count'[n] = barrier_count[n] /\ head_out'[n] = head_out[n]
    PROVE  Filling(W, D)'
BY DEF Filling, controllerVars

\* A head counts a rank of its node.
LEMMA FillingCounts ==
    ASSUME TypeOK, EpochsInOrder, NEW W \in SUBSET Ranks, NEW D \in SUBSET Nodes, Filling(W, D),
           NEW r \in Ranks, NodeHead(NodeOf[r]), process_barrier(r), Knocking(r)
    PROVE  /\ W \cup {r} \in SUBSET Ranks /\ Filling(W \cup {r}, D)'
           /\ OthersSame(r) /\ Inside(r)' /\ epoch' = epoch
           /\ UNCHANGED <<controllerVars, faults, pid, proc, pc>>
           /\ UNCHANGED <<head_state, head_in, fault_daemons, success_counter, cleanups,
                          node_minimum_epoch>>
<1>. DEFINE n == NodeOf[r]
            S == W \cap LocalRanks(n)
<1>1. r \notin W /\ n \in Nodes /\ r \in LocalRanks(n) \ S /\ S \in SUBSET LocalRanks(n)
  BY Finiteness DEF Filling, Inside, Knocking, Linked
<1>2. (W \cup {r}) \cap LocalRanks(n) = S \cup {r}
  BY <1>1
<1>3. /\ Cardinality(S) + 1 = local_rank_count(n) <=> LocalRanks(n) \subseteq W \cup {r}
      /\ Cardinality((W \cup {r}) \cap LocalRanks(n)) = Cardinality(S) + 1
  <2>1. /\ Cardinality(S) + 1 = Cardinality(LocalRanks(n)) <=> S \cup {r} = LocalRanks(n)
        /\ Cardinality(S \cup {r}) = Cardinality(S) + 1
    <3>1. IsFiniteSet(LocalRanks(n))
      BY <1>1, Finiteness
    <3>. HIDE DEF n, S
    <3>. QED  BY <1>1, <3>1, OneMore, Zenon
  <2>2. S \cup {r} = LocalRanks(n) <=> LocalRanks(n) \subseteq W \cup {r}
    BY <1>1, <1>2
  <2>. QED  BY <1>2, <2>1, <2>2 DEF local_rank_count
<1>4. ~(LocalRanks(n) \subseteq W)
  BY <1>1
<1>5. n \notin D /\ head_out[n] = <<>> /\ barrier_count[n] = Cardinality(S)
  BY <1>1, <1>4 DEF Filling
<1>6. /\ OthersSame(r) /\ Inside(r)' /\ epoch' = epoch /\ OtherNodesSame(n)
      /\ UNCHANGED <<controllerVars, faults, pid, proc, pc>>
      /\ UNCHANGED <<head_state, head_in, fault_daemons, success_counter, cleanups,
                     node_minimum_epoch>>
      /\ barrier_count'[n] = IF barrier_count[n] + 1 = local_rank_count(n) THEN 0
                             ELSE barrier_count[n] + 1
      /\ head_out'[n] = IF barrier_count[n] + 1 = local_rank_count(n)
                        THEN Append(head_out[n], [type |-> "node_barrier"]) ELSE head_out[n]
  BY HeadCountsBarrier
<1>7. \A q \in W \cup {r} : Inside(q)'
  BY <1>6, RankSame DEF OthersSame, Filling
<1>8. ASSUME NEW m \in Nodes
      PROVE  IF LocalRanks(m) \subseteq W \cup {r}
             THEN barrier_count'[m] = 0 /\ head_out'[m] = IF m \in D THEN <<>> ELSE <<[type |-> "node_barrier"]>>
             ELSE /\ m \notin D /\ head_out'[m] = <<>>
                  /\ barrier_count'[m] = Cardinality((W \cup {r}) \cap LocalRanks(m))
  <2>1. CASE m = n
    BY <1>3, <1>5, <1>6, <2>1
  <2>2. CASE m # n
    <3>1. r \notin LocalRanks(m)
      BY <2>2 DEF LocalRanks
    <3>2. /\ LocalRanks(m) \subseteq W \cup {r} <=> LocalRanks(m) \subseteq W
          /\ (W \cup {r}) \cap LocalRanks(m) = W \cap LocalRanks(m)
      BY <3>1
    <3>3. barrier_count'[m] = barrier_count[m] /\ head_out'[m] = head_out[m]
      BY <1>6, <2>2 DEF OtherNodesSame, SameNode
    <3>. QED  BY <3>2, <3>3 DEF Filling
  <2>. QED  BY <2>1, <2>2
<1>9. Filling(W \cup {r}, D)'
  BY <1>6, <1>7, <1>8 DEF Filling, controllerVars
<1>. QED
  BY <1>6, <1>9

\* The controller counts a node, and releases all ranks with the last one.
LEMMA FillingDecides ==
    ASSUME TypeOK, NEW W \in SUBSET Ranks, NEW D \in SUBSET Nodes, Filling(W, D), Controller
    PROVE  /\ RanksSame
           /\ UNCHANGED <<rankNet, fdNet, osVars, rankVars, faultDaemonVars, headVars>>
           /\ UNCHANGED <<controller, node_successes, node_epochs, global_minimum_epoch>>
           /\ Started => Started'
           /\ \/ /\ \E D2 \in SUBSET Nodes : Filling(W, D2)'
                 /\ UNCHANGED head_in
              \/ /\ W = Ranks /\ Started' /\ NoBarrier' /\ \A m \in Nodes : head_out'[m] = <<>>
                 /\ \A m \in Nodes : head_in'[m] = Append(head_in[m], Release)
<1>. USE NodeTypes
<1>0. ASSUME NEW m \in Nodes, head_out[m] # <<>>
      PROVE  /\ m \notin D /\ head_out[m] = <<[type |-> "node_barrier"]>>
             /\ LocalRanks(m) \subseteq W
  BY <1>0 DEF Filling
<1>1. PICK n \in Nodes : node_barrier(n) /\ Takes(n, "node_barrier") /\ head_out[n] # <<>>
  <2>1. ASSUME NEW m \in Nodes, head_out[m] # <<>> PROVE Head(head_out[m]).type = "node_barrier"
    BY <1>0, <2>1
  <2>. QED  BY <2>1, ControllerActs DEF Receives
<1>2. /\ RanksSame /\ head_out' = [head_out EXCEPT ![n] = Tail(@)]
      /\ UNCHANGED <<rankNet, fdNet, osVars, rankVars, faultDaemonVars, headVars>>
  BY <1>1, ControllerTakes
<1>3. n \in Nodes \ D /\ LocalRanks(n) \subseteq W /\ head_out'[n] = <<>>
  <2>1. n \notin D /\ head_out[n] = <<[type |-> "node_barrier"]>> /\ LocalRanks(n) \subseteq W
    BY <1>0, <1>1
  <2>2. head_out'[n] = Tail(head_out[n])
    BY <1>2
  <2>. QED  BY <2>1, <2>2
<1>4. /\ Cardinality(D) + 1 = NodeCount <=> D \cup {n} = Nodes
      /\ Cardinality(D \cup {n}) = Cardinality(D) + 1
  BY <1>3, Finiteness, OneMore, Zenon DEF NodeCount
<1>5. /\ head_daemon_count = Cardinality(D) /\ head_daemons' = head_daemons \cup {n}
      /\ D \cup {n} \subseteq head_daemons'
      /\ UNCHANGED <<controller, node_successes, node_epochs, global_minimum_epoch>>
      /\ Started => Started'
  BY <1>1 DEF node_barrier, Filling, Started
<1>6. \A r \in W : Inside(r)'
  BY <1>2, RankSame DEF Filling, RanksSame
<1>7. CASE D \cup {n} # Nodes
  <2>1. head_daemon_count' = Cardinality(D \cup {n}) /\ UNCHANGED head_in
    BY <1>1, <1>4, <1>5, <1>7 DEF node_barrier, AllNodesWaiting
  <2>2. ASSUME NEW m \in Nodes
        PROVE  IF LocalRanks(m) \subseteq W
               THEN /\ barrier_count'[m] = 0
                    /\ head_out'[m] = IF m \in D \cup {n} THEN <<>> ELSE <<[type |-> "node_barrier"]>>
               ELSE /\ m \notin D \cup {n} /\ head_out'[m] = <<>>
                    /\ barrier_count'[m] = Cardinality(W \cap LocalRanks(m))
    BY <1>2, <1>3 DEF Filling, headVars
  <2>3. Filling(W, D \cup {n})'
    BY <1>5, <1>6, <1>7, <2>1, <2>2 DEF Filling
  <2>. QED  BY <1>2, <1>5, <2>1, <2>3
<1>8. CASE D \cup {n} = Nodes
  <2>1. ASSUME NEW m \in Nodes
        PROVE  LocalRanks(m) \subseteq W /\ barrier_count[m] = 0 /\ head_out'[m] = <<>>
    BY <1>2, <1>3, <1>8 DEF Filling
  <2>2. W = Ranks
    BY <2>1, Finiteness
  <2>3. /\ head_daemon_count' = 0 /\ head_daemons' = Nodes
        /\ head_in' = PushAll(head_in, Nodes, [type |-> "release"])
    <3>1. head_daemons' = Nodes
      BY <1>5, <1>8 DEF TypeOK, ControllerTypeOK
    <3>. QED  BY <1>1, <1>4, <1>5, <1>8, <3>1 DEF node_barrier, AllNodesWaiting, SendToHeadDaemons
  <2>4. \A m \in Nodes : head_in'[m] = Append(head_in[m], Release)
    BY <2>3, SentToAll DEF Release
  <2>. QED  BY <1>2, <1>5, <2>1, <2>2, <2>3, <2>4 DEF Started, NoBarrier, headVars
<1>. QED
  BY <1>7, <1>8

--------------------------------------------------------------------------------
(***************************************************************************)
(* The phases, step by step.                                               *)
(***************************************************************************)
LEMMA StartingKept ==
    ASSUME NEW W, NEW D, Starting(W, D), NodesSame, UNCHANGED controllerVars,
           faults' = faults, epoch' = epoch, \A r \in W : Inside(r)',
           \A r \in Ranks \ W : Launching(r)' \/ Knocking(r)'
    PROVE  Starting(W, D)'
<1>1. Filling(W, D)'
  BY FillingKept DEF Starting, NodesSame, SameNode
<1>. QED
  BY <1>1 DEF Starting, NodesSame, SameNode, NoReports, NoSuccess, Level, controllerVars, None

LEMMA StartingStep ==
    ASSUME TypeOK, DurableInv, EpochsInOrder, AllUp, [Next]_vars,
           NEW W \in SUBSET Ranks, NEW D \in SUBSET Nodes, Starting(W, D)
    PROVE  /\ AllUp'
           /\ \/ \E W2 \in SUBSET Ranks, D2 \in SUBSET Nodes : Starting(W2, D2)'
              \/ Open(0)' /\ \A r \in Ranks : Inside(r) /\ Inside(r)'
<1>0. Filling(W, D)
  BY DEF Starting
<1>1. ASSUME NEW r \in Ranks, Own(r) PROVE AllUp' /\ Starting(W, D)'
  <2>1. r \notin W /\ Launching(r)
    BY <1>1, WaitingStays DEF Starting, Filling
  <2>2. Quietly(r) /\ Knocking(r)'
    BY <1>1, <2>1, LaunchingMoves
  <2>3. \A q \in Ranks \ {r} : SameRank(q)
    BY <2>2 DEF Quietly, RankAlone, OthersSame
  <2>4. (\A q \in W : Inside(q)') /\ \A q \in Ranks \ W : Launching(q)' \/ Knocking(q)'
    BY <2>1, <2>2, <2>3, RankSame DEF Starting, Filling
  <2>5. Starting(W, D)'
    BY <2>2, <2>4, StartingKept DEF Quietly, RankAlone
  <2>. QED  BY <2>2, <2>5 DEF AllUp, Quietly, RankAlone, NodesSame, SameNode, controllerVars
<1>2. ASSUME NEW n \in Nodes, NodeHead(n)
      PROVE  AllUp' /\ \E W2 \in SUBSET Ranks : Starting(W2, D)'
  <2>1. ASSUME NEW r \in Ranks
        PROVE  /\ fd_out[r] = <<>>
               /\ Receives(rank_out, r, "cleanup") => FALSE
               /\ Receives(rank_out, r, "barrier") => r \notin W /\ Knocking(r)
    BY SilentRanks DEF Starting, Filling, Silent, Receives
  <2>2. PICK r \in LocalRanks(n) : process_barrier(r) /\ Receives(rank_out, r, "barrier")
    BY <1>2, <2>1, HeadTakes, Finiteness DEF Starting, Receives
  <2>3. r \in Ranks /\ NodeOf[r] = n /\ Knocking(r)
    BY <2>1, <2>2 DEF LocalRanks
  <2>4. /\ W \cup {r} \in SUBSET Ranks /\ Filling(W \cup {r}, D)'
        /\ OthersSame(r) /\ epoch' = epoch
        /\ UNCHANGED <<controllerVars, faults>>
        /\ UNCHANGED <<head_state, head_in, fault_daemons, success_counter, cleanups,
                       node_minimum_epoch>>
    BY <1>0, <1>2, <2>2, <2>3, FillingCounts
  <2>5. \A q \in Ranks \ (W \cup {r}) : Launching(q)' \/ Knocking(q)'
    BY <2>4, RankSame DEF Starting, OthersSame
  <2>6. Starting(W \cup {r}, D)'
    BY <2>4, <2>5 DEF Starting, NoReports, NoSuccess, Level, controllerVars, None
  <2>. QED  BY <2>4, <2>6 DEF AllUp, controllerVars
<1>3. ASSUME Controller
      PROVE  /\ AllUp'
             /\ \/ \E W2 \in SUBSET Ranks, D2 \in SUBSET Nodes : Starting(W2, D2)'
                \/ Open(0)' /\ \A r \in Ranks : Inside(r) /\ Inside(r)'
  <2>1. /\ RanksSame
        /\ UNCHANGED <<rankNet, fdNet, osVars, rankVars, faultDaemonVars, headVars>>
        /\ UNCHANGED <<controller, node_successes, node_epochs, global_minimum_epoch>>
        /\ \/ /\ \E D2 \in SUBSET Nodes : Filling(W, D2)'
              /\ UNCHANGED head_in
           \/ /\ W = Ranks /\ Started' /\ NoBarrier' /\ \A m \in Nodes : head_out'[m] = <<>>
              /\ \A m \in Nodes : head_in'[m] = Append(head_in[m], Release)
    BY <1>0, <1>3, FillingDecides
  <2>2. AllUp' /\ NoReports' /\ NoSuccess' /\ faults' = 0 /\ Level(0)'
        /\ \A n \in Nodes : fault_daemons'[n] = {}
    BY <2>1 DEF AllUp, headVars, rankVars, Starting, NoReports, NoSuccess, Level, None
  <2>3. ASSUME NEW D2 \in SUBSET Nodes, Filling(W, D2)', UNCHANGED head_in PROVE Starting(W, D2)'
    <3>1. \A q \in Ranks \ W : Launching(q)' \/ Knocking(q)'
      BY <2>1, RankSame DEF Starting, RanksSame
    <3>. QED  BY <2>2, <2>3, <3>1 DEF Starting
  <2>4. ASSUME W = Ranks, Started', NoBarrier', \A m \in Nodes : head_out'[m] = <<>>,
               \A m \in Nodes : head_in'[m] = Append(head_in[m], Release)
        PROVE  Open(0)' /\ \A r \in Ranks : Inside(r) /\ Inside(r)'
    <3>1. \A r \in Ranks : Inside(r) /\ Inside(r)'
      BY <2>1, <2>4, RankSame DEF Starting, Filling, RanksSame
    <3>2. \A m \in Nodes : head_in'[m] = <<Release>> /\ Release' = Release
      BY <2>4 DEF Starting, Release
    <3>3. \A r \in Ranks : NodeOf[r] \in Nodes
      BY Finiteness
    <3>. QED  BY <2>2, <2>4, <3>1, <3>2, <3>3 DEF Open, Level
  <2>. QED  BY <2>1, <2>2, <2>3, <2>4
<1>4. ASSUME UNCHANGED vars PROVE AllUp' /\ Starting(W, D)'
  <2>1. Idle
    BY <1>4, Stutter
  <2>2. (\A q \in W : Inside(q)') /\ \A q \in Ranks \ W : Launching(q)' \/ Knocking(q)'
    BY <2>1, RankSame DEF Starting, Filling, Idle, RanksSame
  <2>. QED  BY <2>1, <2>2, StartingKept DEF Idle, AllUp, NodesSame, SameNode, controllerVars
<1>. QED
  BY <1>1, <1>2, <1>3, <1>4, Steps

\* What a rank that computes does in an open phase.
LEMMA OpenKept ==
    ASSUME NEW e, Open(e), NodesSame, UNCHANGED controllerVars, faults' = faults,
           \A r \in Ranks : IF head_in[NodeOf[r]] = <<Release>> THEN Inside(r)'
                            ELSE Freed(r)' \/ Computing(r)',
           \A r \in Ranks : pc'[r] \in InBarrier => epoch'[r] = e
    PROVE  Open(e)'
<1>1. \A n \in Nodes : head_in'[n] = head_in[n] /\ Release' = Release
  BY DEF NodesSame, SameNode, Release
<1>2. \A r \in Ranks : NodeOf[r] \in Nodes
  BY Finiteness
<1>. QED
  BY <1>1, <1>2 DEF Open, NodesSame, SameNode, NoReports, NoSuccess, NoBarrier, Started,
                    controllerVars, None

\* When every rank runs, all have left the barrier.
LEMMA AllRunning ==
    ASSUME NEW e, Open(e), \A q \in Ranks : pc[q] \notin InBarrier
    PROVE  (\A q \in Ranks : Computing(q)) /\ \A n \in Nodes : head_in[n] = <<>>
<1>1. \A q \in Ranks : Computing(q) /\ head_in[NodeOf[q]] # <<Release>>
  BY DEF Open, Inside, Freed, Waits
<1>. QED
  BY <1>1, LayoutAssumption DEF Open

LEMMA OpenStep ==
    ASSUME QuietCase, TypeOK, DurableInv, EpochsInOrder, AllUp, [Next]_vars,
           NEW e \in Nat, Open(e)
    PROVE  /\ AllUp'
           /\ \/ Open(e)'
              \/ /\ \A q \in Ranks : pc[q] \notin InBarrier /\ pc'[q] \notin InBarrier
                 /\ \/ \E f \in Ranks, g \in Nat : Failing(f, g)'
                    \/ Finishing({}, {})'
<1>0. (\A r \in Ranks : Silent(r)) /\ (\A n \in Nodes : head_out[n] = <<>>)
  BY SilentRanks DEF Open
<1>1. ASSUME NEW r \in Ranks, Own(r)
      PROVE  /\ AllUp'
             /\ \/ Open(e)'
                \/ /\ \A q \in Ranks : pc[q] \notin InBarrier /\ pc'[q] \notin InBarrier
                   /\ \/ \E f \in Ranks, g \in Nat : Failing(f, g)'
                      \/ Finishing({}, {})'
  <2>1. head_in[NodeOf[r]] # <<Release>> /\ (Freed(r) \/ Computing(r))
    BY <1>1, WaitingStays DEF Open
  <2>2. ASSUME RankAlone(r), faults' = faults, Computing(r)' PROVE Open(e)'
    <3>1. \A q \in Ranks : IF head_in[NodeOf[q]] = <<Release>> THEN Inside(q)'
                           ELSE Freed(q)' \/ Computing(q)'
      BY <2>1, <2>2, RankSame DEF Open, RankAlone, OthersSame
    <3>2. ASSUME NEW q \in Ranks, pc'[q] \in InBarrier PROVE epoch'[q] = e
      <4>1. q # r
        BY <2>2, <3>2 DEF Computing, InBarrier, InCheckpoint
      <4>. QED  BY <2>2, <3>2, <4>1 DEF Open, RankAlone, OthersSame, SameRank
    <3>. QED  BY <2>2, <3>1, <3>2, OpenKept DEF RankAlone
  <2>3. CASE Freed(r)
    BY <1>1, <2>2, <2>3, FreedMoves
       DEF Quietly, RankAlone, AllUp, NodesSame, SameNode, controllerVars
  <2>4. CASE Computing(r)
    <3>0. RankAlone(r) => AllUp'
      BY DEF RankAlone, AllUp, NodesSame, SameNode, controllerVars
    <3>1. CASE RankAlone(r) /\ Computing(r)' /\ faults' = faults
      BY <2>2, <3>0, <3>1
    <3>2. CASE /\ Quietly(r) /\ Running(r) /\ Exited(r, Success)' /\ Synchronised(r)
               /\ epoch[r] >= LastEpoch /\ pc' = pc
      <4>1. \A q \in Ranks : epoch[q] >= LastEpoch /\ pc[q] \in {"run"} \cup InCheckpoint
        BY <3>2, RankTypes, ApplicationAssumption DEF QuietCase, Synchronised
      <4>2. (\A q \in Ranks : Computing(q)) /\ \A n \in Nodes : head_in[n] = <<>>
        BY <4>1, AllRunning DEF InBarrier, InCheckpoint
      <4>3. \A q \in Ranks : Ending(q)
        BY <4>1, <4>2, RankTypes, ApplicationAssumption DEF Computing, Ending, InCheckpoint
      <4>4. \A q \in Ranks \ {r} : Ending(q)'
        BY <3>2, <4>3, RankSame DEF Quietly, RankAlone, OthersSame
      <4>10. \A q \in Ranks : pc[q] \notin InBarrier /\ pc'[q] \notin InBarrier
        BY <3>2, <4>3 DEF Ending, InBarrier
      <4>6. ASSUME NEW n \in Nodes
            PROVE  ~(LocalRanks(n) \subseteq {}) /\ Cardinality({} \cap LocalRanks(n)) = 0
        BY LayoutAssumption, FS_EmptySet DEF LocalRanks
      <4>7. ASSUME NEW n \in Nodes
            PROVE  /\ head_in'[n] = <<>> /\ head_out'[n] = <<>> /\ success_counter'[n] = 0
                   /\ fault_daemons'[n] \subseteq LocalRanks(n)
        BY <3>2, <4>2, <1>0 DEF Open, NoSuccess, Quietly, RankAlone, NodesSame, SameNode
      <4>8. /\ NoReports' /\ NoBarrier' /\ Started' /\ node_successes' = Cardinality({})
            /\ {} # Nodes /\ epoch' = epoch /\ proc'[r] # "alive"
        BY <3>2, FS_EmptySet, Finiteness
           DEF Open, NoReports, NoBarrier, NoSuccess, Started, Quietly, RankAlone, NodesSame,
               SameNode, controllerVars, None, Exited
      <4>9. Finishing({}, {})'
        BY <3>2, <4>1, <4>4, <4>6, <4>7, <4>8 DEF Finishing
      <4>. QED  BY <3>0, <3>2, <4>9, <4>10 DEF Quietly
    <3>3. CASE /\ RankAlone(r) /\ epoch' = epoch /\ Running(r) /\ Exited(r, TryReload)' /\ MayFail(r)
               /\ faults < MaxFaults /\ faults' = faults + 1 /\ pc' = pc
      <4>1. \A q \in Ranks : epoch[q] = epoch[r] /\ pc[q] = "run"
        BY <3>3 DEF QuietCase, MayFail, At
      <4>10. \A q \in Ranks : pc[q] \notin InBarrier /\ pc'[q] \notin InBarrier
        BY <3>3, <4>1 DEF InBarrier
      <4>2. (\A q \in Ranks : Computing(q)) /\ \A n \in Nodes : head_in[n] = <<>>
        BY <4>1, AllRunning DEF InBarrier
      <4>3. \A q \in Ranks \ {r} : Running(q)'
        BY <3>3, <4>1, <4>2, RankSame DEF RankAlone, OthersSame, Running
      <4>5. faults = 0 /\ faults' = 1
        BY <3>3, ApplicationAssumption DEF QuietCase, TypeOK, RankTypeOK
      <4>6. ASSUME NEW n \in Nodes
            PROVE  head_in'[n] = <<>> /\ head_out'[n] = <<>> /\ fault_daemons'[n] = {}
        BY <3>3, <4>2, <4>5, <1>0 DEF Open, RankAlone, NodesSame, SameNode
      <4>7. PICK g \in Nat : g = epoch[r]
        BY RankTypes
      <4>8. NoReports' /\ NoSuccess' /\ NoBarrier' /\ Started' /\ Level(g)'
        BY <3>3, <4>1, <4>7 DEF Open, NoReports, NoBarrier, NoSuccess, Started, RankAlone, NodesSame,
               SameNode, controllerVars, None, Level
      <4>9. Failing(r, g)'
        BY <3>3, <4>3, <4>5, <4>6, <4>8 DEF Failing
      <4>. QED  BY <3>0, <3>3, <4>7, <4>9, <4>10
    <3>. QED  BY <1>1, <2>4, <3>1, <3>2, <3>3, ComputingMoves
  <2>. QED  BY <2>1, <2>3, <2>4
<1>2. ASSUME NEW n \in Nodes, NodeHead(n) PROVE AllUp' /\ Open(e)'
  <2>1. process_release(n) /\ head_in[n] = <<Release>>
    BY <1>0, <1>2, HeadTakes, Finiteness DEF Open, Receives, Release, Silent
  <2>2. \A q \in LocalRanks(n) : q \in Ranks /\ NodeOf[q] = n /\ Inside(q)
    BY <2>1 DEF Open, LocalRanks
  <2>3. /\ DecisionTaken(n) /\ UNCHANGED <<head_state, head_out>>
        /\ \A q \in LocalRanks(n) : Freed(q)'
    BY <1>2, <2>1, <2>2, HeadReleases
  <2>4. head_in'[n] = <<>> /\ \A m \in Nodes \ {n} : head_in'[m] = head_in[m]
    BY <2>1, <2>3 DEF DecisionTaken, SameNode
  <2>5. ASSUME NEW q \in Ranks
        PROVE  IF head_in'[NodeOf[q]] = <<Release>>' THEN Inside(q)' ELSE Freed(q)' \/ Computing(q)'
    <3>1. CASE NodeOf[q] = n
      BY <2>3, <2>4, <3>1 DEF LocalRanks
    <3>2. CASE NodeOf[q] # n
      <4>1. SameRank(q) /\ head_in'[NodeOf[q]] = head_in[NodeOf[q]] /\ Release' = Release
        BY <2>3, <2>4, <3>2, Finiteness DEF DecisionTaken, Release
      <4>. QED  BY <4>1, RankSame DEF Open
    <3>. QED  BY <3>1, <3>2
  <2>6. \A m \in Nodes : head_in'[m] \in {<<>>, <<Release>>'}
    BY <2>4 DEF Open, Release
  <2>7. Open(e)'
    BY <1>0, <2>3, <2>5, <2>6 DEF Open, DecisionTaken, NoReports, NoBarrier, NoSuccess, Started,
                                  controllerVars, None
  <2>. QED  BY <2>3, <2>7 DEF AllUp, DecisionTaken, controllerVars
<1>3. ~Controller
  BY <1>0, ControllerActs DEF Receives
<1>4. ASSUME UNCHANGED vars PROVE AllUp' /\ Open(e)'
  <2>1. Idle /\ pc' = pc
    BY <1>4, Stutter DEF vars, rankVars
  <2>2. \A q \in Ranks : IF head_in[NodeOf[q]] = <<Release>> THEN Inside(q)'
                         ELSE Freed(q)' \/ Computing(q)'
    BY <2>1, RankSame DEF Open, Idle, RanksSame
  <2>3. Open(e)'
    BY <2>1, <2>2, OpenKept DEF Idle, Open
  <2>. QED  BY <2>1, <2>3 DEF Idle, AllUp, NodesSame, SameNode, controllerVars
<1>. QED
  BY <1>1, <1>2, <1>3, <1>4, Steps

\* A failed process, as the survivors' synchronisation sees it.
LEMMA FailedRank ==
    ASSUME NEW f, \/ Exited(f, TryReload) \/ Reported(f, TryReload)
                  \/ \E d : Settled(f, TryReload, d)
    PROVE  proc[f] # "alive" /\ exit_code[f] = TryReload
BY DEF Exited, Reported, Settled, Ended

LEMMA UpKept ==
    AllUp /\ NodesSame /\ UNCHANGED controllerVars => AllUp'
BY DEF AllUp, NodesSame, SameNode, controllerVars

LEMMA FailingStep ==
    ASSUME QuietCase, TypeOK, EpochsInOrder, AllUp, [Next]_vars,
           NEW f \in Ranks, NEW e \in Nat, Failing(f, e)
    PROVE  /\ AllUp'
           /\ Failing(f, e)' \/ Reporting(f, e, {}, {})'
<1>. DEFINE exit == [type |-> "process_exit", code |-> TryReload, epoch |-> e]
<1>0. /\ proc[f] # "alive" /\ exit_code[f] = TryReload
      /\ \A q \in Ranks \ {f} : Running(q) /\ Silent(q)
      /\ \A n \in Nodes : head_in[n] = <<>>
      /\ NodeOf[f] \in Nodes
  BY FailedRank, SilentRanks, Finiteness DEF Failing, Running
<1>1. ASSUME NodesSame, UNCHANGED controllerVars, faults' = faults, epoch' = epoch,
             \A q \in Ranks \ {f} : SameRank(q),
             \/ (Exited(f, TryReload) \/ Reported(f, TryReload)) /\ (Exited(f, TryReload) \/ Reported(f, TryReload))'
             \/ Settled(f, TryReload, <<>>) /\ Settled(f, TryReload, <<>>)'
      PROVE  Failing(f, e)'
  <2>1. /\ NoReports' /\ NoSuccess' /\ NoBarrier' /\ Started' /\ faults' = 1 /\ Level(e)'
        /\ \A q \in Ranks \ {f} : Running(q)'
        /\ \A n \in Nodes : head_in'[n] = <<>>
    BY <1>0, <1>1, RankSame DEF Failing, NodesSame, SameNode, NoReports, NoSuccess, NoBarrier,
                                Started, Level, controllerVars, None
  <2>2. /\ Exited(f, TryReload) \/ Reported(f, TryReload) => proc[f] # "reaped" \/ fd_out[f] # <<>>
        /\ Settled(f, TryReload, <<>>) => proc[f] = "reaped" /\ fd_out[f] = <<>>
    BY DEF Exited, Reported, Settled
  <2>3. CASE (Exited(f, TryReload) \/ Reported(f, TryReload)) /\ (Exited(f, TryReload) \/ Reported(f, TryReload))'
    BY <1>1, <2>1, <2>2, <2>3 DEF Failing, NodesSame, SameNode
  <2>4. CASE Settled(f, TryReload, <<>>) /\ Settled(f, TryReload, <<>>)'
    <3>1. Failed(f) /\ \A n \in Nodes : head_out[n] = IF n = NodeOf[f] THEN <<exit>> ELSE <<>>
      BY <2>2, <2>4 DEF Failing
    <3>2. Failed(f)' /\ \A n \in Nodes : head_out'[n] = IF n = NodeOf[f] THEN <<exit>> ELSE <<>>
      <4>1. /\ faults' = faults
            /\ \A n \in Nodes : fault_daemons'[n] = fault_daemons[n] /\ head_out'[n] = head_out[n]
        BY <1>1 DEF NodesSame, SameNode
      <4>2. Failed(f)'
        BY <3>1, <4>1 DEF Failed
      <4>. QED  BY <3>1, <4>1, <4>2
    <3>. QED  BY <2>1, <2>4, <3>2 DEF Failing, TryReload
  <2>. QED  BY <1>1, <2>3, <2>4
<1>2. ASSUME NEW r \in Ranks, Own(r) PROVE AllUp' /\ Failing(f, e)'
  <2>1. r = f
    BY <1>0, <1>2, RunningHalts
  <2>2. Exited(f, TryReload)
    BY <1>2, <2>1, SettledStays DEF Failing
  <2>3. Quietly(f) /\ Reported(f, TryReload)'
    BY <1>2, <2>1, <2>2, ExitedMoves
  <2>. QED  BY <1>1, <2>2, <2>3, UpKept DEF Quietly, RankAlone, OthersSame
<1>3. ASSUME NEW n \in Nodes, NodeHead(n) PROVE AllUp' /\ Failing(f, e)'
  <2>1. n = NodeOf[f] /\ process_termination(f) /\ Reported(f, TryReload)
    <3>1. ASSUME NEW r \in LocalRanks(n), rank_out[r] # <<>> \/ fd_out[r] # <<>>
          PROVE  r = f /\ n = NodeOf[f] /\ Reported(f, TryReload)
      BY <1>0, <3>1, SilentRanks DEF LocalRanks, Failing, Silent
    <3>2. Reported(f, TryReload) => rank_out[f] = <<>> /\ Head(fd_out[f]).type = "termination"
      BY SilentRanks
    <3>. QED  BY <1>0, <1>3, <3>1, <3>2, HeadTakes DEF Receives
  <2>2. ReadEpochFile(f) = e
    BY <2>1 DEF EpochsInOrder, ReadEpochFile, Failing, Level, None, At, Exited, Reported
  <2>3. /\ Exited(f, TryReload) \/ Reported(f, TryReload)
        /\ \A m \in Nodes : head_out[m] = <<>> /\ fault_daemons[m] = {}
    BY <2>1 DEF Failing, Settled, Reported
  <2>4. /\ OthersSame(f) /\ Settled(f, TryReload, <<>>)' /\ epoch' = epoch /\ OtherNodesSame(n)
        /\ UNCHANGED <<controllerVars, faults, pid, proc, pc>>
        /\ UNCHANGED <<head_state, head_in, cleanups, node_minimum_epoch, barrier_count>>
        /\ fault_daemons'[n] = {f} /\ success_counter'[n] = success_counter[n]
        /\ head_out'[n] = <<exit>>
    <3>1. TryReload # Success
      BY DEF TryReload, Success
    <3>2. head_out[n] = <<>> /\ fault_daemons[n] = {}
      BY <2>3
    <3>3. /\ OthersSame(f) /\ Settled(f, TryReload, <<>>)' /\ epoch' = epoch /\ OtherNodesSame(NodeOf[f])
          /\ UNCHANGED <<controllerVars, faults, pid, proc, pc>>
          /\ UNCHANGED <<head_state, head_in, cleanups, node_minimum_epoch, barrier_count>>
          /\ fault_daemons'[NodeOf[f]] = fault_daemons[NodeOf[f]] \cup {f}
          /\ success_counter'[NodeOf[f]] = success_counter[NodeOf[f]]
          /\ head_out'[NodeOf[f]] = Append(head_out[NodeOf[f]],
                 [type |-> "process_exit", code |-> TryReload, epoch |-> ReadEpochFile(f)])
      BY <1>3, <2>1, <3>1, HeadTakesTermination
    <3>4. NodeOf[f] = n
      BY <2>1
    <3>5. fault_daemons'[n] = {f} /\ success_counter'[n] = success_counter[n]
      BY <3>2, <3>3, <3>4
    <3>6. head_out'[n] = Append(<<>>, [type |-> "process_exit", code |-> TryReload, epoch |-> e])
      BY <2>2, <3>2, <3>3, <3>4
    <3>7. OtherNodesSame(n)
      BY <3>3, <3>4
    <3>8. head_out'[n] = <<exit>>
      BY <3>6
    <3>. QED  BY <3>3, <3>5, <3>7, <3>8
  <2>5. ASSUME NEW m \in Nodes
        PROVE  /\ head_out'[m] = IF m = NodeOf[f] THEN <<exit>> ELSE <<>>
               /\ fault_daemons'[m] = IF m = NodeOf[f] THEN {f} ELSE {}
               /\ success_counter'[m] = 0
    BY <2>1, <2>3, <2>4 DEF OtherNodesSame, SameNode, Failing, NoSuccess
  <2>6. /\ NoReports' /\ NoSuccess' /\ NoBarrier' /\ Started' /\ faults' = 1 /\ Level(e)'
        /\ \A q \in Ranks \ {f} : Running(q)'
        /\ \A m \in Nodes : head_in'[m] = <<>>
    BY <1>0, <2>4, <2>5, RankSame DEF Failing, OthersSame, NoReports, NoSuccess, NoBarrier,
                                      Started, Level, controllerVars, None
  <2>7. Failing(f, e)'
    BY <2>4, <2>5, <2>6 DEF Failing, Failed, TryReload
  <2>. QED  BY <2>4, <2>7 DEF AllUp, controllerVars
<1>4. ASSUME Controller PROVE AllUp' /\ Reporting(f, e, {}, {})'
  <2>1. /\ Settled(f, TryReload, <<>>) /\ Failed(f)
        /\ \A m \in Nodes : head_out[m] = IF m = NodeOf[f] THEN <<exit>> ELSE <<>>
    BY <1>4, ControllerActs DEF Failing, Receives
  <2>2. PICK n \in Nodes : n = NodeOf[f]
    BY <1>0
  <2>3. process_exit(n) /\ Takes(n, "process_exit")
    <3>1. ASSUME NEW m \in Nodes, head_out[m] # <<>> PROVE m = n /\ Head(head_out[m]).type = "process_exit"
      BY <2>1, <2>2, <3>1
    <3>. QED  BY <1>4, <3>1, ControllerActs DEF Receives
  <2>4. /\ RanksSame /\ head_out' = [head_out EXCEPT ![n] = Tail(@)]
        /\ UNCHANGED <<rankNet, fdNet, osVars, rankVars, faultDaemonVars, headVars>>
    BY <1>4, <2>3, ControllerTakes
  <2>5. /\ head_in' = PushAll(head_in, Nodes, [type |-> "error", epoch |-> e])
        /\ UNCHANGED <<controller, head_daemons, head_daemon_count, node_successes,
                       node_epochs, global_minimum_epoch>>
    <3>1. Head(head_out[n]) = exit
      BY <2>1, <2>2
    <3>2. Head(head_out[n]).code = TryReload /\ Head(head_out[n]).epoch = e
      BY <3>1
    <3>. QED  BY <2>3, <3>2 DEF process_exit, SendToHeadDaemons, Failing, Started
  <2>6. \A m \in Nodes : head_in'[m] = <<[type |-> "error", epoch |-> e]>>
    BY <1>0, <2>5, SentToAll
  <2>7. \A m \in Nodes : head_out'[m] = <<>>
    <3>1. head_out[n] = <<exit>> /\ \A m \in Nodes \ {n} : head_out[m] = <<>>
      BY <2>1, <2>2
    <3>2. head_out'[n] = Tail(head_out[n]) /\ \A m \in Nodes \ {n} : head_out'[m] = head_out[m]
      BY <2>4, NodeTypes
    <3>. QED  BY <3>1, <3>2
  <2>8. /\ NoSuccess' /\ NoBarrier' /\ Started' /\ Failed(f)' /\ Level(e)'
        /\ Settled(f, TryReload, <<>>)'
        /\ node_epochs' = 0 /\ global_minimum_epoch' = None
        /\ \A m \in Nodes : cleanups'[m] = 0 /\ node_minimum_epoch'[m] = None
        /\ \A q \in Ranks \ {f} : Running(q)'
    BY <1>0, <2>1, <2>4, <2>5, RankSame
       DEF Failing, Failed, NoSuccess, NoBarrier, Started, NoReports, Level, headVars, rankVars,
           RanksSame, None
  <2>9. {} # Nodes /\ Cardinality({}) = 0 /\ Minima({}, e) = None
    BY <1>0, FS_EmptySet DEF Minima
  <2>10. \A m \in Nodes : \A q \in Survivors(m, f) : q \in Ranks \ {f}
    BY DEF Survivors, LocalRanks
  <2>11. Reporting(f, e, {}, {})'
    BY <2>6, <2>7, <2>8, <2>9, <2>10 DEF Reporting, Unaware, None, Minima
  <2>. QED  BY <2>4, <2>5, <2>11 DEF AllUp, headVars
<1>5. ASSUME UNCHANGED vars PROVE AllUp' /\ Failing(f, e)'
  <2>1. Idle /\ SameRank(f)
    BY <1>5, Stutter DEF Idle, RanksSame
  <2>2. \/ (Exited(f, TryReload) \/ Reported(f, TryReload)) /\ (Exited(f, TryReload) \/ Reported(f, TryReload))'
        \/ Settled(f, TryReload, <<>>) /\ Settled(f, TryReload, <<>>)'
    BY <2>1, RankSame DEF Failing
  <2>. QED  BY <1>1, <2>1, <2>2, UpKept DEF Idle, RanksSame
<1>. QED
  BY <1>2, <1>3, <1>4, <1>5, Steps

\* What a step that leaves a node and its counted survivors alone does to the node.
LEMMA NodeReports ==
    ASSUME NEW n \in Nodes, NEW f \in Ranks, NEW e, NEW C, NEW D, NEW C2, NEW D2,
           SameNode(n), C2 \cap LocalRanks(n) = C \cap LocalRanks(n), n \in D2 <=> n \in D,
           \A q \in Survivors(n, f) : Running(q) => Running(q)',
           \A q \in Survivors(n, f) : Alerted(q) \/ Recovering(q, <<Cleanup(e)>>, <<>>)
                                      => (Alerted(q) \/ Recovering(q, <<Cleanup(e)>>, <<>>))'
    PROVE  /\ Unaware(n, f, e, C, D) => Unaware(n, f, e, C2, D2)'
           /\ Collecting(n, f, e, C, D) => Collecting(n, f, e, C2, D2)'
           /\ Answered(n, f, e, C, D) => Answered(n, f, e, C2, D2)'
<1>0. \A q \in Survivors(n, f) : q \in C2 <=> q \in C
  BY DEF Survivors
<1>1. Unaware(n, f, e, C, D) => Unaware(n, f, e, C2, D2)'
  BY <1>0 DEF Unaware, SameNode, None
<1>2. Collecting(n, f, e, C, D) => Collecting(n, f, e, C2, D2)'
  BY <1>0 DEF Collecting, SameNode, Minima, None
<1>3. Answered(n, f, e, C, D) => Answered(n, f, e, C2, D2)'
  BY <1>0 DEF Answered, SameNode, None
<1>. QED
  BY <1>1, <1>2, <1>3

LEMMA ReportingKept ==
    ASSUME NEW f \in Ranks, NEW e, NEW C, NEW D, Reporting(f, e, C, D), NodesSame,
           UNCHANGED controllerVars, faults' = faults, epoch' = epoch, Settled(f, TryReload, <<>>)',
           \A q \in C : Recovering(q, <<>>, <<>>)',
           \A q \in Ranks : Running(q) => Running(q)',
           \A q \in Ranks : Alerted(q) \/ Recovering(q, <<Cleanup(e)>>, <<>>)
                            => (Alerted(q) \/ Recovering(q, <<Cleanup(e)>>, <<>>))'
    PROVE  Reporting(f, e, C, D)'
<1>1. \A n \in Nodes : \A q \in Survivors(n, f) : q \in Ranks
  BY DEF Survivors, LocalRanks
<1>2. \A n \in Nodes :
         (Unaware(n, f, e, C, D) \/ Collecting(n, f, e, C, D) \/ Answered(n, f, e, C, D))'
  BY <1>1, NodeReports DEF Reporting, NodesSame
<1>. QED
  BY <1>2 DEF Reporting, NodesSame, SameNode, NoSuccess, NoBarrier, Started, Failed, Level,
              controllerVars, Minima, None

\* A survivor's report is counted by its head.
LEMMA ReportingCounts ==
    ASSUME TypeOK, EpochsInOrder, NEW f \in Ranks, NEW e \in Nat, NEW C \in SUBSET Ranks,
           NEW D \in SUBSET Nodes, Reporting(f, e, C, D),
           NEW n \in Nodes, NodeHead(n), NEW r \in Survivors(n, f) \ C, process_cleanup(r),
           Recovering(r, <<Cleanup(e)>>, <<>>), Collecting(n, f, e, C, D)
    PROVE  /\ UNCHANGED <<controllerVars, head_state>>
           /\ C \cup {r} \in SUBSET Ranks /\ Reporting(f, e, C \cup {r}, D)'
<1>. DEFINE S == C \cap LocalRanks(n)
            T == Survivors(n, f)
<1>1. /\ r \in Ranks /\ NodeOf[r] = n /\ r # f /\ r \in T /\ r \notin S
      /\ IsFiniteSet(T) /\ S \subseteq T /\ T \subseteq Ranks
  <2>1. T \subseteq LocalRanks(n) /\ IsFiniteSet(LocalRanks(n))
    BY Finiteness DEF Survivors
  <2>2. S \subseteq T
    BY DEF Reporting, Survivors
  <2>. QED  BY <2>1, <2>2, FS_Subset DEF Survivors, LocalRanks
<1>2. ranks(n) = T
  <2>1. ASSUME NEW q \in T PROVE registered[q] # 0
    <3>1. q \in Ranks /\ pid[q] > 0
      BY <1>1, <2>1 DEF EpochsInOrder
    <3>2. registered[q] = pid[q]
      BY <2>1 DEF Reporting, Collecting, Alerted, Recovering
    <3>. QED  BY <3>1, <3>2
  <2>2. registered[f] = 0
    BY DEF Reporting, Settled
  <2>. QED  BY <2>1, <2>2 DEF ranks, Survivors
<1>3. /\ Cardinality(S) + 1 = Cardinality(T) <=> S \cup {r} = T
      /\ Cardinality(S \cup {r}) = Cardinality(S) + 1
  <2>. HIDE DEF S, T
  <2>. QED  BY <1>1, OneMore, Zenon
<1>4. /\ (C \cup {r}) \cap LocalRanks(n) = S \cup {r}
      /\ S \cup {r} = T <=> T \subseteq C \cup {r}
  BY <1>1 DEF Survivors, LocalRanks
<1>5. /\ cleanups[n] = Cardinality(S) /\ n \notin D /\ head_in[n] = <<>> /\ head_out[n] = <<>>
      /\ Minimum(node_minimum_epoch[n], e) = e
  BY DEF Collecting, Minimum, Minima
<1>6. /\ OthersSame(r) /\ Recovering(r, <<>>, <<>>)' /\ epoch' = epoch
      /\ OtherNodesSame(n) /\ UNCHANGED <<controllerVars, faults, pid, proc, pc>>
      /\ UNCHANGED <<head_state, head_in, fault_daemons, success_counter, barrier_count>>
      /\ cleanups'[n] = IF cleanups[n] + 1 = Cardinality(ranks(n)) THEN 0 ELSE cleanups[n] + 1
      /\ node_minimum_epoch'[n] = IF cleanups[n] + 1 = Cardinality(ranks(n)) THEN None ELSE e
      /\ head_out'[n] = IF cleanups[n] + 1 = Cardinality(ranks(n))
                        THEN Append(head_out[n], [type |-> "node_epoch", epoch |-> e])
                        ELSE head_out[n]
  <2>1. NodeHead(NodeOf[r])
    BY <1>1
  <2>. QED  BY <1>1, <1>5, <2>1, HeadCountsCleanup
<1>7. ASSUME T \subseteq C \cup {r} PROVE Answered(n, f, e, C \cup {r}, D)'
  <2>1. cleanups[n] + 1 = Cardinality(ranks(n))
    BY <1>2, <1>3, <1>4, <1>5, <1>7
  <2>. QED  BY <1>5, <1>6, <1>7, <2>1 DEF Answered, None
<1>8. ASSUME ~(T \subseteq C \cup {r}) PROVE Collecting(n, f, e, C \cup {r}, D)'
  <2>1. cleanups[n] + 1 # Cardinality(ranks(n))
    BY <1>2, <1>3, <1>4, <1>5, <1>8
  <2>2. \A q \in T \ (C \cup {r}) : (Alerted(q) \/ Recovering(q, <<Cleanup(e)>>, <<>>))'
    <3>1. ASSUME NEW q \in T \ (C \cup {r})
          PROVE  (Alerted(q) \/ Recovering(q, <<Cleanup(e)>>, <<>>)) /\ SameRank(q)
      BY <1>1, <1>6, <3>1 DEF Collecting, OthersSame
    <3>2. <<Cleanup(e)>>' = <<Cleanup(e)>>
      BY DEF Cleanup
    <3>. QED  BY <3>1, <3>2, RankSame
  <2>3. /\ head_in'[n] = <<>> /\ head_out'[n] = <<>>
        /\ cleanups'[n] = Cardinality((C \cup {r}) \cap LocalRanks(n))
        /\ node_minimum_epoch'[n] = Minima((C \cup {r}) \cap LocalRanks(n), e)
    BY <1>3, <1>4, <1>5, <1>6, <2>1 DEF Minima
  <2>. QED  BY <1>5, <1>8, <2>2, <2>3 DEF Collecting, Minima, None
<1>9. ASSUME NEW m \in Nodes, m # n
      PROVE  (\/ Unaware(m, f, e, C \cup {r}, D) \/ Collecting(m, f, e, C \cup {r}, D)
              \/ Answered(m, f, e, C \cup {r}, D))'
  <2>1. /\ SameNode(m) /\ (C \cup {r}) \cap LocalRanks(m) = C \cap LocalRanks(m)
        /\ \A q \in Survivors(m, f) : q \in Ranks \ {r}
    BY <1>1, <1>6, <1>9 DEF OtherNodesSame, Survivors, LocalRanks
  <2>2. \A q \in Survivors(m, f) : SameRank(q)
    BY <1>6, <2>1 DEF OthersSame
  <2>3. <<Cleanup(e)>>' = <<Cleanup(e)>>
    BY DEF Cleanup
  <2>4. /\ \A q \in Survivors(m, f) : Running(q) => Running(q)'
        /\ \A q \in Survivors(m, f) : Alerted(q) \/ Recovering(q, <<Cleanup(e)>>, <<>>)
                                      => (Alerted(q) \/ Recovering(q, <<Cleanup(e)>>, <<>>))'
    BY <2>2, <2>3, RankSame
  <2>5. Unaware(m, f, e, C, D) \/ Collecting(m, f, e, C, D) \/ Answered(m, f, e, C, D)
    BY DEF Reporting
  <2>. QED  BY <2>1, <2>4, <2>5, NodeReports
<1>10. /\ NoSuccess' /\ NoBarrier' /\ Started' /\ Failed(f)' /\ Level(e)' /\ Settled(f, TryReload, <<>>)'
       /\ node_epochs' = Cardinality(D) /\ D # Nodes /\ global_minimum_epoch' = Minima(D, e)
       /\ f \notin C \cup {r} /\ \A q \in C \cup {r} : Recovering(q, <<>>, <<>>)'
  <2>1. ASSUME NEW q \in C \cup {f}, q # r PROVE SameRank(q)
    BY <1>6, <2>1 DEF OthersSame
  <2>2. Settled(f, TryReload, <<>>)' /\ \A q \in C \cup {r} : Recovering(q, <<>>, <<>>)'
    BY <1>1, <1>6, <2>1, RankSame DEF Reporting
  <2>. QED  BY <1>1, <1>6, <2>2 DEF Reporting, NoSuccess, NoBarrier, Started, Failed, Level,
                                    controllerVars
<1>11. Minima(D, e)' = Minima(D, e)
  BY DEF Minima, None
<1>12. Reporting(f, e, C \cup {r}, D)'
  BY <1>7, <1>8, <1>9, <1>10, <1>11 DEF Reporting
<1>. QED
  BY <1>1, <1>6, <1>12

\* "error" reaches the head of a node.
LEMMA ReportingAlerts ==
    ASSUME TypeOK, EpochsInOrder, NEW f \in Ranks, NEW e \in Nat, NEW C \in SUBSET Ranks,
           NEW D \in SUBSET Nodes, Reporting(f, e, C, D),
           NEW n \in Nodes, NodeHead(n), process_error(n), Unaware(n, f, e, C, D)
    PROVE  UNCHANGED <<controllerVars, head_state>> /\ Reporting(f, e, C, D)'
<1>1. /\ DecisionTaken(n) /\ UNCHANGED head_state /\ SameRank(f)
      /\ \A q \in Survivors(n, f) : Alerted(q)'
      /\ head_out'[n] = IF Survivors(n, f) = {}
                        THEN Append(head_out[n], [type |-> "node_epoch", epoch |-> e])
                        ELSE head_out[n]
  BY HeadAlerts DEF Unaware, Reporting
<1>2. head_in'[n] = <<>> /\ head_out[n] = <<>> /\ n \notin D
  BY <1>1 DEF Unaware, DecisionTaken
<1>3. /\ \A q \in Survivors(n, f) : q \in LocalRanks(n) /\ q \notin C
      /\ C \cap LocalRanks(n) = {}
  BY DEF Unaware, Reporting, Survivors
<1>4. ASSUME Survivors(n, f) = {} PROVE Answered(n, f, e, C, D)'
  BY <1>1, <1>2, <1>4 DEF Answered, Unaware, DecisionTaken, None
<1>5. ASSUME Survivors(n, f) # {} PROVE Collecting(n, f, e, C, D)'
  BY <1>1, <1>2, <1>3, <1>5, FS_EmptySet DEF Collecting, Unaware, DecisionTaken, None, Minima
<1>6. ASSUME NEW m \in Nodes, m # n
      PROVE  (Unaware(m, f, e, C, D) \/ Collecting(m, f, e, C, D) \/ Answered(m, f, e, C, D))'
  <2>1. SameNode(m) /\ \A q \in Survivors(m, f) : q \in Ranks /\ SameRank(q)
    BY <1>1, <1>6 DEF DecisionTaken, Survivors, LocalRanks
  <2>2. <<Cleanup(e)>>' = <<Cleanup(e)>>
    BY DEF Cleanup
  <2>3. /\ \A q \in Survivors(m, f) : Running(q) => Running(q)'
        /\ \A q \in Survivors(m, f) : Alerted(q) \/ Recovering(q, <<Cleanup(e)>>, <<>>)
                                      => (Alerted(q) \/ Recovering(q, <<Cleanup(e)>>, <<>>))'
    BY <2>1, <2>2, RankSame
  <2>4. Unaware(m, f, e, C, D) \/ Collecting(m, f, e, C, D) \/ Answered(m, f, e, C, D)
    BY DEF Reporting
  <2>. QED  BY <2>1, <2>3, <2>4, NodeReports
<1>7. \A q \in C : Recovering(q, <<>>, <<>>)'
  <2>1. ASSUME NEW q \in C PROVE SameRank(q)
    BY <1>1, <1>3 DEF DecisionTaken, LocalRanks
  <2>. QED  BY <2>1, RankSame DEF Reporting
<1>8. Settled(f, TryReload, <<>>)'
  BY <1>1, RankSame DEF Reporting
<1>9. Minima(D, e)' = Minima(D, e)
  BY DEF Minima, None
<1>10. Reporting(f, e, C, D)'
  BY <1>1, <1>4, <1>5, <1>6, <1>7, <1>8, <1>9
     DEF Reporting, DecisionTaken, NoSuccess, NoBarrier, Started, Failed, Level, controllerVars
<1>. QED
  BY <1>1, <1>10 DEF DecisionTaken

\* The controller counts a node, and commits the epoch with the last one.
LEMMA ReportingDecides ==
    ASSUME TypeOK, NEW f \in Ranks, NEW e \in Nat, NEW C \in SUBSET Ranks,
           NEW D \in SUBSET Nodes, Reporting(f, e, C, D), Controller
    PROVE  /\ UNCHANGED <<controller, head_state>>
           /\ \/ \E D2 \in SUBSET Nodes : Reporting(f, e, C, D2)'
              \/ Returning(f, e, {}, {})'
<1>. USE NodeTypes
<1>0. ASSUME NEW m \in Nodes, head_out[m] # <<>>
      PROVE  /\ m \notin D /\ head_out[m] = <<[type |-> "node_epoch", epoch |-> e]>>
             /\ Answered(m, f, e, C, D)
  BY <1>0 DEF Reporting, Unaware, Collecting, Answered
<1>1. PICK n \in Nodes : node_epoch(n) /\ Takes(n, "node_epoch") /\ head_out[n] # <<>>
  <2>1. ASSUME NEW m \in Nodes, head_out[m] # <<>> PROVE Head(head_out[m]).type = "node_epoch"
    BY <1>0, <2>1
  <2>. QED  BY <2>1, ControllerActs DEF Receives
<1>2. /\ RanksSame /\ head_out' = [head_out EXCEPT ![n] = Tail(@)]
      /\ UNCHANGED <<rankNet, fdNet, osVars, rankVars, faultDaemonVars, headVars>>
  BY <1>1, ControllerTakes
<1>3. n \in Nodes \ D /\ Answered(n, f, e, C, D) /\ head_out'[n] = <<>>
  <2>1. n \notin D /\ head_out[n] = <<[type |-> "node_epoch", epoch |-> e]>> /\ Answered(n, f, e, C, D)
    BY <1>0, <1>1
  <2>2. head_out'[n] = Tail(head_out[n])
    BY <1>2
  <2>. QED  BY <2>1, <2>2
<1>4. /\ Cardinality(D) + 1 = NodeCount <=> D \cup {n} = Nodes
      /\ Cardinality(D \cup {n}) = Cardinality(D) + 1
  BY <1>3, Finiteness, OneMore, Zenon DEF NodeCount
<1>5. Head(head_out[n]).epoch = e /\ GlobalMinimum(Head(head_out[n]).epoch) = e
  <2>1. Head(head_out[n]).epoch = e
    BY <1>0, <1>1
  <2>. QED  BY <2>1 DEF Reporting, GlobalMinimum, Minima
<1>6. /\ node_epochs = Cardinality(D) /\ head_daemons = Nodes
      /\ UNCHANGED <<controller, head_daemons, head_daemon_count, node_successes>>
      /\ \/ /\ D \cup {n} = Nodes /\ node_epochs' = 0 /\ global_minimum_epoch' = None
            /\ head_in' = PushAll(head_in, Nodes, [type |-> "commit", epoch |-> e])
         \/ /\ D \cup {n} # Nodes /\ node_epochs' = Cardinality(D \cup {n})
            /\ global_minimum_epoch' = e /\ UNCHANGED head_in
  <2>1. node_epochs = Cardinality(D) /\ head_daemons = Nodes
    BY DEF Reporting, Started
  <2>. QED  BY <1>1, <1>4, <1>5, <2>1 DEF node_epoch, SendToHeadDaemons
<1>7. /\ NoSuccess' /\ NoBarrier' /\ Started' /\ Failed(f)' /\ Level(e)'
      /\ Settled(f, TryReload, <<>>)' /\ f \notin C /\ \A q \in C : Recovering(q, <<>>, <<>>)'
  BY <1>2, <1>6, RankSame DEF Reporting, NoSuccess, NoBarrier, Started, Failed, Level, headVars,
                              rankVars, RanksSame
<1>8. CASE D \cup {n} # Nodes
  <2>1. ASSUME NEW m \in Nodes
        PROVE  (\/ Unaware(m, f, e, C, D \cup {n}) \/ Collecting(m, f, e, C, D \cup {n})
                \/ Answered(m, f, e, C, D \cup {n}))'
    <3>1. CASE m = n
      <4>1. Answered(n, f, e, C, D \cup {n})'
        BY <1>2, <1>3, <1>6, <1>8 DEF Answered, headVars, None
      <4>. QED  BY <3>1, <4>1
    <3>2. CASE m # n
      <4>1. SameNode(m) /\ (m \in D \cup {n} <=> m \in D)
        BY <1>2, <1>6, <1>8, <3>2 DEF SameNode, headVars
      <4>2. <<Cleanup(e)>>' = <<Cleanup(e)>> /\ \A q \in Survivors(m, f) : q \in Ranks
        BY DEF Cleanup, Survivors, LocalRanks
      <4>3. /\ \A q \in Survivors(m, f) : Running(q) => Running(q)'
            /\ \A q \in Survivors(m, f) : Alerted(q) \/ Recovering(q, <<Cleanup(e)>>, <<>>)
                                          => (Alerted(q) \/ Recovering(q, <<Cleanup(e)>>, <<>>))'
        BY <1>2, <4>2, RankSame DEF RanksSame
      <4>4. Unaware(m, f, e, C, D) \/ Collecting(m, f, e, C, D) \/ Answered(m, f, e, C, D)
        BY DEF Reporting
      <4>. QED  BY <4>1, <4>3, <4>4, NodeReports
    <3>. QED  BY <3>1, <3>2
  <2>2. Minima(D \cup {n}, e)' = e
    BY DEF Minima
  <2>3. Reporting(f, e, C, D \cup {n})'
    BY <1>6, <1>7, <1>8, <2>1, <2>2 DEF Reporting
  <2>. QED  BY <1>2, <1>6, <2>3 DEF headVars
<1>9. CASE D \cup {n} = Nodes
  <2>1. ASSUME NEW m \in Nodes
        PROVE  /\ head_in'[m] = <<Commit(e)>> /\ head_out'[m] = <<>> /\ Survivors(m, f) \subseteq C
               /\ cleanups'[m] = 0 /\ node_minimum_epoch'[m] = None
    <3>1. Answered(m, f, e, C, D) /\ head_out'[m] = <<>>
      <4>1. CASE m = n
        BY <1>3, <4>1
      <4>2. CASE m # n
        <5>1. m \in D /\ head_out'[m] = head_out[m]
          BY <1>2, <1>9, <4>2
        <5>. QED  BY <5>1 DEF Reporting, Unaware, Collecting, Answered
      <4>. QED  BY <4>1, <4>2
    <3>2. head_in'[m] = Append(head_in[m], [type |-> "commit", epoch |-> e])
      BY <1>6, <1>9, SentToAll
    <3>3. head_in'[m] = <<Commit(e)>>
      <4>1. head_in[m] = <<>>
        BY <3>1 DEF Answered
      <4>. QED  BY <3>2, <4>1 DEF Commit
    <3>. QED  BY <1>2, <3>1, <3>3 DEF Answered, headVars, None
  <2>2. \A r \in Ranks \ {f} : r \in C
    BY <2>1, Finiteness DEF Survivors
  <2>3. ASSUME NEW m \in Nodes
        PROVE  ~(LocalRanks(m) \subseteq {}) /\ Cardinality({} \cap LocalRanks(m)) = 0
    BY LayoutAssumption, FS_EmptySet DEF LocalRanks
  <2>4. Filling({}, {})'
    <3>1. head_daemon_count' = Cardinality({}) /\ {} # Nodes /\ \A m \in Nodes : barrier_count'[m] = 0
      BY <1>7, FS_EmptySet DEF NoBarrier
    <3>. QED  BY <2>1, <2>3, <3>1 DEF Filling
  <2>5. NoReports'
    BY <1>6, <1>9, <2>1 DEF NoReports
  <2>7. ASSUME NEW m \in Nodes PROVE head_in'[m] = <<Commit(e)>>' /\ head_in'[m] # <<>>
    <3>1. head_in'[m] = <<Commit(e)>>
      BY <2>1
    <3>2. <<Commit(e)>> # <<>> /\ Commit(e)' = Commit(e)
      BY DEF Commit
    <3>. QED  BY <3>1, <3>2
  <2>8. /\ \A r \in Ranks \ {f} : head_in'[NodeOf[r]] # <<>> /\ Recovering(r, <<>>, <<>>)'
        /\ head_in'[NodeOf[f]] # <<>>
    BY <1>7, <2>2, <2>7, Finiteness
  <2>9. Returning(f, e, {}, {})'
    BY <1>7, <2>4, <2>5, <2>7, <2>8 DEF Returning, Returns, Restarts
  <2>. QED  BY <1>2, <1>6, <2>9 DEF headVars
<1>. QED
  BY <1>8, <1>9

LEMMA ReportingStep ==
    ASSUME QuietCase, TypeOK, EpochsInOrder, AllUp, [Next]_vars, NEW f \in Ranks, NEW e \in Nat,
           NEW C \in SUBSET Ranks, NEW D \in SUBSET Nodes, Reporting(f, e, C, D)
    PROVE  /\ AllUp'
           /\ \/ \E C2 \in SUBSET Ranks, D2 \in SUBSET Nodes : Reporting(f, e, C2, D2)'
              \/ Returning(f, e, {}, {})'
<1>0. /\ Settled(f, TryReload, <<>>) /\ proc[f] # "alive" /\ exit_code[f] = TryReload
      /\ \A q \in C : Recovering(q, <<>>, <<>>)
      /\ \A q \in Ranks : epoch[q] = e
  BY FailedRank DEF Reporting, Level
<1>1. \A q \in Ranks : \/ q = f \/ q \in C \/ Running(q) \/ Alerted(q)
                       \/ Recovering(q, <<Cleanup(e)>>, <<>>)
  <2>1. ASSUME NEW q \in Ranks, q # f
        PROVE  q \in C \/ Running(q) \/ Alerted(q) \/ Recovering(q, <<Cleanup(e)>>, <<>>)
    <3>1. PICK n \in Nodes : q \in Survivors(n, f)
      BY <2>1, Finiteness DEF Survivors
    <3>. QED  BY <3>1 DEF Reporting, Unaware, Collecting, Answered
  <2>. QED  BY <2>1
<1>2. ASSUME NEW r \in Ranks, Own(r) PROVE AllUp' /\ Reporting(f, e, C, D)'
  <2>0. r # f
    BY <1>0, <1>2, SettledStays
  <2>1. ~Running(r)
    BY <1>0, <1>2, RunningHalts
  <2>2. ASSUME r \in C PROVE Quietly(r) /\ Recovering(r, <<>>, <<>>)'
    BY <1>0, <1>2, <2>2, RecoveringMoves
  <2>3. ASSUME Alerted(r) PROVE Quietly(r) /\ Recovering(r, <<Cleanup(e)>>, <<>>)'
    <3>1. Quietly(r) /\ Recovering(r, <<Cleanup(epoch[r])>>, <<>>)'
      BY <1>0, <1>2, <2>3, AlertedMoves
    <3>2. epoch[r] = e /\ epoch'[r] = e
      BY <1>0, <3>1 DEF Quietly
    <3>. QED  BY <3>1, <3>2
  <2>4. ASSUME Recovering(r, <<Cleanup(e)>>, <<>>)
        PROVE  Quietly(r) /\ Recovering(r, <<Cleanup(e)>>, <<>>)'
    <3>1. Quietly(r) /\ (\A out : out = <<Cleanup(e)>> => Recovering(r, out, <<>>)')
      BY <1>2, <2>4, RecoveringMoves
    <3>2. <<Cleanup(e)>>' = <<Cleanup(e)>>
      BY DEF Cleanup
    <3>. QED  BY <3>1, <3>2
  <2>5. Quietly(r)
    BY <1>1, <2>0, <2>1, <2>2, <2>3, <2>4
  <2>6. \A q \in Ranks \ {r} : SameRank(q)
    BY <2>5 DEF Quietly, RankAlone, OthersSame
  <2>7. /\ Settled(f, TryReload, <<>>)' /\ \A q \in C : Recovering(q, <<>>, <<>>)'
        /\ \A q \in Ranks : Running(q) => Running(q)'
    BY <1>0, <2>0, <2>1, <2>2, <2>6, RankSame
  <2>8. \A q \in Ranks : Alerted(q) \/ Recovering(q, <<Cleanup(e)>>, <<>>)
                         => (Alerted(q) \/ Recovering(q, <<Cleanup(e)>>, <<>>))'
    <3>1. <<Cleanup(e)>>' = <<Cleanup(e)>>
      BY DEF Cleanup
    <3>. QED  BY <2>3, <2>4, <2>6, <3>1, RankSame
  <2>. QED  BY <2>5, <2>7, <2>8, ReportingKept, UpKept DEF Quietly, RankAlone
<1>3. ASSUME NEW n \in Nodes, NodeHead(n)
      PROVE  AllUp' /\ \E C2 \in SUBSET Ranks : Reporting(f, e, C2, D)'
  <2>1. ASSUME NEW r \in LocalRanks(n), rank_out[r] # <<>> \/ fd_out[r] # <<>>
        PROVE  /\ fd_out[r] = <<>> /\ Head(rank_out[r]).type = "cleanup"
               /\ r \in Survivors(n, f) \ C /\ Recovering(r, <<Cleanup(e)>>, <<>>)
               /\ Collecting(n, f, e, C, D)
    <3>1. r # f /\ r \notin C /\ ~Running(r) /\ ~Alerted(r)
      BY <1>0, <2>1, SilentRanks DEF Silent, Running
    <3>2. r \in Ranks /\ r \in Survivors(n, f) /\ Recovering(r, <<Cleanup(e)>>, <<>>)
      BY <1>1, <3>1 DEF LocalRanks, Survivors
    <3>3. Collecting(n, f, e, C, D)
      BY <3>1, <3>2 DEF Reporting, Unaware, Answered
    <3>. QED  BY <3>1, <3>2, <3>3, SilentRanks
  <2>2. CASE head_in[n] # <<>>
    <3>1. Unaware(n, f, e, C, D)
      BY <2>2 DEF Reporting, Collecting, Answered
    <3>2. process_error(n)
      <4>1. Head(head_in[n]).type = "error"
        BY <3>1 DEF Unaware
      <4>2. ~Collecting(n, f, e, C, D)
        BY <2>2 DEF Collecting
      <4>. QED  BY <1>3, <2>1, <4>1, <4>2, HeadTakes DEF Receives
    <3>3. UNCHANGED <<controllerVars, head_state>> /\ Reporting(f, e, C, D)'
      BY <1>3, <3>1, <3>2, ReportingAlerts
    <3>. QED  BY <3>3 DEF AllUp, controllerVars
  <2>3. CASE head_in[n] = <<>>
    <3>1. PICK r \in LocalRanks(n) : process_cleanup(r) /\ rank_out[r] # <<>>
      BY <1>3, <2>1, <2>3, HeadTakes DEF Receives
    <3>2. /\ r \in Survivors(n, f) \ C /\ Recovering(r, <<Cleanup(e)>>, <<>>)
          /\ Collecting(n, f, e, C, D)
      BY <2>1, <3>1
    <3>3. /\ UNCHANGED <<controllerVars, head_state>>
          /\ C \cup {r} \in SUBSET Ranks /\ Reporting(f, e, C \cup {r}, D)'
      BY <1>3, <3>1, <3>2, ReportingCounts
    <3>. QED  BY <3>3 DEF AllUp, controllerVars
  <2>. QED  BY <2>2, <2>3
<1>4. ASSUME Controller
      PROVE  /\ AllUp'
             /\ \/ \E D2 \in SUBSET Nodes : Reporting(f, e, C, D2)'
                \/ Returning(f, e, {}, {})'
  BY <1>4, ReportingDecides DEF AllUp
<1>5. ASSUME UNCHANGED vars PROVE AllUp' /\ Reporting(f, e, C, D)'
  <2>1. Idle /\ \A q \in Ranks : SameRank(q)
    BY <1>5, Stutter DEF Idle, RanksSame
  <2>2. <<Cleanup(e)>>' = <<Cleanup(e)>>
    BY DEF Cleanup
  <2>3. /\ Settled(f, TryReload, <<>>)' /\ \A q \in C : Recovering(q, <<>>, <<>>)'
        /\ \A q \in Ranks : Running(q) => Running(q)'
    BY <1>0, <2>1, RankSame
  <2>4. \A q \in Ranks : Alerted(q) \/ Recovering(q, <<Cleanup(e)>>, <<>>)
                         => (Alerted(q) \/ Recovering(q, <<Cleanup(e)>>, <<>>))'
    BY <2>1, <2>2, RankSame
  <2>. QED  BY <2>1, <2>3, <2>4, ReportingKept, UpKept DEF Idle
<1>. QED
  BY <1>2, <1>3, <1>4, <1>5, Steps

\* A rank on its way back to the barrier, when it and its head's connection are left alone.
LEMMA ReturnsKept ==
    ASSUME NEW r \in Ranks, NEW e, SameRank(r), head_in'[NodeOf[r]] = head_in[NodeOf[r]]
    PROVE  (Returns(r, e) => Returns(r, e)') /\ (Restarts(r, e) => Restarts(r, e)')
<1>1. Commit(e)' = Commit(e) /\ TryReload' = TryReload
  BY DEF Commit, TryReload
<1>. QED
  BY <1>1, RankSame DEF Returns, Restarts

\* A rank that has come back to the barrier only waits.
LEMMA ReturningKept ==
    ASSUME NEW f \in Ranks, NEW e, NEW W \in SUBSET Ranks, NEW D, Returning(f, e, W, D), NodesSame,
           UNCHANGED controllerVars, faults' = faults, epoch' = epoch,
           \A q \in W : Inside(q)',
           \A q \in Ranks \ (W \cup {f}) : Returns(q, e)', f \notin W => Restarts(f, e)'
    PROVE  Returning(f, e, W, D)'
<1>1. Filling(W, D)'
  BY FillingKept DEF Returning, NodesSame, SameNode
<1>2. \A r \in Ranks : NodeOf[r] \in Nodes
  BY Finiteness
<1>3. <<Commit(e)>>' = <<Commit(e)>>
  BY DEF Commit
<1>. QED
  BY <1>1, <1>2, <1>3 DEF Returning, NodesSame, SameNode, NoReports, NoSuccess, Started, Failed, Level,
                    controllerVars, None

\* The decision reaches a node.
LEMMA ReturningCommits ==
    ASSUME TypeOK, EpochsInOrder, NEW f \in Ranks, NEW e \in Nat, NEW W \in SUBSET Ranks,
           NEW D \in SUBSET Nodes, Returning(f, e, W, D),
           NEW n \in Nodes, NodeHead(n), process_commit(n), head_in[n] = <<Commit(e)>>
    PROVE  UNCHANGED <<controllerVars, head_state>> /\ Returning(f, e, W, D)'
<1>0. /\ \A q \in W : NodeOf[q] # n
      /\ NodeOf[f] = n => Settled(f, TryReload, <<>>)
      /\ \A q \in Ranks \ {f} : NodeOf[q] = n => Recovering(q, <<>>, <<>>)
  BY DEF Returning, Returns, Restarts
<1>1. /\ DecisionTaken(n) /\ UNCHANGED <<head_state, head_out>>
      /\ \A q \in Survivors(n, f) : Recovering(q, <<>>, <<Commit(e)>>)'
      /\ NodeOf[f] = n => Settled(f, TryReload, <<[type |-> "restart", epoch |-> e]>>)'
  <2>1. fault_daemons[n] = IF n = NodeOf[f] THEN {f} ELSE {}
    BY DEF Returning, Failed
  <2>2. \A q \in Survivors(n, f) : Recovering(q, <<>>, <<>>)
    BY <1>0 DEF Survivors, LocalRanks
  <2>3. NodeOf[f] = n => Settled(f, TryReload, <<>>)
    BY <1>0
  <2>. QED  BY <2>1, <2>2, <2>3, HeadCommits
<1>2. /\ head_in'[n] = <<>> /\ \A m \in Nodes \ {n} : head_in'[m] = head_in[m]
      /\ \A q \in Ranks : NodeOf[q] # n => SameRank(q)
  BY <1>1 DEF DecisionTaken, SameNode
<1>3. \A q \in W : Inside(q)' /\ head_in'[NodeOf[q]] = <<>>
  BY <1>0, <1>2, RankSame, Finiteness DEF Returning, Filling
<1>4. ASSUME NEW q \in Ranks \ (W \cup {f}) PROVE Returns(q, e)'
  <2>1. CASE NodeOf[q] = n
    BY <1>1, <1>2, <2>1 DEF Returns, Survivors, LocalRanks
  <2>2. CASE NodeOf[q] # n
    BY <1>2, <2>2, Finiteness, ReturnsKept DEF Returning
  <2>. QED  BY <2>1, <2>2
<1>5. ASSUME f \notin W PROVE Restarts(f, e)'
  <2>1. CASE NodeOf[f] = n
    <3>1. Settled(f, TryReload, <<[type |-> "restart", epoch |-> e]>>)'
      BY <1>1, <2>1
    <3>. QED  BY <1>2, <2>1, <3>1 DEF Restarts, TryReload
  <2>2. CASE NodeOf[f] # n
    BY <1>2, <1>5, <2>2, Finiteness, ReturnsKept DEF Returning
  <2>. QED  BY <2>1, <2>2
<1>6. Filling(W, D)'
  BY <1>1, <1>3, FillingKept DEF Returning, DecisionTaken
<1>7. \A m \in Nodes : head_in'[m] \in {<<>>, <<Commit(e)>>'}
  BY <1>2 DEF Returning, Commit
<1>8. Returning(f, e, W, D)'
  BY <1>1, <1>3, <1>4, <1>5, <1>6, <1>7
     DEF Returning, DecisionTaken, NoReports, NoSuccess, Started, Failed, Level, controllerVars, None
<1>. QED
  BY <1>1, <1>8 DEF DecisionTaken

LEMMA ReturningStep ==
    ASSUME QuietCase, TypeOK, DurableInv, EpochsInOrder, AllUp, [Next]_vars, NEW f \in Ranks,
           NEW e \in Nat, NEW W \in SUBSET Ranks, NEW D \in SUBSET Nodes, Returning(f, e, W, D)
    PROVE  /\ AllUp'
           /\ \/ \E W2 \in SUBSET Ranks, D2 \in SUBSET Nodes : Returning(f, e, W2, D2)'
              \/ Open(e)' /\ \A r \in Ranks : Inside(r) /\ Inside(r)'
<1>0. Filling(W, D) /\ (\A q \in W : Inside(q)) /\ \A q \in Ranks : epoch[q] = e /\ NodeOf[q] \in Nodes
  BY Finiteness DEF Returning, Filling, Level
<1>1. ASSUME NEW r \in Ranks, Own(r) PROVE AllUp' /\ Returning(f, e, W, D)'
  <2>1. r \notin W /\ ~Knocking(r)
    BY <1>0, <1>1, WaitingStays
  <2>2. <<Commit(e)>>' = <<Commit(e)>> /\ TryReload' = TryReload
    BY DEF Commit, TryReload
  <2>3. ASSUME r # f PROVE Quietly(r) /\ Returns(r, e)'
    <3>1. CASE head_in[NodeOf[r]] = <<>>
      <4>1. Recovering(r, <<>>, <<Commit(e)>>)
        BY <2>1, <2>3, <3>1 DEF Returning, Returns
      <4>2. Quietly(r) /\ (Recovering(r, <<>>, <<Commit(e)>>)' \/ Knocking(r)')
        <5>1. PICK in : in = <<Commit(e)>>
          OBVIOUS
        <5>2. Quietly(r) /\ (Recovering(r, <<>>, in)' \/ Knocking(r)')
          BY <1>0, <1>1, <4>1, <5>1, RecoveringMoves
        <5>. QED  BY <2>2, <5>1, <5>2
      <4>3. head_in'[NodeOf[r]] = <<>>
        BY <1>0, <3>1, <4>2 DEF Quietly, RankAlone, NodesSame, SameNode
      <4>. QED  BY <4>2, <4>3 DEF Returns
    <3>2. CASE head_in[NodeOf[r]] # <<>>
      <4>1. Recovering(r, <<>>, <<>>)
        BY <2>1, <2>3, <3>2 DEF Returning, Returns
      <4>2. Quietly(r) /\ Recovering(r, <<>>, <<>>)'
        BY <1>1, <4>1, RecoveringMoves
      <4>3. head_in'[NodeOf[r]] # <<>>
        BY <1>0, <3>2, <4>2 DEF Quietly, RankAlone, NodesSame, SameNode
      <4>. QED  BY <4>2, <4>3 DEF Returns
    <3>. QED  BY <3>1, <3>2
  <2>4. ASSUME r = f PROVE Quietly(f) /\ Restarts(f, e)'
    <3>1. CASE head_in[NodeOf[f]] = <<>>
      <4>1. Quietly(f) /\ (Launching(f)' \/ Knocking(f)')
        <5>1. CASE Launching(f)
          BY <1>1, <2>4, <5>1, LaunchingMoves
        <5>2. CASE Settled(f, TryReload, <<[type |-> "restart", epoch |-> e]>>)
          BY <1>0, <1>1, <2>4, <5>2, SettledMoves
        <5>. QED  BY <2>1, <2>4, <3>1, <5>1, <5>2 DEF Returning, Restarts
      <4>2. head_in'[NodeOf[f]] = <<>>
        BY <1>0, <3>1, <4>1 DEF Quietly, RankAlone, NodesSame, SameNode
      <4>. QED  BY <4>1, <4>2 DEF Restarts
    <3>2. CASE head_in[NodeOf[f]] # <<>>
      BY <1>1, <2>1, <2>4, <3>2, SettledStays DEF Returning, Restarts
    <3>. QED  BY <3>1, <3>2
  <2>5. Quietly(r)
    BY <2>3, <2>4
  <2>6. \A q \in Ranks \ {r} : SameRank(q) /\ head_in'[NodeOf[q]] = head_in[NodeOf[q]]
    BY <1>0, <2>5 DEF Quietly, RankAlone, OthersSame, NodesSame, SameNode
  <2>7. /\ \A q \in W : Inside(q)'
        /\ \A q \in Ranks \ (W \cup {f}) : Returns(q, e)'
        /\ f \notin W => Restarts(f, e)'
    BY <1>0, <2>1, <2>3, <2>4, <2>6, RankSame, ReturnsKept DEF Returning
  <2>. QED  BY <2>5, <2>7, ReturningKept, UpKept DEF Quietly, RankAlone
<1>2. ASSUME NEW n \in Nodes, NodeHead(n)
      PROVE  AllUp' /\ \E W2 \in SUBSET Ranks : Returning(f, e, W2, D)'
  <2>1. ASSUME NEW r \in LocalRanks(n), rank_out[r] # <<>> \/ fd_out[r] # <<>>
        PROVE  /\ fd_out[r] = <<>> /\ Head(rank_out[r]).type = "barrier"
               /\ r \in Ranks \ W /\ NodeOf[r] = n /\ Knocking(r) /\ head_in[n] = <<>>
    <3>1. r \in Ranks \ W /\ NodeOf[r] = n
      BY <1>0, <2>1, SilentRanks DEF Silent, LocalRanks
    <3>2. Knocking(r) /\ head_in[n] = <<>>
      BY <2>1, <3>1, SilentRanks DEF Returning, Returns, Restarts, Silent
    <3>. QED  BY <3>1, <3>2, SilentRanks
  <2>2. CASE head_in[n] # <<>>
    <3>1. head_in[n] = <<Commit(e)>> /\ Head(head_in[n]).type = "commit"
      BY <2>2 DEF Returning, Commit
    <3>2. process_commit(n)
      BY <1>2, <2>1, <2>2, <3>1, HeadTakes DEF Receives
    <3>3. UNCHANGED <<controllerVars, head_state>> /\ Returning(f, e, W, D)'
      BY <1>2, <3>1, <3>2, ReturningCommits
    <3>. QED  BY <3>3 DEF AllUp, controllerVars
  <2>3. CASE head_in[n] = <<>>
    <3>1. PICK r \in LocalRanks(n) : process_barrier(r) /\ rank_out[r] # <<>>
      BY <1>2, <2>1, <2>3, HeadTakes DEF Receives
    <3>2. r \in Ranks \ W /\ NodeOf[r] = n /\ Knocking(r)
      BY <2>1, <3>1
    <3>3. /\ W \cup {r} \in SUBSET Ranks /\ Filling(W \cup {r}, D)'
          /\ OthersSame(r) /\ Inside(r)' /\ epoch' = epoch
          /\ UNCHANGED <<controllerVars, faults, pid, proc, pc>>
          /\ UNCHANGED <<head_state, head_in, fault_daemons, success_counter, cleanups,
                         node_minimum_epoch>>
      BY <1>0, <1>2, <3>1, <3>2, FillingCounts
    <3>4. \A q \in Ranks \ {r} : SameRank(q) /\ head_in'[NodeOf[q]] = head_in[NodeOf[q]]
      BY <3>3 DEF OthersSame
    <3>5. /\ \A q \in Ranks \ ((W \cup {r}) \cup {f}) : Returns(q, e)'
          /\ f \notin W \cup {r} => Restarts(f, e)'
      BY <3>4, ReturnsKept DEF Returning
    <3>6. /\ \A q \in W \cup {r} : head_in'[NodeOf[q]] = <<>>
          /\ \A m \in Nodes : head_in'[m] \in {<<>>, <<Commit(e)>>'}
      BY <2>3, <3>2, <3>3 DEF Returning, Commit
    <3>7. Returning(f, e, W \cup {r}, D)'
      BY <3>3, <3>5, <3>6 DEF Returning, NoReports, NoSuccess, Started, Failed, Level,
                              controllerVars, None
    <3>. QED  BY <3>3, <3>7 DEF AllUp, controllerVars
  <2>. QED  BY <2>2, <2>3
<1>3. ASSUME Controller
      PROVE  /\ AllUp'
             /\ \/ \E D2 \in SUBSET Nodes : Returning(f, e, W, D2)'
                \/ Open(e)' /\ \A r \in Ranks : Inside(r) /\ Inside(r)'
  <2>1. /\ RanksSame
        /\ UNCHANGED <<rankNet, fdNet, osVars, rankVars, faultDaemonVars, headVars>>
        /\ UNCHANGED <<controller, node_successes, node_epochs, global_minimum_epoch>>
        /\ Started'
        /\ \/ /\ \E D2 \in SUBSET Nodes : Filling(W, D2)'
              /\ UNCHANGED head_in
           \/ /\ W = Ranks /\ Started' /\ NoBarrier' /\ \A m \in Nodes : head_out'[m] = <<>>
              /\ \A m \in Nodes : head_in'[m] = Append(head_in[m], Release)
    BY <1>0, <1>3, FillingDecides DEF Returning
  <2>2. AllUp' /\ NoReports' /\ NoSuccess' /\ Failed(f)' /\ Level(e)'
    BY <2>1 DEF AllUp, headVars, rankVars, Returning, NoReports, NoSuccess, Level, None, Failed
  <2>3. ASSUME NEW D2 \in SUBSET Nodes, Filling(W, D2)', UNCHANGED head_in
        PROVE  Returning(f, e, W, D2)'
    <3>1. /\ \A q \in Ranks \ (W \cup {f}) : Returns(q, e)'
          /\ f \notin W => Restarts(f, e)'
      BY <2>1, <2>3, ReturnsKept DEF Returning, RanksSame
    <3>2. \A m \in Nodes : head_in'[m] \in {<<>>, <<Commit(e)>>'}
      BY <2>3 DEF Returning, Commit
    <3>. QED  BY <2>1, <2>2, <2>3, <3>1, <3>2 DEF Returning
  <2>4. ASSUME W = Ranks, Started', NoBarrier', \A m \in Nodes : head_out'[m] = <<>>,
               \A m \in Nodes : head_in'[m] = Append(head_in[m], Release)
        PROVE  Open(e)' /\ \A r \in Ranks : Inside(r) /\ Inside(r)'
    <3>1. \A r \in Ranks : Inside(r) /\ Inside(r)'
      BY <1>0, <2>1, <2>4, RankSame DEF RanksSame
    <3>2. ASSUME NEW m \in Nodes PROVE head_in'[m] = <<Release>>'
      <4>1. head_in[m] = <<>>
        BY <2>4, LayoutAssumption DEF Returning
      <4>. QED  BY <2>4, <4>1 DEF Release
    <3>3. \A m \in Nodes : fault_daemons'[m] \subseteq LocalRanks(m)
      BY <2>2 DEF Failed, LocalRanks
    <3>4. faults' # 0
      BY <2>2 DEF Failed
    <3>. QED  BY <1>0, <2>2, <2>4, <3>1, <3>2, <3>3, <3>4 DEF Open, Level
  <2>. QED  BY <2>1, <2>2, <2>3, <2>4
<1>4. ASSUME UNCHANGED vars PROVE AllUp' /\ Returning(f, e, W, D)'
  <2>1. Idle /\ \A q \in Ranks : SameRank(q) /\ head_in'[NodeOf[q]] = head_in[NodeOf[q]]
    BY <1>0, <1>4, Stutter DEF Idle, RanksSame, NodesSame, SameNode
  <2>2. /\ \A q \in W : Inside(q)'
        /\ \A q \in Ranks \ (W \cup {f}) : Returns(q, e)'
        /\ f \notin W => Restarts(f, e)'
    BY <1>0, <2>1, RankSame, ReturnsKept DEF Returning
  <2>. QED  BY <2>1, <2>2, ReturningKept, UpKept DEF Idle
<1>. QED
  BY <1>1, <1>2, <1>3, <1>4, Steps

\* Once a process has finished, the others have nothing left but to finish.
LEMMA EndingEnds ==
    ASSUME QuietCase, TypeOK, NEW r \in Ranks, Own(r), Ending(r), epoch[r] >= LastEpoch,
           NEW d \in Ranks, proc[d] # "alive"
    PROVE  Quietly(r) /\ (Ending(r)' \/ Exited(r, Success)')
<1>1. ~Failure(r)
  BY DEF QuietCase, Failure, Fail, MayFail, At
<1>2. /\ Rank(r)
      /\ \/ pc[r] = "run" /\ (checkpoint_write_open(r) \/ MPI_Finalize(r))
         \/ checkpoint_write_close(r)
  BY <1>1, LivingSteps, StepsByPlace DEF Ending, Computing, Calm, InBarrier
<1>3. CASE checkpoint_write_close(r)
  <2>1. RankAlone(r) /\ Computing(r)' /\ faults' = faults
    BY <1>2, <1>3, ComputeStep DEF Ending
  <2>2. pc'[r] = "run" /\ epoch' = epoch
    BY <1>3, RankTypes DEF checkpoint_write_close, Goto
  <2>. QED  BY <2>1, <2>2 DEF Ending, Quietly
<1>4. CASE pc[r] = "run" /\ (checkpoint_write_open(r) \/ MPI_Finalize(r))
  <2>1. MPI_Finalize(r) /\ Running(r)
    BY <1>4, RankTypes, ApplicationAssumption DEF checkpoint_write_open, Ending, Running
  <2>. QED  BY <1>2, <2>1, ExitStep DEF Rank, MPI_Finalize, rankVars, Quietly
<1>. QED
  BY <1>2, <1>3, <1>4

Finishes(r) == Ending(r) \/ Exited(r, Success) \/ Reported(r, Success)
LEMMA FinishesKept ==
    ASSUME NEW r, SameRank(r)
    PROVE  /\ Finishes(r) => Finishes(r)'
           /\ Settled(r, Success, <<>>) => Settled(r, Success, <<>>)'
           /\ proc[r] # "alive" => proc'[r] # "alive"
<1>1. Success' = Success
  BY DEF Success
<1>. QED
  BY <1>1, RankSame DEF Finishes, SameRank

LEMMA FinishingKept ==
    ASSUME NEW E, NEW D, Finishing(E, D), NodesSame, UNCHANGED controllerVars, epoch' = epoch,
           \E r \in Ranks : proc'[r] # "alive",
           \A r \in E : Settled(r, Success, <<>>)', \A r \in Ranks \ E : Finishes(r)'
    PROVE  Finishing(E, D)'
<1>1. NoReports' /\ NoBarrier' /\ Started' /\ node_successes' = node_successes
  BY DEF Finishing, NodesSame, SameNode, NoReports, NoBarrier, Started, controllerVars, None
<1>2. \A n \in Nodes : /\ head_in'[n] = head_in[n] /\ fault_daemons'[n] = fault_daemons[n]
                       /\ success_counter'[n] = success_counter[n] /\ head_out'[n] = head_out[n]
  BY DEF NodesSame, SameNode
<1>3. \A n \in Nodes : LocalRanks(n)' = LocalRanks(n)
  BY DEF LocalRanks
<1>. QED
  BY <1>1, <1>2, <1>3 DEF Finishing, Finishes, Success

\* A head counts a process that has finished.
LEMMA FinishingCounts ==
    ASSUME TypeOK, EpochsInOrder, NEW E \in SUBSET Ranks, NEW D \in SUBSET Nodes, Finishing(E, D),
           NEW n \in Nodes, NodeHead(n), NEW r \in Ranks \ E, NodeOf[r] = n, process_termination(r),
           Reported(r, Success)
    PROVE  UNCHANGED <<controllerVars, head_state>> /\ Finishing(E \cup {r}, D)'
<1>. DEFINE S == E \cap LocalRanks(n)
            complete == success_counter[n] + 1 = local_rank_count(n)
<1>1. r \in LocalRanks(n) /\ r \notin S /\ S \subseteq LocalRanks(n) /\ IsFiniteSet(LocalRanks(n))
  BY Finiteness
<1>2. /\ Cardinality(S) + 1 = local_rank_count(n) <=> S \cup {r} = LocalRanks(n)
      /\ Cardinality(S \cup {r}) = Cardinality(S) + 1
  <2>. HIDE DEF S
  <2>. QED  BY <1>1, OneMore, Zenon DEF local_rank_count
<1>3. /\ (E \cup {r}) \cap LocalRanks(n) = S \cup {r}
      /\ S \cup {r} = LocalRanks(n) <=> LocalRanks(n) \subseteq E \cup {r}
      /\ ~(LocalRanks(n) \subseteq E)
  BY <1>1
<1>4. /\ success_counter[n] = Cardinality(S) /\ n \notin D /\ head_out[n] = <<>>
      /\ S \subseteq fault_daemons[n] /\ fault_daemons[n] \subseteq LocalRanks(n)
  BY <1>3 DEF Finishing
<1>5. /\ OthersSame(r) /\ Settled(r, Success, <<>>)' /\ epoch' = epoch /\ OtherNodesSame(n)
      /\ UNCHANGED <<controllerVars, faults, pid, proc, pc>>
      /\ UNCHANGED <<head_state, head_in, cleanups, node_minimum_epoch, barrier_count>>
      /\ fault_daemons'[n] = fault_daemons[n] \cup {r}
      /\ success_counter'[n] = IF complete THEN 0 ELSE success_counter[n] + 1
      /\ head_out'[n] = IF complete THEN Append(head_out[n], [type |-> "node_success"])
                        ELSE head_out[n]
  <2>1. NodeHead(NodeOf[r])
    OBVIOUS
  <2>. QED  BY <2>1, HeadTakesTermination
<1>6. complete <=> LocalRanks(n) \subseteq E \cup {r}
  BY <1>2, <1>3, <1>4
<1>7. ASSUME NEW m \in Nodes
      PROVE  /\ head_in'[m] = <<>>
             /\ (E \cup {r}) \cap LocalRanks(m) \subseteq fault_daemons'[m]
             /\ fault_daemons'[m] \subseteq LocalRanks(m)
             /\ IF LocalRanks(m) \subseteq E \cup {r}
                THEN /\ success_counter'[m] = 0
                     /\ head_out'[m] = IF m \in D THEN <<>> ELSE <<[type |-> "node_success"]>>
                ELSE /\ m \notin D /\ head_out'[m] = <<>>
                     /\ success_counter'[m] = Cardinality((E \cup {r}) \cap LocalRanks(m))
  <2>1. CASE m = n
    <3>1. /\ head_in'[n] = <<>> /\ (E \cup {r}) \cap LocalRanks(n) \subseteq fault_daemons'[n]
          /\ fault_daemons'[n] \subseteq LocalRanks(n)
      BY <1>1, <1>3, <1>4, <1>5 DEF Finishing
    <3>2. IF LocalRanks(n) \subseteq E \cup {r}
          THEN success_counter'[n] = 0 /\ head_out'[n] = <<[type |-> "node_success"]>>
          ELSE /\ head_out'[n] = <<>>
               /\ success_counter'[n] = Cardinality((E \cup {r}) \cap LocalRanks(n))
      <4>1. CASE LocalRanks(n) \subseteq E \cup {r}
        <5>1. success_counter'[n] = 0 /\ head_out'[n] = Append(head_out[n], [type |-> "node_success"])
          BY <1>5, <1>6, <4>1
        <5>. QED  BY <1>4, <4>1, <5>1
      <4>2. CASE ~(LocalRanks(n) \subseteq E \cup {r})
        <5>1. success_counter'[n] = success_counter[n] + 1 /\ head_out'[n] = head_out[n]
          BY <1>5, <1>6, <4>2
        <5>. QED  BY <1>2, <1>3, <1>4, <4>2, <5>1
      <4>. QED  BY <4>1, <4>2
    <3>. QED  BY <1>4, <2>1, <3>1, <3>2
  <2>2. CASE m # n
    <3>1. r \notin LocalRanks(m) /\ SameNode(m)
      BY <1>5, <2>2 DEF LocalRanks, OtherNodesSame
    <3>2. /\ LocalRanks(m) \subseteq E \cup {r} <=> LocalRanks(m) \subseteq E
          /\ (E \cup {r}) \cap LocalRanks(m) = E \cap LocalRanks(m)
      BY <3>1
    <3>. QED  BY <1>5, <3>1, <3>2 DEF Finishing, SameNode
  <2>. QED  BY <2>1, <2>2
<1>8. /\ \A q \in E \cup {r} : Settled(q, Success, <<>>)'
      /\ \A q \in Ranks \ (E \cup {r}) : Finishes(q)'
  BY <1>5, FinishesKept DEF OthersSame, Finishing, Finishes
<1>9. \E q \in Ranks : proc'[q] # "alive"
  BY <1>5 DEF Finishing
<1>10. Finishing(E \cup {r}, D)'
  <2>. HIDE DEF complete
  <2>. QED  BY <1>5, <1>7, <1>8, <1>9
               DEF Finishing, Finishes, NoReports, NoBarrier, Started, controllerVars, None, Success
<1>. QED
  BY <1>5, <1>10

\* The controller counts a node, and shuts the job down with the last one.
LEMMA FinishingDecides ==
    ASSUME TypeOK, NEW E \in SUBSET Ranks, NEW D \in SUBSET Nodes, Finishing(E, D), Controller
    PROVE  /\ UNCHANGED <<controller, head_state>>
           /\ \/ \E D2 \in SUBSET Nodes : Finishing(E, D2)'
              \/ Stopping'
<1>. USE NodeTypes
<1>0. ASSUME NEW m \in Nodes, head_out[m] # <<>>
      PROVE  /\ m \notin D /\ head_out[m] = <<[type |-> "node_success"]>>
             /\ LocalRanks(m) \subseteq E
  BY <1>0 DEF Finishing
<1>1. PICK n \in Nodes : node_success(n) /\ Takes(n, "node_success") /\ head_out[n] # <<>>
  <2>1. ASSUME NEW m \in Nodes, head_out[m] # <<>> PROVE Head(head_out[m]).type = "node_success"
    BY <1>0, <2>1
  <2>. QED  BY <2>1, ControllerActs DEF Receives
<1>2. /\ RanksSame /\ head_out' = [head_out EXCEPT ![n] = Tail(@)]
      /\ UNCHANGED <<rankNet, fdNet, osVars, rankVars, faultDaemonVars, headVars>>
  BY <1>1, ControllerTakes
<1>3. n \in Nodes \ D /\ LocalRanks(n) \subseteq E /\ head_out'[n] = <<>>
  <2>1. n \notin D /\ head_out[n] = <<[type |-> "node_success"]>> /\ LocalRanks(n) \subseteq E
    BY <1>0, <1>1
  <2>2. head_out'[n] = Tail(head_out[n])
    BY <1>2
  <2>. QED  BY <2>1, <2>2
<1>4. /\ Cardinality(D) + 1 = NodeCount <=> D \cup {n} = Nodes
      /\ Cardinality(D \cup {n}) = Cardinality(D) + 1
  BY <1>3, Finiteness, OneMore, Zenon DEF NodeCount
<1>5. /\ UNCHANGED <<controller, head_daemons, head_daemon_count, node_epochs, global_minimum_epoch>>
      /\ \/ /\ D \cup {n} = Nodes
            /\ head_in' = PushAll(head_in, Nodes, [type |-> "shutdown"])
         \/ /\ D \cup {n} # Nodes /\ node_successes' = Cardinality(D \cup {n}) /\ UNCHANGED head_in
  <2>1. node_successes = Cardinality(D) /\ head_daemons = Nodes
    BY DEF Finishing, Started
  <2>. QED  BY <1>1, <1>4, <2>1 DEF node_success, AllNodesSucceeded, SendToHeadDaemons
<1>6. \A q \in Ranks : SameRank(q)
  BY <1>2 DEF RanksSame
<1>7. ASSUME D \cup {n} # Nodes PROVE Finishing(E, D \cup {n})'
  <2>1. ASSUME NEW m \in Nodes
        PROVE  IF LocalRanks(m) \subseteq E
               THEN /\ success_counter'[m] = 0
                    /\ head_out'[m] = IF m \in D \cup {n} THEN <<>> ELSE <<[type |-> "node_success"]>>
               ELSE /\ m \notin D \cup {n} /\ head_out'[m] = <<>>
                    /\ success_counter'[m] = Cardinality(E \cap LocalRanks(m))
    BY <1>2, <1>3 DEF Finishing, headVars
  <2>2. /\ NoReports' /\ NoBarrier' /\ Started' /\ node_successes' = Cardinality(D \cup {n})
        /\ \A m \in Nodes : head_in'[m] = <<>> /\ fault_daemons'[m] = fault_daemons[m]
    BY <1>2, <1>5, <1>7 DEF Finishing, NoReports, NoBarrier, Started, headVars, None
  <2>3. /\ \A r \in Ranks : epoch'[r] >= LastEpoch
        /\ \E r \in Ranks : proc'[r] # "alive"
    BY <1>6 DEF Finishing, SameRank
  <2>4. (\A q \in E : Settled(q, Success, <<>>)') /\ \A q \in Ranks \ E : Finishes(q)'
    BY <1>6, FinishesKept DEF Finishing, Finishes
  <2>. QED  BY <1>7, <2>1, <2>2, <2>3, <2>4 DEF Finishing, Finishes, Success
<1>8. ASSUME D \cup {n} = Nodes PROVE Stopping'
  <2>1. ASSUME NEW m \in Nodes
        PROVE  /\ LocalRanks(m) \subseteq E /\ head_out'[m] = <<>>
               /\ head_in'[m] = <<[type |-> "shutdown"]>>
    <3>1. head_in'[m] = Append(head_in[m], [type |-> "shutdown"]) /\ head_in[m] = <<>>
      BY <1>5, <1>8, SentToAll DEF Finishing
    <3>2. head_in'[m] = <<[type |-> "shutdown"]>>
      BY <3>1
    <3>3. CASE m = n
      BY <1>3, <3>2, <3>3
    <3>4. CASE m # n
      <4>1. m \in D /\ head_out'[m] = head_out[m]
        BY <1>2, <1>8, <3>4
      <4>. QED  BY <3>2, <4>1 DEF Finishing
    <3>. QED  BY <3>3, <3>4
  <2>2. ASSUME NEW q \in Ranks PROVE Settled(q, Success, <<>>) /\ SameRank(q)
    BY <1>6, <2>1, Finiteness DEF Finishing
  <2>3. ASSUME NEW q \in Ranks
        PROVE  /\ proc'[q] = "reaped" /\ exit_code'[q] = Success /\ Linked(q, <<>>, <<>>)'
               /\ fault_daemon'[q] # "app" /\ fd_in'[q] = <<>> /\ fd_out'[q] = <<>>
    BY <2>2 DEF Settled, Ended, SameRank, Linked
  <2>4. /\ <<>> \in Seq([type : {"shutdown"}]) /\ <<>> \in Seq([type : {"shutdown_ack"}])
        /\ <<>> \in Seq([type : {"node_shutdown"}])
        /\ <<[type |-> "shutdown"]>> \in Seq([type : {"shutdown"}])
    OBVIOUS
  <2>5. /\ DOMAIN fd_in' = Ranks /\ fd_in' = [q \in DOMAIN fd_in' |-> fd_in'[q]]
        /\ DOMAIN fd_out' = Ranks /\ fd_out' = [q \in DOMAIN fd_out' |-> fd_out'[q]]
    BY <1>2, RankTypes DEF fdNet
  <2>6. /\ DOMAIN head_in' = Nodes /\ head_in' = [m \in DOMAIN head_in' |-> head_in'[m]]
        /\ DOMAIN head_out' = Nodes /\ head_out' = [m \in DOMAIN head_out' |-> head_out'[m]]
    BY <1>2, <1>5, <1>8 DEF PushAll
  <2>7. /\ fd_in' \in [Ranks -> Seq([type : {"shutdown"}])]
        /\ fd_out' \in [Ranks -> Seq([type : {"shutdown_ack"}])]
    BY <2>3, <2>4, <2>5
  <2>8. /\ head_in' \in [Nodes -> Seq([type : {"shutdown"}])]
        /\ head_out' \in [Nodes -> Seq([type : {"node_shutdown"}])]
    BY <2>1, <2>4, <2>6
  <2>. QED  BY <2>3, <2>7, <2>8 DEF Stopping, Success
<1>. QED
  BY <1>2, <1>3, <1>5, <1>7, <1>8 DEF headVars

LEMMA FinishingStep ==
    ASSUME QuietCase, TypeOK, EpochsInOrder, AllUp, [Next]_vars,
           NEW E \in SUBSET Ranks, NEW D \in SUBSET Nodes, Finishing(E, D)
    PROVE  /\ AllUp'
           /\ \/ \E E2 \in SUBSET Ranks, D2 \in SUBSET Nodes : Finishing(E2, D2)'
              \/ Stopping'
<1>0. /\ \A q \in E : Settled(q, Success, <<>>)
      /\ \A q \in Ranks \ E : Finishes(q)
      /\ \A q \in Ranks : epoch[q] >= LastEpoch
  BY DEF Finishing, Finishes
<1>d. PICK d \in Ranks : proc[d] # "alive"
  BY DEF Finishing
<1>1. ASSUME NEW r \in Ranks, Own(r) PROVE AllUp' /\ Finishing(E, D)'
  <2>1. r \notin E /\ (Ending(r) \/ Exited(r, Success))
    BY <1>0, <1>1, SettledStays DEF Finishes
  <2>2. Quietly(r) /\ (Ending(r)' \/ Exited(r, Success)' \/ Reported(r, Success)')
    BY <1>0, <1>1, <1>d, <2>1, EndingEnds, ExitedMoves
  <2>3. Finishes(r)' /\ \A q \in Ranks \ {r} : SameRank(q)
    BY <2>2 DEF Quietly, RankAlone, OthersSame, Finishes, Success
  <2>4. \E q \in Ranks : proc'[q] # "alive"
    <3>1. CASE d = r
      <4>1. ~Ending(d)
        BY <1>d DEF Ending, Computing, Living
      <4>2. Exited(r, Success)
        BY <2>1, <3>1, <4>1
      <4>. QED  BY <1>1, <3>1, <4>2, ExitedMoves DEF Reported
    <3>2. CASE d # r
      BY <1>d, <2>3, <3>2 DEF SameRank
    <3>. QED  BY <3>1, <3>2
  <2>5. (\A q \in E : Settled(q, Success, <<>>)') /\ \A q \in Ranks \ E : Finishes(q)'
    BY <1>0, <2>1, <2>3, FinishesKept
  <2>. QED  BY <2>2, <2>4, <2>5, FinishingKept, UpKept DEF Quietly, RankAlone
<1>2. ASSUME NEW n \in Nodes, NodeHead(n)
      PROVE  AllUp' /\ \E E2 \in SUBSET Ranks : Finishing(E2, D)'
  <2>1. ASSUME NEW r \in LocalRanks(n), rank_out[r] # <<>> \/ fd_out[r] # <<>>
        PROVE  /\ rank_out[r] = <<>> /\ Head(fd_out[r]).type = "termination"
               /\ r \in Ranks \ E /\ NodeOf[r] = n /\ Reported(r, Success)
    BY <1>0, <2>1, SilentRanks DEF Silent, LocalRanks, Finishes, Ending
  <2>2. PICK r \in LocalRanks(n) : process_termination(r) /\ fd_out[r] # <<>>
    BY <1>2, <2>1, HeadTakes DEF Finishing, Receives
  <2>3. r \in Ranks \ E /\ NodeOf[r] = n /\ Reported(r, Success)
    BY <2>1, <2>2
  <2>4. UNCHANGED <<controllerVars, head_state>> /\ Finishing(E \cup {r}, D)'
    BY <1>2, <2>2, <2>3, FinishingCounts
  <2>. QED  BY <2>3, <2>4 DEF AllUp, controllerVars
<1>3. ASSUME Controller
      PROVE  AllUp' /\ ((\E D2 \in SUBSET Nodes : Finishing(E, D2)') \/ Stopping')
  BY <1>3, FinishingDecides DEF AllUp
<1>4. ASSUME UNCHANGED vars PROVE AllUp' /\ Finishing(E, D)'
  <2>1. Idle /\ \A q \in Ranks : SameRank(q)
    BY <1>4, Stutter DEF Idle, RanksSame
  <2>2. /\ \A q \in E : Settled(q, Success, <<>>)'
        /\ \A q \in Ranks \ E : Finishes(q)'
        /\ proc'[d] # "alive"
    BY <1>0, <1>d, <2>1, FinishesKept
  <2>. QED  BY <2>1, <2>2, FinishingKept, UpKept DEF Idle
<1>. QED
  BY <1>1, <1>2, <1>3, <1>4, Steps

\* A connection that carries packets of one type delivers one of that type.
LEMMA HeadIs ==
    ASSUME NEW t, NEW s \in Seq([type : {t}]), s # <<>>
    PROVE  Head(s).type = t
<1>1. ASSUME NEW S, NEW z \in Seq(S), z # <<>> PROVE Head(z) \in S
  BY <1>1
<1>2. Head(s) \in [type : {t}]
  BY <1>1, Zenon
<1>. QED  BY <1>2

\* The daemons stop one another, and nothing else is under way.
LEMMA StoppingStep ==
    ASSUME TypeOK, Intact, [Next]_vars, Stopping
    PROVE  Intact' /\ Stopping'
<1>. USE RankTypes, NodeTypes
<1>0. /\ \A q \in Ranks : fd_in[q] # <<>> => Head(fd_in[q]).type = "shutdown"
      /\ \A q \in Ranks : fd_out[q] # <<>> => Head(fd_out[q]).type = "shutdown_ack"
      /\ \A m \in Nodes : head_in[m] # <<>> => Head(head_in[m]).type = "shutdown"
      /\ \A m \in Nodes : head_out[m] # <<>> => Head(head_out[m]).type = "node_shutdown"
      /\ \A q \in Ranks : rank_out[q] = <<>> /\ fault_daemon[q] # "app"
  <2>1. \A q \in Ranks : fd_in[q] # <<>> => Head(fd_in[q]).type = "shutdown"
    BY HeadIs DEF Stopping
  <2>2. \A q \in Ranks : fd_out[q] # <<>> => Head(fd_out[q]).type = "shutdown_ack"
    BY HeadIs DEF Stopping
  <2>3. \A m \in Nodes : head_in[m] # <<>> => Head(head_in[m]).type = "shutdown"
    BY HeadIs DEF Stopping
  <2>4. \A m \in Nodes : head_out[m] # <<>> => Head(head_out[m]).type = "node_shutdown"
    BY HeadIs DEF Stopping
  <2>5. \A q \in Ranks : rank_out[q] = <<>> /\ fault_daemon[q] # "app"
    BY DEF Stopping, Linked
  <2>. QED  BY <2>1, <2>2, <2>3, <2>4, <2>5
<1>1. ASSUME NEW r \in Ranks, Own(r) PROVE Intact' /\ Stopping'
  <2>1. Monitor(r)
    BY <1>1, DeadSteps DEF Stopping
  <2>2. shutdown_ack(r) /\ UNCHANGED <<headVars, controllerVars>>
    BY <1>0, <2>1 DEF Monitor, FaultDaemonStep, inform_head, restart, Receives
  <2>3. /\ fd_in' = Pop(fd_in, r) /\ fd_in[r] # <<>>
        /\ fd_out' = Push(fd_out, r, [type |-> "shutdown_ack"])
        /\ fault_daemon' = [fault_daemon EXCEPT ![r] = "stopped"]
        /\ UNCHANGED <<rankNet, headNet, osVars>>
    BY <2>2 DEF shutdown_ack, Receives
  <2>4. fd_in' \in [Ranks -> Seq([type : {"shutdown"}])]
    BY <2>3, PopType DEF Stopping
  <2>5. fd_out' \in [Ranks -> Seq([type : {"shutdown_ack"}])]
    BY <2>3, PushType DEF Stopping
  <2>6. Stopping'
    BY <2>3, <2>4, <2>5 DEF Stopping, rankNet, headNet, osVars, Linked, Success
  <2>. QED  BY <2>2, <2>6 DEF Intact, headVars, controllerVars
<1>2. ASSUME NEW n \in Nodes, NodeHead(n) PROVE Intact' /\ Stopping'
  <2>0. UNCHANGED <<rankVars, faultDaemonVars, controllerVars>>
    BY <1>2 DEF NodeHead
  <2>1. CASE process_shutdown(n)
    <3>1. /\ head_in' = Pop(head_in, n) /\ head_in[n] # <<>>
          /\ fd_in' = PushAll(fd_in, fault_daemons[n], [type |-> "shutdown"])
          /\ UNCHANGED <<rankNet, fd_out, head_out, osVars, headVars>>
      BY <2>1 DEF process_shutdown, Receives
    <3>2. head_in' \in [Nodes -> Seq([type : {"shutdown"}])]
      BY <3>1, PopType DEF Stopping
    <3>3. fd_in' \in [Ranks -> Seq([type : {"shutdown"}])]
      BY <3>1, PushAllType DEF Stopping
    <3>. QED  BY <2>0, <3>1, <3>2, <3>3
              DEF Stopping, rankNet, osVars, Linked, Success, Intact, headVars, controllerVars,
                  faultDaemonVars
  <2>2. ASSUME NEW r \in LocalRanks(n), process_shutdown_ack(r) PROVE Intact' /\ Stopping'
    <3>1. r \in Ranks /\ NodeOf[r] = n
      BY DEF LocalRanks
    <3>2. /\ fd_out' = Pop(fd_out, r) /\ fd_out[r] # <<>>
          /\ \/ UNCHANGED <<head_out, head_state>>
             \/ /\ head_out' = Push(head_out, n, [type |-> "node_shutdown"])
                /\ head_state' = [head_state EXCEPT ![n] = "stopped"]
          /\ UNCHANGED <<rankNet, fd_in, head_in, osVars>>
      BY <2>2, <3>1 DEF process_shutdown_ack, Receives, SendToController
    <3>3. fd_out' \in [Ranks -> Seq([type : {"shutdown_ack"}])]
      BY <3>1, <3>2, PopType DEF Stopping
    <3>4. head_out' \in [Nodes -> Seq([type : {"node_shutdown"}])]
      <4>1. [type |-> "node_shutdown"] \in [type : {"node_shutdown"}]
        OBVIOUS
      <4>2. Push(head_out, n, [type |-> "node_shutdown"]) \in [Nodes -> Seq([type : {"node_shutdown"}])]
        BY <4>1, PushType DEF Stopping
      <4>. QED  BY <3>2, <4>2 DEF Stopping
    <3>5. Stopping'
      BY <2>0, <3>2, <3>3, <3>4 DEF Stopping, rankNet, osVars, Linked, Success, faultDaemonVars
    <3>6. \A m \in Nodes : head_state'[m] \in {head_state[m], "stopped"}
      BY <3>2
    <3>. QED  BY <2>0, <3>5, <3>6 DEF Intact, controllerVars
  <2>. QED  BY <1>0, <1>2, <2>1, <2>2, HeadTakes, Finiteness DEF Receives
<1>3. ASSUME Controller PROVE Intact' /\ Stopping'
  <2>1. PICK n \in Nodes : node_shutdown(n) /\ Takes(n, "node_shutdown") /\ head_out[n] # <<>>
    BY <1>0, <1>3, ControllerActs DEF Receives
  <2>2. /\ head_out' = Pop(head_out, n) /\ UNCHANGED head_in
        /\ controller' \in {controller, "stopped"}
        /\ UNCHANGED <<rankNet, fdNet, osVars, rankVars, faultDaemonVars, headVars>>
    BY <1>3, <2>1 DEF Controller, node_shutdown, Takes
  <2>3. head_out' \in [Nodes -> Seq([type : {"node_shutdown"}])]
    BY <2>1, <2>2, PopType DEF Stopping
  <2>. QED  BY <2>2, <2>3 DEF Stopping, rankNet, fdNet, osVars, Linked, Success, Intact, headVars,
                              faultDaemonVars
<1>4. ASSUME UNCHANGED vars PROVE Intact' /\ Stopping'
  BY <1>4 DEF vars, netVars, rankNet, fdNet, headNet, osVars, faultDaemonVars, headVars,
              controllerVars, Stopping, Linked, Success, Intact
<1>. QED
  BY <1>1, <1>2, <1>3, <1>4, Steps

--------------------------------------------------------------------------------
(***************************************************************************)
(* Epochs: every decision of the daemons names the epoch its rank is in,   *)
(* and no signal meets an open epoch file.                                 *)
(***************************************************************************)
Decided(r) ==
    /\ Receives(rank_in, r, "commit") => Head(rank_in[r]).epoch = epoch[r]
    /\ Receives(fd_in, r, "restart") => Head(fd_in[r]).epoch = epoch[r]
    /\ At(r, "naming") => ~pending[r] /\ fd_in[r] = <<>>

LEMMA RankDecided ==
    ASSUME NEW r
    PROVE  /\ Launching(r) \/ Freed(r) => Decided(r)
           /\ Knocking(r) \/ Inside(r) \/ Computing(r) \/ Alerted(r) => Decided(r)
           /\ \A out : Recovering(r, out, <<>>) \/ Recovering(r, out, <<Commit(epoch[r])>>)
                          => Decided(r)
           /\ \A code : Exited(r, code) \/ Reported(r, code) => Decided(r)
           /\ \A code : \/ Settled(r, code, <<>>)
                        \/ Settled(r, code, <<[type |-> "restart", epoch |-> epoch[r]]>>)
                           => Decided(r)
<1>. USE DEF Decided, Receives, Linked, Living, Watched, Waits, Ended, At, InBarrier, Calm
<1>1. Launching(r) \/ Freed(r) => Decided(r)
  BY DEF Launching, Freed, Release
<1>2. Knocking(r) \/ Inside(r) \/ Computing(r) \/ Alerted(r) => Decided(r)
  BY DEF Knocking, Inside, Computing, Alerted
<1>3. \A out : Recovering(r, out, <<>>) \/ Recovering(r, out, <<Commit(epoch[r])>>) => Decided(r)
  BY DEF Recovering, Commit
<1>4. \A code : Exited(r, code) \/ Reported(r, code) => Decided(r)
  BY DEF Exited, Reported
<1>5. \A code : Settled(r, code, <<>>) => Decided(r)
  BY DEF Settled
<1>6. \A code : Settled(r, code, <<[type |-> "restart", epoch |-> epoch[r]]>>) => Decided(r)
  <2>1. ASSUME NEW code, Settled(r, code, <<[type |-> "restart", epoch |-> epoch[r]]>>)
        PROVE  /\ rank_in[r] = <<>> /\ fd_in[r] = <<[type |-> "restart", epoch |-> epoch[r]]>>
               /\ proc[r] = "reaped"
    BY <2>1 DEF Settled
  <2>. QED  BY <2>1
<1>. QED
  BY <1>1, <1>2, <1>3, <1>4, <1>5, <1>6

\* A step of a rank whose decision names its epoch leaves its epoch that of its file.
LEMMA EpochsKeptByRank ==
    ASSUME QuietCase, TypeOK, EpochsInOrder, NEW r \in Ranks, Own(r), Decided(r)
    PROVE  EpochsInOrder'
<1>. DEFINE Same(q) == /\ epoch_file'[q] = epoch_file[q] /\ epoch'[q] = epoch[q]
                       /\ set_epoch'[q] = set_epoch[q] /\ pc'[q] = pc[q] /\ pid'[q] = pid[q]
                       /\ proc'[q] = proc[q]
            InOrder(q) == /\ epoch_file[q] = IF epoch[q] = 0 \/ At(q, "naming") THEN None
                                             ELSE epoch[q]
                          /\ At(q, "naming") => epoch[q] > 0
                          /\ pc[q] \in {"launched", "restore_barrier"} => epoch[q] = set_epoch[q]
                          /\ pid[q] > 0
<1>. USE RankTypes
<1>0. \A q \in Ranks : InOrder(q)
  BY DEF EpochsInOrder
<1>1. ASSUME NEW q \in Ranks, Same(q) PROVE InOrder(q)'
  BY <1>0, <1>1 DEF None, At
<1>2. SUFFICES (\A q \in Ranks \ {r} : Same(q)) /\ InOrder(r)'
  BY <1>1 DEF EpochsInOrder
<1>3. CASE Rank(r)
  <2>. USE DEF Goto, osVars, rankNet, fdNet, headNet, rankVars, faultDaemonVars, Exit, At
  <2>1. CASE MPI_Init(r)
    BY <1>0, <1>3, <2>1 DEF Rank, MPI_Init, At, None
  <2>2. CASE checkpoint_read_throws(r)
    BY <1>0, <1>3, <2>2 DEF Rank, checkpoint_read_throws, None
  <2>3. CASE recv_barrier_release(r)
    <3>1. epoch' = epoch
      BY <1>0, <2>3 DEF recv_barrier_release, EpochAfterBarrier, None
    <3>. QED  BY <1>0, <1>3, <2>3, <3>1 DEF Rank, recv_barrier_release, InBarrier, None
  <2>4. CASE MPI_Comm_set_errhandler(r)
    BY <1>0, <1>3, <2>4 DEF Rank, MPI_Comm_set_errhandler, None
  <2>5. CASE checkpoint_write_file(r) \/ checkpoint_write_open(r)
    BY <1>0, <1>3, <2>5 DEF Rank, checkpoint_write_file, checkpoint_write_open, None
  <2>6. CASE checkpoint_write_check(r)
    BY <1>0, <1>3, <2>6 DEF Rank, checkpoint_write_check, None
  <2>7. CASE checkpoint_write_epoch(r)
    BY <1>0, <1>3, <2>7 DEF Rank, checkpoint_write_epoch, None
  <2>11. CASE checkpoint_write_close(r)
    BY <1>0, <1>3, <2>11 DEF Rank, checkpoint_write_close, None
  <2>8. CASE MPIX_Checkpoint_read(r)
    BY <1>0, <1>3, <2>8 DEF Rank, MPIX_Checkpoint_read, None
  <2>9. CASE wait_commit(r)
    <3>1. epoch' = epoch
      BY <2>9 DEF wait_commit, Decided, Receives, CommittedEpoch
    <3>. QED  BY <1>0, <1>3, <2>9, <3>1 DEF Rank, wait_commit, None
  <2>10. CASE MPI_Finalize(r)
    BY <1>0, <1>3, <2>10 DEF Rank, MPI_Finalize, None
  <2>. QED
    BY <1>3, <2>1, <2>2, <2>3, <2>4, <2>5, <2>6, <2>7, <2>8, <2>9, <2>10, <2>11
       DEF Rank, RankStep
<1>4. CASE Signal(r)
  BY <1>0, <1>4 DEF Signal, setErr, Exit, osVars, faultDaemonVars, None, Decided, At
<1>5. CASE Failure(r)
  BY <1>0, <1>5 DEF QuietCase, Failure, Fail, MayFail, Exit, faultDaemonVars, None, At
<1>6. CASE Monitor(r)
  <2>1. CASE inform_head(r)
    BY <1>0, <2>1 DEF inform_head, WaitReturns, rankVars, None, At
  <2>2. CASE restart(r)
    <3>1. epoch' = epoch /\ set_epoch' = [set_epoch EXCEPT ![r] = epoch[r]]
      BY <2>2 DEF restart, Launch, Decided
    <3>2. ~At(r, "naming")
      BY <2>2 DEF restart, Receives, Decided
    <3>. QED  BY <1>0, <2>2, <3>1, <3>2 DEF restart, Launch, Goto, None, At
  <2>3. CASE shutdown_ack(r)
    BY <1>0, <2>3 DEF shutdown_ack, rankVars, osVars, None, At
  <2>. QED  BY <1>6, <2>1, <2>2, <2>3 DEF Monitor, FaultDaemonStep
<1>. QED
  BY <1>3, <1>4, <1>5, <1>6 DEF Own

LEMMA EpochsKept ==
    ASSUME QuietCase, TypeOK, EpochsInOrder, \A r \in Ranks : Decided(r), [Next]_vars
    PROVE  EpochsInOrder'
<1>1. CASE \E r \in Ranks : Own(r)
  BY <1>1, EpochsKeptByRank
<1>2. CASE \E n \in Nodes : NodeHead(n)
  <2>1. UNCHANGED <<rankVars, faultDaemonVars>>
    BY <1>2 DEF NodeHead
  <2>2. UNCHANGED <<pid, proc>>
    BY <1>2 DEF NodeHead, HeadStep, process_barrier, process_cleanup, process_termination,
                process_shutdown_ack, process_release, process_error, process_commit,
                process_shutdown, osVars
  <2>. QED  BY <2>1, <2>2 DEF EpochsInOrder, None, rankVars, faultDaemonVars, At
<1>3. CASE Controller
  <2>1. UNCHANGED <<rankVars, faultDaemonVars>>
    BY <1>3 DEF Controller
  <2>2. UNCHANGED <<pid, proc>>
    BY <1>3 DEF Controller, ControllerStep, node_barrier, node_success, node_shutdown,
                process_exit, node_epoch, Takes, osVars
  <2>. QED  BY <2>1, <2>2 DEF EpochsInOrder, None, rankVars, faultDaemonVars, At
<1>4. CASE UNCHANGED vars
  BY <1>4 DEF EpochsInOrder, None, vars, osVars, rankVars, faultDaemonVars, At
<1>. QED
  BY <1>1, <1>2, <1>3, <1>4, Steps

LEMMA EndDecided ==
    ASSUME NEW r, NEW code, Exited(r, code) \/ Reported(r, code) \/ Settled(r, code, <<>>)
    PROVE  Decided(r)
<1>1. rank_in[r] = <<>> /\ fd_in[r] = <<>> /\ ~pending[r]
  BY DEF Exited, Reported, Settled, Ended, Linked, Watched
<1>. QED  BY <1>1 DEF Decided, Receives

\* In every phase, every decision names the epoch of its rank.
LEMMA PhaseDecided ==
    ASSUME Phase
    PROVE  \A r \in Ranks : Decided(r)
<1>. SUFFICES ASSUME NEW r \in Ranks PROVE Decided(r)
  OBVIOUS
<1>1. CASE \E W \in SUBSET Ranks, D \in SUBSET Nodes : Starting(W, D)
  BY <1>1, RankDecided DEF Starting, Filling
<1>2. CASE \E e \in Nat : Open(e)
  BY <1>2, RankDecided DEF Open
<1>3. CASE \E f \in Ranks : Failing(f, epoch[f])
  <2>1. \/ Running(r)
        \/ Exited(r, TryReload) \/ Reported(r, TryReload) \/ Settled(r, TryReload, <<>>)
    BY <1>3 DEF Failing
  <2>2. CASE Running(r)
    BY <2>2, RankDecided DEF Running
  <2>3. CASE Exited(r, TryReload) \/ Reported(r, TryReload) \/ Settled(r, TryReload, <<>>)
    BY <2>3, EndDecided
  <2>. QED  BY <2>1, <2>2, <2>3
<1>4. CASE \E f \in Ranks, C \in SUBSET Ranks, D \in SUBSET Nodes : Reporting(f, epoch[f], C, D)
  <2>1. PICK f \in Ranks, C \in SUBSET Ranks, D \in SUBSET Nodes : Reporting(f, epoch[f], C, D)
    BY <1>4
  <2>2. CASE r = f
    <3>1. Settled(r, TryReload, <<>>)
      BY <2>1, <2>2 DEF Reporting
    <3>. QED  BY <3>1, EndDecided
  <2>3. CASE r \in C
    BY <2>1, <2>3, RankDecided DEF Reporting
  <2>4. CASE r # f /\ r \notin C
    <3>1. r \in Survivors(NodeOf[r], f) \ C
      BY <2>4 DEF Survivors, LocalRanks
    <3>2. Running(r) \/ Alerted(r) \/ (\E out : Recovering(r, out, <<>>))
      BY <2>1, <2>4, <3>1, LayoutAssumption DEF Reporting, Unaware, Collecting, Answered
    <3>. QED  BY <3>2, RankDecided DEF Running
  <2>. QED  BY <2>2, <2>3, <2>4
<1>5. CASE \E f \in Ranks, W \in SUBSET Ranks, D \in SUBSET Nodes : Returning(f, epoch[f], W, D)
  <2>1. PICK f \in Ranks, W \in SUBSET Ranks, D \in SUBSET Nodes : Returning(f, epoch[f], W, D)
    BY <1>5
  <2>0. epoch[r] = epoch[f]
    BY <2>1 DEF Returning, Level
  <2>2. CASE r \in W
    BY <2>1, <2>2, RankDecided DEF Returning, Filling
  <2>3. CASE r = f /\ r \notin W
    <3>1. \/ Settled(r, TryReload, <<>>) \/ Launching(r) \/ Knocking(r)
          \/ Settled(r, TryReload, <<[type |-> "restart", epoch |-> epoch[r]]>>)
      BY <2>0, <2>1, <2>3 DEF Returning, Restarts
    <3>. QED  BY <3>1, RankDecided, EndDecided
  <2>4. CASE r # f /\ r \notin W
    BY <2>0, <2>1, <2>4, RankDecided DEF Returning, Returns
  <2>. QED  BY <2>2, <2>3, <2>4
<1>6. CASE \E E \in SUBSET Ranks, D \in SUBSET Nodes : Finishing(E, D)
  <2>1. Settled(r, Success, <<>>) \/ Ending(r) \/ Exited(r, Success) \/ Reported(r, Success)
    BY <1>6 DEF Finishing
  <2>2. CASE Ending(r)
    BY <2>2, RankDecided DEF Ending
  <2>3. CASE Exited(r, Success) \/ Reported(r, Success) \/ Settled(r, Success, <<>>)
    BY <2>3, EndDecided
  <2>. QED  BY <2>1, <2>2, <2>3
<1>7. CASE Stopping
  <2>1. rank_in[r] = <<>>
    BY <1>7 DEF Stopping, Linked
  <2>2. fd_in[r] # <<>> => Head(fd_in[r]).type = "shutdown"
    BY <1>7, HeadIs DEF Stopping
  <2>3. proc[r] # "alive"
    BY <1>7 DEF Stopping
  <2>. QED  BY <2>1, <2>2, <2>3 DEF Decided, Receives, At
<1>. QED
  BY <1>1, <1>2, <1>3, <1>4, <1>5, <1>6, <1>7 DEF Phase

LEMMA UpIntact == AllUp => Intact
BY DEF AllUp, Intact

\* A job in a phase stays in it or goes on to another one.
LEMMA PhaseStep ==
    ASSUME QuietCase, TypeOK, DurableInv, EpochsInOrder, [Next]_vars, Phase
    PROVE  Phase'
<1>1. CASE AllUp /\ \E W \in SUBSET Ranks, D \in SUBSET Nodes : Starting(W, D)
  BY <1>1, StartingStep DEF Phase
<1>2. CASE AllUp /\ \E e \in Nat : Open(e)
  <2>1. PICK e \in Nat : Open(e)
    BY <1>2
  <2>2. CASE Open(e)'
    BY <1>2, <2>1, <2>2, OpenStep DEF Phase
  <2>3. ASSUME NEW f \in Ranks, NEW g \in Nat, Failing(f, g)' PROVE Phase'
    <3>1. epoch'[f] = g
      BY <2>3 DEF Failing, Level
    <3>2. Failing(f, epoch[f])'
      BY <2>3, <3>1
    <3>. QED  BY <1>2, <2>1, <3>2, OpenStep DEF Phase
  <2>4. CASE Finishing({}, {})'
    BY <1>2, <2>1, <2>4, OpenStep DEF Phase
  <2>. QED  BY <1>2, <2>1, <2>2, <2>3, <2>4, OpenStep
<1>3. CASE AllUp /\ \E f \in Ranks : Failing(f, epoch[f])
  <2>1. PICK f \in Ranks, e \in Nat : Failing(f, e)
    BY <1>3, RankTypes
  <2>2. AllUp' /\ (Failing(f, e)' \/ Reporting(f, e, {}, {})')
    BY <1>3, <2>1, FailingStep
  <2>3. epoch'[f] = e
    BY <2>2 DEF Failing, Reporting, Level
  <2>4. Failing(f, epoch[f])' \/ Reporting(f, epoch[f], {}, {})'
    BY <2>2, <2>3
  <2>. QED  BY <2>2, <2>4 DEF Phase
<1>4. CASE AllUp /\ \E f \in Ranks, C \in SUBSET Ranks, D \in SUBSET Nodes : Reporting(f, epoch[f], C, D)
  <2>1. PICK f \in Ranks, e \in Nat, C \in SUBSET Ranks, D \in SUBSET Nodes : Reporting(f, e, C, D)
    BY <1>4, RankTypes
  <2>2. AllUp'
    BY <1>4, <2>1, ReportingStep
  <2>3. \/ \E C2 \in SUBSET Ranks, D2 \in SUBSET Nodes : Reporting(f, e, C2, D2)'
        \/ Returning(f, e, {}, {})'
    BY <1>4, <2>1, ReportingStep
  <2>4. epoch'[f] = e
    BY <2>3 DEF Returning, Reporting, Level
  <2>5. \/ \E C2 \in SUBSET Ranks, D2 \in SUBSET Nodes : Reporting(f, epoch[f], C2, D2)'
        \/ Returning(f, epoch[f], {}, {})'
    BY <2>3, <2>4
  <2>. QED  BY <2>2, <2>5 DEF Phase
<1>5. CASE AllUp /\ \E f \in Ranks, W \in SUBSET Ranks, D \in SUBSET Nodes : Returning(f, epoch[f], W, D)
  <2>1. PICK f \in Ranks, e \in Nat, W \in SUBSET Ranks, D \in SUBSET Nodes : Returning(f, e, W, D)
    BY <1>5, RankTypes
  <2>2. AllUp'
    BY <1>5, <2>1, ReturningStep
  <2>3. \/ \E W2 \in SUBSET Ranks, D2 \in SUBSET Nodes : Returning(f, e, W2, D2)'
        \/ Open(e)'
    BY <1>5, <2>1, ReturningStep
  <2>4. CASE Open(e)'
    BY <2>2, <2>4 DEF Phase
  <2>5. CASE \E W2 \in SUBSET Ranks, D2 \in SUBSET Nodes : Returning(f, e, W2, D2)'
    <3>1. epoch'[f] = e
      BY <2>5 DEF Returning, Level
    <3>2. \E W2 \in SUBSET Ranks, D2 \in SUBSET Nodes : Returning(f, epoch[f], W2, D2)'
      BY <2>5, <3>1
    <3>. QED  BY <2>2, <3>2 DEF Phase
  <2>. QED  BY <2>3, <2>4, <2>5
<1>6. CASE AllUp /\ \E E \in SUBSET Ranks, D \in SUBSET Nodes : Finishing(E, D)
  <2>1. /\ AllUp'
        /\ \/ \E E2 \in SUBSET Ranks, D2 \in SUBSET Nodes : Finishing(E2, D2)'
           \/ Stopping'
    BY <1>6, FinishingStep
  <2>2. Intact'
    BY <2>1 DEF AllUp, Intact
  <2>. QED  BY <2>1, <2>2 DEF Phase
<1>7. CASE Intact /\ Stopping
  BY <1>7, StoppingStep DEF Phase
<1>. QED
  BY <1>1, <1>2, <1>3, <1>4, <1>5, <1>6, <1>7 DEF Phase

\* The job starts with every rank launched, and nothing sent.
LEMMA PhaseInit ==
    ASSUME Init
    PROVE  QuietInv
<1>. USE DEF Init, NetInit, RankInit, FaultDaemonInit, HeadInit, ControllerInit
<1>1. EpochsInOrder
  BY DEF EpochsInOrder, At
<1>2. AllUp
  BY DEF AllUp
<1>3. \A r \in Ranks : Launching(r)
  BY DEF Launching, Living, Watched, Calm, Linked, InCheckpoint
<1>4. /\ NoReports /\ NoSuccess /\ NoBarrier /\ faults = 0 /\ Level(0)
      /\ \A n \in Nodes : fault_daemons[n] = {} /\ head_in[n] = <<>> /\ head_out[n] = <<>>
  BY DEF NoReports, NoSuccess, NoBarrier, Level
<1>5. CASE Nodes = {}
  <2>1. Ranks = {} /\ head_daemons = Nodes
    BY <1>5, LayoutAssumption
  <2>2. Open(0)
    BY <1>4, <1>5, <2>1 DEF Open, Started
  <2>. QED  BY <1>1, <1>2, <2>2 DEF QuietInv, Phase
<1>6. CASE Nodes # {}
  <2>1. Filling({}, {})
    <3>1. head_daemon_count = Cardinality({})
      BY FS_EmptySet
    <3>2. ASSUME NEW n \in Nodes
          PROVE  ~(LocalRanks(n) \subseteq {}) /\ barrier_count[n] = Cardinality({} \cap LocalRanks(n))
      <4>1. {} \cap LocalRanks(n) = {}
        OBVIOUS
      <4>2. LocalRanks(n) # {}
        BY LayoutAssumption DEF LocalRanks
      <4>. QED  BY <4>1, <4>2, FS_EmptySet
    <3>. QED  BY <1>4, <1>6, <3>1, <3>2 DEF Filling
  <2>2. Starting({}, {})
    BY <1>3, <1>4, <2>1 DEF Starting
  <2>. QED  BY <1>1, <1>2, <2>2 DEF QuietInv, Phase
<1>. QED
  BY <1>5, <1>6

--------------------------------------------------------------------------------
(***************************************************************************)
(* What the phases say of the packets under way.                           *)
(***************************************************************************)
\* A fault daemon whose process runs has been sent nothing.
LEMMA PhaseFaultDaemon ==
    ASSUME Phase, NEW r \in Ranks, proc[r] = "alive"
    PROVE  fd_in[r] = <<>>
<1>. USE DEF Launching, Knocking, Inside, Freed, Computing, Running, Alerted, Recovering, Exited,
             Reported, Settled, Ended, Living, Watched, Waits, Ending
<1>1. CASE \E W \in SUBSET Ranks, D \in SUBSET Nodes : Starting(W, D)
  BY <1>1 DEF Starting, Filling
<1>2. CASE \E e \in Nat : Open(e)
  BY <1>2 DEF Open
<1>3. CASE \E f \in Ranks : Failing(f, epoch[f])
  BY <1>3 DEF Failing
<1>4. CASE \E f \in Ranks, C \in SUBSET Ranks, D \in SUBSET Nodes : Reporting(f, epoch[f], C, D)
  <2>1. PICK f \in Ranks, C \in SUBSET Ranks, D \in SUBSET Nodes : Reporting(f, epoch[f], C, D)
    BY <1>4
  <2>2. CASE r \in C \cup {f}
    BY <2>1, <2>2 DEF Reporting
  <2>3. CASE r \notin C \cup {f}
    <3>1. r \in Survivors(NodeOf[r], f) \ C /\ NodeOf[r] \in Nodes
      BY <2>3, LayoutAssumption DEF Survivors, LocalRanks
    <3>. QED  BY <2>1, <3>1 DEF Reporting, Unaware, Collecting, Answered
  <2>. QED  BY <2>2, <2>3
<1>5. CASE \E f \in Ranks, W \in SUBSET Ranks, D \in SUBSET Nodes : Returning(f, epoch[f], W, D)
  <2>1. PICK f \in Ranks, W \in SUBSET Ranks, D \in SUBSET Nodes : Returning(f, epoch[f], W, D)
    BY <1>5
  <2>2. CASE r \in W
    BY <2>1, <2>2 DEF Returning, Filling
  <2>3. CASE r = f /\ r \notin W
    BY <2>1, <2>3 DEF Returning, Restarts
  <2>4. CASE r # f /\ r \notin W
    <3>1. Returns(r, epoch[f])
      BY <2>1, <2>4 DEF Returning
    <3>. QED  BY <3>1 DEF Returns
  <2>. QED  BY <2>2, <2>3, <2>4
<1>6. CASE \E E \in SUBSET Ranks, D \in SUBSET Nodes : Finishing(E, D)
  BY <1>6 DEF Finishing
<1>7. CASE Stopping
  BY <1>7 DEF Stopping
<1>. QED
  BY <1>1, <1>2, <1>3, <1>4, <1>5, <1>6, <1>7 DEF Phase

\* The controller sends "release", "error", "commit" and, at the end, "shutdown": one of
\* them at a time, and "commit" with the epoch in which every rank is.
LEMMA PhaseHeads ==
    ASSUME Phase, NEW n \in Nodes
    PROVE  \/ head_in[n] \in {<<>>, <<Release>>}
           \/ \E e : head_in[n] = <<[type |-> "error", epoch |-> e]>>
           \/ \E e : head_in[n] = <<Commit(e)>> /\ Level(e)
           \/ Stopping
<1>1. CASE \E W \in SUBSET Ranks, D \in SUBSET Nodes : Starting(W, D)
  BY <1>1 DEF Starting
<1>2. CASE \E e \in Nat : Open(e)
  BY <1>2 DEF Open
<1>3. CASE \E f \in Ranks : Failing(f, epoch[f])
  BY <1>3 DEF Failing
<1>4. CASE \E f \in Ranks, C \in SUBSET Ranks, D \in SUBSET Nodes : Reporting(f, epoch[f], C, D)
  BY <1>4 DEF Reporting, Unaware, Collecting, Answered
<1>5. CASE \E f \in Ranks, W \in SUBSET Ranks, D \in SUBSET Nodes : Returning(f, epoch[f], W, D)
  BY <1>5 DEF Returning
<1>6. CASE \E E \in SUBSET Ranks, D \in SUBSET Nodes : Finishing(E, D)
  BY <1>6 DEF Finishing
<1>. QED
  BY <1>1, <1>2, <1>3, <1>4, <1>5, <1>6 DEF Phase

\* The packets of the controller, one by one.
LEMMA PhasePackets ==
    ASSUME Phase, NEW n \in Nodes, NEW k \in 1..Len(head_in[n])
    PROVE  \/ head_in[n][k] = Release
           \/ \E e : head_in[n][k] = [type |-> "error", epoch |-> e]
           \/ \E e : head_in[n][k] = Commit(e) /\ Level(e)
           \/ Stopping /\ head_in[n][k].type = "shutdown"
<1>1. CASE head_in[n] \in {<<>>, <<Release>>}
  <2>1. ASSUME NEW x, head_in[n] = <<x>> PROVE head_in[n][k] = x
    BY <2>1
  <2>. QED  BY <1>1, <2>1
<1>2. ASSUME NEW x, head_in[n] = <<x>> PROVE head_in[n][k] = x
  BY <1>2
<1>3. CASE \E e : head_in[n] = <<[type |-> "error", epoch |-> e]>>
  BY <1>2, <1>3
<1>4. CASE \E e : head_in[n] = <<Commit(e)>> /\ Level(e)
  BY <1>2, <1>4
<1>5. CASE Stopping
  <2>1. head_in[n] \in Seq([type : {"shutdown"}])
    BY <1>5 DEF Stopping
  <2>2. ASSUME NEW S, head_in[n] \in Seq(S) PROVE head_in[n][k] \in S
    BY <2>2
  <2>3. head_in[n][k] \in [type : {"shutdown"}]
    BY <2>1, <2>2
  <2>. QED  BY <1>5, <2>3
<1>. QED
  BY <1>1, <1>3, <1>4, <1>5, PhaseHeads

\* The processes that wait in the barrier are in one epoch.
LEMMA PhaseBarrier ==
    ASSUME Phase
    PROVE  \E e : \A r \in Ranks : proc[r] = "alive" /\ pc[r] \in InBarrier => epoch[r] = e
<1>1. CASE \E e : Level(e)
  BY <1>1 DEF Level
<1>2. CASE \E e \in Nat : Open(e)
  BY <1>2 DEF Open
<1>3. CASE Stopping \/ \E E \in SUBSET Ranks, D \in SUBSET Nodes : Finishing(E, D)
  BY <1>3 DEF Stopping, Finishing, Ending, Exited, Reported, Settled, InBarrier
<1>. QED
  BY <1>1, <1>2, <1>3 DEF Phase, Starting, Failing, Reporting, Returning

\* Only recv_barrier_release leaves the barrier of a restarted process.
LEMMA BarrierLeft ==
    ASSUME TypeOK, [Next]_vars, NEW r \in Ranks, pc[r] = "restore_barrier", pc'[r] = "initialized"
    PROVE  recv_barrier_release(r)
<1>. USE RankTypes
<1>1. ASSUME NEW q \in Ranks, Rank(q) PROVE recv_barrier_release(r)
  <2>1. q = r
    BY <1>1 DEF Rank, RankStep, MPI_Init, checkpoint_read_throws, recv_barrier_release,
                MPI_Comm_set_errhandler, checkpoint_write_open, checkpoint_write_file,
                checkpoint_write_check, checkpoint_write_epoch, checkpoint_write_close, MPIX_Checkpoint_read, wait_commit, MPI_Finalize, Goto,
                rankVars
  <2>. QED
    BY <1>1, <2>1 DEF Rank, RankStep, MPI_Init, checkpoint_read_throws, MPI_Comm_set_errhandler,
                      checkpoint_write_open, checkpoint_write_file, checkpoint_write_check,
                      checkpoint_write_epoch, checkpoint_write_close,
                      MPIX_Checkpoint_read, wait_commit, MPI_Finalize, At
<1>2. ASSUME NEW q \in Ranks, Signal(q) \/ Failure(q) \/ Monitor(q) PROVE FALSE
  BY <1>2 DEF Signal, setErr, Failure, Fail, Monitor, FaultDaemonStep, inform_head, restart, Launch,
              Goto, shutdown_ack, rankVars
<1>3. UNCHANGED pc => FALSE
  OBVIOUS
<1>. QED
  BY <1>1, <1>2, <1>3 DEF Next, NodeHead, Controller, Finished, vars, rankVars

--------------------------------------------------------------------------------
(***************************************************************************)
(* The theorems of this case.                                              *)
(***************************************************************************)
\* The job is always in one of the phases.
LEMMA AlwaysQuiet ==
    ASSUME QuietCase
    PROVE  Spec => []QuietInv
<1>1. Init => QuietInv
  BY PhaseInit
<1>2. TypeOK /\ DurableInv /\ QuietInv /\ [Next]_vars => QuietInv'
  BY PhaseStep, PhaseDecided, EpochsKept DEF QuietInv
<1>3. MaxFaults <= 1
  BY DEF QuietCase
<1>. QED
  BY <1>1, <1>2, <1>3, AlwaysDurable, TypeCorrect, PTL DEF Spec

\* No daemon meets a packet, a pid or an exit status that it does not expect: process_msg
\* of the head daemon and of the controller never raise.
THEOREM DaemonsNeverRaise ==
    ASSUME QuietCase
    PROVE  Spec => []NoDaemonRaises
<1>1. QuietInv => NoDaemonRaises
  BY DEF QuietInv, Phase, AllUp, Intact, NoDaemonRaises
<1>. QED
  BY <1>1, AlwaysQuiet, PTL

\* The controller sends "shutdown" only when every process has exited with success.
THEOREM ShutdownAfterSuccess ==
    ASSUME QuietCase
    PROVE  Spec => []ShutdownOnlyAfterSuccess
<1>1. QuietInv => ShutdownOnlyAfterSuccess
  <2>. SUFFICES ASSUME Phase, NEW n \in Nodes, NEW k \in 1..Len(head_in[n]),
                       head_in[n][k].type = "shutdown"
                PROVE  \A r \in Ranks : proc[r] # "alive" /\ exit_code[r] = Success
    BY DEF QuietInv, ShutdownOnlyAfterSuccess, Carries
  <2>1. Stopping
    <3>1. /\ head_in[n][k] # Release
          /\ \A e : head_in[n][k] # [type |-> "error", epoch |-> e] /\ head_in[n][k] # Commit(e)
      BY DEF Release, Commit
    <3>. QED  BY <3>1, PhasePackets
  <2>. QED  BY <2>1 DEF Stopping
<1>. QED
  BY <1>1, AlwaysQuiet, PTL

\* All processes that wait in the recovery's barrier are in one epoch.
THEOREM QuietRecoveriesAgree ==
    ASSUME QuietCase
    PROVE  Spec => []RecoveryEpochsAgree
<1>1. QuietInv => RecoveryEpochsAgree
  BY PhaseBarrier DEF QuietInv, RecoveryEpochsAgree, InBarrier
<1>. QED
  BY <1>1, AlwaysQuiet, PTL

\* The epoch that the controller commits is one that every process of the job has reached.
THEOREM QuietCommitsAreReached ==
    ASSUME QuietCase
    PROVE  Spec => []CommitReachedByAll
<1>1. TypeOK /\ QuietInv => CommitReachedByAll
  <2>. SUFFICES ASSUME TypeOK, EpochsInOrder, Phase, NEW n \in Nodes,
                       NEW k \in 1..Len(head_in[n]), head_in[n][k].type = "commit",
                       NEW r \in LocalRanks(n)
                PROVE  RankReached(r, head_in[n][k].epoch)
    BY DEF QuietInv, CommitReachedByAll
  <2>0. r \in Ranks
    BY DEF LocalRanks
  <2>1. PICK e : head_in[n][k] = Commit(e) /\ Level(e)
    <3>1. /\ head_in[n][k] # Release /\ head_in[n][k].type # "shutdown"
          /\ \A e : head_in[n][k] # [type |-> "error", epoch |-> e]
      BY DEF Release
    <3>. QED  BY <3>1, PhasePackets
  <2>2. head_in[n][k].epoch = epoch[r] /\ epoch[r] \in Nat
    BY <2>0, <2>1, RankTypes DEF Commit, Level
  <2>3. proc[r] # "alive" => ReadEpochFile(r) = epoch[r]
    BY <2>0, <2>2 DEF EpochsInOrder, ReadEpochFile, None, At
  <2>. QED  BY <2>2, <2>3 DEF RankReached
<1>. QED
  BY <1>1, AlwaysQuiet, TypeCorrect, PTL

\* "restart" waits only for a fault daemon whose process has terminated.
THEOREM QuietRestartsFindTerminated ==
    ASSUME QuietCase
    PROVE  Spec => []RestartOnlyTerminated
<1>1. QuietInv => RestartOnlyTerminated
  BY PhaseFaultDaemon DEF QuietInv, RestartOnlyTerminated, Carries
<1>. QED
  BY <1>1, AlwaysQuiet, PTL

\* A restarted process leaves the barrier in the epoch from which it was restarted: the one
\* of its checkpoint's file plus one is the one of its epoch file.
THEOREM RestartsInAgreedEpoch ==
    ASSUME QuietCase
    PROVE  Spec => RestartInAgreedEpoch
<1>1. TypeOK /\ QuietInv /\ [Next]_vars
        => [\A r \in Ranks : (pc[r] = "restore_barrier" /\ pc'[r] = "initialized")
                                => epoch'[r] = set_epoch[r]]_vars
  <2>. SUFFICES ASSUME TypeOK, EpochsInOrder, [Next]_vars, NEW r \in Ranks,
                       pc[r] = "restore_barrier", pc'[r] = "initialized"
                PROVE  epoch'[r] = set_epoch[r]
    BY DEF QuietInv
  <2>1. recv_barrier_release(r)
    BY BarrierLeft
  <2>. QED
    BY <2>1, RankTypes DEF recv_barrier_release, EpochAfterBarrier, EpochsInOrder, None, At
<1>. QED
  BY <1>1, AlwaysQuiet, TypeCorrect, PTL DEF Spec, RestartInAgreedEpoch

--------------------------------------------------------------------------------
(***************************************************************************)
(* The refinement. The abstract barrier is closed in every phase but Open: *)
(* no "release" is under way, and a rank that waits stays. In Open every   *)
(* rank that waits has its "release" under way, and nobody enters.         *)
(***************************************************************************)
InTheBarrier(r) == proc[r] = "alive" /\ pc[r] \in InBarrier
Closed ==
    \A r \in Ranks :
        /\ ~ReleaseUnderway(r)
        /\ InTheBarrier(r) => rank_in[r] = <<>> /\ ~pending[r]
Opened ==
    \A r \in Ranks :
        IF InTheBarrier(r) THEN ReleaseUnderway(r) ELSE pc[r] \notin {"launched", "wait_commit"}

LEMMA CarriesWhat ==
    ASSUME NEW chan, NEW i, NEW t
    PROVE  /\ chan[i] = <<>> => ~Carries(chan, i, t)
           /\ \A x : chan[i] = <<x>> => (Carries(chan, i, t) <=> x.type = t)
           /\ \A u : chan[i] \in Seq([type : {u}]) /\ u # t => ~Carries(chan, i, t)
<1>. USE DEF Carries
<1>1. chan[i] = <<>> => ~Carries(chan, i, t)
  OBVIOUS
<1>2. ASSUME NEW x, chan[i] = <<x>> PROVE Carries(chan, i, t) <=> x.type = t
  <2>1. chan[i][1] = x /\ 1..Len(chan[i]) = {1}
    BY <1>2
  <2>. QED  BY <2>1
<1>3. ASSUME NEW u, chan[i] \in Seq([type : {u}]), u # t PROVE ~Carries(chan, i, t)
  <2>. SUFFICES ASSUME NEW k \in 1..Len(chan[i]) PROVE chan[i][k].type # t
    OBVIOUS
  <2>1. ASSUME NEW S, chan[i] \in Seq(S) PROVE chan[i][k] \in S
    BY <2>1
  <2>2. chan[i][k] \in [type : {u}]
    BY <1>3, <2>1
  <2>. QED  BY <1>3, <2>2
<1>. QED
  BY <1>1, <1>2, <1>3

\* A rank without "release" on its way, neither to it nor to its node.
LEMMA NotReleased ==
    ASSUME NEW r,
           rank_in[r] = <<>> \/ \E e : rank_in[r] = <<Commit(e)>>,
           \/ head_in[NodeOf[r]] = <<>>
           \/ \E e : head_in[NodeOf[r]] \in {<<Commit(e)>>, <<[type |-> "error", epoch |-> e]>>}
           \/ head_in[NodeOf[r]] \in Seq([type : {"shutdown"}])
    PROVE  ~ReleaseUnderway(r)
<1>1. ~Carries(rank_in, r, "release")
  <2>1. \A e : Commit(e).type # "release"
    BY DEF Commit
  <2>. QED  BY <2>1, CarriesWhat
<1>2. ~Carries(head_in, NodeOf[r], "release")
  <2>1. \A e : Commit(e).type # "release" /\ [type |-> "error", epoch |-> e].type # "release"
    BY DEF Commit
  <2>2. CASE head_in[NodeOf[r]] = <<>>
    BY <2>2, CarriesWhat
  <2>3. CASE \E e : head_in[NodeOf[r]] \in {<<Commit(e)>>, <<[type |-> "error", epoch |-> e]>>}
    BY <2>1, <2>3, CarriesWhat
  <2>4. CASE head_in[NodeOf[r]] \in Seq([type : {"shutdown"}])
    <3>1. "shutdown" # "release"
      OBVIOUS
    <3>. QED  BY <2>4, <3>1, CarriesWhat
  <2>. QED  BY <2>2, <2>3, <2>4
<1>. QED
  BY <1>1, <1>2 DEF ReleaseUnderway

\* The states of a rank in a closed barrier.
LEMMA ClosedRank ==
    ASSUME NEW r, NEW code, NEW e, NEW d, NEW out,
           \/ Launching(r) \/ Knocking(r) \/ Inside(r) \/ Running(r) \/ Ending(r) \/ Alerted(r)
           \/ Exited(r, code) \/ Reported(r, code) \/ Settled(r, code, d)
           \/ Recovering(r, out, <<>>) \/ Recovering(r, out, <<Commit(e)>>)
    PROVE  /\ rank_in[r] \in {<<>>, <<Commit(e)>>}
           /\ InTheBarrier(r) => rank_in[r] = <<>> /\ ~pending[r]
BY DEF Launching, Knocking, Inside, Running, Ending, Computing, Alerted, Exited, Reported,
       Settled, Recovering, Ended, Living, Waits, Calm, Linked, InTheBarrier, InBarrier

\* Only a rank that was launched or had its epoch committed enters the barrier; only one
\* that was sent a packet or a signal leaves it.
LEMMA BarrierMoves ==
    ASSUME TypeOK, NEW r \in Ranks, Own(r), proc[r] = "alive" => fd_in[r] = <<>>
    PROVE  /\ \A q \in Ranks \ {r} : InTheBarrier(q)' = InTheBarrier(q)
           /\ ~InTheBarrier(r) /\ InTheBarrier(r)' => pc[r] \in {"launched", "wait_commit"}
           /\ InTheBarrier(r) /\ ~InTheBarrier(r)' => rank_in[r] # <<>> \/ pending[r]
<1>. USE RankTypes DEF InTheBarrier
<1>1. CASE Rank(r)
  <2>. USE DEF At, Goto, InBarrier, InCheckpoint, rankVars, osVars, Exit
  <2>1. CASE MPI_Init(r)
    BY <2>1 DEF MPI_Init
  <2>2. CASE checkpoint_read_throws(r)
    BY <2>2 DEF checkpoint_read_throws
  <2>3. CASE recv_barrier_release(r)
    BY <2>3 DEF recv_barrier_release
  <2>4. CASE MPI_Comm_set_errhandler(r)
    BY <2>4 DEF MPI_Comm_set_errhandler
  <2>5. CASE \/ checkpoint_write_open(r) \/ checkpoint_write_file(r) \/ checkpoint_write_check(r)
             \/ checkpoint_write_epoch(r) \/ checkpoint_write_close(r)
    BY <2>5 DEF checkpoint_write_open, checkpoint_write_file, checkpoint_write_check,
                checkpoint_write_epoch, checkpoint_write_close
  <2>6. CASE MPIX_Checkpoint_read(r)
    BY <2>6 DEF MPIX_Checkpoint_read
  <2>7. CASE wait_commit(r)
    BY <2>7 DEF wait_commit
  <2>8. CASE MPI_Finalize(r)
    BY <2>8 DEF MPI_Finalize
  <2>. QED
    BY <1>1, <2>1, <2>2, <2>3, <2>4, <2>5, <2>6, <2>7, <2>8 DEF Rank, RankStep
<1>2. CASE Signal(r)
  BY <1>2 DEF Signal, setErr, Exit
<1>3. CASE Failure(r)
  BY <1>3 DEF Failure, Fail, Exit, At, InBarrier, InCheckpoint
<1>4. CASE Monitor(r)
  <2>1. CASE inform_head(r)
    BY <2>1 DEF inform_head, WaitReturns, rankVars
  <2>2. CASE restart(r)
    BY <2>2 DEF restart, Receives, Launch, Goto, InBarrier
  <2>3. CASE shutdown_ack(r)
    BY <2>3 DEF shutdown_ack, rankVars, osVars
  <2>. QED  BY <1>4, <2>1, <2>2, <2>3 DEF Monitor, FaultDaemonStep
<1>. QED
  BY <1>1, <1>2, <1>3, <1>4 DEF Own

\* The steps of the daemons leave everybody where it is.
LEMMA BarrierKept ==
    ASSUME \/ \E n \in Nodes : NodeHead(n)
           \/ Controller
           \/ UNCHANGED vars
    PROVE  \A q \in Ranks : InTheBarrier(q)' = InTheBarrier(q)
<1>0. UNCHANGED <<pc, proc>> => \A q \in Ranks : InTheBarrier(q)' = InTheBarrier(q)
  BY Zenon DEF InTheBarrier
<1>1. (\E n \in Nodes : NodeHead(n)) => UNCHANGED <<pc, proc>>
  BY DEF NodeHead, HeadStep, process_barrier, process_cleanup, process_termination,
              process_shutdown_ack, process_release, process_error, process_commit,
              process_shutdown, osVars, rankVars
<1>2. Controller => UNCHANGED <<pc, proc>>
  BY DEF Controller, ControllerStep, node_barrier, node_success, node_shutdown,
              process_exit, node_epoch, Takes, osVars, rankVars
<1>3. UNCHANGED vars => UNCHANGED <<pc, proc>>
  BY DEF vars, osVars, rankVars
<1>. QED
  BY <1>0, <1>1, <1>2, <1>3

\* In which phases the abstract barrier is closed, and in which it is open.
Shapes ==
    /\ \A W \in SUBSET Ranks, D \in SUBSET Nodes : Starting(W, D) => Closed
    /\ \A e \in Nat : Open(e) => Opened
    /\ \A f \in Ranks, e \in Nat : Failing(f, e) => Closed
    /\ \A f \in Ranks, e \in Nat, C \in SUBSET Ranks, D \in SUBSET Nodes :
          Reporting(f, e, C, D) => Closed
    /\ \A f \in Ranks, e \in Nat, W \in SUBSET Ranks, D \in SUBSET Nodes :
          Returning(f, e, W, D) => Closed
    /\ \A E \in SUBSET Ranks, D \in SUBSET Nodes : Finishing(E, D) => Closed
    /\ Stopping => Closed

LEMMA PhaseShapes == Shapes
<1>0. \A r \in Ranks : NodeOf[r] \in Nodes /\ r \in LocalRanks(NodeOf[r])
  BY LayoutAssumption DEF LocalRanks
<1>1. ASSUME NEW W \in SUBSET Ranks, NEW D \in SUBSET Nodes, Starting(W, D), NEW r \in Ranks
      PROVE  /\ Launching(r) \/ Knocking(r) \/ Inside(r)
             /\ head_in[NodeOf[r]] = <<>>
  BY <1>0, <1>1 DEF Starting, Filling
<1>2. ASSUME NEW e \in Nat, Open(e) PROVE Opened
  <2>. SUFFICES ASSUME NEW r \in Ranks
                PROVE  IF InTheBarrier(r) THEN ReleaseUnderway(r)
                       ELSE pc[r] \notin {"launched", "wait_commit"}
    BY DEF Opened
  <2>1. CASE head_in[NodeOf[r]] = <<Release>>
    <3>1. Carries(head_in, NodeOf[r], "release")
      <4>1. Release.type = "release"
        BY DEF Release
      <4>. QED  BY <2>1, <4>1, CarriesWhat
    <3>2. InTheBarrier(r)
      BY <1>2, <2>1 DEF Open, Inside, Waits, Living, InTheBarrier
    <3>. QED  BY <3>1, <3>2 DEF ReleaseUnderway
  <2>2. CASE Freed(r)
    <3>1. Carries(rank_in, r, "release")
      <4>1. Release.type = "release" /\ rank_in[r] = <<Release>>
        BY <2>2 DEF Release, Freed, Linked
      <4>. QED  BY <4>1, CarriesWhat
    <3>2. InTheBarrier(r)
      BY <2>2 DEF Freed, Waits, Living, InTheBarrier
    <3>. QED  BY <3>1, <3>2 DEF ReleaseUnderway
  <2>3. CASE Computing(r)
    BY <2>3 DEF Computing, InTheBarrier, InBarrier, InCheckpoint
  <2>. QED  BY <1>2, <2>1, <2>2, <2>3 DEF Open
<1>3. ASSUME NEW f \in Ranks, NEW e \in Nat, Failing(f, e), NEW r \in Ranks
      PROVE  /\ \/ Running(r) \/ Exited(r, TryReload) \/ Reported(r, TryReload)
                \/ Settled(r, TryReload, <<>>)
             /\ head_in[NodeOf[r]] = <<>>
  BY <1>0, <1>3 DEF Failing
<1>4. ASSUME NEW f \in Ranks, NEW e \in Nat, NEW C \in SUBSET Ranks, NEW D \in SUBSET Nodes,
             Reporting(f, e, C, D), NEW r \in Ranks
      PROVE  /\ \/ Settled(r, TryReload, <<>>) \/ Running(r) \/ Alerted(r)
                \/ Recovering(r, <<>>, <<>>) \/ Recovering(r, <<Cleanup(e)>>, <<>>)
             /\ head_in[NodeOf[r]] \in {<<>>, <<[type |-> "error", epoch |-> e]>>}
  <2>1. CASE r \in C \cup {f}
    BY <1>0, <1>4, <2>1 DEF Reporting, Unaware, Collecting, Answered
  <2>2. CASE r \notin C \cup {f}
    <3>1. r \in Survivors(NodeOf[r], f) \ C
      BY <1>0, <2>2 DEF Survivors
    <3>. QED  BY <1>0, <1>4, <3>1 DEF Reporting, Unaware, Collecting, Answered
  <2>. QED  BY <2>1, <2>2
<1>5. ASSUME NEW f \in Ranks, NEW e \in Nat, NEW W \in SUBSET Ranks, NEW D \in SUBSET Nodes,
             Returning(f, e, W, D), NEW r \in Ranks
      PROVE  /\ \/ \E d : Settled(r, TryReload, d)
                \/ Launching(r) \/ Knocking(r) \/ Inside(r)
                \/ Recovering(r, <<>>, <<>>) \/ Recovering(r, <<>>, <<Commit(e)>>)
             /\ head_in[NodeOf[r]] \in {<<>>, <<Commit(e)>>}
  <2>1. CASE r \in W
    BY <1>0, <1>5, <2>1 DEF Returning, Filling
  <2>2. CASE r = f /\ r \notin W
    BY <1>0, <1>5, <2>2 DEF Returning, Restarts
  <2>3. CASE r # f /\ r \notin W
    <3>1. Returns(r, e) /\ head_in[NodeOf[r]] \in {<<>>, <<Commit(e)>>}
      BY <1>0, <1>5, <2>3 DEF Returning
    <3>. QED  BY <3>1 DEF Returns
  <2>. QED  BY <2>1, <2>2, <2>3
<1>6. ASSUME NEW E \in SUBSET Ranks, NEW D \in SUBSET Nodes, Finishing(E, D), NEW r \in Ranks
      PROVE  /\ \/ Ending(r) \/ Exited(r, Success) \/ Reported(r, Success)
                \/ Settled(r, Success, <<>>)
             /\ head_in[NodeOf[r]] = <<>>
  BY <1>0, <1>6 DEF Finishing
<1>7. ASSUME Stopping, NEW r \in Ranks
      PROVE  /\ ~InTheBarrier(r) /\ rank_in[r] = <<>>
             /\ head_in[NodeOf[r]] \in Seq([type : {"shutdown"}])
  BY <1>0, <1>7 DEF Stopping, Linked, InTheBarrier
<1>8. ASSUME NEW r \in Ranks, NEW code, NEW e, NEW out,
             \/ Launching(r) \/ Knocking(r) \/ Inside(r) \/ Running(r) \/ Ending(r)
             \/ Alerted(r)
             \/ Exited(r, code) \/ Reported(r, code) \/ \E d : Settled(r, code, d)
             \/ Recovering(r, out, <<>>) \/ Recovering(r, out, <<Commit(e)>>),
             head_in[NodeOf[r]] \in {<<>>, <<Commit(e)>>, <<[type |-> "error", epoch |-> e]>>}
      PROVE  /\ ~ReleaseUnderway(r)
             /\ InTheBarrier(r) => rank_in[r] = <<>> /\ ~pending[r]
  <2>1. /\ rank_in[r] \in {<<>>, <<Commit(e)>>}
        /\ InTheBarrier(r) => rank_in[r] = <<>> /\ ~pending[r]
    BY <1>8, ClosedRank
  <2>. QED  BY <1>8, <2>1, NotReleased
<1>11. ASSUME NEW W \in SUBSET Ranks, NEW D \in SUBSET Nodes, Starting(W, D) PROVE Closed
  BY <1>1, <1>8, <1>11 DEF Closed
<1>13. ASSUME NEW f \in Ranks, NEW e \in Nat, Failing(f, e) PROVE Closed
  BY <1>3, <1>8, <1>13 DEF Closed
<1>14. ASSUME NEW f \in Ranks, NEW e \in Nat, NEW C \in SUBSET Ranks, NEW D \in SUBSET Nodes,
              Reporting(f, e, C, D)
       PROVE  Closed
  BY <1>4, <1>8, <1>14 DEF Closed
<1>15. ASSUME NEW f \in Ranks, NEW e \in Nat, NEW W \in SUBSET Ranks, NEW D \in SUBSET Nodes,
              Returning(f, e, W, D)
       PROVE  Closed
  BY <1>5, <1>8, <1>15 DEF Closed
<1>16. ASSUME NEW E \in SUBSET Ranks, NEW D \in SUBSET Nodes, Finishing(E, D) PROVE Closed
  BY <1>6, <1>8, <1>16 DEF Closed
<1>17. Stopping => Closed
  BY <1>7, NotReleased DEF Closed
<1>. QED
  BY <1>2, <1>11, <1>13, <1>14, <1>15, <1>16, <1>17 DEF Shapes

\* A step as the abstract barrier sees it: a closed barrier is entered or opens with all
\* in it, an open one is left.
LEMMA BarrierStep ==
    ASSUME QuietCase, TypeOK, DurableInv, QuietInv, Shapes, Shapes', [Next]_vars
    PROVE  \/ Closed /\ Closed' /\ \A r \in Ranks : InTheBarrier(r) => InTheBarrier(r)'
           \/ Closed /\ Opened' /\ \A r \in Ranks : InTheBarrier(r) /\ InTheBarrier(r)'
           \/ Opened /\ Opened' /\ \A r \in Ranks : InTheBarrier(r)' => InTheBarrier(r)
           \/ \A r \in Ranks : ~InTheBarrier(r) /\ ~InTheBarrier(r)'
<1>. USE DEF QuietInv
<1>1. ASSUME Closed, NEW r \in Ranks, InTheBarrier(r) PROVE InTheBarrier(r)'
  <2>1. CASE \E q \in Ranks : Own(q)
    <3>1. PICK q \in Ranks : Own(q)
      BY <2>1
    <3>2. /\ \A p \in Ranks \ {q} : InTheBarrier(p)' = InTheBarrier(p)
          /\ InTheBarrier(q) /\ ~InTheBarrier(q)' => rank_in[q] # <<>> \/ pending[q]
      BY <3>1, PhaseFaultDaemon, BarrierMoves
    <3>3. InTheBarrier(q) => rank_in[q] = <<>> /\ ~pending[q]
      BY <1>1 DEF Closed
    <3>. QED  BY <1>1, <3>2, <3>3
  <2>. QED  BY <1>1, <2>1, BarrierKept, Steps
<1>2. ASSUME Opened, NEW r \in Ranks, InTheBarrier(r)' PROVE InTheBarrier(r)
  <2>1. CASE \E q \in Ranks : Own(q)
    <3>1. PICK q \in Ranks : Own(q)
      BY <2>1
    <3>2. /\ \A p \in Ranks \ {q} : InTheBarrier(p)' = InTheBarrier(p)
          /\ ~InTheBarrier(q) /\ InTheBarrier(q)' => pc[q] \in {"launched", "wait_commit"}
      BY <3>1, PhaseFaultDaemon, BarrierMoves
    <3>3. ~InTheBarrier(q) => pc[q] \notin {"launched", "wait_commit"}
      BY <1>2 DEF Opened
    <3>. QED  BY <1>2, <3>2, <3>3
  <2>. QED  BY <1>2, <2>1, BarrierKept, Steps
<1>i. ASSUME NEW r \in Ranks
      PROVE  (Inside(r) => InTheBarrier(r)) /\ (Inside(r)' => InTheBarrier(r)')
  BY DEF Inside, Waits, Living, InTheBarrier
<1>3. CASE AllUp /\ \E W \in SUBSET Ranks, D \in SUBSET Nodes : Starting(W, D)
  <2>1. PICK W \in SUBSET Ranks, D \in SUBSET Nodes : Starting(W, D)
    BY <1>3
  <2>2. Closed
    BY <2>1 DEF Shapes
  <2>3. CASE \E W2 \in SUBSET Ranks, D2 \in SUBSET Nodes : Starting(W2, D2)'
    BY <1>1, <2>2, <2>3 DEF Shapes
  <2>4. CASE Open(0)' /\ \A r \in Ranks : Inside(r) /\ Inside(r)'
    BY <1>i, <2>2, <2>4 DEF Shapes
  <2>. QED  BY <1>3, <2>1, <2>3, <2>4, StartingStep
<1>4. CASE AllUp /\ \E e \in Nat : Open(e)
  <2>1. PICK e \in Nat : Open(e)
    BY <1>4
  <2>2. Opened
    BY <2>1 DEF Shapes
  <2>3. CASE Open(e)'
    BY <1>2, <2>2, <2>3 DEF Shapes
  <2>4. CASE \A q \in Ranks : pc[q] \notin InBarrier /\ pc'[q] \notin InBarrier
    BY <2>4 DEF InTheBarrier
  <2>. QED  BY <1>4, <2>1, <2>3, <2>4, OpenStep
<1>5. CASE AllUp /\ \E f \in Ranks : Failing(f, epoch[f])
  <2>1. PICK f \in Ranks, e \in Nat : Failing(f, e)
    BY <1>5, RankTypes
  <2>2. Closed
    BY <2>1 DEF Shapes
  <2>3. Failing(f, e)' \/ Reporting(f, e, {}, {})'
    BY <1>5, <2>1, FailingStep
  <2>. QED  BY <1>1, <2>2, <2>3 DEF Shapes
<1>6. CASE AllUp /\ \E f \in Ranks, C \in SUBSET Ranks, D \in SUBSET Nodes : Reporting(f, epoch[f], C, D)
  <2>1. PICK f \in Ranks, e \in Nat, C \in SUBSET Ranks, D \in SUBSET Nodes : Reporting(f, e, C, D)
    BY <1>6, RankTypes
  <2>2. Closed
    BY <2>1 DEF Shapes
  <2>3. \/ \E C2 \in SUBSET Ranks, D2 \in SUBSET Nodes : Reporting(f, e, C2, D2)'
        \/ Returning(f, e, {}, {})'
    BY <1>6, <2>1, ReportingStep
  <2>. QED  BY <1>1, <2>2, <2>3 DEF Shapes
<1>7. CASE AllUp /\ \E f \in Ranks, W \in SUBSET Ranks, D \in SUBSET Nodes : Returning(f, epoch[f], W, D)
  <2>1. PICK f \in Ranks, e \in Nat, W \in SUBSET Ranks, D \in SUBSET Nodes : Returning(f, e, W, D)
    BY <1>7, RankTypes
  <2>2. Closed
    BY <2>1 DEF Shapes
  <2>3. CASE \E W2 \in SUBSET Ranks, D2 \in SUBSET Nodes : Returning(f, e, W2, D2)'
    BY <1>1, <2>2, <2>3 DEF Shapes
  <2>4. CASE Open(e)' /\ \A r \in Ranks : Inside(r) /\ Inside(r)'
    BY <1>i, <2>2, <2>4 DEF Shapes
  <2>. QED  BY <1>7, <2>1, <2>3, <2>4, ReturningStep
<1>8. CASE AllUp /\ \E E \in SUBSET Ranks, D \in SUBSET Nodes : Finishing(E, D)
  <2>1. PICK E \in SUBSET Ranks, D \in SUBSET Nodes : Finishing(E, D)
    BY <1>8
  <2>2. Closed
    BY <2>1 DEF Shapes
  <2>3. \/ \E E2 \in SUBSET Ranks, D2 \in SUBSET Nodes : Finishing(E2, D2)'
        \/ Stopping'
    BY <1>8, <2>1, FinishingStep
  <2>. QED  BY <1>1, <2>2, <2>3 DEF Shapes
<1>9. CASE Intact /\ Stopping
  <2>1. Stopping'
    BY <1>9, StoppingStep
  <2>. QED  BY <1>1, <1>9, <2>1 DEF Shapes
<1>. QED
  BY <1>3, <1>4, <1>5, <1>6, <1>7, <1>8, <1>9 DEF Phase

\* At most one rank enters or leaves in one step.
LEMMA OneMoves ==
    ASSUME TypeOK, Phase, [Next]_vars
    PROVE  \/ \A q \in Ranks : InTheBarrier(q)' = InTheBarrier(q)
           \/ \E r \in Ranks : \A q \in Ranks \ {r} : InTheBarrier(q)' = InTheBarrier(q)
<1>1. CASE \E r \in Ranks : Own(r)
  BY <1>1, PhaseFaultDaemon, BarrierMoves
<1>. QED
  BY <1>1, BarrierKept, Steps

\* Who has entered and who is released, in a closed barrier and in an open one.
Entered == {r \in Waiting : ~ReleaseUnderway(r)}
Released == {r \in Waiting : ReleaseUnderway(r)}

BarrierView ==
    /\ Closed => Entered = Waiting /\ Released = {}
    /\ Opened => Entered = {} /\ Released = Waiting
    /\ (\A r \in Ranks : ~InTheBarrier(r)) => Entered = {} /\ Released = {}
    /\ Waiting = {r \in Ranks : InTheBarrier(r)}

LEMMA BarrierSets == BarrierView
BY DEF BarrierView, Closed, Opened, Entered, Released, Waiting, InTheBarrier

\* Every step of the job is one of the abstract barrier, or none.
LEMMA BarrierStepRefines ==
    ASSUME QuietCase, TypeOK, DurableInv, QuietInv, Shapes, Shapes', [Next]_vars,
           BarrierView, BarrierView' 
    PROVE  \/ UNCHANGED <<Entered, Released>>
           \/ Entered = Ranks /\ Released = {} /\ Entered' = {} /\ Released' = Ranks
           \/ \E r \in Ranks : /\ r \notin Entered \cup Released
                              /\ Entered' = Entered \cup {r} /\ Released' = Released
           \/ \E r \in Released : Entered' = Entered /\ Released' = Released \ {r}
<1>0. /\ Waiting = {r \in Ranks : InTheBarrier(r)}
      /\ Waiting' = {r \in Ranks : InTheBarrier(r)'}
  BY DEF BarrierView
<1>1. ASSUME Closed, Closed', \A r \in Ranks : InTheBarrier(r) => InTheBarrier(r)'
      PROVE  \/ UNCHANGED <<Entered, Released>>
             \/ \E r \in Ranks : /\ r \notin Entered \cup Released
                                /\ Entered' = Entered \cup {r} /\ Released' = Released
  <2>1. Entered = Waiting /\ Released = {} /\ Entered' = Waiting' /\ Released' = {}
    BY <1>1 DEF BarrierView
  <2>2. Waiting' = Waiting \/ \E r \in Ranks : r \notin Waiting /\ Waiting' = Waiting \cup {r}
    BY <1>0, <1>1, OneMoves DEF QuietInv
  <2>. QED  BY <2>1, <2>2
<1>2. ASSUME Closed, Opened', \A r \in Ranks : InTheBarrier(r) /\ InTheBarrier(r)'
      PROVE  Entered = Ranks /\ Released = {} /\ Entered' = {} /\ Released' = Ranks
  <2>1. Waiting = Ranks /\ Waiting' = Ranks
    BY <1>0, <1>2
  <2>. QED  BY <1>2, <2>1 DEF BarrierView
<1>3. ASSUME Opened, Opened', \A r \in Ranks : InTheBarrier(r)' => InTheBarrier(r)
      PROVE  \/ UNCHANGED <<Entered, Released>>
             \/ \E r \in Released : Entered' = Entered /\ Released' = Released \ {r}
  <2>1. Entered = {} /\ Released = Waiting /\ Entered' = {} /\ Released' = Waiting'
    BY <1>3 DEF BarrierView
  <2>2. Waiting' = Waiting \/ \E r \in Waiting : Waiting' = Waiting \ {r}
    BY <1>0, <1>3, OneMoves DEF QuietInv
  <2>. QED  BY <2>1, <2>2
<1>4. ASSUME \A r \in Ranks : ~InTheBarrier(r) /\ ~InTheBarrier(r)'
      PROVE  UNCHANGED <<Entered, Released>>
  BY <1>4 DEF BarrierView
<1>. QED
  BY <1>1, <1>2, <1>3, <1>4, BarrierStep

\* The daemons' barrier implements the abstract one: from "barrier" over the head daemons
\* and the controller to "release", nobody leaves before all have entered.
THEOREM BarrierImplemented ==
    ASSUME QuietCase
    PROVE  Spec => ImplementsBarrier
<1>1. Init => Barrier!Init
  <2>1. Init => Waiting = {}
    BY DEF Init, RankInit, Waiting, InBarrier
  <2>. QED  BY <2>1 DEF Barrier!Init
<1>2. /\ TypeOK /\ DurableInv /\ QuietInv /\ Shapes /\ Shapes' /\ BarrierView /\ BarrierView'
      /\ [Next]_vars
      => [Barrier!Next]_(Barrier!barrierVars)
  <2>. SUFFICES ASSUME TypeOK, DurableInv, QuietInv, Shapes, Shapes', BarrierView, BarrierView',
                       [Next]_vars
                PROVE  [Barrier!Next]_(Barrier!barrierVars)
    OBVIOUS
  <2>1. Entered = {r \in Waiting : ~ReleaseUnderway(r)} /\ Released = {r \in Waiting : ReleaseUnderway(r)}
    BY DEF Entered, Released
  <2>2. /\ Entered' = {r \in Waiting : ~ReleaseUnderway(r)}'
        /\ Released' = {r \in Waiting : ReleaseUnderway(r)}'
    BY DEF Entered, Released
  <2>3. CASE UNCHANGED <<Entered, Released>>
    <3>1. UNCHANGED Barrier!barrierVars
      BY <2>3, <2>1, <2>2 DEF Barrier!barrierVars
    <3>. QED  BY <3>1
  <2>4. CASE Entered = Ranks /\ Released = {} /\ Entered' = {} /\ Released' = Ranks
    <3>1. Barrier!Open
      BY <2>4, <2>1, <2>2 DEF Barrier!Open
    <3>. QED  BY <3>1 DEF Barrier!Next
  <2>5. ASSUME NEW r \in Ranks, r \notin Entered \cup Released,
               Entered' = Entered \cup {r}, Released' = Released
        PROVE  [Barrier!Next]_(Barrier!barrierVars)
    <3>1. Barrier!Enter(r)
      BY <2>5, <2>1, <2>2 DEF Barrier!Enter
    <3>. QED  BY <3>1 DEF Barrier!Next
  <2>6. ASSUME NEW r \in Released, Entered' = Entered, Released' = Released \ {r}
        PROVE  [Barrier!Next]_(Barrier!barrierVars)
    <3>1. Barrier!Leave(r) /\ r \in Ranks
      BY <2>6, <2>1, <2>2 DEF Barrier!Leave, Waiting
    <3>. QED  BY <3>1 DEF Barrier!Next
  <2>. QED
    BY <2>3, <2>4, <2>5, <2>6, BarrierStepRefines
<1>3. MaxFaults <= 1
  BY DEF QuietCase
<1>. QED
  BY <1>1, <1>2, <1>3, PhaseShapes, BarrierSets, AlwaysQuiet, AlwaysDurable, TypeCorrect, PTL
  DEF Spec, ImplementsBarrier, Barrier!Spec
==================================================================================
