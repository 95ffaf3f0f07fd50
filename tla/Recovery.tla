-------------------------------- MODULE Recovery --------------------------------
(***************************************************************************)
(* The whole runtime: application processes, fault daemons, head daemons   *)
(* and the controller, from mpiexec's launch through failures and          *)
(* recoveries to the shutdown of the job.                                  *)
(***************************************************************************)
EXTENDS FaultDaemon, HeadDaemon, ControllerDaemon

netVars == <<rankNet, fdNet, headNet>>
vars == <<netVars, osVars, rankVars, faultDaemonVars, headVars, controllerVars>>

Init ==
    /\ NetInit
    /\ RankInit
    /\ FaultDaemonInit
    /\ HeadInit
    /\ ControllerInit

\* A daemon that raised has closed its connections and the job cannot complete:
\* the model does not follow the processes it leaves behind.
Intact == controller # "raised" /\ \A n \in Nodes : head_state[n] # "raised"

Rank(r) == Intact /\ RankStep(r) /\ UNCHANGED <<faultDaemonVars, headVars, controllerVars>>
Signal(r) == Intact /\ setErr(r) /\ UNCHANGED <<faultDaemonVars, headVars, controllerVars>>
Failure(r) == Intact /\ Fail(r) /\ UNCHANGED <<faultDaemonVars, headVars, controllerVars>>
Monitor(r) == Intact /\ FaultDaemonStep(r) /\ UNCHANGED <<headVars, controllerVars>>
NodeHead(n) == Intact /\ HeadStep(n) /\ UNCHANGED <<rankVars, faultDaemonVars, controllerVars>>
Controller == Intact /\ ControllerStep /\ UNCHANGED <<rankVars, faultDaemonVars, headVars>>

\* The job is over: nothing is left to do.
JobOver == controller = "stopped" /\ \A r \in Ranks : fault_daemon[r] = "stopped"
Finished == JobOver /\ UNCHANGED vars

Next ==
    \/ \E r \in Ranks : Rank(r) \/ Signal(r) \/ Failure(r) \/ Monitor(r)
    \/ \E n \in Nodes : NodeHead(n)
    \/ Controller
    \/ Finished

\* Every process is scheduled by its operating system and every select loop serves
\* its connections; nothing makes a process fail.
Fairness ==
    /\ \A r \in Ranks : WF_vars(Rank(r)) /\ WF_vars(Signal(r)) /\ WF_vars(Monitor(r))
    /\ \A n \in Nodes : WF_vars(NodeHead(n))
    /\ WF_vars(Controller)

Spec == Init /\ [][Next]_vars
FairSpec == Spec /\ Fairness

--------------------------------------------------------------------------------
\* Type correctness of the composition.
TypeOK ==
    /\ NetTypeOK
    /\ RankTypeOK
    /\ FaultDaemonTypeOK
    /\ HeadTypeOK
    /\ ControllerTypeOK

\* No packet sequence of the job makes a daemon raise an exception: the handlers
\* never meet a rank, a pid or an exit status they do not expect.
NoDaemonRaises == Intact

\* Wherever a process dies, also between opening and completing one of its files, the
\* epoch that its fault daemon then reads in the epoch file is backed by a complete
\* checkpoint, the one that a restart in that epoch loads: checkpoint_write completes the
\* checkpoint before it touches the epoch file ("NOTE needed in case process dies").
ReportedEpochIsDurable ==
    \A r \in Ranks :
        (proc[r] # "alive" /\ ReadEpochFile(r) > 0) => ReadEpochFile(r) - 1 \in checkpoints[r]

\* Processes that wait in the recovery's barrier, restarted or surviving, are in the
\* same epoch: they were sent one decision.
RecoveryEpochsAgree ==
    \A q, r \in Ranks :
        (/\ proc[q] = "alive" /\ pc[q] \in {"restore_barrier", "reload_barrier"}
         /\ proc[r] = "alive" /\ pc[r] \in {"restore_barrier", "reload_barrier"})
        => epoch[q] = epoch[r]

\* The epoch the controller commits is one that every rank can go back to: no
\* surviving process is behind it and a failed one has reported at least that epoch
\* ("find minimum all nodes have").
RankReached(r, e) == IF proc[r] = "alive" THEN e <= epoch[r] ELSE e <= ReadEpochFile(r)
CommitReachedByAll ==
    \A n \in Nodes : \A k \in 1..Len(head_in[n]) :
        head_in[n][k].type = "commit" =>
            \A r \in LocalRanks(n) : RankReached(r, head_in[n][k].epoch)

\* A decision to restart waits only for a fault daemon whose process has terminated
\* ("send restart to active fault daemons").
RestartOnlyTerminated ==
    \A r \in Ranks : Carries(fd_in, r, "restart") => proc[r] # "alive"

\* The job is shut down only when every rank's process has exited successfully
\* ("once all have succeeded").
ShutdownOnlyAfterSuccess ==
    (\E n \in Nodes : Carries(head_in, n, "shutdown")) =>
        \A r \in Ranks : proc[r] # "alive" /\ exit_code[r] = Success

\* A process that leaves the barrier of checkpoint_read is in the epoch its fault
\* daemon was told to restart from ("agreed epoch to restart from").
RestartInAgreedEpoch ==
    [][\A r \in Ranks : (pc[r] = "restore_barrier" /\ pc'[r] = "initialized")
                            => epoch'[r] = set_epoch[r]]_vars

\* "release" has been sent to the rank's node and is not yet received by the rank.
ReleaseUnderway(r) ==
    \/ Carries(rank_in, r, "release")
    \/ Carries(head_in, NodeOf[r], "release")

\* The daemons' barrier as the abstract one: a rank is in it from its "barrier" packet
\* to its return, and the barrier opens when the controller sends "release".
Waiting == {r \in Ranks : proc[r] = "alive" /\ pc[r] \in InBarrier}
Barrier == INSTANCE GlobalBarrier WITH
               Members <- Ranks,
               entered <- {r \in Waiting : ~ReleaseUnderway(r)},
               released <- {r \in Waiting : ReleaseUnderway(r)}

\* The path from "barrier" over the head daemons and the controller to "release" is a
\* barrier: no process leaves before all have entered, in every round.
ImplementsBarrier == Barrier!Spec

\* Whatever fails, the job is shut down in the end.
JobCompletes == <>JobOver

\* A rank never has two processes: a fault daemon launches one only after the last one
\* has exited and was waited for.
OneProcessPerRank == [][\A r \in Ranks : pid'[r] # pid[r] => proc[r] = "reaped"]_vars
================================================================================
