------------------------------ MODULE FaultDaemon ------------------------------
(***************************************************************************)
(* runtime/exampi_fault_daemon: one per rank. It launches the application  *)
(* process, waits for its exit, informs the head daemon and waits for the  *)
(* decision: "restart" (launch again in the agreed epoch) or "shutdown".   *)
(***************************************************************************)
EXTENDS RankProcess

VARIABLES
    fault_daemon,   \* "app": in process.wait(); "recv": in inform_head's recv
    set_epoch       \* FaultDaemon.epoch, exported to the process as EXAMPI_EPOCH

faultDaemonVars == <<fault_daemon, set_epoch>>

FaultDaemonTypeOK ==
    /\ fault_daemon \in [Ranks -> {"app", "recv", "stopped"}]
    /\ set_epoch \in [Ranks -> Nat]

FaultDaemonInit ==
    /\ fault_daemon = [r \in Ranks |-> "app"]
    /\ set_epoch = [r \in Ranks |-> 0]

\* What inform_head makes of the epoch file: an empty one counts as epoch 0.
ReadEpochFile(r) == IF epoch_file[r] = None THEN 0 ELSE epoch_file[r]

\* process.wait() returns when the process has exited. (A mutant does not wait for it.)
WithoutWaiting(r) == TRUE
WaitReturns(r) == proc[r] = "zombie"

\* After the wait, which takes an exited process off the process table, the exit status
\* and the epoch file's content go to the head.
inform_head(r) ==
    /\ fault_daemon[r] = "app"
    /\ WaitReturns(r)
    /\ proc' = [proc EXCEPT ![r] = IF @ = "zombie" THEN "reaped" ELSE @]
    /\ fd_out' = Push(fd_out, r, [type |-> "termination", code |-> exit_code[r],
                                  epoch |-> ReadEpochFile(r)])
    /\ fault_daemon' = [fault_daemon EXCEPT ![r] = "recv"]
    /\ UNCHANGED <<rankNet, fd_in, headNet, pid, exit_code, pending,
                   rankVars, set_epoch>>

\* The decision is "restart": set_epoch, and launch runs the application again.
restart(r) ==
    /\ fault_daemon[r] = "recv"
    /\ Receives(fd_in, r, "restart")
    /\ fd_in' = Pop(fd_in, r)
    /\ set_epoch' = [set_epoch EXCEPT ![r] = Head(fd_in[r]).epoch]
    /\ Launch(r, Head(fd_in[r]).epoch)
    /\ fault_daemon' = [fault_daemon EXCEPT ![r] = "app"]
    /\ UNCHANGED <<fd_out, headNet>>

\* The decision is "shutdown": acknowledge and leave the loop.
shutdown_ack(r) ==
    /\ fault_daemon[r] = "recv"
    /\ Receives(fd_in, r, "shutdown")
    /\ fd_in' = Pop(fd_in, r)
    /\ fd_out' = Push(fd_out, r, [type |-> "shutdown_ack"])
    /\ fault_daemon' = [fault_daemon EXCEPT ![r] = "stopped"]
    /\ UNCHANGED <<rankNet, headNet, osVars, rankVars, set_epoch>>

FaultDaemonStep(r) == inform_head(r) \/ restart(r) \/ shutdown_ack(r)

FaultDaemonNext == \E r \in Ranks : FaultDaemonStep(r)
================================================================================
