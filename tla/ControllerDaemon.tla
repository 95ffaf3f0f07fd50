---------------------------- MODULE ControllerDaemon ----------------------------
(***************************************************************************)
(* runtime/exampi_controller_daemon: one per job. It collects what the     *)
(* head daemons report and sends the decisions of the job: release,        *)
(* error, commit, shutdown. A counter that the code keeps as None until    *)
(* its first packet is 0 here.                                             *)
(***************************************************************************)
EXTENDS RuntimeNet

VARIABLES
    controller,             \* "up", "stopped" or "raised"
    head_daemons,           \* the nodes with an entry in head_daemons
    head_daemon_count,
    node_successes,
    node_epochs,
    global_minimum_epoch,
    ctl_disconnected        \* ControllerDaemon.disconnected

controllerVars == <<controller, head_daemons, head_daemon_count, node_successes,
                    node_epochs, global_minimum_epoch, ctl_disconnected>>

ControllerTypeOK ==
    /\ controller \in {"up", "stopped", "raised"}
    /\ head_daemons \subseteq Nodes
    /\ head_daemon_count \in Nat
    /\ node_successes \in Nat
    /\ node_epochs \in Nat
    /\ global_minimum_epoch \in Nat \cup {None}
    /\ ctl_disconnected \in Nat

ControllerInit ==
    /\ controller = "up"
    /\ head_daemons = {}
    /\ head_daemon_count = 0
    /\ node_successes = 0
    /\ node_epochs = 0
    /\ global_minimum_epoch = None
    /\ ctl_disconnected = 0

\* self.global_minimum_epoch after one more epoch. (Mutants: the initial None is taken
\* for an epoch; the last report wins.)
MinimumWithNone(e) == IF e < global_minimum_epoch THEN e ELSE global_minimum_epoch
LastReport(e) == e
GlobalMinimum(e) ==
    IF global_minimum_epoch = None \/ e < global_minimum_epoch
      THEN e ELSE global_minimum_epoch

\* The controller takes the packet of that type from node n's connection.
Takes(n, type) ==
    /\ controller = "up"
    /\ Receives(head_out, n, type)
    /\ head_out' = Pop(head_out, n)
    /\ UNCHANGED <<rankNet, fdNet, osVars>>

\* send_to_head_daemons: to every node in S.
SendToHeadDaemons(S, packet) == head_in' = PushAll(head_in, S, packet)

\* The barrier packet completes the round. (A mutant counts the nodes ever registered.)
AllNodesRegistered(n) == head_daemons \cup {n} = Nodes
AllNodesWaiting(n) == head_daemon_count + 1 = NodeCount

\* A node's ranks have all entered the barrier; the last node releases everyone.
node_barrier(n) ==
    /\ Takes(n, "node_barrier")
    /\ head_daemons' = head_daemons \cup {n}
    /\ IF AllNodesWaiting(n)
         THEN /\ head_daemon_count' = 0
              /\ SendToHeadDaemons(head_daemons', [type |-> "release"])
         ELSE /\ head_daemon_count' = head_daemon_count + 1
              /\ UNCHANGED head_in
    /\ UNCHANGED <<controller, node_successes, node_epochs, global_minimum_epoch,
                   ctl_disconnected>>

\* The success packet is the last node's. (A mutant does not wait for the others.)
AnyNodeSucceeded == TRUE
AllNodesSucceeded == node_successes + 1 = NodeCount

\* A node's processes have all exited with MPI_SUCCESS; the last node ends the job.
\* KeyError when the node is not in head_daemons.
node_success(n) ==
    /\ Takes(n, "node_success")
    /\ IF n \notin head_daemons
         THEN controller' = "raised" /\ UNCHANGED <<node_successes, head_in>>
         ELSE /\ UNCHANGED controller
              /\ IF AllNodesSucceeded
                   THEN /\ node_successes' = 0
                        /\ SendToHeadDaemons(head_daemons, [type |-> "shutdown"])
                   ELSE /\ node_successes' = node_successes + 1
                        /\ UNCHANGED head_in
    /\ UNCHANGED <<head_daemons, head_daemon_count, node_epochs, global_minimum_epoch,
                   ctl_disconnected>>

\* A node has shut down; the controller stops with the last one.
node_shutdown(n) ==
    /\ Takes(n, "node_shutdown")
    /\ IF ctl_disconnected + 1 = Cardinality(head_daemons)
         THEN ctl_disconnected' = 0 /\ controller' = "stopped"
         ELSE ctl_disconnected' = ctl_disconnected + 1 /\ UNCHANGED controller
    /\ UNCHANGED <<head_in, head_daemons, head_daemon_count, node_successes, node_epochs,
                   global_minimum_epoch>>

\* A process failed. Only MPIX_TRY_RELOAD starts a recovery, any other status
\* raises NotImplementedError.
process_exit(n) ==
    /\ Takes(n, "process_exit")
    /\ IF Head(head_out[n]).code = TryReload
         THEN /\ SendToHeadDaemons(head_daemons, [type |-> "error",
                                                  epoch |-> Head(head_out[n]).epoch])
              /\ UNCHANGED controller
         ELSE controller' = "raised" /\ UNCHANGED head_in
    /\ UNCHANGED <<head_daemons, head_daemon_count, node_successes, node_epochs,
                   global_minimum_epoch, ctl_disconnected>>

\* A node has agreed on its epoch; with the last report the minimum is committed.
node_epoch(n) ==
    LET lowest == GlobalMinimum(Head(head_out[n]).epoch) IN
    /\ Takes(n, "node_epoch")
    /\ IF node_epochs + 1 = NodeCount
         THEN /\ SendToHeadDaemons(head_daemons, [type |-> "commit", epoch |-> lowest])
              /\ node_epochs' = 0
              /\ global_minimum_epoch' = None
         ELSE /\ node_epochs' = node_epochs + 1
              /\ global_minimum_epoch' = lowest
              /\ UNCHANGED head_in
    /\ UNCHANGED <<controller, head_daemons, head_daemon_count, node_successes,
                   ctl_disconnected>>

ControllerStep ==
    \E n \in Nodes : \/ node_barrier(n) \/ node_success(n) \/ node_shutdown(n)
                     \/ process_exit(n) \/ node_epoch(n)
================================================================================
