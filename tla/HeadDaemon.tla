------------------------------ MODULE HeadDaemon ------------------------------
(***************************************************************************)
(* runtime/exampi_head_daemon: one per node, between the node's ranks and  *)
(* fault daemons and the controller. One action per packet handler; its    *)
(* select loop takes the packets of the connections in any order. A        *)
(* counter that the code keeps as None until its first packet is 0 here.   *)
(*                                                                         *)
(* A handler that raises (KeyError, OSError, socket.error, ValueError)     *)
(* ends the daemon: head_state becomes "raised".                           *)
(***************************************************************************)
EXTENDS RuntimeNet

VARIABLES
    head_state,         \* "up", "stopped" or "raised"
    registered,         \* ranks: registered[r] is the pid in ranks[r], 0 if absent
    fault_daemons,      \* fault_daemons[n]: the ranks with an entry
    barrier_count,
    success_counter,
    cleanups,
    node_minimum_epoch,
    disconnected

headVars == <<head_state, registered, fault_daemons, barrier_count,
              success_counter, cleanups, node_minimum_epoch, disconnected>>

HeadTypeOK ==
    /\ head_state \in [Nodes -> {"up", "stopped", "raised"}]
    /\ registered \in [Ranks -> Nat]
    /\ fault_daemons \in [Nodes -> SUBSET Ranks]
    /\ barrier_count \in [Nodes -> Nat]
    /\ success_counter \in [Nodes -> Nat]
    /\ cleanups \in [Nodes -> Nat]
    /\ node_minimum_epoch \in [Nodes -> Nat \cup {None}]
    /\ disconnected \in [Nodes -> Nat]

HeadInit ==
    /\ head_state = [n \in Nodes |-> "up"]
    /\ registered = [r \in Ranks |-> 0]
    /\ fault_daemons = [n \in Nodes |-> {}]
    /\ barrier_count = [n \in Nodes |-> 0]
    /\ success_counter = [n \in Nodes |-> 0]
    /\ cleanups = [n \in Nodes |-> 0]
    /\ node_minimum_epoch = [n \in Nodes |-> None]
    /\ disconnected = [n \in Nodes |-> 0]

\* The keys of self.ranks on node n, and those whose connection is still open.
ranks(n) == {r \in LocalRanks(n) : registered[r] # 0}
Connected(r) == proc[r] = "alive" /\ pid[r] = registered[r]

\* self.node_minimum_epoch after one more epoch.
Minimum(current, e) == IF current = None \/ e < current THEN e ELSE current

Bump(counter, n) == [counter EXCEPT ![n] = @ + 1]
Reset(counter, n) == [counter EXCEPT ![n] = 0]

Raises(n) == head_state' = [head_state EXCEPT ![n] = "raised"]

SendToController(n, packet) == head_out' = Push(head_out, n, packet)

\* send_to_ranks: what is sent to a process that has exited is lost.
SendToRanks(n, packet) ==
    rank_in' = PushAll(rank_in, {r \in ranks(n) : Connected(r)}, packet)

\* The socket of a process that has exited may refuse the packet.
SendMayRaise(n) == \E r \in ranks(n) : ~Connected(r)

--------------------------------------------------------------------------------
(***************************************************************************)
(* Packets of the ranks.                                                   *)
(***************************************************************************)
\* A rank that is not in ranks is registered with its pid and socket; the barrier
\* of the node is complete with the packet that makes the count equal the number
\* of local ranks.
process_barrier(r) ==
    LET n == NodeOf[r] IN
    /\ head_state[n] = "up"
    /\ Receives(rank_out, r, "barrier")
    /\ rank_out' = Pop(rank_out, r)
    /\ registered' = IF registered[r] = 0
                       THEN [registered EXCEPT ![r] = Head(rank_out[r]).pid]
                       ELSE registered
    /\ IF barrier_count[n] + 1 = local_rank_count(n)
         THEN /\ barrier_count' = Reset(barrier_count, n)
              /\ SendToController(n, [type |-> "node_barrier"])
         ELSE /\ barrier_count' = Bump(barrier_count, n)
              /\ UNCHANGED head_out
    /\ UNCHANGED <<rank_in, fdNet, head_in, osVars, head_state, fault_daemons,
                   success_counter, cleanups, node_minimum_epoch, disconnected>>

\* A rank reports its epoch from the signal handler. When as many have reported as
\* are registered, the smallest goes to the controller. KeyError when the rank is
\* no longer in ranks.
process_cleanup(r) ==
    LET n == NodeOf[r]
        lowest == Minimum(node_minimum_epoch[n], Head(rank_out[r]).epoch) IN
    /\ head_state[n] = "up"
    /\ Receives(rank_out, r, "cleanup")
    /\ rank_out' = Pop(rank_out, r)
    /\ IF registered[r] = 0
         THEN Raises(n) /\ UNCHANGED <<cleanups, node_minimum_epoch, head_out>>
         ELSE /\ UNCHANGED head_state
              /\ IF cleanups[n] + 1 = Cardinality(ranks(n))
                   THEN /\ SendToController(n, [type |-> "node_epoch", epoch |-> lowest])
                        /\ cleanups' = Reset(cleanups, n)
                        /\ node_minimum_epoch' = [node_minimum_epoch EXCEPT ![n] = None]
                   ELSE /\ cleanups' = Bump(cleanups, n)
                        /\ node_minimum_epoch' = [node_minimum_epoch EXCEPT ![n] = lowest]
                        /\ UNCHANGED head_out
    /\ UNCHANGED <<rank_in, fdNet, head_in, osVars, registered, fault_daemons,
                   barrier_count, success_counter, disconnected>>

--------------------------------------------------------------------------------
(***************************************************************************)
(* Packets of the fault daemons.                                           *)
(***************************************************************************)
\* The rank leaves ranks (KeyError if it never entered) and its fault daemon enters
\* fault_daemons. Successful exits are counted, the others go to the controller.
process_termination(r) ==
    LET n == NodeOf[r]
        code == Head(fd_out[r]).code
        complete == success_counter[n] + 1 = local_rank_count(n) IN
    /\ head_state[n] = "up"
    /\ Receives(fd_out, r, "termination")
    /\ fd_out' = Pop(fd_out, r)
    /\ IF registered[r] = 0
         THEN Raises(n) /\ UNCHANGED <<registered, fault_daemons, success_counter, head_out>>
         ELSE /\ registered' = [registered EXCEPT ![r] = 0]
              /\ fault_daemons' = [fault_daemons EXCEPT ![n] = @ \cup {r}]
              /\ \/ /\ code = Success /\ complete
                    /\ success_counter' = Reset(success_counter, n)
                    /\ SendToController(n, [type |-> "node_success"])
                 \/ /\ code = Success /\ ~complete
                    /\ success_counter' = Bump(success_counter, n)
                    /\ UNCHANGED head_out
                 \/ /\ code # Success
                    /\ SendToController(n, [type |-> "process_exit", code |-> code,
                                            epoch |-> Head(fd_out[r]).epoch])
                    /\ UNCHANGED success_counter
              /\ UNCHANGED head_state
    /\ UNCHANGED <<rankNet, fd_in, head_in, osVars, barrier_count, cleanups,
                   node_minimum_epoch, disconnected>>

\* After the last local acknowledgement the head reports and stops.
process_shutdown_ack(r) ==
    LET n == NodeOf[r] IN
    /\ head_state[n] = "up"
    /\ Receives(fd_out, r, "shutdown_ack")
    /\ fd_out' = Pop(fd_out, r)
    /\ IF disconnected[n] + 1 = local_rank_count(n)
         THEN /\ disconnected' = Reset(disconnected, n)
              /\ SendToController(n, [type |-> "node_shutdown"])
              /\ head_state' = [head_state EXCEPT ![n] = "stopped"]
         ELSE /\ disconnected' = Bump(disconnected, n)
              /\ UNCHANGED <<head_out, head_state>>
    /\ UNCHANGED <<rankNet, fd_in, head_in, osVars, registered, fault_daemons,
                   barrier_count, success_counter, cleanups, node_minimum_epoch>>

--------------------------------------------------------------------------------
(***************************************************************************)
(* Packets of the controller.                                              *)
(***************************************************************************)
\* "release" goes to every registered rank.
process_release(n) ==
    /\ head_state[n] = "up"
    /\ Receives(head_in, n, "release")
    /\ head_in' = Pop(head_in, n)
    /\ SendToRanks(n, [type |-> "release"])
    /\ \/ UNCHANGED head_state
       \/ SendMayRaise(n) /\ Raises(n)
    /\ UNCHANGED <<rank_out, fdNet, head_out, osVars, registered, fault_daemons,
                   barrier_count, success_counter, cleanups, node_minimum_epoch, disconnected>>

\* The reaped process of a registered rank: its pid is gone, os.kill raises OSError.
PidGone(r) == proc[r] = "reaped" \/ pid[r] # registered[r]

\* Every process of the node is dead. (A mutant overlooks the case.)
NeverAllDead(n) == FALSE
AllDead(n) == ranks(n) = {}

\* A process failed somewhere. A node without ranks reports the failed process's
\* epoch at once; the others signal every registered process. SIGUSR2 does not queue.
process_error(n) ==
    /\ head_state[n] = "up"
    /\ Receives(head_in, n, "error")
    /\ head_in' = Pop(head_in, n)
    /\ IF AllDead(n)
         THEN /\ SendToController(n, [type |-> "node_epoch", epoch |-> Head(head_in[n]).epoch])
              /\ UNCHANGED <<pending, head_state>>
         ELSE /\ pending' = [r \in Ranks |-> pending[r] \/ (r \in ranks(n) /\ Connected(r))]
              /\ IF \E r \in ranks(n) : PidGone(r) THEN Raises(n) ELSE UNCHANGED head_state
              /\ UNCHANGED head_out
    /\ UNCHANGED <<rankNet, fdNet, pid, proc, exit_code, registered, fault_daemons,
                   barrier_count, success_counter, cleanups, node_minimum_epoch, disconnected>>

\* The fault daemons that are told to restart. (A mutant: all of the node.)
EveryFaultDaemon(n) == LocalRanks(n)
ActiveFaultDaemons(n) == fault_daemons[n]

\* "commit" goes to the registered ranks and "restart" to every fault daemon that
\* ever reported a termination: entries are never removed from fault_daemons.
process_commit(n) ==
    LET e == Head(head_in[n]).epoch IN
    /\ head_state[n] = "up"
    /\ Receives(head_in, n, "commit")
    /\ head_in' = Pop(head_in, n)
    /\ SendToRanks(n, [type |-> "commit", epoch |-> e])
    /\ \/ /\ UNCHANGED head_state
          /\ fd_in' = PushAll(fd_in, ActiveFaultDaemons(n), [type |-> "restart", epoch |-> e])
       \/ /\ SendMayRaise(n) /\ Raises(n)
          /\ UNCHANGED fd_in
    /\ UNCHANGED <<rank_out, fd_out, head_out, osVars, registered, fault_daemons,
                   barrier_count, success_counter, cleanups, node_minimum_epoch, disconnected>>

\* "shutdown" goes to every fault daemon.
process_shutdown(n) ==
    /\ head_state[n] = "up"
    /\ Receives(head_in, n, "shutdown")
    /\ head_in' = Pop(head_in, n)
    /\ fd_in' = PushAll(fd_in, fault_daemons[n], [type |-> "shutdown"])
    /\ UNCHANGED <<rankNet, fd_out, head_out, osVars, headVars>>

HeadStep(n) ==
    \/ \E r \in LocalRanks(n) : \/ process_barrier(r) \/ process_cleanup(r)
                                \/ process_termination(r) \/ process_shutdown_ack(r)
    \/ process_release(n) \/ process_error(n) \/ process_commit(n) \/ process_shutdown(n)

HeadNext == \E n \in Nodes : HeadStep(n)
================================================================================
