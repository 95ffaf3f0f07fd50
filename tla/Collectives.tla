------------------------------- MODULE Collectives -------------------------------
(***************************************************************************)
(* The calls of all ranks and the messages they consist of                 *)
(* (src/interfaces/interface.cc, src/interfaces/mpistages.cc), from the    *)
(* transport up: all ranks make the same sequence of calls, each at its    *)
(* own pace, and a call is a list of sends and receives that depends on    *)
(* the rank. Every message of every collective has tag 0 and the context   *)
(* for point to point messages, so that only the order of messages keeps   *)
(* successive calls apart.                                                 *)
(*                                                                         *)
(* A rank may fail at any point of its calls. The others are interrupted   *)
(* in theirs, and all return to the last checkpoint that all have; what    *)
(* the interrupted calls have left in the matcher and the outbox of a      *)
(* survivor stays there.                                                   *)
(***************************************************************************)
EXTENDS Checkpoint, SimpleMatcher, SimpleDecider, ReductionOps

CONSTANTS
    Programs(_),    \* the sequences of calls that an application of a size may make
    MayFail(_),     \* the ranks that may fail in a program
    MaxRestarts     \* bound: failures

ASSUME CollectivesAssumption ==
    /\ AnySource \notin AnyRank /\ AnyTag # 0
    /\ \A n \in Sizes : \A p \in Programs(n) : MayFail(p) \subseteq 0..(n - 1)
    /\ \A n \in Sizes : \A p \in Programs(n) : Len(p) \in Nat /\ DOMAIN p = 1..Len(p)
    /\ MaxRestarts \in Nat

VARIABLES
    calls,                  \* the calls of this run, the same for all ranks
    count,                  \* of each rank: the calls it has completed
    busy,                   \* of each rank: it is inside a call
    plan,                   \* of each rank: what its call has left to send and receive
    memory,                 \* of each rank: the variables that its call works on
    epoch,                  \* Universe::epoch of each rank
    received_header_queue,  \* addresses of headers, in the order of arrival
    posted_request_queue,   \* of each rank: envelopes of the receives that interrupted
                            \* calls have left posted
    caught,                 \* of each rank: where the signal found the receive of its call
    outbox,                 \* of each rank: the send that an interrupted call has left there
    is_errSet,              \* FaultHandler::is_errSet of each rank
    failed,                 \* the rank that has failed and is not yet restarted
    restarts,               \* failures so far
    disturbed               \* a recovery found something of the calls it interrupted;
                            \* for the properties, the code has no such variable

callVars == <<calls, count, busy, plan, memory>>
leftVars == <<posted_request_queue, caught, outbox>>
faultVars == <<is_errSet, failed, restarts, disturbed>>
vars == <<world_size, callVars, epoch, received_header_queue, leftVars, faultVars,
          transportVars, commVars, checkpointVars>>

NoRank == -1
Call(r) == calls[count[r] + 1]

--------------------------------------------------------------------------------
(* The sends and receives of a call, made by a rank of a communicator of some size. *)
(* Each names the variable it reads or writes.                                      *)

Within(r, handle) ==
    [rank |-> MPI_Comm_rank(r, handle), size |-> MPI_Comm_size(r, handle), comm |-> handle]
Operation(operation, peer, me, variable) ==
    [operation |-> operation, peer |-> peer, comm |-> me.comm, variable |-> variable]
Send(peer, me, variable) == Operation("Send", peer, me, variable)
Recv(peer, me, variable) == Operation("Receive", peer, me, variable)
RecvAndReduce(peer, me) == Operation("Reduce", peer, me, "buffer")

\* Twice around the ring.
Right(me) == (me.rank + 1) % me.size
Left(me) == (me.rank + me.size - 1) % me.size
Round(me) ==
    LET send == <<Send(Right(me), me, "msg")>>
        recv == <<Recv(Left(me), me, "msg")>>
    IN  IF me.rank = 0 THEN send \o recv ELSE recv \o send
OneRound(me) == Round(me)      \* once
NobodyFirst(me) ==             \* rank 0 waits before it sends, as the others do
    LET round == <<Recv(Left(me), me, "msg"), Send(Right(me), me, "msg")>>
    IN  round \o round
MPI_Barrier(me) == Round(me) \o Round(me)

Others(size, root) == [i \in 1..(size - 1) |-> IF i <= root THEN i - 1 ELSE i]
MPI_Bcast(me, root, variable) ==
    LET others == Others(me.size, root)
    IN  IF me.rank = root
        THEN [i \in DOMAIN others |-> Send(others[i], me, variable)]
        ELSE <<Recv(root, me, variable)>>

\* A binomial tree on the ranks relative to the root: a rank receives from the peer of
\* each bit that it lacks, and sends to the peer of its lowest bit, which ends its part.
Masks(size) == SelectSeq([k \in 1..size |-> 2^(k - 1)], LAMBDA mask : mask < size)
HasBit(rank, mask) == (rank \div mask) % 2 = 1
Flip(rank, mask) == IF HasBit(rank, mask) THEN rank - mask ELSE rank + mask
Turns(rank, size) ==
    SelectSeq(Masks(size), LAMBDA mask :
        /\ Flip(rank, mask) < size
        /\ \A m \in ToSet(Masks(size)) : HasBit(rank, m) => mask <= m)
MPI_Reduce(me, root) ==
    LET rel_rank == (me.rank - root + me.size) % me.size
        turns == Turns(rel_rank, me.size)
        peer(mask) == (Flip(rel_rank, mask) + root) % me.size
    IN  [i \in DOMAIN turns |->
            IF HasBit(rel_rank, turns[i])
            THEN Send(peer(turns[i]), me, "buffer")
            ELSE RecvAndReduce(peer(turns[i]), me)]

MPI_Allreduce(me) == MPI_Reduce(me, 0) \o MPI_Bcast(me, 0, "buffer")

\* The two broadcasts of get_next_context take the context for the handle.
MPI_Comm_dup(me, context) ==
    LET misled == [me EXCEPT !.comm = context]
    IN  MPI_Bcast(misled, 0, "pt2pt") \o MPI_Bcast(misled, 0, "coll")

\* A ring shift, in the order in which it waits: for its send, then for its receive. The
\* receive is posted before the send (ReceiveOf).
MPI_Sendrecv(me) ==
    <<Send(Right(me), me, "buffer"), Recv(Left(me), me, "buffer")>>

\* One message, in one of the four modes.
Message(me, call) ==
    (IF me.rank = call.from THEN <<Operation(call.mode, call.to, me, "buffer")>> ELSE <<>>)
    \o (IF me.rank = call.to THEN <<Recv(call.from, me, "buffer")>> ELSE <<>>)

Schedule(me, context, call) ==
    CASE call.name = "MPI_Barrier" -> MPI_Barrier(me)
      [] call.name = "MPI_Bcast" -> MPI_Bcast(me, call.root, "buffer")
      [] call.name = "MPI_Reduce" -> MPI_Reduce(me, call.root)
      [] call.name = "MPI_Allreduce" -> MPI_Allreduce(me)
      [] call.name = "MPI_Comm_dup" -> MPI_Comm_dup(me, context)
      [] call.name = "MPI_Sendrecv" -> MPI_Sendrecv(me)
      [] call.name = "Message" -> Message(me, call)
      [] OTHER -> <<>>

PlanOf(r, call) ==
    LET handle == handles[r][call.comm]
    IN  Schedule(Within(r, handle), get_context_id_pt2pt(r, handle), call)

\* For the properties: the positions of a plan at which it sends to a peer, or receives
\* from it. On MPI_COMM_WORLD the schedules of a call fit when every rank receives from
\* every other as many messages as that one sends to it.
Receives == {"Receive", "Reduce"}
Sends(p, peer) == {i \in DOMAIN p : p[i].operation \in SendOperations /\ p[i].peer = peer}
Receipts(p, peer) == {i \in DOMAIN p : p[i].operation \in Receives /\ p[i].peer = peer}
World(n, r) == [rank |-> r, size |-> n, comm |-> MPI_COMM_WORLD]
WorldPlan(n, r, call) == Schedule(World(n, r), 0, call)
Steps(n) ==
    [operation : (SendOperations \ {"Ssend"}) \cup Receives, peer : 0..(n - 1),
     comm : {MPI_COMM_WORLD}, variable : {"buffer", "msg", "pt2pt", "coll"}]
Fits(n, call) ==
    /\ \A r \in 0..(n - 1) : WorldPlan(n, r, call) \in Seq(Steps(n))
    /\ \A s, r \in 0..(n - 1) :
          Cardinality(Sends(WorldPlan(n, s, call), r))
              = Cardinality(Receipts(WorldPlan(n, r, call), s))
WorldCalls == \A k \in DOMAIN calls : calls[k].comm = 1 /\ Fits(world_size, calls[k])

\* Calls that send nothing look at the error flag at their beginning only.
IsLocal(call) == call.name \in {"MPIX_Checkpoint_write", "MPIX_Serialize_handles"}

\* A call begins with the rank's operand in the buffer, which MPI_Reduce copies there;
\* rank 0 draws the contexts of MPI_Comm_dup.
Drawn(r, call) ==
    IF call.name = "MPI_Comm_dup" /\ r = 0 THEN NextContext(r) ELSE [pt2pt |-> 0, coll |-> 0]
Variables(r, call) ==
    [buffer |-> call.operands[r], msg |-> 1, pt2pt |-> Drawn(r, call).pt2pt,
     coll |-> Drawn(r, call).coll]

--------------------------------------------------------------------------------
NoVariables == [buffer |-> 0]

Init ==
    /\ UniverseInit
    /\ calls \in Programs(world_size)
    /\ count = [r \in Ranks |-> 0]
    /\ busy = [r \in Ranks |-> FALSE]
    /\ plan = [r \in Ranks |-> <<>>]
    /\ memory = [r \in Ranks |-> NoVariables]
    /\ epoch = [r \in Ranks |-> 0]
    /\ received_header_queue = [r \in Ranks |-> <<>>]
    /\ posted_request_queue = [r \in Ranks |-> <<>>]
    /\ caught = [r \in Ranks |-> "outside"]
    /\ outbox = [r \in Ranks |-> <<>>]
    /\ is_errSet = [r \in Ranks |-> FALSE]
    /\ failed = NoRank /\ restarts = 0 /\ disturbed = FALSE
    /\ TransportInit /\ CommInit /\ CheckpointInit

\* A rank enters its next call. With a handle that is none, at() throws, and the rank
\* does not go on.
Enter(r) ==
    /\ ~busy[r] /\ count[r] < Len(calls)
    /\ r # failed /\ ~is_errSet[r]
    /\ Call(r).comm \in DOMAIN handles[r]
    /\ handles[r][Call(r).comm] < Len(communicators[r])
    /\ busy' = [busy EXCEPT ![r] = TRUE]
    /\ plan' = [plan EXCEPT ![r] = PlanOf(r, Call(r))]
    /\ memory' = [memory EXCEPT ![r] = Variables(r, Call(r))]
    /\ IF Call(r).name = "MPI_Comm_dup" /\ r = 0
       THEN get_next_context(r)
       ELSE UNCHANGED nextID
    /\ UNCHANGED <<calls, count, epoch, received_header_queue, leftVars, faultVars,
                   transportVars, groups, communicators, handles, checkpointVars>>

NextIs(r, operations) == plan[r] # <<>> /\ Head(plan[r]).operation \in operations
PlanGoesOn(r) == plan' = [plan EXCEPT ![r] = Tail(@)]
CallEnds(r) == plan' = [plan EXCEPT ![r] = <<>>] /\ busy' = [busy EXCEPT ![r] = FALSE]

\* The envelope of a step of the call that a rank is in. The call's number is carried along
\* for the properties; the code has no such field.
Envelope(r, source) ==
    [epoch |-> epoch[r], context |-> get_context_id_pt2pt(r, Head(plan[r]).comm),
     source |-> source, tag |-> 0]
HeaderOf(r, protocol, envelope) ==
    [protocol |-> protocol, call |-> count[r] + 1, epoch |-> envelope.epoch,
     context |-> envelope.context, source |-> envelope.source, tag |-> envelope.tag]

\* MPI_Send returns when the datagram has left, which is after those of earlier calls.
Datagram(r) ==
    LET step == Head(plan[r])
    IN  [to |-> step.peer, header |-> HeaderOf(r, decide(step.operation), Envelope(r, r)),
         payload |-> memory[r][step.variable]]
MPI_Send(r) ==
    /\ NextIs(r, SendOperations)
    /\ ~is_errSet[r] /\ outbox[r] = <<>>
    /\ reliable_send(r, Datagram(r).to, Datagram(r).header, 1, Datagram(r).payload)
    /\ PlanGoesOn(r)
    /\ UNCHANGED <<calls, count, busy, memory, epoch, received_header_queue, leftVars, faultVars,
                   cache, poolVars, commVars, checkpointVars>>

\* The receive that the rank's call has posted or is about to post, if any. When it is
\* posted makes no difference before the receive meets its message or a failure: until
\* then it is not in posted_request_queue. MPI_Sendrecv posts it before its send, so that
\* it is certainly posted when only the receive is left.
SendsMeanwhile(r) == Call(r).name = "MPI_Sendrecv" /\ Len(plan[r]) = 2
CertainlyPosted(r) == busy[r] /\ Call(r).name = "MPI_Sendrecv" /\ Len(plan[r]) = 1
ReceiveOf(r) ==
    IF ~busy[r] THEN <<>>
    ELSE IF SendsMeanwhile(r) THEN Tail(plan[r])
    ELSE IF NextIs(r, Receives) THEN <<Head(plan[r])>>
    ELSE <<>>

\* A message of cleanup ends the posted receives, and is queued like any other: one that
\* comes after the recovery ends a receive that has just been posted, without data.
MPIX_CLEANUP_TAG == 1
EndsPosted(r) ==
    \/ (CertainlyPosted(r) => is_errSet[r]) /\ UNCHANGED plan
    \/ ~is_errSet[r] /\ NextIs(r, Receives) /\ PlanGoesOn(r)
    \/ /\ ~is_errSet[r] /\ busy[r] /\ SendsMeanwhile(r)
       /\ plan' = [plan EXCEPT ![r] = <<Head(@)>>]
halt(r, header) ==
    IF header.tag = MPIX_CLEANUP_TAG
    THEN EndsPosted(r) /\ posted_request_queue' = [posted_request_queue EXCEPT ![r] = <<>>]
    ELSE UNCHANGED <<plan, posted_request_queue>>

\* A rank's progress thread takes a datagram; a message of an older epoch is dropped,
\* and its payload stays allocated.
post_header(r, source) ==
    LET header == Head(network[<<source, r>>]).header
    IN  /\ r # failed /\ network[<<source, r>>] # <<>>
        /\ halt(r, header)
        /\ IF header.epoch < epoch[r]
           THEN ordered_recv_and_drop(r, source) /\ UNCHANGED received_header_queue
           ELSE /\ ordered_recv(r, source)
                /\ received_header_queue' =
                       [received_header_queue EXCEPT ![r] = Append(@, ReceivedHeader(r))]
        /\ UNCHANGED <<calls, count, busy, memory, epoch, caught, outbox, faultVars, commVars,
                       checkpointVars>>

\* A receive takes a header. The answer to a synchronous send goes where the receive's own
\* envelope says, which is the receiver, under the name of the sender that it is for and
\* with what the buffer held before. A receive that takes an answer for its message is
\* complete without data.
Received(r) == [i \in DOMAIN received_header_queue[r] |-> headers[r][received_header_queue[r][i]]]
handle_match(r, header, protocol, envelope, buffer) ==
    /\ IF protocol = "EAGER_ACK"
       THEN reliable_send(r, r, HeaderOf(r, "ACK", envelope), 1, buffer)
       ELSE UNCHANGED network
    /\ IF protocol = "ACK"
       THEN release_header(r, header) /\ UNCHANGED <<payload_pool, payloads, payload_buffer>>
       ELSE fill(r, header)

\* MPI_Recv waits for its message, which no receive that was posted earlier wants; what it
\* finds goes to the variable, or is combined with it.
Expected(r) == <<Envelope(r, Head(plan[r]).peer)>>
Matching(r) == MatchingPairs(Expected(r), Received(r)) # {}
Position(r) == FirstMatch(Expected(r), Received(r))[2]
Value(r, protocol, payload) ==
    LET step == Head(plan[r])
        buffer == memory[r][step.variable]
    IN  IF protocol = "ACK" THEN buffer
        ELSE IF step.operation = "Reduce" THEN functions(Call(r).op, payload, buffer)
        ELSE payload
Wanted(r) == MatchingPairs(posted_request_queue[r], Received(r)) # {}
MPI_Recv(r) ==
    LET header == received_header_queue[r][Position(r)]
        protocol == headers[r][header].protocol
    IN  /\ NextIs(r, Receives)
        /\ ~is_errSet[r] /\ ~Wanted(r)
        /\ Matching(r)
        /\ received_header_queue' = [received_header_queue EXCEPT ![r] = RemoveAt(@, Position(r))]
        /\ handle_match(r, header, protocol, Expected(r)[1], memory[r][Head(plan[r]).variable])
        /\ memory' = [memory EXCEPT ![r][Head(plan[r]).variable] =
                          Value(r, protocol, Payload(r, header))]
        /\ PlanGoesOn(r)
        /\ UNCHANGED <<calls, count, busy, epoch, leftVars, faultVars, cache, commVars,
                       checkpointVars>>

\* The progress thread matches a receive that an interrupted call has left posted. What it
\* writes to is a variable of a call that has returned, or returns with an error: its
\* content is not followed, and is 0 in an answer.
match_abandoned(r) ==
    LET match == FirstMatch(posted_request_queue[r], Received(r))
        header == received_header_queue[r][match[2]]
    IN  /\ r # failed /\ Wanted(r)
        /\ posted_request_queue' = [posted_request_queue EXCEPT ![r] = RemoveAt(@, match[1])]
        /\ received_header_queue' = [received_header_queue EXCEPT ![r] = RemoveAt(@, match[2])]
        /\ handle_match(r, header, headers[r][header].protocol,
                        posted_request_queue[r][match[1]], 0)
        /\ UNCHANGED <<callVars, epoch, caught, outbox, faultVars, cache, commVars,
                       checkpointVars>>

\* The progress thread sends what an interrupted call has left in the outbox, after the
\* recovery: a datagram that leaves before is that of MPI_Send before the signal.
handle_request(r) ==
    /\ r # failed /\ ~is_errSet[r] /\ outbox[r] # <<>>
    /\ reliable_send(r, Head(outbox[r]).to, Head(outbox[r]).header, 1, Head(outbox[r]).payload)
    /\ outbox' = [outbox EXCEPT ![r] = <<>>]
    /\ UNCHANGED <<callVars, epoch, received_header_queue, posted_request_queue, caught,
                   faultVars, cache, poolVars, commVars, checkpointVars>>

\* A call returns with success: MPI_Comm_dup registers the communicator, a checkpoint is
\* on disk and ends the epoch unless a failure is reported by then.
Return(r) ==
    /\ busy[r] /\ plan[r] = <<>>
    /\ busy' = [busy EXCEPT ![r] = FALSE]
    /\ count' = [count EXCEPT ![r] = @ + 1]
    /\ IF Call(r).name = "MPI_Comm_dup"
       THEN register(r, handles[r][Call(r).comm],
                     [pt2pt |-> memory[r].pt2pt, coll |-> memory[r].coll])
       ELSE UNCHANGED commVars
    /\ CASE Call(r).name = "MPIX_Checkpoint_write" -> write_file(r, epoch[r], count[r] + 1)
         [] Call(r).name = "MPIX_Serialize_handles" -> MPIX_Serialize_handles(r, epoch[r])
         [] OTHER -> UNCHANGED files
    /\ IF Call(r).name = "MPIX_Checkpoint_write" /\ ~is_errSet[r]
       THEN epoch' = [epoch EXCEPT ![r] = @ + 1]
       ELSE UNCHANGED epoch
    /\ UNCHANGED <<calls, plan, memory, received_header_queue, leftVars, faultVars,
                   transportVars, registered>>

--------------------------------------------------------------------------------
\* A rank fails, wherever it is. Its process is gone, with what its calls have left in it.
Fail(r) ==
    /\ r \in MayFail(calls) /\ restarts < MaxRestarts /\ failed = NoRank
    /\ failed' = r /\ restarts' = restarts + 1
    /\ CallEnds(r)
    /\ posted_request_queue' = [posted_request_queue EXCEPT ![r] = <<>>]
    /\ caught' = [caught EXCEPT ![r] = "outside"]
    /\ outbox' = [outbox EXCEPT ![r] = <<>>]
    /\ UNCHANGED <<calls, count, memory, epoch, received_header_queue, is_errSet, disturbed,
                   transportVars, commVars, checkpointVars>>

\* A survivor is told. The signal finds its thread before or after the receive of its call
\* is posted, or in MPI_Start, after the flag was tested and before the receive is posted.
\* If a receive is posted, of this call or left by an earlier one, then a message of
\* cleanup is sent to end it, behind what is in the outbox.
Cleanup(r) ==
    [protocol |-> "EAGER", call |-> 0, epoch |-> epoch[r], source |-> r, tag |-> MPIX_CLEANUP_TAG,
     context |-> get_context_id_pt2pt(r, MPI_COMM_WORLD)]
Post(r) ==
    posted_request_queue' =
        [posted_request_queue EXCEPT ![r] = Append(@, Envelope(r, ReceiveOf(r)[1].peer))]
FindsReceive(r) ==
    \/ ~CertainlyPosted(r) /\ UNCHANGED <<posted_request_queue, caught>>
    \/ /\ ReceiveOf(r) # <<>> /\ ~CertainlyPosted(r)
       /\ caught' = [caught EXCEPT ![r] = "in_start"]
       /\ UNCHANGED posted_request_queue
    \/ /\ ReceiveOf(r) # <<>>
       /\ caught' = [caught EXCEPT ![r] = "posted"]
       /\ Post(r)
setErr(r) ==
    /\ failed \notin {NoRank, r} /\ ~is_errSet[r]
    /\ is_errSet' = [is_errSet EXCEPT ![r] = TRUE]
    /\ FindsReceive(r)
    /\ IF posted_request_queue'[r] = <<>>
       THEN UNCHANGED network
       ELSE outbox[r] = <<>> /\ reliable_send(r, r, Cleanup(r), 0, 0)
    /\ UNCHANGED <<callVars, epoch, received_header_queue, outbox, failed, restarts, disturbed,
                   cache, poolVars, commVars, checkpointVars>>

\* Its call finds the flag, and returns with an error. The receive that MPI_Start was about
\* to post is posted now, and nothing ends it; the send that it was about to queue is left
\* in the outbox.
MayQueueSend(r) ==
    /\ NextIs(r, SendOperations) /\ outbox[r] = <<>>
    /\ SendsMeanwhile(r) => caught[r] = "posted"
Abort(r) ==
    /\ is_errSet[r] /\ busy[r] /\ ~IsLocal(Call(r))
    /\ CallEnds(r)
    /\ IF caught[r] = "in_start" THEN Post(r) ELSE UNCHANGED posted_request_queue
    /\ \/ UNCHANGED outbox
       \/ MayQueueSend(r) /\ outbox' = [outbox EXCEPT ![r] = <<Datagram(r)>>]
    /\ caught' = [caught EXCEPT ![r] = "outside"]
    /\ UNCHANGED <<calls, count, memory, epoch, received_header_queue, faultVars, transportVars,
                   commVars, checkpointVars>>

\* What the interrupted calls have left to a survivor, and may belong to a later call.
Leftovers(r, committed) ==
    \/ \E i \in DOMAIN Received(r) :
          Received(r)[i].tag # MPIX_CLEANUP_TAG /\ Received(r)[i].epoch >= committed
    \/ \E s \in Ranks : \E i \in DOMAIN network[<<s, r>>] :
          network[<<s, r>>][i].header.epoch >= committed
    \/ posted_request_queue[r] # <<>> \/ outbox[r] # <<>>

\* The recovery, seen from the calls: the survivors wait in MPIX_Checkpoint_read, the
\* failed rank is restarted in the epoch that the daemons of single ranks agree on (the
\* minimum: module Recovery), reads the checkpoint, and goes on in the epoch that is in
\* its own file. A survivor keeps its matcher and its outbox as they are: what is still in
\* the outbox reaches the new process. The application returns to what it saved with the
\* checkpoint of its epoch.
Survivors == Ranks \ {failed}
Committed == Min({epoch[r] : r \in Ranks})
EpochAfter(r) == IF r = failed /\ Committed > 0 THEN epoch[r] ELSE Committed
Recover ==
    /\ failed # NoRank
    /\ \A r \in Survivors : is_errSet[r] /\ ~busy[r]
    /\ load(failed, Committed)
    /\ epoch' = [r \in Ranks |-> EpochAfter(r)]
    /\ handles' = [r \in Ranks |-> HandlesAfter(r, failed, EpochAfter(r))]
    /\ count' = [r \in Ranks |-> CountAfter(r, EpochAfter(r))]
    /\ memory' = [r \in Ranks |-> NoVariables]
    /\ received_header_queue' = [received_header_queue EXCEPT ![failed] = <<>>]
    /\ is_errSet' = [r \in Ranks |-> FALSE]
    /\ failed' = NoRank
    /\ disturbed' = \/ disturbed
                    \/ EpochAfter(failed) # Committed
                    \/ \E r \in Survivors : Leftovers(r, Committed) \/ HandlesLost(r, Committed)
    /\ UNCHANGED <<calls, busy, plan, leftVars, restarts>>

User(r) == Enter(r) \/ MPI_Send(r) \/ MPI_Recv(r) \/ Return(r) \/ setErr(r) \/ Abort(r)
ProgressThread(r) ==
    \/ \E s \in Ranks : post_header(r, s)
    \/ match_abandoned(r) \/ handle_request(r)
Failure == \E r \in Ranks : Fail(r)
Work == Recover \/ \E r \in Ranks : User(r) \/ ProgressThread(r)

Next ==
    \/ Work /\ UNCHANGED world_size
    \/ Failure /\ UNCHANGED world_size

\* As long as a thread of a rank can go on, one of them does. No step is ever repeated,
\* so that nothing more is needed.
Spec == Init /\ [][Next]_vars
FairSpec == Spec /\ WF_vars(Work /\ UNCHANGED world_size)

--------------------------------------------------------------------------------
\* Type correctness. Every header in memory is queued, and nothing is counted beyond
\* the program.
TypeOK ==
    /\ calls \in Programs(world_size)
    /\ count \in [Ranks -> 0..Len(calls)] /\ busy \in [Ranks -> BOOLEAN]
    /\ \A r \in Ranks : \A i \in DOMAIN plan[r] :
          /\ plan[r][i].operation \in SendOperations \cup Receives
          /\ plan[r][i].peer \in Ranks
          /\ plan[r][i].comm \in 0..(Len(communicators[r]) - 1)
          /\ plan[r][i].variable \in DOMAIN memory[r]
    /\ \A r \in Ranks : DOMAIN headers[r] = ToSet(received_header_queue[r])
    /\ \A r \in Ranks : \A i \in DOMAIN Received(r) : Received(r)[i].protocol \in Protocols
    /\ epoch \in [Ranks -> 0..Len(calls)]
    /\ caught \in [Ranks -> {"outside", "in_start", "posted"}]
    /\ \A r \in Ranks : \A i \in DOMAIN posted_request_queue[r] :
          posted_request_queue[r][i].epoch \in 0..Len(calls)
    /\ \A r \in Ranks : \A i \in DOMAIN outbox[r] : i = 1 /\ outbox[r][i].to \in Ranks
    /\ is_errSet \in [Ranks -> BOOLEAN] /\ failed \in Ranks \cup {NoRank}
    /\ restarts \in 0..MaxRestarts /\ disturbed \in BOOLEAN
    /\ ~disturbed => \A r \in Ranks : ToSet(handles[r]) \subseteq 0..(Len(communicators[r]) - 1)

\* Successive calls do not take each other's messages, although all of them use tag 0
\* and the same context: what a receive finds belongs to its own call. After a failure
\* this holds if the recovery found no message and no receive of the calls that it
\* interrupted; with synchronous sends, if their answers meet no receive.
Answered(call) == call.name = "Message" /\ call.mode = "Ssend"
AnswersUnclaimed ==
    \A k \in DOMAIN calls : Answered(calls[k]) =>
        \A l \in (k + 1)..Len(calls) :
            Receipts(WorldPlan(world_size, calls[k].to, calls[l]), calls[k].from) = {}
CallsDoNotMix ==
    ~disturbed /\ AnswersUnclaimed =>
        \A r \in Ranks :
            NextIs(r, Receives) /\ ~is_errSet[r] /\ Matching(r)
                => Received(r)[Position(r)].call = count[r] + 1

\* MPI_Barrier: nobody leaves before everybody has entered, a failure or not.
HasLeft(r, k) == count[r] >= k
HasEntered(r, k) == count[r] >= k \/ (count[r] = k - 1 /\ busy[r])
BarrierSynchronises ==
    ~disturbed /\ failed = NoRank =>
        \A k \in DOMAIN calls : calls[k].name = "MPI_Barrier" =>
            \A r, s \in Ranks : HasLeft(r, k) => HasEntered(s, k)

\* What a call has left in the buffer: the root's operand, each rank's operand exactly
\* once, the left neighbour's or the sender's, for any root and any number of ranks. The
\* exceptions are those of CallsDoNotMix.
Result(r, call) ==
    CASE call.name = "MPI_Bcast" -> call.operands[call.root]
      [] call.name = "MPI_Sendrecv" -> call.operands[(r + world_size - 1) % world_size]
      [] call.name = "Message" -> call.operands[call.from]
      [] OTHER -> Reduction(call.op, call.operands)
HasResult(r, call) ==
    \/ call.name \in {"MPI_Bcast", "MPI_Allreduce", "MPI_Sendrecv"}
    \/ call.name = "MPI_Reduce" /\ r = call.root
    \/ call.name = "Message" /\ r = call.to
ResultsCorrect ==
    ~disturbed /\ AnswersUnclaimed =>
        \A r \in Ranks \ {failed} :
            ~busy[r] /\ count[r] > 0 /\ memory[r] # NoVariables /\ ~is_errSet[r] =>
            LET call == calls[count[r]]
            IN  HasResult(r, call) => memory[r].buffer = Result(r, call)

\* The pools of the transport, whatever fails and whenever headers are dropped: an item is
\* never free and in use, no header gets lost, and no two queued headers share a payload.
WithPayload(r) ==
    {h \in ToSet(received_header_queue[r]) : headers[r][h].tag # MPIX_CLEANUP_TAG}
HeadersIntact(r) ==
    LET free == header_pool[r].free_list
        queued == received_header_queue[r]
    IN  /\ IsInjective(free) /\ IsInjective(queued)
        /\ ToSet(free) \cap ToSet(queued) = {}
        /\ ToSet(free) \cup ToSet(queued) = 1..header_pool[r].size
PayloadsIntact(r) ==
    LET free == payload_pool[r].free_list
    IN  /\ IsInjective(free) /\ ToSet(free) \subseteq 1..payload_pool[r].size
        /\ \A h \in WithPayload(r) :
              payload_buffer[r][h] \in (1..payload_pool[r].size) \ ToSet(free)
        /\ \A g, h \in WithPayload(r) : payload_buffer[r][g] = payload_buffer[r][h] => g = h
PoolsIntact == \A r \in Ranks : HeadersIntact(r) /\ PayloadsIntact(r)

\* Without a failure no payload gets lost either: each is free or belongs to a queued
\* header. After a failure those of dropped headers are neither; nor is that of the answer
\* to a synchronous send, which its receiver never takes and drops after a checkpoint.
NothingLeaks ==
    restarts = 0 /\ (\A k \in DOMAIN calls : ~Answered(calls[k])) =>
        \A r \in Ranks :
            LET used == {payload_buffer[r][h] : h \in WithPayload(r)}
            IN  /\ used \cup ToSet(payload_pool[r].free_list) = 1..payload_pool[r].size
                /\ DOMAIN payloads[r] = used

\* MPI_Comm_dup "returns the handle of the communicator": the communicators that the
\* application holds on a rank have contexts of their own, the same on all ranks.
ContextOf(r, i) == get_context_id_pt2pt(r, handles[r][i])
DupReturnsNew ==
    ~disturbed /\ failed = NoRank =>
        /\ \A r \in Ranks : \A i, j \in DOMAIN handles[r] :
              ContextOf(r, i) = ContextOf(r, j) => i = j
        /\ \A r, s \in Ranks : \A i \in (DOMAIN handles[r]) \cap (DOMAIN handles[s]) :
              ContextOf(r, i) = ContextOf(s, i)

\* Every call returns: no schedule of sends and receives leaves a rank waiting, and the
\* application comes to the end of its program, a failure or not, unless a recovery was
\* disturbed.
ProgramCompletes == <>[](disturbed \/ \A r \in Ranks : count[r] = Len(calls))
================================================================================
