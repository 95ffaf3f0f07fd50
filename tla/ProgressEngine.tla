------------------------------ MODULE ProgressEngine ------------------------------
(***************************************************************************)
(* Point to point communication inside one MPI process: the user's thread  *)
(* with the SIGUSR2 handler that interrupts it, the progress thread, and   *)
(* what they share: requests, the matcher's queues, the outbox and the     *)
(* error flag. Other ranks appear as the messages they send.               *)
(*                                                                         *)
(* src/interfaces/interface.cc (requests, wait), src/request.cc,           *)
(* src/engines/blockingprogress.cc, src/matchers/simplematcher.cc,         *)
(* src/faulthandler.cc.                                                    *)
(***************************************************************************)
EXTENDS SimpleMatcher, FiniteSets

CONSTANTS
    Self,           \* this rank
    Peers,          \* the other ranks
    Tags,           \* tags of the application
    CleanupTag,     \* MPIX_CLEANUP_TAG
    Receives,       \* the envelopes [source, tag] of the application's receives
    Sends,          \* TRUE: the application also sends
    MaxRequests,    \* bound: requests of the pool
    MaxMessages,    \* bound: messages sent by the peers
    MaxEpoch,       \* bound: checkpoints
    MaxSignals,     \* bound: failures elsewhere
    SignalPoints    \* the places of the user's thread at which a signal may arrive

NoMessage == [number |-> 0]
NoRequest == 0
WorldContext == 0       \* one communicator: MPI_COMM_WORLD
RequestIds == 1..MaxRequests
Frames == {"user", "handler"}
Holders == {"none", "progress"} \cup Frames

\* Places of a frame. "locked" holds the guard of the matcher or of the outbox,
\* "holding" that of the request.
Places == {"idle", "start", "post", "locked", "wait", "acquire", "holding", "asleep",
           "finalize", "free", "failed"}

ASSUME EngineAssumption ==
    /\ Self \notin Peers
    /\ AnySource \notin Peers \cup {Self}
    /\ CleanupTag # AnyTag /\ AnyTag \notin Tags
    /\ Receives \subseteq [source : Peers \cup {Self, AnySource}, tag : Tags \cup {AnyTag}]
    /\ Sends \in BOOLEAN
    /\ MaxRequests \in Nat \ {0} /\ MaxMessages \in Nat
    /\ MaxEpoch \in Nat /\ MaxSignals \in Nat
    /\ SignalPoints \subseteq Places

VARIABLES
    request,                \* the pool's objects
    pool,                   \* the ones that are free
    request_guard,          \* who holds Request::guard
    handles,                \* the user's open requests, in the order of their calls
    posted_request_queue,
    received_header_queue,
    matcher_guard,
    outbox,
    outbox_guard,
    pc,                     \* place of each frame; the handler is "idle" when not running
    current,                \* the request each frame works on
    in_waitall,             \* the user's waits are those of one MPI_Waitall
    progress,               \* the progress thread: pc, header, requests to release
    notified,               \* the frames that thr_request_condition has been notified for
    is_errSet,
    epoch,                  \* universe.epoch
    socket,                 \* datagrams that have arrived
    peer_epoch,             \* the peers' epochs
    sent,                   \* messages sent by the peers so far
    signals,                \* [raised, pending] of SIGUSR2
    recoveries,             \* recoveries so far, and the messages sent before the last
    old_messages            \* one (neither is part of the code's state)

requestVars == <<request, pool, request_guard, handles>>
queueVars == <<posted_request_queue, received_header_queue, outbox>>
guardVars == <<matcher_guard, outbox_guard>>
frameVars == <<pc, current, in_waitall>>
historyVars == <<recoveries, old_messages>>
faultVars == <<is_errSet, epoch, historyVars, signals>>
peerVars == <<peer_epoch, sent>>
vars == <<requestVars, queueVars, guardVars, frameVars, progress, notified,
          faultVars, socket, peerVars>>

Unused == [operation |-> "none"]
Idle == [pc |-> "recv", header |-> NoMessage, releases |-> <<>>]

Init ==
    /\ request = [r \in RequestIds |-> Unused]
    /\ pool = RequestIds
    /\ request_guard = [r \in RequestIds |-> "none"]
    /\ handles = <<>>
    /\ posted_request_queue = <<>> /\ received_header_queue = <<>> /\ outbox = <<>>
    /\ matcher_guard = "none" /\ outbox_guard = "none"
    /\ pc = [f \in Frames |-> "idle"]
    /\ current = [f \in Frames |-> NoRequest]
    /\ in_waitall = FALSE
    /\ progress = Idle
    /\ notified = {}
    /\ is_errSet = FALSE /\ epoch = 0
    /\ recoveries = 0 /\ old_messages = 0
    /\ signals = [raised |-> 0, pending |-> FALSE]
    /\ socket = <<>>
    /\ peer_epoch = [p \in Peers |-> 0] /\ sent = 0

--------------------------------------------------------------------------------
(* Frames of the user's thread. The handler runs on top of the user's frame. *)

Running(f) == f = "handler" \/ pc["handler"] = "idle"
At(f, place) == Running(f) /\ pc[f] = place
Goto(f, place) == pc' = [pc EXCEPT ![f] = place] /\ UNCHANGED in_waitall

\* A call that returns MPIX_TRY_RELOAD: only the user's frame sees the flag set.
\* MPI_Waitall returns the first error, whatever became of the rest.
Fails ==
    /\ pc' = [pc EXCEPT !["user"] = "failed"]
    /\ current' = [current EXCEPT !["user"] = NoRequest]
    /\ in_waitall' = FALSE

\* The user's thread is in the application.
Between == At("user", "idle") /\ ~in_waitall

\* The pool of requests. A new arena is not modelled.
allocate_request(r) == r \in pool /\ pool' = pool \ {r}
deallocate_request(r) == pool' = pool \cup {r}

construct_request(f, operation, envelope) ==
    LET r == CHOOSE free \in pool : TRUE
    IN  /\ allocate_request(r)
        /\ request' = [request EXCEPT ![r] =
               [operation |-> operation, epoch |-> epoch, context |-> WorldContext,
                source |-> envelope.source, tag |-> envelope.tag, complete |-> FALSE,
                condition |-> FALSE, message |-> NoMessage]]
        /\ current' = [current EXCEPT ![f] = r]
        /\ Goto(f, "start")

\* MPI_Irecv and MPI_Isend up to MPI_Start. One object is left for the handler. Where
\* a message to a peer goes, and its tag, make no difference here.
Call(operation, envelope) ==
    /\ Between
    /\ IF is_errSet
       THEN Fails /\ UNCHANGED <<request, pool>>
       ELSE Cardinality(pool) > 1 /\ construct_request("user", operation, envelope)
    /\ UNCHANGED <<request_guard, handles, queueVars, guardVars, progress, notified,
                   faultVars, socket, peerVars>>
MPI_Irecv == \E envelope \in Receives : Call("Receive", envelope)
MPI_Isend == Sends /\ Call("Send", [source |-> Self, tag |-> AnyTag])

\* MPI_Start. When it fails, MPI_Request_free fails for the same reason.
MPI_Start(f) ==
    /\ At(f, "start")
    /\ IF is_errSet THEN Fails ELSE Goto(f, "post") /\ UNCHANGED current
    /\ UNCHANGED <<requestVars, queueVars, guardVars, progress, notified, faultVars,
                   socket, peerVars>>

\* post_request: the matcher's guard for a receive, the outbox's for a send.
lock_queue(f) ==
    /\ At(f, "post")
    /\ IF request[current[f]].operation = "Receive"
       THEN matcher_guard = "none" /\ matcher_guard' = f /\ UNCHANGED outbox_guard
       ELSE outbox_guard = "none" /\ outbox_guard' = f /\ UNCHANGED matcher_guard
    /\ Goto(f, "locked")
    /\ UNCHANGED <<requestVars, queueVars, current, progress, notified, faultVars,
                   socket, peerVars>>

\* The request is queued and the guard released. The handler's MPI_Send waits at once.
post_request(f) ==
    LET r == current[f]
    IN  /\ At(f, "locked")
        /\ IF request[r].operation = "Receive"
           THEN /\ posted_request_queue' = Append(posted_request_queue, r)
                /\ matcher_guard' = "none"
                /\ UNCHANGED <<outbox, outbox_guard>>
           ELSE /\ outbox' = Append(outbox, r)
                /\ outbox_guard' = "none"
                /\ UNCHANGED <<posted_request_queue, matcher_guard>>
        /\ IF f = "user"
           THEN /\ handles' = Append(handles, r)
                /\ Goto(f, "idle")
                /\ current' = [current EXCEPT ![f] = NoRequest]
           ELSE Goto(f, "wait") /\ UNCHANGED <<handles, current>>
        /\ UNCHANGED <<request, pool, request_guard, received_header_queue, progress,
                       notified, faultVars, socket, peerVars>>

\* MPI_Wait up to the test of complete, which takes no lock.
MPI_Wait(f, r) ==
    /\ IF is_errSet
       THEN Fails
       ELSE /\ Goto(f, IF request[r].complete THEN "finalize" ELSE "acquire")
            /\ current' = [current EXCEPT ![f] = r]
    /\ UNCHANGED <<requestVars, queueVars, guardVars, progress, notified, faultVars,
                   socket, peerVars>>
UserWaits == Between /\ \E i \in DOMAIN handles : MPI_Wait("user", handles[i])

\* MPI_Waitall: one MPI_Wait after the other, in the order of the array.
MPI_Waitall ==
    /\ Between /\ handles # <<>>
    /\ IF is_errSet THEN Fails ELSE in_waitall' = TRUE /\ UNCHANGED <<pc, current>>
    /\ UNCHANGED <<requestVars, queueVars, guardVars, progress, notified, faultVars,
                   socket, peerVars>>
WaitsOn ==
    At("user", "idle") /\ in_waitall /\ handles # <<>> /\ MPI_Wait("user", Head(handles))

HandlerWaits == At("handler", "wait") /\ MPI_Wait("handler", current["handler"])

\* The request's guard is taken and the thread's condition variable registered.
lock_request(f) ==
    LET r == current[f]
    IN  /\ At(f, "acquire")
        /\ request_guard[r] = "none"
        /\ request_guard' = [request_guard EXCEPT ![r] = f]
        /\ request' = [request EXCEPT ![r].condition = TRUE]
        /\ Goto(f, "holding")
        /\ UNCHANGED <<pool, handles, queueVars, guardVars, current, progress, notified,
                       faultVars, socket, peerVars>>

\* The predicate of condition_variable::wait: leave with a completed request, or sleep.
test_complete(f) ==
    LET r == current[f]
    IN  /\ At(f, "holding")
        /\ request_guard' = [request_guard EXCEPT ![r] = "none"]
        /\ Goto(f, IF request[r].complete THEN "finalize" ELSE "asleep")
        /\ UNCHANGED <<request, pool, handles, queueVars, guardVars, current, progress,
                       notified, faultVars, socket, peerVars>>

\* The frame that a notification went to wakes when it can run.
wake_up(f) ==
    /\ At(f, "asleep")
    /\ f \in notified
    /\ request_guard[current[f]] = "none"
    /\ request_guard' = [request_guard EXCEPT ![current[f]] = f]
    /\ notified' = notified \ {f}
    /\ Goto(f, "holding")
    /\ UNCHANGED <<request, pool, handles, queueVars, guardVars, current, progress,
                   faultVars, socket, peerVars>>

\* finalize_request, and MPI_Request_free up to the lock of the request.
UncheckedFinalize(f) ==      \* does not look at the flag
    /\ At(f, "finalize")
    /\ Goto(f, "free")
    /\ UNCHANGED <<requestVars, queueVars, guardVars, current, progress, notified,
                   faultVars, socket, peerVars>>
finalize_request(f) ==
    /\ At(f, "finalize")
    /\ IF is_errSet THEN Fails ELSE Goto(f, "free") /\ UNCHANGED current
    /\ UNCHANGED <<requestVars, queueVars, guardVars, progress, notified, faultVars,
                   socket, peerVars>>

\* MPI_Request_free waits for the guard, then gives the object back to the pool: the
\* call returns MPI_SUCCESS. The handler, whose MPI_Send returns, sets the flag again.
AnyGuard(r) == TRUE          \* does not take the guard
Unguarded(r) == request_guard[r] = "none"
PositionOf(r) == CHOOSE i \in DOMAIN handles : handles[i] = r
MPI_Request_free(f) ==
    LET r == current[f]
    IN  /\ At(f, "free")
        /\ Unguarded(r)
        /\ request' = [request EXCEPT ![r] = Unused]
        /\ deallocate_request(r)
        /\ handles' = IF f = "user" THEN RemoveAt(handles, PositionOf(r)) ELSE handles
        /\ current' = [current EXCEPT ![f] = NoRequest]
        /\ pc' = [pc EXCEPT ![f] = "idle"]
        /\ in_waitall' = (in_waitall /\ handles' # <<>>)
        /\ is_errSet' = (is_errSet \/ f = "handler")
        /\ UNCHANGED <<request_guard, queueVars, guardVars, progress, notified, epoch,
                       historyVars, signals, socket, peerVars>>

FrameStep(f) ==
    \/ MPI_Start(f) \/ lock_queue(f) \/ post_request(f)
    \/ lock_request(f) \/ test_complete(f) \/ wake_up(f)
    \/ finalize_request(f) \/ MPI_Request_free(f)

--------------------------------------------------------------------------------
(* The SIGUSR2 handler. The kernel delivers a signal of the process to its main *)
(* thread, which is the user's, unless that thread blocks it.                   *)

\* setErr, then cleanup: with receives posted, a message of length zero to this rank
\* itself, sent with the flag cleared. The queue is read without its guard.
setErr ==
    /\ signals.pending
    /\ pc["handler"] = "idle" /\ pc["user"] \in SignalPoints
    /\ signals' = [signals EXCEPT !.pending = FALSE]
    /\ IF posted_request_queue = <<>>
       THEN is_errSet' = TRUE /\ UNCHANGED <<request, pool, frameVars>>
       ELSE /\ is_errSet' = FALSE
            /\ construct_request("handler", "Send", [source |-> Self, tag |-> CleanupTag])
    /\ UNCHANGED <<request_guard, handles, queueVars, guardVars, progress, notified,
                   epoch, historyVars, socket, peerVars>>

--------------------------------------------------------------------------------
(* The application between two calls. *)

\* A checkpoint, with no open request: the epoch grows unless the flag is set.
MPIX_Checkpoint_write ==
    /\ Between /\ handles = <<>>
    /\ epoch < MaxEpoch
    /\ IF is_errSet
       THEN Fails /\ UNCHANGED epoch
       ELSE epoch' = epoch + 1 /\ UNCHANGED frameVars
    /\ UNCHANGED <<requestVars, queueVars, guardVars, progress, notified, is_errSet,
                   historyVars, signals, socket, peerVars>>

\* Recovery: all ranks return to an epoch that all have reached, and pass a barrier.
\* The application forgets the requests of the calls that failed.
FlagStays == UNCHANGED is_errSet
setErrToZero == is_errSet' = FALSE
MPIX_Checkpoint_read ==
    /\ At("user", "failed")
    /\ setErrToZero
    /\ \E e \in 0..epoch :
          /\ \A p \in Peers : e <= peer_epoch[p]
          /\ epoch' = e
          /\ peer_epoch' = [p \in Peers |-> e]
    /\ recoveries' = recoveries + 1 /\ old_messages' = sent
    /\ handles' = <<>>
    /\ Goto("user", "idle")
    /\ UNCHANGED <<request, pool, request_guard, queueVars, guardVars, current, progress,
                   notified, signals, socket, sent>>

UserCalls ==
    \/ MPI_Irecv \/ MPI_Isend \/ UserWaits \/ MPI_Waitall
    \/ MPIX_Checkpoint_write \/ MPIX_Checkpoint_read

--------------------------------------------------------------------------------
(* The progress thread. Each turn of its loop does the first thing there is to do: *)
(* receive, match, send. A datagram that arrives after the first test changes      *)
(* nothing in the rest of the turn, so that the test is no step of its own.        *)

Progress(place, header, releases) ==
    progress' = [pc |-> place, header |-> header, releases |-> releases]

ordered_recv ==
    /\ progress.pc = "recv"
    /\ socket # <<>>
    /\ Progress("header", Head(socket), <<>>)
    /\ socket' = Tail(socket)
    /\ UNCHANGED <<requestVars, queueVars, guardVars, frameVars, notified, faultVars,
                   peerVars>>

\* post_header takes the matcher's guard; a cleanup message releases every posted
\* receive before it is queued itself.
OnlyOldest == IF posted_request_queue = <<>> THEN <<>> ELSE <<Head(posted_request_queue)>>
ToRelease == posted_request_queue
post_header ==
    /\ progress.pc = "header"
    /\ matcher_guard = "none"
    /\ matcher_guard' = "progress"
    /\ IF progress.header.tag = CleanupTag
       THEN Progress("halt", progress.header, ToRelease)
       ELSE Progress("queue", progress.header, <<>>)
    /\ UNCHANGED <<requestVars, queueVars, outbox_guard, frameVars, notified, faultVars,
                   socket, peerVars>>

\* Both frames sleep on the one condition variable of their thread: a notification
\* goes to either, whichever request it is for.
Sleepers == {f \in Frames : pc[f] = "asleep"} \ notified
notify_one ==
    IF Sleepers = {}
    THEN UNCHANGED notified
    ELSE \E f \in Sleepers : notified' = notified \cup {f}

\* Request::release with the guard held: complete, and the waiter is notified.
release ==
    LET r == Head(progress.releases)
    IN  /\ request_guard[r] = "none"
        /\ request_guard' = [request_guard EXCEPT ![r] = "progress"]
        /\ request' = [request EXCEPT ![r].complete = TRUE]
        /\ IF request[r].condition THEN notify_one ELSE UNCHANGED notified

\* halt goes on to its next request, handle_match and handle_send to the next turn.
Release ==
    /\ progress.pc \in {"halt", "release"} /\ progress.releases # <<>>
    /\ release
    /\ progress' = [progress EXCEPT !.pc = IF @ = "halt" THEN "halt_unlock" ELSE "unlock"]
    /\ UNCHANGED <<pool, handles, queueVars, guardVars, frameVars, faultVars, socket,
                   peerVars>>
Unlock ==
    /\ progress.pc \in {"halt_unlock", "unlock"}
    /\ request_guard' = [request_guard EXCEPT ![Head(progress.releases)] = "none"]
    /\ IF progress.pc = "halt_unlock"
       THEN Progress("halt", progress.header, Tail(progress.releases))
       ELSE progress' = Idle
    /\ UNCHANGED <<request, pool, handles, queueVars, guardVars, frameVars, notified,
                   faultVars, socket, peerVars>>

\* halt ends: the receives are no longer posted. The received headers stay.
halt ==
    /\ progress.pc = "halt" /\ progress.releases = <<>>
    /\ posted_request_queue' = <<>>
    /\ Progress("queue", progress.header, <<>>)
    /\ UNCHANGED <<requestVars, received_header_queue, outbox, guardVars, frameVars,
                   notified, faultVars, socket, peerVars>>

\* The end of post_header: a message of an older epoch is dropped.
queue_header ==
    /\ progress.pc = "queue"
    /\ IF progress.header.epoch < epoch
       THEN UNCHANGED received_header_queue
       ELSE received_header_queue' = Append(received_header_queue, progress.header)
    /\ matcher_guard' = "none"
    /\ progress' = Idle
    /\ UNCHANGED <<requestVars, posted_request_queue, outbox, outbox_guard, frameVars,
                   notified, faultVars, socket, peerVars>>

\* SimpleMatcher::progress: the first posted receive that has a message, with its
\* first message; both leave their queues.
Envelopes == [i \in DOMAIN posted_request_queue |-> request[posted_request_queue[i]]]
NoMatch == MatchingPairs(Envelopes, received_header_queue) = {}
StaysPosted(match) ==        \* the receive is not erased
    /\ received_header_queue' = RemoveAt(received_header_queue, match[2])
    /\ UNCHANGED posted_request_queue
TakeMatch(match) ==
    /\ posted_request_queue' = RemoveAt(posted_request_queue, match[1])
    /\ received_header_queue' = RemoveAt(received_header_queue, match[2])

\* handle_match: the payload goes to the user's buffer before the release. A cleanup
\* message has no payload: following its null pointer ends the process.
handle_match(r, header) ==
    IF header.tag = CleanupTag
    THEN Progress("raised", header, <<>>) /\ UNCHANGED request
    ELSE /\ request' = [request EXCEPT ![r].message = header]
         /\ Progress("release", NoMessage, <<r>>)

matcher_progress ==
    /\ progress.pc = "recv" /\ socket = <<>>
    /\ matcher_guard = "none"
    /\ IF NoMatch
       THEN /\ Progress("outbox", NoMessage, <<>>)
            /\ UNCHANGED <<request, posted_request_queue, received_header_queue>>
       ELSE LET match == FirstMatch(Envelopes, received_header_queue)
            IN  /\ TakeMatch(match)
                /\ handle_match(posted_request_queue[match[1]],
                                received_header_queue[match[2]])
    /\ UNCHANGED <<pool, request_guard, handles, outbox, guardVars, frameVars, notified,
                   faultVars, socket, peerVars>>

\* handle_send: the datagram leaves; one to this rank itself arrives at once.
handle_send(r) ==
    socket' = IF request[r].tag = CleanupTag
              THEN Append(socket, [source |-> Self, tag |-> CleanupTag, number |-> 0,
                                   epoch |-> request[r].epoch, context |-> WorldContext])
              ELSE socket

\* handle_request: the oldest request of the outbox is sent, then released.
handle_request ==
    /\ progress.pc = "outbox"
    /\ IF outbox = <<>>
       THEN progress' = Idle /\ UNCHANGED <<outbox, socket>>
       ELSE /\ outbox_guard = "none"
            /\ outbox' = Tail(outbox)
            /\ handle_send(Head(outbox))
            /\ Progress("release", NoMessage, <<Head(outbox)>>)
    /\ UNCHANGED <<requestVars, posted_request_queue, received_header_queue, guardVars,
                   frameVars, notified, faultVars, peerVars>>

ProgressStep ==
    \/ ordered_recv \/ post_header \/ Release \/ Unlock \/ halt \/ queue_header
    \/ matcher_progress \/ handle_request

--------------------------------------------------------------------------------
(* The other ranks and the runtime. *)

\* A peer's message arrives, in the order of sending.
PeerSends(p, tag) ==
    /\ sent < MaxMessages
    /\ sent' = sent + 1
    /\ socket' = Append(socket, [source |-> p, tag |-> tag, epoch |-> peer_epoch[p],
                                 context |-> WorldContext, number |-> sent + 1])
    /\ UNCHANGED <<requestVars, queueVars, guardVars, frameVars, progress, notified,
                   faultVars, peer_epoch>>

PeerCheckpoint(p) ==
    /\ peer_epoch[p] < MaxEpoch
    /\ peer_epoch' = [peer_epoch EXCEPT ![p] = @ + 1]
    /\ UNCHANGED <<requestVars, queueVars, guardVars, frameVars, progress, notified,
                   faultVars, socket, sent>>

\* The head daemon signals this process that another one has failed.
RaiseSignal ==
    /\ signals.raised < MaxSignals /\ ~signals.pending
    /\ signals' = [raised |-> signals.raised + 1, pending |-> TRUE]
    /\ UNCHANGED <<requestVars, queueVars, guardVars, frameVars, progress, notified,
                   is_errSet, epoch, historyVars, socket, peerVars>>

Environment ==
    \/ \E p \in Peers : PeerCheckpoint(p) \/ \E tag \in Tags : PeerSends(p, tag)
    \/ RaiseSignal

UserStep == WaitsOn \/ FrameStep("user")
HandlerStep == HandlerWaits \/ FrameStep("handler")

\* The process ends when its progress thread does.
Alive == progress.pc # "raised"
Next ==
    \/ Alive /\ UserCalls
    \/ Alive /\ UserStep
    \/ Alive /\ setErr
    \/ Alive /\ HandlerStep
    \/ Alive /\ ProgressStep
    \/ Alive /\ Environment

\* The two threads are scheduled and a signal is delivered. The application need not
\* make another call, nor a peer send another message.
Fairness ==
    /\ WF_vars(UserStep) /\ WF_vars(setErr) /\ WF_vars(HandlerStep)
    /\ WF_vars(ProgressStep)

Spec == Init /\ [][Next]_vars
FairSpec == Spec /\ Fairness

--------------------------------------------------------------------------------
Messages == [source : Peers \cup {Self}, tag : Tags \cup {CleanupTag},
             epoch : 0..MaxEpoch, context : {WorldContext}, number : 0..MaxMessages]
LiveRequests == [operation : {"Send", "Receive"}, epoch : 0..MaxEpoch,
                 context : {WorldContext},
                 source : Peers \cup {Self, AnySource},
                 tag : Tags \cup {CleanupTag, AnyTag},
                 complete : BOOLEAN, condition : BOOLEAN,
                 message : Messages \cup {NoMessage}]

\* Type correctness. Recoveries never outnumber the failures that were signalled.
RequestTypes ==
    /\ request \in [RequestIds -> LiveRequests \cup {Unused}]
    /\ pool \subseteq RequestIds
    /\ request_guard \in [RequestIds -> Holders]
    /\ handles \in Seq(RequestIds)
QueueTypes ==
    /\ posted_request_queue \in Seq(RequestIds) /\ outbox \in Seq(RequestIds)
    /\ received_header_queue \in Seq(Messages) /\ socket \in Seq(Messages)
FrameTypes ==
    /\ pc \in [Frames -> Places] /\ current \in [Frames -> RequestIds \cup {NoRequest}]
    /\ in_waitall \in BOOLEAN /\ notified \subseteq Frames /\ is_errSet \in BOOLEAN
    /\ matcher_guard \in Holders /\ outbox_guard \in Holders
ProgressTypes ==
    progress \in [pc : {"recv", "header", "halt", "halt_unlock", "queue", "outbox",
                        "release", "unlock", "raised"},
                  header : Messages \cup {NoMessage}, releases : Seq(RequestIds)]
CountTypes ==
    /\ epoch \in 0..MaxEpoch /\ peer_epoch \in [Peers -> 0..MaxEpoch]
    /\ sent \in 0..MaxMessages
    /\ recoveries \in 0..MaxSignals /\ old_messages \in 0..MaxMessages
    /\ signals \in [raised : 0..MaxSignals, pending : BOOLEAN]
TypeOK == RequestTypes /\ QueueTypes /\ FrameTypes /\ ProgressTypes /\ CountTypes

\* No use after free: a request that a queue, a thread or the user may still touch is
\* not free. While halt walks the posted receives, the ones it has passed are not touched
\* again. MPI_Request_free takes the request's guard for this.
Posted == IF progress.pc \in {"halt", "halt_unlock"} THEN {} ELSE ToSet(posted_request_queue)
Reachable ==
    ToSet(outbox) \cup Posted \cup ToSet(progress.releases) \cup ToSet(handles)
        \cup {current[f] : f \in Frames}
RequestInUse == Reachable \cap pool = {}

\* A receive takes one message and keeps it: once its buffer is filled, no later match
\* writes into it.
Live(r) == request[r] # Unused
ReceivesOneMessage ==
    [][\A r \in RequestIds :
        Live(r) /\ Live(r)' /\ request[r].message # NoMessage
            => request'[r].message = request[r].message]_vars

\* Messages do not overtake each other, nor receives: of the messages of one rank that
\* fit a receive it takes the oldest, and a message goes to the oldest receive.
Received(i) == request[handles[i]].message # NoMessage
NonOvertaking ==
    \A i \in DOMAIN handles :
        Received(i) =>
            LET m == request[handles[i]].message
            IN  /\ \A h \in ToSet(received_header_queue) :
                      h.source = m.source /\ Matches(request[handles[i]], h)
                          => h.number > m.number
                /\ \A j \in 1..(i - 1) :
                      handles[j] \in Posted => ~Matches(request[handles[j]], m)

\* A receive from a named rank never takes a message of cleanup, which this rank has sent
\* to itself, whatever tag it accepts and however long that message stays queued: the
\* progress thread never copies from the null pointer of a message without payload.
CleanupNotReceived == progress.pc # "raised"

\* Until the first recovery, a receive whose call is about to return MPI_SUCCESS has
\* its message: a call that a failure ended does not pass for a successful one.
SuccessHasMessage ==
    recoveries = 0 /\ pc["user"] = "free" /\ request[current["user"]].operation = "Receive"
        => request[current["user"]].message # NoMessage

\* The comment in Request::release "check if anyone is waiting on it": a user that
\* sleeps on a completed request is woken.
WaiterIsNotified ==
    (pc["user"] = "asleep" /\ request[current["user"]].complete)
        ~> pc["user"] # "asleep"

\* After a failure nobody waits for ever: when the handler has returned and the request
\* the user sleeps on is still incomplete, the cleanup message ends the wait.
Sleeps == pc["user"] = "asleep"
Abandoned ==
    Sleeps /\ ~request[current["user"]].complete /\ pc["handler"] = "idle" /\ is_errSet
FailureEndsWait == Abandoned ~> ~Sleeps

\* As long as handlers return, the matcher catches up: a receive that has a message
\* does not stay posted, whatever other receives and messages are queued before them.
CaughtUp ==
    \A r \in Posted, h \in ToSet(received_header_queue) :
        ~Matches(request[r], h)
MatcherCatchesUp == []<>(pc["handler"] = "idle") => []<>CaughtUp

\* "clear all queues": a receive posted after a recovery does not take a message that
\* was sent before it.
OnlyNewMessages ==
    \A i \in DOMAIN handles :
        Received(i) => request[handles[i]].message.number > old_messages
================================================================================
