------------------------------- MODULE EngineProofs -------------------------------
(***************************************************************************)
(* Theorems about a process's point to point communication that hold for   *)
(* every number of peers, requests, messages, checkpoints and failures,    *)
(* and wherever a signal interrupts the user's thread: first who owns a    *)
(* request, then the order in which receives and messages meet, then what  *)
(* a failure may not do to a receive.                                      *)
(***************************************************************************)
EXTENDS ProgressEngine, MatcherLemmas

\* The empty sequence has no elements.
LEMMA EmptyElements == <<>> \in Seq(RequestIds) /\ ToSet(<<>>) = {} /\ IsInjective(<<>>)
BY DEF ToSet, IsInjective

(***************************************************************************)
(* The invariant. A request has one owner: the frame that makes it, then a *)
(* queue, then the progress thread, until it is complete; from then on     *)
(* nobody but the frame that waits for it may touch it, once the progress  *)
(* thread has let go of its guard.                                         *)
(***************************************************************************)
Halting == progress.pc \in {"halt", "halt_unlock"}
Starting == {"start", "post", "locked"}
Waiting == {"wait", "acquire", "holding", "asleep", "finalize", "free"}

\* Failures that are still to be recovered from.
Ongoing == pc["handler"] # "idle" \/ is_errSet \/ pc["user"] = "failed"
Counted ==
    recoveries + (IF signals.pending THEN 1 ELSE 0) + (IF Ongoing THEN 1 ELSE 0)
        <= signals.raised

\* What the places of the progress thread say.
ProgressPlaces ==
    /\ progress.pc \in {"header", "halt", "halt_unlock", "queue"} => progress.header \in Messages
    /\ progress.pc \in {"halt_unlock", "release", "unlock"} => progress.releases # <<>>
    /\ progress.pc \in {"halt_unlock", "unlock"} =>
          request_guard[Head(progress.releases)] = "progress"
    /\ progress.pc \in {"halt", "halt_unlock", "queue"} => matcher_guard = "progress"

\* What the places of the frames say. A request that is being made is known to its frame
\* only; the user waits for requests of its own, the handler for the one it has made.
Alone(r) ==
    /\ r \in RequestIds \ pool /\ ~request[r].complete
    /\ r \notin ToSet(outbox) /\ r \notin Posted
    /\ r \notin ToSet(progress.releases) /\ r \notin ToSet(handles)
FramePlace(f) ==
    /\ pc[f] \in {"idle", "failed"} => current[f] = NoRequest
    /\ pc[f] \in Starting => Alone(current[f])
    /\ pc[f] \in Waiting =>
          /\ current[f] \in RequestIds \ pool
          /\ (f = "user") <=> (current[f] \in ToSet(handles))
    /\ pc[f] \in {"finalize", "free"} => request[current[f]].complete
    /\ pc[f] = "holding" => request_guard[current[f]] = f
    /\ pc[f] = "locked" /\ request[current[f]].operation = "Receive" => matcher_guard = f
FramesApart ==
    /\ current["user"] = current["handler"] => current["user"] = NoRequest
    /\ pc["handler"] # "idle" => ~is_errSet
    /\ pc["handler"] # "failed"

\* A request is in one queue, once.
OneQueue ==
    /\ IsInjective(outbox) /\ IsInjective(posted_request_queue)
    /\ IsInjective(progress.releases) /\ IsInjective(handles)
    /\ \A r \in ToSet(outbox) : r \notin Posted /\ r \notin ToSet(progress.releases)
    /\ \A r \in Posted : r \notin ToSet(progress.releases)

\* Nobody but its waiter holds a completed request, or the progress thread as long as it
\* holds its guard.
Completed ==
    \A r \in RequestIds \ pool :
        /\ request[r] \in LiveRequests
        /\ request[r].complete =>
              /\ r \notin ToSet(outbox) /\ r \notin Posted
              /\ r \in ToSet(progress.releases) =>
                    progress.pc \in {"halt_unlock", "unlock"} /\ r = Head(progress.releases)

\* RequestInUse, element by element.
NotFree ==
    \A r \in pool :
        /\ r \notin ToSet(outbox) /\ r \notin Posted
        /\ r \notin ToSet(progress.releases) /\ r \notin ToSet(handles)

Ownership ==
    /\ ProgressPlaces /\ (\A f \in Frames : FramePlace(f)) /\ FramesApart
    /\ OneQueue /\ Completed /\ NotFree
EngineInv == TypeOK /\ Counted /\ Ownership

(***************************************************************************)
(* What the steps have in common.                                          *)
(***************************************************************************)

\* A live request stays one when it is completed, waited for, or matched.
LEMMA LiveUpdates ==
    ASSUME NEW q \in LiveRequests
    PROVE  /\ [q EXCEPT !.complete = TRUE] \in LiveRequests
           /\ [q EXCEPT !.condition = TRUE] \in LiveRequests
           /\ \A m \in Messages : [q EXCEPT !.message = m] \in LiveRequests
BY DEF LiveRequests

\* A step that leaves the frames alone and gives away no request that a frame has to
\* itself: the requests in the queues come from the queues.
LEMMA FramesKept ==
    ASSUME EngineInv, UNCHANGED <<pc, current, pool, handles, is_errSet>>,
           \A r \in RequestIds \ pool :
              /\ request'[r].operation = request[r].operation
              /\ request[r].complete => request'[r].complete
              /\ request'[r].complete => request[r].complete \/ r \in ToSet(progress.releases),
           ToSet(outbox)' \subseteq ToSet(outbox), Posted' \subseteq Posted,
           ToSet(progress.releases)' \subseteq
              ToSet(progress.releases) \cup Posted \cup ToSet(outbox),
           \A f \in Frames :
              /\ \A r \in RequestIds : request_guard[r] = f => request_guard'[r] = f
              /\ matcher_guard = f => matcher_guard' = f
    PROVE  (\A f \in Frames : FramePlace(f))' /\ FramesApart' /\ NotFree'
<1>1. ASSUME NEW f \in Frames PROVE FramePlace(f)'
  <2>1. FramePlace(f) /\ pc'[f] = pc[f] /\ current'[f] = current[f]
    BY DEF EngineInv, Ownership
  <2>2. Alone(current[f]) => Alone(current[f])'
    BY DEF Alone
  <2>3. pc[f] \in Starting => Alone(current[f])'
    BY <2>1, <2>2 DEF FramePlace
  <2>4. pc[f] \in Waiting =>
          /\ current[f] \in RequestIds \ pool'
          /\ (f = "user") <=> (current[f] \in ToSet(handles'))
    BY <2>1 DEF FramePlace
  <2>5. pc[f] \in {"finalize", "free"} => request'[current[f]].complete
    BY <2>1, <2>4 DEF FramePlace, Waiting
  <2>6. pc[f] = "holding" => request_guard'[current[f]] = f
    BY <2>1, <2>4 DEF FramePlace, Waiting
  <2>7. pc[f] = "locked" /\ request'[current[f]].operation = "Receive" => matcher_guard' = f
    BY <2>1 DEF FramePlace, Starting, Alone
  <2> QED
    BY <2>1, <2>3, <2>4, <2>5, <2>6, <2>7 DEF FramePlace
<1>2. FramesApart'
  BY DEF EngineInv, Ownership, FramesApart
<1>3. NotFree'
  BY DEF EngineInv, Ownership, NotFree
<1> QED
  BY <1>1, <1>2, <1>3

\* A step of the progress thread: what is left to show.
LEMMA ProgressKeeps ==
    ASSUME EngineInv, UNCHANGED <<frameVars, faultVars, peerVars, pool, handles>>,
           (\A f \in Frames : FramePlace(f))' /\ FramesApart' /\ NotFree',
           request' \in [RequestIds -> LiveRequests \cup {Unused}],
           request_guard' \in [RequestIds -> Holders],
           QueueTypes', ProgressTypes', notified' \subseteq Frames,
           matcher_guard' \in Holders, outbox_guard' \in Holders,
           ProgressPlaces', OneQueue', Completed'
    PROVE  EngineInv'
<1> USE DEF frameVars, faultVars, historyVars, peerVars
<1>1. RequestTypes' /\ FrameTypes' /\ CountTypes'
  BY DEF EngineInv, TypeOK, RequestTypes, FrameTypes, CountTypes
<1>2. Counted'
  BY DEF EngineInv, Counted, Ongoing
<1> QED
  BY <1>1, <1>2 DEF EngineInv, TypeOK, Ownership

\* A sequence of one element.
LEMMA OneElement ==
    ASSUME NEW r \in RequestIds
    PROVE  <<r>> \in Seq(RequestIds) /\ ToSet(<<r>>) = {r} /\ IsInjective(<<r>>)
           /\ Head(<<r>>) = r /\ <<r>> # <<>>
BY DEF ToSet, IsInjective

\* A step of one frame leaves the place of the other as it is when it changes no request
\* but its own.
LEMMA OtherFrame ==
    ASSUME EngineInv, NEW f \in Frames, NEW g \in Frames, g # f, UNCHANGED progress,
           pc'[g] = pc[g], current'[g] = current[g],
           \A s \in RequestIds \ pool : s # current[f] =>
              /\ request'[s] = request[s] /\ s \notin pool'
              /\ s \in ToSet(outbox') => s \in ToSet(outbox)
              /\ s \in Posted' => s \in Posted
              /\ s \in ToSet(handles') <=> s \in ToSet(handles),
           \A s \in RequestIds : request_guard[s] = g => request_guard'[s] = g,
           matcher_guard = g => matcher_guard' = g
    PROVE  FramePlace(g)'
<1>1. FramePlace(g) /\ FramesApart
  BY DEF EngineInv, Ownership
<1>2. current[g] \in RequestIds => current[g] # current[f]
  BY <1>1 DEF FramesApart, Frames, RequestIds, NoRequest
<1>3. pc[g] \in Starting => Alone(current[g])'
  BY <1>1, <1>2 DEF FramePlace, Alone
<1>4. pc[g] \in Waiting =>
        /\ current[g] \in RequestIds \ pool'
        /\ (g = "user") <=> (current[g] \in ToSet(handles'))
        /\ request'[current[g]] = request[current[g]]
  BY <1>1, <1>2 DEF FramePlace
<1>5. pc[g] = "locked" => request'[current[g]] = request[current[g]]
  BY <1>1, <1>2 DEF FramePlace, Alone, Starting
<1> QED
  BY <1>1, <1>3, <1>4, <1>5 DEF FramePlace, Waiting

\* A step of the frame that runs: what is left to show.
LEMMA FrameKeeps ==
    ASSUME EngineInv, NEW f \in Frames, NEW place \in Places,
           NEW r \in RequestIds \cup {NoRequest},
           \/ f = "user" /\ pc["handler"] = "idle"
           \/ /\ f = "handler" /\ pc[f] # "idle"
              /\ place # "failed" /\ r \in {current[f], NoRequest},
           pc' = [pc EXCEPT ![f] = place], current' = [current EXCEPT ![f] = r],
           in_waitall' \in BOOLEAN, is_errSet' \in BOOLEAN,
           is_errSet' => is_errSet \/ (f = "handler" /\ place = "idle"),
           place = "failed" => is_errSet,
           UNCHANGED <<progress, received_header_queue, socket, epoch, historyVars,
                       signals, peerVars>>,
           notified' \subseteq notified, RequestTypes',
           posted_request_queue' \in Seq(RequestIds), outbox' \in Seq(RequestIds),
           matcher_guard' \in Holders, outbox_guard' \in Holders,
           \A s \in RequestIds \ pool : s # current[f] =>
              /\ request'[s] = request[s] /\ s \notin pool'
              /\ s \in ToSet(outbox') => s \in ToSet(outbox)
              /\ s \in Posted' => s \in Posted
              /\ s \in ToSet(handles') <=> s \in ToSet(handles),
           \A g \in Frames : g # f =>
              /\ \A s \in RequestIds : request_guard[s] = g => request_guard'[s] = g
              /\ matcher_guard = g => matcher_guard' = g,
           FramePlace(f)', ProgressPlaces', OneQueue', Completed', NotFree'
    PROVE  EngineInv'
<1> USE DEF historyVars, peerVars
<1>1. FrameTypes /\ ProgressTypes /\ CountTypes /\ QueueTypes /\ Counted /\ FramesApart
      /\ \A g \in Frames : FramePlace(g)
  BY DEF EngineInv, TypeOK, Ownership
<1>2. /\ pc \in [Frames -> Places] /\ current \in [Frames -> RequestIds \cup {NoRequest}]
      /\ pc'[f] = place /\ current'[f] = r
      /\ \A g \in Frames : g # f => pc'[g] = pc[g] /\ current'[g] = current[g]
  BY <1>1 DEF FrameTypes
<1>3. FrameTypes'
  BY <1>1, <1>2 DEF FrameTypes
<1>4. QueueTypes' /\ ProgressTypes' /\ CountTypes'
  BY <1>1 DEF QueueTypes, ProgressTypes, CountTypes
<1>5. Ongoing' => Ongoing
  BY <1>1, <1>2 DEF Ongoing, FramesApart, Frames
<1>6. Counted'
  <2>1. recoveries \in Nat /\ signals.raised \in Nat
    BY <1>1, EngineAssumption DEF CountTypes
  <2>2. recoveries' = recoveries /\ signals' = signals
    OBVIOUS
  <2> QED
    BY <1>1, <1>5, <2>1, <2>2 DEF Counted
<1>7. ASSUME NEW g \in Frames PROVE FramePlace(g)'
  <2>1. CASE g = f
    BY <2>1
  <2>2. CASE g # f
    BY <2>2, <1>2, OtherFrame
  <2> QED
    BY <2>1, <2>2
<1>8. FramesApart'
  <2>1. CASE f = "user"
    <3>1. pc["handler"] = "idle" /\ current["handler"] = NoRequest
      BY <2>1, <1>1 DEF FramePlace, Frames
    <3> QED
      BY <2>1, <3>1, <1>2 DEF FramesApart, Frames
  <2>2. CASE f = "handler"
    <3>1. pc["handler"] # "idle" /\ ~is_errSet /\ place # "failed"
      BY <2>2, <1>1 DEF FramesApart
    <3>2. current'["user"] = current["user"] /\ current'["handler"] = r
          /\ pc'["handler"] = place
      BY <2>2, <1>2 DEF Frames
    <3>3. r \in {current["handler"], NoRequest}
      BY <2>2
    <3> QED
      BY <2>2, <3>1, <3>2, <3>3, <1>1 DEF FramesApart
  <2> QED
    BY <2>1, <2>2 DEF Frames
<1> QED
  BY <1>3, <1>4, <1>6, <1>7, <1>8 DEF EngineInv, TypeOK, Ownership

\* A step that only moves a frame to another place.
LEMMA FrameMoves ==
    ASSUME EngineInv, NEW f \in Frames, NEW place \in Places,
           NEW r \in RequestIds \cup {NoRequest},
           \/ f = "user" /\ pc["handler"] = "idle"
           \/ /\ f = "handler" /\ pc[f] # "idle"
              /\ place # "failed" /\ r \in {current[f], NoRequest},
           pc' = [pc EXCEPT ![f] = place], current' = [current EXCEPT ![f] = r],
           in_waitall' \in BOOLEAN, place = "failed" => is_errSet,
           UNCHANGED <<requestVars, queueVars, guardVars, progress, notified, faultVars,
                       socket, peerVars>>,
           FramePlace(f)'
    PROVE  EngineInv'
<1> USE DEF requestVars, queueVars, guardVars, faultVars
<1>1. TypeOK /\ ProgressPlaces /\ OneQueue /\ Completed /\ NotFree
  BY DEF EngineInv, Ownership
<1>2. RequestTypes' /\ posted_request_queue' \in Seq(RequestIds)
      /\ outbox' \in Seq(RequestIds) /\ matcher_guard' \in Holders
      /\ outbox_guard' \in Holders /\ is_errSet' \in BOOLEAN
  BY <1>1 DEF TypeOK, RequestTypes, QueueTypes, FrameTypes
<1>3. ProgressPlaces' /\ OneQueue' /\ Completed' /\ NotFree' /\ Posted' = Posted
  BY <1>1 DEF ProgressPlaces, OneQueue, Completed, NotFree, Posted
<1> QED
  BY <1>2, <1>3, FrameKeeps

\* A call that fails moves the user to "failed".
LEMMA FailsStep ==
    ASSUME EngineInv, Fails, is_errSet,
           UNCHANGED <<requestVars, queueVars, guardVars, progress, notified, faultVars,
                       socket, peerVars>>
    PROVE  EngineInv'
<1>1. pc["handler"] = "idle" /\ pc \in [Frames -> Places]
      /\ current \in [Frames -> RequestIds \cup {NoRequest}]
  BY DEF EngineInv, Ownership, FramesApart, TypeOK, FrameTypes
<1>2. /\ pc' = [pc EXCEPT !["user"] = "failed"]
      /\ current' = [current EXCEPT !["user"] = NoRequest]
      /\ in_waitall' = FALSE
  BY DEF Fails
<1>3. pc'["user"] = "failed" /\ current'["user"] = NoRequest /\ "user" \in Frames
  BY <1>1, <1>2 DEF Frames
<1>4. FramePlace("user")'
  BY <1>3 DEF FramePlace, Starting, Waiting
<1>5. "failed" \in Places
  BY DEF Places
<1> QED
  BY <1>1, <1>2, <1>3, <1>4, <1>5, FrameMoves

(***************************************************************************)
(* Steps of the user's frame and of the handler.                           *)
(***************************************************************************)

\* Where a frame is when one of its steps is taken.
LEMMA FrameRuns ==
    ASSUME EngineInv, NEW f \in Frames, Running(f), pc[f] \notin {"idle", "failed"}
    PROVE  /\ pc \in [Frames -> Places]
           /\ current \in [Frames -> RequestIds \cup {NoRequest}]
           /\ current[f] \in RequestIds /\ current[f] \notin pool
           /\ request[current[f]] \in LiveRequests
           /\ in_waitall \in BOOLEAN
           /\ \/ f = "user" /\ pc["handler"] = "idle"
              \/ f = "handler" /\ pc[f] # "idle" /\ ~is_errSet
           /\ FramePlace(f)
<1>1. /\ FrameTypes /\ FramePlace(f) /\ FramesApart /\ Completed
  BY DEF EngineInv, TypeOK, Ownership
<1>2. pc[f] \in Starting \cup Waiting
  BY <1>1 DEF FrameTypes, Places, Starting, Waiting
<1>3. current[f] \in RequestIds /\ current[f] \notin pool
  BY <1>1, <1>2 DEF FramePlace, Alone
<1>4. \/ f = "user" /\ pc["handler"] = "idle"
      \/ f = "handler" /\ pc[f] # "idle" /\ ~is_errSet
  BY <1>1 DEF Running, Frames, FramesApart
<1> QED
  BY <1>1, <1>3, <1>4 DEF FrameTypes, Completed

\* A request that is made belongs to its frame only.
LEMMA ConstructFacts ==
    ASSUME EngineInv, NEW f \in Frames, NEW operation \in {"Send", "Receive"}, NEW envelope,
           envelope.source \in Peers \cup {Self, AnySource},
           envelope.tag \in Tags \cup {CleanupTag, AnyTag},
           construct_request(f, operation, envelope),
           UNCHANGED <<request_guard, handles, queueVars, guardVars, progress>>
    PROVE  \E r \in pool :
              /\ pc' = [pc EXCEPT ![f] = "start"] /\ current' = [current EXCEPT ![f] = r]
              /\ UNCHANGED in_waitall
              /\ RequestTypes' /\ ProgressPlaces' /\ OneQueue' /\ Completed' /\ NotFree'
              /\ Posted' = Posted /\ FramePlace(f)'
              /\ \A s \in RequestIds \ pool : request'[s] = request[s] /\ s \notin pool'
<1> DEFINE r == CHOOSE free \in pool : TRUE
           new == [operation |-> operation, epoch |-> epoch, context |-> WorldContext,
                   source |-> envelope.source, tag |-> envelope.tag, complete |-> FALSE,
                   condition |-> FALSE, message |-> NoMessage]
<1>1. /\ r \in pool /\ pool' = pool \ {r}
      /\ request' = [request EXCEPT ![r] = new]
      /\ current' = [current EXCEPT ![f] = r]
      /\ pc' = [pc EXCEPT ![f] = "start"] /\ UNCHANGED in_waitall
  BY DEF construct_request, allocate_request, Goto
<1>2. TypeOK /\ ProgressPlaces /\ OneQueue /\ Completed /\ NotFree /\ QueueTypes
      /\ RequestTypes /\ FrameTypes /\ ProgressTypes /\ CountTypes
  BY DEF EngineInv, Ownership, TypeOK
<1>3. new \in LiveRequests /\ ~new.complete
  BY <1>2 DEF LiveRequests, CountTypes
<1> HIDE DEF r, new
<1>4. /\ r \in RequestIds
      /\ request' \in [RequestIds -> LiveRequests \cup {Unused}] /\ request'[r] = new
      /\ \A s \in RequestIds : s # r => request'[s] = request[s]
  BY <1>1, <1>2, <1>3 DEF RequestTypes
<1> USE DEF queueVars, guardVars
<1>5. RequestTypes'
  BY <1>1, <1>2, <1>4 DEF RequestTypes
<1>6. ProgressPlaces' /\ OneQueue' /\ Posted' = Posted
  BY <1>2 DEF ProgressPlaces, OneQueue, Posted
<1>7. r \notin ToSet(outbox) /\ r \notin Posted
      /\ r \notin ToSet(progress.releases) /\ r \notin ToSet(handles)
  BY <1>1, <1>2 DEF NotFree
<1>8. Completed' /\ NotFree'
  BY <1>1, <1>2, <1>3, <1>4, <1>6, <1>7 DEF Completed, NotFree
<1>9. pc'[f] = "start" /\ current'[f] = r
  BY <1>1, <1>2 DEF FrameTypes
<1>10. FramePlace(f)'
  BY <1>1, <1>3, <1>4, <1>6, <1>7, <1>9 DEF FramePlace, Alone, Starting, Waiting
<1> QED
  BY <1>1, <1>4, <1>5, <1>6, <1>8, <1>10

(***************************************************************************)
(* Steps of the progress thread.                                           *)
(***************************************************************************)

\* BlockingProgress::progress takes a header from the transport: no request moves.
LEMMA OrderedRecvStep ==
    ASSUME EngineInv, ordered_recv PROVE EngineInv'
<1> USE DEF frameVars, requestVars, queueVars, guardVars, ordered_recv, Progress
<1>1. /\ QueueTypes /\ socket \in Seq(Messages) /\ socket # <<>>
      /\ OneQueue /\ Completed /\ RequestTypes /\ FrameTypes
  BY DEF EngineInv, TypeOK, QueueTypes, Ownership
<1>2. Tail(socket) \in Seq(Messages) /\ Head(socket) \in Messages
  BY <1>1, TailElements
<1>3. progress' = [pc |-> "header", header |-> Head(socket), releases |-> <<>>]
  OBVIOUS
<1>4. ToSet(progress.releases)' = {} /\ Posted' = Posted /\ progress.pc = "recv"
  BY <1>3, EmptyElements DEF Posted
<1>5. QueueTypes' /\ ProgressTypes'
  BY <1>1, <1>2, <1>3, EmptyElements DEF QueueTypes, ProgressTypes
<1>6. (\A f \in Frames : FramePlace(f))' /\ FramesApart' /\ NotFree'
  BY <1>4, FramesKept DEF faultVars
<1>7. ProgressPlaces'
  BY <1>2, <1>3 DEF ProgressPlaces
<1>8. OneQueue' /\ Completed'
  BY <1>1, <1>3, <1>4, EmptyElements DEF OneQueue, Completed
<1> QED
  BY <1>1, <1>5, <1>6, <1>7, <1>8, ProgressKeeps DEF RequestTypes, FrameTypes

\* SimpleMatcher::post_header: a cleanup takes over all posted receives at once.
LEMMA PostHeaderStep ==
    ASSUME EngineInv, post_header PROVE EngineInv'
<1> USE DEF frameVars, requestVars, queueVars, post_header, Progress
<1>1. /\ QueueTypes /\ OneQueue /\ Completed /\ RequestTypes /\ FrameTypes /\ ProgressTypes
      /\ posted_request_queue \in Seq(RequestIds)
      /\ progress.header \in Messages
  BY DEF EngineInv, TypeOK, QueueTypes, Ownership, ProgressPlaces
<1>2. Posted = ToSet(posted_request_queue)
  BY DEF Posted
<1>3. CASE progress.header.tag = CleanupTag
  <2>1. progress' = [pc |-> "halt", header |-> progress.header,
                     releases |-> posted_request_queue]
    BY <1>3 DEF ToRelease
  <2>2. ToSet(progress.releases)' = Posted /\ Posted' = {}
    BY <2>1, <1>2 DEF Posted
  <2>3. QueueTypes' /\ ProgressTypes'
    BY <1>1, <2>1 DEF QueueTypes, ProgressTypes
  <2>4. (\A f \in Frames : FramePlace(f))' /\ FramesApart' /\ NotFree'
    BY <2>2, FramesKept DEF faultVars, Frames
  <2>5. ProgressPlaces'
    BY <1>1, <2>1 DEF ProgressPlaces
  <2>6. OneQueue' /\ Completed'
    BY <1>1, <2>1, <2>2 DEF OneQueue, Completed
  <2> QED
    BY <1>1, <2>3, <2>4, <2>5, <2>6, ProgressKeeps DEF RequestTypes, FrameTypes, Holders
<1>4. CASE progress.header.tag # CleanupTag
  <2>1. progress' = [pc |-> "queue", header |-> progress.header, releases |-> <<>>]
    BY <1>4
  <2>2. ToSet(progress.releases)' = {} /\ Posted' = Posted
    BY <2>1, <1>2, EmptyElements DEF Posted
  <2>3. QueueTypes' /\ ProgressTypes'
    BY <1>1, <2>1, EmptyElements DEF QueueTypes, ProgressTypes
  <2>4. (\A f \in Frames : FramePlace(f))' /\ FramesApart' /\ NotFree'
    BY <2>2, FramesKept DEF faultVars, Frames
  <2>5. ProgressPlaces'
    BY <1>1, <2>1 DEF ProgressPlaces
  <2>6. OneQueue' /\ Completed'
    BY <1>1, <2>1, <2>2, EmptyElements DEF OneQueue, Completed
  <2> QED
    BY <1>1, <2>3, <2>4, <2>5, <2>6, ProgressKeeps DEF RequestTypes, FrameTypes, Holders
<1> QED
  BY <1>3, <1>4

\* Request::release: the progress thread completes a request that it alone holds.
LEMMA ReleaseStep ==
    ASSUME EngineInv, Release PROVE EngineInv'
<1> DEFINE r == Head(progress.releases)
<1> USE DEF frameVars, queueVars, guardVars, Release, release
<1>1. /\ QueueTypes /\ OneQueue /\ Completed /\ NotFree /\ ProgressPlaces
      /\ RequestTypes /\ FrameTypes /\ ProgressTypes
  BY DEF EngineInv, TypeOK, Ownership
<1>2. progress.releases \in Seq(RequestIds) /\ progress.releases # <<>>
  BY <1>1 DEF ProgressTypes
<1>3. r \in RequestIds /\ r \in ToSet(progress.releases) /\ r \notin pool
  BY <1>1, <1>2, TailElements DEF NotFree
<1>4. /\ progress' = [progress EXCEPT !.pc = IF @ = "halt" THEN "halt_unlock" ELSE "unlock"]
      /\ progress'.releases = progress.releases /\ progress'.header = progress.header
      /\ progress'.pc \in {"halt_unlock", "unlock"}
      /\ progress'.pc = "halt_unlock" <=> progress.pc = "halt"
  BY <1>1 DEF ProgressTypes
<1>5. /\ request' = [request EXCEPT ![r].complete = TRUE]
      /\ request_guard' = [request_guard EXCEPT ![r] = "progress"]
      /\ request_guard[r] = "none"
  OBVIOUS
<1>6. request[r] \in LiveRequests /\ [request[r] EXCEPT !.complete = TRUE] \in LiveRequests
  BY <1>1, <1>3, LiveUpdates DEF Completed
<1>7. /\ request'[r] = [request[r] EXCEPT !.complete = TRUE]
      /\ \A s \in RequestIds : s # r => request'[s] = request[s]
      /\ request' \in [RequestIds -> LiveRequests \cup {Unused}]
      /\ request_guard'[r] = "progress"
      /\ \A s \in RequestIds : s # r => request_guard'[s] = request_guard[s]
      /\ request_guard' \in [RequestIds -> Holders]
  BY <1>1, <1>3, <1>5, <1>6 DEF RequestTypes, Holders
<1>8. /\ request'[r].complete /\ request'[r].operation = request[r].operation
  BY <1>6, <1>7 DEF LiveRequests
<1>9. Posted' = Posted
  BY <1>4 DEF Posted
<1>10. notified' \subseteq Frames
  BY <1>1 DEF notify_one, Sleepers, FrameTypes
<1>11. QueueTypes' /\ ProgressTypes'
  BY <1>1, <1>4 DEF QueueTypes, ProgressTypes
<1> HIDE DEF r
<1>12. (\A f \in Frames : FramePlace(f))' /\ FramesApart' /\ NotFree'
  <2>1. \A f \in Frames : f # "none"
    BY DEF Frames
  <2>2. \A s \in RequestIds \ pool :
              /\ request'[s].operation = request[s].operation
              /\ request[s].complete => request'[s].complete
              /\ request'[s].complete => request[s].complete \/ s \in ToSet(progress.releases)
    BY <1>3, <1>7, <1>8
  <2>3. \A f \in Frames : \A s \in RequestIds : request_guard[s] = f => request_guard'[s] = f
    BY <2>1, <1>5, <1>7
  <2> QED
    BY <2>2, <2>3, <1>4, <1>9, FramesKept DEF faultVars
<1>13. ProgressPlaces'
  BY <1>1, <1>2, <1>4, <1>7 DEF ProgressPlaces, r
<1>14. OneQueue'
  BY <1>1, <1>4, <1>9 DEF OneQueue
<1>15. Completed'
  <2> SUFFICES ASSUME NEW s \in RequestIds \ pool
               PROVE /\ request'[s] \in LiveRequests
                     /\ request'[s].complete =>
                           /\ s \notin ToSet(outbox) /\ s \notin Posted
                           /\ s \in ToSet(progress.releases) => s = r
    BY <1>4, <1>9 DEF Completed, r
  <2>1. CASE s = r
    BY <2>1, <1>1, <1>3, <1>6, <1>7 DEF OneQueue
  <2>2. CASE s # r
    BY <2>2, <1>1, <1>7 DEF Completed
  <2> QED
    BY <2>1, <2>2
<1> QED
  BY <1>1, <1>7, <1>10, <1>11, <1>12, <1>13, <1>14, <1>15, ProgressKeeps DEF FrameTypes

\* The end of Request::release: from here on only the waiter holds the request.
LEMMA UnlockStep ==
    ASSUME EngineInv, Unlock PROVE EngineInv'
<1> DEFINE r == Head(progress.releases)
<1> USE DEF frameVars, queueVars, guardVars, Unlock, Progress
<1>1. /\ QueueTypes /\ OneQueue /\ Completed /\ NotFree /\ ProgressPlaces
      /\ RequestTypes /\ FrameTypes /\ ProgressTypes
  BY DEF EngineInv, TypeOK, Ownership
<1>2. progress.releases \in Seq(RequestIds) /\ progress.releases # <<>>
  BY <1>1 DEF ProgressTypes, ProgressPlaces
<1>3. /\ r \in RequestIds /\ request_guard[r] = "progress"
      /\ Tail(progress.releases) \in Seq(RequestIds)
      /\ ToSet(Tail(progress.releases)) \subseteq ToSet(progress.releases)
      /\ IsInjective(Tail(progress.releases)) /\ r \notin ToSet(Tail(progress.releases))
  BY <1>1, <1>2, TailElements DEF OneQueue, ProgressPlaces
<1>4. /\ request_guard' \in [RequestIds -> Holders]
      /\ \A s \in RequestIds : s # r => request_guard'[s] = request_guard[s]
  BY <1>1, <1>3 DEF RequestTypes, Holders
<1>5. \A f \in Frames : \A s \in RequestIds : request_guard[s] = f => request_guard'[s] = f
  BY <1>3, <1>4 DEF Frames
<1> HIDE DEF r
<1>6. CASE progress.pc = "halt_unlock"
  <2>1. progress' = [pc |-> "halt", header |-> progress.header,
                     releases |-> Tail(progress.releases)]
    BY <1>6
  <2>2. Posted' = Posted /\ Posted = {}
    BY <1>6, <2>1 DEF Posted
  <2>3. QueueTypes' /\ ProgressTypes'
    BY <1>1, <1>3, <2>1 DEF QueueTypes, ProgressTypes
  <2>4. (\A f \in Frames : FramePlace(f))' /\ FramesApart' /\ NotFree'
    BY <1>3, <1>5, <2>1, <2>2, FramesKept DEF faultVars
  <2>5. ProgressPlaces'
    BY <1>1, <1>6, <2>1 DEF ProgressPlaces
  <2>6. OneQueue'
    BY <1>1, <1>3, <2>1, <2>2 DEF OneQueue
  <2>7. Completed'
    BY <1>1, <1>3, <2>1, <2>2 DEF Completed, r
  <2> QED
    BY <1>1, <1>4, <2>3, <2>4, <2>5, <2>6, <2>7, ProgressKeeps DEF RequestTypes, FrameTypes
<1>7. CASE progress.pc = "unlock"
  <2>1. progress' = Idle
    BY <1>7
  <2>2. Posted' = Posted /\ progress'.releases = <<>> /\ ToSet(progress.releases)' = {}
    BY <1>7, <2>1, EmptyElements DEF Posted, Idle
  <2>3. QueueTypes' /\ ProgressTypes'
    BY <1>1, <2>1, EmptyElements DEF QueueTypes, ProgressTypes, Idle
  <2>4. (\A f \in Frames : FramePlace(f))' /\ FramesApart' /\ NotFree'
    BY <1>5, <2>2, FramesKept DEF faultVars
  <2>5. ProgressPlaces'
    BY <2>1 DEF ProgressPlaces, Idle
  <2>6. OneQueue' /\ Completed'
    BY <1>1, <2>2, EmptyElements DEF OneQueue, Completed
  <2> QED
    BY <1>1, <1>4, <2>3, <2>4, <2>5, <2>6, ProgressKeeps DEF RequestTypes, FrameTypes
<1> QED
  BY <1>6, <1>7

\* The end of SimpleMatcher::halt: the receives it has completed are no longer posted.
LEMMA HaltStep ==
    ASSUME EngineInv, halt PROVE EngineInv'
<1> USE DEF frameVars, requestVars, guardVars, halt, Progress
<1>1. /\ QueueTypes /\ OneQueue /\ Completed /\ RequestTypes /\ FrameTypes /\ ProgressTypes
      /\ ProgressPlaces /\ progress.header \in Messages
  BY DEF EngineInv, TypeOK, Ownership, ProgressPlaces
<1>2. progress' = [pc |-> "queue", header |-> progress.header, releases |-> <<>>]
  OBVIOUS
<1>3. ToSet(progress.releases)' = {} /\ Posted' = {} /\ Posted = {}
  BY <1>2, EmptyElements DEF Posted
<1>4. QueueTypes' /\ ProgressTypes'
  BY <1>1, <1>2, EmptyElements DEF QueueTypes, ProgressTypes
<1>5. (\A f \in Frames : FramePlace(f))' /\ FramesApart' /\ NotFree'
  BY <1>3, FramesKept DEF faultVars
<1>6. ProgressPlaces'
  BY <1>1, <1>2 DEF ProgressPlaces
<1>7. OneQueue' /\ Completed'
  BY <1>1, <1>2, <1>3, EmptyElements DEF OneQueue, Completed
<1> QED
  BY <1>1, <1>4, <1>5, <1>6, <1>7, ProgressKeeps DEF RequestTypes, FrameTypes

\* The end of SimpleMatcher::post_header: no request moves.
LEMMA QueueHeaderStep ==
    ASSUME EngineInv, queue_header PROVE EngineInv'
<1> USE DEF frameVars, requestVars, queue_header
<1>1. /\ QueueTypes /\ OneQueue /\ Completed /\ RequestTypes /\ FrameTypes /\ ProgressTypes
      /\ ProgressPlaces /\ progress.header \in Messages
  BY DEF EngineInv, TypeOK, Ownership, ProgressPlaces
<1>2. progress' = Idle /\ progress.pc = "queue" /\ matcher_guard = "progress"
  BY <1>1 DEF ProgressPlaces
<1>3. progress'.releases = <<>> /\ ToSet(progress.releases)' = {} /\ Posted' = Posted
  BY <1>2, EmptyElements DEF Posted, Idle
<1>4. QueueTypes' /\ ProgressTypes'
  <2>1. ProgressTypes'
    BY <1>2, EmptyElements DEF ProgressTypes, Idle
  <2>2. Append(received_header_queue, progress.header) \in Seq(Messages)
    BY <1>1, AppendElements DEF QueueTypes
  <2> QED
    BY <1>1, <2>1, <2>2 DEF QueueTypes
<1>5. (\A f \in Frames : FramePlace(f))' /\ FramesApart' /\ NotFree'
  BY <1>2, <1>3, FramesKept DEF faultVars, Frames
<1>6. ProgressPlaces'
  BY <1>2 DEF ProgressPlaces, Idle
<1>7. OneQueue' /\ Completed'
  BY <1>1, <1>3, EmptyElements DEF OneQueue, Completed
<1> QED
  BY <1>1, <1>4, <1>5, <1>6, <1>7, ProgressKeeps DEF RequestTypes, FrameTypes, Holders

\* SimpleMatcher::progress: a receive goes from its queue to the progress thread.
LEMMA MatcherProgressStep ==
    ASSUME EngineInv, matcher_progress PROVE EngineInv'
<1> USE DEF frameVars
<1>1. /\ QueueTypes /\ OneQueue /\ Completed /\ NotFree
      /\ RequestTypes /\ FrameTypes /\ ProgressTypes
      /\ posted_request_queue \in Seq(RequestIds) /\ received_header_queue \in Seq(Messages)
      /\ request \in [RequestIds -> LiveRequests \cup {Unused}]
  BY DEF EngineInv, TypeOK, QueueTypes, RequestTypes, Ownership
<1>2. /\ progress.pc = "recv" /\ Posted = ToSet(posted_request_queue)
      /\ UNCHANGED <<pool, request_guard, handles, outbox, guardVars, frameVars, notified,
                     faultVars, socket, peerVars>>
  BY DEF matcher_progress, Posted
<1>3. CASE NoMatch
  <2>1. /\ progress' = [pc |-> "outbox", header |-> NoMessage, releases |-> <<>>]
        /\ UNCHANGED <<request, posted_request_queue, received_header_queue>>
    BY <1>3 DEF matcher_progress, Progress
  <2>2. ToSet(progress.releases)' = {} /\ Posted' = Posted
    BY <1>2, <2>1, EmptyElements DEF Posted
  <2>3. QueueTypes' /\ ProgressTypes'
    BY <1>1, <1>2, <2>1, EmptyElements DEF QueueTypes, ProgressTypes
  <2>4. (\A f \in Frames : FramePlace(f))' /\ FramesApart' /\ NotFree'
    BY <1>2, <2>1, <2>2, FramesKept DEF faultVars, guardVars
  <2>5. ProgressPlaces'
    BY <2>1 DEF ProgressPlaces
  <2>6. OneQueue' /\ Completed'
    BY <1>1, <1>2, <2>1, <2>2, EmptyElements DEF OneQueue, Completed
  <2> QED
    BY <1>1, <1>2, <2>1, <2>3, <2>4, <2>5, <2>6, ProgressKeeps
    DEF RequestTypes, FrameTypes, guardVars
<1>4. CASE ~NoMatch
  <2> DEFINE match == FirstMatch(Envelopes, received_header_queue)
             r == posted_request_queue[match[1]]
             header == received_header_queue[match[2]]
  <2>1. match[1] \in 1..Len(posted_request_queue) /\ match[2] \in 1..Len(received_header_queue)
    <3>1. /\ DOMAIN Envelopes = 1..Len(posted_request_queue)
          /\ DOMAIN received_header_queue = 1..Len(received_header_queue)
      BY <1>1 DEF Envelopes
    <3>2. match \in MatchingPairs(Envelopes, received_header_queue)
      BY <1>4, <3>1, FirstMatchFits DEF NoMatch
    <3> HIDE DEF match
    <3> QED
      BY <3>1, <3>2 DEF MatchingPairs
  <2>2. TakeMatch(match) /\ handle_match(r, header)
    BY <1>4 DEF matcher_progress
  <2>3. r \in RequestIds /\ header \in Messages /\ r \in Posted /\ r \notin pool
    BY <1>1, <1>2, <2>1, RemoveAtElements DEF NotFree
  <2>4. /\ posted_request_queue' = RemoveAt(posted_request_queue, match[1])
        /\ received_header_queue' = RemoveAt(received_header_queue, match[2])
    BY <2>2 DEF TakeMatch
  <2> HIDE DEF match
  <2>5. /\ posted_request_queue' \in Seq(RequestIds) /\ received_header_queue' \in Seq(Messages)
        /\ IsInjective(posted_request_queue') /\ r \notin ToSet(posted_request_queue')
        /\ ToSet(posted_request_queue') \subseteq Posted
    <3>1. IsInjective(posted_request_queue)
      BY <1>1 DEF OneQueue
    <3> QED
      BY <1>1, <1>2, <2>1, <2>4, <3>1, RemoveAtElements
  <2>6. CASE header.tag = CleanupTag
    <3>1. progress' = [pc |-> "raised", header |-> header, releases |-> <<>>]
          /\ UNCHANGED request
      BY <2>2, <2>6 DEF handle_match, Progress
    <3> HIDE DEF r, header
    <3>2. ToSet(progress.releases)' = {} /\ Posted' = ToSet(posted_request_queue')
      BY <3>1, EmptyElements DEF Posted
    <3>3. QueueTypes' /\ ProgressTypes'
      BY <1>1, <1>2, <2>3, <2>5, <3>1, EmptyElements DEF QueueTypes, ProgressTypes
    <3>4. (\A f \in Frames : FramePlace(f))' /\ FramesApart' /\ NotFree'
      BY <1>2, <2>5, <3>1, <3>2, FramesKept DEF faultVars, guardVars
    <3>5. ProgressPlaces'
      BY <3>1 DEF ProgressPlaces
    <3>6. OneQueue' /\ Completed'
      BY <1>1, <1>2, <2>5, <3>1, <3>2, EmptyElements DEF OneQueue, Completed
    <3> QED
      BY <1>1, <1>2, <3>1, <3>3, <3>4, <3>5, <3>6, ProgressKeeps
      DEF RequestTypes, FrameTypes, guardVars
  <2>7. CASE header.tag # CleanupTag
    <3>1. /\ progress' = [pc |-> "release", header |-> NoMessage, releases |-> <<r>>]
          /\ request' = [request EXCEPT ![r].message = header]
      BY <2>2, <2>7 DEF handle_match, Progress
    <3> HIDE DEF r, header
    <3>2. request[r] \in LiveRequests /\ [request[r] EXCEPT !.message = header] \in LiveRequests
      BY <1>1, <2>3, LiveUpdates DEF Completed
    <3>3. /\ request'[r] = [request[r] EXCEPT !.message = header]
          /\ request' \in [RequestIds -> LiveRequests \cup {Unused}]
          /\ \A s \in RequestIds : s # r => request'[s] = request[s]
      BY <1>1, <2>3, <3>1, <3>2
    <3>4. /\ request'[r].complete = request[r].complete
          /\ request'[r].operation = request[r].operation
      BY <3>2, <3>3 DEF LiveRequests
    <3>5. ToSet(progress.releases)' = {r} /\ Posted' = ToSet(posted_request_queue')
      BY <2>3, <3>1, OneElement DEF Posted
    <3>6. QueueTypes' /\ ProgressTypes'
      BY <1>1, <1>2, <2>3, <2>5, <3>1, OneElement DEF QueueTypes, ProgressTypes
    <3>7. \A s \in RequestIds \ pool :
              /\ request'[s].operation = request[s].operation
              /\ request'[s].complete = request[s].complete
              /\ request'[s] \in LiveRequests
      BY <1>1, <3>2, <3>3, <3>4 DEF Completed
    <3>8. (\A f \in Frames : FramePlace(f))' /\ FramesApart' /\ NotFree'
      BY <1>2, <2>3, <2>5, <3>5, <3>7, FramesKept DEF faultVars, guardVars
    <3>9. ProgressPlaces'
      BY <2>3, <3>1, OneElement DEF ProgressPlaces
    <3>10. OneQueue'
      BY <1>1, <1>2, <2>3, <2>5, <3>1, <3>5, OneElement DEF OneQueue
    <3>11. Completed'
      BY <1>1, <1>2, <2>3, <2>5, <3>5, <3>7 DEF Completed
    <3> QED
      BY <1>1, <1>2, <3>3, <3>6, <3>8, <3>9, <3>10, <3>11, ProgressKeeps
      DEF RequestTypes, FrameTypes, guardVars
  <2> QED
    BY <2>6, <2>7
<1> QED
  BY <1>3, <1>4

\* BlockingProgress::handle_request: a send goes from the outbox to the progress thread.
LEMMA HandleRequestStep ==
    ASSUME EngineInv, handle_request PROVE EngineInv'
<1> USE DEF frameVars
<1>1. /\ QueueTypes /\ OneQueue /\ Completed /\ NotFree
      /\ RequestTypes /\ FrameTypes /\ ProgressTypes
      /\ outbox \in Seq(RequestIds) /\ socket \in Seq(Messages)
      /\ request \in [RequestIds -> LiveRequests \cup {Unused}]
  BY DEF EngineInv, TypeOK, QueueTypes, RequestTypes, Ownership
<1>2. /\ progress.pc = "outbox" /\ Posted = ToSet(posted_request_queue)
      /\ UNCHANGED <<request, pool, request_guard, handles, posted_request_queue,
                     received_header_queue, guardVars, frameVars, notified, faultVars,
                     peerVars>>
  BY DEF handle_request, requestVars, Posted
<1>3. CASE outbox = <<>>
  <2>1. progress' = Idle /\ UNCHANGED <<outbox, socket>>
    BY <1>3 DEF handle_request
  <2>2. progress'.releases = <<>> /\ ToSet(progress.releases)' = {} /\ Posted' = Posted
    BY <1>2, <2>1, EmptyElements DEF Posted, Idle
  <2>3. QueueTypes' /\ ProgressTypes'
    BY <1>1, <1>2, <2>1, EmptyElements DEF QueueTypes, ProgressTypes, Idle
  <2>4. (\A f \in Frames : FramePlace(f))' /\ FramesApart' /\ NotFree'
    BY <1>2, <2>1, <2>2, FramesKept DEF faultVars, guardVars
  <2>5. ProgressPlaces'
    BY <2>1 DEF ProgressPlaces, Idle
  <2>6. OneQueue' /\ Completed'
    BY <1>1, <1>2, <2>1, <2>2, EmptyElements DEF OneQueue, Completed
  <2> QED
    BY <1>1, <1>2, <2>1, <2>3, <2>4, <2>5, <2>6, ProgressKeeps
    DEF RequestTypes, FrameTypes, guardVars
<1>4. CASE outbox # <<>>
  <2> DEFINE r == Head(outbox)
  <2>1. /\ outbox' = Tail(outbox) /\ handle_send(r)
        /\ progress' = [pc |-> "release", header |-> NoMessage, releases |-> <<r>>]
    BY <1>4 DEF handle_request, Progress
  <2>2. /\ r \in RequestIds /\ r \in ToSet(outbox) /\ r \notin pool
        /\ outbox' \in Seq(RequestIds) /\ ToSet(outbox') \subseteq ToSet(outbox)
        /\ IsInjective(outbox') /\ r \notin ToSet(outbox')
    BY <1>1, <1>4, <2>1, TailElements DEF OneQueue, NotFree
  <2> HIDE DEF r
  <2>3. socket' \in Seq(Messages)
    <3>1. CASE request[r].tag = CleanupTag
      <4> DEFINE m == [source |-> Self, tag |-> CleanupTag, number |-> 0,
                       epoch |-> request[r].epoch, context |-> WorldContext]
      <4>1. request[r].epoch \in 0..MaxEpoch
        BY <1>1, <2>2 DEF Completed, LiveRequests
      <4>2. m \in Messages
        BY <4>1, EngineAssumption DEF Messages
      <4>3. socket' = Append(socket, m)
        BY <2>1, <3>1 DEF handle_send
      <4> HIDE DEF m
      <4> QED
        BY <1>1, <4>2, <4>3, AppendElements
    <3>2. CASE request[r].tag # CleanupTag
      BY <1>1, <2>1, <3>2 DEF handle_send
    <3> QED
      BY <3>1, <3>2
  <2>4. ToSet(progress.releases)' = {r} /\ Posted' = Posted
    BY <1>2, <2>1, <2>2, OneElement DEF Posted
  <2>5. QueueTypes' /\ ProgressTypes'
    BY <1>1, <1>2, <2>1, <2>2, <2>3, OneElement DEF QueueTypes, ProgressTypes
  <2>6. (\A f \in Frames : FramePlace(f))' /\ FramesApart' /\ NotFree'
    BY <1>2, <2>2, <2>4, FramesKept DEF faultVars, guardVars
  <2>7. ProgressPlaces'
    BY <2>1, <2>2, OneElement DEF ProgressPlaces
  <2>8. OneQueue'
    BY <1>1, <1>2, <2>1, <2>2, <2>4, OneElement DEF OneQueue
  <2>9. Completed'
    BY <1>1, <1>2, <2>2, <2>4 DEF Completed
  <2> QED
    BY <1>1, <1>2, <2>5, <2>6, <2>7, <2>8, <2>9, ProgressKeeps
    DEF RequestTypes, FrameTypes, guardVars
<1> QED
  BY <1>3, <1>4

\* MPI_Start, with or without the error flag.
LEMMA StartStep ==
    ASSUME EngineInv, NEW f \in Frames, MPI_Start(f) PROVE EngineInv'
<1>1. pc[f] = "start" /\ Running(f)
  BY DEF MPI_Start, At
<1>2. CASE is_errSet
  BY <1>2, FailsStep DEF MPI_Start
<1>3. CASE ~is_errSet
  <2>1. /\ pc' = [pc EXCEPT ![f] = "post"] /\ UNCHANGED <<current, in_waitall>>
        /\ UNCHANGED <<requestVars, queueVars, guardVars, progress, notified, faultVars,
                       socket, peerVars>>
    BY <1>3 DEF MPI_Start, Goto
  <2>2. current' = [current EXCEPT ![f] = current[f]] /\ pc'[f] = "post"
    BY <1>1, <2>1, FrameRuns
  <2>3. FramePlace(f)'
    BY <1>1, <2>1, <2>2, FrameRuns
    DEF FramePlace, Alone, Posted, Starting, Waiting, requestVars, queueVars
  <2>4. "post" \in Places
    BY DEF Places
  <2> QED
    BY <1>1, <2>1, <2>2, <2>3, <2>4, FrameRuns, FrameMoves
<1> QED
  BY <1>2, <1>3

\* finalize_request, with or without the error flag.
LEMMA FinalizeStep ==
    ASSUME EngineInv, NEW f \in Frames, finalize_request(f) PROVE EngineInv'
<1>1. pc[f] = "finalize" /\ Running(f)
  BY DEF finalize_request, At
<1>2. CASE is_errSet
  BY <1>2, FailsStep DEF finalize_request
<1>3. CASE ~is_errSet
  <2>1. /\ pc' = [pc EXCEPT ![f] = "free"] /\ UNCHANGED <<current, in_waitall>>
        /\ UNCHANGED <<requestVars, queueVars, guardVars, progress, notified, faultVars,
                       socket, peerVars>>
    BY <1>3 DEF finalize_request, Goto
  <2>2. current' = [current EXCEPT ![f] = current[f]] /\ pc'[f] = "free"
    BY <1>1, <2>1, FrameRuns
  <2>3. FramePlace(f)'
    BY <1>1, <2>1, <2>2, FrameRuns DEF FramePlace, Starting, Waiting, requestVars
  <2>4. "free" \in Places
    BY DEF Places
  <2> QED
    BY <1>1, <2>1, <2>2, <2>3, <2>4, FrameRuns, FrameMoves
<1> QED
  BY <1>2, <1>3

\* MPI_Wait up to its test: the frame waits for a request of its own.
LEMMA WaitStep ==
    ASSUME EngineInv, NEW f \in Frames, Running(f), NEW r, MPI_Wait(f, r),
           \/ f = "user" /\ pc[f] = "idle" /\ r \in ToSet(handles)
           \/ f = "handler" /\ pc[f] = "wait" /\ r = current[f]
    PROVE  EngineInv'
<1>1. /\ FrameTypes /\ RequestTypes /\ FramesApart /\ NotFree /\ FramePlace(f)
      /\ pc \in [Frames -> Places] /\ current \in [Frames -> RequestIds \cup {NoRequest}]
      /\ handles \in Seq(RequestIds)
  BY DEF EngineInv, TypeOK, Ownership, RequestTypes, FrameTypes
<1>2. CASE is_errSet
  BY <1>2, FailsStep DEF MPI_Wait
<1>3. CASE ~is_errSet
  <2> DEFINE place == IF request[r].complete THEN "finalize" ELSE "acquire"
  <2>1. /\ pc' = [pc EXCEPT ![f] = place] /\ current' = [current EXCEPT ![f] = r]
        /\ UNCHANGED in_waitall
        /\ UNCHANGED <<requestVars, queueVars, guardVars, progress, notified, faultVars,
                       socket, peerVars>>
    BY <1>3 DEF MPI_Wait, Goto
  <2>2. r \in RequestIds /\ r \notin pool /\ (f = "user" <=> r \in ToSet(handles))
    <3>1. CASE f = "user"
      BY <3>1, <1>1, ElementsType DEF NotFree
    <3>2. CASE f = "handler"
      BY <3>2, <1>1 DEF FramePlace, Waiting
    <3> QED
      BY <3>1, <3>2 DEF Frames
  <2>3. pc'[f] = place /\ current'[f] = r /\ request' = request /\ pool' = pool
        /\ handles' = handles
    BY <1>1, <2>1 DEF requestVars
  <2>4. FramePlace(f)'
    BY <2>2, <2>3 DEF FramePlace, Starting, Waiting
  <2>5. place \in Places /\ place # "failed" /\ in_waitall' \in BOOLEAN
    BY <1>1, <2>1 DEF Places, FrameTypes
  <2>6. \/ f = "user" /\ pc["handler"] = "idle"
        \/ f = "handler" /\ pc[f] # "idle" /\ r = current[f]
    BY DEF Running
  <2> HIDE DEF place
  <2> QED
    BY <2>1, <2>2, <2>4, <2>5, <2>6, FrameMoves
<1> QED
  BY <1>2, <1>3

\* MPI_Waitall begins: no request moves.
LEMMA WaitallStep ==
    ASSUME EngineInv, MPI_Waitall PROVE EngineInv'
<1>1. /\ pc \in [Frames -> Places] /\ current \in [Frames -> RequestIds \cup {NoRequest}]
      /\ pc["user"] = "idle" /\ pc["handler"] = "idle" /\ FramePlace("user")
      /\ "user" \in Frames
  BY DEF EngineInv, TypeOK, FrameTypes, MPI_Waitall, Between, At, Running, Ownership, Frames
<1>2. CASE is_errSet
  BY <1>2, FailsStep DEF MPI_Waitall
<1>3. CASE ~is_errSet
  <2>1. /\ UNCHANGED <<pc, current>> /\ in_waitall' = TRUE
        /\ UNCHANGED <<requestVars, queueVars, guardVars, progress, notified, faultVars,
                       socket, peerVars>>
    BY <1>3 DEF MPI_Waitall
  <2>2. pc' = [pc EXCEPT !["user"] = "idle"] /\ current' = [current EXCEPT !["user"] = NoRequest]
    BY <1>1, <2>1 DEF FramePlace
  <2>3. FramePlace("user")'
    BY <1>1, <2>1 DEF FramePlace, Starting, Waiting
  <2>4. "idle" \in Places
    BY DEF Places
  <2> QED
    BY <1>1, <2>1, <2>2, <2>3, <2>4, FrameMoves
<1> QED
  BY <1>2, <1>3

\* post_request takes the guard of its queue.
LEMMA LockQueueStep ==
    ASSUME EngineInv, NEW f \in Frames, lock_queue(f) PROVE EngineInv'
<1>1. /\ pc[f] = "post" /\ Running(f)
      /\ pc' = [pc EXCEPT ![f] = "locked"] /\ UNCHANGED <<current, in_waitall>>
      /\ UNCHANGED <<requestVars, queueVars, progress, notified, faultVars, socket, peerVars>>
  BY DEF lock_queue, At, Goto
<1>2. /\ pc \in [Frames -> Places] /\ FramePlace(f) /\ in_waitall \in BOOLEAN
      /\ current \in [Frames -> RequestIds \cup {NoRequest}]
      /\ \/ f = "user" /\ pc["handler"] = "idle"
         \/ f = "handler" /\ pc[f] # "idle"
  BY <1>1, FrameRuns
<1>3. /\ current' = [current EXCEPT ![f] = current[f]] /\ pc'[f] = "locked"
      /\ current[f] \in RequestIds \cup {NoRequest}
  BY <1>1, <1>2
<1>4. /\ request[current[f]].operation = "Receive" =>
           matcher_guard = "none" /\ matcher_guard' = f /\ UNCHANGED outbox_guard
      /\ request[current[f]].operation # "Receive" =>
           outbox_guard = "none" /\ outbox_guard' = f /\ UNCHANGED matcher_guard
  BY DEF lock_queue
<1>5. TypeOK /\ ProgressPlaces /\ OneQueue /\ Completed /\ NotFree
  BY DEF EngineInv, Ownership
<1> USE DEF requestVars, queueVars, faultVars
<1>6. RequestTypes' /\ posted_request_queue' \in Seq(RequestIds)
      /\ outbox' \in Seq(RequestIds) /\ matcher_guard' \in Holders
      /\ outbox_guard' \in Holders /\ is_errSet' \in BOOLEAN
  BY <1>1, <1>4, <1>5 DEF TypeOK, RequestTypes, QueueTypes, FrameTypes, Holders
<1>7. \A g \in Frames : matcher_guard = g => matcher_guard' = g
  BY <1>4 DEF Frames
<1>8. matcher_guard = "progress" => matcher_guard' = "progress"
  BY <1>4
<1>9. ProgressPlaces' /\ OneQueue' /\ Completed' /\ NotFree' /\ Posted' = Posted
  BY <1>1, <1>5, <1>8 DEF ProgressPlaces, OneQueue, Completed, NotFree, Posted
<1>10. FramePlace(f)'
  BY <1>1, <1>2, <1>3, <1>4, <1>9 DEF FramePlace, Alone, Starting, Waiting
<1>11. "locked" \in Places
  BY DEF Places
<1> QED
  BY <1>1, <1>2, <1>3, <1>6, <1>7, <1>9, <1>10, <1>11, FrameKeeps

\* MPI_Wait takes the request's guard, which nobody else has then.
LEMMA LockRequestStep ==
    ASSUME EngineInv, NEW f \in Frames, lock_request(f) PROVE EngineInv'
<1> DEFINE r == current[f]
<1>1. /\ pc[f] = "acquire" /\ Running(f) /\ request_guard[r] = "none"
      /\ request_guard' = [request_guard EXCEPT ![r] = f]
      /\ request' = [request EXCEPT ![r].condition = TRUE]
      /\ pc' = [pc EXCEPT ![f] = "holding"] /\ UNCHANGED in_waitall
      /\ UNCHANGED <<pool, handles, queueVars, guardVars, current, progress, notified,
                     faultVars, socket, peerVars>>
  BY DEF lock_request, At, Goto
<1>2. /\ pc \in [Frames -> Places] /\ FramePlace(f) /\ in_waitall \in BOOLEAN
      /\ current \in [Frames -> RequestIds \cup {NoRequest}]
      /\ r \in RequestIds /\ r \notin pool /\ request[r] \in LiveRequests
      /\ \/ f = "user" /\ pc["handler"] = "idle"
         \/ f = "handler" /\ pc[f] # "idle"
  BY <1>1, FrameRuns
<1>3. TypeOK /\ ProgressPlaces /\ OneQueue /\ Completed /\ NotFree /\ QueueTypes
      /\ RequestTypes /\ FrameTypes /\ ProgressTypes
  BY DEF EngineInv, Ownership, TypeOK
<1>4. /\ current' = [current EXCEPT ![f] = r] /\ pc'[f] = "holding" /\ current'[f] = r
      /\ "holding" \in Places
  BY <1>1, <1>2 DEF Places
<1> HIDE DEF r
<1> USE DEF queueVars, guardVars, faultVars
<1>5. [request[r] EXCEPT !.condition = TRUE] \in LiveRequests
  BY <1>2, LiveUpdates
<1>6. /\ request'[r] = [request[r] EXCEPT !.condition = TRUE]
      /\ \A s \in RequestIds : s # r => request'[s] = request[s]
      /\ request' \in [RequestIds -> LiveRequests \cup {Unused}]
      /\ request_guard'[r] = f
      /\ \A s \in RequestIds : s # r => request_guard'[s] = request_guard[s]
      /\ request_guard' \in [RequestIds -> Holders]
  BY <1>1, <1>2, <1>3, <1>5 DEF RequestTypes, Holders
<1>7. request'[r].complete = request[r].complete
  BY <1>2, <1>6 DEF LiveRequests
<1>8. RequestTypes' /\ posted_request_queue' \in Seq(RequestIds)
      /\ outbox' \in Seq(RequestIds) /\ matcher_guard' \in Holders
      /\ outbox_guard' \in Holders /\ is_errSet' \in BOOLEAN
  BY <1>1, <1>3, <1>6 DEF RequestTypes, QueueTypes, FrameTypes
<1>9. \A g \in Frames : \A s \in RequestIds : request_guard[s] = g => request_guard'[s] = g
  BY <1>1, <1>6 DEF Frames
<1>10. Posted' = Posted /\ OneQueue' /\ NotFree'
  BY <1>1, <1>3 DEF Posted, OneQueue, NotFree
<1>11. ProgressPlaces'
  <2>1. progress.pc \in {"halt_unlock", "unlock"} => Head(progress.releases) \in RequestIds
    BY <1>3, TailElements DEF ProgressTypes, ProgressPlaces
  <2> QED
    BY <1>1, <1>3, <1>6, <2>1 DEF ProgressPlaces
<1>12. Completed'
  BY <1>1, <1>2, <1>3, <1>5, <1>6, <1>7, <1>10 DEF Completed
<1>13. FramePlace(f)'
  BY <1>1, <1>2, <1>4, <1>6 DEF FramePlace, Starting, Waiting
<1>14. \A s \in RequestIds \ pool : s # current[f] =>
          /\ request'[s] = request[s] /\ s \notin pool'
          /\ s \in ToSet(outbox') => s \in ToSet(outbox)
          /\ s \in Posted' => s \in Posted
          /\ s \in ToSet(handles') <=> s \in ToSet(handles)
  BY <1>1, <1>6, <1>10 DEF r
<1>15. \A g \in Frames : matcher_guard = g => matcher_guard' = g
  BY <1>1
<1>16. /\ notified' \subseteq notified /\ in_waitall' \in BOOLEAN /\ r = current[f]
       /\ is_errSet' = is_errSet /\ pc' = [pc EXCEPT ![f] = "holding"]
       /\ UNCHANGED <<progress, received_header_queue, socket, epoch, historyVars, signals,
                      peerVars>>
  BY <1>1, <1>2 DEF r
<1> QED
  BY <1>2, <1>4, <1>8, <1>9, <1>10, <1>11, <1>12, <1>13, <1>14, <1>15, <1>16, FrameKeeps

\* A step that only takes or gives back the guard of the frame's request.
LEMMA GuardMoves ==
    ASSUME EngineInv, NEW f \in Frames, Running(f), pc[f] \in Waiting,
           NEW place \in Waiting, NEW holder \in {"none", f},
           request_guard[current[f]] \in {"none", f},
           request_guard' = [request_guard EXCEPT ![current[f]] = holder],
           pc' = [pc EXCEPT ![f] = place],
           place = "holding" => holder = f,
           place \in {"finalize", "free"} => request[current[f]].complete,
           UNCHANGED <<request, pool, handles, queueVars, guardVars, current, in_waitall,
                       progress, faultVars, socket, peerVars>>,
           notified' \subseteq notified
    PROVE  EngineInv'
<1> DEFINE r == current[f]
<1>1. /\ pc \in [Frames -> Places] /\ FramePlace(f) /\ in_waitall \in BOOLEAN
      /\ current \in [Frames -> RequestIds \cup {NoRequest}]
      /\ r \in RequestIds /\ r \notin pool
      /\ \/ f = "user" /\ pc["handler"] = "idle"
         \/ f = "handler" /\ pc[f] # "idle"
  BY FrameRuns DEF Waiting
<1>2. TypeOK /\ ProgressPlaces /\ OneQueue /\ Completed /\ NotFree /\ QueueTypes
      /\ RequestTypes /\ FrameTypes /\ ProgressTypes
  BY DEF EngineInv, Ownership, TypeOK
<1>3. /\ current' = [current EXCEPT ![f] = r] /\ pc'[f] = place /\ current'[f] = r
      /\ place \in Places /\ place # "failed"
  BY <1>1 DEF Places, Waiting
<1>4. /\ request_guard'[r] = holder
      /\ \A s \in RequestIds : s # r => request_guard'[s] = request_guard[s]
      /\ request_guard' \in [RequestIds -> Holders]
  BY <1>1, <1>2 DEF RequestTypes, Holders
<1>5. request_guard[r] \in {"none", f}
  OBVIOUS
<1> HIDE DEF r
<1> USE DEF queueVars, guardVars, faultVars
<1>6. RequestTypes' /\ posted_request_queue' \in Seq(RequestIds)
      /\ outbox' \in Seq(RequestIds) /\ matcher_guard' \in Holders
      /\ outbox_guard' \in Holders /\ is_errSet' \in BOOLEAN
  BY <1>2, <1>4 DEF RequestTypes, QueueTypes, FrameTypes
<1>7. \A g \in Frames : g # f =>
         \A s \in RequestIds : request_guard[s] = g => request_guard'[s] = g
  BY <1>4, <1>5 DEF Frames
<1>8. Posted' = Posted /\ OneQueue' /\ NotFree' /\ Completed'
  BY <1>2 DEF Posted, OneQueue, NotFree, Completed
<1>9. ProgressPlaces'
  <2>1. progress.pc \in {"halt_unlock", "unlock"} => Head(progress.releases) \in RequestIds
    BY <1>2, TailElements DEF ProgressTypes, ProgressPlaces
  <2>2. f # "progress"
    BY DEF Frames
  <2> QED
    BY <1>2, <1>4, <1>5, <2>1, <2>2 DEF ProgressPlaces
<1>10. FramePlace(f)'
  <2>1. pc[f] \in Waiting /\ pc'[f] \in Waiting
    BY <1>3
  <2>2. place \notin Starting \cup {"idle", "failed", "locked"}
    BY DEF Waiting, Starting
  <2> QED
    BY <1>1, <1>3, <1>4, <2>1, <2>2 DEF FramePlace, r
<1> QED
  BY <1>1, <1>3, <1>6, <1>7, <1>8, <1>9, <1>10, FrameKeeps

\* condition_variable::wait tests its predicate, and gives the guard back.
LEMMA TestCompleteStep ==
    ASSUME EngineInv, NEW f \in Frames, test_complete(f) PROVE EngineInv'
<1> DEFINE place == IF request[current[f]].complete THEN "finalize" ELSE "asleep"
<1>1. /\ pc[f] = "holding" /\ Running(f)
      /\ request_guard' = [request_guard EXCEPT ![current[f]] = "none"]
      /\ pc' = [pc EXCEPT ![f] = place] /\ UNCHANGED in_waitall
      /\ UNCHANGED <<request, pool, handles, queueVars, guardVars, current, progress,
                     notified, faultVars, socket, peerVars>>
  BY DEF test_complete, At, Goto
<1>2. request_guard[current[f]] = f
  BY <1>1, FrameRuns DEF FramePlace
<1>3. /\ place \in Waiting /\ pc[f] \in Waiting /\ place \notin {"holding", "free"}
      /\ place = "finalize" => request[current[f]].complete
  BY <1>1 DEF Waiting
<1> HIDE DEF place
<1> QED
  BY <1>1, <1>2, <1>3, GuardMoves

\* condition_variable::wait returns with the guard.
LEMMA WakeUpStep ==
    ASSUME EngineInv, NEW f \in Frames, wake_up(f) PROVE EngineInv'
<1>1. /\ pc[f] = "asleep" /\ Running(f) /\ request_guard[current[f]] = "none"
      /\ request_guard' = [request_guard EXCEPT ![current[f]] = f]
      /\ pc' = [pc EXCEPT ![f] = "holding"] /\ UNCHANGED in_waitall
      /\ notified' \subseteq notified
      /\ UNCHANGED <<request, pool, handles, queueVars, guardVars, current, progress,
                     faultVars, socket, peerVars>>
  BY DEF wake_up, At, Goto
<1>2. "holding" \in Waiting /\ pc[f] \in Waiting
  BY <1>1 DEF Waiting
<1> QED
  BY <1>1, <1>2, GuardMoves

\* post_request: a request that only its frame knew goes to a queue.
LEMMA PostStep ==
    ASSUME EngineInv, NEW f \in Frames, post_request(f) PROVE EngineInv'
<1> DEFINE r == current[f]
           place == IF f = "user" THEN "idle" ELSE "wait"
           next == IF f = "user" THEN NoRequest ELSE r
<1>1. /\ pc[f] = "locked" /\ Running(f) /\ UNCHANGED in_waitall
      /\ pc' = [pc EXCEPT ![f] = place]
      /\ UNCHANGED <<request, pool, request_guard, received_header_queue, progress,
                     notified, faultVars, socket, peerVars>>
  BY DEF post_request, At, Goto
<1>2. /\ pc \in [Frames -> Places] /\ FramePlace(f) /\ in_waitall \in BOOLEAN
      /\ current \in [Frames -> RequestIds \cup {NoRequest}]
      /\ r \in RequestIds /\ r \notin pool /\ request[r] \in LiveRequests
      /\ \/ f = "user" /\ pc["handler"] = "idle"
         \/ f = "handler" /\ pc[f] # "idle"
  BY <1>1, FrameRuns
<1>3. TypeOK /\ ProgressPlaces /\ OneQueue /\ Completed /\ NotFree /\ QueueTypes
      /\ RequestTypes /\ FrameTypes /\ ProgressTypes
  BY DEF EngineInv, Ownership, TypeOK
<1>4. Alone(r)
  BY <1>1, <1>2 DEF FramePlace, Starting
<1>5. /\ current' = [current EXCEPT ![f] = next] /\ pc'[f] = place /\ current'[f] = next
      /\ place \in Places /\ place # "failed" /\ next \in RequestIds \cup {NoRequest}
      /\ f = "handler" => next = r
      /\ f = "user" => next = NoRequest /\ handles' = Append(handles, r)
      /\ f = "handler" => handles' = handles
  BY <1>1, <1>2 DEF Places, post_request, Goto, Frames
<1> HIDE DEF place, next, r
<1>6. /\ handles' \in Seq(RequestIds) /\ IsInjective(handles')
      /\ f = "user" => ToSet(handles') = ToSet(handles) \cup {r}
  <2>1. handles \in Seq(RequestIds) /\ IsInjective(handles) /\ r \notin ToSet(handles)
    BY <1>3, <1>4 DEF RequestTypes, OneQueue, Alone
  <2>2. /\ Append(handles, r) \in Seq(RequestIds) /\ IsInjective(Append(handles, r))
        /\ ToSet(Append(handles, r)) = ToSet(handles) \cup {r}
    BY <1>2, <2>1, AppendElements
  <2> QED
    BY <1>2, <1>5, <2>1, <2>2 DEF Frames
<1>7. /\ request[r].operation = "Receive" =>
           /\ posted_request_queue' = Append(posted_request_queue, r)
           /\ matcher_guard = f /\ matcher_guard' = "none"
           /\ UNCHANGED <<outbox, outbox_guard>>
      /\ request[r].operation # "Receive" =>
           /\ outbox' = Append(outbox, r)
           /\ outbox_guard' = "none"
           /\ UNCHANGED <<posted_request_queue, matcher_guard>>
  BY <1>1, <1>2 DEF post_request, FramePlace, r
<1>8. progress.pc \in {"halt", "halt_unlock"} => request[r].operation # "Receive"
  BY <1>3, <1>7 DEF ProgressPlaces, Frames
<1>9. /\ posted_request_queue \in Seq(RequestIds) /\ outbox \in Seq(RequestIds)
      /\ IsInjective(posted_request_queue) /\ IsInjective(outbox)
      /\ r \notin ToSet(outbox) /\ r \notin Posted
  BY <1>3, <1>4 DEF QueueTypes, OneQueue, Alone
<1>10. /\ posted_request_queue' \in Seq(RequestIds) /\ outbox' \in Seq(RequestIds)
       /\ IsInjective(posted_request_queue') /\ IsInjective(outbox')
       /\ \/ ToSet(outbox') = ToSet(outbox) \cup {r} /\ Posted' = Posted
          \/ ToSet(outbox') = ToSet(outbox) /\ Posted' = Posted \cup {r}
  <2>1. CASE request[r].operation = "Receive"
    <3>1. Posted = ToSet(posted_request_queue) /\ Posted' = ToSet(posted_request_queue')
      BY <1>1, <1>8, <2>1 DEF Posted
    <3>2. /\ Append(posted_request_queue, r) \in Seq(RequestIds)
          /\ r \notin ToSet(posted_request_queue) => IsInjective(Append(posted_request_queue, r))
          /\ ToSet(Append(posted_request_queue, r)) = ToSet(posted_request_queue) \cup {r}
      BY <1>2, <1>9, AppendElements
    <3> QED
      BY <1>7, <1>9, <2>1, <3>1, <3>2
  <2>2. CASE request[r].operation # "Receive"
    <3>1. Posted' = Posted
      BY <1>1, <1>7, <2>2 DEF Posted
    <3>2. /\ Append(outbox, r) \in Seq(RequestIds) /\ IsInjective(Append(outbox, r))
          /\ ToSet(Append(outbox, r)) = ToSet(outbox) \cup {r}
      BY <1>2, <1>9, AppendElements
    <3> QED
      BY <1>7, <1>9, <2>2, <3>1, <3>2
  <2> QED
    BY <2>1, <2>2
<1> USE DEF faultVars
<1>11. RequestTypes' /\ matcher_guard' \in Holders /\ outbox_guard' \in Holders
       /\ is_errSet' \in BOOLEAN
  BY <1>1, <1>3, <1>6, <1>7 DEF RequestTypes, FrameTypes, Holders
<1>12. \A g \in Frames : g # f /\ matcher_guard = g => matcher_guard' = g
  BY <1>7
<1>13. ProgressPlaces'
  BY <1>1, <1>3, <1>7 DEF ProgressPlaces, Frames
<1>14. OneQueue' /\ Completed' /\ NotFree'
  <2>1. OneQueue'
    BY <1>1, <1>3, <1>4, <1>6, <1>10 DEF OneQueue, Alone
  <2>2. Completed'
    BY <1>1, <1>3, <1>4, <1>10 DEF Completed, Alone
  <2>3. ToSet(handles') \subseteq ToSet(handles) \cup {r}
    BY <1>5, <1>6 DEF Frames
  <2>4. NotFree'
    BY <1>1, <1>2, <1>3, <1>10, <2>3 DEF NotFree
  <2> QED
    BY <2>1, <2>2, <2>4
<1>15. FramePlace(f)'
  <2>1. CASE f = "user"
    BY <2>1, <1>5 DEF FramePlace, Starting, Waiting, place
  <2>2. CASE f = "handler"
    BY <2>2, <1>1, <1>2, <1>4, <1>5 DEF FramePlace, Starting, Waiting, place, Alone
  <2> QED
    BY <2>1, <2>2 DEF Frames
<1>16. \A s \in RequestIds \ pool : s # current[f] =>
          /\ request'[s] = request[s] /\ s \notin pool'
          /\ s \in ToSet(outbox') => s \in ToSet(outbox)
          /\ s \in Posted' => s \in Posted
          /\ s \in ToSet(handles') <=> s \in ToSet(handles)
  BY <1>1, <1>5, <1>6, <1>10 DEF r, Frames
<1>17. next \in {current[f], NoRequest}
  BY DEF next, r
<1>18. /\ notified' \subseteq notified /\ in_waitall' \in BOOLEAN
       /\ UNCHANGED <<progress, received_header_queue, socket, epoch, historyVars, signals,
                      peerVars>>
  BY <1>1, <1>2
<1> QED
  BY <1>1, <1>2, <1>5, <1>10, <1>11, <1>12, <1>13, <1>14, <1>15, <1>16, <1>17, <1>18, FrameKeeps

\* MPI_Request_free: a completed request that nobody else holds goes to the pool.
LEMMA FreeStep ==
    ASSUME EngineInv, NEW f \in Frames, MPI_Request_free(f) PROVE EngineInv'
<1> DEFINE r == current[f]
<1>1. /\ pc[f] = "free" /\ Running(f) /\ request_guard[r] = "none"
      /\ request' = [request EXCEPT ![r] = Unused]
      /\ pool' = pool \cup {r}
      /\ handles' = IF f = "user" THEN RemoveAt(handles, PositionOf(r)) ELSE handles
      /\ current' = [current EXCEPT ![f] = NoRequest]
      /\ pc' = [pc EXCEPT ![f] = "idle"]
      /\ in_waitall' = (in_waitall /\ handles' # <<>>)
      /\ is_errSet' = (is_errSet \/ f = "handler")
      /\ UNCHANGED <<request_guard, queueVars, guardVars, progress, notified, epoch,
                     historyVars, signals, socket, peerVars>>
  BY DEF MPI_Request_free, At, Unguarded, deallocate_request
<1>2. /\ pc \in [Frames -> Places] /\ FramePlace(f) /\ in_waitall \in BOOLEAN
      /\ current \in [Frames -> RequestIds \cup {NoRequest}]
      /\ r \in RequestIds /\ r \notin pool /\ request[r] \in LiveRequests
      /\ \/ f = "user" /\ pc["handler"] = "idle"
         \/ f = "handler" /\ pc[f] # "idle"
  BY <1>1, FrameRuns
<1>3. TypeOK /\ ProgressPlaces /\ OneQueue /\ Completed /\ NotFree /\ QueueTypes
      /\ RequestTypes /\ FrameTypes /\ ProgressTypes
  BY DEF EngineInv, Ownership, TypeOK
<1>4. request[r].complete /\ (f = "user" <=> r \in ToSet(handles))
  BY <1>1, <1>2 DEF FramePlace, Waiting
<1>5. r \notin ToSet(outbox) /\ r \notin Posted /\ r \notin ToSet(progress.releases)
  BY <1>1, <1>2, <1>3, <1>4 DEF Completed, ProgressPlaces
<1>6. /\ handles' \in Seq(RequestIds) /\ IsInjective(handles') /\ r \notin ToSet(handles')
      /\ \A s \in RequestIds : s # r => (s \in ToSet(handles') <=> s \in ToSet(handles))
  <2>1. handles \in Seq(RequestIds) /\ IsInjective(handles)
    BY <1>3 DEF RequestTypes, OneQueue
  <2>2. CASE f = "user"
    <3> DEFINE i == PositionOf(r)
    <3>1. \E j \in DOMAIN handles : handles[j] = r
      BY <1>4, <2>1, <2>2, ElementsType
    <3>2. i \in 1..Len(handles) /\ handles[i] = r
      BY <2>1, <3>1 DEF PositionOf
    <3> HIDE DEF i
    <3>3. /\ RemoveAt(handles, i) \in Seq(RequestIds) /\ IsInjective(RemoveAt(handles, i))
          /\ r \notin ToSet(RemoveAt(handles, i))
          /\ ToSet(RemoveAt(handles, i)) \subseteq ToSet(handles)
          /\ \A s \in ToSet(handles) : s # r => s \in ToSet(RemoveAt(handles, i))
      BY <2>1, <3>2, RemoveAtElements
    <3>4. handles' = RemoveAt(handles, i)
      BY <1>1, <2>2 DEF i
    <3> QED
      BY <3>3, <3>4
  <2>3. CASE f # "user"
    BY <1>1, <1>4, <2>1, <2>3
  <2> QED
    BY <2>2, <2>3
<1>7. r = current[f]
  OBVIOUS
<1> HIDE DEF r
<1> USE DEF queueVars, guardVars
<1>8. /\ request' \in [RequestIds -> LiveRequests \cup {Unused}] /\ pool' \subseteq RequestIds
      /\ \A s \in RequestIds : s # r => request'[s] = request[s]
  BY <1>1, <1>2, <1>3 DEF RequestTypes
<1>9. /\ RequestTypes' /\ posted_request_queue' \in Seq(RequestIds)
      /\ outbox' \in Seq(RequestIds) /\ matcher_guard' \in Holders
      /\ outbox_guard' \in Holders
  BY <1>1, <1>3, <1>6, <1>8 DEF RequestTypes, QueueTypes, FrameTypes
<1>10. Posted' = Posted /\ ProgressPlaces'
  BY <1>1, <1>3 DEF Posted, ProgressPlaces
<1>11. OneQueue'
  BY <1>1, <1>3, <1>6, <1>10 DEF OneQueue
<1>12. Completed'
  BY <1>1, <1>3, <1>8, <1>10 DEF Completed
<1>13. NotFree'
  BY <1>1, <1>3, <1>5, <1>6, <1>10 DEF NotFree, RequestTypes
<1>14. FramePlace(f)'
  BY <1>1, <1>2 DEF FramePlace, Starting, Waiting
<1>15. \A s \in RequestIds \ pool : s # current[f] =>
          /\ request'[s] = request[s] /\ s \notin pool'
          /\ s \in ToSet(outbox') => s \in ToSet(outbox)
          /\ s \in Posted' => s \in Posted
          /\ s \in ToSet(handles') <=> s \in ToSet(handles)
  BY <1>1, <1>6, <1>7, <1>8, <1>10
<1>16. /\ in_waitall' \in BOOLEAN /\ is_errSet' \in BOOLEAN
       /\ is_errSet' => is_errSet \/ f = "handler"
       /\ "idle" \in Places /\ NoRequest \in RequestIds \cup {NoRequest}
       /\ UNCHANGED <<progress, received_header_queue, socket, epoch, historyVars,
                      signals, peerVars, notified>>
       /\ current' = [current EXCEPT ![f] = NoRequest] /\ pc' = [pc EXCEPT ![f] = "idle"]
  BY <1>1, <1>2, <1>3 DEF FrameTypes, Places
<1>17. \A g \in Frames : g # f =>
          /\ \A s \in RequestIds : request_guard[s] = g => request_guard'[s] = g
          /\ matcher_guard = g => matcher_guard' = g
  BY <1>1
<1> QED
  BY <1>2, <1>9, <1>10, <1>11, <1>12, <1>13, <1>14, <1>15, <1>16, <1>17, FrameKeeps

\* MPI_Irecv and MPI_Isend: a free request goes to the user's frame.
LEMMA CallStep ==
    ASSUME EngineInv, NEW operation \in {"Send", "Receive"}, NEW envelope,
           envelope.source \in Peers \cup {Self, AnySource},
           envelope.tag \in Tags \cup {CleanupTag, AnyTag}, Call(operation, envelope)
    PROVE  EngineInv'
<1>1. /\ pc["user"] = "idle" /\ pc["handler"] = "idle" /\ "user" \in Frames
      /\ UNCHANGED <<request_guard, handles, queueVars, guardVars, progress, notified,
                     faultVars, socket, peerVars>>
  BY DEF Call, Between, At, Running, Frames
<1>2. CASE is_errSet
  BY <1>2, FailsStep DEF Call, requestVars
<1>3. CASE ~is_errSet
  <2>1. construct_request("user", operation, envelope)
    BY <1>3 DEF Call
  <2>2. PICK r \in pool :
              /\ pc' = [pc EXCEPT !["user"] = "start"]
              /\ current' = [current EXCEPT !["user"] = r]
              /\ UNCHANGED in_waitall
              /\ RequestTypes' /\ ProgressPlaces' /\ OneQueue' /\ Completed' /\ NotFree'
              /\ Posted' = Posted /\ FramePlace("user")'
              /\ \A s \in RequestIds \ pool : request'[s] = request[s] /\ s \notin pool'
    BY <1>1, <2>1, ConstructFacts
  <2>3. TypeOK /\ RequestTypes /\ QueueTypes /\ FrameTypes
    BY DEF EngineInv, TypeOK
  <2> USE DEF queueVars, guardVars, faultVars
  <2>4. /\ posted_request_queue' \in Seq(RequestIds) /\ outbox' \in Seq(RequestIds)
        /\ matcher_guard' \in Holders /\ outbox_guard' \in Holders
        /\ is_errSet' \in BOOLEAN /\ in_waitall' \in BOOLEAN
        /\ "start" \in Places /\ r \in RequestIds \cup {NoRequest}
    BY <1>1, <2>2, <2>3 DEF RequestTypes, QueueTypes, FrameTypes, Places
  <2>5. /\ \A s \in RequestIds : request_guard'[s] = request_guard[s]
        /\ ToSet(outbox') = ToSet(outbox) /\ ToSet(handles') = ToSet(handles)
        /\ UNCHANGED <<progress, received_header_queue, socket, epoch, historyVars,
                       signals, peerVars, notified, is_errSet, matcher_guard>>
    BY <1>1
  <2>6. \A s \in RequestIds \ pool : s # current["user"] =>
          /\ request'[s] = request[s] /\ s \notin pool'
          /\ s \in ToSet(outbox') => s \in ToSet(outbox)
          /\ s \in Posted' => s \in Posted
          /\ s \in ToSet(handles') <=> s \in ToSet(handles)
    BY <2>2, <2>5
  <2>7. \A g \in Frames : g # "user" =>
          /\ \A s \in RequestIds : request_guard[s] = g => request_guard'[s] = g
          /\ matcher_guard = g => matcher_guard' = g
    BY <2>5
  <2>8. "start" # "failed"
    OBVIOUS
  <2> HIDE DEF queueVars, guardVars, faultVars
  <2> QED
    BY <1>1, <2>2, <2>4, <2>5, <2>6, <2>7, <2>8, FrameKeeps
<1> QED
  BY <1>2, <1>3

\* setErr: the handler may take a request for its message of cleanup.
LEMMA SignalStep ==
    ASSUME EngineInv, setErr PROVE EngineInv'
<1>1. /\ signals.pending /\ pc["handler"] = "idle"
      /\ signals' = [signals EXCEPT !.pending = FALSE]
      /\ UNCHANGED <<request_guard, handles, queueVars, guardVars, progress, notified,
                     epoch, historyVars, socket, peerVars>>
  BY DEF setErr
<1>2. /\ RequestTypes /\ QueueTypes /\ FrameTypes /\ ProgressTypes /\ CountTypes /\ Counted
      /\ ProgressPlaces /\ OneQueue /\ Completed /\ NotFree /\ FramesApart
      /\ \A f \in Frames : FramePlace(f)
  BY DEF EngineInv, TypeOK, Ownership
<1> USE DEF queueVars, guardVars, historyVars, peerVars
<1>3. QueueTypes' /\ ProgressTypes'
  BY <1>1, <1>2 DEF QueueTypes, ProgressTypes
<1>4. CountTypes' /\ signals'.raised = signals.raised /\ ~signals'.pending
  BY <1>1, <1>2 DEF CountTypes
<1>5. Counted'
  <2>1. recoveries \in Nat /\ signals.raised \in Nat /\ recoveries' = recoveries
    BY <1>1, <1>2, EngineAssumption DEF CountTypes
  <2>2. recoveries + 1 <= signals.raised
    BY <1>1, <1>2, <2>1 DEF Counted
  <2> QED
    BY <1>4, <2>1, <2>2 DEF Counted
<1>6. CASE posted_request_queue = <<>>
  <2>1. is_errSet' = TRUE /\ UNCHANGED <<request, pool, pc, current, in_waitall>>
    BY <1>6 DEF setErr, frameVars
  <2>2. RequestTypes' /\ FrameTypes' /\ Posted' = Posted
    BY <1>1, <1>2, <2>1 DEF RequestTypes, FrameTypes, Posted
  <2>3. ProgressPlaces' /\ OneQueue' /\ Completed' /\ NotFree' /\ FramesApart'
    BY <1>1, <1>2, <2>1, <2>2
    DEF ProgressPlaces, OneQueue, Completed, NotFree, FramesApart
  <2>4. (\A f \in Frames : FramePlace(f))'
    BY <1>1, <1>2, <2>1, <2>2 DEF FramePlace, Alone
  <2> QED
    BY <1>3, <1>4, <1>5, <2>2, <2>3, <2>4 DEF EngineInv, TypeOK, Ownership
<1>7. CASE posted_request_queue # <<>>
  <2> DEFINE envelope == [source |-> Self, tag |-> CleanupTag]
  <2>1. /\ is_errSet' = FALSE /\ construct_request("handler", "Send", envelope)
        /\ "handler" \in Frames /\ "user" \in Frames
    BY <1>7 DEF setErr, Frames
  <2>2. envelope.source \in Peers \cup {Self, AnySource}
        /\ envelope.tag \in Tags \cup {CleanupTag, AnyTag}
    OBVIOUS
  <2> HIDE DEF envelope
  <2>3. PICK r \in pool :
              /\ pc' = [pc EXCEPT !["handler"] = "start"]
              /\ current' = [current EXCEPT !["handler"] = r]
              /\ UNCHANGED in_waitall
              /\ RequestTypes' /\ ProgressPlaces' /\ OneQueue' /\ Completed' /\ NotFree'
              /\ Posted' = Posted /\ FramePlace("handler")'
              /\ \A s \in RequestIds \ pool : request'[s] = request[s] /\ s \notin pool'
    BY <1>1, <2>1, <2>2, ConstructFacts
  <2>4. FrameTypes'
    BY <1>1, <1>2, <2>1, <2>3 DEF FrameTypes, RequestTypes, Places
  <2>5. pc'["user"] = pc["user"] /\ current'["user"] = current["user"]
        /\ pc'["handler"] = "start" /\ current'["handler"] = r
    BY <1>2, <2>1, <2>3 DEF FrameTypes, Frames
  <2>6. FramePlace("user")'
    <3>1. \A s \in RequestIds \ pool : s # current["handler"] =>
              /\ request'[s] = request[s] /\ s \notin pool'
              /\ s \in ToSet(outbox') => s \in ToSet(outbox)
              /\ s \in Posted' => s \in Posted
              /\ s \in ToSet(handles') <=> s \in ToSet(handles)
      BY <1>1, <2>3
    <3> QED
      BY <1>1, <2>1, <2>5, <3>1, OtherFrame
  <2>7. current["user"] # r
    <3>1. pc["user"] \in Places /\ FramePlace("user") /\ r # NoRequest
      BY <1>2, <2>1, <2>3 DEF FrameTypes, RequestTypes, RequestIds, NoRequest
    <3> QED
      BY <2>3, <3>1 DEF FramePlace, Alone, Places, Starting, Waiting
  <2>8. FramesApart'
    BY <2>1, <2>5, <2>7 DEF FramesApart
  <2>9. (\A f \in Frames : FramePlace(f))'
    BY <2>3, <2>6 DEF Frames
  <2> QED
    BY <1>3, <1>4, <1>5, <2>3, <2>4, <2>8, <2>9 DEF EngineInv, TypeOK, Ownership
<1> QED
  BY <1>6, <1>7

\* MPIX_Checkpoint_write between two calls: no request moves.
LEMMA CheckpointWriteStep ==
    ASSUME EngineInv, MPIX_Checkpoint_write PROVE EngineInv'
<1>1. /\ epoch < MaxEpoch
      /\ UNCHANGED <<requestVars, queueVars, guardVars, progress, notified, is_errSet,
                     historyVars, signals, socket, peerVars>>
  BY DEF MPIX_Checkpoint_write
<1>2. CASE is_errSet
  BY <1>1, <1>2, FailsStep DEF MPIX_Checkpoint_write, faultVars
<1>3. CASE ~is_errSet
  <2>1. epoch' = epoch + 1 /\ UNCHANGED <<pc, current, in_waitall>>
    BY <1>3 DEF MPIX_Checkpoint_write, frameVars
  <2>2. /\ RequestTypes /\ QueueTypes /\ FrameTypes /\ ProgressTypes /\ CountTypes /\ Counted
        /\ ProgressPlaces /\ OneQueue /\ Completed /\ NotFree /\ FramesApart
        /\ \A f \in Frames : FramePlace(f)
    BY DEF EngineInv, TypeOK, Ownership
  <2> USE DEF requestVars, queueVars, guardVars, historyVars, peerVars
  <2>3. RequestTypes' /\ QueueTypes' /\ FrameTypes' /\ ProgressTypes'
    BY <1>1, <2>1, <2>2 DEF RequestTypes, QueueTypes, FrameTypes, ProgressTypes
  <2>4. CountTypes'
    BY <1>1, <2>1, <2>2, EngineAssumption DEF CountTypes
  <2>5. Counted' /\ Posted' = Posted
    BY <1>1, <2>1, <2>2 DEF Counted, Ongoing, Posted
  <2>6. ProgressPlaces' /\ OneQueue' /\ Completed' /\ NotFree' /\ FramesApart'
    BY <1>1, <2>1, <2>2, <2>5 DEF ProgressPlaces, OneQueue, Completed, NotFree, FramesApart
  <2>7. (\A f \in Frames : FramePlace(f))'
    BY <1>1, <2>1, <2>2, <2>5 DEF FramePlace, Alone
  <2> QED
    BY <2>3, <2>4, <2>5, <2>6, <2>7 DEF EngineInv, TypeOK, Ownership
<1> QED
  BY <1>2, <1>3

\* MPIX_Checkpoint_read: the application forgets its requests, which stay in use.
LEMMA CheckpointReadStep ==
    ASSUME EngineInv, MPIX_Checkpoint_read PROVE EngineInv'
<1>1. /\ pc["user"] = "failed" /\ pc["handler"] = "idle" /\ is_errSet' = FALSE
      /\ recoveries' = recoveries + 1 /\ old_messages' = sent
      /\ handles' = <<>> /\ pc' = [pc EXCEPT !["user"] = "idle"] /\ UNCHANGED in_waitall
      /\ UNCHANGED <<request, pool, request_guard, queueVars, guardVars, current, progress,
                     notified, signals, socket, sent>>
  BY DEF MPIX_Checkpoint_read, At, Running, Goto, setErrToZero
<1>2. PICK e \in 0..epoch : epoch' = e /\ peer_epoch' = [p \in Peers |-> e]
  BY DEF MPIX_Checkpoint_read
<1>3. /\ RequestTypes /\ QueueTypes /\ FrameTypes /\ ProgressTypes /\ CountTypes /\ Counted
      /\ ProgressPlaces /\ OneQueue /\ Completed /\ NotFree /\ FramesApart
      /\ \A f \in Frames : FramePlace(f)
  BY DEF EngineInv, TypeOK, Ownership
<1> USE DEF queueVars, guardVars
<1>4. RequestTypes' /\ QueueTypes' /\ ProgressTypes'
  BY <1>1, <1>3, EmptyElements DEF RequestTypes, QueueTypes, ProgressTypes
<1>5. FrameTypes'
  BY <1>1, <1>3 DEF FrameTypes, Frames, Places
<1>6. pc'["user"] = "idle" /\ pc'["handler"] = "idle"
  BY <1>1, <1>3 DEF FrameTypes, Frames
<1>7. recoveries \in Nat /\ signals.raised \in 0..MaxSignals /\ sent \in 0..MaxMessages
  BY <1>3, EngineAssumption DEF CountTypes
<1>8. recoveries + (IF signals.pending THEN 1 ELSE 0) + 1 <= signals.raised
  BY <1>1, <1>3, <1>7 DEF Counted, Ongoing
<1>9. Counted'
  BY <1>1, <1>6, <1>7, <1>8 DEF Counted, Ongoing
<1>10. CountTypes'
  <2>1. e \in 0..MaxEpoch
    BY <1>2, <1>3, EngineAssumption DEF CountTypes
  <2>2. recoveries' \in 0..MaxSignals
    BY <1>1, <1>7, <1>8, EngineAssumption
  <2> QED
    BY <1>1, <1>2, <1>3, <1>7, <2>1, <2>2 DEF CountTypes
<1>11. Posted' = Posted /\ ToSet(handles') = {}
  BY <1>1, EmptyElements DEF Posted
<1>12. ProgressPlaces' /\ OneQueue' /\ Completed' /\ NotFree' /\ FramesApart'
  BY <1>1, <1>3, <1>6, <1>11, EmptyElements
  DEF ProgressPlaces, OneQueue, Completed, NotFree, FramesApart
<1>13. (\A f \in Frames : FramePlace(f))'
  BY <1>1, <1>3, <1>6 DEF FramePlace, Frames, Starting, Waiting
<1> QED
  BY <1>4, <1>5, <1>9, <1>10, <1>12, <1>13 DEF EngineInv, TypeOK, Ownership

(***************************************************************************)
(* Steps of the environment, the initial states, and the theorems.         *)
(***************************************************************************)
LEMMA EnvironmentStep ==
    ASSUME EngineInv, Environment PROVE EngineInv'
<1>1. UNCHANGED <<requestVars, queueVars, guardVars, frameVars, progress, notified, is_errSet,
                  epoch, historyVars>>
  BY DEF Environment, PeerCheckpoint, PeerSends, RaiseSignal, faultVars
<1>2. /\ RequestTypes /\ QueueTypes /\ FrameTypes /\ ProgressTypes /\ CountTypes /\ Counted
      /\ ProgressPlaces /\ OneQueue /\ Completed /\ NotFree /\ FramesApart
      /\ \A f \in Frames : FramePlace(f)
  BY DEF EngineInv, TypeOK, Ownership
<1>3. CountTypes' /\ socket' \in Seq(Messages) /\ Counted'
  <2>1. ASSUME NEW p \in Peers, PeerCheckpoint(p)
        PROVE  CountTypes' /\ socket' \in Seq(Messages) /\ Counted'
    <3>1. /\ peer_epoch' = [peer_epoch EXCEPT ![p] = @ + 1] /\ peer_epoch[p] < MaxEpoch
          /\ UNCHANGED <<signals, socket, sent>>
      BY <2>1 DEF PeerCheckpoint, faultVars
    <3>2. peer_epoch[p] + 1 \in 0..MaxEpoch
      BY <1>2, <3>1, EngineAssumption DEF CountTypes
    <3>3. CountTypes'
      BY <1>1, <1>2, <3>1, <3>2 DEF CountTypes, historyVars
    <3> QED
      BY <1>1, <1>2, <3>1, <3>3 DEF QueueTypes, Counted, Ongoing, historyVars, frameVars
  <2>2. ASSUME NEW p \in Peers, NEW tag \in Tags, PeerSends(p, tag)
        PROVE  CountTypes' /\ socket' \in Seq(Messages) /\ Counted'
    <3> DEFINE m == [source |-> p, tag |-> tag, epoch |-> peer_epoch[p],
                     context |-> WorldContext, number |-> sent + 1]
    <3>1. /\ socket' = Append(socket, m) /\ sent' = sent + 1 /\ sent < MaxMessages
          /\ UNCHANGED <<signals, peer_epoch>>
      BY <2>2 DEF PeerSends, faultVars
    <3>2. sent + 1 \in 0..MaxMessages
      BY <1>2, <3>1, EngineAssumption DEF CountTypes
    <3>3. m \in Messages
      BY <1>2, <3>2 DEF Messages, CountTypes
    <3> HIDE DEF m
    <3>4. socket' \in Seq(Messages)
      BY <1>2, <3>1, <3>3, AppendElements DEF QueueTypes
    <3>5. CountTypes'
      BY <1>1, <1>2, <3>1, <3>2 DEF CountTypes, historyVars
    <3> QED
      BY <1>1, <1>2, <3>1, <3>4, <3>5 DEF Counted, Ongoing, historyVars, frameVars
  <2>3. ASSUME RaiseSignal
        PROVE  CountTypes' /\ socket' \in Seq(Messages) /\ Counted'
    <3>1. /\ signals.raised < MaxSignals /\ ~signals.pending
          /\ signals' = [raised |-> signals.raised + 1, pending |-> TRUE]
          /\ UNCHANGED <<socket, sent, peer_epoch>>
      BY <2>3 DEF RaiseSignal, peerVars
    <3>2. signals.raised \in Nat /\ signals.raised + 1 \in 0..MaxSignals /\ recoveries \in Nat
      BY <1>2, <3>1, EngineAssumption DEF CountTypes
    <3>3. CountTypes'
      BY <1>1, <1>2, <3>1, <3>2 DEF CountTypes, historyVars
    <3>4. Counted'
      BY <1>1, <1>2, <3>1, <3>2 DEF Counted, Ongoing, historyVars, frameVars
    <3> QED
      BY <1>2, <3>1, <3>3, <3>4 DEF QueueTypes
  <2> QED
    BY <2>1, <2>2, <2>3 DEF Environment
<1> USE DEF requestVars, queueVars, guardVars, frameVars
<1>4. RequestTypes' /\ QueueTypes' /\ FrameTypes' /\ ProgressTypes' /\ Posted' = Posted
  BY <1>1, <1>2, <1>3 DEF RequestTypes, QueueTypes, FrameTypes, ProgressTypes, Posted
<1>5. ProgressPlaces' /\ OneQueue' /\ Completed' /\ NotFree' /\ FramesApart'
  BY <1>1, <1>2, <1>4 DEF ProgressPlaces, OneQueue, Completed, NotFree, FramesApart
<1>6. (\A f \in Frames : FramePlace(f))'
  BY <1>1, <1>2, <1>4 DEF FramePlace, Alone
<1> QED
  BY <1>3, <1>4, <1>5, <1>6 DEF EngineInv, TypeOK, Ownership

\* Every request is in the pool at first.
LEMMA InitInv == Init => EngineInv
<1> SUFFICES ASSUME Init PROVE EngineInv
  OBVIOUS
<1> USE DEF Init
<1>1. <<>> \in Seq(Messages)
  OBVIOUS
<1>2. progress.releases = <<>> /\ progress.pc = "recv" /\ progress.header = NoMessage
  BY DEF Idle
<1>3. Posted = {}
  BY <1>2, EmptyElements DEF Posted
<1>4. RequestTypes /\ QueueTypes /\ FrameTypes /\ ProgressTypes
  BY <1>1, EmptyElements
  DEF RequestTypes, QueueTypes, FrameTypes, ProgressTypes, Idle, Holders, Places, Frames
<1>5. CountTypes
  BY EngineAssumption DEF CountTypes
<1>6. Counted /\ ProgressPlaces /\ FramesApart
  BY <1>2 DEF Counted, Ongoing, ProgressPlaces, FramesApart, Frames
<1>7. OneQueue /\ Completed /\ NotFree
  BY <1>2, <1>3, EmptyElements DEF OneQueue, Completed, NotFree
<1>8. \A f \in Frames : FramePlace(f)
  BY DEF FramePlace, Starting, Waiting
<1> QED
  BY <1>4, <1>5, <1>6, <1>7, <1>8 DEF EngineInv, TypeOK, Ownership

\* Every step of a call, of either frame.
LEMMA FrameStepInv ==
    ASSUME EngineInv, NEW f \in Frames, FrameStep(f) PROVE EngineInv'
BY StartStep, LockQueueStep, PostStep, LockRequestStep, TestCompleteStep, WakeUpStep,
   FinalizeStep, FreeStep DEF FrameStep

\* The invariant is inductive.
LEMMA NextInv == EngineInv /\ [Next]_vars => EngineInv'
<1> SUFFICES ASSUME EngineInv, [Next]_vars PROVE EngineInv'
  OBVIOUS
<1>1. CASE UserCalls
  <2>1. CASE MPI_Irecv
    <3>1. PICK envelope \in Receives : Call("Receive", envelope)
      BY <2>1 DEF MPI_Irecv
    <3>2. envelope.source \in Peers \cup {Self, AnySource} /\ envelope.tag \in Tags \cup {AnyTag}
      BY EngineAssumption
    <3> QED
      BY <3>1, <3>2, CallStep
  <2>2. CASE MPI_Isend
    <3> DEFINE envelope == [source |-> Self, tag |-> AnyTag]
    <3>1. Call("Send", envelope)
      BY <2>2 DEF MPI_Isend
    <3>2. envelope.source \in Peers \cup {Self, AnySource} /\ envelope.tag \in Tags \cup {AnyTag}
      OBVIOUS
    <3> HIDE DEF envelope
    <3> QED
      BY <3>1, <3>2, CallStep
  <2>3. CASE UserWaits
    <3>1. Running("user") /\ pc["user"] = "idle" /\ "user" \in Frames
      BY <2>3 DEF UserWaits, Between, At, Frames
    <3>2. PICK i \in DOMAIN handles : MPI_Wait("user", handles[i])
      BY <2>3 DEF UserWaits
    <3>3. handles[i] \in ToSet(handles)
      BY DEF ToSet
    <3> QED
      BY <3>1, <3>2, <3>3, WaitStep
  <2> QED
    BY <1>1, <2>1, <2>2, <2>3, WaitallStep, CheckpointWriteStep, CheckpointReadStep
    DEF UserCalls
<1>2. CASE UserStep
  <2>1. CASE WaitsOn
    <3>1. Running("user") /\ pc["user"] = "idle" /\ "user" \in Frames
      BY <2>1 DEF WaitsOn, At, Frames
    <3>2. handles # <<>> /\ handles \in Seq(RequestIds) /\ MPI_Wait("user", Head(handles))
      BY <2>1 DEF WaitsOn, EngineInv, TypeOK, RequestTypes
    <3>3. Head(handles) \in ToSet(handles)
      BY <3>2, TailElements
    <3> QED
      BY <3>1, <3>2, <3>3, WaitStep
  <2> QED
    BY <1>2, <2>1, FrameStepInv DEF UserStep, Frames
<1>3. CASE HandlerStep
  <2>1. CASE HandlerWaits
    <3>1. Running("handler") /\ pc["handler"] = "wait" /\ "handler" \in Frames
          /\ MPI_Wait("handler", current["handler"])
      BY <2>1 DEF HandlerWaits, At, Frames
    <3> QED
      BY <3>1, WaitStep
  <2> QED
    BY <1>3, <2>1, FrameStepInv DEF HandlerStep, Frames
<1>4. CASE ProgressStep
  BY <1>4, OrderedRecvStep, PostHeaderStep, ReleaseStep, UnlockStep, HaltStep,
     QueueHeaderStep, MatcherProgressStep, HandleRequestStep DEF ProgressStep
<1>5. CASE UNCHANGED vars
  <2> USE <1>5 DEF vars, requestVars, queueVars, guardVars, frameVars, faultVars, historyVars,
                   peerVars
  <2>1. TypeOK'
    BY DEF EngineInv, TypeOK, RequestTypes, QueueTypes, FrameTypes, ProgressTypes, CountTypes
  <2>2. Counted' /\ Posted' = Posted
    BY DEF EngineInv, Counted, Ongoing, Posted
  <2>3. Ownership'
    BY <2>2 DEF EngineInv, Ownership, ProgressPlaces, OneQueue, Completed, NotFree, FramesApart,
                FramePlace, Alone
  <2> QED
    BY <2>1, <2>2, <2>3 DEF EngineInv
<1> QED
  BY <1>1, <1>2, <1>3, <1>4, <1>5, SignalStep, EnvironmentStep DEF Next

\* Every reachable state is well typed and has the owners that EngineInv gives it.
THEOREM EngineInvariant == Spec => []EngineInv
BY InitInv, NextInv, PTL DEF Spec

\* The variables keep their types, whatever the number of requests, messages and signals:
\* recoveries never outnumber the signals.
THEOREM EngineTypeOK == Spec => []TypeOK
<1>1. EngineInv => TypeOK
  BY DEF EngineInv
<1> QED
  BY <1>1, EngineInvariant, PTL

\* No use after free: MPI_Request_free never gives an object back to the pool while the
\* progress thread, a queue, the other frame or the user may still touch it, wherever
\* the signal comes.
THEOREM RequestsInUse == Spec => []RequestInUse
<1>1. EngineInv => RequestInUse
  <2> SUFFICES ASSUME EngineInv, NEW r \in Reachable PROVE r \notin pool
    BY DEF RequestInUse
  <2>1. NotFree /\ FrameTypes /\ RequestTypes /\ \A f \in Frames : FramePlace(f)
    BY DEF EngineInv, Ownership, TypeOK
  <2>2. CASE r \in {current[f] : f \in Frames}
    <3>1. PICK f \in Frames : r = current[f]
      BY <2>2
    <3>2. pc[f] \in {"idle", "failed"} \cup Starting \cup Waiting
      BY <2>1 DEF FrameTypes, Places, Starting, Waiting
    <3>3. CASE pc[f] \in {"idle", "failed"}
      BY <2>1, <3>1, <3>3 DEF FramePlace, RequestTypes, RequestIds, NoRequest
    <3> QED
      BY <2>1, <3>1, <3>2, <3>3 DEF FramePlace, Alone
  <2> QED
    BY <2>1, <2>2 DEF Reachable, NotFree
<1> QED
  BY <1>1, EngineInvariant, PTL

(***************************************************************************)
(* Requests and their messages.                                            *)
(***************************************************************************)

\* A request of the pool is none; one that has not been matched yet has no message.
Fresh(r) == r \in Posted \/ \E f \in Frames : pc[f] \in Starting /\ current[f] = r
PoolUnused == \A r \in pool : request[r] = Unused
FreshEmpty == \A r \in RequestIds \ pool : Fresh(r) => request[r].message = NoMessage

\* Messages in the order in which they are matched: those that are queued, the one in the
\* progress thread's hand, those in the socket. The messages of the peers are numbered in
\* this order; a message of this rank to itself is a cleanup.
InHand == progress.pc \in {"header", "halt", "halt_unlock", "queue"}
Arriving ==
    ToSet(received_header_queue) \cup ToSet(socket)
        \cup (IF InHand THEN {progress.header} ELSE {})
Earlier(g, h) == g.source \in Peers /\ h.source \in Peers => g.number < h.number
Sorted(s) == \A i, j \in 1..Len(s) : i < j => Earlier(s[i], s[j])
Order ==
    /\ Sorted(received_header_queue) /\ Sorted(socket)
    /\ \A g \in ToSet(received_header_queue), h \in ToSet(socket) : Earlier(g, h)
    /\ InHand => /\ \A g \in ToSet(received_header_queue) : Earlier(g, progress.header)
                 /\ \A h \in ToSet(socket) : Earlier(progress.header, h)
    /\ \A h \in Arriving : h.number <= sent /\ (h.source \in Peers \/ h.tag = CleanupTag)

\* A receive has taken the oldest message of its source that fits.
TakesOldest ==
    \A r \in RequestIds \ pool : request[r].message # NoMessage =>
        /\ request[r].message \in Messages
        /\ request[r].message.source \in Peers /\ request[r].message.number <= sent
        /\ \A h \in Arriving :
              h.source = request[r].message.source /\ Matches(request[r], h)
                  => request[r].message.number < h.number

\* The user's receives are posted in the order of the calls, and a receive that is still
\* posted does not fit a message that a later one has taken.
Precedes(s, a, b) == \E i, j \in 1..Len(s) : i < j /\ s[i] = a /\ s[j] = b
PostedInOrder ==
    \A a, b \in Posted : Precedes(handles, a, b) => Precedes(posted_request_queue, a, b)
OldestTakes ==
    \A a, b \in RequestIds :
        Precedes(handles, a, b) /\ a \in Posted /\ request[b].message # NoMessage
            => ~Matches(request[a], request[b].message)

MatchInv ==
    /\ PoolUnused /\ FreshEmpty
    /\ Order /\ TakesOldest
    /\ PostedInOrder /\ OldestTakes

(***************************************************************************)
(* Order in sequences.                                                     *)
(***************************************************************************)

\* What precedes something in a sequence of different elements differs from it.
LEMMA PrecedesElements ==
    ASSUME NEW S, NEW s \in Seq(S), NEW a, NEW b, Precedes(s, a, b)
    PROVE  a \in ToSet(s) /\ b \in ToSet(s) /\ (IsInjective(s) => a # b)
<1>1. PICK i, j \in 1..Len(s) : i < j /\ s[i] = a /\ s[j] = b
  BY DEF Precedes
<1>2. i # j /\ DOMAIN s = 1..Len(s)
  BY <1>1
<1> QED
  BY <1>1, <1>2 DEF ToSet, IsInjective

\* An appended element comes last.
LEMMA PrecedesAppend ==
    ASSUME NEW S, NEW s \in Seq(S), NEW e \in S, NEW a, NEW b
    PROVE  Precedes(Append(s, e), a, b) <=> Precedes(s, a, b) \/ (a \in ToSet(s) /\ b = e)
<1>1. /\ Len(Append(s, e)) = Len(s) + 1 /\ Append(s, e)[Len(s) + 1] = e
      /\ \A i \in 1..Len(s) : Append(s, e)[i] = s[i]
      /\ DOMAIN s = 1..Len(s) /\ Len(s) \in Nat
  OBVIOUS
<1> DEFINE t == Append(s, e)
<1> HIDE DEF t
<1>2. /\ Len(t) = Len(s) + 1 /\ t[Len(s) + 1] = e
      /\ \A i \in 1..Len(s) : t[i] = s[i]
  BY <1>1 DEF t
<1>3. ASSUME Precedes(t, a, b) PROVE Precedes(s, a, b) \/ (a \in ToSet(s) /\ b = e)
  <2>1. PICK i, j \in 1..Len(t) : i < j /\ t[i] = a /\ t[j] = b
    BY <1>3 DEF Precedes
  <2>2. i \in 1..Len(s) /\ (j \in 1..Len(s) \/ j = Len(s) + 1)
    BY <1>1, <1>2, <2>1
  <2> QED
    BY <1>1, <1>2, <2>1, <2>2 DEF Precedes, ToSet
<1>4. ASSUME Precedes(s, a, b) PROVE Precedes(t, a, b)
  <2>1. PICK i, j \in 1..Len(s) : i < j /\ s[i] = a /\ s[j] = b
    BY <1>4 DEF Precedes
  <2>2. i \in 1..Len(t) /\ j \in 1..Len(t) /\ t[i] = a /\ t[j] = b
    BY <1>1, <1>2, <2>1
  <2> QED
    BY <2>1, <2>2 DEF Precedes
<1>5. ASSUME a \in ToSet(s), b = e PROVE Precedes(t, a, b)
  <2>1. PICK i \in 1..Len(s) : s[i] = a
    BY <1>1, <1>5 DEF ToSet
  <2>2. i \in 1..Len(t) /\ Len(s) + 1 \in 1..Len(t) /\ i < Len(s) + 1
    BY <1>1, <1>2
  <2> QED
    BY <1>2, <1>5, <2>1, <2>2 DEF Precedes
<1> QED
  BY <1>3, <1>4, <1>5 DEF t

\* RemoveAt keeps the order of what it leaves.
LEMMA PrecedesRemoved ==
    ASSUME NEW S, NEW s \in Seq(S), NEW i \in 1..Len(s), NEW a, NEW b
    PROVE  /\ Precedes(RemoveAt(s, i), a, b) => Precedes(s, a, b)
           /\ Precedes(s, a, b) /\ a # s[i] /\ b # s[i] => Precedes(RemoveAt(s, i), a, b)
<1> DEFINE t == RemoveAt(s, i)
           from(j) == IF j < i THEN j ELSE j + 1
           to(j) == IF j < i THEN j ELSE j - 1
<1>1. /\ t \in Seq(S) /\ Len(t) = Len(s) - 1 /\ Len(s) \in Nat
      /\ \A j \in 1..(Len(s) - 1) : t[j] = IF j < i THEN s[j] ELSE s[j + 1]
  BY RemoveAtPositions
<1> HIDE DEF t
<1>2. \A j \in 1..Len(t) : from(j) \in 1..Len(s) /\ t[j] = s[from(j)]
  BY <1>1
<1>3. \A j, k \in 1..Len(t) : j < k => from(j) < from(k)
  BY <1>1
<1>4. \A j \in 1..Len(s) : j # i => to(j) \in 1..Len(t) /\ t[to(j)] = s[j]
  BY <1>1
<1>5. \A j, k \in 1..Len(s) : j # i /\ k # i /\ j < k => to(j) < to(k)
  BY <1>1
<1> HIDE DEF from, to
<1>6. Precedes(t, a, b) => Precedes(s, a, b)
  BY <1>2, <1>3 DEF Precedes
<1>7. Precedes(s, a, b) /\ a # s[i] /\ b # s[i] => Precedes(t, a, b)
  BY <1>4, <1>5 DEF Precedes
<1> QED
  BY <1>6, <1>7 DEF t

\* Messages stay sorted when a later one is appended,
LEMMA SortedAppend ==
    ASSUME NEW s \in Seq(Messages), NEW m \in Messages, Sorted(s),
           \A g \in ToSet(s) : Earlier(g, m)
    PROVE  Sorted(Append(s, m))
<1> DEFINE t == Append(s, m)
<1>1. /\ Len(t) = Len(s) + 1 /\ t[Len(s) + 1] = m
      /\ \A i \in 1..Len(s) : t[i] = s[i] /\ s[i] \in ToSet(s)
      /\ Len(s) \in Nat
  BY DEF ToSet
<1> HIDE DEF t
<1>2. ASSUME NEW i \in 1..Len(t), NEW j \in 1..Len(t), i < j PROVE Earlier(t[i], t[j])
  <2>1. i \in 1..Len(s) /\ (j \in 1..Len(s) \/ j = Len(s) + 1)
    BY <1>1, <1>2
  <2> QED
    BY <1>1, <1>2, <2>1 DEF Sorted
<1> QED
  BY <1>2 DEF Sorted, t

\* when the first is taken, which is earlier than the others,
LEMMA SortedTail ==
    ASSUME NEW s \in Seq(Messages), s # <<>>, Sorted(s)
    PROVE  Sorted(Tail(s)) /\ \A h \in ToSet(Tail(s)) : Earlier(Head(s), h)
<1> DEFINE t == Tail(s)
<1>1. /\ Len(t) = Len(s) - 1 /\ Len(s) \in Nat /\ Len(s) > 0 /\ Head(s) = s[1]
      /\ \A i \in 1..(Len(s) - 1) : t[i] = s[i + 1]
      /\ DOMAIN t = 1..(Len(s) - 1)
  OBVIOUS
<1> HIDE DEF t
<1>2. Sorted(t)
  BY <1>1 DEF Sorted
<1>3. \A h \in ToSet(t) : Earlier(Head(s), h)
  BY <1>1 DEF Sorted, ToSet
<1> QED
  BY <1>2, <1>3 DEF t

\* and when one is taken from between.
LEMMA SortedRemoved ==
    ASSUME NEW s \in Seq(Messages), NEW i \in 1..Len(s), Sorted(s)
    PROVE  Sorted(RemoveAt(s, i))
<1> DEFINE t == RemoveAt(s, i)
           from(j) == IF j < i THEN j ELSE j + 1
<1>1. /\ Len(t) = Len(s) - 1 /\ Len(s) \in Nat
      /\ \A j \in 1..(Len(s) - 1) : t[j] = IF j < i THEN s[j] ELSE s[j + 1]
  BY RemoveAtPositions
<1> HIDE DEF t
<1>2. \A j \in 1..Len(t) : from(j) \in 1..Len(s) /\ t[j] = s[from(j)]
  BY <1>1
<1>3. \A j, k \in 1..Len(t) : j < k => from(j) < from(k)
  BY <1>1
<1> HIDE DEF from
<1>4. Sorted(t)
  BY <1>2, <1>3 DEF Sorted
<1> QED
  BY <1>4 DEF t

(***************************************************************************)
(* What the steps have in common.                                          *)
(***************************************************************************)

\* A request keeps what is matched: its envelope and its message.
Kept(r) ==
    /\ r \notin pool
    /\ request'[r].epoch = request[r].epoch /\ request'[r].context = request[r].context
    /\ request'[r].source = request[r].source /\ request'[r].tag = request[r].tag
    /\ request'[r].message = request[r].message
\* Messages that were not there before are later ones.
Later(h) == h.source \in Peers => h.number > sent

\* A step that matches nothing: requests are kept or new, and messages arrive in order.
LEMMA MatchKept ==
    ASSUME EngineInv, EngineInv', MatchInv,
           \A r \in pool' : request'[r] = Unused \/ (r \in pool /\ request'[r] = request[r]),
           \A r \in RequestIds \ pool' : Kept(r) \/ request'[r].message = NoMessage,
           \A r \in RequestIds \ pool' :
              Fresh(r)' => Fresh(r) \/ request'[r].message = NoMessage,
           PostedInOrder',
           \A a, b \in RequestIds : Precedes(handles', a, b) /\ a \in Posted' =>
              \/ request'[b].message = NoMessage
              \/ Precedes(handles, a, b) /\ a \in Posted /\ Kept(a),
           Order', sent <= sent',
           \A h \in Arriving' : h \in Arriving \/ Later(h)
    PROVE  MatchInv'
<1>1. PoolUnused /\ FreshEmpty /\ TakesOldest /\ OldestTakes
  BY DEF MatchInv
<1>2. PoolUnused'
  BY <1>1 DEF PoolUnused
<1>3. FreshEmpty'
  <2> SUFFICES ASSUME NEW r \in RequestIds \ pool', Fresh(r)'
               PROVE  request'[r].message = NoMessage
    BY DEF FreshEmpty
  <2> QED
    BY <1>1 DEF FreshEmpty, Kept
<1>4. TakesOldest'
  <2> SUFFICES ASSUME NEW r \in RequestIds \ pool', request'[r].message # NoMessage
               PROVE  /\ request'[r].message \in Messages
                      /\ request'[r].message.source \in Peers
                      /\ request'[r].message.number <= sent'
                      /\ \A h \in Arriving' :
                            h.source = request'[r].message.source /\ Matches(request'[r], h)
                              => request'[r].message.number < h.number
    BY DEF TakesOldest
  <2>1. Kept(r) /\ request'[r].message = request[r].message
    BY DEF Kept
  <2>2. /\ request[r].message \in Messages /\ request[r].message.source \in Peers
        /\ request[r].message.number <= sent
        /\ \A h \in Arriving :
              h.source = request[r].message.source /\ Matches(request[r], h)
                => request[r].message.number < h.number
    BY <1>1, <2>1 DEF TakesOldest, Kept
  <2>3. request[r].message.number \in Nat /\ sent \in Nat /\ sent' \in Nat
    BY <2>2, EngineAssumption DEF Messages, EngineInv, TypeOK, CountTypes
  <2>4. ASSUME NEW h \in Arriving', h.source = request'[r].message.source,
               Matches(request'[r], h)
        PROVE  request'[r].message.number < h.number
    <3>1. CASE h \in Arriving
      <4>1. Matches(request[r], h)
        BY <2>1, <2>4 DEF Kept, Matches
      <4> QED
        BY <3>1, <4>1, <2>1, <2>2, <2>4
    <3>2. CASE Later(h)
      <4>1. h \in Messages
        BY DEF Arriving, InHand, EngineInv, TypeOK, QueueTypes, Ownership, ProgressPlaces,
               ToSet
      <4>2. h.number \in Nat
        BY <4>1, EngineAssumption DEF Messages
      <4> QED
        BY <3>2, <4>2, <2>1, <2>2, <2>3, <2>4 DEF Later
    <3> QED
      BY <3>1, <3>2
  <2> QED
    BY <2>1, <2>2, <2>3, <2>4
<1>5. OldestTakes'
  <2> SUFFICES ASSUME NEW a \in RequestIds, NEW b \in RequestIds, Precedes(handles', a, b),
                      a \in Posted', request'[b].message # NoMessage
               PROVE  ~Matches(request'[a], request'[b].message)
    BY DEF OldestTakes
  <2>1. Precedes(handles, a, b) /\ a \in Posted /\ Kept(a)
    OBVIOUS
  <2>2. b \in ToSet(handles')
    BY PrecedesElements DEF EngineInv, TypeOK, RequestTypes
  <2>3. Kept(b)
    BY <2>2 DEF EngineInv, Ownership, NotFree
  <2>4. ~Matches(request[a], request[b].message)
    BY <1>1, <2>1, <2>3 DEF OldestTakes, Kept
  <2> QED
    BY <2>1, <2>3, <2>4 DEF Kept, Matches
<1> QED
  BY <1>2, <1>3, <1>4, <1>5 DEF MatchInv

\* No message arrives, and none is taken.
LEMMA OrderSame ==
    ASSUME MatchInv, UNCHANGED <<received_header_queue, socket, sent>>,
           InHand' <=> InHand, InHand => progress'.header = progress.header
    PROVE  Order' /\ Arriving' = Arriving /\ (sent \in Nat => sent <= sent')
<1>1. Arriving' = Arriving
  BY DEF Arriving
<1> QED
  BY <1>1 DEF MatchInv, Order

\* The receives stay in order when the queues do, or lose all their elements.
LEMMA PostedSame ==
    ASSUME MatchInv, Posted' \subseteq Posted,
           posted_request_queue' = posted_request_queue \/ Posted' = {},
           \A a, b \in RequestIds : Precedes(handles', a, b) => Precedes(handles, a, b),
           Posted \subseteq RequestIds
    PROVE  PostedInOrder'
BY DEF MatchInv, PostedInOrder

\* A step of a frame that leaves the queues alone and moves the frame to another place.
LEMMA FrameQuiet ==
    ASSUME EngineInv, EngineInv', MatchInv, NEW f \in Frames, NEW place, NEW x,
           pc' = [pc EXCEPT ![f] = place], current' = [current EXCEPT ![f] = x],
           place \in Starting => pc[f] \in Starting /\ x = current[f],
           UNCHANGED <<pool, handles, queueVars, progress, socket, sent>>,
           \A r \in RequestIds \ pool : Kept(r),
           \A r \in pool : request'[r] = request[r]
    PROVE  MatchInv'
<1> USE DEF queueVars
<1>1. Posted' = Posted /\ Posted \subseteq RequestIds /\ InHand' = InHand
      /\ pc \in [Frames -> Places] /\ current \in [Frames -> RequestIds \cup {NoRequest}]
      /\ sent \in Nat
  BY EngineAssumption
  DEF Posted, InHand, ToSet, EngineInv, TypeOK, QueueTypes, FrameTypes, CountTypes
<1>2. PostedInOrder'
  BY <1>1 DEF MatchInv, PostedInOrder
<1>3. Order' /\ Arriving' = Arriving
  BY <1>1, OrderSame
<1>4. ASSUME NEW r \in RequestIds \ pool, Fresh(r)' PROVE Fresh(r)
  BY <1>1, <1>4 DEF Fresh
<1>5. \A a \in Posted' : a \in Posted /\ Kept(a)
  BY <1>1 DEF EngineInv, Ownership, NotFree
<1> QED
  BY <1>1, <1>2, <1>3, <1>4, <1>5, MatchKept

\* A step of the progress thread or of the environment that matches nothing.
LEMMA ProgressQuiet ==
    ASSUME EngineInv, EngineInv', MatchInv,
           UNCHANGED <<pool, handles, pc, current>>, sent <= sent',
           Posted' \subseteq Posted,
           posted_request_queue' = posted_request_queue \/ Posted' = {},
           \A r \in RequestIds \ pool : Kept(r),
           \A r \in pool : request'[r] = request[r],
           Order', \A h \in Arriving' : h \in Arriving \/ Later(h)
    PROVE  MatchInv'
<1>1. Posted \subseteq RequestIds
  BY DEF Posted, ToSet, EngineInv, TypeOK, QueueTypes
<1>2. PostedInOrder'
  BY <1>1, PostedSame
<1>3. ASSUME NEW r \in RequestIds \ pool, Fresh(r)' PROVE Fresh(r)
  BY <1>3 DEF Fresh
<1>4. \A a \in Posted' : a \in Posted /\ Kept(a)
  BY <1>1 DEF EngineInv, Ownership, NotFree
<1> QED
  BY <1>1, <1>2, <1>3, <1>4, MatchKept

\* A step that changes none of the variables that matching is about.
LEMMA NothingMatched ==
    ASSUME EngineInv, EngineInv', MatchInv,
           UNCHANGED <<request, pool, handles, pc, current, queueVars, socket, sent>>,
           UNCHANGED progress
    PROVE  MatchInv'
<1>1. Posted' = Posted /\ InHand' = InHand /\ sent \in Nat
  BY EngineAssumption DEF Posted, InHand, queueVars, EngineInv, TypeOK, CountTypes
<1>2. Order' /\ Arriving' = Arriving /\ sent <= sent'
  BY <1>1, OrderSame DEF queueVars
<1>3. (\A r \in RequestIds \ pool : Kept(r)) /\ (\A r \in pool : request'[r] = request[r])
  BY DEF Kept
<1> QED
  BY <1>1, <1>2, <1>3, ProgressQuiet DEF queueVars

(***************************************************************************)
(* Steps of the user's frame and of the handler.                           *)
(***************************************************************************)

\* A request that is not touched is kept.
LEMMA UntouchedKept ==
    ASSUME UNCHANGED request
    PROVE  (\A r \in RequestIds \ pool : Kept(r)) /\ (\A r \in pool : request'[r] = request[r])
BY DEF Kept

\* A call that fails changes no queue.
LEMMA FailsMatch ==
    ASSUME EngineInv, EngineInv', MatchInv, Fails,
           UNCHANGED <<requestVars, queueVars, progress, socket, peerVars>>
    PROVE  MatchInv'
BY UntouchedKept, FrameQuiet DEF Fails, Frames, Starting, requestVars, peerVars

\* MPI_Irecv, MPI_Isend, MPI_Send of the handler: a new request has no message.
LEMMA ConstructMatch ==
    ASSUME EngineInv, EngineInv', MatchInv, NEW f \in Frames, NEW operation, NEW envelope,
           construct_request(f, operation, envelope),
           UNCHANGED <<handles, queueVars, progress, socket, sent>>
    PROVE  MatchInv'
<1> USE DEF queueVars
<1> DEFINE r == CHOOSE free \in pool : TRUE
           new == [operation |-> operation, epoch |-> epoch, context |-> WorldContext,
                   source |-> envelope.source, tag |-> envelope.tag, complete |-> FALSE,
                   condition |-> FALSE, message |-> NoMessage]
<1>1. /\ r \in pool /\ pool' = pool \ {r} /\ request' = [request EXCEPT ![r] = new]
      /\ current' = [current EXCEPT ![f] = r] /\ pc' = [pc EXCEPT ![f] = "start"]
  BY DEF construct_request, allocate_request, Goto
<1>2. new.message = NoMessage
  OBVIOUS
<1> HIDE DEF r, new
<1>3. /\ r \in RequestIds /\ request'[r] = new
      /\ \A s \in RequestIds : s # r => request'[s] = request[s]
      /\ pool \subseteq RequestIds
  BY <1>1 DEF EngineInv, TypeOK, RequestTypes
<1>4. /\ \A s \in pool' : s \in pool /\ request'[s] = request[s]
      /\ \A s \in RequestIds \ pool : Kept(s)
      /\ \A s \in RequestIds \ pool' : s \notin pool \/ s = r
  BY <1>1, <1>3 DEF Kept
<1>5. Posted' = Posted /\ Posted \subseteq RequestIds /\ InHand' = InHand /\ sent \in Nat
      /\ pc \in [Frames -> Places] /\ current \in [Frames -> RequestIds \cup {NoRequest}]
  BY EngineAssumption
  DEF Posted, InHand, ToSet, EngineInv, TypeOK, QueueTypes, FrameTypes, CountTypes
<1>6. PostedInOrder'
  BY <1>5 DEF MatchInv, PostedInOrder
<1>7. Order' /\ Arriving' = Arriving
  BY <1>5, OrderSame
<1>8. ASSUME NEW s \in RequestIds \ pool', Fresh(s)' PROVE Fresh(s) \/ s = r
  <2>1. CASE s \in Posted'
    BY <2>1, <1>5 DEF Fresh
  <2>2. CASE s \notin Posted'
    <3>1. PICK g \in Frames : pc'[g] \in Starting /\ current'[g] = s
      BY <1>8, <2>2 DEF Fresh
    <3> QED
      BY <3>1, <1>1, <1>5 DEF Fresh
  <2> QED
    BY <2>1, <2>2
<1>9. \A a \in Posted' : a \in Posted /\ Kept(a)
  BY <1>4, <1>5 DEF EngineInv, Ownership, NotFree
<1> QED
  BY <1>2, <1>3, <1>4, <1>5, <1>6, <1>7, <1>8, <1>9, MatchKept

\* MPI_Irecv and MPI_Isend.
LEMMA CallMatch ==
    ASSUME EngineInv, EngineInv', MatchInv, NEW operation, NEW envelope,
           Call(operation, envelope)
    PROVE  MatchInv'
<1>1. CASE is_errSet
  BY <1>1, FailsMatch DEF Call, requestVars
<1>2. CASE ~is_errSet
  BY <1>2, ConstructMatch DEF Call, Frames, peerVars
<1> QED
  BY <1>1, <1>2

\* setErr, with or without a message of cleanup.
LEMMA SignalMatch ==
    ASSUME EngineInv, EngineInv', MatchInv, setErr PROVE MatchInv'
<1>1. CASE posted_request_queue = <<>>
  BY <1>1, NothingMatched DEF setErr, frameVars, peerVars
<1>2. CASE posted_request_queue # <<>>
  BY <1>2, ConstructMatch DEF setErr, Frames, peerVars
<1> QED
  BY <1>1, <1>2

\* MPI_Wait changes the place of its frame.
LEMMA WaitMatch ==
    ASSUME EngineInv, EngineInv', MatchInv, NEW f \in Frames, NEW r, MPI_Wait(f, r)
    PROVE  MatchInv'
<1>1. CASE is_errSet
  BY <1>1, FailsMatch DEF MPI_Wait
<1>2. CASE ~is_errSet
  BY <1>2, UntouchedKept, FrameQuiet DEF MPI_Wait, Goto, Starting, requestVars, peerVars
<1> QED
  BY <1>1, <1>2

\* Calls that change no request: MPI_Start, the locks, the predicate of the condition
\* variable, finalize_request.
LEMMA PlaceMatch ==
    ASSUME EngineInv, EngineInv', MatchInv, NEW f \in Frames,
           \/ MPI_Start(f) \/ lock_queue(f) \/ test_complete(f) \/ wake_up(f)
           \/ finalize_request(f)
    PROVE  MatchInv'
<1>1. current = [current EXCEPT ![f] = current[f]]
  BY DEF EngineInv, TypeOK, FrameTypes
<1> USE DEF Goto, At, Starting, requestVars, peerVars
<1>2. CASE MPI_Start(f)
  <2>1. CASE is_errSet
    BY <1>2, <2>1, FailsMatch DEF MPI_Start
  <2>2. CASE ~is_errSet
    BY <1>1, <1>2, <2>2, UntouchedKept, FrameQuiet DEF MPI_Start
  <2> QED
    BY <2>1, <2>2
<1>3. CASE lock_queue(f)
  BY <1>1, <1>3, UntouchedKept, FrameQuiet DEF lock_queue
<1>4. CASE test_complete(f)
  BY <1>1, <1>4, UntouchedKept, FrameQuiet DEF test_complete
<1>5. CASE wake_up(f)
  BY <1>1, <1>5, UntouchedKept, FrameQuiet DEF wake_up
<1>6. CASE finalize_request(f)
  <2>1. CASE is_errSet
    BY <1>6, <2>1, FailsMatch DEF finalize_request
  <2>2. CASE ~is_errSet
    BY <1>1, <1>6, <2>2, UntouchedKept, FrameQuiet DEF finalize_request
  <2> QED
    BY <2>1, <2>2
<1> QED
  BY <1>2, <1>3, <1>4, <1>5, <1>6

\* The request's guard and its condition variable.
LEMMA LockRequestMatch ==
    ASSUME EngineInv, EngineInv', MatchInv, NEW f \in Frames, lock_request(f)
    PROVE  MatchInv'
<1> DEFINE r == current[f]
<1>1. /\ request' = [request EXCEPT ![r].condition = TRUE]
      /\ UNCHANGED <<pool, handles, queueVars, current, progress, socket, sent>>
      /\ pc' = [pc EXCEPT ![f] = "holding"]
  BY DEF lock_request, Goto, peerVars
<1>2. current = [current EXCEPT ![f] = r]
  BY DEF EngineInv, TypeOK, FrameTypes
<1>3. r \in RequestIds /\ r \notin pool /\ request[r] \in LiveRequests
  BY FrameRuns DEF lock_request, At
<1> HIDE DEF r
<1>4. \A s \in RequestIds : s # r => request'[s] = request[s]
  BY <1>1, <1>3 DEF EngineInv, TypeOK, RequestTypes
<1>5. request'[r] = [request[r] EXCEPT !.condition = TRUE]
  BY <1>1, <1>3 DEF EngineInv, TypeOK, RequestTypes
<1>6. Kept(r)
  BY <1>3, <1>5 DEF Kept, LiveRequests
<1>7. \A s \in RequestIds \ pool : Kept(s)
  BY <1>4, <1>6 DEF Kept
<1>8. \A s \in pool : request'[s] = request[s]
  BY <1>3, <1>4 DEF EngineInv, TypeOK, RequestTypes
<1> QED
  BY <1>1, <1>2, <1>7, <1>8, FrameQuiet DEF Starting

\* Engine::post: a receive is queued after the ones that were called before it.
LEMMA PostMatch ==
    ASSUME EngineInv, EngineInv', MatchInv, NEW f \in Frames, post_request(f)
    PROVE  MatchInv'
<1> DEFINE r == current[f]
           receive == request[r].operation = "Receive"
<1>1. /\ UNCHANGED <<request, pool, received_header_queue, progress, socket, sent>>
      /\ posted_request_queue' = IF receive THEN Append(posted_request_queue, r)
                                 ELSE posted_request_queue
      /\ handles' = IF f = "user" THEN Append(handles, r) ELSE handles
      /\ \E x : current' = [current EXCEPT ![f] = x]
      /\ pc' = [pc EXCEPT ![f] = IF f = "user" THEN "idle" ELSE "wait"]
      /\ pc[f] = "locked" /\ Running(f)
  <2>1. current = [current EXCEPT ![f] = current[f]]
    BY DEF EngineInv, TypeOK, FrameTypes
  <2> QED
    BY <2>1 DEF post_request, Goto, At, peerVars
<1>2. /\ r \in RequestIds \ pool /\ r \notin Posted /\ r \notin ToSet(handles)
      /\ receive => matcher_guard = f
  BY <1>1, FrameRuns DEF FramePlace, Starting, Alone
<1>3. /\ posted_request_queue \in Seq(RequestIds) /\ handles \in Seq(RequestIds)
      /\ IsInjective(handles) /\ sent \in Nat
      /\ pc \in [Frames -> Places] /\ current \in [Frames -> RequestIds \cup {NoRequest}]
  BY EngineAssumption
  DEF EngineInv, TypeOK, RequestTypes, QueueTypes, FrameTypes, CountTypes, Ownership, OneQueue
<1>4. Fresh(r) /\ request[r].message = NoMessage
  BY <1>1, <1>2 DEF Fresh, Starting, MatchInv, FreshEmpty
<1>5. /\ receive => Posted = ToSet(posted_request_queue) /\ Posted' = Posted \cup {r}
      /\ ~receive => Posted' = Posted
      /\ Posted \subseteq RequestIds
  <2>1. CASE receive
    <3>1. matcher_guard # "progress"
      BY <2>1, <1>2 DEF Frames
    <3>2. progress.pc \notin {"halt", "halt_unlock"}
      BY <3>1 DEF EngineInv, Ownership, ProgressPlaces
    <3> QED
      BY <2>1, <3>2, <1>1, <1>2, <1>3, AppendElements, ElementsType DEF Posted
  <2>2. CASE ~receive
    BY <2>2, <1>1, <1>3, ElementsType DEF Posted
  <2> QED
    BY <2>1, <2>2
<1>6. UNCHANGED InHand /\ Order' /\ Arriving' = Arriving
  <2>1. InHand' = InHand
    BY <1>1 DEF InHand
  <2> QED
    BY <1>1, <2>1, OrderSame
<1>7. \A s \in RequestIds \ pool : Kept(s)
  BY <1>1 DEF Kept
<1> HIDE DEF r, receive
<1>8. \A a, b \in RequestIds : Precedes(handles', a, b) =>
         Precedes(handles, a, b) \/ (b = r /\ a \in ToSet(handles))
  BY <1>1, <1>2, <1>3, PrecedesAppend
<1>9. PostedInOrder'
  <2> SUFFICES ASSUME NEW a \in Posted', NEW b \in Posted', Precedes(handles', a, b)
               PROVE  Precedes(posted_request_queue', a, b)
    BY DEF PostedInOrder
  <2>1. a \in RequestIds /\ b \in RequestIds
    BY <1>2, <1>5
  <2>2. CASE Precedes(handles, a, b)
    <3>1. a \in ToSet(handles) /\ b \in ToSet(handles)
      BY <2>2, <1>3, PrecedesElements
    <3>2. a \in Posted /\ b \in Posted
      BY <3>1, <1>2, <1>5
    <3>3. Precedes(posted_request_queue, a, b)
      BY <2>2, <3>2 DEF MatchInv, PostedInOrder
    <3> QED
      BY <3>3, <1>1, <1>2, <1>3, PrecedesAppend
  <2>3. CASE b = r /\ a \in ToSet(handles)
    <3>1. receive /\ a \in Posted
      BY <2>3, <1>2, <1>5
    <3> QED
      BY <2>3, <3>1, <1>1, <1>2, <1>3, <1>5, PrecedesAppend
  <2> QED
    BY <2>1, <2>2, <2>3, <1>8
<1>10. ASSUME NEW a \in RequestIds, NEW b \in RequestIds, Precedes(handles', a, b),
              a \in Posted'
       PROVE  \/ request'[b].message = NoMessage
              \/ Precedes(handles, a, b) /\ a \in Posted /\ Kept(a)
  <2>1. CASE b = r
    BY <2>1, <1>1, <1>4
  <2>2. CASE b # r
    <3>1. Precedes(handles, a, b) /\ a \in ToSet(handles)
      BY <2>2, <1>8, <1>10, <1>3, PrecedesElements
    <3>2. a \in Posted /\ a \notin pool
      BY <3>1, <1>2, <1>5, <1>10 DEF EngineInv, Ownership, NotFree
    <3> QED
      BY <3>1, <3>2, <1>7
  <2> QED
    BY <2>1, <2>2
<1>11. ASSUME NEW s \in RequestIds \ pool', Fresh(s)' PROVE Fresh(s) \/ s = r
  <2>1. CASE s \in Posted'
    BY <2>1, <1>5 DEF Fresh
  <2>2. CASE s \notin Posted'
    <3>1. PICK g \in Frames : pc'[g] \in Starting /\ current'[g] = s
      BY <1>11, <2>2 DEF Fresh
    <3>2. g # f
      BY <3>1, <1>1, <1>3 DEF Starting
    <3> QED
      BY <3>1, <3>2, <1>1, <1>3 DEF Fresh
  <2> QED
    BY <2>1, <2>2
<1> QED
  BY <1>1, <1>3, <1>4, <1>6, <1>7, <1>9, <1>10, <1>11, MatchKept

\* MPI_Request_free: the object is none when it is in the pool again.
LEMMA FreeMatch ==
    ASSUME EngineInv, EngineInv', MatchInv, NEW f \in Frames, MPI_Request_free(f)
    PROVE  MatchInv'
<1> DEFINE r == current[f]
<1>1. /\ request' = [request EXCEPT ![r] = Unused] /\ pool' = pool \cup {r}
      /\ handles' = IF f = "user" THEN RemoveAt(handles, PositionOf(r)) ELSE handles
      /\ current' = [current EXCEPT ![f] = NoRequest] /\ pc' = [pc EXCEPT ![f] = "idle"]
      /\ UNCHANGED <<queueVars, progress, socket, sent>>
      /\ pc[f] = "free" /\ Running(f)
  BY DEF MPI_Request_free, deallocate_request, At, peerVars
<1>2. /\ r \in RequestIds \ pool /\ (f = "user" => r \in ToSet(handles))
      /\ pc \in [Frames -> Places] /\ current \in [Frames -> RequestIds \cup {NoRequest}]
  BY <1>1, FrameRuns DEF FramePlace, Waiting
<1>3. /\ handles \in Seq(RequestIds) /\ sent \in Nat /\ posted_request_queue \in Seq(RequestIds)
  BY EngineAssumption DEF EngineInv, TypeOK, RequestTypes, QueueTypes, CountTypes
<1> HIDE DEF r
<1>4. /\ request'[r] = Unused
      /\ \A s \in RequestIds : s # r => request'[s] = request[s]
      /\ pool \subseteq RequestIds
  BY <1>1, <1>2 DEF EngineInv, TypeOK, RequestTypes
<1>5. \A a, b \in RequestIds : Precedes(handles', a, b) => Precedes(handles, a, b)
  <2>1. CASE f = "user"
    <3>1. PositionOf(r) \in 1..Len(handles)
      BY <2>1, <1>2, <1>3 DEF PositionOf, ToSet
    <3> QED
      BY <2>1, <3>1, <1>1, <1>3, PrecedesRemoved
  <2>2. CASE f # "user"
    BY <2>2, <1>1
  <2> QED
    BY <2>1, <2>2
<1>6. Posted' = Posted /\ InHand' = InHand /\ Posted \subseteq RequestIds
  BY <1>1, <1>3, ElementsType DEF Posted, InHand, queueVars
<1>7. PostedInOrder'
  BY <1>1, <1>5, <1>6, PostedSame DEF queueVars
<1>8. Order' /\ Arriving' = Arriving
  BY <1>1, <1>6, OrderSame DEF queueVars
<1>9. \A s \in RequestIds \ pool' : Kept(s) /\ s # r
  BY <1>1, <1>4 DEF Kept
<1>10. \A s \in pool' : request'[s] = Unused \/ (s \in pool /\ request'[s] = request[s])
  BY <1>1, <1>4
<1>11. ASSUME NEW s \in RequestIds \ pool', Fresh(s)' PROVE Fresh(s)
  BY <1>11, <1>1, <1>2, <1>6 DEF Fresh, Starting
<1>12. \A a \in Posted' : a \in Posted /\ Kept(a)
  BY <1>6, <1>9 DEF EngineInv, Ownership, NotFree
<1> QED
  BY <1>1, <1>3, <1>5, <1>7, <1>8, <1>9, <1>10, <1>11, <1>12, MatchKept

\* MPI_Waitall and MPIX_Checkpoint_write leave the requests alone.
LEMMA OtherCallsMatch ==
    ASSUME EngineInv, EngineInv', MatchInv, MPI_Waitall \/ MPIX_Checkpoint_write
    PROVE  MatchInv'
<1>1. CASE is_errSet
  BY <1>1, FailsMatch DEF MPI_Waitall, MPIX_Checkpoint_write
<1>2. CASE ~is_errSet
  BY <1>2, NothingMatched
  DEF MPI_Waitall, MPIX_Checkpoint_write, requestVars, frameVars, peerVars
<1> QED
  BY <1>1, <1>2

\* Recovery: the application forgets its requests, the queues keep them.
LEMMA RecoverMatch ==
    ASSUME EngineInv, EngineInv', MatchInv, MPIX_Checkpoint_read PROVE MatchInv'
<1>1. /\ UNCHANGED <<request, pool, queueVars, current, progress, socket, sent>>
      /\ handles' = <<>> /\ pc' = [pc EXCEPT !["user"] = "idle"]
  BY DEF MPIX_Checkpoint_read, Goto
<1>2. /\ Posted' = Posted /\ InHand' = InHand /\ Posted \subseteq RequestIds /\ sent \in Nat
      /\ pc \in [Frames -> Places]
  BY <1>1, EngineAssumption, ElementsType
  DEF Posted, InHand, queueVars, EngineInv, TypeOK, QueueTypes, FrameTypes, CountTypes
<1>3. \A a, b : ~Precedes(handles', a, b)
  BY <1>1 DEF Precedes
<1>4. PostedInOrder'
  BY <1>3 DEF PostedInOrder
<1>5. Order' /\ Arriving' = Arriving
  BY <1>1, <1>2, OrderSame DEF queueVars
<1>6. (\A r \in RequestIds \ pool : Kept(r)) /\ (\A r \in pool : request'[r] = request[r])
  BY <1>1, UntouchedKept
<1>7. ASSUME NEW r \in RequestIds \ pool, Fresh(r)' PROVE Fresh(r)
  BY <1>7, <1>1, <1>2 DEF Fresh, Starting
<1> QED
  BY <1>1, <1>2, <1>3, <1>4, <1>5, <1>6, <1>7, MatchKept

(***************************************************************************)
(* Steps of the progress thread and of the environment.                    *)
(***************************************************************************)

\* What the steps below need to know of the queues.
LEMMA QueueFacts ==
    ASSUME EngineInv, MatchInv
    PROVE  /\ received_header_queue \in Seq(Messages) /\ socket \in Seq(Messages)
           /\ Sorted(received_header_queue) /\ Sorted(socket)
           /\ \A g \in ToSet(received_header_queue), h \in ToSet(socket) : Earlier(g, h)
           /\ sent \in Nat /\ (InHand => progress.header \in Messages)
BY EngineAssumption
DEF EngineInv, TypeOK, QueueTypes, CountTypes, Ownership, ProgressPlaces, InHand, MatchInv, Order

\* A step of the progress thread in which messages only move on.
LEMMA MessagesMove ==
    ASSUME EngineInv, EngineInv', MatchInv,
           UNCHANGED <<request, pool, handles, frameVars, sent>>,
           Posted' \subseteq Posted,
           posted_request_queue' = posted_request_queue \/ Posted' = {},
           Order', \A h \in Arriving' : h \in Arriving \/ Later(h)
    PROVE  MatchInv'
BY UntouchedKept, QueueFacts, ProgressQuiet DEF frameVars

\* ordered_recv: the oldest message of the socket comes to hand.
LEMMA ReceiveMatch ==
    ASSUME EngineInv, EngineInv', MatchInv, ordered_recv PROVE MatchInv'
<1>1. /\ progress.pc = "recv" /\ progress'.pc = "header"
      /\ progress'.header = Head(socket) /\ socket' = Tail(socket) /\ socket # <<>>
      /\ UNCHANGED <<requestVars, queueVars, frameVars, sent>>
  BY DEF ordered_recv, Progress, peerVars
<1>2. InHand' /\ ~InHand /\ Posted' = Posted
  BY <1>1 DEF InHand, Posted, queueVars
<1>3. /\ Head(socket) \in ToSet(socket) /\ ToSet(Tail(socket)) \subseteq ToSet(socket)
      /\ Sorted(Tail(socket)) /\ \A h \in ToSet(Tail(socket)) : Earlier(Head(socket), h)
  BY <1>1, QueueFacts, TailElements, SortedTail
<1>4. Arriving' \subseteq Arriving
  BY <1>1, <1>2, <1>3 DEF Arriving, queueVars
<1>5. Order'
  <2> USE <1>1, <1>2, <1>3 DEF queueVars
  <2>1. Sorted(received_header_queue') /\ Sorted(socket')
    BY QueueFacts
  <2>2. \A g \in ToSet(received_header_queue'), h \in ToSet(socket') : Earlier(g, h)
    BY QueueFacts
  <2>3. /\ \A g \in ToSet(received_header_queue') : Earlier(g, progress'.header)
        /\ \A h \in ToSet(socket') : Earlier(progress'.header, h)
    BY QueueFacts
  <2>4. \A h \in Arriving' : h.number <= sent' /\ (h.source \in Peers \/ h.tag = CleanupTag)
    BY <1>4 DEF MatchInv, Order
  <2> QED
    BY <2>1, <2>2, <2>3, <2>4 DEF Order, Earlier
<1> QED
  BY <1>1, <1>2, <1>4, <1>5, MessagesMove DEF requestVars, queueVars

\* post_header: the walk over the posted receives begins, or the header is to be queued.
LEMMA HeaderMatch ==
    ASSUME EngineInv, EngineInv', MatchInv, post_header PROVE MatchInv'
<1>1. /\ progress.pc = "header" /\ progress'.pc \in {"halt", "queue"}
      /\ progress'.header = progress.header
      /\ UNCHANGED <<requestVars, queueVars, frameVars, socket, sent>>
  BY DEF post_header, Progress, peerVars
<1>2. InHand' /\ InHand /\ Posted' \subseteq Posted
  BY <1>1 DEF InHand, Posted, queueVars
<1>3. Order' /\ Arriving' = Arriving
  BY <1>1, <1>2, OrderSame DEF queueVars
<1> QED
  BY <1>1, <1>2, <1>3, MessagesMove DEF requestVars, queueVars

\* halt ends: no receive is posted any more, the header stays in hand.
LEMMA HaltMatch ==
    ASSUME EngineInv, EngineInv', MatchInv, halt PROVE MatchInv'
<1>1. /\ progress.pc = "halt" /\ progress'.pc = "queue" /\ posted_request_queue' = <<>>
      /\ progress'.header = progress.header
      /\ UNCHANGED <<requestVars, received_header_queue, frameVars, socket, sent>>
  BY DEF halt, Progress, peerVars
<1>2. InHand' /\ InHand /\ Posted' = {}
  BY <1>1, EmptyElements DEF InHand, Posted
<1>3. Order' /\ Arriving' = Arriving
  BY <1>1, <1>2, OrderSame
<1> QED
  BY <1>1, <1>2, <1>3, MessagesMove DEF requestVars

\* The end of post_header: the message is queued last, or dropped.
LEMMA QueueMatch ==
    ASSUME EngineInv, EngineInv', MatchInv, queue_header PROVE MatchInv'
<1> DEFINE m == progress.header
<1>1. /\ progress.pc = "queue" /\ progress'.pc = "recv"
      /\ \/ UNCHANGED received_header_queue
         \/ received_header_queue' = Append(received_header_queue, m)
      /\ UNCHANGED <<requestVars, posted_request_queue, frameVars, socket, sent>>
  BY DEF queue_header, Idle, peerVars
<1>2. ~InHand' /\ InHand /\ Posted' = Posted
  BY <1>1 DEF InHand, Posted
<1>3. /\ m \in Messages /\ m \in Arriving
      /\ \A g \in ToSet(received_header_queue) : Earlier(g, m)
      /\ \A h \in ToSet(socket) : Earlier(m, h)
  BY <1>2, QueueFacts DEF Arriving, MatchInv, Order
<1> HIDE DEF m
<1>4. /\ ToSet(received_header_queue') \subseteq ToSet(received_header_queue) \cup {m}
      /\ Sorted(received_header_queue')
  <2>1. received_header_queue \in Seq(Messages) /\ Sorted(received_header_queue)
    BY QueueFacts
  <2>2. ToSet(Append(received_header_queue, m)) = ToSet(received_header_queue) \cup {m}
    BY <1>3, <2>1, AppendElements
  <2>3. Sorted(Append(received_header_queue, m))
    BY <1>3, <2>1, SortedAppend
  <2> QED
    BY <1>1, <2>1, <2>2, <2>3
<1>5. Arriving' \subseteq Arriving
  BY <1>1, <1>2, <1>3, <1>4 DEF Arriving
<1>6. Order'
  <2>1. \A g \in ToSet(received_header_queue'), h \in ToSet(socket') : Earlier(g, h)
    BY <1>1, <1>3, <1>4, QueueFacts
  <2>2. \A h \in Arriving' : h.number <= sent' /\ (h.source \in Peers \/ h.tag = CleanupTag)
    BY <1>1, <1>5 DEF MatchInv, Order
  <2> QED
    BY <1>1, <1>2, <1>4, <2>1, <2>2, QueueFacts DEF Order, Earlier
<1> QED
  BY <1>1, <1>2, <1>5, <1>6, MessagesMove DEF requestVars

\* Request::release completes a request and changes nothing that is matched.
LEMMA ReleaseMatch ==
    ASSUME EngineInv, EngineInv', MatchInv, Release PROVE MatchInv'
<1> DEFINE r == Head(progress.releases)
<1>1. /\ request' = [request EXCEPT ![r].complete = TRUE]
      /\ progress' = [progress EXCEPT !.pc = IF @ = "halt" THEN "halt_unlock" ELSE "unlock"]
      /\ progress.pc \in {"halt", "release"} /\ progress.releases # <<>>
      /\ UNCHANGED <<pool, handles, queueVars, frameVars, socket, sent>>
  BY DEF Release, release, peerVars
<1>2. /\ progress.releases \in Seq(RequestIds)
      /\ progress'.header = progress.header
      /\ progress'.pc = IF progress.pc = "halt" THEN "halt_unlock" ELSE "unlock"
      /\ request \in [RequestIds -> LiveRequests \cup {Unused}] /\ pool \subseteq RequestIds
  BY <1>1 DEF EngineInv, TypeOK, ProgressTypes, RequestTypes
<1>3. r \in RequestIds /\ r \in ToSet(progress.releases)
  BY <1>1, <1>2, TailElements
<1>4. r \notin pool /\ request[r] \in LiveRequests
  BY <1>3 DEF EngineInv, Ownership, NotFree, Completed
<1> HIDE DEF r
<1>5. /\ request'[r] = [request[r] EXCEPT !.complete = TRUE]
      /\ \A s \in RequestIds : s # r => request'[s] = request[s]
  BY <1>1, <1>2, <1>3
<1>6. Kept(r)
  BY <1>4, <1>5 DEF Kept, LiveRequests
<1>7. (\A s \in RequestIds \ pool : Kept(s)) /\ (\A s \in pool : request'[s] = request[s])
  BY <1>2, <1>4, <1>5, <1>6 DEF Kept
<1>8. Posted' = Posted /\ InHand' = InHand
  BY <1>1, <1>2 DEF Posted, InHand, queueVars
<1>9. Order' /\ Arriving' = Arriving /\ sent <= sent'
  BY <1>1, <1>2, <1>8, OrderSame, QueueFacts DEF queueVars
<1> QED
  BY <1>1, <1>7, <1>8, <1>9, ProgressQuiet DEF queueVars, frameVars

\* The end of Request::release gives the guard back.
LEMMA UnlockMatch ==
    ASSUME EngineInv, EngineInv', MatchInv, Unlock PROVE MatchInv'
<1>1. /\ \/ progress.pc = "halt_unlock" /\ progress'.pc = "halt"
            /\ progress'.header = progress.header
         \/ progress.pc = "unlock" /\ progress'.pc = "recv"
      /\ UNCHANGED <<request, pool, handles, queueVars, frameVars, socket, sent>>
  BY DEF Unlock, Progress, Idle, peerVars
<1>2. Posted' = Posted /\ InHand' = InHand
  BY <1>1 DEF Posted, InHand, queueVars
<1>3. Order' /\ Arriving' = Arriving
  BY <1>1, <1>2, OrderSame DEF InHand, queueVars
<1> QED
  BY <1>1, <1>2, <1>3, MessagesMove DEF queueVars

\* A datagram arrives behind all others.
LEMMA ArrivalOrder ==
    ASSUME EngineInv, MatchInv, NEW m \in Messages, socket' = Append(socket, m),
           UNCHANGED received_header_queue, sent' \in Nat, sent <= sent',
           InHand' <=> InHand, InHand => progress'.header = progress.header,
           Later(m), m.number <= sent', m.source \in Peers \/ m.tag = CleanupTag
    PROVE  Order' /\ \A h \in Arriving' : h \in Arriving \/ Later(h)
<1>1. /\ received_header_queue \in Seq(Messages) /\ socket \in Seq(Messages)
      /\ Sorted(socket) /\ sent \in Nat
      /\ ToSet(received_header_queue) \subseteq Messages /\ ToSet(socket) \subseteq Messages
      /\ InHand => progress.header \in Messages
  BY QueueFacts, ElementsType
<1>2. ToSet(socket') = ToSet(socket) \cup {m}
  BY <1>1, AppendElements
<1>3. Arriving' = Arriving \cup {m} /\ Arriving \subseteq Messages
  BY <1>1, <1>2 DEF Arriving
<1>4. \A h \in Arriving : h.number <= sent /\ (h.source \in Peers \/ h.tag = CleanupTag)
  BY DEF MatchInv, Order
<1>5. \A h \in Arriving : Earlier(h, m)
  <2> SUFFICES ASSUME NEW h \in Arriving, m.source \in Peers PROVE h.number < m.number
    BY DEF Earlier
  <2>1. h.number <= sent /\ m.number > sent /\ h.number \in Nat /\ m.number \in Nat
    BY <1>3, <1>4, EngineAssumption DEF Later, Messages
  <2> QED
    BY <1>1, <2>1
<1>6. Sorted(socket')
  BY <1>1, <1>5, SortedAppend DEF Arriving
<1>7. /\ \A g \in ToSet(received_header_queue'), h \in ToSet(socket') : Earlier(g, h)
      /\ InHand => \A h \in ToSet(socket') : Earlier(progress.header, h)
  BY <1>2, <1>5 DEF Arriving, MatchInv, Order
<1>8. ASSUME NEW h \in Arriving'
      PROVE  h.number <= sent' /\ (h.source \in Peers \/ h.tag = CleanupTag)
  <2>1. CASE h = m
    BY <2>1
  <2>2. CASE h \in Arriving
    <3>1. h.number \in Nat
      BY <2>2, <1>3, EngineAssumption DEF Messages
    <3> QED
      BY <2>2, <3>1, <1>1, <1>4
  <2> QED
    BY <2>1, <2>2, <1>3
<1> QED
  BY <1>3, <1>6, <1>7, <1>8 DEF MatchInv, Order, Earlier

\* handle_request: a cleanup comes from this rank and has no place among the numbers
\* of the peers' messages.
LEMMA SendMatch ==
    ASSUME EngineInv, EngineInv', MatchInv, handle_request PROVE MatchInv'
<1>1. /\ progress.pc = "outbox" /\ progress'.pc \in {"recv", "release"}
      /\ UNCHANGED <<requestVars, posted_request_queue, received_header_queue, frameVars, sent>>
  BY DEF handle_request, Progress, Idle, peerVars
<1>2. ~InHand /\ ~InHand' /\ Posted' = Posted
  BY <1>1 DEF InHand, Posted
<1>3. CASE socket' = socket
  BY <1>1, <1>2, <1>3, OrderSame, MessagesMove DEF requestVars
<1>4. CASE socket' # socket
  <2> DEFINE r == Head(outbox)
             m == [source |-> Self, tag |-> CleanupTag, number |-> 0,
                   epoch |-> request[r].epoch, context |-> WorldContext]
  <2>1. socket' = Append(socket, m) /\ outbox # <<>>
    BY <1>4 DEF handle_request, handle_send
  <2>2. r \in RequestIds \ pool
    BY <2>1, TailElements DEF EngineInv, TypeOK, QueueTypes, Ownership, NotFree
  <2>3. request[r] \in LiveRequests
    BY <2>2 DEF EngineInv, Ownership, Completed
  <2>4. m \in Messages
    BY <2>3, EngineAssumption DEF Messages, LiveRequests
  <2>5. m.source \notin Peers /\ m.tag = CleanupTag /\ m.number = 0
    BY EngineAssumption
  <2> HIDE DEF r, m
  <2>6. Order' /\ \A h \in Arriving' : h \in Arriving \/ Later(h)
    BY <1>1, <1>2, <2>1, <2>4, <2>5, QueueFacts, ArrivalOrder DEF Later
  <2> QED
    BY <1>1, <1>2, <2>6, MessagesMove DEF requestVars
<1> QED
  BY <1>3, <1>4

\* A peer's message, a peer's checkpoint, a signal.
LEMMA EnvironmentMatch ==
    ASSUME EngineInv, EngineInv', MatchInv, Environment PROVE MatchInv'
<1>1. CASE \E p \in Peers, tag \in Tags : PeerSends(p, tag)
  <2>1. PICK p \in Peers, tag \in Tags : PeerSends(p, tag)
    BY <1>1
  <2> DEFINE m == [source |-> p, tag |-> tag, epoch |-> peer_epoch[p],
                   context |-> WorldContext, number |-> sent + 1]
  <2>2. /\ socket' = Append(socket, m) /\ sent' = sent + 1 /\ sent < MaxMessages
        /\ UNCHANGED <<requestVars, queueVars, frameVars, progress>>
    BY <2>1 DEF PeerSends
  <2>3. sent \in Nat /\ sent + 1 \in 0..MaxMessages /\ peer_epoch[p] \in 0..MaxEpoch
    BY <2>2, EngineAssumption DEF EngineInv, TypeOK, CountTypes
  <2>4. m \in Messages /\ m.source \in Peers /\ m.number = sent + 1
    BY <2>3 DEF Messages
  <2> HIDE DEF m
  <2>5. Posted' = Posted /\ InHand' = InHand
    BY <2>2 DEF Posted, InHand, queueVars
  <2>6. Order' /\ \A h \in Arriving' : h \in Arriving \/ Later(h)
    BY <2>2, <2>3, <2>4, <2>5, ArrivalOrder DEF Later, queueVars
  <2> QED
    BY <2>2, <2>3, <2>5, <2>6, UntouchedKept, ProgressQuiet DEF requestVars, queueVars, frameVars
<1>2. CASE \E p \in Peers : PeerCheckpoint(p)
  BY <1>2, NothingMatched DEF PeerCheckpoint, requestVars, frameVars
<1>3. CASE RaiseSignal
  BY <1>3, NothingMatched DEF RaiseSignal, requestVars, frameVars, peerVars
<1> QED
  BY <1>1, <1>2, <1>3 DEF Environment

(***************************************************************************)
(* SimpleMatcher::progress.                                                *)
(***************************************************************************)

\* The receive and the message that are taken: no receive before it fits the message, and
\* of the messages that fit the receive none is before it.
LEMMA TakenFirst ==
    ASSUME EngineInv, MatchInv, progress.pc = "recv", ~NoMatch
    PROVE  LET match == FirstMatch(Envelopes, received_header_queue)
               r == posted_request_queue[match[1]]
               h == received_header_queue[match[2]]
           IN  /\ match[1] \in 1..Len(posted_request_queue)
               /\ match[2] \in 1..Len(received_header_queue)
               /\ r \in Posted /\ h \in ToSet(received_header_queue)
               /\ Matches(request[r], h)
               /\ \A g \in ToSet(RemoveAt(received_header_queue, match[2])) :
                     Matches(request[r], g) => Earlier(h, g)
               /\ \A a \in RequestIds :
                     Precedes(posted_request_queue, a, r) => ~Matches(request[a], h)
<1> DEFINE match == FirstMatch(Envelopes, received_header_queue)
           i == match[1]
           k == match[2]
           pairs == MatchingPairs(Envelopes, received_header_queue)
           headers == received_header_queue
<1>1. /\ posted_request_queue \in Seq(RequestIds) /\ headers \in Seq(Messages)
      /\ IsInjective(posted_request_queue) /\ Posted = ToSet(posted_request_queue)
      /\ Sorted(headers)
  BY QueueFacts DEF EngineInv, TypeOK, QueueTypes, Ownership, OneQueue, Posted
<1>2. /\ DOMAIN Envelopes = 1..Len(posted_request_queue) /\ DOMAIN headers = 1..Len(headers)
      /\ \A j \in 1..Len(posted_request_queue) : Envelopes[j] = request[posted_request_queue[j]]
  BY <1>1 DEF Envelopes
<1>3. match \in pairs /\ \A q \in pairs : Before(match, q)
  BY <1>2, FirstMatchFits DEF NoMatch
<1>4. /\ i \in 1..Len(posted_request_queue) /\ k \in 1..Len(headers)
      /\ Matches(request[posted_request_queue[i]], headers[k])
  BY <1>2, <1>3 DEF MatchingPairs
<1>5. \A a \in 1..Len(posted_request_queue), b \in 1..Len(headers) :
         Matches(request[posted_request_queue[a]], headers[b]) => i < a \/ (i = a /\ k <= b)
  <2> SUFFICES ASSUME NEW a \in 1..Len(posted_request_queue), NEW b \in 1..Len(headers),
                      Matches(request[posted_request_queue[a]], headers[b])
               PROVE  i < a \/ (i = a /\ k <= b)
    OBVIOUS
  <2>1. <<a, b>> \in pairs
    BY <1>2 DEF MatchingPairs
  <2>2. Before(match, <<a, b>>)
    BY <1>3, <2>1
  <2> QED
    BY <2>2 DEF Before
<1> HIDE DEF i, k, match, pairs
<1>6. posted_request_queue[i] \in Posted /\ headers[k] \in ToSet(headers)
  BY <1>1, <1>2, <1>4 DEF ToSet
<1>7. ASSUME NEW g \in ToSet(RemoveAt(headers, k)),
             Matches(request[posted_request_queue[i]], g)
      PROVE  Earlier(headers[k], g)
  <2>1. /\ RemoveAt(headers, k) \in Seq(Messages) /\ Len(RemoveAt(headers, k)) = Len(headers) - 1
        /\ \A j \in 1..(Len(headers) - 1) :
              RemoveAt(headers, k)[j] = IF j < k THEN headers[j] ELSE headers[j + 1]
    BY <1>1, <1>4, RemoveAtPositions
  <2>2. PICK j \in 1..(Len(headers) - 1) : RemoveAt(headers, k)[j] = g
    BY <2>1, ElementsType
  <2>3. PICK b \in 1..Len(headers) : b # k /\ headers[b] = g
    BY <1>1, <1>4, <2>1, <2>2
  <2>4. k < b
    BY <1>4, <1>5, <1>7, <2>3
  <2> QED
    BY <1>1, <1>4, <2>3, <2>4 DEF Sorted
<1>8. ASSUME NEW a \in RequestIds, Precedes(posted_request_queue, a, posted_request_queue[i]),
             Matches(request[a], headers[k])
      PROVE  FALSE
  <2>1. PICK m, n \in 1..Len(posted_request_queue) :
           /\ m < n /\ posted_request_queue[m] = a
           /\ posted_request_queue[n] = posted_request_queue[i]
    BY <1>8 DEF Precedes
  <2>2. n = i
    BY <1>1, <1>4, <2>1 DEF IsInjective
  <2> QED
    BY <1>4, <1>5, <1>8, <2>1, <2>2
<1> QED
  BY <1>4, <1>6, <1>7, <1>8 DEF match, i, k

\* The queues after a match, whatever becomes of it.
LEMMA QueuesAfterMatch ==
    ASSUME EngineInv, MatchInv, progress.pc = "recv", ~NoMatch, matcher_progress
    PROVE  LET match == FirstMatch(Envelopes, received_header_queue)
               r == posted_request_queue[match[1]]
           IN  /\ Posted' \subseteq Posted /\ r \notin Posted'
               /\ PostedInOrder' /\ Order' /\ Arriving' \subseteq Arriving
<1> DEFINE match == FirstMatch(Envelopes, received_header_queue)
           i == match[1]
           k == match[2]
           r == posted_request_queue[i]
<1>1. /\ posted_request_queue' = RemoveAt(posted_request_queue, i)
      /\ received_header_queue' = RemoveAt(received_header_queue, k)
      /\ progress'.pc \in {"raised", "release"}
      /\ UNCHANGED <<handles, socket, sent>>
  BY DEF matcher_progress, TakeMatch, handle_match, Progress, peerVars
<1>2. i \in 1..Len(posted_request_queue) /\ k \in 1..Len(received_header_queue)
  BY TakenFirst
<1> HIDE DEF match, i, k
<1>3. /\ posted_request_queue \in Seq(RequestIds) /\ received_header_queue \in Seq(Messages)
      /\ IsInjective(posted_request_queue) /\ Posted = ToSet(posted_request_queue)
      /\ Posted' = ToSet(posted_request_queue')
  BY <1>1 DEF EngineInv, TypeOK, QueueTypes, Ownership, OneQueue, Posted
<1>4. Posted' \subseteq Posted /\ r \notin Posted'
  BY <1>1, <1>2, <1>3, RemoveAtElements
<1>5. PostedInOrder'
  <2> SUFFICES ASSUME NEW a \in Posted', NEW b \in Posted', Precedes(handles, a, b)
               PROVE  Precedes(posted_request_queue', a, b)
    BY <1>1 DEF PostedInOrder
  <2>1. Precedes(posted_request_queue, a, b)
    BY <1>4 DEF MatchInv, PostedInOrder
  <2> QED
    BY <2>1, <1>1, <1>2, <1>3, <1>4, PrecedesRemoved
<1>6. /\ Sorted(received_header_queue')
      /\ ToSet(received_header_queue') \subseteq ToSet(received_header_queue)
  BY <1>1, <1>2, <1>3, QueueFacts, SortedRemoved, RemoveAtElements
<1>7. ~InHand /\ ~InHand'
  BY <1>1 DEF InHand
<1>8. Arriving' \subseteq Arriving
  BY <1>1, <1>6, <1>7 DEF Arriving
<1>9. Order'
  BY <1>1, <1>6, <1>7, <1>8 DEF MatchInv, Order, Earlier
<1> QED
  BY <1>4, <1>5, <1>8, <1>9 DEF r, i, match

\* SimpleMatcher::progress and handle_match.
LEMMA MatcherMatch ==
    ASSUME EngineInv, EngineInv', MatchInv, matcher_progress PROVE MatchInv'
<1>1. CASE NoMatch
  <2>1. /\ progress.pc = "recv" /\ progress'.pc = "outbox"
        /\ UNCHANGED <<requestVars, queueVars, frameVars, socket, sent>>
    BY <1>1 DEF matcher_progress, Progress, requestVars, queueVars, peerVars
  <2>2. Posted' = Posted /\ ~InHand /\ ~InHand'
    BY <2>1 DEF Posted, InHand, queueVars
  <2>3. Order' /\ Arriving' = Arriving
    BY <2>1, <2>2, OrderSame DEF queueVars
  <2> QED
    BY <2>1, <2>2, <2>3, MessagesMove DEF requestVars, queueVars
<1>2. CASE ~NoMatch
  <2> DEFINE match == FirstMatch(Envelopes, received_header_queue)
             r == posted_request_queue[match[1]]
             h == received_header_queue[match[2]]
             rest == RemoveAt(received_header_queue, match[2])
  <2>1. /\ UNCHANGED <<pool, handles, frameVars, socket, sent>>
        /\ \/ h.tag = CleanupTag /\ UNCHANGED request
           \/ h.tag # CleanupTag /\ request' = [request EXCEPT ![r].message = h]
        /\ received_header_queue' = rest
        /\ progress.pc = "recv" /\ progress'.pc \in {"raised", "release"}
    BY <1>2 DEF matcher_progress, handle_match, TakeMatch, Progress, peerVars
  <2>2. /\ r \in Posted /\ h \in ToSet(received_header_queue) /\ Matches(request[r], h)
        /\ \A g \in ToSet(rest) : Matches(request[r], g) => Earlier(h, g)
        /\ \A a \in RequestIds :
              Precedes(posted_request_queue, a, r) => ~Matches(request[a], h)
    BY <1>2, <2>1, TakenFirst
  <2>3. /\ Posted' \subseteq Posted /\ r \notin Posted'
        /\ PostedInOrder' /\ Order' /\ Arriving' \subseteq Arriving
    BY <1>2, <2>1, QueuesAfterMatch
  <2> HIDE DEF match, r, h, rest
  <2>4. /\ Posted \subseteq RequestIds /\ pool \subseteq RequestIds
        /\ r \in RequestIds /\ r \notin pool /\ request[r] \in LiveRequests
        /\ request \in [RequestIds -> LiveRequests \cup {Unused}]
    BY <2>2, ElementsType
    DEF EngineInv, TypeOK, RequestTypes, QueueTypes, Ownership, NotFree, Completed, Posted
  <2>5. /\ \A s \in RequestIds : s # r => request'[s] = request[s]
        /\ \A s \in RequestIds \ pool : s # r => Kept(s)
        /\ \A s \in pool : request'[s] = request[s]
    BY <2>1, <2>4 DEF Kept
  <2>6. CASE h.tag = CleanupTag
    <3>1. \A s \in RequestIds \ pool : Kept(s)
      BY <2>6, <2>1 DEF Kept
    <3>2. ASSUME NEW s \in RequestIds \ pool, Fresh(s)' PROVE Fresh(s)
      BY <3>2, <2>1, <2>3 DEF Fresh, frameVars
    <3>3. \A a \in Posted' : a \in Posted /\ Kept(a)
      BY <2>3, <2>4, <3>1 DEF EngineInv, Ownership, NotFree
    <3>4. sent <= sent'
      BY <2>1, QueueFacts
    <3> QED
      BY <2>1, <2>3, <2>5, <3>1, <3>2, <3>3, <3>4, MatchKept
  <2>7. CASE h.tag # CleanupTag
    <3>1. /\ request'[r] = [request[r] EXCEPT !.message = h]
      BY <2>1, <2>4, <2>7
    <3>2. /\ request'[r].message = h
          /\ \A g : Matches(request'[r], g) <=> Matches(request[r], g)
      BY <3>1, <2>4 DEF Matches, LiveRequests
    <3>3. /\ h \in Messages /\ h \in Arriving /\ h.source \in Peers /\ h.number <= sent
          /\ h # NoMessage
      <4>1. h \in Messages
        BY <2>2, QueueFacts, ElementsType
      <4>2. h # NoMessage
        BY <4>1 DEF Messages, NoMessage
      <4> QED
        BY <4>1, <4>2, <2>2, <2>7 DEF Arriving, MatchInv, Order
    <3>4. PoolUnused'
      BY <2>1, <2>5 DEF MatchInv, PoolUnused
    <3>5. FreshEmpty'
      <4> SUFFICES ASSUME NEW s \in RequestIds \ pool, Fresh(s)'
                   PROVE  request'[s].message = NoMessage
        BY <2>1 DEF FreshEmpty
      <4>1. Fresh(s)
        BY <2>1, <2>3 DEF Fresh, frameVars
      <4>2. s # r
        <5>1. \A f \in Frames : pc[f] \in Starting => current[f] # r
          BY <2>2 DEF EngineInv, Ownership, FramePlace, Alone
        <5> QED
          BY <5>1, <2>1, <2>3 DEF Fresh, frameVars
      <4> QED
        BY <4>1, <4>2, <2>5 DEF MatchInv, FreshEmpty
    <3>6. TakesOldest'
      <4> SUFFICES ASSUME NEW s \in RequestIds \ pool, request'[s].message # NoMessage
                   PROVE  /\ request'[s].message \in Messages
                          /\ request'[s].message.source \in Peers
                          /\ request'[s].message.number <= sent
                          /\ \A g \in Arriving' :
                                g.source = request'[s].message.source /\ Matches(request'[s], g)
                                  => request'[s].message.number < g.number
        BY <2>1 DEF TakesOldest
      <4>1. CASE s = r
        <5>1. ASSUME NEW g \in Arriving', g.source = h.source, Matches(request[r], g)
              PROVE  h.number < g.number
          <6>1. g \in ToSet(rest) \/ g \in ToSet(socket)
            BY <2>1 DEF Arriving, InHand
          <6>2. Earlier(h, g)
            BY <6>1, <5>1, <2>2, QueueFacts
          <6> QED
            BY <6>2, <5>1, <3>3 DEF Earlier
        <5> QED
          BY <4>1, <5>1, <3>2, <3>3
      <4>2. CASE s # r
        BY <4>2, <2>3, <2>5 DEF MatchInv, TakesOldest
      <4> QED
        BY <4>1, <4>2
    <3>7. OldestTakes'
      <4> SUFFICES ASSUME NEW a \in RequestIds, NEW b \in RequestIds, Precedes(handles, a, b),
                          a \in Posted', request'[b].message # NoMessage
                   PROVE  ~Matches(request'[a], request'[b].message)
        BY <2>1 DEF OldestTakes
      <4>1. a # r /\ a \in Posted /\ request'[a] = request[a]
        BY <2>3, <2>5
      <4>2. CASE b = r
        <5>1. Precedes(posted_request_queue, a, r)
          BY <4>1, <4>2, <2>2 DEF MatchInv, PostedInOrder
        <5> QED
          BY <5>1, <4>1, <4>2, <2>2, <3>2
      <4>3. CASE b # r
        BY <4>1, <4>3, <2>5 DEF MatchInv, OldestTakes
      <4> QED
        BY <4>2, <4>3
    <3> QED
      BY <2>3, <3>4, <3>5, <3>6, <3>7 DEF MatchInv
  <2> QED
    BY <2>6, <2>7
<1> QED
  BY <1>1, <1>2

(***************************************************************************)
(* The theorems about matching.                                            *)
(***************************************************************************)

\* At first no request is made, and no message sent.
LEMMA MatchInit == Init => MatchInv
<1> SUFFICES ASSUME Init PROVE MatchInv
  OBVIOUS
<1>1. /\ received_header_queue = <<>> /\ socket = <<>> /\ posted_request_queue = <<>>
      /\ handles = <<>> /\ progress.pc = "recv" /\ pool = RequestIds
      /\ \A r \in RequestIds : request[r] = Unused
  BY DEF Init, Idle
<1>2. Arriving = {} /\ ~InHand /\ Posted = {}
  BY <1>1 DEF Arriving, InHand, Posted, ToSet
<1>3. Order
  BY <1>1, <1>2 DEF Order, Sorted, ToSet
<1> QED
  BY <1>1, <1>2, <1>3 DEF MatchInv, PoolUnused, FreshEmpty, TakesOldest, PostedInOrder, OldestTakes

\* The invariant is inductive.
LEMMA MatchNext == EngineInv /\ MatchInv /\ [Next]_vars => MatchInv'
<1> SUFFICES ASSUME EngineInv, MatchInv, [Next]_vars PROVE MatchInv'
  OBVIOUS
<1>0. EngineInv'
  BY NextInv
<1>1. CASE UserCalls
  BY <1>0, <1>1, CallMatch, WaitMatch, OtherCallsMatch, RecoverMatch
  DEF UserCalls, MPI_Irecv, MPI_Isend, UserWaits, Frames
<1>2. ASSUME NEW f \in Frames, FrameStep(f) PROVE MatchInv'
  BY <1>0, <1>2, PlaceMatch, PostMatch, LockRequestMatch, FreeMatch DEF FrameStep
<1>3. CASE UserStep
  BY <1>0, <1>2, <1>3, WaitMatch DEF UserStep, WaitsOn, Frames
<1>4. CASE HandlerStep
  BY <1>0, <1>2, <1>4, WaitMatch DEF HandlerStep, HandlerWaits, Frames
<1>5. CASE ProgressStep
  BY <1>0, <1>5, ReceiveMatch, HeaderMatch, ReleaseMatch, UnlockMatch, HaltMatch, QueueMatch,
     MatcherMatch, SendMatch DEF ProgressStep
<1>6. CASE UNCHANGED vars
  BY <1>0, <1>6, NothingMatched DEF vars, requestVars, frameVars, peerVars
<1> QED
  BY <1>0, <1>1, <1>3, <1>4, <1>5, <1>6, SignalMatch, EnvironmentMatch DEF Next

\* Every reachable state has both invariants.
LEMMA Matching == Spec => [](EngineInv /\ MatchInv)
<1>1. Init => EngineInv /\ MatchInv
  BY InitInv, MatchInit
<1>2. EngineInv /\ MatchInv /\ [Next]_vars => (EngineInv /\ MatchInv)'
  BY NextInv, MatchNext
<1> QED
  BY <1>1, <1>2, PTL DEF Spec

\* MPI's order of messages and of receives: whatever the interleaving of the user's calls,
\* the handler and the progress thread, a receive takes the oldest message of its source
\* that fits it, and no message passes by an older receive that fits it
\* (SimpleMatcher::progress).
THEOREM MessagesDoNotOvertake == Spec => []NonOvertaking
<1>1. EngineInv /\ MatchInv => NonOvertaking
  <2> SUFFICES ASSUME EngineInv, MatchInv, NEW i \in DOMAIN handles, Received(i)
               PROVE  LET m == request[handles[i]].message
                      IN  /\ \A h \in ToSet(received_header_queue) :
                                h.source = m.source /\ Matches(request[handles[i]], h)
                                  => h.number > m.number
                          /\ \A j \in 1..(i - 1) :
                                handles[j] \in Posted => ~Matches(request[handles[j]], m)
    BY DEF NonOvertaking
  <2> DEFINE r == handles[i]
  <2>1. handles \in Seq(RequestIds) /\ i \in 1..Len(handles)
    BY DEF EngineInv, TypeOK, RequestTypes
  <2>2. r \in RequestIds \ pool /\ request[r].message # NoMessage
    BY <2>1 DEF EngineInv, Ownership, NotFree, ToSet, Received
  <2>3. ASSUME NEW h \in ToSet(received_header_queue),
               h.source = request[r].message.source, Matches(request[r], h)
        PROVE  h.number > request[r].message.number
    <3>1. request[r].message.number < h.number
      BY <2>2, <2>3 DEF MatchInv, TakesOldest, Arriving
    <3>2. h \in Messages /\ request[r].message \in Messages
      BY <2>2, QueueFacts, ElementsType DEF MatchInv, TakesOldest
    <3> QED
      BY <3>1, <3>2, EngineAssumption DEF Messages
  <2>4. ASSUME NEW j \in 1..(i - 1), handles[j] \in Posted
        PROVE  ~Matches(request[handles[j]], request[r].message)
    <3>1. j \in 1..Len(handles) /\ j < i /\ handles[j] \in RequestIds
      BY <2>1
    <3>2. Precedes(handles, handles[j], r)
      BY <2>1, <3>1 DEF Precedes
    <3> QED
      BY <2>2, <2>4, <3>1, <3>2 DEF MatchInv, OldestTakes
  <2> QED
    BY <2>3, <2>4
<1> QED
  BY <1>1, Matching, PTL

(***************************************************************************)
(* What a step may do to a request.                                        *)
(***************************************************************************)

\* A new request is not complete, and none of cleanup unless the handler runs; a receive is
\* one of the application's.
Requested(q) == [source |-> q.source, tag |-> q.tag] \in Receives
New(r) ==
    /\ r \in pool /\ ~request'[r].complete
    /\ request'[r].tag = CleanupTag => CleanupTag \in Tags \/ pc'["handler"] # "idle"
    /\ request'[r].operation = "Receive" => Requested(request'[r])
\* One that is in use keeps what it is for. It gets its message while it is posted, and
\* completes when it is released.
Goes(r) ==
    /\ r \notin pool
    /\ request'[r].operation = request[r].operation /\ request'[r].tag = request[r].tag
    /\ request'[r].source = request[r].source
    /\ \/ request'[r].message = request[r].message
       \/ r \in Posted /\ request'[r].message # NoMessage
    /\ request'[r].complete =>
          \/ request[r].complete
          \/ progress.pc \in {"halt", "release"} /\ r = Head(progress.releases)

\* A request is made.
LEMMA ConstructChanges ==
    ASSUME EngineInv, NEW f \in Frames, NEW operation, NEW envelope,
           construct_request(f, operation, envelope),
           envelope.tag = CleanupTag => CleanupTag \in Tags \/ f = "handler",
           operation = "Receive" =>
               [source |-> envelope.source, tag |-> envelope.tag] \in Receives
    PROVE  \A r \in RequestIds \ pool' : New(r) \/ Goes(r)
<1> DEFINE r == CHOOSE free \in pool : TRUE
           new == [operation |-> operation, epoch |-> epoch, context |-> WorldContext,
                   source |-> envelope.source, tag |-> envelope.tag, complete |-> FALSE,
                   condition |-> FALSE, message |-> NoMessage]
<1>1. /\ r \in pool /\ pool' = pool \ {r} /\ request' = [request EXCEPT ![r] = new]
      /\ pc' = [pc EXCEPT ![f] = "start"]
  BY DEF construct_request, allocate_request, Goto
<1>2. /\ ~new.complete /\ new.tag = envelope.tag /\ new.source = envelope.source
      /\ new.operation = operation
  OBVIOUS
<1> HIDE DEF r, new
<1>3. /\ r \in RequestIds /\ request'[r] = new
      /\ \A s \in RequestIds : s # r => request'[s] = request[s]
      /\ f = "handler" => pc'["handler"] = "start"
  BY <1>1 DEF EngineInv, TypeOK, RequestTypes, FrameTypes
<1>4. New(r)
  <2>1. operation = "Receive" => Requested(request'[r])
    BY <1>2, <1>3 DEF Requested
  <2> QED
    BY <1>1, <1>2, <1>3, <2>1 DEF New
<1>5. \A s \in RequestIds \ pool : Goes(s)
  BY <1>1, <1>3 DEF Goes
<1> QED
  BY <1>1, <1>4, <1>5

\* No request is touched.
LEMMA UntouchedChanges ==
    ASSUME UNCHANGED <<request, pool>>
    PROVE  \A r \in RequestIds \ pool' : New(r) \/ Goes(r)
BY DEF Goes

\* Every call of the user.
LEMMA CallChanges ==
    ASSUME EngineInv, UserCalls PROVE \A r \in RequestIds \ pool' : New(r) \/ Goes(r)
<1>1. ASSUME NEW operation, NEW envelope, Call(operation, envelope),
             envelope.tag \in Tags \cup {AnyTag},
             operation = "Receive" =>
                 [source |-> envelope.source, tag |-> envelope.tag] \in Receives
      PROVE  \A r \in RequestIds \ pool' : New(r) \/ Goes(r)
  <2>1. envelope.tag = CleanupTag => CleanupTag \in Tags
    BY <1>1, EngineAssumption
  <2>2. CASE is_errSet
    BY <1>1, <2>2, UntouchedChanges DEF Call
  <2>3. CASE ~is_errSet
    BY <1>1, <2>1, <2>3, ConstructChanges DEF Call, Frames
  <2> QED
    BY <2>2, <2>3
<1>2. CASE MPI_Irecv
  <2>1. PICK envelope \in Receives : Call("Receive", envelope)
    BY <1>2 DEF MPI_Irecv
  <2>2. envelope.tag \in Tags \cup {AnyTag}
        /\ envelope = [source |-> envelope.source, tag |-> envelope.tag]
    BY <2>1, EngineAssumption
  <2> QED
    BY <1>1, <2>1, <2>2
<1>3. CASE MPI_Isend
  BY <1>1, <1>3 DEF MPI_Isend
<1>4. CASE UserWaits \/ MPI_Waitall \/ MPIX_Checkpoint_write \/ MPIX_Checkpoint_read
  BY <1>4, UntouchedChanges
  DEF UserWaits, MPI_Wait, MPI_Waitall, MPIX_Checkpoint_write, MPIX_Checkpoint_read, requestVars
<1> QED
  BY <1>2, <1>3, <1>4 DEF UserCalls

\* Every step of a call.
LEMMA FrameChanges ==
    ASSUME EngineInv, NEW f \in Frames, FrameStep(f)
    PROVE  \A r \in RequestIds \ pool' : New(r) \/ Goes(r)
<1> DEFINE r == current[f]
<1>1. CASE \/ MPI_Start(f) \/ lock_queue(f) \/ post_request(f) \/ test_complete(f)
           \/ wake_up(f) \/ finalize_request(f)
  BY <1>1, UntouchedChanges
  DEF MPI_Start, lock_queue, post_request, test_complete, wake_up, finalize_request, requestVars
<1>2. CASE lock_request(f)
  <2>1. /\ request' = [request EXCEPT ![r].condition = TRUE] /\ pool' = pool
        /\ r \in RequestIds /\ request[r] \in LiveRequests
        /\ request \in [RequestIds -> LiveRequests \cup {Unused}]
    BY <1>2, FrameRuns DEF lock_request, At, EngineInv, TypeOK, RequestTypes
  <2> HIDE DEF r
  <2>2. request'[r] = [request[r] EXCEPT !.condition = TRUE]
    BY <2>1
  <2>3. /\ request'[r].operation = request[r].operation /\ request'[r].tag = request[r].tag
        /\ request'[r].source = request[r].source
        /\ request'[r].message = request[r].message
        /\ request'[r].complete = request[r].complete
    BY <2>1, <2>2 DEF LiveRequests
  <2>4. \A s \in RequestIds : s # r => request'[s] = request[s]
    BY <2>1
  <2> QED
    BY <2>1, <2>3, <2>4 DEF Goes
<1>3. CASE MPI_Request_free(f)
  <2>1. request' = [request EXCEPT ![r] = Unused] /\ pool' = pool \cup {r}
        /\ request \in [RequestIds -> LiveRequests \cup {Unused}]
    BY <1>3 DEF MPI_Request_free, deallocate_request, EngineInv, TypeOK, RequestTypes
  <2>2. \A s \in RequestIds \ pool' : request'[s] = request[s] /\ s \notin pool
    BY <2>1
  <2> QED
    BY <2>2 DEF Goes
<1> QED
  BY <1>1, <1>2, <1>3 DEF FrameStep

\* Every step of the progress thread.
LEMMA ProgressChanges ==
    ASSUME EngineInv, MatchInv, ProgressStep
    PROVE  \A r \in RequestIds \ pool' : New(r) \/ Goes(r)
<1>1. CASE ordered_recv \/ post_header \/ Unlock \/ halt \/ queue_header \/ handle_request
  BY <1>1, UntouchedChanges
  DEF ordered_recv, post_header, Unlock, halt, queue_header, handle_request, requestVars
<1>2. CASE Release
  <2> DEFINE r == Head(progress.releases)
  <2>1. /\ request' = [request EXCEPT ![r].complete = TRUE] /\ pool' = pool
        /\ progress.pc \in {"halt", "release"} /\ progress.releases # <<>>
        /\ progress.releases \in Seq(RequestIds)
        /\ request \in [RequestIds -> LiveRequests \cup {Unused}]
    BY <1>2 DEF Release, release, EngineInv, TypeOK, ProgressTypes, RequestTypes
  <2>2. r \in RequestIds /\ r \in ToSet(progress.releases)
    BY <2>1, TailElements
  <2>3. request[r] \in LiveRequests
    BY <2>2 DEF EngineInv, Ownership, NotFree, Completed
  <2> HIDE DEF r
  <2>4. request'[r] = [request[r] EXCEPT !.complete = TRUE]
    BY <2>1, <2>2
  <2>5. /\ request'[r].operation = request[r].operation /\ request'[r].tag = request[r].tag
        /\ request'[r].source = request[r].source
        /\ request'[r].message = request[r].message
    BY <2>3, <2>4 DEF LiveRequests
  <2>6. \A s \in RequestIds : s # r => request'[s] = request[s]
    BY <2>1
  <2> QED
    BY <2>1, <2>5, <2>6 DEF Goes, r
<1>3. CASE matcher_progress
  <2> DEFINE match == FirstMatch(Envelopes, received_header_queue)
             r == posted_request_queue[match[1]]
             h == received_header_queue[match[2]]
  <2>1. CASE request' = request
    BY <1>3, <2>1, UntouchedChanges DEF matcher_progress
  <2>2. CASE request' # request
    <3>1. /\ request' = [request EXCEPT ![r].message = h] /\ pool' = pool
          /\ progress.pc = "recv" /\ ~NoMatch
      BY <1>3, <2>2 DEF matcher_progress, handle_match
    <3>2. r \in Posted /\ h \in ToSet(received_header_queue)
      BY <3>1, TakenFirst
    <3> HIDE DEF match, r, h
    <3>3. /\ r \in RequestIds /\ r \notin pool /\ request[r] \in LiveRequests
          /\ request \in [RequestIds -> LiveRequests \cup {Unused}] /\ h \in Messages
      BY <3>2, QueueFacts, ElementsType
      DEF EngineInv, TypeOK, RequestTypes, QueueTypes, Ownership, NotFree, Completed, Posted
    <3>4. request'[r] = [request[r] EXCEPT !.message = h]
      BY <3>1, <3>3
    <3>5. /\ request'[r].operation = request[r].operation /\ request'[r].tag = request[r].tag
          /\ request'[r].source = request[r].source
          /\ request'[r].message = h /\ request'[r].complete = request[r].complete
          /\ h # NoMessage
      BY <3>3, <3>4 DEF LiveRequests, Messages, NoMessage
    <3>6. \A s \in RequestIds : s # r => request'[s] = request[s]
      BY <3>1
    <3> QED
      BY <3>1, <3>2, <3>5, <3>6 DEF Goes
  <2> QED
    BY <2>1, <2>2
<1> QED
  BY <1>1, <1>2, <1>3 DEF ProgressStep

\* Every step makes requests, keeps them or frees them.
LEMMA RequestChanges ==
    ASSUME EngineInv, MatchInv, [Next]_vars
    PROVE  \A r \in RequestIds \ pool' : New(r) \/ Goes(r)
<1>1. CASE UserStep \/ HandlerStep
  <2>1. CASE WaitsOn \/ HandlerWaits
    BY <2>1, UntouchedChanges DEF WaitsOn, HandlerWaits, MPI_Wait, requestVars
  <2> QED
    BY <1>1, <2>1, FrameChanges DEF UserStep, HandlerStep, Frames
<1>2. CASE setErr
  <2>1. CASE posted_request_queue = <<>>
    BY <1>2, <2>1, UntouchedChanges DEF setErr
  <2>2. CASE posted_request_queue # <<>>
    BY <1>2, <2>2, ConstructChanges DEF setErr, Frames
  <2> QED
    BY <2>1, <2>2
<1>3. CASE Environment
  BY <1>3, UntouchedChanges
  DEF Environment, PeerCheckpoint, PeerSends, RaiseSignal, requestVars
<1>4. CASE UNCHANGED vars
  BY <1>4, UntouchedChanges DEF vars, requestVars
<1> QED
  BY <1>1, <1>2, <1>3, <1>4, CallChanges, ProgressChanges DEF Next

\* A filled buffer is not written again: a receive that has its message is no longer
\* posted, and only posted receives are matched (SimpleMatcher::progress erases them).
THEOREM MessagesStay == Spec => ReceivesOneMessage
<1>1. EngineInv /\ MatchInv /\ (EngineInv /\ MatchInv)' /\ [Next]_vars =>
         [\A r \in RequestIds : Live(r) /\ Live(r)' /\ request[r].message # NoMessage
             => request'[r].message = request[r].message]_vars
  <2> SUFFICES ASSUME EngineInv, MatchInv, MatchInv', [Next]_vars, NEW r \in RequestIds,
                      Live(r), Live(r)', request[r].message # NoMessage
               PROVE  request'[r].message = request[r].message
    OBVIOUS
  <2>1. r \notin pool /\ r \notin pool'
    BY DEF MatchInv, PoolUnused, Live
  <2>2. Goes(r)
    BY <2>1, RequestChanges DEF New
  <2>3. r \notin Posted
    BY <2>1 DEF MatchInv, FreshEmpty, Fresh
  <2> QED
    BY <2>2, <2>3 DEF Goes
<1> QED
  BY <1>1, Matching, PTL DEF Spec, ReceivesOneMessage

--------------------------------------------------------------------------------
(***************************************************************************)
(* What a failure does.                                                    *)
(***************************************************************************)

\* Cleanup messages, and receives that end without a message, come with failures.
Disturbed == Ongoing \/ recoveries > 0
NoCleanup ==
    /\ \A h \in ToSet(socket) : h.tag # CleanupTag
    /\ InHand => progress.header.tag # CleanupTag /\ ~Halting
    /\ \A r \in RequestIds \ pool : request[r].tag # CleanupTag
HasMessage(r) == request[r].operation = "Receive" => request[r].message # NoMessage
OutboxSends == \A r \in ToSet(outbox) : request[r].operation = "Send"
DeliveryInv ==
    /\ OutboxSends
    /\ progress.pc = "release" => HasMessage(Head(progress.releases))
    /\ Disturbed \/ (/\ NoCleanup
                     /\ \A r \in RequestIds \ pool : request[r].complete => HasMessage(r))
    /\ recoveries > 0 \/ (pc["user"] = "free" => HasMessage(current["user"]))

\* A process that a failure has reached stays marked: the flag, the handler or the failed
\* call lead to a recovery, and recoveries are counted.
LEMMA DisturbedStays ==
    ASSUME EngineInv, [Next]_vars, Disturbed PROVE Disturbed'
<1>1. /\ FrameTypes /\ FramesApart /\ recoveries \in Nat
      /\ \A f \in Frames : FramePlace(f)
  BY EngineAssumption DEF EngineInv, TypeOK, CountTypes, Ownership
<1> USE DEF Disturbed, Ongoing
<1>2. ASSUME Fails PROVE Disturbed'
  BY <1>1, <1>2 DEF Fails, FrameTypes, Frames
<1>3. ASSUME pc["handler"] = "idle", pc["user"] # "failed", UNCHANGED <<is_errSet, recoveries>>
      PROVE  Disturbed'
  BY <1>3
<1>4. CASE UserCalls
  <2>1. CASE MPI_Irecv \/ MPI_Isend
    <3>1. PICK operation, envelope : Call(operation, envelope)
      BY <2>1 DEF MPI_Irecv, MPI_Isend
    <3> QED
      BY <3>1, <1>3 DEF Call, Between, At, Running, faultVars, historyVars
  <2>2. CASE UserWaits \/ MPI_Waitall
    <3>1. pc["handler"] = "idle" /\ pc["user"] = "idle" /\ UNCHANGED <<is_errSet, recoveries>>
      BY <2>2
      DEF UserWaits, MPI_Wait, MPI_Waitall, Between, At, Running, faultVars, historyVars
    <3> QED
      BY <3>1, <1>3
  <2>3. CASE MPIX_Checkpoint_write
    BY <2>3, <1>3 DEF MPIX_Checkpoint_write, Between, At, Running, historyVars
  <2>4. CASE MPIX_Checkpoint_read
    BY <2>4, <1>1 DEF MPIX_Checkpoint_read
  <2> QED
    BY <1>4, <2>1, <2>2, <2>3, <2>4 DEF UserCalls
<1>5. ASSUME NEW f \in Frames, FrameStep(f) PROVE Disturbed'
  <2>1. pc[f] \notin {"idle", "failed"} /\ Running(f)
    BY <1>5 DEF FrameStep, MPI_Start, lock_queue, post_request, lock_request, test_complete,
       wake_up, finalize_request, MPI_Request_free, At
  <2>2. recoveries' = recoveries /\ (is_errSet => is_errSet')
    <3>1. CASE MPI_Request_free(f)
      BY <3>1 DEF MPI_Request_free, historyVars
    <3> QED
      BY <1>5, <3>1 DEF FrameStep, MPI_Start, lock_queue, post_request, lock_request,
         test_complete, wake_up, finalize_request, faultVars, historyVars
  <2>3. CASE f = "handler"
    <3>1. \/ Fails \/ is_errSet' \/ \E place \in Places \ {"idle"} : pc' = [pc EXCEPT ![f] = place]
      BY <1>5, <2>3 DEF FrameStep, MPI_Start, lock_queue, post_request, lock_request,
         test_complete, wake_up, finalize_request, MPI_Request_free, Goto, Places
    <3> QED
      BY <3>1, <2>3, <1>1, <1>2 DEF FrameTypes, Frames
  <2>4. CASE f = "user"
    BY <2>1, <2>2, <2>4, <1>1 DEF Running
  <2> QED
    BY <2>3, <2>4 DEF Frames
<1>6. CASE UserStep
  BY <1>1, <1>2, <1>5, <1>6
  DEF UserStep, WaitsOn, MPI_Wait, Frames, At, Running, faultVars, historyVars
<1>7. CASE HandlerStep
  <2>1. CASE HandlerWaits
    BY <2>1, <1>1, <1>2 DEF HandlerWaits, MPI_Wait, Goto, FrameTypes, Frames
  <2> QED
    BY <2>1, <1>5, <1>7 DEF HandlerStep, Frames
<1>8. CASE setErr
  <2>1. CASE posted_request_queue = <<>>
    BY <2>1, <1>8 DEF setErr
  <2>2. CASE posted_request_queue # <<>>
    BY <2>2, <1>1, <1>8 DEF setErr, construct_request, Goto, FrameTypes, Frames
  <2> QED
    BY <2>1, <2>2
<1>9. CASE ProgressStep
  <2>1. UNCHANGED <<frameVars, faultVars>>
    BY <1>9 DEF ProgressStep, ordered_recv, post_header, Release, Unlock, halt, queue_header,
       matcher_progress, handle_request
  <2> QED
    BY <2>1 DEF frameVars, faultVars, historyVars
<1>10. CASE Environment \/ UNCHANGED vars
  <2>1. UNCHANGED <<frameVars, is_errSet, historyVars>>
    BY <1>10 DEF Environment, PeerCheckpoint, PeerSends, RaiseSignal, vars, faultVars
  <2> QED
    BY <2>1 DEF frameVars, historyVars
<1> QED
  BY <1>4, <1>6, <1>7, <1>8, <1>9, <1>10 DEF Next

\* The outbox holds sends only.
LEMMA OutboxKept ==
    ASSUME EngineInv, MatchInv, [Next]_vars, OutboxSends
    PROVE  OutboxSends'
<1>1. ASSUME NEW r \in ToSet(outbox)'
      PROVE  r \in ToSet(outbox) \/ (r \in RequestIds \ pool' /\ request'[r].operation = "Send")
  <2>1. CASE \E f \in Frames : post_request(f)
    <3>1. PICK f \in Frames : post_request(f)
      BY <2>1
    <3> DEFINE q == current[f]
    <3>2. /\ \/ outbox' = outbox
             \/ outbox' = Append(outbox, q) /\ request[q].operation # "Receive"
          /\ UNCHANGED <<request, pool>>
      BY <3>1 DEF post_request
    <3>3. q \in RequestIds \ pool /\ request[q] \in LiveRequests
      BY <3>1, FrameRuns DEF post_request, At
    <3>4. outbox \in Seq(RequestIds)
      BY DEF EngineInv, TypeOK, QueueTypes
    <3> HIDE DEF q
    <3>5. r \in ToSet(outbox) \/ (r = q /\ request[q].operation # "Receive")
      <4>1. ToSet(Append(outbox, q)) = ToSet(outbox) \cup {q}
        BY <3>3, <3>4, AppendElements
      <4> QED
        BY <1>1, <3>2, <4>1
    <3> QED
      BY <3>2, <3>3, <3>5 DEF LiveRequests
  <2>2. CASE handle_request
    <3>1. outbox' = outbox \/ (outbox # <<>> /\ outbox' = Tail(outbox))
      BY <2>2 DEF handle_request
    <3>2. outbox \in Seq(RequestIds)
      BY DEF EngineInv, TypeOK, QueueTypes
    <3> QED
      BY <1>1, <3>1, <3>2, TailElements
  <2>3. CASE UNCHANGED outbox
    BY <2>3
  <2>4. \/ UNCHANGED outbox \/ handle_request \/ \E f \in Frames : post_request(f)
    <3>1. CASE UserCalls
      BY <3>1 DEF UserCalls, MPI_Irecv, MPI_Isend, Call, UserWaits, MPI_Wait, MPI_Waitall,
         MPIX_Checkpoint_write, MPIX_Checkpoint_read, queueVars
    <3>2. ASSUME NEW f \in Frames, FrameStep(f) PROVE UNCHANGED outbox \/ post_request(f)
      BY <3>2 DEF FrameStep, MPI_Start, lock_queue, lock_request, test_complete,
         wake_up, finalize_request, MPI_Request_free, queueVars
    <3>3. CASE UserStep \/ HandlerStep
      BY <3>2, <3>3 DEF UserStep, HandlerStep, WaitsOn, HandlerWaits, MPI_Wait, Frames, queueVars
    <3>4. CASE setErr \/ Environment \/ UNCHANGED vars
      BY <3>4 DEF setErr, Environment, PeerCheckpoint, PeerSends, RaiseSignal, vars, queueVars
    <3>5. CASE ProgressStep
      BY <3>5 DEF ProgressStep, ordered_recv, post_header, Release, Unlock, halt, queue_header,
         matcher_progress, queueVars
    <3> QED
      BY <3>1, <3>3, <3>4, <3>5 DEF Next
  <2> QED
    BY <2>1, <2>2, <2>3, <2>4
<1>2. ASSUME NEW r \in ToSet(outbox)', r \in ToSet(outbox) PROVE request'[r].operation = "Send"
  <2>1. r \in RequestIds \ pool'
    BY <1>2, NextInv, ElementsType DEF EngineInv, TypeOK, QueueTypes, Ownership, NotFree
  <2>2. r \notin pool
    BY <1>2 DEF EngineInv, Ownership, NotFree
  <2> QED
    BY <1>2, <2>1, <2>2, RequestChanges DEF New, Goes, OutboxSends
<1> QED
  BY <1>1, <1>2 DEF OutboxSends

\* What a request that is in use has, it keeps.
LEMMA MessageKept ==
    ASSUME NEW r, Goes(r), HasMessage(r) PROVE HasMessage(r)'
BY DEF Goes, HasMessage

\* The requests that are released one by one, and not by a cleanup, have what they need.
LEMMA ReleasesKept ==
    ASSUME EngineInv, MatchInv, [Next]_vars, OutboxSends,
           progress.pc = "release" => HasMessage(Head(progress.releases)),
           progress'.pc = "release"
    PROVE  HasMessage(Head(progress.releases))'
<1>1. CASE UNCHANGED progress
  <2> DEFINE r == Head(progress.releases)
  <2>1. EngineInv'
    BY NextInv
  <2>2. progress.releases \in Seq(RequestIds) /\ progress.releases # <<>>
    BY <1>1 DEF EngineInv, TypeOK, ProgressTypes, Ownership, ProgressPlaces
  <2>3. r \in ToSet(progress.releases) /\ r \in RequestIds /\ r = Head(progress.releases)'
    BY <1>1, <2>2, TailElements
  <2> HIDE DEF r
  <2>4. r \notin pool /\ r \notin pool'
    BY <1>1, <2>1, <2>3 DEF EngineInv, Ownership, NotFree
  <2>5. Goes(r) /\ HasMessage(r)
    BY <1>1, <2>3, <2>4, RequestChanges DEF New, r
  <2> QED
    BY <2>3, <2>5, MessageKept DEF HasMessage
<1>2. CASE matcher_progress
  <2> DEFINE match == FirstMatch(Envelopes, received_header_queue)
             r == posted_request_queue[match[1]]
             h == received_header_queue[match[2]]
  <2>1. ~NoMatch /\ progress.pc = "recv"
    BY <1>2 DEF matcher_progress, Progress
  <2>2. request' = [request EXCEPT ![r].message = h] /\ progress'.releases = <<r>>
    BY <1>2, <2>1 DEF matcher_progress, handle_match, Progress
  <2>3. r \in Posted /\ h \in ToSet(received_header_queue)
    BY <2>1, TakenFirst
  <2> HIDE DEF match, r, h
  <2>4. /\ r \in RequestIds /\ r \notin pool /\ request[r] \in LiveRequests
        /\ request \in [RequestIds -> LiveRequests \cup {Unused}] /\ h \in Messages
    BY <2>3, QueueFacts, ElementsType
    DEF EngineInv, TypeOK, RequestTypes, QueueTypes, Ownership, NotFree, Completed, Posted
  <2>5. request'[r] = [request[r] EXCEPT !.message = h] /\ Head(progress'.releases) = r
    BY <2>2, <2>4
  <2>6. request'[r].message = h /\ h # NoMessage
    BY <2>4, <2>5 DEF LiveRequests, Messages, NoMessage
  <2> QED
    BY <2>5, <2>6 DEF HasMessage
<1>3. CASE handle_request
  <2>1. outbox # <<>> /\ progress'.releases = <<Head(outbox)>> /\ UNCHANGED request
    BY <1>3 DEF handle_request, Progress, Idle, requestVars
  <2>2. Head(outbox) \in ToSet(outbox)
    BY <2>1, TailElements DEF EngineInv, TypeOK, QueueTypes
  <2> QED
    BY <2>1, <2>2 DEF OutboxSends, HasMessage
<1>4. CASE ProgressStep
  <2>1. \/ matcher_progress \/ handle_request
    BY <1>4 DEF ProgressStep, ordered_recv, post_header, Release, Unlock, halt, queue_header,
       Progress, Idle, EngineInv, TypeOK, ProgressTypes
  <2> QED
    BY <2>1, <1>2, <1>3
<1>5. CASE UserCalls
  <2>1. UNCHANGED progress
    BY <1>5 DEF UserCalls, MPI_Irecv, MPI_Isend, Call, UserWaits, MPI_Wait, MPI_Waitall,
       MPIX_Checkpoint_write, MPIX_Checkpoint_read
  <2> QED
    BY <2>1, <1>1
<1>6. CASE UserStep \/ HandlerStep
  <2>1. ASSUME NEW f \in Frames, FrameStep(f) PROVE UNCHANGED progress
    BY <2>1 DEF FrameStep, MPI_Start, lock_queue, post_request, lock_request, test_complete,
       wake_up, finalize_request, MPI_Request_free
  <2>2. UNCHANGED progress
    BY <1>6, <2>1 DEF UserStep, HandlerStep, WaitsOn, HandlerWaits, MPI_Wait, Frames
  <2> QED
    BY <2>2, <1>1
<1>7. CASE setErr \/ Environment \/ UNCHANGED vars
  <2>1. UNCHANGED progress
    BY <1>7 DEF setErr, Environment, PeerCheckpoint, PeerSends, RaiseSignal, vars
  <2> QED
    BY <2>1, <1>1
<1> QED
  BY <1>4, <1>5, <1>6, <1>7 DEF Next

\* Without a failure no cleanup message is sent.
LEMMA NoCleanupKept ==
    ASSUME CleanupTag \notin Tags, EngineInv, MatchInv, [Next]_vars, NoCleanup,
           pc'["handler"] = "idle"
    PROVE  NoCleanup'
<1>1. \A r \in RequestIds \ pool' : request'[r].tag # CleanupTag
  BY RequestChanges DEF NoCleanup, New, Goes
<1>2. /\ \A h \in ToSet(socket) : h.tag # CleanupTag
      /\ InHand => progress.header.tag # CleanupTag /\ ~Halting
      /\ socket \in Seq(Messages)
  BY QueueFacts DEF NoCleanup
<1>3. CASE UNCHANGED <<socket, progress>>
  BY <1>1, <1>2, <1>3 DEF NoCleanup, InHand, Halting
<1>4. CASE ProgressStep
  <2>1. CASE ordered_recv
    <3>1. /\ progress'.header = Head(socket) /\ progress'.pc = "header"
          /\ socket' = Tail(socket) /\ socket # <<>>
      BY <2>1 DEF ordered_recv, Progress
    <3>2. Head(socket) \in ToSet(socket) /\ ToSet(socket') \subseteq ToSet(socket)
      BY <3>1, <1>2, TailElements
    <3> QED
      BY <1>1, <1>2, <3>1, <3>2 DEF NoCleanup, InHand, Halting
  <2>2. CASE post_header
    BY <1>1, <1>2, <2>2 DEF NoCleanup, post_header, Progress, InHand, Halting
  <2>3. CASE Release
    <3>1. progress.pc = "release" /\ progress'.pc = "unlock"
      BY <1>2, <2>3 DEF Release, InHand, Halting, EngineInv, TypeOK, ProgressTypes
    <3> QED
      BY <1>1, <1>2, <2>3, <3>1 DEF NoCleanup, Release, InHand, Halting
  <2>4. CASE Unlock \/ halt \/ queue_header
    <3>1. progress'.pc = "recv" /\ UNCHANGED socket
      BY <1>2, <2>4 DEF Unlock, halt, queue_header, InHand, Halting, Idle
    <3> QED
      BY <1>1, <1>2, <3>1 DEF NoCleanup, InHand, Halting
  <2>5. CASE matcher_progress
    <3>1. progress'.pc \in {"outbox", "raised", "release"} /\ UNCHANGED socket
      BY <2>5 DEF matcher_progress, handle_match, Progress
    <3> QED
      BY <1>1, <1>2, <3>1 DEF NoCleanup, InHand, Halting
  <2>6. CASE handle_request
    <3>1. progress'.pc \in {"recv", "release"}
      BY <2>6 DEF handle_request, Progress, Idle
    <3>2. UNCHANGED socket
      <4>1. CASE outbox = <<>>
        BY <4>1, <2>6 DEF handle_request
      <4>2. CASE outbox # <<>>
        <5>1. Head(outbox) \in RequestIds \ pool
          BY <4>2, TailElements DEF EngineInv, TypeOK, QueueTypes, Ownership, NotFree
        <5> QED
          BY <4>2, <5>1, <2>6 DEF handle_request, handle_send, NoCleanup
      <4> QED
        BY <4>1, <4>2
    <3> QED
      BY <1>1, <1>2, <3>1, <3>2 DEF NoCleanup, InHand, Halting
  <2> QED
    BY <1>4, <2>1, <2>2, <2>3, <2>4, <2>5, <2>6 DEF ProgressStep
<1>5. CASE Environment
  <2>1. CASE \E p \in Peers, tag \in Tags : PeerSends(p, tag)
    <3>1. PICK p \in Peers, tag \in Tags : PeerSends(p, tag)
      BY <2>1
    <3> DEFINE m == [source |-> p, tag |-> tag, epoch |-> peer_epoch[p],
                     context |-> WorldContext, number |-> sent + 1]
    <3>2. socket' = Append(socket, m) /\ UNCHANGED progress /\ sent < MaxMessages
      BY <3>1 DEF PeerSends
    <3>3. m.tag # CleanupTag /\ m \in Messages
      <4>1. sent + 1 \in 0..MaxMessages /\ peer_epoch[p] \in 0..MaxEpoch
        BY <3>2, EngineAssumption DEF EngineInv, TypeOK, CountTypes
      <4> QED
        BY <4>1 DEF Messages
    <3> HIDE DEF m
    <3>4. ToSet(socket') = ToSet(socket) \cup {m}
      BY <1>2, <3>2, <3>3, AppendElements
    <3> QED
      BY <1>1, <1>2, <3>2, <3>3, <3>4 DEF NoCleanup, InHand, Halting
  <2>2. CASE RaiseSignal \/ \E p \in Peers : PeerCheckpoint(p)
    BY <2>2, <1>3 DEF RaiseSignal, PeerCheckpoint
  <2> QED
    BY <1>5, <2>1, <2>2 DEF Environment
<1>6. CASE UserCalls
  <2>1. UNCHANGED <<socket, progress>>
    BY <1>6 DEF UserCalls, MPI_Irecv, MPI_Isend, Call, UserWaits, MPI_Wait, MPI_Waitall,
       MPIX_Checkpoint_write, MPIX_Checkpoint_read
  <2> QED
    BY <2>1, <1>3
<1>7. CASE UserStep \/ HandlerStep
  <2>1. ASSUME NEW f \in Frames, FrameStep(f) PROVE UNCHANGED <<socket, progress>>
    BY <2>1 DEF FrameStep, MPI_Start, lock_queue, post_request, lock_request, test_complete,
       wake_up, finalize_request, MPI_Request_free
  <2>2. UNCHANGED <<socket, progress>>
    BY <1>7, <2>1 DEF UserStep, HandlerStep, WaitsOn, HandlerWaits, MPI_Wait, Frames
  <2> QED
    BY <2>2, <1>3
<1>8. CASE setErr \/ UNCHANGED vars
  BY <1>8, <1>3 DEF setErr, vars
<1> QED
  BY <1>4, <1>5, <1>6, <1>7, <1>8 DEF Next

\* The user comes to the end of a call by finalize_request only.
LEMMA ComesToFree ==
    ASSUME EngineInv, [Next]_vars, pc'["user"] = "free"
    PROVE  \/ pc["user"] = "free" /\ current'["user"] = current["user"]
           \/ finalize_request("user")
<1>1. pc \in [Frames -> Places] /\ current \in [Frames -> RequestIds \cup {NoRequest}]
  BY DEF EngineInv, TypeOK, FrameTypes
<1>2. \A f \in Frames : f \in {"user", "handler"}
  BY DEF Frames
<1>3. ~Fails
  BY <1>1 DEF Fails, Frames
<1>4. CASE UserCalls
  <2>1. CASE MPI_Irecv \/ MPI_Isend
    <3>1. PICK operation, envelope : Call(operation, envelope)
      BY <2>1 DEF MPI_Irecv, MPI_Isend
    <3> QED
      BY <3>1, <1>1, <1>3 DEF Call, construct_request, Goto, Frames
  <2>2. CASE UserWaits
    BY <2>2, <1>1, <1>3 DEF UserWaits, MPI_Wait, Goto, Frames
  <2>3. CASE MPI_Waitall \/ MPIX_Checkpoint_write
    BY <2>3, <1>1, <1>3 DEF MPI_Waitall, MPIX_Checkpoint_write, frameVars
  <2>4. CASE MPIX_Checkpoint_read
    BY <2>4, <1>1 DEF MPIX_Checkpoint_read, Goto, Frames
  <2> QED
    BY <1>4, <2>1, <2>2, <2>3, <2>4 DEF UserCalls
<1>5. ASSUME FrameStep("user") PROVE finalize_request("user")
  BY <1>1, <1>3, <1>5
  DEF FrameStep, MPI_Start, lock_queue, post_request, lock_request, test_complete, wake_up,
      MPI_Request_free, Goto, Frames
<1>6. ASSUME FrameStep("handler")
      PROVE  pc["user"] = "free" /\ current'["user"] = current["user"]
  BY <1>1, <1>3, <1>6
  DEF FrameStep, MPI_Start, lock_queue, post_request, lock_request, test_complete, wake_up,
      finalize_request, MPI_Request_free, Goto, Frames
<1>7. CASE UserStep
  BY <1>1, <1>3, <1>5, <1>7 DEF UserStep, WaitsOn, MPI_Wait, Goto, Frames
<1>8. CASE HandlerStep
  <2>1. CASE HandlerWaits
    BY <1>1, <1>3, <2>1 DEF HandlerWaits, MPI_Wait, Goto, Frames
  <2> QED
    BY <1>6, <1>8, <2>1 DEF HandlerStep
<1>9. CASE setErr
  BY <1>1, <1>9 DEF setErr, construct_request, Goto, frameVars, Frames
<1>10. CASE ProgressStep \/ Environment \/ UNCHANGED vars
  <2>1. UNCHANGED frameVars
    BY <1>10 DEF ProgressStep, ordered_recv, post_header, Release, Unlock, halt, queue_header,
       matcher_progress, handle_request, Environment, PeerCheckpoint, PeerSends, RaiseSignal, vars
  <2> QED
    BY <2>1 DEF frameVars
<1> QED
  BY <1>4, <1>7, <1>8, <1>9, <1>10 DEF Next

\* The invariant is inductive.
LEMMA DeliveryNext ==
    ASSUME CleanupTag \notin Tags, EngineInv, MatchInv, DeliveryInv, [Next]_vars
    PROVE  DeliveryInv'
<1>1. EngineInv' /\ FrameTypes /\ recoveries \in Nat /\ recoveries' \in Nat
  BY NextInv, EngineAssumption DEF EngineInv, TypeOK, CountTypes
<1>2. OutboxSends'
  BY OutboxKept DEF DeliveryInv
<1>3. progress'.pc = "release" => HasMessage(Head(progress.releases))'
  BY ReleasesKept DEF DeliveryInv
<1>4. ASSUME ~Disturbed'
      PROVE  NoCleanup' /\ \A r \in RequestIds \ pool' : request'[r].complete => HasMessage(r)'
  <2>1. ~Disturbed /\ pc'["handler"] = "idle"
    BY <1>4, DisturbedStays DEF Disturbed, Ongoing
  <2>2. NoCleanup /\ \A r \in RequestIds \ pool : request[r].complete => HasMessage(r)
    BY <2>1 DEF DeliveryInv
  <2>3. NoCleanup'
    BY <2>1, <2>2, NoCleanupKept
  <2>4. ASSUME NEW r \in RequestIds \ pool', request'[r].complete PROVE HasMessage(r)'
    <3>1. Goes(r)
      BY <2>4, RequestChanges DEF New
    <3>2. CASE request[r].complete
      BY <3>1, <3>2, <2>2, MessageKept DEF Goes
    <3>3. CASE progress.pc \in {"halt", "release"} /\ r = Head(progress.releases)
      <4>1. progress.pc = "release"
        BY <3>3, <2>2 DEF NoCleanup, InHand, Halting
      <4>2. HasMessage(r)
        BY <3>3, <4>1 DEF DeliveryInv
      <4> QED
        BY <3>1, <4>2, MessageKept
    <3> QED
      BY <2>4, <3>1, <3>2, <3>3 DEF Goes
  <2> QED
    BY <2>3, <2>4
<1>5. ASSUME ~(recoveries' > 0), pc'["user"] = "free" PROVE HasMessage(current["user"])'
  <2> DEFINE r == current["user"]
  <2>1. ~(recoveries > 0)
    <3>1. CASE MPIX_Checkpoint_read
      BY <1>1, <1>5, <3>1 DEF MPIX_Checkpoint_read
    <3>2. UNCHANGED recoveries \/ MPIX_Checkpoint_read
      <4>1. CASE UserCalls
        BY <4>1 DEF UserCalls, MPI_Irecv, MPI_Isend, Call, UserWaits, MPI_Wait, MPI_Waitall,
           MPIX_Checkpoint_write, faultVars, historyVars
      <4>2. ASSUME NEW f \in Frames, FrameStep(f) PROVE UNCHANGED recoveries
        <5>1. CASE MPI_Request_free(f)
          BY <5>1 DEF MPI_Request_free, historyVars
        <5> QED
          BY <4>2, <5>1 DEF FrameStep, MPI_Start, lock_queue, post_request, lock_request,
             test_complete, wake_up, finalize_request, faultVars, historyVars
      <4>3. CASE UserStep \/ HandlerStep
        BY <4>2, <4>3
        DEF UserStep, HandlerStep, WaitsOn, HandlerWaits, MPI_Wait, Frames, faultVars, historyVars
      <4>4. CASE setErr \/ Environment \/ UNCHANGED vars
        BY <4>4 DEF setErr, Environment, PeerCheckpoint, PeerSends, RaiseSignal, vars,
           faultVars, historyVars
      <4>5. CASE ProgressStep
        BY <4>5 DEF ProgressStep, ordered_recv, post_header, Release, Unlock, halt, queue_header,
           matcher_progress, handle_request, faultVars, historyVars
      <4> QED
        BY <4>1, <4>3, <4>4, <4>5 DEF Next
    <3> QED
      BY <1>1, <1>5, <3>1, <3>2
  <2>2. current'["user"] = r /\ HasMessage(r)
    <3>1. CASE pc["user"] = "free" /\ current'["user"] = current["user"]
      BY <3>1, <2>1 DEF DeliveryInv
    <3>2. CASE finalize_request("user")
      <4>1. pc["user"] = "finalize" /\ pc["handler"] = "idle"
        BY <3>2 DEF finalize_request, At, Running
      <4>2. ~is_errSet /\ current' = current
        BY <1>1, <1>5, <3>2 DEF finalize_request, Fails, FrameTypes, Frames
      <4>3. ~Disturbed
        BY <2>1, <4>1, <4>2 DEF Disturbed, Ongoing
      <4>4. r \in RequestIds \ pool /\ request[r].complete
        BY <4>1 DEF EngineInv, Ownership, FramePlace, Frames, Waiting
      <4> QED
        BY <4>2, <4>3, <4>4 DEF DeliveryInv
    <3> QED
      BY <1>5, <3>1, <3>2, ComesToFree
  <2>3. r \in RequestIds \ pool'
    BY <1>1, <1>5, <2>2 DEF EngineInv, Ownership, FramePlace, Frames, Waiting
  <2>4. r \notin pool
    <3>1. pc["user"] \in {"free", "finalize"}
      BY <1>5, ComesToFree DEF finalize_request, At
    <3> QED
      BY <3>1 DEF EngineInv, Ownership, FramePlace, Frames, Waiting
  <2>5. Goes(r)
    BY <2>3, <2>4, RequestChanges DEF New
  <2> QED
    BY <2>2, <2>5, MessageKept DEF HasMessage
<1> QED
  BY <1>2, <1>3, <1>4, <1>5 DEF DeliveryInv

\* A receive that a failure ended does not pass for a successful one: as long as the
\* application does not use the tag of the cleanup message (MPIX_CLEANUP_TAG is 1), a call
\* that is about to return MPI_SUCCESS has its message, wherever the signal came. After a
\* first recovery this does not hold: a cleanup of the old failure may end new receives.
THEOREM SuccessIsDelivered ==
    ASSUME CleanupTag \notin Tags
    PROVE  Spec => []SuccessHasMessage
<1>1. Init => DeliveryInv
  <2> SUFFICES ASSUME Init PROVE DeliveryInv
    OBVIOUS
  <2>1. /\ outbox = <<>> /\ socket = <<>> /\ progress.pc = "recv" /\ pool = RequestIds
        /\ pc["user"] = "idle"
    BY DEF Init, Idle, Frames
  <2> QED
    BY <2>1, EmptyElements DEF DeliveryInv, OutboxSends, NoCleanup, InHand, Halting, ToSet
<1>2. EngineInv /\ MatchInv /\ DeliveryInv /\ [Next]_vars => DeliveryInv'
  BY DeliveryNext
<1>3. DeliveryInv => SuccessHasMessage
  BY DEF DeliveryInv, SuccessHasMessage, HasMessage
<1> QED
  BY <1>1, <1>2, <1>3, Matching, PTL DEF Spec

(***************************************************************************)
(* Who takes the message of cleanup.                                       *)
(***************************************************************************)

\* A cleanup comes from no peer, and what is posted is one of the application's receives.
CleanupFromSelf == \A h \in Arriving : h.tag = CleanupTag => h.source \notin Peers
ReceivesPosted == \A r \in Posted : request[r].operation = "Receive"
ReceivesRequested ==
    \A r \in RequestIds \ pool : request[r].operation = "Receive" => Requested(request[r])
CleanupInv == CleanupNotReceived /\ CleanupFromSelf /\ ReceivesPosted /\ ReceivesRequested

\* Only the progress thread moves messages, and only a peer adds one besides.
LEMMA OtherSteps ==
    ASSUME [Next]_vars, ~ProgressStep
    PROVE  /\ UNCHANGED <<progress, received_header_queue>>
           /\ UNCHANGED socket \/ \E p \in Peers, tag \in Tags : PeerSends(p, tag)
<1> USE DEF queueVars
<1>1. CASE UserCalls
  BY <1>1 DEF UserCalls, MPI_Irecv, MPI_Isend, Call, UserWaits, MPI_Wait, MPI_Waitall,
     MPIX_Checkpoint_write, MPIX_Checkpoint_read
<1>2. CASE UserStep \/ HandlerStep
  <2>1. ASSUME NEW f \in Frames, FrameStep(f)
        PROVE  UNCHANGED <<progress, received_header_queue, socket>>
    BY <2>1 DEF FrameStep, MPI_Start, lock_queue, post_request, lock_request, test_complete,
       wake_up, finalize_request, MPI_Request_free
  <2> QED
    BY <1>2, <2>1 DEF UserStep, HandlerStep, WaitsOn, HandlerWaits, MPI_Wait, Frames
<1>3. CASE setErr \/ UNCHANGED vars
  BY <1>3 DEF setErr, vars
<1>4. CASE Environment
  BY <1>4 DEF Environment, PeerCheckpoint, PeerSends, RaiseSignal
<1> QED
  BY <1>1, <1>2, <1>3, <1>4 DEF Next

\* What arrives was there before, comes from a peer with a tag of the application, or is a
\* cleanup of this rank.
LEMMA Arrivals ==
    ASSUME EngineInv, MatchInv, [Next]_vars
    PROVE  \A h \in Arriving' : h \in Arriving \/ h.tag \in Tags \/ h.source = Self
<1>1. received_header_queue \in Seq(Messages) /\ socket \in Seq(Messages)
  BY QueueFacts
<1>2. CASE ~ProgressStep
  <2>1. InHand' = InHand /\ UNCHANGED <<received_header_queue, progress>>
    BY <1>2, OtherSteps DEF InHand
  <2>2. CASE UNCHANGED socket
    BY <2>1, <2>2 DEF Arriving
  <2>3. CASE \E p \in Peers, tag \in Tags : PeerSends(p, tag)
    <3>1. PICK p \in Peers, tag \in Tags : PeerSends(p, tag)
      BY <2>3
    <3> DEFINE m == [source |-> p, tag |-> tag, epoch |-> peer_epoch[p],
                     context |-> WorldContext, number |-> sent + 1]
    <3>2. socket' = Append(socket, m) /\ sent < MaxMessages
      BY <3>1 DEF PeerSends
    <3>3. m \in Messages
      <4>1. sent + 1 \in 0..MaxMessages /\ peer_epoch[p] \in 0..MaxEpoch
        BY <3>2, EngineAssumption DEF EngineInv, TypeOK, CountTypes
      <4> QED
        BY <4>1 DEF Messages
    <3>4. m.tag \in Tags
      OBVIOUS
    <3> HIDE DEF m
    <3>5. ToSet(socket') = ToSet(socket) \cup {m}
      BY <1>1, <3>2, <3>3, AppendElements
    <3> QED
      BY <2>1, <3>4, <3>5 DEF Arriving
  <2> QED
    BY <1>2, <2>2, <2>3, OtherSteps
<1>3. CASE ProgressStep
  <2>1. CASE ordered_recv
    <3>1. /\ progress'.header = Head(socket) /\ socket' = Tail(socket) /\ socket # <<>>
          /\ UNCHANGED received_header_queue
      BY <2>1 DEF ordered_recv, Progress, queueVars
    <3>2. Head(socket) \in ToSet(socket) /\ ToSet(socket') \subseteq ToSet(socket)
      BY <1>1, <3>1, TailElements
    <3> QED
      BY <3>1, <3>2 DEF Arriving
  <2>2. CASE post_header \/ halt
    <3>1. /\ InHand /\ progress'.header = progress.header
          /\ UNCHANGED <<received_header_queue, socket>>
      BY <2>2 DEF post_header, halt, Progress, InHand, queueVars
    <3> QED
      BY <3>1 DEF Arriving
  <2>3. CASE Release \/ Unlock
    <3>1. /\ InHand' => InHand /\ progress'.header = progress.header
          /\ UNCHANGED <<received_header_queue, socket>>
      BY <2>3 DEF Release, Unlock, Progress, Idle, InHand, queueVars, EngineInv, TypeOK,
         ProgressTypes
    <3> QED
      BY <3>1 DEF Arriving
  <2>4. CASE queue_header
    <3>1. progress.header \in Messages /\ InHand
      BY <2>4, QueueFacts DEF queue_header, InHand
    <3>2. ToSet(Append(received_header_queue, progress.header))
              = ToSet(received_header_queue) \cup {progress.header}
      BY <1>1, <3>1, AppendElements
    <3>3. /\ ~InHand' /\ UNCHANGED socket
          /\ received_header_queue' \in
                {received_header_queue, Append(received_header_queue, progress.header)}
      BY <2>4 DEF queue_header, Idle, InHand
    <3> QED
      BY <3>1, <3>2, <3>3 DEF Arriving
  <2>5. CASE matcher_progress
    <3>1. ~InHand' /\ UNCHANGED socket /\ progress.pc = "recv"
      BY <2>5 DEF matcher_progress, handle_match, Progress, InHand
    <3>2. ToSet(received_header_queue') \subseteq ToSet(received_header_queue)
      <4>1. CASE NoMatch
        BY <2>5, <4>1 DEF matcher_progress
      <4>2. CASE ~NoMatch
        <5> DEFINE k == FirstMatch(Envelopes, received_header_queue)[2]
        <5>1. received_header_queue' = RemoveAt(received_header_queue, k)
          BY <2>5, <4>2 DEF matcher_progress, TakeMatch
        <5>2. k \in 1..Len(received_header_queue)
          BY <3>1, <4>2, TakenFirst
        <5> HIDE DEF k
        <5> QED
          BY <1>1, <5>1, <5>2, RemoveAtElements
      <4> QED
        BY <4>1, <4>2
    <3> QED
      BY <3>1, <3>2 DEF Arriving
  <2>6. CASE handle_request
    <3>1. ~InHand' /\ UNCHANGED received_header_queue
      BY <2>6 DEF handle_request, Progress, Idle, InHand
    <3> DEFINE r == Head(outbox)
               m == [source |-> Self, tag |-> CleanupTag, number |-> 0,
                     epoch |-> request[r].epoch, context |-> WorldContext]
    <3>2. CASE UNCHANGED socket
      BY <3>1, <3>2 DEF Arriving
    <3>3. CASE socket' # socket
      <4>1. socket' = Append(socket, m) /\ outbox # <<>>
        BY <2>6, <3>3 DEF handle_request, handle_send
      <4>2. r \in RequestIds \ pool
        BY <4>1, TailElements DEF EngineInv, TypeOK, QueueTypes, Ownership, NotFree
      <4>3. request[r] \in LiveRequests
        BY <4>2 DEF EngineInv, Ownership, Completed
      <4>4. m \in Messages /\ m.source = Self
        BY <4>3, EngineAssumption DEF Messages, LiveRequests
      <4> HIDE DEF m
      <4>5. ToSet(socket') = ToSet(socket) \cup {m}
        BY <1>1, <4>1, <4>4, AppendElements
      <4> QED
        BY <3>1, <4>4, <4>5 DEF Arriving
    <3> QED
      BY <3>2, <3>3
  <2> QED
    BY <1>3, <2>1, <2>2, <2>3, <2>4, <2>5, <2>6 DEF ProgressStep
<1> QED
  BY <1>2, <1>3

\* What is posted was posted before, or is the receive of the frame that posts it.
LEMMA PostedKept ==
    ASSUME EngineInv, MatchInv, [Next]_vars, ReceivesPosted
    PROVE  ReceivesPosted'
<1>1. ASSUME NEW r \in Posted'
      PROVE  r \in Posted \/ \E f \in Frames : /\ post_request(f) /\ r = current[f]
                                               /\ request[r].operation = "Receive"
  <2>1. posted_request_queue \in Seq(RequestIds)
    BY DEF EngineInv, TypeOK, QueueTypes
  <2>2. CASE ProgressStep
    <3>1. CASE matcher_progress
      <4>1. CASE NoMatch
        BY <1>1, <3>1, <4>1 DEF matcher_progress, Posted
      <4>2. CASE ~NoMatch
        <5> DEFINE k == FirstMatch(Envelopes, received_header_queue)[1]
        <5>1. /\ posted_request_queue' = RemoveAt(posted_request_queue, k)
              /\ progress.pc = "recv"
          BY <3>1, <4>2 DEF matcher_progress, TakeMatch
        <5>2. k \in 1..Len(posted_request_queue)
          BY <5>1, <4>2, TakenFirst
        <5> HIDE DEF k
        <5>3. ToSet(posted_request_queue') \subseteq ToSet(posted_request_queue)
          BY <2>1, <5>1, <5>2, RemoveAtElements
        <5> QED
          BY <1>1, <5>1, <5>3 DEF Posted
      <4> QED
        BY <4>1, <4>2
    <3>2. CASE halt
      BY <1>1, <3>2, EmptyElements DEF halt, Posted
    <3>3. CASE \/ ordered_recv \/ post_header \/ Release \/ Unlock \/ queue_header
               \/ handle_request
      <4>1. Posted' \subseteq Posted
        BY <3>3 DEF ordered_recv, post_header, Release, Unlock, queue_header, handle_request,
           Progress, Idle, Posted, queueVars, EngineInv, TypeOK, ProgressTypes
      <4> QED
        BY <1>1, <4>1
    <3> QED
      BY <2>2, <3>1, <3>2, <3>3 DEF ProgressStep
  <2>3. CASE ~ProgressStep
    <3>1. UNCHANGED progress
      BY <2>3, OtherSteps
    <3>2. CASE UNCHANGED posted_request_queue
      BY <1>1, <3>1, <3>2 DEF Posted
    <3>3. CASE \E f \in Frames : post_request(f)
      <4>1. PICK f \in Frames : post_request(f)
        BY <3>3
      <4>2. CASE request[current[f]].operation # "Receive"
        BY <3>2, <4>1, <4>2 DEF post_request
      <4>3. CASE request[current[f]].operation = "Receive"
        <5>1. posted_request_queue' = Append(posted_request_queue, current[f])
          BY <4>1, <4>3 DEF post_request
        <5>2. current[f] \in RequestIds
          BY <4>1, FrameRuns DEF post_request, At
        <5>3. ToSet(posted_request_queue') = ToSet(posted_request_queue) \cup {current[f]}
          BY <2>1, <5>1, <5>2, AppendElements
        <5> QED
          BY <1>1, <3>1, <4>1, <4>3, <5>3 DEF Posted
      <4> QED
        BY <4>2, <4>3
    <3>4. \/ UNCHANGED posted_request_queue
          \/ \E f \in Frames : post_request(f)
      <4> USE DEF queueVars
      <4>1. CASE UserCalls
        BY <4>1 DEF UserCalls, MPI_Irecv, MPI_Isend, Call, UserWaits, MPI_Wait, MPI_Waitall,
           MPIX_Checkpoint_write, MPIX_Checkpoint_read
      <4>2. ASSUME NEW f \in Frames, FrameStep(f)
            PROVE  UNCHANGED posted_request_queue \/ post_request(f)
        BY <4>2 DEF FrameStep, MPI_Start, lock_queue, lock_request, test_complete, wake_up,
           finalize_request, MPI_Request_free
      <4>3. CASE UserStep \/ HandlerStep
        BY <4>2, <4>3 DEF UserStep, HandlerStep, WaitsOn, HandlerWaits, MPI_Wait, Frames
      <4>4. CASE setErr \/ Environment \/ UNCHANGED vars
        BY <4>4 DEF setErr, Environment, PeerCheckpoint, PeerSends, RaiseSignal, vars
      <4> QED
        BY <2>3, <4>1, <4>3, <4>4 DEF Next
    <3> QED
      BY <3>2, <3>3, <3>4
  <2> QED
    BY <2>2, <2>3
<1>2. ASSUME NEW r \in Posted', r \in Posted PROVE request'[r].operation = "Receive"
  <2>1. r \in RequestIds \ pool'
    BY <1>2, NextInv, ElementsType
    DEF EngineInv, TypeOK, QueueTypes, Ownership, NotFree, Posted
  <2>2. r \notin pool
    BY <1>2 DEF EngineInv, Ownership, NotFree
  <2> QED
    BY <1>2, <2>1, <2>2, RequestChanges DEF New, Goes, ReceivesPosted
<1>3. ASSUME NEW f \in Frames, post_request(f) PROVE UNCHANGED request
  BY <1>3 DEF post_request
<1> QED
  BY <1>1, <1>2, <1>3 DEF ReceivesPosted

\* A receive whose source or tag the application has named fits no cleanup.
LEMMA CleanupNext ==
    ASSUME CleanupTag \notin Tags,
           \A e \in Receives : e.source \in Peers \/ e.tag \in Tags,
           EngineInv, MatchInv, [Next]_vars, CleanupInv
    PROVE  CleanupInv'
<1>1. CleanupFromSelf'
  BY Arrivals, EngineAssumption DEF CleanupInv, CleanupFromSelf
<1>2. ReceivesPosted'
  BY PostedKept DEF CleanupInv
<1>3. ReceivesRequested'
  <2> SUFFICES ASSUME NEW r \in RequestIds \ pool', request'[r].operation = "Receive"
               PROVE  Requested(request'[r])
    BY DEF ReceivesRequested
  <2>1. CASE New(r)
    BY <2>1 DEF New
  <2>2. CASE Goes(r)
    BY <2>2 DEF Goes, CleanupInv, ReceivesRequested, Requested
  <2> QED
    BY <2>1, <2>2, RequestChanges
<1>4. CleanupNotReceived'
  <2>1. CASE ~matcher_progress
    <3>1. CASE ProgressStep
      BY <2>1, <3>1 DEF ProgressStep, ordered_recv, post_header, Release, Unlock, halt,
         queue_header, handle_request, Progress, Idle, CleanupInv, CleanupNotReceived,
         EngineInv, TypeOK, ProgressTypes
    <3> QED
      BY <3>1, OtherSteps DEF CleanupInv, CleanupNotReceived
  <2>2. CASE matcher_progress
    <3> DEFINE match == FirstMatch(Envelopes, received_header_queue)
               r == posted_request_queue[match[1]]
               h == received_header_queue[match[2]]
    <3>1. CASE NoMatch
      BY <2>2, <3>1 DEF matcher_progress, Progress, CleanupNotReceived
    <3>2. CASE ~NoMatch
      <4>1. /\ r \in Posted /\ h \in ToSet(received_header_queue) /\ Matches(request[r], h)
            /\ handle_match(r, h)
        BY <2>2, <3>2, TakenFirst DEF matcher_progress
      <4> HIDE DEF match, r, h
      <4>2. r \in RequestIds \ pool
        BY <4>1, ElementsType DEF EngineInv, TypeOK, QueueTypes, Ownership, NotFree, Posted
      <4>3. [source |-> request[r].source, tag |-> request[r].tag] \in Receives
        BY <4>1, <4>2 DEF CleanupInv, ReceivesPosted, ReceivesRequested, Requested
      <4>4. request[r].source \in Peers \/ request[r].tag \in Tags
        BY <4>3
      <4>5. h.tag # CleanupTag
        BY <4>1, <4>4, EngineAssumption
        DEF Matches, CleanupInv, CleanupFromSelf, Arriving
      <4> QED
        BY <4>1, <4>5 DEF handle_match, Progress, CleanupNotReceived
    <3> QED
      BY <3>1, <3>2
  <2> QED
    BY <2>1, <2>2
<1> QED
  BY <1>1, <1>2, <1>3, <1>4 DEF CleanupInv

\* Nobody follows the null pointer of the cleanup message: if the application keeps off the
\* cleanup's tag, and each of its receives names a rank or a tag, no receive ever takes that
\* message, which may stay queued through any number of recoveries (UDPTransport::fill).
THEOREM CleanupStaysQueued ==
    ASSUME CleanupTag \notin Tags,
           \A e \in Receives : e.source \in Peers \/ e.tag \in Tags
    PROVE  Spec => []CleanupNotReceived
<1>1. Init => CleanupInv
  <2> SUFFICES ASSUME Init PROVE CleanupInv
    OBVIOUS
  <2>1. /\ posted_request_queue = <<>> /\ received_header_queue = <<>> /\ socket = <<>>
        /\ progress.pc = "recv" /\ pool = RequestIds
    BY DEF Init, Idle
  <2> QED
    BY <2>1, EmptyElements
    DEF CleanupInv, CleanupNotReceived, CleanupFromSelf, ReceivesPosted, ReceivesRequested,
        Arriving, InHand, Posted
<1>2. EngineInv /\ MatchInv /\ CleanupInv /\ [Next]_vars => CleanupInv'
  BY CleanupNext
<1>3. CleanupInv => CleanupNotReceived
  BY DEF CleanupInv
<1> QED
  BY <1>1, <1>2, <1>3, Matching, PTL DEF Spec
================================================================================
