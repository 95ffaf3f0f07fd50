-------------------------------- MODULE DataProofs --------------------------------
(***************************************************************************)
(* Theorems about the data that calls on MPI_COMM_WORLD move: a broadcast, *)
(* a shift and a message deliver the operand of their sender, on every     *)
(* number of ranks and through failures.                                   *)
(***************************************************************************)
EXTENDS CallProofs

(***************************************************************************)
(* Values. In a call that moves data a rank sends what it began with, and  *)
(* its receive, if it has one, is its last step.                           *)
(***************************************************************************)
Moves(call) ==
    \/ call.name \in {"MPI_Bcast", "MPI_Sendrecv"}
    \/ call.name = "Message" /\ call.mode \in SendOperations

\* The rank whose operand the rest of a schedule brings.
Origin(p, r) == IF p # <<>> /\ p[Len(p)].operation = "Receive" THEN p[Len(p)].peer ELSE r
Carries(p, call, r) ==
    /\ \A i \in DOMAIN p : /\ p[i].variable = "buffer" /\ p[i].operation # "Reduce"
                           /\ p[i].operation = "Receive" => i = Len(p)
    /\ HasResult(r, call) => Result(r, call) = call.operands[Origin(p, r)]

LEMMA CarriesBcast ==
    ASSUME WorldCalls, Shape, NEW r \in Ranks, NEW j \in DOMAIN calls,
           calls[j].name = "MPI_Bcast"
    PROVE  Carries(Plan(r, j), calls[j], r)
<1> SUFFICES ASSUME NEW call, call = calls[j], NEW p, p = Plan(r, j), NEW me,
                    me = World(world_size, r), NEW others, others = Others(world_size, call.root)
             PROVE  Carries(p, call, r)
  OBVIOUS
<1>1. p \in Seq(Steps(world_size))
  BY PlanFacts
<1>2. me.rank = r /\ me.size = world_size
  BY DEF World
<1>3. p = MPI_Bcast(me, call.root, "buffer")
  BY DEF Plan, WorldPlan, Schedule
<1>4. Result(r, call) = call.operands[call.root]
  BY DEF Result
<1>5. CASE r = call.root
  <2>1. p = [i \in DOMAIN others |-> Send(others[i], me, "buffer")]
    BY <1>2, <1>3, <1>5 DEF MPI_Bcast
  <2>2. \A i \in DOMAIN p : p[i].variable = "buffer" /\ p[i].operation = "Send"
    BY <2>1 DEF Send, Operation
  <2>3. p # <<>> => Len(p) \in DOMAIN p
    BY <1>1
  <2>4. Origin(p, r) = r
    BY <2>2, <2>3 DEF Origin
  <2> QED
    BY <1>4, <1>5, <2>2, <2>4 DEF Carries
<1>6. CASE r # call.root
  <2>1. p = <<Recv(call.root, me, "buffer")>>
    BY <1>2, <1>3, <1>6 DEF MPI_Bcast
  <2>2. /\ DOMAIN p = {1} /\ Len(p) = 1 /\ p # <<>> /\ p[1].variable = "buffer"
        /\ p[1].operation = "Receive" /\ p[1].peer = call.root
    BY <2>1 DEF Recv, Operation
  <2> QED
    BY <1>4, <2>2 DEF Carries, Origin
<1> QED
  BY <1>5, <1>6

LEMMA CarriesSendrecv ==
    ASSUME WorldCalls, Shape, NEW r \in Ranks, NEW j \in DOMAIN calls,
           calls[j].name = "MPI_Sendrecv"
    PROVE  Carries(Plan(r, j), calls[j], r)
<1> SUFFICES ASSUME NEW call, call = calls[j], NEW p, p = Plan(r, j), NEW me,
                    me = World(world_size, r)
             PROVE  Carries(p, call, r)
  OBVIOUS
<1>1. me.rank = r /\ me.size = world_size
  BY DEF World
<1>2. p = <<Send(Right(me), me, "buffer"), Recv(Left(me), me, "buffer")>>
  BY DEF Plan, WorldPlan, Schedule, MPI_Sendrecv
<1>3. PICK left : left = Left(me)
  OBVIOUS
<1>4. Result(r, call) = call.operands[left]
  BY <1>1, <1>3 DEF Result, Left
<1>5. /\ DOMAIN p = {1, 2} /\ Len(p) = 2 /\ p # <<>>
      /\ p[1].variable = "buffer" /\ p[1].operation = "Send"
      /\ p[2].variable = "buffer" /\ p[2].operation = "Receive" /\ p[2].peer = left
  BY <1>2, <1>3 DEF Send, Recv, Operation
<1> QED
  BY <1>4, <1>5 DEF Carries, Origin

LEMMA CarriesMessage ==
    ASSUME WorldCalls, Shape, NEW r \in Ranks, NEW j \in DOMAIN calls,
           calls[j].name = "Message", calls[j].mode \in SendOperations
    PROVE  Carries(Plan(r, j), calls[j], r)
<1> SUFFICES ASSUME NEW call, call = calls[j], NEW p, p = Plan(r, j), NEW me,
                    me = World(world_size, r)
             PROVE  Carries(p, call, r)
  OBVIOUS
<1>1. PICK a, b : a = Operation(call.mode, call.to, me, "buffer") /\ b = Recv(call.from, me, "buffer")
  OBVIOUS
<1>2. p = (IF r = call.from THEN <<a>> ELSE <<>>) \o (IF r = call.to THEN <<b>> ELSE <<>>)
  BY <1>1 DEF Plan, WorldPlan, Schedule, Message, World
<1>3. /\ a.variable = "buffer" /\ a.operation \notin {"Receive", "Reduce"}
      /\ b.variable = "buffer" /\ b.operation = "Receive" /\ b.peer = call.from
  BY <1>1 DEF Recv, Operation, SendOperations
<1>4. /\ HasResult(r, call) => r = call.to
      /\ Result(r, call) = call.operands[call.from]
  BY DEF HasResult, Result
<1>5. CASE r = call.from /\ r = call.to
  <2>1. p = <<a>> \o <<b>>
    BY <1>2, <1>5
  <2>2. DOMAIN p = {1, 2} /\ Len(p) = 2 /\ p # <<>> /\ p[1] = a /\ p[2] = b
    <3>1. <<a>> \in Seq({a, b}) /\ <<b>> \in Seq({a, b})
      OBVIOUS
    <3> QED
      BY <2>1, <3>1
  <2> QED
    BY <1>3, <1>4, <2>2 DEF Carries, Origin
<1>6. CASE r = call.from /\ r # call.to
  <2>1. p = <<a>>
    BY <1>2, <1>6
  <2>2. DOMAIN p = {1} /\ Len(p) = 1 /\ p # <<>> /\ p[1] = a
    BY <2>1
  <2> QED
    BY <1>3, <1>4, <1>6, <2>2 DEF Carries, Origin
<1>7. CASE r # call.from /\ r = call.to
  <2>1. p = <<b>>
    BY <1>2, <1>7
  <2>2. DOMAIN p = {1} /\ Len(p) = 1 /\ p # <<>> /\ p[1] = b
    BY <2>1
  <2> QED
    BY <1>3, <1>4, <1>7, <2>2 DEF Carries, Origin
<1>8. CASE r # call.from /\ r # call.to
  <2>1. p = <<>>
    BY <1>2, <1>8
  <2> QED
    BY <1>4, <1>8, <2>1 DEF Carries
<1> QED
  BY <1>5, <1>6, <1>7, <1>8

LEMMA CarriesPlan ==
    ASSUME WorldCalls, Shape, NEW r \in Ranks, NEW j \in DOMAIN calls, Moves(calls[j])
    PROVE  Carries(Plan(r, j), calls[j], r)
BY CarriesBcast, CarriesSendrecv, CarriesMessage DEF Moves

\* The rest of a schedule after a send, and after the receive.
LEMMA CarriesRest ==
    ASSUME NEW n, NEW p \in Seq(Steps(n)), p # <<>>, NEW call, NEW r, Carries(p, call, r)
    PROVE  /\ Head(p).variable = "buffer" /\ Head(p).operation # "Reduce"
           /\ Head(p).operation \in SendOperations => Carries(Tail(p), call, r)
           /\ Head(p).operation \in Receives =>
                 /\ Tail(p) = <<>>
                 /\ HasResult(r, call) => Result(r, call) = call.operands[Head(p).peer]
<1> DEFINE t == Tail(p)
           m == Len(p) - 1
<1>1. /\ m \in Nat /\ Len(p) = m + 1 /\ Head(p) = p[1] /\ DOMAIN p = 1..(m + 1)
      /\ t \in Seq(Steps(n)) /\ Len(t) = m /\ DOMAIN t = 1..m
      /\ \A i \in 1..m : t[i] = p[i + 1]
  OBVIOUS
<1> HIDE DEF t, m
<1>2. Head(p).variable = "buffer" /\ Head(p).operation # "Reduce"
  BY <1>1 DEF Carries
<1>3. ASSUME Head(p).operation \in SendOperations PROVE Carries(t, call, r)
  <2>1. p[1].operation # "Receive"
    BY <1>1, <1>3 DEF SendOperations
  <2>2. \A i \in DOMAIN t : /\ t[i].variable = "buffer" /\ t[i].operation # "Reduce"
                            /\ t[i].operation = "Receive" => i = Len(t)
    BY <1>1 DEF Carries
  <2>3. Origin(t, r) = Origin(p, r)
    <3>1. CASE m = 0
      <4>1. t = <<>>
        BY <1>1, <3>1
      <4> QED
        BY <1>1, <2>1, <3>1, <4>1 DEF Origin
    <3>2. CASE m # 0
      <4>1. t # <<>> /\ t[Len(t)] = p[Len(p)]
        BY <1>1, <3>2
      <4> QED
        BY <4>1 DEF Origin
    <3> QED
      BY <3>1, <3>2
  <2> QED
    BY <2>2, <2>3 DEF Carries
<1>4. ASSUME Head(p).operation \in Receives
      PROVE  /\ t = <<>>
             /\ HasResult(r, call) => Result(r, call) = call.operands[Head(p).peer]
  <2>1. p[1].operation = "Receive"
    BY <1>1, <1>2, <1>4 DEF Receives
  <2>2. Len(p) = 1
    BY <1>1, <2>1 DEF Carries
  <2>3. Origin(p, r) = Head(p).peer
    BY <1>1, <2>1, <2>2 DEF Origin
  <2> QED
    BY <1>1, <2>2, <2>3 DEF Carries
<1> QED
  BY <1>2, <1>3, <1>4 DEF t

(***************************************************************************)
(* The invariant: what a rank holds in its call, and what the messages of  *)
(* a call carry from where they are sent to where they are taken.          *)
(***************************************************************************)
Begun(r, call) ==
    /\ "buffer" \in DOMAIN memory[r] /\ memory[r].buffer = call.operands[r]
    /\ Carries(plan[r], call, r)
Ended(r, call) ==
    plan[r] = <<>> /\ (HasResult(r, call) => memory[r].buffer = Result(r, call))
Brought(r, call) == Moves(call) /\ HasResult(r, call) => memory[r].buffer = Result(r, call)
RankData(r) ==
    ~Stopped(r) =>
        IF busy[r] THEN Moves(Call(r)) => Begun(r, Call(r)) \/ Ended(r, Call(r))
        ELSE memory[r] # NoVariables /\ count[r] > 0 => Brought(r, calls[count[r]])

Told(h, payload) ==
    h.tag = 0 /\ Moves(calls[h.call]) => payload = calls[h.call].operands[h.source]
QueueData(r) ==
    \A h \in WithPayload(r) :
        /\ payload_buffer[r][h] \in DOMAIN payloads[r]
        /\ Told(headers[r][h], payloads[r][payload_buffer[r][h]])
WireData(s, r) ==
    \A i \in DOMAIN network[<<s, r>>] :
        Told(network[<<s, r>>][i].header, network[<<s, r>>][i].payload)
MessagesData == \A r \in Ranks : QueueData(r) /\ \A s \in Ranks : WireData(s, r)
DataInv ==
    /\ DOMAIN payloads = Ranks /\ DOMAIN memory = Ranks
    /\ ~disturbed => MessagesData /\ \A r \in Ranks : RankData(r)

LEMMA DataStart == Init => DataInv
<1> SUFFICES ASSUME Init PROVE DataInv
  OBVIOUS
<1>1. /\ payloads = [r \in Ranks |-> NoMemory] /\ count = [r \in Ranks |-> 0]
      /\ received_header_queue = [r \in Ranks |-> <<>>] /\ busy = [r \in Ranks |-> FALSE]
      /\ network = [pair \in Ranks \X Ranks |-> <<>>]
      /\ memory = [r \in Ranks |-> NoVariables]
  BY DEF Init, TransportInit
<1>2. ASSUME NEW r \in Ranks PROVE RankData(r)
  BY <1>1 DEF RankData
<1>3. ASSUME NEW r \in Ranks PROVE QueueData(r)
  <2>1. WithPayload(r) = {}
    BY <1>1, NewTransportGood DEF WithPayload
  <2> QED
    BY <2>1 DEF QueueData
<1>4. ASSUME NEW r \in Ranks, NEW s \in Ranks PROVE WireData(s, r)
  BY <1>1 DEF WireData
<1> QED
  BY <1>1, <1>2, <1>3, <1>4 DEF DataInv, MessagesData

(***************************************************************************)
(* What a step leaves as it is.                                            *)
(***************************************************************************)
LEMMA WorldDataKept ==
    ASSUME Rigid
    PROVE  /\ \A r, call : HasResult(r, call)' = HasResult(r, call) /\ Result(r, call)' = Result(r, call)
           /\ \A p, call, r : Carries(p, call, r)' = Carries(p, call, r)
           /\ \A h, payload : Told(h, payload)' = Told(h, payload)
           /\ \A call : Moves(call)' = Moves(call)
<1>1. ASSUME NEW r, NEW call
      PROVE  HasResult(r, call)' = HasResult(r, call) /\ Result(r, call)' = Result(r, call)
  BY DEF HasResult, Result, Rigid
<1>2. ASSUME NEW call PROVE Moves(call)' = Moves(call)
  BY DEF Moves
<1>3. ASSUME NEW h, NEW payload PROVE Told(h, payload)' = Told(h, payload)
  BY <1>2 DEF Told, Moves, Rigid
<1>4. ASSUME NEW p, NEW call, NEW r PROVE Carries(p, call, r)' = Carries(p, call, r)
  BY <1>1 DEF Carries, Origin
<1> QED
  BY <1>1, <1>2, <1>3, <1>4

LEMMA RankDataKept ==
    ASSUME Rigid, NEW r, CountsSame(r), memory'[r] = memory[r], RankData(r),
           ~Stopped(r)' => ~Stopped(r)
    PROVE  RankData(r)'
<1>1. Call(r)' = Call(r) /\ calls'[count'[r]] = calls[count[r]]
  BY DEF Call, CountsSame, Rigid
<1>2. ASSUME NEW call
      PROVE  /\ Begun(r, call)' = Begun(r, call) /\ Ended(r, call)' = Ended(r, call)
             /\ Brought(r, call)' = Brought(r, call) /\ Moves(call)' = Moves(call)
  BY WorldDataKept DEF Begun, Ended, Brought, CountsSame
<1> QED
  BY <1>1, <1>2 DEF RankData, CountsSame, NoVariables

LEMMA QueueDataKept ==
    ASSUME Rigid, NEW r, QueueData(r),
           received_header_queue'[r] = received_header_queue[r], headers'[r] = headers[r],
           payloads'[r] = payloads[r], payload_buffer'[r] = payload_buffer[r]
    PROVE  QueueData(r)'
<1>1. WithPayload(r)' = WithPayload(r)
  BY DEF WithPayload, MPIX_CLEANUP_TAG
<1> QED
  BY <1>1, WorldDataKept DEF QueueData

LEMMA WireDataKept ==
    ASSUME Rigid, NEW s, NEW r, WireData(s, r), network'[<<s, r>>] = network[<<s, r>>]
    PROVE  WireData(s, r)'
BY WorldDataKept DEF WireData

\* A step of one rank that moves no message.
LEMMA MessagesKept ==
    ASSUME Rigid, MessagesData, UNCHANGED <<received_header_queue, network, poolVars>>
    PROVE  MessagesData'
<1>1. Ranks' = Ranks
  BY DEF Rigid, Ranks
<1>2. ASSUME NEW r \in Ranks, NEW s \in Ranks PROVE QueueData(r)' /\ WireData(s, r)'
  BY QueueDataKept, WireDataKept DEF MessagesData, poolVars
<1> QED
  BY <1>1, <1>2 DEF MessagesData

\* A step of one rank, in which the others keep their variables.
LEMMA OthersHold ==
    ASSUME Rigid, NEW r \in Ranks, \A q \in Ranks : RankData(q), RankData(r)',
           \A q \in Ranks \ {r} : /\ CountsSame(q) /\ memory'[q] = memory[q]
                                  /\ ~Stopped(q)' => ~Stopped(q)
    PROVE  \A q \in Ranks : RankData(q)'
BY RankDataKept

LEMMA BegunNext ==
    ASSUME Rigid, NEW r, NEW call, NEW p, plan'[r] = p, NEW m, memory'[r] = m,
           "buffer" \in DOMAIN m, m.buffer = call.operands[r], Carries(p, call, r)
    PROVE  Begun(r, call)'
<1>1. /\ \A i \in DOMAIN p : /\ p[i].variable = "buffer" /\ p[i].operation # "Reduce"
                             /\ p[i].operation = "Receive" => i = Len(p)
      /\ HasResult(r, call)' => Result(r, call)' = call.operands[Origin(p, r)]
  BY WorldDataKept DEF Carries
<1> QED
  BY <1>1 DEF Begun, Carries, Origin

\* A rank enters a call with its own operand.
LEMMA EnterData ==
    ASSUME WorldCalls, Steady, DataInv, ~disturbed, UNCHANGED world_size, NEW r \in Ranks, Enter(r)
    PROVE  DataInv'
<1> SUFFICES ASSUME NEW c, c = count[r] + 1, NEW call, call = calls[c]
             PROVE  DataInv'
  OBVIOUS
<1>1. /\ ~busy[r] /\ count[r] < Len(calls)
      /\ busy' = [busy EXCEPT ![r] = TRUE]
      /\ plan' = [plan EXCEPT ![r] = PlanOf(r, call)]
      /\ memory' = [memory EXCEPT ![r] = Variables(r, call)]
      /\ UNCHANGED <<calls, count, received_header_queue, faultVars, transportVars>>
  BY DEF Enter, Call
<1>2. Shape /\ RankInv(r)
  BY DEF Steady
<1>3. c \in DOMAIN calls /\ DOMAIN busy = Ranks /\ DOMAIN plan = Ranks
  <2>1. count[r] \in Nat
    BY <1>2 DEF Shape
  <2> QED
    BY <1>1, <1>2, <2>1, WorldFacts DEF Shape
<1>4. Rigid /\ Ranks' = Ranks /\ MessagesData /\ \A q \in Ranks : RankData(q)
  BY <1>1 DEF Rigid, Ranks, DataInv
<1>5. MessagesData'
  BY <1>1, <1>4, MessagesKept DEF transportVars
<1>6. busy'[r] /\ plan'[r] = Plan(r, c) /\ memory'[r] = Variables(r, call)
  BY <1>1, <1>2, <1>3, PlanOfCall DEF DataInv
<1>7. Variables(r, call).buffer = call.operands[r] /\ "buffer" \in DOMAIN Variables(r, call)
  BY DEF Variables
<1>8. ASSUME Moves(call) PROVE Begun(r, call)'
  <2>1. Carries(Plan(r, c), call, r)
    BY <1>2, <1>3, <1>8, CarriesPlan
  <2>2. PICK p, m : p = Plan(r, c) /\ m = Variables(r, call)
    OBVIOUS
  <2> QED
    BY <1>4, <1>6, <1>7, <2>1, <2>2, BegunNext
<1>9. RankData(r)'
  <2>1. Call(r)' = call
    BY <1>1 DEF Call
  <2> QED
    BY <1>4, <1>6, <1>8, <2>1, WorldDataKept DEF RankData
<1>10. ASSUME NEW q \in Ranks \ {r}
       PROVE  /\ CountsSame(q) /\ memory'[q] = memory[q]
              /\ ~Stopped(q)' => ~Stopped(q)
  BY <1>1, <1>3 DEF CountsSame, Stopped, faultVars, DataInv
<1>11. \A q \in Ranks : RankData(q)'
  BY <1>4, <1>9, <1>10, OthersHold
<1> QED
  BY <1>1, <1>4, <1>5, <1>11 DEF DataInv, transportVars, poolVars

\* Its call returns, and leaves the result in the buffer.
LEMMA ReturnData ==
    ASSUME WorldCalls, Steady, DataInv, ~disturbed, UNCHANGED world_size, NEW r \in Ranks, Return(r)
    PROVE  DataInv'
<1> SUFFICES ASSUME NEW c, c = count[r] + 1, NEW call, call = calls[c]
             PROVE  DataInv'
  OBVIOUS
<1>1. /\ busy[r] /\ plan[r] = <<>>
      /\ busy' = [busy EXCEPT ![r] = FALSE] /\ count' = [count EXCEPT ![r] = c]
      /\ UNCHANGED <<calls, plan, memory, received_header_queue, faultVars, transportVars>>
  BY DEF Return, Call
<1>2. Shape /\ RankInv(r) /\ FaultInv
  BY DEF Steady
<1>3. /\ DOMAIN busy = Ranks /\ DOMAIN count = Ranks /\ count[r] \in Nat
  BY <1>2 DEF Shape
<1>4. Rigid /\ Ranks' = Ranks /\ MessagesData /\ \A q \in Ranks : RankData(q)
  BY <1>1 DEF Rigid, Ranks, DataInv
<1>5. MessagesData'
  BY <1>1, <1>4, MessagesKept DEF transportVars
<1>6. ~Stopped(r)
  BY <1>1, <1>2, WorldFacts DEF FaultInv, Stopped
<1>7. Moves(call) => Ended(r, call) \/ Begun(r, call)
  BY <1>1, <1>4, <1>6 DEF RankData, Call
<1>8. ASSUME Moves(call), Begun(r, call), HasResult(r, call)
      PROVE  memory[r].buffer = Result(r, call)
  BY <1>1, <1>8 DEF Begun, Carries, Origin
<1>9. Brought(r, call)
  BY <1>7, <1>8 DEF Brought, Ended
<1>10. RankData(r)'
  <2>1. ~busy'[r] /\ calls'[count'[r]] = call /\ memory' = memory
    BY <1>1, <1>3
  <2>2. Brought(r, call)'
    BY <1>4, <1>9, <2>1, WorldDataKept DEF Brought
  <2> QED
    BY <2>1, <2>2 DEF RankData
<1>11. ASSUME NEW q \in Ranks \ {r}
       PROVE  /\ CountsSame(q) /\ memory'[q] = memory[q]
              /\ ~Stopped(q)' => ~Stopped(q)
  BY <1>1, <1>3 DEF CountsSame, Stopped, faultVars
<1>12. \A q \in Ranks : RankData(q)'
  BY <1>4, <1>10, <1>11, OthersHold
<1> QED
  BY <1>1, <1>4, <1>5, <1>12 DEF DataInv, transportVars, poolVars

\* Calls that end without a result.
LEMMA FailData ==
    ASSUME WorldCalls, Steady, DataInv, ~disturbed, UNCHANGED world_size, NEW r \in Ranks,
           Fail(r) \/ Abort(r)
    PROVE  DataInv'
<1>1. /\ busy' = [busy EXCEPT ![r] = FALSE] /\ plan' = [plan EXCEPT ![r] = <<>>]
      /\ UNCHANGED <<calls, count, memory, received_header_queue, is_errSet, disturbed,
                     transportVars>>
      /\ failed' = r \/ (failed' = failed /\ is_errSet[r])
      /\ failed' = failed \/ failed = NoRank
  BY DEF Fail, Abort, CallEnds, faultVars
<1>2. Shape /\ NoRank \notin Ranks
  BY WorldFacts DEF Steady
<1>3. DOMAIN busy = Ranks /\ DOMAIN plan = Ranks
  BY <1>2 DEF Shape
<1>4. Rigid /\ Ranks' = Ranks /\ MessagesData /\ \A q \in Ranks : RankData(q)
  BY <1>1 DEF Rigid, Ranks, DataInv
<1>5. MessagesData'
  BY <1>1, <1>4, MessagesKept DEF transportVars
<1>6. Stopped(r)'
  BY <1>1, <1>3 DEF Stopped
<1>7. ASSUME NEW q \in Ranks \ {r}
       PROVE  /\ CountsSame(q) /\ memory'[q] = memory[q]
              /\ ~Stopped(q)' => ~Stopped(q)
  BY <1>1, <1>2, <1>3 DEF CountsSame, Stopped
<1>8. RankData(r)'
  BY <1>6 DEF RankData
<1>9. \A q \in Ranks : RankData(q)'
  BY <1>4, <1>7, <1>8, OthersHold
<1> QED
  BY <1>1, <1>4, <1>5, <1>9 DEF DataInv, transportVars, poolVars

(***************************************************************************)
(* Messages are sent with the sender's operand.                            *)
(***************************************************************************)
LEMMA SentIsTold ==
    ASSUME PoolInv, Rigid, NEW r \in Ranks, NEW d \in Ranks, NEW h, NEW length, NEW payload,
           reliable_send(r, d, h, length, payload), Told(h, payload),
           \A s, q \in Ranks : WireData(s, q)
    PROVE  \A s, q \in Ranks : WireData(s, q)'
<1> DEFINE datagram == [header |-> h, length |-> length, payload |-> payload]
           old == network[<<r, d>>]
<1>1. PICK S : network \in [Ranks \X Ranks -> Seq(S)]
  BY DEF PoolInv, NetworkGood
<1>2. old \in Seq(S) /\ <<r, d>> \in Ranks \X Ranks
  BY <1>1
<1>3. network' = [network EXCEPT ![<<r, d>>] = Append(old, datagram)]
  BY DEF reliable_send
<1>4. datagram.header = h /\ datagram.payload = payload
  OBVIOUS
<1> HIDE DEF datagram
<1>5. network'[<<r, d>>] = Append(old, datagram)
  BY <1>1, <1>2, <1>3
<1>6. \A p, q \in Ranks : p # r \/ q # d => network'[<<p, q>>] = network[<<p, q>>]
  BY <1>1, <1>3
<1>7. /\ DOMAIN old = 1..Len(old) /\ Len(old) \in Nat
      /\ DOMAIN Append(old, datagram) = 1..(Len(old) + 1)
      /\ \A i \in 1..Len(old) : Append(old, datagram)[i] = old[i]
      /\ Append(old, datagram)[Len(old) + 1] = datagram
  BY <1>2
<1>8. ASSUME NEW i \in DOMAIN Append(old, datagram)
      PROVE  Told(Append(old, datagram)[i].header, Append(old, datagram)[i].payload)
  <2>1. CASE i \in 1..Len(old)
    BY <1>7, <2>1 DEF WireData
  <2>2. CASE i = Len(old) + 1
    BY <1>4, <1>7, <2>2
  <2> QED
    BY <1>7, <1>8, <2>1, <2>2
<1>9. WireData(r, d)'
  <2>1. PICK sequence : sequence = Append(old, datagram)
    OBVIOUS
  <2>2. \A i \in DOMAIN sequence : Told(sequence[i].header, sequence[i].payload)'
    BY <1>8, <2>1, WorldDataKept
  <2> QED
    BY <1>5, <2>1, <2>2 DEF WireData
<1>10. ASSUME NEW p \in Ranks, NEW q \in Ranks, p # r \/ q # d PROVE WireData(p, q)'
  BY <1>6, <1>10, WireDataKept
<1> QED
  BY <1>9, <1>10

LEMMA SendData ==
    ASSUME WorldCalls, PoolInv, Steady, DataInv, ~disturbed, UNCHANGED world_size,
           NEW r \in Ranks, MPI_Send(r)
    PROVE  DataInv'
<1> SUFFICES ASSUME NEW step, step = Head(plan[r]), NEW payload, payload = memory[r][step.variable],
                    NEW h, h = HeaderOf(r, decide(step.operation), Envelope(r, r)),
                    NEW c, c = count[r] + 1, NEW call, call = calls[c]
             PROVE  DataInv'
  OBVIOUS
<1>1. /\ plan[r] # <<>> /\ step.operation \in SendOperations
      /\ reliable_send(r, step.peer, h, 1, payload)
      /\ plan' = [plan EXCEPT ![r] = Tail(@)]
      /\ UNCHANGED <<calls, count, busy, memory, received_header_queue, faultVars, poolVars>>
  BY DEF MPI_Send, NextIs, PlanGoesOn, Datagram
<1>2. /\ busy[r] /\ ~Stopped(r) /\ plan[r] \in Seq(Steps(world_size)) /\ step.peer \in Ranks
      /\ h.tag = 0 /\ h.source = r /\ h.call = c
  BY <1>1, AtStep DEF HeaderOf
<1>3. Rigid /\ Ranks' = Ranks /\ MessagesData /\ \A q \in Ranks : RankData(q)
  BY <1>1 DEF Rigid, Ranks, DataInv
<1>4. Moves(call) => Begun(r, call)
  BY <1>1, <1>2, <1>3 DEF RankData, Call, Ended
<1>5. Moves(call) => /\ step.variable = "buffer" /\ payload = call.operands[r]
                     /\ Carries(Tail(plan[r]), call, r)
  BY <1>1, <1>2, <1>4, CarriesRest DEF Begun
<1>6. Told(h, payload)
  BY <1>2, <1>5 DEF Told
<1>7. \A s, q \in Ranks : WireData(s, q)'
  BY <1>1, <1>2, <1>3, <1>6, SentIsTold DEF MessagesData
<1>8. MessagesData'
  <2>1. \A q \in Ranks : QueueData(q)'
    BY <1>1, <1>3, QueueDataKept DEF MessagesData, poolVars
  <2> QED
    BY <1>3, <1>7, <2>1 DEF MessagesData
<1>9. DOMAIN plan = Ranks
  BY DEF Steady, Shape
<1>10. RankData(r)'
  <2>1. Moves(call) => Begun(r, call)'
    <3>1. PICK p, m : p = Tail(plan[r]) /\ m = memory[r]
      OBVIOUS
    <3>2. plan'[r] = p /\ memory'[r] = m
      BY <1>1, <1>9, <3>1
    <3>3. Moves(call) => "buffer" \in DOMAIN m /\ m.buffer = call.operands[r]
      BY <1>4, <3>1 DEF Begun
    <3> QED
      BY <1>3, <1>5, <3>1, <3>2, <3>3, BegunNext
  <2>2. Call(r)' = call /\ busy'[r]
    BY <1>1, <1>2 DEF Call
  <2> QED
    BY <1>3, <2>1, <2>2, WorldDataKept DEF RankData
<1>11. ASSUME NEW q \in Ranks \ {r}
       PROVE  /\ CountsSame(q) /\ memory'[q] = memory[q]
              /\ ~Stopped(q)' => ~Stopped(q)
  BY <1>1, <1>9 DEF CountsSame, Stopped, faultVars
<1>12. \A q \in Ranks : RankData(q)'
  BY <1>3, <1>10, <1>11, OthersHold
<1> QED
  BY <1>1, <1>3, <1>8, <1>12 DEF DataInv, poolVars

\* A rank is told of a failure.
LEMMA SetErrData ==
    ASSUME WorldCalls, PoolInv, Steady, DataInv, ~disturbed, UNCHANGED world_size,
           NEW r \in Ranks, setErr(r)
    PROVE  DataInv'
<1>1. /\ is_errSet' = [is_errSet EXCEPT ![r] = TRUE]
      /\ UNCHANGED network \/ reliable_send(r, r, Cleanup(r), 0, 0)
      /\ UNCHANGED <<calls, count, busy, plan, memory, received_header_queue, failed, disturbed,
                     poolVars>>
  BY DEF setErr, callVars
<1>2. Rigid /\ Ranks' = Ranks /\ MessagesData /\ \A q \in Ranks : RankData(q)
  BY <1>1 DEF Rigid, Ranks, DataInv
<1>3. \A s, q \in Ranks : WireData(s, q)'
  <2>1. CASE UNCHANGED network
    BY <1>2, <2>1, WireDataKept DEF MessagesData
  <2>2. CASE reliable_send(r, r, Cleanup(r), 0, 0)
    <3>1. PICK h : h = Cleanup(r)
      OBVIOUS
    <3>2. Told(h, 0)
      BY <3>1 DEF Told, Cleanup, MPIX_CLEANUP_TAG
    <3> QED
      BY <1>2, <2>2, <3>1, <3>2, SentIsTold DEF MessagesData
  <2> QED
    BY <1>1, <2>1, <2>2
<1>4. MessagesData'
  <2>1. \A q \in Ranks : QueueData(q)'
    BY <1>1, <1>2, QueueDataKept DEF MessagesData, poolVars
  <2> QED
    BY <1>2, <1>3, <2>1 DEF MessagesData
<1>5. DOMAIN is_errSet = Ranks
  BY DEF Steady, Shape
<1>6. ASSUME NEW q \in Ranks
      PROVE  CountsSame(q) /\ memory'[q] = memory[q] /\ (~Stopped(q)' => ~Stopped(q))
  BY <1>1, <1>5 DEF CountsSame, Stopped
<1>7. \A q \in Ranks : RankData(q)'
  BY <1>2, <1>6, RankDataKept
<1> QED
  BY <1>1, <1>2, <1>4, <1>7 DEF DataInv, poolVars

(***************************************************************************)
(* The transport keeps a payload where its header will find it.            *)
(***************************************************************************)
LEMMA PostedPayloads ==
    ASSUME PoolInv, DataInv, Rigid, NEW r \in Ranks, NEW s \in Ranks, QueueData(r),
           TakePayload(r, s), NEW datagram, datagram = Head(network[<<s, r>>]),
           NEW h, h = ReceivedHeader(r)
    PROVE  /\ h \notin ToSet(received_header_queue[r])
           /\ \A g \in WithPayload(r) :
                 /\ payload_buffer'[r][g] = payload_buffer[r][g]
                 /\ payload_buffer'[r][g] \in DOMAIN payloads'[r]
                 /\ payloads'[r][payload_buffer'[r][g]] = payloads[r][payload_buffer[r][g]]
           /\ datagram.length > 0 =>
                 /\ payload_buffer'[r][h] \in DOMAIN payloads'[r]
                 /\ payloads'[r][payload_buffer'[r][h]] = datagram.payload
           /\ \A q \in Ranks \ {r} :
                 payloads'[q] = payloads[q] /\ payload_buffer'[q] = payload_buffer[q]
<1> SUFFICES ASSUME NEW item, item = Allocated(payload_pool[r]), NEW memo, memo = payloads[r],
                    NEW buffer, buffer = payload_buffer[r]
             PROVE  /\ h \notin ToSet(received_header_queue[r])
                    /\ \A g \in WithPayload(r) :
                          /\ payload_buffer'[r][g] = buffer[g]
                          /\ payload_buffer'[r][g] \in DOMAIN payloads'[r]
                          /\ payloads'[r][payload_buffer'[r][g]] = memo[buffer[g]]
                    /\ datagram.length > 0 =>
                          /\ payload_buffer'[r][h] \in DOMAIN payloads'[r]
                          /\ payloads'[r][payload_buffer'[r][h]] = datagram.payload
                    /\ \A q \in Ranks \ {r} :
                          payloads'[q] = payloads[q] /\ payload_buffer'[q] = payload_buffer[q]
  OBVIOUS
<1>1. /\ HeadersGood(header_pool[r], received_header_queue[r])
      /\ PayloadsGood(payload_pool[r], WithPayload(r), buffer)
      /\ DOMAIN payload_buffer = Ranks /\ DOMAIN payloads = Ranks
  BY DEF PoolInv, RanksGood, RankGood, DataInv
<1>2. h \notin ToSet(received_header_queue[r])
  BY <1>1, HeaderQueued DEF ReceivedHeader
<1>3. \A g \in WithPayload(r) : /\ g # h /\ g \in DOMAIN buffer /\ buffer[g] # item
                                /\ buffer[g] \in DOMAIN memo
  <2>1. item \in FreeItems(payload_pool[r]) \/ item \notin 1..payload_pool[r].size
    BY <1>1, AllocateFacts DEF PayloadsGood
  <2> QED
    BY <1>1, <1>2, <2>1 DEF PayloadsGood, WithPayload, QueueData
<1>4. CASE datagram.length > 0
  <2>1. /\ payloads' = [payloads EXCEPT ![r] = Stored(memo, item, datagram.payload)]
        /\ payload_buffer' = [payload_buffer EXCEPT ![r] = Stored(buffer, h, item)]
    BY <1>4 DEF TakePayload
  <2>2. PICK m, b : m = Stored(memo, item, datagram.payload) /\ b = Stored(buffer, h, item)
    OBVIOUS
  <2>3. /\ item \in DOMAIN m /\ m[item] = datagram.payload /\ b[h] = item
        /\ \A a \in DOMAIN memo : a \in DOMAIN m /\ (a # item => m[a] = memo[a])
        /\ \A g \in DOMAIN buffer : g # h => b[g] = buffer[g]
    BY <2>2 DEF Stored
  <2>4. payloads'[r] = m /\ payload_buffer'[r] = b
    BY <1>1, <2>1, <2>2
  <2> QED
    BY <1>1, <1>2, <1>3, <2>1, <2>3, <2>4
<1>5. CASE ~(datagram.length > 0)
  <2>1. UNCHANGED <<payloads, payload_buffer>>
    BY <1>5 DEF TakePayload
  <2> QED
    BY <1>2, <1>3, <1>5, <2>1
<1> QED
  BY <1>4, <1>5

\* What is left of a channel when its first datagram is taken.
LEMMA ChannelRest ==
    ASSUME NEW S, NEW q \in Seq(S), q # <<>>
    PROVE  /\ 1 \in DOMAIN q /\ Head(q) = q[1]
           /\ \A i \in DOMAIN Tail(q) : i + 1 \in DOMAIN q /\ Tail(q)[i] = q[i + 1]
OBVIOUS

LEMMA PostMessages ==
    ASSUME PoolInv, DataInv, MessagesData, Rigid, NEW r \in Ranks, NEW s \in Ranks,
           post_header(r, s)
    PROVE  MessagesData'
<1> SUFFICES ASSUME NEW datagram, datagram = Head(network[<<s, r>>]), NEW old, old = network[<<s, r>>],
                    NEW h, h = ReceivedHeader(r), NEW queued, queued = received_header_queue[r]
             PROVE  MessagesData'
  OBVIOUS
<1>1. /\ old # <<>> /\ TakePayload(r, s) /\ network' = [network EXCEPT ![<<s, r>>] = Tail(old)]
  BY DEF post_header, ordered_recv, ordered_recv_and_drop, TakePayload
<1>2. PICK S : network \in [Ranks \X Ranks -> Seq(S)]
  BY DEF PoolInv, NetworkGood
<1>3. old \in Seq(S) /\ <<s, r>> \in Ranks \X Ranks /\ Ranks' = Ranks
  BY <1>2 DEF Rigid, Ranks
<1>4. HasPayload(datagram)
  BY <1>1, <1>3, NetworkShrinks DEF PoolInv, Rigid
<1>5. /\ 1 \in DOMAIN old /\ datagram = old[1]
      /\ \A i \in DOMAIN Tail(old) : i + 1 \in DOMAIN old /\ Tail(old)[i] = old[i + 1]
  <2>1. datagram = Head(old)
    OBVIOUS
  <2> QED
    BY <1>1, <1>3, <2>1, ChannelRest
<1>6. Told(datagram.header, datagram.payload)
  BY <1>5 DEF MessagesData, WireData
<1>7. ASSUME NEW p \in Ranks, NEW q \in Ranks PROVE WireData(p, q)'
  <2>1. CASE p = s /\ q = r
    <3>1. PICK rest : rest = Tail(old)
      OBVIOUS
    <3>2. \A i \in DOMAIN rest : Told(rest[i].header, rest[i].payload)
      BY <1>5, <3>1 DEF MessagesData, WireData
    <3>3. network'[<<p, q>>] = rest
      BY <1>1, <1>2, <1>3, <2>1, <3>1
    <3> QED
      BY <3>2, <3>3, WorldDataKept DEF WireData
  <2>2. CASE ~(p = s /\ q = r)
    <3>1. network'[<<p, q>>] = network[<<p, q>>]
      BY <1>1, <1>2, <2>2
    <3> QED
      BY <3>1, WireDataKept DEF MessagesData
  <2> QED
    BY <2>1, <2>2
<1>8. /\ h \notin ToSet(queued)
      /\ \A g \in WithPayload(r) :
            /\ payload_buffer'[r][g] = payload_buffer[r][g]
            /\ payload_buffer'[r][g] \in DOMAIN payloads'[r]
            /\ payloads'[r][payload_buffer'[r][g]] = payloads[r][payload_buffer[r][g]]
      /\ datagram.length > 0 =>
            /\ payload_buffer'[r][h] \in DOMAIN payloads'[r]
            /\ payloads'[r][payload_buffer'[r][h]] = datagram.payload
      /\ \A q \in Ranks \ {r} :
            payloads'[q] = payloads[q] /\ payload_buffer'[q] = payload_buffer[q]
  BY <1>1, PostedPayloads DEF MessagesData
<1>9. /\ HeadersGood(header_pool[r], queued) /\ ToSet(queued) \subseteq DOMAIN headers[r]
      /\ DOMAIN headers = Ranks /\ DOMAIN received_header_queue = Ranks
  BY DEF PoolInv, RanksGood, RankGood
<1>10. \A g \in WithPayload(r) : Told(headers[r][g], payloads[r][payload_buffer[r][g]])
  BY DEF MessagesData, QueueData
<1>11. CASE datagram.header.epoch < epoch[r]
  <2>1. UNCHANGED <<headers, received_header_queue>>
    BY <1>11 DEF post_header, ordered_recv_and_drop
  <2>2. WithPayload(r)' = WithPayload(r)
    BY <2>1 DEF WithPayload, MPIX_CLEANUP_TAG
  <2>3. QueueData(r)'
    BY <1>8, <1>10, <2>1, <2>2, WorldDataKept DEF QueueData
  <2>4. ASSUME NEW q \in Ranks \ {r} PROVE QueueData(q)'
    BY <1>8, <2>1, QueueDataKept DEF MessagesData
  <2> QED
    BY <1>3, <1>7, <2>3, <2>4 DEF MessagesData
<1>12. CASE ~(datagram.header.epoch < epoch[r])
  <2>1. /\ headers' = [headers EXCEPT ![r] = Stored(headers[r], h, datagram.header)]
        /\ received_header_queue' = [received_header_queue EXCEPT ![r] = Append(queued, h)]
    BY <1>12 DEF post_header, ordered_recv
  <2>2. ToSet(Append(queued, h)) = ToSet(queued) \cup {h}
    BY <1>9, HeaderQueued DEF ReceivedHeader
  <2>3. PICK m : m = Stored(headers[r], h, datagram.header)
    OBVIOUS
  <2>4. /\ headers'[r] = m /\ received_header_queue'[r] = Append(queued, h)
        /\ m[h] = datagram.header /\ \A g \in ToSet(queued) : m[g] = headers[r][g]
    BY <1>8, <1>9, <2>1, <2>3 DEF Stored
  <2>5. WithPayload(r)' = {g \in ToSet(queued) \cup {h} : m[g].tag # MPIX_CLEANUP_TAG}
    BY <2>2, <2>4 DEF WithPayload, MPIX_CLEANUP_TAG
  <2>6. ASSUME NEW g \in WithPayload(r)'
        PROVE  /\ payload_buffer'[r][g] \in DOMAIN payloads'[r]
               /\ Told(m[g], payloads'[r][payload_buffer'[r][g]])
    <3>1. CASE g = h
      <4>1. datagram.length > 0
        BY <1>4, <2>4, <2>5, <2>6, <3>1 DEF HasPayload
      <4> QED
        BY <1>6, <1>8, <2>4, <3>1, <4>1
    <3>2. CASE g # h
      <4>1. g \in WithPayload(r) /\ m[g] = headers[r][g]
        BY <2>4, <2>5, <2>6, <3>2 DEF WithPayload
      <4> QED
        BY <1>8, <1>10, <4>1
    <3> QED
      BY <3>1, <3>2
  <2>7. QueueData(r)'
    BY <2>4, <2>6, WorldDataKept DEF QueueData
  <2>8. ASSUME NEW q \in Ranks \ {r} PROVE QueueData(q)'
    <3>1. headers'[q] = headers[q] /\ received_header_queue'[q] = received_header_queue[q]
      BY <1>9, <2>1
    <3> QED
      BY <1>8, <3>1, QueueDataKept DEF MessagesData
  <2> QED
    BY <1>3, <1>7, <2>7, <2>8 DEF MessagesData
<1> QED
  BY <1>11, <1>12

LEMMA PostData ==
    ASSUME WorldCalls, PoolInv, Steady, DataInv, ~disturbed, UNCHANGED world_size,
           NEW r \in Ranks, NEW s \in Ranks, post_header(r, s)
    PROVE  DataInv'
<1> SUFFICES ASSUME NEW h, h = Head(network[<<s, r>>]).header
             PROVE  DataInv'
  OBVIOUS
<1>1. /\ halt(r, h) /\ UNCHANGED <<calls, count, busy, memory, epoch, faultVars>> /\ TakePayload(r, s)
  BY DEF post_header, ordered_recv, ordered_recv_and_drop
<1>2. Rigid /\ Ranks' = Ranks /\ MessagesData /\ \A q \in Ranks : RankData(q)
  BY <1>1 DEF Rigid, Ranks, DataInv
<1>3. UNCHANGED plan
  <2>1. h = OnTheWay(s, r)[1] /\ 1 \in DOMAIN OnTheWay(s, r)
    <3>1. /\ h = OnTheWay(s, r)[1]
          /\ \E n \in Nat : Removed(OnTheWay(s, r), OnTheWay(s, r)', n, 1)
      BY PostedFromWire
    <3> QED
      BY <3>1 DEF Removed
  <2>2. h.tag = 0 \/ is_errSet[r]
    BY <2>1 DEF Steady, PairsInv, WireInv, GoodMessage
  <2> QED
    BY <1>1, <2>2 DEF halt, EndsPosted, MPIX_CLEANUP_TAG
<1>4. MessagesData'
  BY <1>2, PostMessages
<1>5. ASSUME NEW q \in Ranks
      PROVE  CountsSame(q) /\ memory'[q] = memory[q] /\ (~Stopped(q)' => ~Stopped(q))
  BY <1>1, <1>3 DEF CountsSame, Stopped, faultVars
<1>6. \A q \in Ranks : RankData(q)'
  BY <1>2, <1>5, RankDataKept
<1>7. DOMAIN payloads' = Ranks
  BY <1>1 DEF TakePayload, DataInv
<1> QED
  BY <1>1, <1>2, <1>4, <1>6, <1>7 DEF DataInv, faultVars

(***************************************************************************)
(* A receive brings the operand of its peer.                               *)
(***************************************************************************)
LEMMA FoundData ==
    ASSUME WorldCalls, PoolInv, Steady, DataInv, ~disturbed, NEW r \in Ranks, MPI_Recv(r),
           NEW h, h = received_header_queue[r][Position(r)],
           NEW c, c = count[r] + 1, NEW call, call = calls[c]
    PROVE  /\ h \in WithPayload(r) /\ Position(r) \in 1..Len(received_header_queue[r])
           /\ headers[r][h].protocol = "EAGER" /\ fill(r, h) /\ network' = network
           /\ Moves(call) => Payload(r, h) = call.operands[Head(plan[r]).peer]
<1> SUFFICES ASSUME NEW g, g = Received(r)[Position(r)], NEW s, s = Head(plan[r]).peer
             PROVE  /\ h \in WithPayload(r) /\ Position(r) \in 1..Len(received_header_queue[r])
                    /\ headers[r][h].protocol = "EAGER" /\ fill(r, h) /\ network' = network
                    /\ Moves(call) => Payload(r, h) = call.operands[s]
  OBVIOUS
<1>1. Matching(r) /\ RankGood(r)
  BY DEF MPI_Recv, PoolInv, RanksGood
<1>2. Position(r) \in 1..Len(received_header_queue[r]) /\ h \in WithPayload(r)
  BY <1>1, RecvFinds
<1>3. GoodMessage(g, s) /\ g.call = c /\ network' = network
  BY FoundFacts
<1>4. DOMAIN Received(r) = 1..Len(received_header_queue[r]) /\ g = headers[r][h]
  BY <1>1, <1>2 DEF Received, RankGood, HeadersGood
<1>5. headers[r][h].protocol = "EAGER" /\ g.tag = 0 /\ g.source = s
  BY <1>3, <1>4 DEF GoodMessage
<1>6. fill(r, h)
  BY <1>5 DEF MPI_Recv, handle_match
<1>7. Told(g, Payload(r, h))
  BY <1>2, <1>4 DEF DataInv, MessagesData, QueueData, Payload
<1> QED
  BY <1>2, <1>3, <1>5, <1>6, <1>7 DEF Told

\* A message is taken from the queue, with its payload.
LEMMA TakenMessages ==
    ASSUME PoolInv, DataInv, MessagesData, Rigid, NEW r \in Ranks,
           NEW k \in 1..Len(received_header_queue[r]),
           received_header_queue' =
               [received_header_queue EXCEPT ![r] = RemoveAt(received_header_queue[r], k)],
           NEW h, h = received_header_queue[r][k], h \in WithPayload(r), fill(r, h),
           network' = network
    PROVE  MessagesData'
<1> SUFFICES ASSUME NEW queued, queued = received_header_queue[r], NEW item,
                    item = payload_buffer[r][h]
             PROVE  MessagesData'
  OBVIOUS
<1>1. /\ received_header_queue' = [received_header_queue EXCEPT ![r] = RemoveAt(queued, k)]
      /\ payloads' = [payloads EXCEPT ![r] = Without(payloads[r], item)]
      /\ headers' = [headers EXCEPT ![r] = Without(headers[r], h)]
      /\ payload_buffer' = payload_buffer
  BY DEF fill, release_header
<1>2. /\ HeadersGood(header_pool[r], queued) /\ ToSet(queued) \subseteq DOMAIN headers[r]
      /\ PayloadsGood(payload_pool[r], WithPayload(r), payload_buffer[r])
      /\ DOMAIN headers = Ranks /\ DOMAIN received_header_queue = Ranks
      /\ DOMAIN payloads = Ranks /\ Ranks' = Ranks
  BY DEF PoolInv, RanksGood, RankGood, DataInv, Rigid, Ranks
<1>3. ToSet(RemoveAt(queued, k)) = ToSet(queued) \ {h}
  BY <1>2, HeaderReleased
<1>4. PICK m, p : m = Without(headers[r], h) /\ p = Without(payloads[r], item)
  OBVIOUS
<1>5. /\ \A g \in ToSet(queued) \ {h} : m[g] = headers[r][g]
      /\ \A a \in (DOMAIN payloads[r]) \ {item} : a \in DOMAIN p /\ p[a] = payloads[r][a]
  BY <1>2, <1>4 DEF Without
<1>6. /\ headers'[r] = m /\ payloads'[r] = p /\ payload_buffer'[r] = payload_buffer[r]
      /\ received_header_queue'[r] = RemoveAt(queued, k)
  BY <1>1, <1>2, <1>4
<1>7. WithPayload(r)' = {g \in ToSet(queued) \ {h} : m[g].tag # MPIX_CLEANUP_TAG}
  BY <1>3, <1>6 DEF WithPayload, MPIX_CLEANUP_TAG
<1>8. ASSUME NEW g \in WithPayload(r)'
      PROVE  /\ payload_buffer[r][g] \in DOMAIN p
             /\ Told(m[g], p[payload_buffer[r][g]])
  <2>1. g \in WithPayload(r) /\ g # h /\ m[g] = headers[r][g]
    BY <1>5, <1>7, <1>8 DEF WithPayload
  <2>2. payload_buffer[r][g] # item
    BY <1>2, <2>1 DEF PayloadsGood
  <2>3. /\ payload_buffer[r][g] \in DOMAIN payloads[r]
        /\ Told(headers[r][g], payloads[r][payload_buffer[r][g]])
    BY <2>1 DEF MessagesData, QueueData
  <2> QED
    BY <1>5, <2>1, <2>2, <2>3
<1>9. QueueData(r)'
  BY <1>6, <1>8, WorldDataKept DEF QueueData
<1>10. ASSUME NEW q \in Ranks \ {r} PROVE QueueData(q)'
  <2>1. /\ headers'[q] = headers[q] /\ received_header_queue'[q] = received_header_queue[q]
        /\ payloads'[q] = payloads[q] /\ payload_buffer'[q] = payload_buffer[q]
    BY <1>1, <1>2
  <2> QED
    BY <2>1, QueueDataKept DEF MessagesData
<1>11. \A q, s \in Ranks : WireData(s, q)'
  BY WireDataKept DEF MessagesData
<1> QED
  BY <1>2, <1>9, <1>10, <1>11 DEF MessagesData

LEMMA RecvData ==
    ASSUME WorldCalls, PoolInv, Steady, DataInv, ~disturbed, UNCHANGED world_size,
           NEW r \in Ranks, MPI_Recv(r)
    PROVE  DataInv'
<1> SUFFICES ASSUME NEW h, h = received_header_queue[r][Position(r)],
                    NEW c, c = count[r] + 1, NEW call, call = calls[c],
                    NEW step, step = Head(plan[r]), NEW value, value = Value(r, "EAGER", Payload(r, h))
             PROVE  DataInv'
  OBVIOUS
<1>1. /\ h \in WithPayload(r) /\ Position(r) \in 1..Len(received_header_queue[r])
      /\ headers[r][h].protocol = "EAGER" /\ fill(r, h) /\ network' = network
      /\ Moves(call) => Payload(r, h) = call.operands[step.peer]
  BY FoundData
<1>2. /\ plan[r] # <<>> /\ step.operation \in Receives
      /\ memory' = [memory EXCEPT ![r][step.variable] = value]
      /\ plan' = [plan EXCEPT ![r] = Tail(@)]
      /\ UNCHANGED <<calls, count, busy, faultVars>>
  BY <1>1 DEF MPI_Recv, NextIs, PlanGoesOn
<1>3. /\ Rigid /\ Ranks' = Ranks /\ MessagesData /\ \A q \in Ranks : RankData(q)
      /\ DOMAIN memory = Ranks /\ DOMAIN payloads = Ranks
  BY <1>2 DEF Rigid, Ranks, DataInv
<1>4. busy[r] /\ ~Stopped(r) /\ plan[r] \in Seq(Steps(world_size))
  BY <1>2, AtStep
<1>5. Moves(call) => Begun(r, call)
  BY <1>2, <1>3, <1>4 DEF RankData, Call, Ended
<1>6. Moves(call) => /\ step.variable = "buffer" /\ step.operation # "Reduce" /\ Tail(plan[r]) = <<>>
                     /\ HasResult(r, call) => Result(r, call) = call.operands[step.peer]
  BY <1>2, <1>4, <1>5, CarriesRest DEF Begun
<1>7. Moves(call) => value = call.operands[step.peer]
  BY <1>1, <1>6 DEF Value
<1>8. DOMAIN plan = Ranks /\ DOMAIN busy = Ranks
  BY DEF Steady, Shape
<1>9. ASSUME NEW q \in Ranks \ {r}
      PROVE  CountsSame(q) /\ memory'[q] = memory[q] /\ (~Stopped(q)' => ~Stopped(q))
  BY <1>2, <1>3, <1>8 DEF CountsSame, Stopped, faultVars
<1>10. RankData(r)'
  <2>1. ASSUME Moves(call) PROVE Ended(r, call)'
    <3>1. plan'[r] = <<>>
      BY <1>2, <1>6, <1>8, <2>1
    <3>2. "buffer" \in DOMAIN memory[r] /\ step.variable = "buffer"
      BY <1>5, <1>6, <2>1 DEF Begun
    <3>3. memory'[r].buffer = value
      BY <1>2, <1>3, <3>2
    <3> QED
      BY <1>3, <1>6, <1>7, <2>1, <3>1, <3>3, WorldDataKept DEF Ended
  <2>2. Call(r)' = call /\ busy'[r]
    BY <1>2, <1>4 DEF Call
  <2> QED
    BY <1>3, <2>1, <2>2, WorldDataKept DEF RankData
<1>11. \A q \in Ranks : RankData(q)'
  BY <1>3, <1>9, <1>10, OthersHold
<1>12. MessagesData'
  <2>1. PICK k \in 1..Len(received_header_queue[r]) : k = Position(r)
    BY <1>1
  <2>2. received_header_queue' =
            [received_header_queue EXCEPT ![r] = RemoveAt(received_header_queue[r], k)]
    BY <2>1 DEF MPI_Recv
  <2> QED
    BY <1>1, <1>3, <2>1, <2>2, TakenMessages
<1>13. DOMAIN payloads' = Ranks /\ DOMAIN memory' = Ranks
  BY <1>1, <1>2, <1>3 DEF fill
<1> QED
  BY <1>2, <1>3, <1>11, <1>12, <1>13 DEF DataInv, faultVars

\* A receive that is left posted takes a message, of a rank that is told of a failure.
LEMMA AbandonedData ==
    ASSUME WorldCalls, PoolInv, Steady, DataInv, ~disturbed, UNCHANGED world_size,
           NEW r \in Ranks, match_abandoned(r)
    PROVE  DataInv'
<1> SUFFICES ASSUME NEW queued, queued = received_header_queue[r],
                    NEW match, match = FirstMatch(posted_request_queue[r], Received(r)),
                    NEW h, h = queued[match[2]]
             PROVE  DataInv'
  OBVIOUS
<1>1. /\ RankGood(r) /\ LeftGood /\ Wanted(r)
      /\ received_header_queue' = [received_header_queue EXCEPT ![r] = RemoveAt(queued, match[2])]
      /\ UNCHANGED <<callVars, faultVars>>
  BY DEF PoolInv, RanksGood, match_abandoned
<1>2. match[2] \in 1..Len(queued) /\ h \in WithPayload(r) /\ headers[r][h].tag = 0
  BY <1>1, AbandonedFinds
<1>3. headers[r][h].protocol = "EAGER"
  <2>1. DOMAIN queued = 1..Len(queued)
    BY <1>1 DEF RankGood, HeadersGood
  <2>2. \A k \in DOMAIN queued : k \in DOMAIN Received(r) /\ Received(r)[k] = headers[r][queued[k]]
    BY DEF Received
  <2>3. match[2] \in DOMAIN Received(r) /\ Received(r)[match[2]] = headers[r][h]
    BY <1>2, <2>1, <2>2
  <2>4. QueueInv(r)
    BY DEF Steady
  <2> QED
    BY <1>2, <2>3, <2>4 DEF QueueInv, GoodMessage
<1>4. fill(r, h) /\ network' = network
  BY <1>3 DEF match_abandoned, handle_match
<1>5. Rigid /\ Ranks' = Ranks /\ MessagesData /\ \A q \in Ranks : RankData(q)
  BY <1>1 DEF Rigid, Ranks, DataInv, callVars
<1>6. MessagesData'
  BY <1>1, <1>2, <1>4, <1>5, TakenMessages
<1>7. ASSUME NEW q \in Ranks
      PROVE  CountsSame(q) /\ memory'[q] = memory[q] /\ (~Stopped(q)' => ~Stopped(q))
  BY <1>1 DEF CountsSame, Stopped, callVars, faultVars
<1>8. \A q \in Ranks : RankData(q)'
  BY <1>5, <1>7, RankDataKept
<1>9. DOMAIN payloads' = Ranks /\ DOMAIN memory' = Ranks
  BY <1>1, <1>4 DEF fill, DataInv, callVars
<1> QED
  BY <1>1, <1>5, <1>6, <1>8, <1>9 DEF DataInv, faultVars

\* After a recovery nobody holds a value, and messages are those that were there before.
LEMMA RecoverData ==
    ASSUME WorldCalls, PoolInv, Steady, DataInv, ~disturbed, UNCHANGED world_size, Recover
    PROVE  DataInv'
<1>1. /\ failed # NoRank /\ \A r \in Survivors : ~busy[r]
      /\ memory' = [r \in Ranks |-> NoVariables] /\ UNCHANGED <<calls, busy>>
      /\ received_header_queue' = [received_header_queue EXCEPT ![failed] = <<>>]
  BY DEF Recover
<1>2. \E e, file : RestartTransport(failed, e, file)
  BY DEF Recover, load
<1>3. /\ headers' = [headers EXCEPT ![failed] = NoMemory]
      /\ payloads' = [payloads EXCEPT ![failed] = NoMemory]
      /\ payload_buffer' = [payload_buffer EXCEPT ![failed] = NoMemory]
      /\ network' = [pair \in Ranks \X Ranks |-> IF pair[2] = failed THEN <<>> ELSE network[pair]]
  BY <1>2 DEF RestartTransport
<1>4. Rigid /\ Ranks' = Ranks /\ MessagesData
  BY <1>1 DEF Rigid, Ranks, DataInv
<1>5. Shape /\ FaultInv
  BY DEF Steady
<1>6. ASSUME NEW r \in Ranks PROVE RankData(r)'
  <2>1. ~busy'[r] /\ memory'[r] = NoVariables
    BY <1>1, <1>4, <1>5, <1>6 DEF FaultInv, Survivors
  <2> QED
    BY <2>1 DEF RankData, NoVariables
<1>7. failed \in Ranks
  BY <1>1, <1>5 DEF Shape
<1>8. DOMAIN received_header_queue = Ranks
  BY DEF PoolInv, RanksGood
<1>9. ASSUME NEW r \in Ranks PROVE QueueData(r)'
  <2>1. CASE r = failed
    <3>1. received_header_queue'[r] = <<>>
      BY <1>1, <1>8, <2>1
    <3>2. WithPayload(r)' = {}
      <4>1. ToSet(<<>>) = {}
        BY DEF ToSet
      <4> QED
        BY <3>1, <4>1 DEF WithPayload
    <3> QED
      BY <3>2 DEF QueueData
  <2>2. CASE r # failed
    <3>1. /\ received_header_queue'[r] = received_header_queue[r] /\ headers'[r] = headers[r]
          /\ payloads'[r] = payloads[r] /\ payload_buffer'[r] = payload_buffer[r]
      BY <1>1, <1>3, <2>2 DEF DataInv, PoolInv, RanksGood
    <3> QED
      BY <1>4, <3>1, QueueDataKept DEF MessagesData
  <2> QED
    BY <2>1, <2>2
<1>10. ASSUME NEW s \in Ranks, NEW r \in Ranks PROVE WireData(s, r)'
  <2>1. CASE r = failed
    <3>1. network'[<<s, r>>] = <<>>
      BY <1>3, <2>1
    <3> QED
      BY <3>1 DEF WireData
  <2>2. CASE r # failed
    <3>1. network'[<<s, r>>] = network[<<s, r>>]
      BY <1>3, <2>2
    <3> QED
      BY <1>4, <3>1, WireDataKept DEF MessagesData
  <2> QED
    BY <2>1, <2>2
<1>11. DOMAIN payloads' = Ranks /\ DOMAIN memory' = Ranks
  BY <1>1, <1>3 DEF DataInv
<1> QED
  BY <1>4, <1>6, <1>9, <1>10, <1>11 DEF DataInv, MessagesData

\* The tables of the ranks, a recovery disturbed or not.
LEMMA TablesStay ==
    ASSUME DataInv, [Next]_vars
    PROVE  DOMAIN payloads' = Ranks' /\ DOMAIN memory' = Ranks'
<1>1. Ranks' = Ranks /\ DOMAIN payloads = Ranks /\ DOMAIN memory = Ranks
  BY DEF DataInv, Next, vars, Ranks
<1>2. ASSUME NEW r \in Ranks, User(r) PROVE DOMAIN payloads' = Ranks /\ DOMAIN memory' = Ranks
  BY <1>1, <1>2 DEF User, Enter, MPI_Send, MPI_Recv, Return, setErr, Abort, transportVars, poolVars,
                    callVars, handle_match, fill
<1>3. ASSUME NEW r \in Ranks, ProgressThread(r)
      PROVE  DOMAIN payloads' = Ranks /\ DOMAIN memory' = Ranks
  <2>1. CASE \E s \in Ranks : post_header(r, s)
    BY <1>1, <2>1 DEF post_header, ordered_recv, ordered_recv_and_drop, TakePayload
  <2>2. CASE match_abandoned(r)
    BY <1>1, <2>2 DEF match_abandoned, handle_match, fill, callVars
  <2>3. CASE handle_request(r)
    BY <1>1, <2>3 DEF handle_request, poolVars, callVars
  <2> QED
    BY <1>3, <2>1, <2>2, <2>3 DEF ProgressThread
<1>4. Recover => DOMAIN payloads' = Ranks /\ DOMAIN memory' = Ranks
  BY <1>1 DEF Recover, load, RestartTransport
<1>5. ASSUME NEW r \in Ranks, Fail(r) PROVE DOMAIN payloads' = Ranks /\ DOMAIN memory' = Ranks
  BY <1>1, <1>5 DEF Fail, transportVars, poolVars
<1>6. UNCHANGED vars => DOMAIN payloads' = Ranks /\ DOMAIN memory' = Ranks
  BY <1>1 DEF vars, callVars, transportVars, poolVars
<1> QED
  BY <1>1, <1>2, <1>3, <1>4, <1>5, <1>6 DEF Next, Work, Failure

LEMMA DataStep ==
    PoolInv /\ LeftInv /\ (WorldCalls => CallInv) /\ (WorldCalls => DataInv) /\ [Next]_vars
        => (WorldCalls => DataInv)'
<1> SUFFICES ASSUME PoolInv, LeftInv, WorldCalls => CallInv, WorldCalls => DataInv, [Next]_vars, WorldCalls'
             PROVE  DataInv'
  OBVIOUS
<1>1. WorldCalls /\ DataInv /\ CallInv /\ UNCHANGED <<world_size, calls>>
  BY ProgramStays
<1>2. disturbed => disturbed'
  <2>1. ASSUME NEW r \in Ranks, User(r) PROVE disturbed' = disturbed
    BY <2>1 DEF User, Enter, MPI_Send, MPI_Recv, Return, setErr, Abort, faultVars
  <2>2. ASSUME NEW r \in Ranks, ProgressThread(r) PROVE disturbed' = disturbed
    BY <2>2 DEF ProgressThread, post_header, match_abandoned, handle_request, faultVars
  <2>3. Recover => (disturbed => disturbed')
    BY DEF Recover
  <2>4. ASSUME NEW r \in Ranks, Fail(r) PROVE disturbed' = disturbed
    BY <2>4 DEF Fail
  <2> QED
    BY <2>1, <2>2, <2>3, <2>4 DEF Next, Work, Failure, vars, faultVars
<1>3. CASE disturbed
  BY <1>1, <1>2, <1>3, TablesStay DEF DataInv
<1>4. CASE ~disturbed
  <2>1. Steady
    BY <1>1, <1>4 DEF CallInv
  <2>2. ASSUME NEW r \in Ranks, User(r) PROVE DataInv'
    BY <1>1, <1>4, <2>1, <2>2, EnterData, SendData, RecvData, ReturnData, SetErrData, FailData
       DEF User
  <2>3. ASSUME NEW r \in Ranks, ProgressThread(r) PROVE DataInv'
    <3>1. ~handle_request(r)
      <4>1. CASE is_errSet[r]
        BY <4>1 DEF handle_request
      <4>2. CASE ~is_errSet[r]
        BY <1>4, <4>2, LeftFacts
      <4> QED
        BY <4>1, <4>2
    <3> QED
      BY <1>1, <1>4, <2>1, <2>3, <3>1, PostData, AbandonedData DEF ProgressThread
  <2>4. Recover => DataInv'
    BY <1>1, <1>4, <2>1, RecoverData
  <2>5. ASSUME NEW r \in Ranks, Fail(r) PROVE DataInv'
    BY <1>1, <1>4, <2>1, <2>5, FailData
  <2>6. CASE UNCHANGED vars
    <3>1. Rigid /\ Ranks' = Ranks /\ UNCHANGED <<received_header_queue, network, poolVars>>
      BY <2>6 DEF vars, callVars, transportVars, Rigid, Ranks
    <3>2. MessagesData'
      BY <1>1, <1>4, <3>1, MessagesKept DEF DataInv
    <3>3. ASSUME NEW r \in Ranks PROVE RankData(r)'
      <4>1. CountsSame(r) /\ memory'[r] = memory[r] /\ (~Stopped(r)' => ~Stopped(r))
        BY <2>6 DEF vars, callVars, faultVars, CountsSame, Stopped
      <4> QED
        BY <1>1, <1>4, <3>1, <4>1, RankDataKept DEF DataInv
    <3> QED
      BY <1>1, <3>1, <3>2, <3>3, TablesStay DEF DataInv
  <2> QED
    BY <2>2, <2>3, <2>4, <2>5, <2>6 DEF Next, Work, Failure
<1> QED
  BY <1>3, <1>4

\* A broadcast leaves the root's operand on every rank, a shift the left neighbour's, a
\* message its sender's, whatever other calls, reductions among them, are under way on
\* other ranks, and through failures whose recovery is not disturbed.
MovedCorrectly ==
    ~disturbed =>
        \A r \in Ranks \ {failed} :
            ~busy[r] /\ count[r] > 0 /\ memory[r] # NoVariables /\ ~is_errSet[r] =>
                Brought(r, calls[count[r]])

\* No call of the world receives the payload of another call or of another rank: what
\* MPI_Bcast, MPI_Sendrecv and a send and its receive leave in the user's buffer is what
\* the sender of this very call had put there (MovedCorrectly).
THEOREM WorldCallsMoveData == Spec => [](WorldCalls => MovedCorrectly)
<1>1. (WorldCalls => DataInv) => (WorldCalls => MovedCorrectly)
  BY DEF DataInv, RankData, MovedCorrectly, Stopped
<1>2. Init => (WorldCalls => DataInv)
  BY DataStart
<1>3. Spec => [](WorldCalls => DataInv)
  BY <1>2, DataStep, CallInvariant, PTL DEF Spec
<1> QED
  BY <1>1, <1>3, PTL

\* The calls of these programs on the world other than reductions.
PlainCalls ==
    \A k \in DOMAIN calls : calls[k].comm = 1 /\ FittingCall(world_size, calls[k])
LEMMA PlainProgram == Spec => [](PlainCalls => WorldCalls)
<1>1. Init => world_size \in Sizes
  BY DEF Init, UniverseInit
<1>2. world_size \in Sizes /\ [Next]_vars => (world_size \in Sizes)'
  BY DEF Next, vars
<1>3. world_size \in Sizes => (PlainCalls => WorldCalls)
  BY SizesAssumption, SchedulesFit DEF PlainCalls, WorldCalls
<1> QED
  BY <1>1, <1>2, <1>3, PTL DEF Spec

\* Programs of barriers, broadcasts, duplications, shifts and single messages on the
\* world, with checkpoints: every rank that has not failed has the result of the call that
\* it has returned from, on any number of ranks and whatever rank fails when.
THEOREM PlainResultsCorrect == Spec => [](PlainCalls => ResultsCorrect)
<1>1. Spec => [](WorldCalls => CallInv /\ MovedCorrectly)
  BY CallInvariant, WorldCallsMoveData, PTL
<1>2. (PlainCalls => WorldCalls) /\ (WorldCalls => CallInv /\ MovedCorrectly)
         => (PlainCalls => ResultsCorrect)
  <2> SUFFICES ASSUME CallInv, MovedCorrectly, WorldCalls, PlainCalls, ~disturbed,
                      NEW r \in Ranks \ {failed}, ~busy[r], count[r] > 0,
                      memory[r] # NoVariables, ~is_errSet[r],
                      NEW call, call = calls[count[r]], HasResult(r, call)
               PROVE  memory[r].buffer = Result(r, call)
    BY DEF ResultsCorrect
  <2>1. count[r] \in DOMAIN calls
    <3>1. Shape /\ RankInv(r) /\ count[r] \in Nat
      BY DEF CallInv, Steady, Shape
    <3> QED
      BY <3>1, WorldFacts DEF RankInv
  <2>2. Moves(call)
    BY <2>1 DEF PlainCalls, FittingCall, Moves, HasResult, IsLocal
  <2> QED
    BY <2>2 DEF MovedCorrectly, Brought
<1> QED
  BY <1>1, <1>2, PlainProgram, PTL
================================================================================
