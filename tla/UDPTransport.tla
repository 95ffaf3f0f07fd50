------------------------------ MODULE UDPTransport ------------------------------
(***************************************************************************)
(* The UDP transport of every rank (src/transports/udptransport.cc). A     *)
(* datagram is a header with its payload. Received ones are taken apart:   *)
(* the header travels through the matcher, the payload waits in            *)
(* payload_buffer under the header's address until fill asks for it.       *)
(*                                                                         *)
(* The network loses nothing and keeps the order of each pair of ranks, as *)
(* the loopback device does: the code has no sequence numbers, and its     *)
(* only reaction to an error of sendmsg is to repeat it.                   *)
(***************************************************************************)
EXTENDS Universe, MemoryPool, FiniteSets, SequencesExt

VARIABLES
    network,            \* datagrams on their way, by <<sender, receiver>>
    cache,              \* of each rank: the ranks whose endpoints it knows
    header_pool,
    payload_pool,
    headers,            \* the headers in memory, by address
    payloads,           \* the payloads in memory, by address
    payload_buffer      \* payload's address by header's address; never erased from

poolVars == <<header_pool, payload_pool, headers, payloads, payload_buffer>>
transportVars == <<network, cache, poolVars>>

NoMemory == [address \in {} |-> 0]
Stored(memory, address, content) ==
    [a \in (DOMAIN memory) \cup {address} |-> IF a = address THEN content ELSE memory[a]]
Without(memory, address) == [a \in (DOMAIN memory) \ {address} |-> memory[a]]

TransportInit ==
    /\ network = [pair \in Ranks \X Ranks |-> <<>>]
    /\ cache = [r \in Ranks |-> Ranks]
    /\ header_pool = [r \in Ranks |-> NewPool]
    /\ payload_pool = [r \in Ranks |-> NewPool]
    /\ headers = [r \in Ranks |-> NoMemory]
    /\ payloads = [r \in Ranks |-> NoMemory]
    /\ payload_buffer = [r \in Ranks |-> NoMemory]

\* A restarted process has a new transport. What was sent to the old socket is lost with
\* it; what is sent from now on reaches the new one, also if it belongs to an earlier call.
\* It asks for the endpoints itself in epoch 0 only; after that it loads those that were
\* saved.
SavedEndpoints(r) == cache[r]
Endpoints(epoch, file) == IF epoch = 0 THEN Ranks ELSE file.cache
RestartTransport(r, epoch, file) ==
    /\ header_pool' = [header_pool EXCEPT ![r] = NewPool]
    /\ payload_pool' = [payload_pool EXCEPT ![r] = NewPool]
    /\ headers' = [headers EXCEPT ![r] = NoMemory]
    /\ payloads' = [payloads EXCEPT ![r] = NoMemory]
    /\ payload_buffer' = [payload_buffer EXCEPT ![r] = NoMemory]
    /\ cache' = [cache EXCEPT ![r] = Endpoints(epoch, file)]
    /\ network' = [pair \in Ranks \X Ranks |-> IF pair[2] = r THEN <<>> ELSE network[pair]]

\* A datagram to an endpoint that is not known cannot be sent: the code throws after
\* five attempts, and the process does not go on.
reliable_send(r, destination, header, length, payload) ==
    /\ destination \in cache[r]
    /\ network' = [network EXCEPT ![<<r, destination>>] =
                       Append(@, [header |-> header, length |-> length, payload |-> payload])]

\* The next datagram of one sender. Its header gets an object of the pool, the result;
\* so does its payload, unless its length is zero.
ReceivedHeader(r) == Allocated(header_pool[r])
TakePayload(r, source) ==
    LET datagram == Head(network[<<source, r>>])
        payload == Allocated(payload_pool[r])
    IN  /\ network' = [network EXCEPT ![<<source, r>>] = Tail(@)]
        /\ IF datagram.length > 0
           THEN /\ payload_pool' = [payload_pool EXCEPT ![r] = allocate(@)]
                /\ payloads' = [payloads EXCEPT ![r] = Stored(@, payload, datagram.payload)]
                /\ payload_buffer' =
                       [payload_buffer EXCEPT ![r] = Stored(@, ReceivedHeader(r), payload)]
           ELSE UNCHANGED <<payload_pool, payloads, payload_buffer>>
        /\ UNCHANGED cache
ordered_recv(r, source) ==
    /\ TakePayload(r, source)
    /\ header_pool' = [header_pool EXCEPT ![r] = allocate(@)]
    /\ headers' = [headers EXCEPT ![r] =
                       Stored(@, ReceivedHeader(r), Head(network[<<source, r>>]).header)]

\* The same when the matcher then drops the header: the payload stays.
ordered_recv_and_drop(r, source) ==
    /\ TakePayload(r, source)
    /\ header_pool' = [header_pool EXCEPT ![r] = deallocate(allocate(@), ReceivedHeader(r))]
    /\ UNCHANGED headers

\* The end of a header's owner.
release_header(r, header) ==
    /\ header_pool' = [header_pool EXCEPT ![r] = deallocate(@, header)]
    /\ headers' = [headers EXCEPT ![r] = Without(@, header)]

\* The payload that fill copies to the receive's buffer. Then it goes back to its
\* pool, and so does the header, whose owner fill was given.
Payload(r, header) == payloads[r][payload_buffer[r][header]]
LeakyFill(r, header) ==      \* keeps the payload
    /\ release_header(r, header)
    /\ UNCHANGED <<payload_pool, payloads, payload_buffer>>
fill(r, header) ==
    LET payload == payload_buffer[r][header]
    IN  /\ payload_pool' = [payload_pool EXCEPT ![r] = deallocate(@, payload)]
        /\ payloads' = [payloads EXCEPT ![r] = Without(@, payload)]
        /\ release_header(r, header)
        /\ UNCHANGED payload_buffer
================================================================================
