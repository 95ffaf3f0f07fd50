-------------------------------- MODULE PoolProofs --------------------------------
(***************************************************************************)
(* Theorems about the pools of the transport that hold for every program,  *)
(* every number of ranks and of failures, and every size of an arena.      *)
(***************************************************************************)
EXTENDS Collectives, MatcherLemmas

(***************************************************************************)
(* The pool of third-party/pool.h.                                         *)
(***************************************************************************)
Pools == [free_list : Seq(Nat), size : Nat]
FreeItems(pool) == ToSet(pool.free_list)
Orderly(pool) ==
    pool \in Pools /\ IsInjective(pool.free_list) /\ FreeItems(pool) \subseteq 1..pool.size

\* Head and Tail share out the elements of a sequence.
LEMMA HeadAndTail ==
    ASSUME NEW S, NEW s \in Seq(S), s # <<>>
    PROVE  ToSet(s) = {Head(s)} \cup ToSet(Tail(s))
<1>1. /\ Len(Tail(s)) = Len(s) - 1 /\ Len(s) \in Nat /\ Len(s) > 0 /\ Head(s) = s[1]
      /\ \A i \in 1..(Len(s) - 1) : Tail(s)[i] = s[i + 1]
      /\ DOMAIN s = 1..Len(s) /\ DOMAIN Tail(s) = 1..(Len(s) - 1)
  OBVIOUS
<1>2. ASSUME NEW i \in 2..Len(s) PROVE s[i] \in ToSet(Tail(s))
  <2>1. i - 1 \in 1..(Len(s) - 1) /\ Tail(s)[i - 1] = s[i]
    BY <1>1
  <2> QED
    BY <1>1, <2>1 DEF ToSet
<1>3. ToSet(s) \subseteq {Head(s)} \cup ToSet(Tail(s))
  BY <1>1, <1>2 DEF ToSet
<1> QED
  BY <1>3, TailElements

\* An element at the front.
LEMMA FrontElements ==
    ASSUME NEW S, NEW s \in Seq(S), NEW e \in S, e \notin ToSet(s), IsInjective(s)
    PROVE  /\ <<e>> \o s \in Seq(S) /\ IsInjective(<<e>> \o s)
           /\ ToSet(<<e>> \o s) = {e} \cup ToSet(s)
<1> DEFINE t == <<e>> \o s
<1>1. /\ t \in Seq(S) /\ Len(t) = Len(s) + 1 /\ t[1] = e
      /\ \A i \in 1..Len(s) : t[i + 1] = s[i]
      /\ \A i \in 2..Len(t) : t[i] = s[i - 1]
      /\ DOMAIN s = 1..Len(s) /\ DOMAIN t = 1..(Len(s) + 1) /\ Len(s) \in Nat
  OBVIOUS
<1> HIDE DEF t
<1>2. ToSet(t) = {e} \cup ToSet(s)
  <2>1. ASSUME NEW i \in 1..Len(s) PROVE s[i] \in ToSet(t)
    <3>1. i + 1 \in 1..(Len(s) + 1)
      BY <1>1
    <3> QED
      BY <3>1, <1>1 DEF ToSet
  <2>2. ASSUME NEW i \in 2..Len(t) PROVE t[i] \in ToSet(s)
    <3>1. i - 1 \in 1..Len(s)
      BY <1>1
    <3> QED
      BY <3>1, <1>1 DEF ToSet
  <2>3. e \in ToSet(t) /\ \A i \in 1..Len(t) : i = 1 \/ i \in 2..Len(t)
    BY <1>1 DEF ToSet
  <2> QED
    BY <1>1, <2>1, <2>2, <2>3 DEF ToSet
<1>3. IsInjective(t)
  <2>1. ASSUME NEW i \in 1..Len(t), NEW j \in 1..Len(t), t[i] = t[j] PROVE i = j
    <3>1. CASE i = 1 /\ j # 1
      <4>1. j - 1 \in 1..Len(s) /\ s[j - 1] = e
        BY <3>1, <2>1, <1>1
      <4> QED
        BY <4>1, <1>1 DEF ToSet
    <3>2. CASE j = 1 /\ i # 1
      <4>1. i - 1 \in 1..Len(s) /\ s[i - 1] = e
        BY <3>2, <2>1, <1>1
      <4> QED
        BY <4>1, <1>1 DEF ToSet
    <3>3. CASE i # 1 /\ j # 1
      <4>1. i - 1 \in 1..Len(s) /\ j - 1 \in 1..Len(s) /\ s[i - 1] = s[j - 1]
        BY <3>3, <2>1, <1>1
      <4>2. i - 1 = j - 1
        BY <4>1, <1>1 DEF IsInjective
      <4> QED
        BY <4>2, <1>1
    <3> QED
      BY <3>1, <3>2, <3>3
  <2> QED
    BY <1>1, <2>1 DEF IsInjective
<1> QED
  BY <1>1, <1>2, <1>3 DEF t

\* An arena of new items.
LEMMA ArenaElements ==
    ASSUME NEW first \in Nat
    PROVE  /\ Arena(first) \in Seq(Nat) /\ Arena(first) # <<>> /\ IsInjective(Arena(first))
           /\ ToSet(Arena(first)) = (first + 1)..(first + ArenaSize)
<1>1. ArenaSize \in Nat /\ ArenaSize > 0
  BY ArenaAssumption
<1>2. Arena(first) \in Seq(Nat) /\ Len(Arena(first)) = ArenaSize
  BY <1>1 DEF Arena
<1>3. /\ DOMAIN Arena(first) = 1..ArenaSize
      /\ \A i \in 1..ArenaSize : Arena(first)[i] = first + i
  BY DEF Arena
<1>4. ASSUME NEW n \in (first + 1)..(first + ArenaSize) PROVE n \in ToSet(Arena(first))
  <2>1. n - first \in 1..ArenaSize /\ Arena(first)[n - first] = n
    BY <1>1, <1>3
  <2> QED
    BY <1>3, <2>1 DEF ToSet
<1>5. ToSet(Arena(first)) \subseteq (first + 1)..(first + ArenaSize)
  BY <1>1, <1>3 DEF ToSet
<1>6. IsInjective(Arena(first))
  BY <1>3 DEF IsInjective
<1>7. Arena(first) # <<>>
  BY <1>1, <1>2
<1> QED
  BY <1>2, <1>4, <1>5, <1>6, <1>7

\* All items of a new pool are free.
LEMMA NewPoolFacts ==
    Orderly(NewPool) /\ FreeItems(NewPool) = 1..NewPool.size
<1>1. ArenaSize \in Nat /\ (0 + 1)..(0 + ArenaSize) = 1..ArenaSize
  BY ArenaAssumption
<1>2. Arena(0) \in Seq(Nat) /\ IsInjective(Arena(0)) /\ ToSet(Arena(0)) = 1..ArenaSize
  <2>1. 0 \in Nat
    OBVIOUS
  <2> QED
    BY <1>1, <2>1, ArenaElements
<1>3. NewPool \in Pools /\ NewPool.free_list = Arena(0) /\ NewPool.size = ArenaSize
  BY <1>1, <1>2 DEF NewPool, Pools
<1> QED
  BY <1>2, <1>3 DEF Orderly, FreeItems

\* What allocate finds is free, or part of a new arena.
LEMMA GrownFacts ==
    ASSUME NEW pool, Orderly(pool)
    PROVE  /\ Orderly(Grown(pool)) /\ Grown(pool).free_list # <<>>
           /\ pool.size <= Grown(pool).size
           /\ FreeItems(Grown(pool)) = FreeItems(pool) \cup (pool.size + 1)..Grown(pool).size
<1>1. pool \in Pools /\ pool.size \in Nat /\ pool.free_list \in Seq(Nat)
  BY DEF Orderly, Pools
<1>2. CASE pool.free_list # <<>>
  <2>1. Grown(pool) = pool
    BY <1>2 DEF Grown
  <2>2. (pool.size + 1)..pool.size = {}
    BY <1>1
  <2> QED
    BY <1>1, <1>2, <2>1, <2>2
<1>3. CASE pool.free_list = <<>>
  <2>0. ArenaSize \in Nat /\ pool.size + ArenaSize \in Nat /\ Arena(pool.size) \in Seq(Nat)
    <3>1. ArenaSize \in Nat
      BY ArenaAssumption
    <3>2. Arena(pool.size) \in Seq(Nat)
      BY <1>1, ArenaElements
    <3> QED
      BY <1>1, <3>1, <3>2
  <2>1. /\ Grown(pool).free_list = Arena(pool.size)
        /\ Grown(pool).size = pool.size + ArenaSize /\ Grown(pool) \in Pools
    BY <1>1, <1>3, <2>0 DEF Grown, Pools
  <2>2. FreeItems(pool) = {}
    BY <1>3 DEF FreeItems, ToSet
  <2>3. (pool.size + 1)..(pool.size + ArenaSize) \subseteq 1..(pool.size + ArenaSize)
    BY <1>1, <2>0
  <2>4. /\ Arena(pool.size) # <<>> /\ IsInjective(Arena(pool.size))
        /\ ToSet(Arena(pool.size)) = (pool.size + 1)..(pool.size + ArenaSize)
    BY <1>1, ArenaElements
  <2> QED
    BY <1>1, <2>0, <2>1, <2>2, <2>3, <2>4 DEF Orderly, FreeItems
<1> QED
  BY <1>2, <1>3

\* allocate takes one item.
LEMMA AllocateFacts ==
    ASSUME NEW pool, Orderly(pool)
    PROVE  /\ Orderly(allocate(pool)) /\ pool.size <= allocate(pool).size
           /\ Allocated(pool) \in 1..allocate(pool).size
           /\ Allocated(pool) \notin FreeItems(allocate(pool))
           /\ Allocated(pool) \in FreeItems(pool) \/ Allocated(pool) \notin 1..pool.size
           /\ FreeItems(allocate(pool)) \cup {Allocated(pool)}
                  = FreeItems(pool) \cup (pool.size + 1)..allocate(pool).size
<1> DEFINE g == Grown(pool)
<1>1. /\ g \in Pools /\ g.free_list # <<>> /\ IsInjective(g.free_list)
      /\ FreeItems(g) \subseteq 1..g.size /\ pool.size <= g.size
      /\ FreeItems(g) = FreeItems(pool) \cup (pool.size + 1)..g.size
      /\ pool.size \in Nat
  BY GrownFacts DEF Orderly, Pools
<1>2. /\ Allocated(pool) = Head(g.free_list)
      /\ allocate(pool) = [g EXCEPT !.free_list = Tail(g.free_list)]
  BY DEF Allocated, allocate
<1> HIDE DEF g
<1>3. g.free_list \in Seq(Nat) /\ g.size \in Nat
  BY <1>1 DEF Pools
<1>4. /\ Tail(g.free_list) \in Seq(Nat) /\ Head(g.free_list) \in ToSet(g.free_list)
      /\ IsInjective(Tail(g.free_list))
      /\ Head(g.free_list) \notin ToSet(Tail(g.free_list))
      /\ ToSet(g.free_list) = {Head(g.free_list)} \cup ToSet(Tail(g.free_list))
  BY <1>1, <1>3, TailElements, HeadAndTail
<1>5. /\ allocate(pool) \in Pools /\ allocate(pool).size = g.size
      /\ allocate(pool).free_list = Tail(g.free_list)
  BY <1>1, <1>2, <1>4 DEF Pools
<1>6. Allocated(pool) \in FreeItems(pool) \/ Allocated(pool) \notin 1..pool.size
  BY <1>1, <1>2, <1>4 DEF FreeItems
<1> QED
  BY <1>1, <1>2, <1>4, <1>5, <1>6 DEF Orderly, FreeItems

\* deallocate gives one back.
LEMMA DeallocateFacts ==
    ASSUME NEW pool, Orderly(pool), NEW item \in (1..pool.size) \ FreeItems(pool)
    PROVE  /\ Orderly(deallocate(pool, item)) /\ deallocate(pool, item).size = pool.size
           /\ FreeItems(deallocate(pool, item)) = FreeItems(pool) \cup {item}
<1>1. pool \in Pools /\ pool.free_list \in Seq(Nat) /\ pool.size \in Nat /\ item \in Nat
  BY DEF Orderly, Pools
<1>2. /\ <<item>> \o pool.free_list \in Seq(Nat) /\ IsInjective(<<item>> \o pool.free_list)
      /\ ToSet(<<item>> \o pool.free_list) = {item} \cup ToSet(pool.free_list)
  BY <1>1, FrontElements DEF Orderly, FreeItems
<1>3. /\ deallocate(pool, item) \in Pools /\ deallocate(pool, item).size = pool.size
      /\ deallocate(pool, item).free_list = <<item>> \o pool.free_list
  BY <1>1, <1>2 DEF deallocate, Pools
<1> QED
  BY <1>2, <1>3 DEF Orderly, FreeItems

(***************************************************************************)
(* Queued headers and their payloads.                                      *)
(***************************************************************************)
HeadersGood(pool, queued) ==
    /\ Orderly(pool) /\ queued \in Seq(Nat) /\ IsInjective(queued)
    /\ FreeItems(pool) \cap ToSet(queued) = {}
    /\ FreeItems(pool) \cup ToSet(queued) = 1..pool.size
PayloadsGood(pool, holders, buffer) ==
    /\ Orderly(pool) /\ holders \subseteq DOMAIN buffer
    /\ \A h \in holders : buffer[h] \in (1..pool.size) \ FreeItems(pool)
    /\ \A g, h \in holders : buffer[g] = buffer[h] => g = h

\* A new header is queued.
LEMMA HeaderQueued ==
    ASSUME NEW pool, NEW queued, HeadersGood(pool, queued)
    PROVE  /\ HeadersGood(allocate(pool), Append(queued, Allocated(pool)))
           /\ Allocated(pool) \notin ToSet(queued)
           /\ ToSet(Append(queued, Allocated(pool))) = ToSet(queued) \cup {Allocated(pool)}
<1> DEFINE item == Allocated(pool)
           after == allocate(pool)
<1>1. /\ Orderly(after) /\ pool.size <= after.size /\ item \in 1..after.size
      /\ item \notin FreeItems(after) /\ (item \in FreeItems(pool) \/ item \notin 1..pool.size)
      /\ FreeItems(after) \cup {item} = FreeItems(pool) \cup (pool.size + 1)..after.size
  BY AllocateFacts DEF HeadersGood
<1>2. /\ queued \in Seq(Nat) /\ IsInjective(queued)
      /\ FreeItems(pool) \cap ToSet(queued) = {}
      /\ FreeItems(pool) \cup ToSet(queued) = 1..pool.size
      /\ pool.size \in Nat
  BY DEF HeadersGood, Orderly, Pools
<1>3. after.size \in Nat
  BY <1>1 DEF Orderly, Pools
<1> HIDE DEF item, after
<1>4. item \notin ToSet(queued) /\ item \in Nat
  BY <1>1, <1>2, <1>3
<1>5. /\ Append(queued, item) \in Seq(Nat) /\ IsInjective(Append(queued, item))
      /\ ToSet(Append(queued, item)) = ToSet(queued) \cup {item}
  BY <1>2, <1>4, AppendElements
<1>6. FreeItems(after) \cap (ToSet(queued) \cup {item}) = {}
  BY <1>1, <1>2, <1>3
<1>7. FreeItems(after) \cup (ToSet(queued) \cup {item}) = 1..after.size
  <2>1. FreeItems(after) \cup (ToSet(queued) \cup {item})
            = (1..pool.size) \cup (pool.size + 1)..after.size
    BY <1>1, <1>2
  <2>2. (1..pool.size) \cup (pool.size + 1)..after.size = 1..after.size
    BY <1>1, <1>2, <1>3
  <2> QED
    BY <2>1, <2>2
<1> QED
  BY <1>1, <1>4, <1>5, <1>6, <1>7 DEF HeadersGood, item, after

\* A header that is not needed goes back.
LEMMA HeaderDropped ==
    ASSUME NEW pool, NEW queued, HeadersGood(pool, queued)
    PROVE  HeadersGood(deallocate(allocate(pool), Allocated(pool)), queued)
<1> DEFINE item == Allocated(pool)
           taken == allocate(pool)
           after == deallocate(taken, item)
<1>1. /\ Orderly(taken) /\ pool.size <= taken.size /\ item \in 1..taken.size
      /\ item \notin FreeItems(taken)
      /\ FreeItems(taken) \cup {item} = FreeItems(pool) \cup (pool.size + 1)..taken.size
  BY AllocateFacts DEF HeadersGood
<1>2. /\ queued \in Seq(Nat) /\ IsInjective(queued)
      /\ FreeItems(pool) \cap ToSet(queued) = {}
      /\ FreeItems(pool) \cup ToSet(queued) = 1..pool.size
      /\ pool.size \in Nat /\ taken.size \in Nat
  BY <1>1 DEF HeadersGood, Orderly, Pools
<1>3. Orderly(after) /\ after.size = taken.size /\ FreeItems(after) = FreeItems(taken) \cup {item}
  BY <1>1, DeallocateFacts
<1> HIDE DEF item, taken, after
<1>4. FreeItems(after) \cap ToSet(queued) = {}
  BY <1>1, <1>2, <1>3
<1>5. FreeItems(after) \cup ToSet(queued) = 1..after.size
  <2>1. FreeItems(after) \cup ToSet(queued) = (1..pool.size) \cup (pool.size + 1)..taken.size
    BY <1>1, <1>2, <1>3
  <2>2. (1..pool.size) \cup (pool.size + 1)..taken.size = 1..taken.size
    BY <1>1, <1>2
  <2> QED
    BY <2>1, <2>2, <1>3
<1> QED
  BY <1>2, <1>3, <1>4, <1>5 DEF HeadersGood, after, taken, item

\* A header that has been matched goes back.
LEMMA HeaderReleased ==
    ASSUME NEW pool, NEW queued, HeadersGood(pool, queued), NEW i \in 1..Len(queued)
    PROVE  /\ HeadersGood(deallocate(pool, queued[i]), RemoveAt(queued, i))
           /\ ToSet(RemoveAt(queued, i)) = ToSet(queued) \ {queued[i]}
<1> DEFINE item == queued[i]
           rest == RemoveAt(queued, i)
           after == deallocate(pool, item)
<1>1. /\ queued \in Seq(Nat) /\ IsInjective(queued) /\ Orderly(pool)
      /\ FreeItems(pool) \cap ToSet(queued) = {}
      /\ FreeItems(pool) \cup ToSet(queued) = 1..pool.size
  BY DEF HeadersGood
<1>2. /\ rest \in Seq(Nat) /\ item \in ToSet(queued) /\ ToSet(rest) \subseteq ToSet(queued)
      /\ \A e \in ToSet(queued) : e # item => e \in ToSet(rest)
      /\ IsInjective(rest) /\ item \notin ToSet(rest)
  BY <1>1, RemoveAtElements
<1>3. Orderly(after) /\ after.size = pool.size /\ FreeItems(after) = FreeItems(pool) \cup {item}
  BY <1>1, <1>2, DeallocateFacts
<1> HIDE DEF item, rest, after
<1> QED
  BY <1>1, <1>2, <1>3 DEF HeadersGood, item, rest, after

\* A payload is stored under a header that holds none.
LEMMA PayloadStored ==
    ASSUME NEW pool, NEW holders, NEW buffer, NEW h, PayloadsGood(pool, holders, buffer),
           h \notin holders
    PROVE  PayloadsGood(allocate(pool), holders \cup {h}, Stored(buffer, h, Allocated(pool)))
<1> DEFINE item == Allocated(pool)
           taken == allocate(pool)
           after == Stored(buffer, h, item)
<1>1. /\ Orderly(taken) /\ pool.size <= taken.size /\ item \in 1..taken.size
      /\ item \notin FreeItems(taken)
      /\ item \in FreeItems(pool) \/ item \notin 1..pool.size
      /\ FreeItems(taken) \cup {item} = FreeItems(pool) \cup (pool.size + 1)..taken.size
  BY AllocateFacts DEF PayloadsGood
<1>2. /\ pool.size \in Nat /\ taken.size \in Nat /\ holders \subseteq DOMAIN buffer
      /\ \A g \in holders : buffer[g] \in (1..pool.size) \ FreeItems(pool)
      /\ \A g, k \in holders : buffer[g] = buffer[k] => g = k
  BY <1>1 DEF PayloadsGood, Orderly, Pools
<1>3. /\ DOMAIN after = (DOMAIN buffer) \cup {h} /\ after[h] = item
      /\ \A g \in holders : after[g] = buffer[g]
  BY <1>2 DEF Stored
<1> HIDE DEF item, taken, after
<1>4. \A g \in holders : buffer[g] \in (1..taken.size) \ FreeItems(taken) /\ buffer[g] # item
  <2> SUFFICES ASSUME NEW g \in holders
               PROVE  buffer[g] \in (1..taken.size) \ FreeItems(taken) /\ buffer[g] # item
    OBVIOUS
  <2>1. buffer[g] \in 1..pool.size /\ buffer[g] \notin FreeItems(pool)
    BY <1>2
  <2>2. buffer[g] \notin (pool.size + 1)..taken.size /\ buffer[g] \in 1..taken.size
    BY <1>1, <1>2, <2>1
  <2> QED
    BY <1>1, <2>1, <2>2
<1> QED
  BY <1>1, <1>2, <1>3, <1>4 DEF PayloadsGood, item, taken, after

\* Fewer headers are good ones all the more.
LEMMA PayloadsFewer ==
    ASSUME NEW pool, NEW holders, NEW buffer, PayloadsGood(pool, holders, buffer),
           NEW S \in SUBSET holders
    PROVE  PayloadsGood(pool, S, buffer)
BY DEF PayloadsGood

\* The payload that fill has copied goes back.
LEMMA PayloadFreed ==
    ASSUME NEW pool, NEW holders, NEW buffer, PayloadsGood(pool, holders, buffer),
           NEW h \in holders
    PROVE  PayloadsGood(deallocate(pool, buffer[h]), holders \ {h}, buffer)
<1> DEFINE after == deallocate(pool, buffer[h])
<1>1. /\ Orderly(pool) /\ holders \subseteq DOMAIN buffer
      /\ \A g \in holders : buffer[g] \in (1..pool.size) \ FreeItems(pool)
      /\ \A g, k \in holders : buffer[g] = buffer[k] => g = k
  BY DEF PayloadsGood
<1>2. /\ Orderly(after) /\ after.size = pool.size
      /\ FreeItems(after) = FreeItems(pool) \cup {buffer[h]}
  BY <1>1, DeallocateFacts
<1> HIDE DEF after
<1> QED
  BY <1>1, <1>2 DEF PayloadsGood, after

(***************************************************************************)
(* The invariant. What a rank has queued and stored, the datagrams on      *)
(* their way, of which only the messages of cleanup have no payload, and   *)
(* the receives that are left posted: none of them is one of cleanup.      *)
(***************************************************************************)
RankGood(r) ==
    /\ HeadersGood(header_pool[r], received_header_queue[r])
    /\ PayloadsGood(payload_pool[r], WithPayload(r), payload_buffer[r])
    /\ ToSet(received_header_queue[r]) \subseteq DOMAIN headers[r]
RanksGood ==
    /\ DOMAIN header_pool = Ranks /\ DOMAIN payload_pool = Ranks
    /\ DOMAIN headers = Ranks /\ DOMAIN payload_buffer = Ranks
    /\ DOMAIN received_header_queue = Ranks
    /\ \A r \in Ranks : RankGood(r)
HasPayload(datagram) == datagram.header.tag # MPIX_CLEANUP_TAG => datagram.length > 0
NetworkGood ==
    \E S : /\ \A datagram \in S : HasPayload(datagram)
          /\ network \in [Ranks \X Ranks -> Seq(S)]
LeftGood ==
    \E S : /\ \A envelope \in S : envelope.tag = 0
          /\ posted_request_queue \in [Ranks -> Seq(S)]
PoolInv == RanksGood /\ NetworkGood /\ LeftGood

queueVars == <<world_size, received_header_queue, poolVars>>

\* Sequences over a set are sequences over a larger one.
LEMMA SeqLarger ==
    ASSUME NEW S, NEW T, S \subseteq T, NEW s \in Seq(S)
    PROVE  s \in Seq(T)
<1>1. s \in [1..Len(s) -> S] /\ Len(s) \in Nat
  OBVIOUS
<1>2. s \in [1..Len(s) -> T]
  BY <1>1
<1> QED
  BY <1>1, <1>2

\* The receives that are left posted: one more, one less, none any more, or no change.
LEMMA LeftGrows ==
    ASSUME LeftGood, UNCHANGED world_size, NEW r, NEW envelope, envelope.tag = 0,
           posted_request_queue' = [posted_request_queue EXCEPT ![r] = Append(@, envelope)]
    PROVE  LeftGood'
<1>1. PICK S : /\ \A e \in S : e.tag = 0
               /\ posted_request_queue \in [Ranks -> Seq(S)]
  BY DEF LeftGood
<1> DEFINE T == S \cup {envelope}
<1>2. Ranks' = Ranks /\ \A e \in T : e.tag = 0
  BY <1>1 DEF Ranks
<1>3. \A q \in Ranks : posted_request_queue[q] \in Seq(T)
  BY <1>1, SeqLarger
<1>4. \A q \in Ranks : Append(posted_request_queue[q], envelope) \in Seq(T)
  <2> SUFFICES ASSUME NEW q \in Ranks
               PROVE  Append(posted_request_queue[q], envelope) \in Seq(T)
    OBVIOUS
  <2>1. posted_request_queue[q] \in Seq(T) /\ envelope \in T
    BY <1>3
  <2> HIDE DEF T
  <2> QED
    BY <2>1
<1>5. posted_request_queue' \in [Ranks -> Seq(T)]
  <2> HIDE DEF T
  <2> QED
    BY <1>1, <1>3, <1>4
<1> HIDE DEF T
<1> QED
  BY <1>2, <1>5 DEF LeftGood

LEMMA LeftShrinks ==
    ASSUME LeftGood, UNCHANGED world_size, NEW r \in Ranks,
           NEW i \in 1..Len(posted_request_queue[r]),
           posted_request_queue' = [posted_request_queue EXCEPT ![r] = RemoveAt(@, i)]
    PROVE  LeftGood'
<1>1. PICK S : /\ \A e \in S : e.tag = 0
               /\ posted_request_queue \in [Ranks -> Seq(S)]
  BY DEF LeftGood
<1>2. RemoveAt(posted_request_queue[r], i) \in Seq(S)
  BY <1>1, RemoveAtElements
<1>3. posted_request_queue' \in [Ranks -> Seq(S)] /\ Ranks' = Ranks
  BY <1>1, <1>2 DEF Ranks
<1> QED
  BY <1>1, <1>3 DEF LeftGood

LEMMA LeftEmptied ==
    ASSUME LeftGood, UNCHANGED world_size, NEW r,
           posted_request_queue' = [posted_request_queue EXCEPT ![r] = <<>>]
    PROVE  LeftGood'
<1>1. PICK S : /\ \A e \in S : e.tag = 0
               /\ posted_request_queue \in [Ranks -> Seq(S)]
  BY DEF LeftGood
<1>2. <<>> \in Seq(S)
  OBVIOUS
<1>3. posted_request_queue' \in [Ranks -> Seq(S)] /\ Ranks' = Ranks
  BY <1>1, <1>2 DEF Ranks
<1> QED
  BY <1>1, <1>3 DEF LeftGood

LEMMA LeftKept ==
    ASSUME LeftGood, UNCHANGED <<world_size, posted_request_queue>>
    PROVE  LeftGood'
BY DEF LeftGood, Ranks

\* A receive is posted.
LEMMA ReceivePosted ==
    ASSUME LeftGood, UNCHANGED world_size, NEW r, Post(r)
    PROVE  LeftGood'
<1> DEFINE envelope == Envelope(r, ReceiveOf(r)[1].peer)
<1>1. /\ posted_request_queue' = [posted_request_queue EXCEPT ![r] = Append(@, envelope)]
      /\ envelope.tag = 0
  BY DEF Post, Envelope
<1> HIDE DEF envelope
<1> QED
  BY <1>1, LeftGrows

\* A datagram is sent.
LEMMA NetworkGrows ==
    ASSUME NetworkGood, UNCHANGED world_size, NEW pair, NEW datagram, HasPayload(datagram),
           network' = [network EXCEPT ![pair] = Append(@, datagram)]
    PROVE  NetworkGood'
<1>1. PICK S : /\ \A d \in S : HasPayload(d)
               /\ network \in [Ranks \X Ranks -> Seq(S)]
  BY DEF NetworkGood
<1> DEFINE T == S \cup {datagram}
<1>2. Ranks' = Ranks /\ \A d \in T : HasPayload(d)
  BY <1>1 DEF Ranks
<1>3. \A q \in Ranks \X Ranks : network[q] \in Seq(T)
  BY <1>1, SeqLarger
<1>4. \A q \in Ranks \X Ranks : Append(network[q], datagram) \in Seq(T)
  <2> SUFFICES ASSUME NEW q \in Ranks \X Ranks
               PROVE  Append(network[q], datagram) \in Seq(T)
    OBVIOUS
  <2>1. network[q] \in Seq(T) /\ datagram \in T
    BY <1>3
  <2> HIDE DEF T
  <2> QED
    BY <2>1
<1>5. network' \in [Ranks \X Ranks -> Seq(T)]
  <2> HIDE DEF T
  <2> QED
    BY <1>1, <1>3, <1>4
<1>6. \A d \in T : HasPayload(d)'
  BY <1>2 DEF HasPayload, MPIX_CLEANUP_TAG
<1> HIDE DEF T
<1> QED
  BY <1>2, <1>5, <1>6 DEF NetworkGood

\* A datagram is taken, and has a payload if it is not of cleanup.
LEMMA NetworkShrinks ==
    ASSUME NetworkGood, UNCHANGED world_size, NEW pair \in Ranks \X Ranks,
           network[pair] # <<>>, network' = [network EXCEPT ![pair] = Tail(@)]
    PROVE  NetworkGood' /\ HasPayload(Head(network[pair]))
<1>1. PICK S : /\ \A d \in S : HasPayload(d)
               /\ network \in [Ranks \X Ranks -> Seq(S)]
  BY DEF NetworkGood
<1>2. Tail(network[pair]) \in Seq(S) /\ Head(network[pair]) \in S
  BY <1>1, TailElements
<1>3. network' \in [Ranks \X Ranks -> Seq(S)] /\ Ranks' = Ranks
  BY <1>1, <1>2 DEF Ranks
<1>4. \A d \in S : HasPayload(d)'
  BY <1>1 DEF HasPayload, MPIX_CLEANUP_TAG
<1> QED
  BY <1>1, <1>2, <1>3, <1>4 DEF NetworkGood

\* What leaves queues and pools alone.
LEMMA RankKept ==
    ASSUME NEW r,
           header_pool'[r] = header_pool[r], payload_pool'[r] = payload_pool[r],
           headers'[r] = headers[r], payload_buffer'[r] = payload_buffer[r],
           received_header_queue'[r] = received_header_queue[r], RankGood(r)
    PROVE  RankGood(r)'
BY DEF RankGood, WithPayload, MPIX_CLEANUP_TAG

LEMMA RanksKept ==
    ASSUME RanksGood, UNCHANGED queueVars
    PROVE  RanksGood'
<1>1. Ranks' = Ranks
  BY DEF queueVars, Ranks
<1>2. \A r \in Ranks : RankGood(r)'
  BY RankKept DEF queueVars, poolVars, RanksGood
<1> QED
  BY <1>1, <1>2 DEF RanksGood, queueVars, poolVars

\* What changes those of one rank.
LEMMA OneRank ==
    ASSUME RanksGood, UNCHANGED world_size, NEW r, r \in Ranks => RankGood(r)',
           DOMAIN header_pool' = Ranks, DOMAIN payload_pool' = Ranks,
           DOMAIN headers' = Ranks, DOMAIN payload_buffer' = Ranks,
           DOMAIN received_header_queue' = Ranks,
           \A q \in Ranks \ {r} :
              /\ header_pool'[q] = header_pool[q] /\ payload_pool'[q] = payload_pool[q]
              /\ headers'[q] = headers[q] /\ payload_buffer'[q] = payload_buffer[q]
              /\ received_header_queue'[q] = received_header_queue[q]
    PROVE  RanksGood'
<1>1. Ranks' = Ranks
  BY DEF Ranks
<1>2. \A q \in Ranks \ {r} : RankGood(q)'
  BY RankKept DEF RanksGood
<1> QED
  BY <1>1, <1>2 DEF RanksGood

(***************************************************************************)
(* The steps that touch the pools of a rank.                               *)
(***************************************************************************)

\* A payload that arrives is stored under its header's address, which no header in
\* WithPayload has.
LEMMA PayloadArrives ==
    ASSUME NEW r \in Ranks, NEW source, RanksGood, TakePayload(r, source),
           HasPayload(Head(network[<<source, r>>]))
    PROVE  LET h == ReceivedHeader(r)
               datagram == Head(network[<<source, r>>])
           IN  /\ DOMAIN payload_pool' = Ranks /\ DOMAIN payload_buffer' = Ranks
               /\ \A q \in Ranks \ {r} : /\ payload_pool'[q] = payload_pool[q]
                                         /\ payload_buffer'[q] = payload_buffer[q]
               /\ PayloadsGood(payload_pool'[r], WithPayload(r), payload_buffer'[r])
               /\ datagram.header.tag # MPIX_CLEANUP_TAG =>
                     PayloadsGood(payload_pool'[r], WithPayload(r) \cup {h}, payload_buffer'[r])
<1> DEFINE h == ReceivedHeader(r)
           datagram == Head(network[<<source, r>>])
           pool == payload_pool[r]
           buffer == payload_buffer[r]
<1>1. /\ HeadersGood(header_pool[r], received_header_queue[r])
      /\ PayloadsGood(pool, WithPayload(r), buffer)
      /\ DOMAIN payload_pool = Ranks /\ DOMAIN payload_buffer = Ranks
  BY DEF RanksGood, RankGood
<1>2. h \notin WithPayload(r)
  BY <1>1, HeaderQueued DEF WithPayload, ReceivedHeader
<1>3. CASE datagram.length > 0
  <2>1. /\ payload_pool' = [payload_pool EXCEPT ![r] = allocate(pool)]
        /\ payload_buffer' = [payload_buffer EXCEPT ![r] = Stored(buffer, h, Allocated(pool))]
    BY <1>3 DEF TakePayload
  <2>2. PayloadsGood(allocate(pool), WithPayload(r) \cup {h}, Stored(buffer, h, Allocated(pool)))
    BY <1>1, <1>2, PayloadStored
  <2>3. PayloadsGood(allocate(pool), WithPayload(r), Stored(buffer, h, Allocated(pool)))
    BY <2>2, PayloadsFewer
  <2> QED
    BY <1>1, <2>1, <2>2, <2>3
<1>4. CASE ~(datagram.length > 0)
  <2>1. payload_pool' = payload_pool /\ payload_buffer' = payload_buffer
    BY <1>4 DEF TakePayload
  <2>2. datagram.header.tag = MPIX_CLEANUP_TAG
    BY <1>4 DEF HasPayload
  <2> QED
    BY <1>1, <2>1, <2>2
<1> QED
  BY <1>3, <1>4

\* The progress thread takes a datagram, and queues its header or drops it.
LEMMA PostHeaderKeeps ==
    ASSUME PoolInv, UNCHANGED world_size, NEW r \in Ranks, NEW source \in Ranks,
           post_header(r, source)
    PROVE  PoolInv'
<1> DEFINE h == ReceivedHeader(r)
           datagram == Head(network[<<source, r>>])
           queued == received_header_queue[r]
<1>1. TakePayload(r, source) /\ network[<<source, r>>] # <<>>
  BY DEF post_header, ordered_recv, ordered_recv_and_drop
<1>2. network' = [network EXCEPT ![<<source, r>>] = Tail(@)]
  BY <1>1 DEF TakePayload
<1>3. NetworkGood' /\ HasPayload(datagram)
  BY <1>1, <1>2, NetworkShrinks DEF PoolInv
<1>4. /\ RanksGood /\ HeadersGood(header_pool[r], queued)
      /\ ToSet(queued) \subseteq DOMAIN headers[r]
      /\ DOMAIN header_pool = Ranks /\ DOMAIN headers = Ranks
      /\ DOMAIN received_header_queue = Ranks
  BY DEF PoolInv, RanksGood, RankGood
<1>5. /\ DOMAIN payload_pool' = Ranks /\ DOMAIN payload_buffer' = Ranks
      /\ \A q \in Ranks \ {r} : /\ payload_pool'[q] = payload_pool[q]
                                /\ payload_buffer'[q] = payload_buffer[q]
      /\ PayloadsGood(payload_pool'[r], WithPayload(r), payload_buffer'[r])
      /\ datagram.header.tag # MPIX_CLEANUP_TAG =>
             PayloadsGood(payload_pool'[r], WithPayload(r) \cup {h}, payload_buffer'[r])
  BY <1>1, <1>3, <1>4, PayloadArrives
<1>0. LeftGood'
  BY LeftEmptied, LeftKept DEF PoolInv, post_header, halt
<1>6. CASE datagram.header.epoch < epoch[r]
  <2>1. /\ header_pool' = [header_pool EXCEPT ![r] = deallocate(allocate(header_pool[r]), h)]
        /\ headers' = headers /\ received_header_queue' = received_header_queue
    BY <1>6, <1>4 DEF post_header, ordered_recv_and_drop
  <2>2. HeadersGood(deallocate(allocate(header_pool[r]), h), queued)
    BY <1>4, HeaderDropped DEF ReceivedHeader
  <2>3. WithPayload(r)' = WithPayload(r)
    BY <2>1 DEF WithPayload, MPIX_CLEANUP_TAG
  <2>4. RankGood(r)'
    BY <1>4, <1>5, <2>1, <2>2, <2>3 DEF RankGood
  <2>5. RanksGood'
    BY <1>4, <1>5, <2>1, <2>4, OneRank
  <2> QED
    BY <1>0, <1>3, <2>5 DEF PoolInv
<1>7. CASE ~(datagram.header.epoch < epoch[r])
  <2>1. /\ header_pool' = [header_pool EXCEPT ![r] = allocate(header_pool[r])]
        /\ headers' = [headers EXCEPT ![r] = Stored(headers[r], h, datagram.header)]
        /\ received_header_queue' = [received_header_queue EXCEPT ![r] = Append(queued, h)]
    BY <1>7 DEF post_header, ordered_recv
  <2>2. /\ HeadersGood(allocate(header_pool[r]), Append(queued, h))
        /\ h \notin ToSet(queued) /\ ToSet(Append(queued, h)) = ToSet(queued) \cup {h}
    BY <1>4, HeaderQueued DEF ReceivedHeader
  <2>3. /\ header_pool'[r] = allocate(header_pool[r])
        /\ headers'[r] = Stored(headers[r], h, datagram.header)
        /\ received_header_queue'[r] = Append(queued, h)
    BY <1>4, <2>1
  <2>4. /\ DOMAIN Stored(headers[r], h, datagram.header) = (DOMAIN headers[r]) \cup {h}
        /\ Stored(headers[r], h, datagram.header)[h] = datagram.header
        /\ \A g \in ToSet(queued) : Stored(headers[r], h, datagram.header)[g] = headers[r][g]
    BY <1>4, <2>2 DEF Stored
  <2>5. WithPayload(r)' = IF datagram.header.tag # MPIX_CLEANUP_TAG
                          THEN WithPayload(r) \cup {h} ELSE WithPayload(r)
    <3> HIDE DEF h, datagram, queued
    <3>1. WithPayload(r)' = {g \in ToSet(queued) \cup {h} :
                                headers'[r][g].tag # MPIX_CLEANUP_TAG}
      BY <2>2, <2>3 DEF WithPayload, MPIX_CLEANUP_TAG
    <3>2. WithPayload(r) = {g \in ToSet(queued) : headers[r][g].tag # MPIX_CLEANUP_TAG}
      BY DEF WithPayload, queued
    <3> QED
      BY <2>3, <2>4, <3>1, <3>2
  <2>6. RankGood(r)'
    BY <1>4, <1>5, <2>2, <2>3, <2>4, <2>5 DEF RankGood
  <2>7. RanksGood'
    BY <1>4, <1>5, <2>1, <2>6, OneRank
  <2> QED
    BY <1>0, <1>3, <2>7 DEF PoolInv
<1> QED
  BY <1>6, <1>7

\* What is sent has a payload, or is of cleanup.
LEMMA SendKeeps ==
    ASSUME NetworkGood, UNCHANGED world_size, NEW r, NEW destination, NEW header, NEW length,
           NEW payload, reliable_send(r, destination, header, length, payload),
           length = 1 \/ header.tag = MPIX_CLEANUP_TAG
    PROVE  NetworkGood'
<1> DEFINE datagram == [header |-> header, length |-> length, payload |-> payload]
<1>1. network' = [network EXCEPT ![<<r, destination>>] = Append(@, datagram)]
  BY DEF reliable_send
<1>2. HasPayload(datagram)
  BY DEF HasPayload
<1> HIDE DEF datagram
<1> QED
  BY <1>1, <1>2, NetworkGrows

LEMMA NetworkKept ==
    ASSUME NetworkGood, UNCHANGED <<world_size, network>>
    PROVE  NetworkGood'
BY DEF NetworkGood, Ranks, HasPayload, MPIX_CLEANUP_TAG

\* What a receive finds is a message with a payload: tag 0 is not that of cleanup.
LEMMA FoundHasPayload ==
    ASSUME NEW r \in Ranks, RankGood(r), NEW S, NEW posted \in Seq(S),
           \A e \in S : e.tag = 0, MatchingPairs(posted, Received(r)) # {}
    PROVE  LET match == FirstMatch(posted, Received(r))
           IN  /\ match[1] \in 1..Len(posted)
               /\ match[2] \in 1..Len(received_header_queue[r])
               /\ received_header_queue[r][match[2]] \in WithPayload(r)
               /\ headers[r][received_header_queue[r][match[2]]].tag = 0
<1> DEFINE queued == received_header_queue[r]
           match == FirstMatch(posted, Received(r))
<1>1. queued \in Seq(Nat)
  BY DEF RankGood, HeadersGood
<1>2. /\ DOMAIN Received(r) = 1..Len(queued) /\ DOMAIN posted = 1..Len(posted)
      /\ \A i \in 1..Len(queued) : Received(r)[i] = headers[r][queued[i]]
      /\ \A i \in 1..Len(posted) : posted[i].tag = 0
      /\ Len(queued) \in Nat /\ Len(posted) \in Nat
  BY <1>1 DEF Received
<1>3. match \in MatchingPairs(posted, Received(r))
  <2>1. DOMAIN Received(r) \subseteq Nat /\ DOMAIN posted \subseteq Nat
    BY <1>2
  <2> QED
    BY <2>1, FirstMatchFits
<1>4. /\ match[1] \in 1..Len(posted) /\ match[2] \in 1..Len(queued)
      /\ posted[match[1]].tag \in {Received(r)[match[2]].tag, AnyTag}
  BY <1>2, <1>3 DEF MatchingPairs, Matches
<1>5. headers[r][queued[match[2]]].tag = 0
  BY <1>2, <1>4, CollectivesAssumption
<1>6. queued[match[2]] \in ToSet(queued)
  BY <1>1, <1>4, ElementsType
<1> QED
  BY <1>4, <1>5, <1>6 DEF WithPayload, MPIX_CLEANUP_TAG

\* A header that is matched goes back, with its payload.
LEMMA HeaderTaken ==
    ASSUME RanksGood, NetworkGood, UNCHANGED world_size, NEW r \in Ranks,
           NEW k \in 1..Len(received_header_queue[r]),
           received_header_queue[r][k] \in WithPayload(r),
           NEW protocol, NEW envelope, NEW content,
           handle_match(r, received_header_queue[r][k], protocol, envelope, content),
           received_header_queue' =
               [received_header_queue EXCEPT ![r] = RemoveAt(received_header_queue[r], k)]
    PROVE  RanksGood' /\ NetworkGood'
<1> DEFINE queued == received_header_queue[r]
           h == queued[k]
           buffer == payload_buffer[r]
<1>1. /\ RanksGood /\ RankGood(r) /\ NetworkGood
      /\ HeadersGood(header_pool[r], queued)
      /\ PayloadsGood(payload_pool[r], WithPayload(r), buffer)
      /\ ToSet(queued) \subseteq DOMAIN headers[r]
      /\ DOMAIN header_pool = Ranks /\ DOMAIN headers = Ranks
      /\ DOMAIN received_header_queue = Ranks /\ DOMAIN payload_pool = Ranks
      /\ DOMAIN payload_buffer = Ranks
  BY DEF RanksGood, RankGood
<1>2. /\ handle_match(r, h, protocol, envelope, content)
      /\ received_header_queue' = [received_header_queue EXCEPT ![r] = RemoveAt(queued, k)]
  OBVIOUS
<1>3. k \in 1..Len(queued) /\ h \in WithPayload(r)
  OBVIOUS
<1>4. NetworkGood'
  <2>1. CASE protocol = "EAGER_ACK"
    BY <1>1, <1>2, <2>1, SendKeeps DEF handle_match
  <2>2. CASE protocol # "EAGER_ACK"
    BY <1>1, <1>2, <2>2, NetworkKept DEF handle_match
  <2> QED
    BY <2>1, <2>2
<1>5. release_header(r, h)
  BY <1>2 DEF handle_match, fill
<1>6. /\ header_pool' = [header_pool EXCEPT ![r] = deallocate(header_pool[r], h)]
      /\ headers' = [headers EXCEPT ![r] = Without(headers[r], h)]
  BY <1>5 DEF release_header
<1>7. /\ HeadersGood(deallocate(header_pool[r], h), RemoveAt(queued, k))
      /\ ToSet(RemoveAt(queued, k)) = ToSet(queued) \ {h}
  BY <1>1, <1>3, HeaderReleased
<1>8. /\ header_pool'[r] = deallocate(header_pool[r], h)
      /\ headers'[r] = Without(headers[r], h)
      /\ received_header_queue'[r] = RemoveAt(queued, k)
  BY <1>1, <1>2, <1>6
<1>9. /\ DOMAIN Without(headers[r], h) = (DOMAIN headers[r]) \ {h}
      /\ \A g \in ToSet(queued) \ {h} : Without(headers[r], h)[g] = headers[r][g]
  BY <1>1 DEF Without
<1>10. WithPayload(r)' = WithPayload(r) \ {h}
  <2> HIDE DEF h, buffer, queued
  <2>1. WithPayload(r)' = {g \in ToSet(queued) \ {h} : headers'[r][g].tag # MPIX_CLEANUP_TAG}
    BY <1>7, <1>8 DEF WithPayload, MPIX_CLEANUP_TAG
  <2>2. WithPayload(r) = {g \in ToSet(queued) : headers[r][g].tag # MPIX_CLEANUP_TAG}
    BY DEF WithPayload, queued
  <2> QED
    BY <1>8, <1>9, <2>1, <2>2
<1>11. /\ DOMAIN payload_pool' = Ranks /\ DOMAIN payload_buffer' = Ranks
       /\ \A q \in Ranks \ {r} : /\ payload_pool'[q] = payload_pool[q]
                                 /\ payload_buffer'[q] = payload_buffer[q]
       /\ PayloadsGood(payload_pool'[r], WithPayload(r) \ {h}, payload_buffer'[r])
  <2>1. CASE protocol = "ACK"
    <3>1. payload_pool' = payload_pool /\ payload_buffer' = payload_buffer
      BY <1>2, <2>1 DEF handle_match
    <3>2. PayloadsGood(payload_pool[r], WithPayload(r) \ {h}, buffer)
      BY <1>1, PayloadsFewer
    <3> QED
      BY <1>1, <3>1, <3>2
  <2>2. CASE protocol # "ACK"
    <3>1. /\ payload_pool' = [payload_pool EXCEPT ![r] = deallocate(payload_pool[r], buffer[h])]
          /\ payload_buffer' = payload_buffer
      BY <1>2, <2>2 DEF handle_match, fill
    <3>2. PayloadsGood(deallocate(payload_pool[r], buffer[h]), WithPayload(r) \ {h}, buffer)
      BY <1>1, <1>3, PayloadFreed
    <3> QED
      BY <1>1, <3>1, <3>2
  <2> QED
    BY <2>1, <2>2
<1>12. RankGood(r)'
  BY <1>1, <1>7, <1>8, <1>9, <1>10, <1>11 DEF RankGood
<1>13. RanksGood'
  BY <1>1, <1>2, <1>6, <1>11, <1>12, OneRank
<1> QED
  BY <1>4, <1>13

\* The receive of a call finds a message.
LEMMA RecvFinds ==
    ASSUME NEW r \in Ranks, RankGood(r), Matching(r)
    PROVE  /\ Position(r) \in 1..Len(received_header_queue[r])
           /\ received_header_queue[r][Position(r)] \in WithPayload(r)
<1>1. PICK e : e = Expected(r)[1] /\ e.tag = 0 /\ Expected(r) = <<e>>
  BY DEF Expected, Envelope
<1>2. Expected(r) \in Seq({e}) /\ \A d \in {e} : d.tag = 0
  BY <1>1
<1> QED
  BY <1>2, FoundHasPayload DEF Position, Matching

\* So does one that an interrupted call has left posted.
LEMMA AbandonedFinds ==
    ASSUME NEW r \in Ranks, RankGood(r), LeftGood, Wanted(r)
    PROVE  LET match == FirstMatch(posted_request_queue[r], Received(r))
           IN  /\ match[1] \in 1..Len(posted_request_queue[r])
               /\ match[2] \in 1..Len(received_header_queue[r])
               /\ received_header_queue[r][match[2]] \in WithPayload(r)
               /\ headers[r][received_header_queue[r][match[2]]].tag = 0
<1>1. PICK S : /\ \A e \in S : e.tag = 0
               /\ posted_request_queue \in [Ranks -> Seq(S)]
  BY DEF LeftGood
<1>2. posted_request_queue[r] \in Seq(S) /\ \A e \in S : e.tag = 0
  BY <1>1
<1> QED
  BY <1>2, FoundHasPayload DEF Wanted

\* A receive takes its message, and gives header and payload back.
LEMMA RecvKeeps ==
    ASSUME PoolInv, UNCHANGED world_size, NEW r \in Ranks, MPI_Recv(r)
    PROVE  PoolInv'
<1> DEFINE queued == received_header_queue[r]
<1>1. /\ RanksGood /\ NetworkGood /\ RankGood(r) /\ LeftGood' /\ Matching(r)
      /\ received_header_queue' = [received_header_queue EXCEPT ![r] = RemoveAt(queued, Position(r))]
  BY LeftKept DEF PoolInv, RanksGood, MPI_Recv, leftVars
<1>2. PICK protocol, content :
          handle_match(r, queued[Position(r)], protocol, Expected(r)[1], content)
  BY DEF MPI_Recv
<1>3. Position(r) \in 1..Len(queued) /\ queued[Position(r)] \in WithPayload(r)
  BY <1>1, RecvFinds
<1>4. RanksGood' /\ NetworkGood'
  BY <1>1, <1>2, <1>3, HeaderTaken
<1> QED
  BY <1>1, <1>4 DEF PoolInv

\* So does a receive that is left posted.
LEMMA AbandonedKeeps ==
    ASSUME PoolInv, UNCHANGED world_size, NEW r \in Ranks, match_abandoned(r)
    PROVE  PoolInv'
<1> DEFINE queued == received_header_queue[r]
           posted == posted_request_queue[r]
           match == FirstMatch(posted, Received(r))
<1>1. /\ RanksGood /\ NetworkGood /\ RankGood(r) /\ LeftGood /\ Wanted(r)
      /\ received_header_queue' = [received_header_queue EXCEPT ![r] = RemoveAt(queued, match[2])]
      /\ posted_request_queue' = [posted_request_queue EXCEPT ![r] = RemoveAt(posted, match[1])]
  BY DEF PoolInv, RanksGood, match_abandoned
<1>2. PICK protocol, envelope :
          handle_match(r, queued[match[2]], protocol, envelope, 0)
  BY DEF match_abandoned
<1>3. /\ match[1] \in 1..Len(posted) /\ match[2] \in 1..Len(queued)
      /\ queued[match[2]] \in WithPayload(r)
  BY <1>1, AbandonedFinds
<1> HIDE DEF match
<1>4. RanksGood' /\ NetworkGood'
  BY <1>1, <1>2, <1>3, HeaderTaken
<1>5. LeftGood'
  BY <1>1, <1>3, LeftShrinks
<1> QED
  BY <1>4, <1>5 DEF PoolInv

\* A new transport has a new pool, in which all is free.
LEMMA NewTransportGood ==
    /\ HeadersGood(NewPool, <<>>) /\ PayloadsGood(NewPool, {}, NoMemory)
    /\ ToSet(<<>>) = {}
<1>1. <<>> \in Seq(Nat) /\ IsInjective(<<>>) /\ ToSet(<<>>) = {}
  BY DEF IsInjective, ToSet
<1> QED
  BY <1>1, NewPoolFacts DEF HeadersGood, PayloadsGood

\* A restarted process begins with a new transport; the others keep theirs.
LEMMA RecoverKeeps ==
    ASSUME PoolInv, UNCHANGED world_size, Recover
    PROVE  PoolInv'
<1>1. /\ header_pool' = [header_pool EXCEPT ![failed] = NewPool]
      /\ payload_pool' = [payload_pool EXCEPT ![failed] = NewPool]
      /\ headers' = [headers EXCEPT ![failed] = NoMemory]
      /\ payload_buffer' = [payload_buffer EXCEPT ![failed] = NoMemory]
      /\ received_header_queue' = [received_header_queue EXCEPT ![failed] = <<>>]
      /\ network' = [pair \in Ranks \X Ranks |->
                        IF pair[2] = failed THEN <<>> ELSE network[pair]]
  BY DEF Recover, load, RestartTransport
<1>2. /\ RanksGood /\ DOMAIN header_pool = Ranks /\ DOMAIN headers = Ranks
      /\ DOMAIN received_header_queue = Ranks /\ DOMAIN payload_pool = Ranks
      /\ DOMAIN payload_buffer = Ranks
  BY DEF PoolInv, RanksGood
<1> DEFINE f == failed
<1>3. ASSUME NEW r \in Ranks, r = f PROVE RankGood(r)'
  <2>1. /\ header_pool'[r] = NewPool /\ payload_pool'[r] = NewPool
        /\ headers'[r] = NoMemory /\ payload_buffer'[r] = NoMemory
        /\ received_header_queue'[r] = <<>>
    BY <1>1, <1>2, <1>3
  <2>2. WithPayload(r)' = {}
    BY <2>1, NewTransportGood DEF WithPayload
  <2> QED
    BY <2>1, <2>2, NewTransportGood DEF RankGood
<1>4. RanksGood'
  <2>1. /\ DOMAIN header_pool' = Ranks /\ DOMAIN payload_pool' = Ranks
        /\ DOMAIN headers' = Ranks /\ DOMAIN payload_buffer' = Ranks
        /\ DOMAIN received_header_queue' = Ranks
    BY <1>1, <1>2
  <2>2. \A q \in Ranks : q # f =>
            /\ header_pool'[q] = header_pool[q] /\ payload_pool'[q] = payload_pool[q]
            /\ headers'[q] = headers[q] /\ payload_buffer'[q] = payload_buffer[q]
            /\ received_header_queue'[q] = received_header_queue[q]
    BY <1>1, <1>2
  <2>3. \A r \in Ranks : RankGood(r)'
    BY <1>2, <1>3, <2>2, RankKept DEF RanksGood
  <2>4. Ranks' = Ranks
    BY DEF Ranks
  <2> QED
    BY <2>1, <2>3, <2>4 DEF RanksGood
<1>5. NetworkGood'
  <2>1. PICK S : /\ \A d \in S : HasPayload(d)
                 /\ network \in [Ranks \X Ranks -> Seq(S)]
    BY DEF PoolInv, NetworkGood
  <2>2. network' \in [Ranks \X Ranks -> Seq(S)] /\ Ranks' = Ranks
    <3>1. <<>> \in Seq(S)
      OBVIOUS
    <3> QED
      BY <1>1, <2>1, <3>1 DEF Ranks
  <2>3. \A d \in S : HasPayload(d)'
    BY <2>1 DEF HasPayload, MPIX_CLEANUP_TAG
  <2> QED
    BY <2>2, <2>3 DEF NetworkGood
<1>6. LeftGood'
  BY LeftKept DEF PoolInv, Recover, leftVars
<1> QED
  BY <1>4, <1>5, <1>6 DEF PoolInv

\* The other steps leave queues and pools alone; some send a message.
LEMMA QuietKeeps ==
    ASSUME PoolInv, UNCHANGED queueVars, NetworkGood', LeftGood'
    PROVE  PoolInv'
BY RanksKept DEF PoolInv

(***************************************************************************)
(* The invariant holds initially, every step preserves it, and it implies  *)
(* the property.                                                           *)
(***************************************************************************)
LEMMA PoolInit == Init => PoolInv
<1> SUFFICES ASSUME Init PROVE PoolInv
  OBVIOUS
<1>1. /\ header_pool = [r \in Ranks |-> NewPool] /\ payload_pool = [r \in Ranks |-> NewPool]
      /\ headers = [r \in Ranks |-> NoMemory] /\ payload_buffer = [r \in Ranks |-> NoMemory]
      /\ received_header_queue = [r \in Ranks |-> <<>>]
      /\ network = [pair \in Ranks \X Ranks |-> <<>>]
  BY DEF Init, TransportInit
<1>2. ASSUME NEW r \in Ranks PROVE RankGood(r)
  <2>1. WithPayload(r) = {}
    BY <1>1, NewTransportGood DEF WithPayload
  <2> QED
    BY <1>1, <2>1, NewTransportGood DEF RankGood
<1>3. NetworkGood
  <2>1. network \in [Ranks \X Ranks -> Seq({})] /\ \A d \in {} : HasPayload(d)
    BY <1>1
  <2> QED
    BY <2>1 DEF NetworkGood
<1>4. LeftGood
  <2>1. posted_request_queue \in [Ranks -> Seq({})] /\ \A e \in {} : e.tag = 0
    BY DEF Init
  <2> QED
    BY <2>1 DEF LeftGood
<1> QED
  BY <1>1, <1>2, <1>3, <1>4 DEF PoolInv, RanksGood

LEMMA PoolStep == PoolInv /\ [Next]_vars => PoolInv'
<1> SUFFICES ASSUME PoolInv, [Next]_vars PROVE PoolInv'
  OBVIOUS
<1>1. NetworkGood /\ LeftGood
  BY DEF PoolInv
<1>2. ASSUME UNCHANGED world_size, NEW r \in Ranks, User(r) PROVE PoolInv'
  <2>1. CASE Enter(r)
    <3>1. UNCHANGED queueVars /\ UNCHANGED network /\ LeftGood'
      BY <1>1, <1>2, <2>1, LeftKept DEF Enter, queueVars, transportVars, leftVars
    <3> QED
      BY <1>1, <3>1, NetworkKept, QuietKeeps DEF queueVars
  <2>2. CASE MPI_Send(r)
    <3>1. /\ reliable_send(r, Datagram(r).to, Datagram(r).header, 1, Datagram(r).payload)
          /\ UNCHANGED queueVars /\ LeftGood'
      BY <1>1, <1>2, <2>2, LeftKept DEF MPI_Send, queueVars, leftVars
    <3>2. NetworkGood'
      BY <1>1, <1>2, <3>1, SendKeeps
    <3> QED
      BY <3>1, <3>2, QuietKeeps
  <2>3. CASE MPI_Recv(r)
    BY <1>2, <2>3, RecvKeeps
  <2>4. CASE Return(r)
    <3>1. UNCHANGED queueVars /\ UNCHANGED network /\ LeftGood'
      BY <1>1, <1>2, <2>4, LeftKept DEF Return, queueVars, transportVars, leftVars
    <3> QED
      BY <1>1, <3>1, NetworkKept, QuietKeeps DEF queueVars
  <2>5. CASE setErr(r)
    <3>1. UNCHANGED queueVars
      BY <1>2, <2>5 DEF setErr, queueVars
    <3>2. LeftGood'
      BY <1>1, <1>2, <2>5, LeftKept, ReceivePosted DEF setErr, FindsReceive
    <3>3. CASE UNCHANGED network
      BY <1>1, <1>2, <3>1, <3>2, <3>3, NetworkKept, QuietKeeps
    <3>4. CASE reliable_send(r, r, Cleanup(r), 0, 0)
      <4>1. Cleanup(r).tag = MPIX_CLEANUP_TAG
        BY DEF Cleanup
      <4>2. NetworkGood'
        BY <1>1, <1>2, <3>4, <4>1, SendKeeps
      <4> QED
        BY <3>1, <3>2, <4>2, QuietKeeps
    <3> QED
      BY <2>5, <3>3, <3>4 DEF setErr
  <2>6. CASE Abort(r)
    <3>1. UNCHANGED queueVars /\ UNCHANGED network
      BY <1>2, <2>6 DEF Abort, queueVars, transportVars
    <3>2. LeftGood'
      BY <1>1, <1>2, <2>6, LeftKept, ReceivePosted DEF Abort
    <3> QED
      BY <1>1, <3>1, <3>2, NetworkKept, QuietKeeps DEF queueVars
  <2> QED
    BY <1>2, <2>1, <2>2, <2>3, <2>4, <2>5, <2>6 DEF User
<1>3. ASSUME UNCHANGED world_size, NEW r \in Ranks, Fail(r) PROVE PoolInv'
  <2>1. UNCHANGED queueVars /\ UNCHANGED network
    BY <1>3 DEF Fail, queueVars, transportVars
  <2>2. LeftGood'
    BY <1>1, <1>3, LeftEmptied DEF Fail
  <2> QED
    BY <1>1, <2>1, <2>2, NetworkKept, QuietKeeps DEF queueVars
<1>4. ASSUME UNCHANGED world_size, NEW r \in Ranks, handle_request(r) PROVE PoolInv'
  <2>1. PICK to, header, payload : reliable_send(r, to, header, 1, payload)
    BY <1>4 DEF handle_request
  <2>2. UNCHANGED queueVars /\ LeftGood'
    BY <1>1, <1>4, LeftKept DEF handle_request, queueVars
  <2>3. NetworkGood'
    BY <1>1, <1>4, <2>1, SendKeeps
  <2> QED
    BY <2>2, <2>3, QuietKeeps
<1>5. CASE Work /\ UNCHANGED world_size
  BY <1>2, <1>4, <1>5, PostHeaderKeeps, AbandonedKeeps, RecoverKeeps DEF Work, ProgressThread
<1>6. CASE Failure /\ UNCHANGED world_size
  BY <1>3, <1>6 DEF Failure
<1>7. CASE UNCHANGED vars
  <2>1. UNCHANGED queueVars /\ UNCHANGED network /\ LeftGood'
    BY <1>1, <1>7, LeftKept DEF vars, queueVars, transportVars, leftVars
  <2> QED
    BY <1>1, <2>1, NetworkKept, QuietKeeps DEF queueVars
<1> QED
  BY <1>5, <1>6, <1>7 DEF Next

\* The pools stay intact, for every program, every number of ranks and of failures, and
\* every arena size: what allocate gives out is not in use, and what deallocate takes back
\* is, in UDPTransport::ordered_recv and fill and in the matcher that drops old headers.
THEOREM PoolsStayIntact == Spec => []PoolsIntact
<1>1. PoolInv => PoolsIntact
  BY DEF PoolInv, RanksGood, RankGood, HeadersGood, PayloadsGood, Orderly, FreeItems,
         PoolsIntact, HeadersIntact, PayloadsIntact
<1> QED
  BY <1>1, PoolInit, PoolStep, PTL DEF Spec
================================================================================
