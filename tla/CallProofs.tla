-------------------------------- MODULE CallProofs --------------------------------
(***************************************************************************)
(* Theorems about successive calls on MPI_COMM_WORLD: the messages of one  *)
(* are not taken by another, MPI_Barrier synchronises, and no payload is   *)
(* lost, for any number of ranks; the first two for failures wherever they *)
(* come.                                                                   *)
(***************************************************************************)
EXTENDS PoolProofs

(***************************************************************************)
(* Unless a recovery was disturbed, only a rank that is told of a failure  *)
(* has receives left posted, or a message in its outbox: whatever the      *)
(* calls are.                                                              *)
(***************************************************************************)
FlagsInv ==
    /\ DOMAIN is_errSet = Ranks /\ DOMAIN outbox = Ranks /\ DOMAIN posted_request_queue = Ranks
    /\ failed \in Ranks \cup {NoRank}
    /\ failed = NoRank => \A r \in Ranks : ~is_errSet[r]
    /\ failed # NoRank => ~is_errSet[failed]
NothingLeft(r) == posted_request_queue[r] = <<>> /\ outbox[r] = <<>>
LeftInv == FlagsInv /\ (~disturbed => \A r \in Ranks : ~is_errSet[r] => NothingLeft(r))

LEMMA LeftStart == Init => LeftInv
BY DEF Init, LeftInv, FlagsInv, NothingLeft

\* Nothing changes for a rank that is not told.
LEMMA LeftSame ==
    ASSUME LeftInv, UNCHANGED <<world_size, faultVars>>,
           DOMAIN outbox' = Ranks, DOMAIN posted_request_queue' = Ranks,
           \A q \in Ranks : ~is_errSet[q] /\ NothingLeft(q) => NothingLeft(q)'
    PROVE  LeftInv'
BY DEF LeftInv, FlagsInv, faultVars, Ranks

LEMMA LeftStep == LeftInv /\ [Next]_vars => LeftInv'
<1> SUFFICES ASSUME LeftInv, [Next]_vars PROVE LeftInv'
  OBVIOUS
<1>1. /\ DOMAIN is_errSet = Ranks /\ DOMAIN outbox = Ranks /\ DOMAIN posted_request_queue = Ranks
      /\ failed \in Ranks \cup {NoRank}
      /\ failed = NoRank => \A r \in Ranks : ~is_errSet[r]
      /\ failed # NoRank => ~is_errSet[failed]
      /\ ~disturbed => \A r \in Ranks : ~is_errSet[r] => NothingLeft(r)
  BY DEF LeftInv, FlagsInv
<1>2. ASSUME UNCHANGED <<world_size, faultVars, posted_request_queue, outbox>> PROVE LeftInv'
  BY <1>1, <1>2, LeftSame DEF NothingLeft
<1>3. ASSUME UNCHANGED world_size, NEW r \in Ranks, User(r) PROVE LeftInv'
  <2>1. CASE Enter(r) \/ MPI_Send(r) \/ MPI_Recv(r) \/ Return(r)
    BY <1>2, <1>3, <2>1 DEF Enter, MPI_Send, MPI_Recv, Return, leftVars
  <2>2. CASE setErr(r)
    <3>1. /\ failed # NoRank /\ failed # r /\ is_errSet' = [is_errSet EXCEPT ![r] = TRUE]
          /\ UNCHANGED <<outbox, failed, disturbed>> /\ FindsReceive(r)
      BY <2>2 DEF setErr
    <3>2. /\ DOMAIN posted_request_queue' = Ranks
          /\ \A q \in Ranks : q # r => posted_request_queue'[q] = posted_request_queue[q]
      BY <1>1, <3>1 DEF FindsReceive, Post
    <3>3. /\ is_errSet'[r] /\ Ranks' = Ranks /\ DOMAIN is_errSet' = Ranks
          /\ \A q \in Ranks : q # r => is_errSet'[q] = is_errSet[q]
      BY <1>1, <1>3, <3>1 DEF Ranks
    <3> QED
      BY <1>1, <3>1, <3>2, <3>3 DEF LeftInv, FlagsInv, NothingLeft
  <2>3. CASE Abort(r)
    <3>1. is_errSet[r] /\ UNCHANGED faultVars
      BY <2>3 DEF Abort
    <3>2. /\ DOMAIN posted_request_queue' = Ranks
          /\ \A q \in Ranks : q # r => posted_request_queue'[q] = posted_request_queue[q]
      BY <1>1, <2>3 DEF Abort, Post
    <3>3. /\ DOMAIN outbox' = Ranks
          /\ \A q \in Ranks : q # r => outbox'[q] = outbox[q]
      BY <1>1, <2>3 DEF Abort
    <3> QED
      BY <1>3, <3>1, <3>2, <3>3, LeftSame DEF NothingLeft
  <2> QED
    BY <1>3, <2>1, <2>2, <2>3 DEF User
<1>4. ASSUME UNCHANGED world_size, NEW r \in Ranks, ProgressThread(r) PROVE LeftInv'
  <2>1. /\ UNCHANGED faultVars
        /\ DOMAIN outbox' = Ranks /\ DOMAIN posted_request_queue' = Ranks
    BY <1>1, <1>4 DEF ProgressThread, post_header, halt, match_abandoned, handle_request
  <2>2. ASSUME NEW q \in Ranks, ~is_errSet[q], NothingLeft(q) PROVE NothingLeft(q)'
    <3>1. CASE q = r
      <4>1. ~match_abandoned(r) /\ ~handle_request(r)
        <5>1. MatchingPairs(<<>>, Received(r)) = {}
          BY DEF MatchingPairs
        <5> QED
          BY <2>2, <3>1, <5>1 DEF match_abandoned, handle_request, NothingLeft, Wanted
      <4> QED
        BY <1>1, <1>4, <2>2, <3>1, <4>1 DEF ProgressThread, post_header, halt, NothingLeft
    <3>2. CASE q # r
      BY <1>1, <1>4, <2>2, <3>2
         DEF ProgressThread, post_header, halt, match_abandoned, handle_request, NothingLeft
    <3> QED
      BY <3>1, <3>2
  <2> QED
    BY <1>4, <2>1, <2>2, LeftSame
<1>5. ASSUME UNCHANGED world_size, NEW r \in Ranks, Fail(r) PROVE LeftInv'
  <2>1. /\ failed = NoRank /\ failed' = r /\ UNCHANGED <<is_errSet, disturbed>>
        /\ posted_request_queue' = [posted_request_queue EXCEPT ![r] = <<>>]
        /\ outbox' = [outbox EXCEPT ![r] = <<>>] /\ Ranks' = Ranks
    BY <1>5 DEF Fail, Ranks
  <2> QED
    BY <1>1, <1>5, <2>1 DEF LeftInv, FlagsInv, NothingLeft
<1>6. ASSUME UNCHANGED world_size, Recover PROVE LeftInv'
  <2>1. /\ is_errSet' = [r \in Ranks |-> FALSE] /\ failed' = NoRank /\ Ranks' = Ranks
        /\ UNCHANGED <<posted_request_queue, outbox>> /\ failed # NoRank
        /\ ~disturbed' => /\ ~disturbed
                          /\ \A r \in Survivors : NothingLeft(r)
    BY <1>6 DEF Recover, leftVars, Ranks, Leftovers, NothingLeft
  <2>2. ~disturbed' => \A r \in Ranks : NothingLeft(r)
    BY <1>1, <2>1 DEF Survivors
  <2> QED
    BY <1>1, <2>1, <2>2 DEF LeftInv, FlagsInv, NothingLeft
<1>7. CASE UNCHANGED vars
  BY <1>2, <1>7 DEF vars, leftVars
<1> QED
  BY <1>3, <1>4, <1>5, <1>6, <1>7 DEF Next, Work, Failure

\* No receive but that of its call takes a message on a rank that is not told.
LEMMA LeftFacts ==
    ASSUME LeftInv, ~disturbed, NEW r \in Ranks, ~is_errSet[r]
    PROVE  ~match_abandoned(r) /\ ~handle_request(r)
<1>1. posted_request_queue[r] = <<>> /\ outbox[r] = <<>>
  BY DEF LeftInv, NothingLeft
<1>2. MatchingPairs(<<>>, Received(r)) = {}
  BY DEF MatchingPairs
<1> QED
  BY <1>1, <1>2 DEF match_abandoned, handle_request, Wanted

(***************************************************************************)
(* Counting in sequences: one that is another without one of its places.   *)
(***************************************************************************)
Skip(p, j) == IF j < p THEN j ELSE j + 1
Removed(long, short, n, p) ==
    /\ n \in Nat /\ p \in 1..(n + 1)
    /\ DOMAIN long = 1..(n + 1) /\ DOMAIN short = 1..n
    /\ \A j \in 1..n : short[j] = long[Skip(p, j)]

\* A set of places, and the places that are left of it.
Kept(n, p, A) == {j \in 1..n : Skip(p, j) \in A}
LEMMA OneLess ==
    ASSUME NEW n \in Nat, NEW p \in 1..(n + 1), NEW A \in SUBSET (1..(n + 1)),
           NEW B, B = Kept(n, p, A)
    PROVE  /\ IsFiniteSet(A) /\ IsFiniteSet(B)
           /\ Cardinality(A) \in Nat /\ Cardinality(B) \in Nat
           /\ Cardinality(A) = Cardinality(B) + (IF p \in A THEN 1 ELSE 0)
<1>0. B = {j \in 1..n : Skip(p, j) \in A}
  BY DEF Kept
<1>1. IsFiniteSet(A) /\ IsFiniteSet(B)
  <2>1. IsFiniteSet(1..(n + 1)) /\ IsFiniteSet(1..n)
    BY FS_Interval
  <2> QED
    BY <1>0, <2>1, FS_Subset
<1>2. Cardinality(A) \in Nat /\ Cardinality(B) \in Nat
  BY <1>1, FS_CardinalityType
<1>3. Cardinality(A \ {p}) = Cardinality(B)
  <2> DEFINE f == [j \in B |-> Skip(p, j)]
  <2>1. f \in [B -> A \ {p}]
    BY <1>0 DEF Skip
  <2>2. \A i, j \in B : f[i] = f[j] => i = j
    BY <1>0 DEF Skip
  <2>3. ASSUME NEW a \in A \ {p} PROVE \E j \in B : f[j] = a
    <3>1. CASE a < p
      <4>1. a \in 1..n /\ Skip(p, a) = a
        BY <3>1 DEF Skip
      <4> QED
        BY <1>0, <4>1
    <3>2. CASE ~(a < p)
      <4>1. a - 1 \in 1..n /\ Skip(p, a - 1) = a
        BY <3>2 DEF Skip
      <4> QED
        BY <1>0, <4>1
    <3> QED
      BY <3>1, <3>2
  <2>4. f \in Bijection(B, A \ {p})
    <3> HIDE DEF f
    <3> QED
      BY <2>1, <2>2, <2>3 DEF Bijection, Injection, Surjection, IsInjective
  <2> QED
    BY <1>1, <2>4, FS_Bijection DEF ExistsBijection
<1>4. Cardinality(A \ {p}) = IF p \in A THEN Cardinality(A) - 1 ELSE Cardinality(A)
  BY <1>1, FS_RemoveElement
<1> QED
  BY <1>1, <1>2, <1>3, <1>4

LEMMA SkipFacts ==
    ASSUME NEW n \in Nat, NEW p \in 1..(n + 1)
    PROVE  /\ \A j \in 1..n : Skip(p, j) \in 1..(n + 1) /\ Skip(p, j) # p
           /\ \A i, j \in 1..n : i < j => Skip(p, i) < Skip(p, j)
           /\ \A i \in 1..(n + 1) : i # p => \E j \in 1..n : Skip(p, j) = i
<1>1. ASSUME NEW i \in 1..(n + 1), i # p PROVE \E j \in 1..n : Skip(p, j) = i
  <2>1. CASE i < p
    <3>1. i \in 1..n /\ Skip(p, i) = i
      BY <2>1 DEF Skip
    <3> QED
      BY <3>1
  <2>2. CASE ~(i < p)
    <3>1. i - 1 \in 1..n /\ Skip(p, i - 1) = i
      BY <1>1, <2>2 DEF Skip
    <3> QED
      BY <3>1
  <2> QED
    BY <2>1, <2>2
<1> QED
  BY <1>1 DEF Skip

(***************************************************************************)
(* Messages of a source and a call in a sequence of headers, and the       *)
(* order of their calls.                                                   *)
(***************************************************************************)
Hits(q, s, j) == {i \in DOMAIN q : q[i].tag = 0 /\ q[i].source = s /\ q[i].call = j}
Hit(h, s, j) == h.tag = 0 /\ h.source = s /\ h.call = j
InOrder(q, s) ==
    \A i, k \in DOMAIN q :
        /\ i < k /\ q[i].tag = 0 /\ q[k].tag = 0 /\ q[i].source = s /\ q[k].source = s
        => q[i].call <= q[k].call

LEMMA HitsRemoved ==
    ASSUME NEW long, NEW short, NEW n, NEW p, Removed(long, short, n, p), NEW s, NEW c
    PROVE  /\ Cardinality(Hits(long, s, c)) \in Nat /\ Cardinality(Hits(short, s, c)) \in Nat
           /\ Cardinality(Hits(long, s, c))
                 = Cardinality(Hits(short, s, c)) + (IF Hit(long[p], s, c) THEN 1 ELSE 0)
<1>1. /\ n \in Nat /\ p \in 1..(n + 1)
      /\ DOMAIN long = 1..(n + 1) /\ DOMAIN short = 1..n
      /\ \A i \in 1..n : short[i] = long[Skip(p, i)]
  BY DEF Removed
<1>2. \A i \in 1..n : Skip(p, i) \in 1..(n + 1)
  BY <1>1, SkipFacts
<1>3. /\ Hits(long, s, c) \in SUBSET (1..(n + 1)) 
      /\ Hits(short, s, c) = {i \in 1..n : Skip(p, i) \in Hits(long, s, c)}
  BY <1>1, <1>2 DEF Hits
<1>7. p \in Hits(long, s, c) <=> Hit(long[p], s, c)
  BY <1>1 DEF Hits, Hit
<1>4. /\ Cardinality(Hits(long, s, c)) \in Nat /\ Cardinality(Hits(short, s, c)) \in Nat
      /\ Cardinality(Hits(long, s, c))
            = Cardinality(Hits(short, s, c)) + (IF p \in Hits(long, s, c) THEN 1 ELSE 0)
  <2> DEFINE A == Hits(long, s, c)
             B == Hits(short, s, c)
  <2>1. A \in SUBSET (1..(n + 1)) /\ B = Kept(n, p, A)
    BY <1>3 DEF Kept
  <2> HIDE DEF A, B
  <2>2. /\ Cardinality(A) \in Nat /\ Cardinality(B) \in Nat
        /\ Cardinality(A) = Cardinality(B) + (IF p \in A THEN 1 ELSE 0)
    BY <1>1, <2>1, OneLess
  <2> QED
    BY <2>2 DEF A, B
<1>5. CASE Hit(long[p], s, c)
  BY <1>4, <1>5, <1>7
<1>6. CASE ~Hit(long[p], s, c)
  BY <1>4, <1>6, <1>7
<1> QED
  BY <1>5, <1>6

LEMMA SendsRemoved ==
    ASSUME NEW long, NEW short, NEW n, NEW p, Removed(long, short, n, p), NEW peer
    PROVE  /\ Cardinality(Sends(long, peer)) \in Nat /\ Cardinality(Sends(short, peer)) \in Nat
           /\ Cardinality(Sends(long, peer))
                 = Cardinality(Sends(short, peer))
                   + (IF long[p].operation \in SendOperations /\ long[p].peer = peer
                      THEN 1 ELSE 0)
<1>1. /\ n \in Nat /\ p \in 1..(n + 1)
      /\ DOMAIN long = 1..(n + 1) /\ DOMAIN short = 1..n
      /\ \A i \in 1..n : short[i] = long[Skip(p, i)]
  BY DEF Removed
<1>2. \A i \in 1..n : Skip(p, i) \in 1..(n + 1)
  BY <1>1, SkipFacts
<1>3. /\ Sends(long, peer) \in SUBSET (1..(n + 1)) /\ Sends(short, peer) = {i \in 1..n : Skip(p, i) \in Sends(long, peer)}
  BY <1>1, <1>2 DEF Sends
<1>4. /\ Cardinality(Sends(long, peer)) \in Nat /\ Cardinality(Sends(short, peer)) \in Nat
      /\ Cardinality(Sends(long, peer))
            = Cardinality(Sends(short, peer)) + (IF p \in Sends(long, peer) THEN 1 ELSE 0)
  <2> DEFINE A == Sends(long, peer)
             B == Sends(short, peer)
  <2>1. A \in SUBSET (1..(n + 1)) /\ B = Kept(n, p, A)
    BY <1>3 DEF Kept
  <2> HIDE DEF A, B
  <2>2. /\ Cardinality(A) \in Nat /\ Cardinality(B) \in Nat
        /\ Cardinality(A) = Cardinality(B) + (IF p \in A THEN 1 ELSE 0)
    BY <1>1, <2>1, OneLess
  <2> QED
    BY <2>2 DEF A, B
<1>5. p \in Sends(long, peer) <=> long[p].operation \in SendOperations /\ long[p].peer = peer
  BY <1>1 DEF Sends
<1>6. CASE p \in Sends(long, peer)
  BY <1>4, <1>5, <1>6
<1>7. CASE p \notin Sends(long, peer)
  BY <1>4, <1>5, <1>7
<1> QED
  BY <1>6, <1>7

LEMMA ReceiptsRemoved ==
    ASSUME NEW long, NEW short, NEW n, NEW p, Removed(long, short, n, p), NEW peer
    PROVE  /\ Cardinality(Receipts(long, peer)) \in Nat
           /\ Cardinality(Receipts(short, peer)) \in Nat
           /\ Cardinality(Receipts(long, peer))
                 = Cardinality(Receipts(short, peer))
                   + (IF long[p].operation \in Receives /\ long[p].peer = peer THEN 1 ELSE 0)
<1>1. /\ n \in Nat /\ p \in 1..(n + 1)
      /\ DOMAIN long = 1..(n + 1) /\ DOMAIN short = 1..n
      /\ \A i \in 1..n : short[i] = long[Skip(p, i)]
  BY DEF Removed
<1>2. \A i \in 1..n : Skip(p, i) \in 1..(n + 1)
  BY <1>1, SkipFacts
<1>3. /\ Receipts(long, peer) \in SUBSET (1..(n + 1)) /\ Receipts(short, peer) = {i \in 1..n : Skip(p, i) \in Receipts(long, peer)}
  BY <1>1, <1>2 DEF Receipts
<1>4. /\ Cardinality(Receipts(long, peer)) \in Nat /\ Cardinality(Receipts(short, peer)) \in Nat
      /\ Cardinality(Receipts(long, peer))
            = Cardinality(Receipts(short, peer)) + (IF p \in Receipts(long, peer) THEN 1 ELSE 0)
  <2> DEFINE A == Receipts(long, peer)
             B == Receipts(short, peer)
  <2>1. A \in SUBSET (1..(n + 1)) /\ B = Kept(n, p, A)
    BY <1>3 DEF Kept
  <2> HIDE DEF A, B
  <2>2. /\ Cardinality(A) \in Nat /\ Cardinality(B) \in Nat
        /\ Cardinality(A) = Cardinality(B) + (IF p \in A THEN 1 ELSE 0)
    BY <1>1, <2>1, OneLess
  <2> QED
    BY <2>2 DEF A, B
<1>5. p \in Receipts(long, peer) <=> long[p].operation \in Receives /\ long[p].peer = peer
  BY <1>1 DEF Receipts
<1>6. CASE p \in Receipts(long, peer)
  BY <1>4, <1>5, <1>6
<1>7. CASE p \notin Receipts(long, peer)
  BY <1>4, <1>5, <1>7
<1> QED
  BY <1>6, <1>7

LEMMA OrderRemoved ==
    ASSUME NEW long, NEW short, NEW n, NEW p, Removed(long, short, n, p), NEW s,
           InOrder(long, s)
    PROVE  InOrder(short, s)
<1>1. /\ n \in Nat /\ p \in 1..(n + 1)
      /\ DOMAIN long = 1..(n + 1) /\ DOMAIN short = 1..n
      /\ \A i \in 1..n : short[i] = long[Skip(p, i)]
  BY DEF Removed
<1>2. /\ \A i \in 1..n : Skip(p, i) \in 1..(n + 1)
      /\ \A i, j \in 1..n : i < j => Skip(p, i) < Skip(p, j)
  BY <1>1, SkipFacts
<1> QED
  BY <1>1, <1>2 DEF InOrder

\* Nothing new is in what is left.
LEMMA LeftOver ==
    ASSUME NEW long, NEW short, NEW n, NEW p, Removed(long, short, n, p)
    PROVE  /\ p \in DOMAIN long
           /\ \A j \in DOMAIN short : \E i \in DOMAIN long : i # p /\ short[j] = long[i]
           /\ \A i \in DOMAIN long : i # p => \E j \in DOMAIN short : short[j] = long[i]
<1>1. /\ n \in Nat /\ p \in 1..(n + 1)
      /\ DOMAIN long = 1..(n + 1) /\ DOMAIN short = 1..n
      /\ \A i \in 1..n : short[i] = long[Skip(p, i)]
  BY DEF Removed
<1>2. /\ \A j \in 1..n : Skip(p, j) \in 1..(n + 1) /\ Skip(p, j) # p
      /\ \A i \in 1..(n + 1) : i # p => \E j \in 1..n : Skip(p, j) = i
  BY <1>1, SkipFacts
<1>3. ASSUME NEW j \in 1..n PROVE \E i \in 1..(n + 1) : i # p /\ short[j] = long[i]
  BY <1>1, <1>2
<1>4. ASSUME NEW i \in 1..(n + 1), i # p PROVE \E j \in 1..n : short[j] = long[i]
  BY <1>1, <1>2, <1>4
<1> QED
  BY <1>1, <1>3, <1>4

\* Sequences of which one element has been taken, or to which one was added.
LEMMA TailRemoves ==
    ASSUME NEW S, NEW q \in Seq(S), q # <<>>
    PROVE  Removed(q, Tail(q), Len(q) - 1, 1) /\ Head(q) = q[1]
BY DEF Removed, Skip

LEMMA AppendAdds ==
    ASSUME NEW S, NEW q \in Seq(S), NEW e
    PROVE  Removed(Append(q, e), q, Len(q), Len(q) + 1) /\ Append(q, e)[Len(q) + 1] = e
<1>1. /\ Len(q) \in Nat /\ DOMAIN q = 1..Len(q) /\ DOMAIN Append(q, e) = 1..(Len(q) + 1)
      /\ \A i \in 1..Len(q) : Append(q, e)[i] = q[i]
      /\ Append(q, e)[Len(q) + 1] = e
  OBVIOUS
<1> QED
  BY <1>1 DEF Removed, Skip

(***************************************************************************)
(* The epoch in which a rank is that has completed some calls, and what is *)
(* left of the plan of a call.                                             *)
(***************************************************************************)
IsWrite(call) == call.name = "MPIX_Checkpoint_write"
EpochOf(p, c) == Cardinality({k \in 1..c : IsWrite(p[k])})
Rest(p, whole) ==
    \E d \in 0..Len(whole) : /\ Len(p) = Len(whole) - d
                             /\ \A i \in 1..Len(p) : p[i] = whole[i + d]

LEMMA EpochType ==
    ASSUME NEW p, NEW c \in Nat
    PROVE  IsFiniteSet({k \in 1..c : IsWrite(p[k])}) /\ EpochOf(p, c) \in Nat
<1>1. IsFiniteSet(1..c)
  BY FS_Interval
<1>2. {k \in 1..c : IsWrite(p[k])} \in SUBSET (1..c)
  OBVIOUS
<1>3. IsFiniteSet({k \in 1..c : IsWrite(p[k])})
  BY <1>1, <1>2, FS_Subset
<1> QED
  BY <1>3, FS_CardinalityType DEF EpochOf

LEMMA EpochStep ==
    ASSUME NEW p, NEW c \in Nat
    PROVE  EpochOf(p, c + 1) = EpochOf(p, c) + (IF IsWrite(p[c + 1]) THEN 1 ELSE 0)
<1> DEFINE S == {k \in 1..c : IsWrite(p[k])}
           T == {k \in 1..(c + 1) : IsWrite(p[k])}
<1>1. IsFiniteSet(S) /\ c + 1 \notin S
  <2>1. IsFiniteSet(S)
    BY EpochType
  <2> QED
    BY <2>1
<1>2. CASE IsWrite(p[c + 1])
  <2>1. T = S \cup {c + 1}
    BY <1>2
  <2> HIDE DEF S, T
  <2>2. Cardinality(T) = Cardinality(S) + 1
    BY <1>1, <2>1, FS_AddElement
  <2> QED
    BY <1>2, <2>2 DEF EpochOf, S, T
<1>3. CASE ~IsWrite(p[c + 1])
  <2>1. T = S
    BY <1>3
  <2>2. EpochOf(p, c) \in Nat
    BY EpochType
  <2> QED
    BY <1>3, <2>1, <2>2 DEF EpochOf
<1> QED
  BY <1>2, <1>3

LEMMA EpochMonotone ==
    ASSUME NEW p, NEW a \in Nat, NEW b \in Nat, a <= b
    PROVE  EpochOf(p, a) <= EpochOf(p, b)
<1>1. {k \in 1..a : IsWrite(p[k])} \in SUBSET {k \in 1..b : IsWrite(p[k])}
  OBVIOUS
<1>2. IsFiniteSet({k \in 1..b : IsWrite(p[k])})
  BY EpochType
<1> QED
  BY <1>1, <1>2, FS_Subset DEF EpochOf

LEMMA EpochZero == ASSUME NEW p PROVE EpochOf(p, 0) = 0
<1>1. {k \in 1..0 : IsWrite(p[k])} = {}
  OBVIOUS
<1> QED
  BY <1>1, FS_EmptySet DEF EpochOf

\* Before the call that ends an epoch, the epoch is older; from then on it is not.
LEMMA BeforeWrite ==
    ASSUME NEW p, NEW c \in Nat \ {0}, IsWrite(p[c]), NEW j \in Nat
    PROVE  EpochOf(p, j) >= EpochOf(p, c) <=> j >= c
<1>1. c - 1 \in Nat /\ (c - 1) + 1 = c
  OBVIOUS
<1>2. EpochOf(p, c) = EpochOf(p, c - 1) + 1
  BY <1>1, EpochStep
<1>3. EpochOf(p, j) \in Nat /\ EpochOf(p, c) \in Nat /\ EpochOf(p, c - 1) \in Nat
  BY <1>1, EpochType
<1>4. CASE j >= c
  <2>1. EpochOf(p, c) <= EpochOf(p, j)
    BY <1>4, EpochMonotone
  <2> QED
    BY <1>3, <1>4, <2>1
<1>5. CASE ~(j >= c)
  <2>1. j <= c - 1
    BY <1>5
  <2>2. EpochOf(p, j) <= EpochOf(p, c - 1)
    BY <1>1, <2>1, EpochMonotone
  <2> QED
    BY <1>2, <1>3, <1>5, <2>2
<1> QED
  BY <1>4, <1>5

\* What is left of a plan has no more sends and receives than all of it.
LEMMA RestCounts ==
    ASSUME NEW S, NEW p \in Seq(S), NEW whole \in Seq(S), Rest(p, whole), NEW peer
    PROVE  /\ Cardinality(Sends(p, peer)) \in Nat /\ Cardinality(Sends(whole, peer)) \in Nat
           /\ Cardinality(Sends(p, peer)) <= Cardinality(Sends(whole, peer))
           /\ Cardinality(Receipts(p, peer)) \in Nat
           /\ Cardinality(Receipts(whole, peer)) \in Nat
           /\ Cardinality(Receipts(p, peer)) <= Cardinality(Receipts(whole, peer))
<1>1. PICK d \in 0..Len(whole) : /\ Len(p) = Len(whole) - d
                                 /\ \A i \in 1..Len(p) : p[i] = whole[i + d]
  BY DEF Rest
<1>2. /\ Len(p) \in Nat /\ Len(whole) \in Nat /\ d \in Nat
      /\ DOMAIN p = 1..Len(p) /\ DOMAIN whole = 1..Len(whole)
  OBVIOUS
<1>3. IsFiniteSet(1..Len(p)) /\ IsFiniteSet(1..Len(whole))
  BY <1>2, FS_Interval
<1>4. /\ Sends(p, peer) \in SUBSET (1..Len(p)) /\ Receipts(p, peer) \in SUBSET (1..Len(p))
      /\ Sends(whole, peer) \in SUBSET (1..Len(whole))
      /\ Receipts(whole, peer) \in SUBSET (1..Len(whole))
  BY <1>2 DEF Sends, Receipts
<1>5. /\ IsFiniteSet(Sends(p, peer)) /\ IsFiniteSet(Receipts(p, peer))
      /\ IsFiniteSet(Sends(whole, peer)) /\ IsFiniteSet(Receipts(whole, peer))
  BY <1>3, <1>4, FS_Subset
<1>6. \A i \in 1..Len(p) : i + d \in 1..Len(whole) /\ p[i] = whole[i + d]
  BY <1>1, <1>2
<1>7. Cardinality(Sends(p, peer)) <= Cardinality(Sends(whole, peer))
  <2> DEFINE f == [i \in Sends(p, peer) |-> i + d]
  <2>1. f \in Injection(Sends(p, peer), Sends(whole, peer))
    BY <1>2, <1>4, <1>6 DEF Injection, IsInjective, Sends
  <2> HIDE DEF f
  <2> QED
    BY <1>5, <2>1, FS_Injection
<1>8. Cardinality(Receipts(p, peer)) <= Cardinality(Receipts(whole, peer))
  <2> DEFINE f == [i \in Receipts(p, peer) |-> i + d]
  <2>1. f \in Injection(Receipts(p, peer), Receipts(whole, peer))
    BY <1>2, <1>4, <1>6 DEF Injection, IsInjective, Receipts
  <2> HIDE DEF f
  <2> QED
    BY <1>5, <2>1, FS_Injection
<1> QED
  BY <1>5, <1>7, <1>8, FS_CardinalityType

LEMMA RestTail ==
    ASSUME NEW S, NEW p \in Seq(S), NEW whole \in Seq(S), Rest(p, whole), p # <<>>
    PROVE  Rest(Tail(p), whole)
<1>1. PICK d \in 0..Len(whole) : /\ Len(p) = Len(whole) - d
                                 /\ \A i \in 1..Len(p) : p[i] = whole[i + d]
  BY DEF Rest
<1>2. /\ d \in Nat /\ Len(p) \in Nat /\ Len(whole) \in Nat /\ Len(p) > 0
      /\ Len(Tail(p)) = Len(p) - 1
      /\ \A i \in 1..Len(Tail(p)) : Tail(p)[i] = p[i + 1]
  OBVIOUS
<1>3. d + 1 \in 0..Len(whole) /\ Len(Tail(p)) = Len(whole) - (d + 1)
  BY <1>1, <1>2
<1>4. ASSUME NEW i \in 1..Len(Tail(p)) PROVE Tail(p)[i] = whole[i + (d + 1)]
  <2>1. i + 1 \in 1..Len(p) /\ (i + 1) + d = i + (d + 1)
    BY <1>2
  <2> QED
    BY <1>1, <1>2, <2>1
<1> QED
  BY <1>3, <1>4 DEF Rest

LEMMA RestAll ==
    ASSUME NEW S, NEW whole \in Seq(S)
    PROVE  Rest(whole, whole)
<1>1. 0 \in 0..Len(whole) /\ Len(whole) = Len(whole) - 0
      /\ \A i \in 1..Len(whole) : whole[i] = whole[i + 0]
  OBVIOUS
<1> QED
  BY <1>1 DEF Rest

(***************************************************************************)
(* The invariant. The messages between two ranks are those of a pipeline:  *)
(* what the sender has sent in a call is what the receiver has taken in    *)
(* that call, and what is on its way or queued. A rank that has failed, or *)
(* whose call has ended with an error, no longer takes part in that.       *)
(***************************************************************************)
Sequence(s) == \E S : s \in Seq(S)
Shape ==
    /\ world_size \in Sizes /\ calls \in Programs(world_size)
    /\ count \in [Ranks -> Nat] /\ epoch \in [Ranks -> Nat]
    /\ busy \in [Ranks -> BOOLEAN] /\ is_errSet \in [Ranks -> BOOLEAN]
    /\ plan \in [Ranks -> Seq(Steps(world_size))]
    /\ DOMAIN groups = Ranks /\ DOMAIN communicators = Ranks
    /\ DOMAIN handles = Ranks /\ DOMAIN files = Ranks
    /\ failed \in Ranks \cup {NoRank} /\ restarts \in Nat

OnTheWay(s, r) == [i \in DOMAIN network[<<s, r>>] |-> network[<<s, r>>][i].header]
Pending(s, r, j) ==
    Cardinality(Hits(Received(r), s, j)) + Cardinality(Hits(OnTheWay(s, r), s, j))

Stopped(r) == r = failed \/ (is_errSet[r] /\ ~busy[r])
Plan(r, j) == WorldPlan(world_size, r, calls[j])
SentTotal(s, r, j) == Cardinality(Sends(Plan(s, j), r))
TakenTotal(r, s, j) == Cardinality(Receipts(Plan(r, j), s))
Sent(s, r, j) ==
    IF j <= count[s] THEN SentTotal(s, r, j)
    ELSE IF j = count[s] + 1 /\ busy[s]
         THEN SentTotal(s, r, j) - Cardinality(Sends(plan[s], r)) ELSE 0
Taken(r, s, j) ==
    IF j <= count[r] THEN TakenTotal(r, s, j)
    ELSE IF j = count[r] + 1 /\ busy[r]
         THEN TakenTotal(r, s, j) - Cardinality(Receipts(plan[r], s)) ELSE 0

\* Messages of an epoch that the receiver has left may be dropped, and once it is told of a
\* failure, the receives that its calls have left posted may take others.
Live(r, j) == ~is_errSet[r] /\ (restarts = 0 \/ EpochOf(calls, j - 1) >= epoch[r])
PairAt(s, r, j) ==
    /\ ~Stopped(s) => Taken(r, s, j) <= Sent(s, r, j)
    /\ Live(r, j) =>
          IF ~Stopped(s) \/ j # count[s] + 1
          THEN Pending(s, r, j) + Taken(r, s, j) = Sent(s, r, j)
          ELSE Pending(s, r, j) + Taken(r, s, j) <= SentTotal(s, r, j)
PairInv(s, r) == ~Stopped(r) => \A j \in DOMAIN calls : PairAt(s, r, j)

GoodMessage(h, s) ==
    /\ h.tag = 0 /\ h.source = s /\ h.context = 0 /\ h.protocol = "EAGER"
    /\ h.call \in DOMAIN calls /\ h.call <= count[s] + 1
    /\ h.epoch = EpochOf(calls, h.call - 1)
QueueInv(r) ==
    \A i \in DOMAIN Received(r) :
        Received(r)[i].tag = 0 => \E s \in Ranks : GoodMessage(Received(r)[i], s)
WireInv(s, r) ==
    \A i \in DOMAIN OnTheWay(s, r) :
        LET h == OnTheWay(s, r)[i]
        IN  \/ GoodMessage(h, s)
            \/ h.tag = MPIX_CLEANUP_TAG /\ s = r /\ is_errSet[r] /\ h.epoch = epoch[r]
OrderInv(s, r) ==
    /\ InOrder(Received(r), s) /\ InOrder(OnTheWay(s, r), s)
    /\ \A i \in DOMAIN Received(r) : \A k \in DOMAIN OnTheWay(s, r) :
          /\ Received(r)[i].tag = 0 /\ OnTheWay(s, r)[k].tag = 0
          /\ Received(r)[i].source = s
          => Received(r)[i].call <= OnTheWay(s, r)[k].call

WorldFirst(comms, r) ==
    Sequence(comms) /\ comms # <<>> /\ comms[1] = [rank |-> r, pt2pt |-> 0, coll |-> 1, local |-> 0]
WorldHandle(h) == Sequence(h) /\ h # <<>> /\ h[1] = MPI_COMM_WORLD
GoodFile(r, k, file) ==
    /\ DOMAIN file = {"groups", "communicators", "cache", "count", "handles", "contexts"}
    /\ file.groups = <<WorldGroup>> /\ WorldFirst(file.communicators, r)
    /\ WorldHandle(file.handles)
    /\ Sequence(file.contexts) /\ (file.contexts # <<>> => file.contexts[1] = 0)
    /\ file.count \in DOMAIN calls /\ IsWrite(calls[file.count])
    /\ k \in Nat /\ EpochOf(calls, file.count) = k + 1
FilesInv(r) ==
    /\ 0..(epoch[r] - 1) \subseteq DOMAIN files[r]
    /\ \A k \in DOMAIN files[r] : GoodFile(r, k, files[r][k])
RankInv(r) ==
    /\ count[r] <= Len(calls)
    /\ busy[r] => count[r] < Len(calls) /\ Rest(plan[r], Plan(r, count[r] + 1))
    /\ ~busy[r] => plan[r] = <<>>
    /\ busy[r] \/ ~is_errSet[r] => epoch[r] = EpochOf(calls, count[r])
    /\ groups[r] = <<WorldGroup>> /\ WorldFirst(communicators[r], r)
    /\ WorldHandle(handles[r]) /\ FilesInv(r)
FaultInv ==
    /\ failed = NoRank => \A r \in Ranks : ~is_errSet[r]
    /\ failed # NoRank => ~is_errSet[failed] /\ ~busy[failed]
    /\ restarts = 0 => failed = NoRank

PairsInv == \A s, r \in Ranks : WireInv(s, r) /\ OrderInv(s, r) /\ PairInv(s, r)
Steady ==
    /\ Shape /\ FaultInv /\ PairsInv
    /\ \A r \in Ranks : RankInv(r) /\ QueueInv(r)
CallInv == ~disturbed => Steady

(***************************************************************************)
(* What the invariant says of ranks, calls and counts.                     *)
(***************************************************************************)
LEMMA WorldFacts ==
    ASSUME WorldCalls, Shape
    PROVE  /\ world_size \in Nat /\ world_size > 0 /\ Ranks = 0..(world_size - 1)
           /\ AnySource \notin Ranks /\ NoRank \notin Ranks
           /\ Len(calls) \in Nat /\ DOMAIN calls = 1..Len(calls)
           /\ \A j \in DOMAIN calls : calls[j].comm = 1 /\ Fits(world_size, calls[j])
<1>1. world_size \in Sizes /\ world_size \in Nat /\ world_size > 0
  BY SizesAssumption DEF Shape
<1>2. AnySource \notin Ranks
  BY <1>1, CollectivesAssumption DEF AnyRank, Ranks
<1>3. \A j \in DOMAIN calls : calls[j].comm = 1 /\ Fits(world_size, calls[j])
  BY DEF WorldCalls
<1>4. Len(calls) \in Nat /\ DOMAIN calls = 1..Len(calls)
  BY <1>1, CollectivesAssumption DEF Shape
<1> QED
  BY <1>1, <1>2, <1>3, <1>4 DEF Ranks, NoRank

LEMMA PlanFacts ==
    ASSUME WorldCalls, Shape, NEW r \in Ranks, NEW j \in DOMAIN calls
    PROVE  /\ Plan(r, j) \in Seq(Steps(world_size))
           /\ \A s \in Ranks : /\ SentTotal(s, r, j) = TakenTotal(r, s, j)
                               /\ SentTotal(s, r, j) \in Nat
<1>1. Fits(world_size, calls[j]) /\ Ranks = 0..(world_size - 1)
  BY WorldFacts
<1>2. \A s \in Ranks : Plan(s, j) \in Seq(Steps(world_size))
  BY <1>1 DEF Fits, Plan
<1>3. ASSUME NEW s \in Ranks PROVE SentTotal(s, r, j) = TakenTotal(r, s, j)
  BY <1>1 DEF Fits, SentTotal, TakenTotal, Plan
<1>4. ASSUME NEW s \in Ranks PROVE SentTotal(s, r, j) \in Nat
  <2>1. Rest(Plan(s, j), Plan(s, j))
    BY <1>2, RestAll
  <2> QED
    BY <1>2, <2>1, RestCounts DEF SentTotal
<1> QED
  BY <1>2, <1>3, <1>4

LEMMA CountFacts ==
    ASSUME WorldCalls, Shape, NEW r \in Ranks, RankInv(r), NEW s \in Ranks,
           NEW j \in DOMAIN calls
    PROVE  /\ Sent(r, s, j) \in Nat /\ Sent(r, s, j) <= SentTotal(r, s, j)
           /\ Taken(r, s, j) \in Nat /\ Taken(r, s, j) <= TakenTotal(r, s, j)
<1>1. /\ SentTotal(r, s, j) \in Nat /\ TakenTotal(r, s, j) \in Nat
  BY PlanFacts
<1>2. CASE j = count[r] + 1 /\ busy[r]
  <2>1. /\ plan[r] \in Seq(Steps(world_size)) /\ Plan(r, j) \in Seq(Steps(world_size))
        /\ Rest(plan[r], Plan(r, j))
    BY <1>2, PlanFacts DEF Shape, RankInv
  <2>2. /\ Cardinality(Sends(plan[r], s)) \in Nat
        /\ Cardinality(Sends(plan[r], s)) <= SentTotal(r, s, j)
        /\ Cardinality(Receipts(plan[r], s)) \in Nat
        /\ Cardinality(Receipts(plan[r], s)) <= TakenTotal(r, s, j)
    BY <2>1, RestCounts DEF SentTotal, TakenTotal
  <2>3. count[r] \in Nat
    BY DEF Shape
  <2>4. /\ Sent(r, s, j) = SentTotal(r, s, j) - Cardinality(Sends(plan[r], s))
        /\ Taken(r, s, j) = TakenTotal(r, s, j) - Cardinality(Receipts(plan[r], s))
    BY <1>2, <2>3 DEF Sent, Taken
  <2> QED
    BY <1>1, <2>2, <2>4
<1>3. CASE ~(j = count[r] + 1 /\ busy[r])
  <2>1. /\ Sent(r, s, j) = SentTotal(r, s, j) \/ Sent(r, s, j) = 0
        /\ Taken(r, s, j) = TakenTotal(r, s, j) \/ Taken(r, s, j) = 0
    BY <1>3 DEF Sent, Taken
  <2> QED
    BY <1>1, <2>1
<1> QED
  BY <1>2, <1>3

\* The sequences of headers that a rank has queued, and that are on their way.
LEMMA HeaderSequences ==
    ASSUME PoolInv, NEW r \in Ranks
    PROVE  /\ received_header_queue[r] \in Seq(Nat)
           /\ Len(received_header_queue[r]) \in Nat
           /\ DOMAIN Received(r) = 1..Len(received_header_queue[r])
           /\ \A s \in Ranks : /\ Len(network[<<s, r>>]) \in Nat
                               /\ DOMAIN network[<<s, r>>] = 1..Len(network[<<s, r>>])
                               /\ DOMAIN OnTheWay(s, r) = 1..Len(network[<<s, r>>])
<1>1. received_header_queue[r] \in Seq(Nat)
  BY DEF PoolInv, RanksGood, RankGood, HeadersGood
<1>2. PICK S : network \in [Ranks \X Ranks -> Seq(S)]
  BY DEF PoolInv, NetworkGood
<1>3. ASSUME NEW s \in Ranks PROVE network[<<s, r>>] \in Seq(S)
  BY <1>2
<1> QED
  BY <1>1, <1>3 DEF Received, OnTheWay

LEMMA PendingType ==
    ASSUME PoolInv, NEW r \in Ranks, NEW s \in Ranks, NEW c
    PROVE  /\ IsFiniteSet(Hits(Received(r), s, c)) /\ IsFiniteSet(Hits(OnTheWay(s, r), s, c))
           /\ Cardinality(Hits(Received(r), s, c)) \in Nat
           /\ Cardinality(Hits(OnTheWay(s, r), s, c)) \in Nat
           /\ Pending(s, r, c) \in Nat
           /\ Pending(s, r, c) > 0 <=> \/ \E i \in DOMAIN Received(r) : Hit(Received(r)[i], s, c)
                                       \/ \E i \in DOMAIN OnTheWay(s, r) : Hit(OnTheWay(s, r)[i], s, c)
<1> DEFINE A == Hits(Received(r), s, c)
           B == Hits(OnTheWay(s, r), s, c)
           m == Len(received_header_queue[r])
           n == Len(network[<<s, r>>])
<1>1. m \in Nat /\ n \in Nat /\ DOMAIN Received(r) = 1..m /\ DOMAIN OnTheWay(s, r) = 1..n
  BY HeaderSequences
<1>2. A \in SUBSET (1..m) /\ B \in SUBSET (1..n)
  BY <1>1 DEF Hits
<1>3. /\ A # {} <=> \E i \in DOMAIN Received(r) : Hit(Received(r)[i], s, c)
      /\ B # {} <=> \E i \in DOMAIN OnTheWay(s, r) : Hit(OnTheWay(s, r)[i], s, c)
  BY DEF Hits, Hit
<1>4. Pending(s, r, c) = Cardinality(A) + Cardinality(B)
  BY DEF Pending
<1> HIDE DEF A, B, m, n
<1>5. IsFiniteSet(A) /\ IsFiniteSet(B)
  <2>1. IsFiniteSet(1..m) /\ IsFiniteSet(1..n)
    BY <1>1, FS_Interval
  <2> QED
    BY <1>2, <2>1, FS_Subset
<1>6. /\ Cardinality(A) \in Nat /\ Cardinality(B) \in Nat
      /\ Cardinality(A) = 0 <=> A = {}
      /\ Cardinality(B) = 0 <=> B = {}
  BY <1>5, FS_CardinalityType, FS_EmptySet
<1>7. Pending(s, r, c) > 0 <=> A # {} \/ B # {}
  BY <1>4, <1>6
<1> QED
  BY <1>3, <1>4, <1>5, <1>6, <1>7 DEF A, B

(***************************************************************************)
(* What the steps do to the sequences of headers.                          *)
(***************************************************************************)
QueuesSame == \A r \in Ranks : Received(r)' = Received(r)
WiresSame == \A s, r \in Ranks : OnTheWay(s, r)' = OnTheWay(s, r)

LEMMA QueuesKept ==
    ASSUME UNCHANGED <<received_header_queue, headers>>
    PROVE  QueuesSame
BY DEF QueuesSame, Received

LEMMA WiresKept ==
    ASSUME UNCHANGED network
    PROVE  WiresSame
BY DEF WiresSame, OnTheWay

\* A message is sent.
LEMMA SentOnWire ==
    ASSUME PoolInv, NEW r \in Ranks, NEW d \in Ranks, NEW h, NEW length, NEW payload,
           reliable_send(r, d, h, length, payload)
    PROVE  /\ \A p, q \in Ranks : p # r \/ q # d => OnTheWay(p, q)' = OnTheWay(p, q)
           /\ \E n \in Nat : /\ Removed(OnTheWay(r, d)', OnTheWay(r, d), n, n + 1)
                             /\ OnTheWay(r, d)'[n + 1] = h
<1> DEFINE datagram == [header |-> h, length |-> length, payload |-> payload]
           old == network[<<r, d>>]
<1>1. PICK S : network \in [Ranks \X Ranks -> Seq(S)]
  BY DEF PoolInv, NetworkGood
<1>2. old \in Seq(S) /\ <<r, d>> \in Ranks \X Ranks
  BY <1>1
<1>3. network' = [network EXCEPT ![<<r, d>>] = Append(old, datagram)]
  BY DEF reliable_send
<1>4. datagram.header = h
  OBVIOUS
<1> HIDE DEF datagram
<1>5. network'[<<r, d>>] = Append(old, datagram)
  BY <1>1, <1>2, <1>3
<1>6. \A p, q \in Ranks : p # r \/ q # d => network'[<<p, q>>] = network[<<p, q>>]
  BY <1>1, <1>3
<1>7. /\ Len(old) \in Nat /\ DOMAIN old = 1..Len(old)
      /\ DOMAIN Append(old, datagram) = 1..(Len(old) + 1)
      /\ \A i \in 1..Len(old) : Append(old, datagram)[i] = old[i]
      /\ Append(old, datagram)[Len(old) + 1] = datagram
  BY <1>2, AppendAdds DEF Removed, Skip
<1>8. /\ DOMAIN OnTheWay(r, d) = 1..Len(old) /\ DOMAIN OnTheWay(r, d)' = 1..(Len(old) + 1)
      /\ \A i \in 1..Len(old) : OnTheWay(r, d)[i] = old[i].header
      /\ \A i \in 1..(Len(old) + 1) : OnTheWay(r, d)'[i] = Append(old, datagram)[i].header
  BY <1>5, <1>7 DEF OnTheWay
<1> HIDE DEF old
<1>9. Removed(OnTheWay(r, d)', OnTheWay(r, d), Len(old), Len(old) + 1)
  <2>1. \A i \in 1..Len(old) : Skip(Len(old) + 1, i) = i
    BY <1>7 DEF Skip
  <2>2. \A i \in 1..Len(old) : OnTheWay(r, d)'[i] = OnTheWay(r, d)[i]
    BY <1>7, <1>8
  <2> QED
    BY <1>7, <1>8, <2>1, <2>2 DEF Removed
<1>10. OnTheWay(r, d)'[Len(old) + 1] = h
  BY <1>4, <1>7, <1>8
<1> QED
  BY <1>6, <1>7, <1>9, <1>10 DEF OnTheWay

\* The progress thread takes the first message of a sender, and queues or drops it.
LEMMA PostedFromWire ==
    ASSUME PoolInv, NEW r \in Ranks, NEW s \in Ranks, post_header(r, s)
    PROVE  LET h == OnTheWay(s, r)[1]
           IN  /\ \A p, q \in Ranks : p # s \/ q # r => OnTheWay(p, q)' = OnTheWay(p, q)
               /\ \E n \in Nat : Removed(OnTheWay(s, r), OnTheWay(s, r)', n, 1)
               /\ \A q \in Ranks : q # r => Received(q)' = Received(q)
               /\ h = Head(network[<<s, r>>]).header
               /\ \/ h.epoch < epoch[r] /\ Received(r)' = Received(r)
                  \/ /\ ~(h.epoch < epoch[r])
                     /\ \E m \in Nat : /\ Removed(Received(r)', Received(r), m, m + 1)
                                       /\ Received(r)'[m + 1] = h
<1> DEFINE h == OnTheWay(s, r)[1]
           old == network[<<s, r>>]
           queued == received_header_queue[r]
           item == ReceivedHeader(r)
<1>1. PICK S : network \in [Ranks \X Ranks -> Seq(S)]
  BY DEF PoolInv, NetworkGood
<1>2. old \in Seq(S) /\ <<s, r>> \in Ranks \X Ranks /\ old # <<>>
  BY <1>1 DEF post_header
<1>3. network' = [network EXCEPT ![<<s, r>>] = Tail(old)]
  BY DEF post_header, ordered_recv, ordered_recv_and_drop, TakePayload
<1>4. \A p, q \in Ranks : p # s \/ q # r => network'[<<p, q>>] = network[<<p, q>>]
  BY <1>1, <1>3
<1>5. network'[<<s, r>>] = Tail(old)
  BY <1>1, <1>2, <1>3
<1>6. /\ Len(old) - 1 \in Nat /\ DOMAIN old = 1..((Len(old) - 1) + 1)
      /\ DOMAIN Tail(old) = 1..(Len(old) - 1) /\ Head(old) = old[1]
      /\ \A i \in 1..(Len(old) - 1) : Tail(old)[i] = old[Skip(1, i)]
      /\ 1 \in DOMAIN old
  BY <1>2, TailRemoves DEF Removed
<1>7. /\ DOMAIN OnTheWay(s, r) = DOMAIN old /\ DOMAIN OnTheWay(s, r)' = DOMAIN Tail(old)
      /\ \A i \in DOMAIN old : OnTheWay(s, r)[i] = old[i].header
      /\ \A i \in DOMAIN Tail(old) : OnTheWay(s, r)'[i] = Tail(old)[i].header
  BY <1>5 DEF OnTheWay
<1>8. h = Head(old).header
  BY <1>6, <1>7
<1>9. Removed(OnTheWay(s, r), OnTheWay(s, r)', Len(old) - 1, 1)
  <2> DEFINE n == Len(old) - 1
  <2>1. \A i \in 1..n : Skip(1, i) \in 1..(n + 1)
    BY <1>6, SkipFacts
  <2>2. \A i \in 1..n : OnTheWay(s, r)'[i] = OnTheWay(s, r)[Skip(1, i)]
    BY <1>6, <1>7, <2>1
  <2> QED
    BY <1>6, <1>7, <2>2 DEF Removed
<1>10. /\ HeadersGood(header_pool[r], queued) /\ queued \in Seq(Nat)
       /\ ToSet(queued) \subseteq DOMAIN headers[r]
       /\ DOMAIN headers = Ranks /\ DOMAIN received_header_queue = Ranks
  BY DEF PoolInv, RanksGood, RankGood, HeadersGood
<1>11. CASE Head(old).header.epoch < epoch[r]
  <2>1. headers' = headers /\ received_header_queue' = received_header_queue
    BY <1>11 DEF post_header, ordered_recv_and_drop
  <2>2. \A q : Received(q)' = Received(q)
    BY <2>1 DEF Received
  <2> QED
    BY <1>4, <1>6, <1>8, <1>9, <1>11, <2>2 DEF OnTheWay
<1>12. CASE ~(Head(old).header.epoch < epoch[r])
  <2>1. /\ headers' = [headers EXCEPT ![r] = Stored(headers[r], item, Head(old).header)]
        /\ received_header_queue' = [received_header_queue EXCEPT ![r] = Append(queued, item)]
    BY <1>12 DEF post_header, ordered_recv
  <2>2. /\ headers'[r] = Stored(headers[r], item, Head(old).header)
        /\ received_header_queue'[r] = Append(queued, item)
        /\ \A q \in Ranks : q # r => /\ headers'[q] = headers[q]
                                     /\ received_header_queue'[q] = received_header_queue[q]
    BY <1>10, <2>1
  <2>3. item \notin ToSet(queued)
    BY <1>10, HeaderQueued DEF ReceivedHeader
  <2>4. /\ headers'[r][item] = Head(old).header
        /\ \A g \in ToSet(queued) : headers'[r][g] = headers[r][g]
    BY <1>10, <2>2, <2>3 DEF Stored
  <2>5. /\ Len(queued) \in Nat /\ DOMAIN queued = 1..Len(queued)
        /\ DOMAIN Append(queued, item) = 1..(Len(queued) + 1)
        /\ \A i \in 1..Len(queued) : Append(queued, item)[i] = queued[i]
        /\ Append(queued, item)[Len(queued) + 1] = item
        /\ \A i \in 1..Len(queued) : queued[i] \in ToSet(queued)
    <3>1. Removed(Append(queued, item), queued, Len(queued), Len(queued) + 1)
          /\ Append(queued, item)[Len(queued) + 1] = item
      BY <1>10, AppendAdds
    <3>2. \A i \in 1..Len(queued) : Skip(Len(queued) + 1, i) = i
      BY <1>10 DEF Skip
    <3> QED
      BY <1>10, <3>1, <3>2 DEF Removed, ToSet
  <2>6. /\ DOMAIN Received(r) = 1..Len(queued) /\ DOMAIN Received(r)' = 1..(Len(queued) + 1)
        /\ \A i \in 1..Len(queued) : Received(r)[i] = headers[r][queued[i]]
        /\ \A i \in 1..(Len(queued) + 1) :
              Received(r)'[i] = headers'[r][Append(queued, item)[i]]
    BY <2>2, <2>5 DEF Received
  <2>7. \A i \in 1..Len(queued) : Received(r)'[i] = Received(r)[i]
    BY <2>4, <2>5, <2>6
  <2>8. Removed(Received(r)', Received(r), Len(queued), Len(queued) + 1)
    <3>1. \A i \in 1..Len(queued) : Skip(Len(queued) + 1, i) = i
      BY <2>5 DEF Skip
    <3> QED
      BY <2>5, <2>6, <2>7, <3>1 DEF Removed
  <2>9. Received(r)'[Len(queued) + 1] = h
    BY <1>8, <2>4, <2>5, <2>6
  <2>10. \A q \in Ranks : q # r => Received(q)' = Received(q)
    BY <2>2 DEF Received
  <2> HIDE DEF item, queued, old, h
  <2>11. \E m \in Nat : Removed(Received(r)', Received(r), m, m + 1) /\ Received(r)'[m + 1] = h
    BY <2>5, <2>8, <2>9
  <2>12. \A p, q \in Ranks : p # s \/ q # r => OnTheWay(p, q)' = OnTheWay(p, q)
    BY <1>4 DEF OnTheWay
  <2> QED
    BY <1>6, <1>8, <1>9, <1>12, <2>10, <2>11, <2>12 DEF h, old
<1> QED
  BY <1>11, <1>12

\* A header is taken from the queue.
LEMMA TakenAt ==
    ASSUME PoolInv, NEW r \in Ranks, NEW p \in 1..Len(received_header_queue[r]),
           received_header_queue' =
               [received_header_queue EXCEPT ![r] = RemoveAt(received_header_queue[r], p)],
           headers' = [headers EXCEPT ![r] = Without(headers[r], received_header_queue[r][p])]
    PROVE  /\ \A q \in Ranks : q # r => Received(q)' = Received(q)
           /\ \E m \in Nat : Removed(Received(r), Received(r)', m, p)
<1> DEFINE queued == received_header_queue[r]
           h == queued[p]
<1>1. RankGood(r) /\ HeadersGood(header_pool[r], queued) /\ queued \in Seq(Nat)
      /\ DOMAIN headers = Ranks /\ DOMAIN received_header_queue = Ranks
      /\ IsInjective(queued) /\ ToSet(queued) \subseteq DOMAIN headers[r]
  BY DEF PoolInv, RanksGood, RankGood, HeadersGood
<1>2. p \in 1..Len(queued)
  OBVIOUS
<1>3. received_header_queue' = [received_header_queue EXCEPT ![r] = RemoveAt(queued, p)]
  OBVIOUS
<1>4. headers' = [headers EXCEPT ![r] = Without(headers[r], h)]
  OBVIOUS
<1>5. /\ received_header_queue'[r] = RemoveAt(queued, p)
      /\ headers'[r] = Without(headers[r], h)
      /\ \A q \in Ranks : q # r => /\ headers'[q] = headers[q]
                                   /\ received_header_queue'[q] = received_header_queue[q]
  BY <1>1, <1>3, <1>4
<1> DEFINE m == Len(queued) - 1
           rest == RemoveAt(queued, p)
<1>6. /\ m \in Nat /\ Len(queued) = m + 1 /\ DOMAIN queued = 1..(m + 1)
      /\ p \in 1..(m + 1) /\ DOMAIN rest = 1..m
      /\ \A i \in 1..m : rest[i] = queued[Skip(p, i)]
  <2>1. /\ rest \in Seq(Nat) /\ Len(rest) = Len(queued) - 1
        /\ \A j \in 1..(Len(queued) - 1) :
              rest[j] = IF j < p THEN queued[j] ELSE queued[j + 1]
    BY <1>1, <1>2, RemoveAtPositions
  <2>2. Len(queued) \in Nat /\ DOMAIN queued = 1..Len(queued) /\ DOMAIN rest = 1..Len(rest)
    BY <1>1, <2>1
  <2> HIDE DEF queued, rest
  <2>3. m \in Nat /\ Len(queued) = m + 1 /\ p \in 1..(m + 1)
    BY <1>2, <2>2
  <2>4. DOMAIN queued = 1..(m + 1) /\ DOMAIN rest = 1..m
    BY <2>1, <2>2, <2>3
  <2>5. \A i \in 1..m : rest[i] = queued[Skip(p, i)]
    <3> HIDE DEF m
    <3>1. \A j \in 1..m : rest[j] = IF j < p THEN queued[j] ELSE queued[j + 1]
      BY <2>1 DEF m
    <3> QED
      BY <3>1 DEF Skip
  <2> QED
    BY <2>3, <2>4, <2>5
<1>7. \A i \in 1..m : Skip(p, i) \in 1..(m + 1) /\ Skip(p, i) # p
  BY <1>6, SkipFacts
<1>8. \A i \in 1..m : rest[i] # h /\ rest[i] \in DOMAIN headers[r]
  BY <1>1, <1>6, <1>7 DEF IsInjective, ToSet
<1>9. \A g \in DOMAIN headers[r] : g # h => headers'[r][g] = headers[r][g]
  BY <1>5 DEF Without
<1>10. /\ DOMAIN Received(r) = 1..(m + 1) /\ DOMAIN Received(r)' = 1..m
       /\ \A i \in 1..(m + 1) : Received(r)[i] = headers[r][queued[i]]
       /\ \A i \in 1..m : Received(r)'[i] = headers'[r][rest[i]]
  BY <1>5, <1>6 DEF Received
<1> HIDE DEF m, rest, h, queued
<1>11. \A i \in 1..m : Received(r)'[i] = Received(r)[Skip(p, i)]
  BY <1>6, <1>7, <1>8, <1>9, <1>10
<1>12. Removed(Received(r), Received(r)', m, p)
  BY <1>6, <1>10, <1>11 DEF Removed
<1>13. \A q \in Ranks : q # r => Received(q)' = Received(q)
  BY <1>5 DEF Received
<1> QED
  BY <1>6, <1>12, <1>13

\* A receive takes its message.
LEMMA TakenFromQueue ==
    ASSUME PoolInv, NEW r \in Ranks, MPI_Recv(r)
    PROVE  /\ \A q \in Ranks : q # r => Received(q)' = Received(q)
           /\ \E m \in Nat : Removed(Received(r), Received(r)', m, Position(r))
<1> DEFINE queued == received_header_queue[r]
           p == Position(r)
<1>1. RankGood(r) /\ Matching(r)
  BY DEF PoolInv, RanksGood, MPI_Recv
<1>2. p \in 1..Len(queued)
  BY <1>1, RecvFinds
<1>3. received_header_queue' = [received_header_queue EXCEPT ![r] = RemoveAt(queued, p)]
  BY DEF MPI_Recv
<1>4. headers' = [headers EXCEPT ![r] = Without(headers[r], queued[p])]
  BY DEF MPI_Recv, handle_match, fill, release_header
<1> HIDE DEF p
<1>5. /\ \A q \in Ranks : q # r => Received(q)' = Received(q)
      /\ \E m \in Nat : Removed(Received(r), Received(r)', m, p)
  BY <1>2, <1>3, <1>4, TakenAt
<1> QED
  BY <1>5 DEF p

\* So does one that is left posted: a message of tag 0.
LEMMA AbandonedFromQueue ==
    ASSUME PoolInv, NEW r \in Ranks, match_abandoned(r)
    PROVE  \E p \in DOMAIN Received(r) :
              /\ \A q \in Ranks : q # r => Received(q)' = Received(q)
              /\ \E m \in Nat : Removed(Received(r), Received(r)', m, p)
              /\ Received(r)[p].tag = 0
              /\ Received(r)[p].protocol \notin {"ACK", "EAGER_ACK"} => UNCHANGED network
<1> DEFINE queued == received_header_queue[r]
           match == FirstMatch(posted_request_queue[r], Received(r))
           p == match[2]
<1>1. RankGood(r) /\ Wanted(r) /\ LeftGood /\ queued \in Seq(Nat)
  BY DEF PoolInv, RanksGood, RankGood, HeadersGood, match_abandoned
<1>2. p \in 1..Len(queued) /\ headers[r][queued[p]].tag = 0
  BY <1>1, AbandonedFinds
<1>3. received_header_queue' = [received_header_queue EXCEPT ![r] = RemoveAt(queued, p)]
  BY DEF match_abandoned
<1>4. /\ headers' = [headers EXCEPT ![r] = Without(headers[r], queued[p])]
      /\ headers[r][queued[p]].protocol \notin {"ACK", "EAGER_ACK"} => UNCHANGED network
  BY DEF match_abandoned, handle_match, fill, release_header
<1> HIDE DEF p
<1>5. DOMAIN Received(r) = 1..Len(queued) /\ Received(r)[p] = headers[r][queued[p]]
  BY <1>1, <1>2 DEF Received
<1>6. /\ \A q \in Ranks : q # r => Received(q)' = Received(q)
      /\ \E m \in Nat : Removed(Received(r), Received(r)', m, p)
  BY <1>2, <1>3, <1>4, TakenAt
<1>7. Received(r)[p].tag = 0
  BY <1>2, <1>5
<1> QED
  BY <1>2, <1>4, <1>5, <1>6, <1>7

(***************************************************************************)
(* What a step leaves alone. No rank goes back but in a recovery.          *)
(***************************************************************************)
Rigid == UNCHANGED <<world_size, calls>>
Onward ==
    /\ Rigid /\ (restarts' = 0 => restarts = 0)
    /\ \A q \in Ranks : /\ count[q] <= count'[q] /\ epoch[q] <= epoch'[q]
                        /\ is_errSet[q] => is_errSet'[q] /\ epoch'[q] = epoch[q]
                        /\ Stopped(q) => Stopped(q)' /\ count'[q] = count[q]
CountsSame(q) == count'[q] = count[q] /\ busy'[q] = busy[q] /\ plan'[q] = plan[q]
RankSame(q) ==
    /\ CountsSame(q) /\ epoch'[q] = epoch[q] /\ is_errSet'[q] = is_errSet[q]
    /\ groups'[q] = groups[q] /\ communicators'[q] = communicators[q]
    /\ handles'[q] = handles[q] /\ files'[q] = files[q]

LEMMA RigidFacts ==
    ASSUME Rigid
    PROVE  /\ Ranks' = Ranks
           /\ \A r, j : Plan(r, j)' = Plan(r, j)
           /\ \A s, r, j : /\ SentTotal(s, r, j)' = SentTotal(s, r, j)
                           /\ TakenTotal(r, s, j)' = TakenTotal(r, s, j)
BY DEF Rigid, Ranks, Plan, SentTotal, TakenTotal

LEMMA CountsKept ==
    ASSUME Rigid, NEW q, CountsSame(q), NEW x, NEW j
    PROVE  Sent(q, x, j)' = Sent(q, x, j) /\ Taken(q, x, j)' = Taken(q, x, j)
BY RigidFacts DEF CountsSame, Sent, Taken

LEMMA FilesKept ==
    ASSUME Rigid, NEW r, FilesInv(r), epoch'[r] = epoch[r], files'[r] = files[r]
    PROVE  FilesInv(r)'
BY DEF Rigid, FilesInv, GoodFile, WorldGroup, WorldFirst, WorldHandle, Sequence, IsWrite,
       EpochOf, MPI_COMM_WORLD

LEMMA RankKeptHere ==
    ASSUME Rigid, NEW r, RankInv(r), RankSame(r)
    PROVE  RankInv(r)'
<1>1. FilesInv(r)'
  BY FilesKept DEF RankInv, RankSame
<1>2. WorldFirst(communicators[r], r)' /\ WorldHandle(handles[r])'
  BY DEF RankInv, RankSame, WorldFirst, WorldHandle, Sequence, MPI_COMM_WORLD
<1>3. groups'[r] = <<WorldGroup>>'
  BY DEF RankInv, RankSame, WorldGroup, Rigid
<1>4. calls' = calls
  BY DEF Rigid
<1>5. busy'[r] => count'[r] < Len(calls') /\ Rest(plan'[r], Plan(r, count[r] + 1)')
  <2>1. Plan(r, count[r] + 1)' = WorldPlan(world_size', r, calls'[count'[r] + 1])
    BY DEF Plan
  <2>2. Plan(r, count[r] + 1)' = Plan(r, count[r] + 1)
    BY <2>1 DEF Plan, Rigid, RankSame, CountsSame
  <2> QED
    BY <1>4, <2>2 DEF RankInv, RankSame, CountsSame
<1>6. /\ count'[r] <= Len(calls') /\ (~busy'[r] => plan'[r] = <<>>)
      /\ busy'[r] \/ ~is_errSet'[r] => epoch'[r] = EpochOf(calls', count'[r])
  BY <1>4 DEF RankInv, RankSame, CountsSame
<1> QED
  BY <1>1, <1>2, <1>3, <1>5, <1>6 DEF RankInv

LEMMA MessageKept ==
    ASSUME Rigid, NEW s \in Ranks, count[s] \in Nat, count'[s] \in Nat, count[s] <= count'[s],
           NEW h,
           DOMAIN calls \subseteq Nat, GoodMessage(h, s)
    PROVE  GoodMessage(h, s)'
<1>1. calls' = calls
  BY DEF Rigid
<1>2. h.call \in Nat
  BY DEF GoodMessage
<1>3. h.call <= count'[s] + 1
  BY <1>2 DEF GoodMessage
<1> QED
  BY <1>1, <1>3 DEF GoodMessage

\* The types that both ends of a step have.
LEMMA StepTypes ==
    ASSUME WorldCalls, Shape, Shape', Onward
    PROVE  /\ Rigid /\ Ranks' = Ranks /\ calls' = calls /\ DOMAIN calls \subseteq Nat \ {0}
           /\ \A q \in Ranks :
                 /\ count[q] \in Nat /\ count'[q] \in Nat /\ count[q] <= count'[q]
                 /\ epoch[q] \in Nat /\ epoch'[q] \in Nat /\ epoch[q] <= epoch'[q]
<1>1. Rigid /\ calls' = calls
  BY DEF Onward, Rigid
<1>2. Ranks' = Ranks
  BY <1>1, RigidFacts
<1>3. DOMAIN calls \subseteq Nat \ {0}
  BY WorldFacts
<1>4. count \in [Ranks -> Nat] /\ epoch \in [Ranks -> Nat]
  BY DEF Shape
<1>5. count' \in [Ranks -> Nat] /\ epoch' \in [Ranks -> Nat]
  BY <1>2 DEF Shape
<1>6. \A q \in Ranks : count[q] <= count'[q] /\ epoch[q] <= epoch'[q]
  BY DEF Onward
<1> QED
  BY <1>1, <1>2, <1>3, <1>4, <1>5, <1>6

\* A channel or a queue to which nothing was added.
LEMMA WireKept ==
    ASSUME WorldCalls, Shape, Shape', Onward, NEW s \in Ranks, NEW r \in Ranks, WireInv(s, r),
           \A i \in DOMAIN OnTheWay(s, r)' : \E k \in DOMAIN OnTheWay(s, r) :
               OnTheWay(s, r)'[i] = OnTheWay(s, r)[k]
    PROVE  WireInv(s, r)'
<1>1. /\ Rigid /\ count[s] \in Nat /\ count'[s] \in Nat /\ count[s] <= count'[s]
      /\ is_errSet[r] => is_errSet'[r] /\ epoch'[r] = epoch[r]
      /\ DOMAIN calls \subseteq Nat
  BY StepTypes DEF Onward
<1>2. ASSUME NEW i \in DOMAIN OnTheWay(s, r)', NEW h, h = OnTheWay(s, r)'[i]
      PROVE  \/ GoodMessage(h, s)'
             \/ h.tag = MPIX_CLEANUP_TAG /\ s = r /\ is_errSet'[r] /\ h.epoch = epoch'[r]
  <2>1. PICK k \in DOMAIN OnTheWay(s, r) : h = OnTheWay(s, r)[k]
    BY <1>2
  <2>2. \/ GoodMessage(h, s)
        \/ h.tag = MPIX_CLEANUP_TAG /\ s = r /\ is_errSet[r] /\ h.epoch = epoch[r]
    BY <2>1 DEF WireInv
  <2>3. ASSUME GoodMessage(h, s) PROVE GoodMessage(h, s)'
    BY <1>1, <2>3, MessageKept
  <2> QED
    BY <1>1, <2>2, <2>3
<1> QED
  BY <1>2 DEF WireInv, MPIX_CLEANUP_TAG, GoodMessage

LEMMA QueueKept ==
    ASSUME WorldCalls, Shape, Shape', Onward, NEW r \in Ranks, QueueInv(r),
           \A i \in DOMAIN Received(r)' : \E k \in DOMAIN Received(r) :
               Received(r)'[i] = Received(r)[k]
    PROVE  QueueInv(r)'
<1>1. /\ Rigid /\ Ranks' = Ranks /\ DOMAIN calls \subseteq Nat
      /\ \A s \in Ranks : count[s] \in Nat /\ count'[s] \in Nat /\ count[s] <= count'[s]
  BY StepTypes
<1>2. ASSUME NEW i \in DOMAIN Received(r)', NEW h, h = Received(r)'[i], h.tag = 0
      PROVE  \E s \in Ranks : GoodMessage(h, s)'
  <2>1. PICK k \in DOMAIN Received(r) : h = Received(r)[k]
    BY <1>2
  <2>2. PICK s \in Ranks : GoodMessage(h, s)
    BY <1>2, <2>1 DEF QueueInv
  <2>3. GoodMessage(h, s)'
    BY <1>1, <2>2, MessageKept
  <2> QED
    BY <2>3
<1> QED
  BY <1>1, <1>2 DEF QueueInv, GoodMessage

\* The order of what is queued and on its way, when nothing was added.
LEMMA OrderKept ==
    ASSUME NEW s, NEW r, OrderInv(s, r), Received(r)' = Received(r),
           OnTheWay(s, r)' = OnTheWay(s, r)
    PROVE  OrderInv(s, r)'
BY DEF OrderInv, InOrder

LEMMA LiveKept ==
    ASSUME WorldCalls, Shape, Shape', Onward, NEW r \in Ranks, NEW j \in DOMAIN calls, Live(r, j)'
    PROVE  Live(r, j)
<1>1. /\ epoch[r] <= epoch'[r] /\ epoch[r] \in Nat /\ epoch'[r] \in Nat /\ calls' = calls
      /\ j - 1 \in Nat /\ (restarts' = 0 => restarts = 0) /\ (is_errSet[r] => is_errSet'[r])
  <2>1. j \in Nat \ {0}
    BY StepTypes
  <2> QED
    BY <2>1, StepTypes DEF Onward
<1>2. EpochOf(calls, j - 1) \in Nat
  BY <1>1, EpochType
<1> QED
  BY <1>1, <1>2 DEF Live

\* The pipeline of two ranks is kept by a step that sends and takes nothing of it; the
\* sender may stop.
LEMMA PairKept ==
    ASSUME WorldCalls, Shape, Shape', PoolInv, Onward, NEW s \in Ranks, NEW r \in Ranks,
           RankInv(s), RankInv(r), PairInv(s, r),
           ~Stopped(r)' =>
              \A j \in DOMAIN calls :
                 /\ Live(r, j)' => Pending(s, r, j)' = Pending(s, r, j)
                 /\ Taken(r, s, j)' = Taken(r, s, j)
                 /\ ~Stopped(s)' \/ j # count'[s] + 1 => Sent(s, r, j)' = Sent(s, r, j)
    PROVE  PairInv(s, r)'
<1> SUFFICES ASSUME ~Stopped(r)' PROVE \A j \in DOMAIN calls : PairAt(s, r, j)'
  BY DEF PairInv, Onward, Rigid
<1> TAKE j \in DOMAIN calls
<1>1. /\ ~Stopped(r) /\ (~Stopped(s)' => ~Stopped(s))
      /\ Stopped(s) => count'[s] = count[s]
  BY DEF Onward
<1>2. PairAt(s, r, j)
  BY <1>1 DEF PairInv
<1>3. /\ Sent(s, r, j) \in Nat /\ Sent(s, r, j) <= SentTotal(s, r, j)
      /\ Taken(r, s, j) \in Nat /\ SentTotal(s, r, j) \in Nat /\ Pending(s, r, j) \in Nat
      /\ SentTotal(s, r, j)' = SentTotal(s, r, j)
  BY CountFacts, PlanFacts, PendingType, RigidFacts DEF Onward
<1>4. Live(r, j)' => Live(r, j)
  BY LiveKept
<1>5. CASE ~Stopped(s)'
  BY <1>1, <1>2, <1>3, <1>4, <1>5 DEF PairAt
<1>6. CASE Stopped(s)' /\ j # count'[s] + 1
  BY <1>1, <1>2, <1>3, <1>4, <1>6 DEF PairAt
<1>7. CASE Stopped(s)' /\ j = count'[s] + 1
  <2>1. ASSUME Live(r, j)'
        PROVE  Pending(s, r, j)' + Taken(r, s, j)' <= SentTotal(s, r, j)'
    <3>1. Pending(s, r, j)' = Pending(s, r, j) /\ Taken(r, s, j)' = Taken(r, s, j)
      BY <2>1
    <3>2. CASE Stopped(s)
      BY <1>1, <1>2, <1>3, <1>4, <1>7, <2>1, <3>1, <3>2 DEF PairAt
    <3>3. CASE ~Stopped(s)
      BY <1>1, <1>2, <1>3, <1>4, <1>7, <2>1, <3>1, <3>3 DEF PairAt
    <3> QED
      BY <3>2, <3>3
  <2> QED
    BY <1>7, <2>1 DEF PairAt
<1> QED
  BY <1>5, <1>6, <1>7

(***************************************************************************)
(* What a receive finds. A rank that is at a receive is inside its call,   *)
(* on the communicator of the world.                                       *)
(***************************************************************************)
LEMMA AtStep ==
    ASSUME WorldCalls, Steady, NEW r \in Ranks, plan[r] # <<>>
    PROVE  /\ busy[r] /\ ~Stopped(r) /\ r # failed
           /\ count[r] + 1 \in DOMAIN calls /\ epoch[r] = EpochOf(calls, count[r])
           /\ plan[r] \in Seq(Steps(world_size)) /\ Head(plan[r]) \in Steps(world_size)
           /\ Head(plan[r]).peer \in Ranks
           /\ Head(plan[r]).operation \in (SendOperations \ {"Ssend"}) \cup Receives
           /\ \A source : Envelope(r, source) =
                 [epoch |-> epoch[r], context |-> 0, source |-> source, tag |-> 0]
<1>1. RankInv(r) /\ Shape /\ FaultInv
  BY DEF Steady
<1>2. busy[r] /\ count[r] < Len(calls) /\ epoch[r] = EpochOf(calls, count[r])
  BY <1>1 DEF RankInv
<1>3. r # failed
  BY <1>1, <1>2, WorldFacts DEF FaultInv
<1>4. count[r] \in Nat /\ plan[r] \in Seq(Steps(world_size))
  BY <1>1 DEF Shape
<1>5. count[r] + 1 \in DOMAIN calls
  BY <1>1, <1>2, <1>4, WorldFacts
<1>6. Head(plan[r]) \in Steps(world_size)
  BY <1>4
<1>7. /\ Head(plan[r]).peer \in Ranks /\ Head(plan[r]).comm = MPI_COMM_WORLD
      /\ Head(plan[r]).operation \in (SendOperations \ {"Ssend"}) \cup Receives
  BY <1>1, <1>6, WorldFacts DEF Steps
<1>8. get_context_id_pt2pt(r, MPI_COMM_WORLD) = 0
  BY <1>1 DEF RankInv, WorldFirst, get_context_id_pt2pt, Communicator, MPI_COMM_WORLD
<1> QED
  BY <1>2, <1>3, <1>4, <1>5, <1>6, <1>7, <1>8 DEF Stopped, Envelope

\* The message that a receive finds comes from the step's peer; nothing that the receive
\* could take is queued before it.
LEMMA FoundFits ==
    ASSUME WorldCalls, PoolInv, Steady, NEW r \in Ranks, NextIs(r, Receives), Matching(r),
           NEW h, h = Received(r)[Position(r)], NEW s, s = Head(plan[r]).peer
    PROVE  /\ s \in Ranks /\ Position(r) \in DOMAIN Received(r) /\ GoodMessage(h, s)
           /\ h.epoch = epoch[r]
           /\ \A i \in DOMAIN Received(r) :
                 /\ Received(r)[i].tag = 0 /\ Received(r)[i].source = s
                 /\ Received(r)[i].epoch = epoch[r]
                 => Position(r) <= i
<1> DEFINE match == FirstMatch(Expected(r), Received(r))
<1>1. /\ plan[r] # <<>> /\ s \in Ranks /\ s # AnySource
      /\ Expected(r) = <<[epoch |-> epoch[r], context |-> 0, source |-> s, tag |-> 0]>>
  <2>1. plan[r] # <<>>
    BY DEF NextIs
  <2>2. s \in Ranks /\ s # AnySource
    BY <2>1, AtStep, WorldFacts DEF Steady
  <2> QED
    BY <2>1, <2>2, AtStep DEF Expected
<1>2. /\ Expected(r)[1].epoch = epoch[r] /\ Expected(r)[1].context = 0
      /\ Expected(r)[1].source = s /\ Expected(r)[1].tag = 0 /\ DOMAIN Expected(r) = {1}
  BY <1>1
<1>3. DOMAIN Received(r) \subseteq Nat
  BY HeaderSequences
<1>4. /\ match \in MatchingPairs(Expected(r), Received(r))
      /\ \A q \in MatchingPairs(Expected(r), Received(r)) : Before(match, q)
  BY <1>2, <1>3, FirstMatchFits DEF Matching
<1>5. /\ match[1] = 1 /\ Position(r) \in DOMAIN Received(r)
      /\ Matches(Expected(r)[1], h)
  BY <1>2, <1>4 DEF MatchingPairs, Position
<1>6. h.epoch = epoch[r] /\ h.context = 0 /\ h.source = s /\ h.tag = 0
  BY <1>1, <1>2, <1>5, CollectivesAssumption DEF Matches
<1>7. GoodMessage(h, s)
  <2>1. PICK q \in Ranks : GoodMessage(h, q)
    BY <1>5, <1>6 DEF Steady, QueueInv
  <2> QED
    BY <1>6, <2>1 DEF GoodMessage
<1>8. ASSUME NEW i \in DOMAIN Received(r), Received(r)[i].tag = 0, Received(r)[i].source = s,
             Received(r)[i].epoch = epoch[r]
      PROVE  Position(r) <= i
  <2>1. Received(r)[i].context = 0
    BY <1>8 DEF Steady, QueueInv, GoodMessage
  <2>2. Matches(Expected(r)[1], Received(r)[i])
    BY <1>2, <1>8, <2>1 DEF Matches
  <2>3. <<1, i>> \in MatchingPairs(Expected(r), Received(r))
    BY <1>2, <2>2 DEF MatchingPairs
  <2>4. Before(match, <<1, i>>)
    BY <1>4, <2>3
  <2> QED
    BY <1>5, <2>4 DEF Before, Position
<1> QED
  BY <1>1, <1>5, <1>6, <1>7, <1>8

\* It belongs to the receiver's own call.
LEMMA FoundOwn ==
    ASSUME WorldCalls, PoolInv, Steady, NEW r \in Ranks, NextIs(r, Receives), ~is_errSet[r],
           Matching(r), NEW h, h = Received(r)[Position(r)], NEW s, s = Head(plan[r]).peer
    PROVE  h.call = count[r] + 1
<1> DEFINE j == count[r] + 1
           c == h.call
<1>1. /\ s \in Ranks /\ Position(r) \in DOMAIN Received(r) /\ GoodMessage(h, s)
      /\ h.epoch = epoch[r]
      /\ \A i \in DOMAIN Received(r) :
            /\ Received(r)[i].tag = 0 /\ Received(r)[i].source = s
            /\ Received(r)[i].epoch = epoch[r]
            => Position(r) <= i
  BY FoundFits
<1>2. /\ plan[r] # <<>> /\ busy[r] /\ ~Stopped(r) /\ j \in DOMAIN calls
      /\ epoch[r] = EpochOf(calls, count[r]) /\ plan[r] \in Seq(Steps(world_size))
  BY AtStep DEF NextIs
<1>3. /\ Shape /\ RankInv(r) /\ RankInv(s) /\ PairInv(s, r) /\ OrderInv(s, r) /\ WireInv(s, r)
  BY <1>1 DEF Steady, PairsInv
<1>4. /\ count[r] \in Nat /\ count[s] \in Nat /\ epoch[r] \in Nat
      /\ c \in DOMAIN calls /\ c \in Nat /\ c - 1 \in Nat /\ c <= count[s] + 1
  <2>1. c \in DOMAIN calls /\ c <= count[s] + 1
    BY <1>1 DEF GoodMessage
  <2>2. count[r] \in Nat /\ count[s] \in Nat /\ epoch[r] \in Nat
    BY <1>1, <1>3 DEF Shape
  <2> QED
    BY <1>3, <2>1, <2>2, WorldFacts
<1>5. Hit(h, s, c)
  BY <1>1 DEF GoodMessage, Hit
<1>6. \A k \in DOMAIN calls :
         /\ PairAt(s, r, k) /\ Sent(s, r, k) \in Nat /\ Sent(s, r, k) <= SentTotal(s, r, k)
         /\ Taken(r, s, k) \in Nat /\ Pending(s, r, k) \in Nat
         /\ SentTotal(s, r, k) = TakenTotal(r, s, k) /\ SentTotal(s, r, k) \in Nat
  BY <1>1, <1>2, <1>3, CountFacts, PlanFacts, PendingType DEF PairInv
<1>7. ASSUME c < j PROVE FALSE
  <2>1. Taken(r, s, c) = TakenTotal(r, s, c)
    BY <1>4, <1>7 DEF Taken
  <2>2. Live(r, c)
    BY <1>1, <1>4 DEF Live, GoodMessage
  <2>3. Pending(s, r, c) > 0
    BY <1>1, <1>5, PendingType
  <2>4. Pending(s, r, c) + Taken(r, s, c) <= SentTotal(s, r, c)
    BY <1>4, <1>6, <2>2 DEF PairAt
  <2> QED
    BY <1>4, <1>6, <2>1, <2>3, <2>4
<1>8. ASSUME c > j PROVE FALSE
  <2>1. j <= count[s]
    BY <1>4, <1>8
  <2>2. Sent(s, r, j) = SentTotal(s, r, j)
    BY <2>1 DEF Sent
  <2>3. Taken(r, s, j) < TakenTotal(r, s, j)
    <3> DEFINE left == Cardinality(Receipts(plan[r], s))
    <3>1. Taken(r, s, j) = TakenTotal(r, s, j) - left
      BY <1>2, <1>4 DEF Taken
    <3>2. Removed(plan[r], Tail(plan[r]), Len(plan[r]) - 1, 1) /\ Head(plan[r]) = plan[r][1]
      BY <1>2, TailRemoves
    <3>3. /\ left \in Nat /\ Cardinality(Receipts(Tail(plan[r]), s)) \in Nat
          /\ left = Cardinality(Receipts(Tail(plan[r]), s)) + 1
      BY <3>2, ReceiptsRemoved DEF NextIs
    <3> HIDE DEF left
    <3> QED
      BY <1>2, <1>6, <3>1, <3>3
  <2>4. Live(r, j)
    BY <1>2, <1>4 DEF Live
  <2>5. Pending(s, r, j) + Taken(r, s, j) = Sent(s, r, j)
    BY <1>2, <1>4, <1>6, <2>1, <2>4, SMTT(30) DEF PairAt
  <2>6. Pending(s, r, j) > 0
    BY <1>2, <1>6, <2>2, <2>3, <2>5
  <2>7. ASSUME NEW i \in DOMAIN Received(r), Hit(Received(r)[i], s, j) PROVE FALSE
    <3>1. \E q \in Ranks : GoodMessage(Received(r)[i], q)
      BY <2>7 DEF Steady, QueueInv, Hit
    <3>2. Received(r)[i].epoch = epoch[r]
      BY <1>2, <1>4, <2>7, <3>1 DEF GoodMessage, Hit
    <3>3. Position(r) <= i
      BY <1>1, <2>7, <3>2 DEF Hit
    <3>4. Position(r) # i
      BY <1>4, <1>8, <2>7 DEF Hit
    <3>5. Position(r) < i
      BY <1>1, <3>3, <3>4, HeaderSequences
    <3>6. c <= j
      BY <1>1, <1>3, <1>5, <2>7, <3>5 DEF OrderInv, InOrder, Hit
    <3> QED
      BY <1>4, <1>8, <3>6
  <2>8. ASSUME NEW i \in DOMAIN OnTheWay(s, r), Hit(OnTheWay(s, r)[i], s, j) PROVE FALSE
    <3>1. c <= j
      BY <1>1, <1>3, <1>5, <2>8 DEF OrderInv, Hit
    <3> QED
      BY <1>4, <1>8, <3>1
  <2> QED
    BY <1>1, <2>6, <2>7, <2>8, PendingType
<1> QED
  BY <1>4, <1>7, <1>8

(***************************************************************************)
(* The parts of the invariant after a step that moves no message.          *)
(***************************************************************************)
LEMMA NoneMoves ==
    ASSUME WorldCalls, PoolInv, Steady, Shape', Onward, QueuesSame, WiresSame
    PROVE  \A r \in Ranks :
              /\ QueueInv(r)'
              /\ \A s \in Ranks : /\ WireInv(s, r)' /\ OrderInv(s, r)'
                                  /\ \A j : Pending(s, r, j)' = Pending(s, r, j)
<1> SUFFICES ASSUME NEW r \in Ranks
             PROVE  /\ QueueInv(r)'
                    /\ \A s \in Ranks : /\ WireInv(s, r)' /\ OrderInv(s, r)'
                                        /\ \A j : Pending(s, r, j)' = Pending(s, r, j)
  OBVIOUS
<1>1. Shape /\ QueueInv(r) /\ Received(r)' = Received(r)
  BY DEF Steady, QueuesSame
<1>2. QueueInv(r)'
  BY <1>1, QueueKept
<1>3. ASSUME NEW s \in Ranks
      PROVE  /\ WireInv(s, r)' /\ OrderInv(s, r)'
             /\ \A j : Pending(s, r, j)' = Pending(s, r, j)
  <2>1. WireInv(s, r) /\ OrderInv(s, r) /\ OnTheWay(s, r)' = OnTheWay(s, r)
    BY DEF Steady, PairsInv, WiresSame
  <2>2. WireInv(s, r)'
    BY <1>1, <2>1, WireKept
  <2>3. OrderInv(s, r)'
    BY <1>1, <2>1, OrderKept
  <2>4. ASSUME NEW j PROVE Pending(s, r, j)' = Pending(s, r, j)
    BY <1>1, <2>1 DEF Pending, Hits
  <2> QED
    BY <2>2, <2>3, <2>4
<1> QED
  BY <1>2, <1>3

LEMMA PairsStay ==
    ASSUME WorldCalls, PoolInv, Steady, Shape', Onward, QueuesSame, WiresSame,
           \A s, r \in Ranks : ~Stopped(r)' =>
              \A j \in DOMAIN calls :
                 /\ Taken(r, s, j)' = Taken(r, s, j)
                 /\ ~Stopped(s)' \/ j # count'[s] + 1 => Sent(s, r, j)' = Sent(s, r, j)
    PROVE  PairsInv'
<1>1. Shape /\ Ranks' = Ranks
  BY StepTypes DEF Steady
<1>2. ASSUME NEW s \in Ranks, NEW r \in Ranks
      PROVE  WireInv(s, r)' /\ OrderInv(s, r)' /\ PairInv(s, r)'
  <2>1. RankInv(s) /\ RankInv(r) /\ PairInv(s, r)
    BY DEF Steady, PairsInv
  <2>2. WireInv(s, r)' /\ OrderInv(s, r)' /\ \A j : Pending(s, r, j)' = Pending(s, r, j)
    BY NoneMoves
  <2>3. PairInv(s, r)'
    BY <1>1, <2>1, <2>2, PairKept
  <2> QED
    BY <2>2, <2>3
<1> QED
  BY <1>1, <1>2 DEF PairsInv

\* A step of one rank.
OthersSame(r) ==
    /\ Rigid /\ failed' = failed /\ restarts' = restarts
    /\ \A q \in Ranks \ {r} : RankSame(q)
Goes(r) ==
    /\ count[r] <= count'[r] /\ epoch[r] <= epoch'[r]
    /\ is_errSet[r] => is_errSet'[r] /\ epoch'[r] = epoch[r]
    /\ Stopped(r) => Stopped(r)' /\ count'[r] = count[r]

LEMMA OneMoves ==
    ASSUME WorldCalls, Steady, Shape', NEW r \in Ranks, OthersSame(r), Goes(r)
    PROVE  /\ Onward
           /\ \A q \in Ranks \ {r} : RankInv(q)'
           /\ \A q \in Ranks \ {r} : \A x, j : /\ Taken(q, x, j)' = Taken(q, x, j)
                                               /\ Sent(q, x, j)' = Sent(q, x, j)
<1>1. ASSUME NEW q \in Ranks \ {r} PROVE RankInv(q)'
  BY RankKeptHere DEF Steady, OthersSame
<1>2. ASSUME NEW q \in Ranks \ {r}, NEW x, NEW j
      PROVE  Taken(q, x, j)' = Taken(q, x, j) /\ Sent(q, x, j)' = Sent(q, x, j)
  BY CountsKept DEF OthersSame, RankSame
<1>3. ASSUME NEW q \in Ranks
      PROVE  /\ count[q] <= count'[q] /\ epoch[q] <= epoch'[q]
             /\ is_errSet[q] => is_errSet'[q] /\ epoch'[q] = epoch[q]
             /\ Stopped(q) => Stopped(q)' /\ count'[q] = count[q]
  <2>1. CASE q = r
    BY <2>1 DEF Goes
  <2>2. CASE q # r
    <3>1. count[q] \in Nat /\ epoch[q] \in Nat
      BY DEF Steady, Shape
    <3>2. RankSame(q)
      BY <2>2 DEF OthersSame
    <3> QED
      BY <3>1, <3>2 DEF RankSame, CountsSame, Stopped, OthersSame
  <2> QED
    BY <2>1, <2>2
<1>4. Onward
  BY <1>3 DEF Onward, OthersSame
<1> QED
  BY <1>1, <1>2, <1>4

LEMMA Together ==
    ASSUME WorldCalls, Steady, Shape', Onward, FaultInv', PairsInv',
           NEW r \in Ranks, RankInv(r)', \A q \in Ranks \ {r} : RankInv(q)',
           \A q \in Ranks : QueueInv(q)'
    PROVE  Steady'
<1>1. Ranks' = Ranks
  BY StepTypes DEF Steady
<1>2. \A q \in Ranks : RankInv(q)'
  OBVIOUS
<1> QED
  BY <1>1, <1>2 DEF Steady

(***************************************************************************)
(* A rank enters a call.                                                   *)
(***************************************************************************)
\* On the communicator of the world, a rank and a size are those of the job.
LEMMA PlanOfCall ==
    ASSUME WorldCalls, Shape, NEW r \in Ranks, RankInv(r), NEW j \in DOMAIN calls
    PROVE  /\ PlanOf(r, calls[j]) = Plan(r, j) /\ handles[r][calls[j].comm] = MPI_COMM_WORLD
           /\ Communicator(r, MPI_COMM_WORLD) = WorldComm(r)
<1>1. /\ groups[r] = <<WorldGroup>> /\ communicators[r][1] = WorldComm(r)
      /\ handles[r][calls[j].comm] = MPI_COMM_WORLD
  BY WorldFacts DEF RankInv, WorldFirst, WorldHandle, WorldComm
<1>2. Communicator(r, MPI_COMM_WORLD) = WorldComm(r)
  BY <1>1 DEF Communicator, MPI_COMM_WORLD
<1>3. MPI_Comm_rank(r, MPI_COMM_WORLD) = r /\ get_context_id_pt2pt(r, MPI_COMM_WORLD) = 0
  BY <1>2 DEF MPI_Comm_rank, get_context_id_pt2pt, WorldComm
<1>4. MPI_Comm_size(r, MPI_COMM_WORLD) = world_size
  <2> DEFINE group == CHOOSE i \in DOMAIN groups[r] :
                          groups[r][i].group_id = Communicator(r, MPI_COMM_WORLD).local
  <2>1. DOMAIN groups[r] = {1} /\ groups[r][1] = WorldGroup
    BY <1>1
  <2>2. WorldGroup.group_id = 0 /\ Communicator(r, MPI_COMM_WORLD).local = 0
    BY <1>2 DEF WorldGroup, WorldComm
  <2>3. group = 1
    BY <2>1, <2>2
  <2>4. Len(WorldGroup.process_list) = world_size
    BY WorldFacts DEF WorldGroup
  <2> QED
    BY <2>1, <2>3, <2>4 DEF MPI_Comm_size
<1>5. Within(r, MPI_COMM_WORLD) = World(world_size, r)
  BY <1>3, <1>4 DEF Within, World
<1> QED
  BY <1>1, <1>2, <1>3, <1>5 DEF PlanOf, Plan, WorldPlan

\* The failures as they were.
LEMMA FaultKept ==
    ASSUME FaultInv, Ranks' = Ranks, failed' = failed, restarts' = restarts,
           \A q \in Ranks : is_errSet'[q] = is_errSet[q],
           failed \in Ranks \cup {NoRank}, failed # NoRank => ~busy'[failed]
    PROVE  FaultInv'
BY DEF FaultInv, NoRank

LEMMA EnterKeeps ==
    ASSUME WorldCalls, PoolInv, Steady, UNCHANGED world_size, NEW r \in Ranks, Enter(r)
    PROVE  Steady'
<1> DEFINE c == count[r] + 1
<1>1. Shape /\ FaultInv /\ RankInv(r) /\ Ranks' = Ranks
  BY DEF Steady, Ranks
<1>2. /\ ~busy[r] /\ count[r] < Len(calls) /\ r # failed /\ ~is_errSet[r]
      /\ busy' = [busy EXCEPT ![r] = TRUE]
      /\ plan' = [plan EXCEPT ![r] = PlanOf(r, calls[c])]
      /\ UNCHANGED <<calls, count, epoch, received_header_queue, faultVars, transportVars,
                     groups, communicators, handles, checkpointVars>>
  BY DEF Enter, Call
<1>3. c \in DOMAIN calls /\ count[r] \in Nat /\ epoch[r] \in Nat
  <2>1. count[r] \in Nat /\ epoch[r] \in Nat
    BY <1>1 DEF Shape
  <2> QED
    BY <1>1, <1>2, <2>1, WorldFacts
<1>4. PlanOf(r, calls[c]) = Plan(r, c) /\ Plan(r, c) \in Seq(Steps(world_size))
  BY <1>1, <1>3, PlanOfCall, PlanFacts
<1>5. /\ busy \in [Ranks -> BOOLEAN] /\ plan \in [Ranks -> Seq(Steps(world_size))]
      /\ busy' \in [Ranks -> BOOLEAN] /\ plan' \in [Ranks -> Seq(Steps(world_size))]
      /\ busy'[r] /\ plan'[r] = Plan(r, c)
  BY <1>1, <1>2, <1>4 DEF Shape
<1>6. Shape'
  BY <1>1, <1>2, <1>5 DEF Shape, faultVars, checkpointVars, NoRank
<1>7. OthersSame(r)
  BY <1>2, <1>5 DEF OthersSame, Rigid, RankSame, CountsSame, faultVars, checkpointVars
<1>8. Goes(r)
  BY <1>2, <1>3 DEF Goes, Stopped, faultVars
<1>9. /\ Onward /\ \A q \in Ranks \ {r} : RankInv(q)'
      /\ \A q \in Ranks \ {r} : \A x, j : /\ Taken(q, x, j)' = Taken(q, x, j)
                                          /\ Sent(q, x, j)' = Sent(q, x, j)
  BY <1>6, <1>7, <1>8, OneMoves
<1>10. QueuesSame /\ WiresSame
  BY <1>2, QueuesKept, WiresKept DEF transportVars, poolVars
<1>11. ASSUME NEW x \in Ranks, NEW j \in DOMAIN calls
       PROVE  Taken(r, x, j)' = Taken(r, x, j) /\ Sent(r, x, j)' = Sent(r, x, j)
  <2>1. /\ SentTotal(r, x, j)' = SentTotal(r, x, j) /\ TakenTotal(r, x, j)' = TakenTotal(r, x, j)
        /\ count'[r] = count[r]
    BY <1>2, <1>7, RigidFacts DEF OthersSame
  <2>2. CASE j # c
    BY <1>3, <2>1, <2>2 DEF Taken, Sent
  <2>3. CASE j = c
    <3>1. /\ Sent(r, x, j) = 0 /\ Taken(r, x, j) = 0
      BY <1>2, <1>3, <2>3 DEF Taken, Sent
    <3>2. /\ Sent(r, x, j)' = SentTotal(r, x, j) - SentTotal(r, x, j)
          /\ Taken(r, x, j)' = TakenTotal(r, x, j) - TakenTotal(r, x, j)
      BY <1>3, <1>5, <2>1, <2>3 DEF Taken, Sent, SentTotal, TakenTotal
    <3>3. SentTotal(r, x, j) \in Nat /\ TakenTotal(r, x, j) \in Nat
      BY <1>1, PlanFacts
    <3> QED
      BY <3>1, <3>2, <3>3
  <2> QED
    BY <2>2, <2>3
<1>12. PairsInv'
  BY <1>6, <1>9, <1>10, <1>11, PairsStay
<1>13. FaultInv'
  <2>1. failed \in Ranks \cup {NoRank} /\ (failed # NoRank => ~busy'[failed])
    BY <1>1, <1>2 DEF Shape, FaultInv
  <2> QED
    BY <1>1, <1>2, <2>1, FaultKept DEF faultVars
<1>14. RankInv(r)'
  <2>1. FilesInv(r)'
    BY <1>1, <1>2, <1>7, FilesKept DEF RankInv, OthersSame, checkpointVars
  <2>2. /\ groups'[r] = <<WorldGroup>>' /\ WorldFirst(communicators[r], r)'
        /\ WorldHandle(handles[r])'
    BY <1>1, <1>2 DEF RankInv, WorldGroup, WorldFirst, WorldHandle, Sequence, MPI_COMM_WORLD
  <2>3. Rest(plan'[r], Plan(r, count[r] + 1)')
    <3>1. Plan(r, count[r] + 1)' = Plan(r, c)
      BY <1>2 DEF Plan
    <3> QED
      BY <1>4, <1>5, <3>1, RestAll
  <2>4. count'[r] < Len(calls') /\ count'[r] <= Len(calls')
    BY <1>1, <1>2, <1>3, WorldFacts
  <2>5. epoch'[r] = EpochOf(calls', count'[r])
    BY <1>1, <1>2 DEF RankInv
  <2> QED
    BY <1>5, <2>1, <2>2, <2>3, <2>4, <2>5 DEF RankInv
<1> QED
  BY <1>6, <1>9, <1>10, <1>12, <1>13, <1>14, NoneMoves, Together

(***************************************************************************)
(* A call ends with an error, or with its process.                         *)
(***************************************************************************)
LEMMA CallEndsKeeps ==
    ASSUME WorldCalls, PoolInv, Steady, Shape', Onward, NEW r \in Ranks, Stopped(r)',
           count'[r] = count[r], QueuesSame, WiresSame,
           \A q \in Ranks \ {r} : \A x, j : /\ Taken(q, x, j)' = Taken(q, x, j)
                                            /\ Sent(q, x, j)' = Sent(q, x, j)
    PROVE  PairsInv'
<1>1. Rigid
  BY DEF Onward
<1>2. ASSUME NEW x \in Ranks, NEW j \in DOMAIN calls, j # count'[r] + 1
      PROVE  Sent(r, x, j)' = Sent(r, x, j)
  <2>1. SentTotal(r, x, j)' = SentTotal(r, x, j)
    BY <1>1, RigidFacts
  <2> QED
    BY <1>2, <2>1 DEF Sent
<1>3. ASSUME NEW s \in Ranks, NEW q \in Ranks, ~Stopped(q)', NEW j \in DOMAIN calls
      PROVE  /\ Taken(q, s, j)' = Taken(q, s, j)
             /\ ~Stopped(s)' \/ j # count'[s] + 1 => Sent(s, q, j)' = Sent(s, q, j)
  <2>1. q # r
    BY <1>3
  <2>2. CASE s = r
    BY <1>2, <2>1, <2>2
  <2>3. CASE s # r
    BY <2>1, <2>3
  <2> QED
    BY <2>2, <2>3
<1> QED
  BY <1>3, PairsStay

\* The files, groups, communicators and handles of a rank as they were, and no call.
LEMMA IdleRank ==
    ASSUME WorldCalls, Rigid, Shape, NEW r \in Ranks, RankInv(r),
           ~busy'[r], plan'[r] = <<>>, count'[r] = count[r],
           epoch'[r] = epoch[r], groups'[r] = groups[r], communicators'[r] = communicators[r],
           handles'[r] = handles[r], files'[r] = files[r],
           ~is_errSet'[r] => epoch[r] = EpochOf(calls, count[r])
    PROVE  RankInv(r)'
<1>1. FilesInv(r)'
  BY FilesKept DEF RankInv
<1>2. /\ WorldFirst(communicators[r], r)' /\ WorldHandle(handles[r])'
      /\ groups'[r] = <<WorldGroup>>'
  BY DEF RankInv, WorldFirst, WorldHandle, Sequence, MPI_COMM_WORLD, WorldGroup, Rigid
<1>3. calls' = calls /\ count[r] <= Len(calls)
  BY DEF Rigid, RankInv
<1> QED
  BY <1>1, <1>2, <1>3 DEF RankInv

LEMMA FailKeeps ==
    ASSUME WorldCalls, PoolInv, Steady, UNCHANGED world_size, NEW r \in Ranks, Fail(r)
    PROVE  Steady'
<1>1. Shape /\ FaultInv /\ RankInv(r) /\ Ranks' = Ranks
  BY DEF Steady, Ranks
<1>2. /\ failed = NoRank /\ failed' = r /\ restarts' = restarts + 1
      /\ plan' = [plan EXCEPT ![r] = <<>>] /\ busy' = [busy EXCEPT ![r] = FALSE]
      /\ UNCHANGED <<calls, count, memory, epoch, received_header_queue, is_errSet, disturbed,
                     transportVars, commVars, checkpointVars>>
  BY DEF Fail, CallEnds
<1>3. NoRank \notin Ranks /\ restarts \in Nat /\ \A q \in Ranks : ~is_errSet[q]
  BY <1>1, <1>2, WorldFacts DEF Shape, FaultInv
<1>4. /\ busy' \in [Ranks -> BOOLEAN] /\ plan' \in [Ranks -> Seq(Steps(world_size))]
      /\ ~busy'[r] /\ plan'[r] = <<>>
      /\ \A q \in Ranks \ {r} : busy'[q] = busy[q] /\ plan'[q] = plan[q]
  BY <1>1, <1>2 DEF Shape
<1>5. Shape'
  BY <1>1, <1>2, <1>3, <1>4 DEF Shape, checkpointVars, commVars, NoRank
<1>6. Rigid
  BY <1>2 DEF Rigid
<1>7. \A q \in Ranks : count[q] \in Nat /\ epoch[q] \in Nat
  BY <1>1 DEF Shape
<1>8. Onward
  BY <1>2, <1>3, <1>6, <1>7 DEF Onward, Stopped
<1>9. QueuesSame /\ WiresSame
  BY <1>2, QueuesKept, WiresKept DEF transportVars, poolVars
<1>10. ASSUME NEW q \in Ranks \ {r}, NEW x, NEW j
       PROVE  Taken(q, x, j)' = Taken(q, x, j) /\ Sent(q, x, j)' = Sent(q, x, j)
  BY <1>2, <1>4, <1>6, CountsKept DEF CountsSame
<1>11. Stopped(r)'
  BY <1>2 DEF Stopped
<1>12. PairsInv'
  BY <1>2, <1>5, <1>8, <1>9, <1>10, <1>11, CallEndsKeeps
<1>13. FaultInv'
  BY <1>1, <1>2, <1>3, <1>4 DEF FaultInv, NoRank
<1>14. RankInv(r)'
  <2>1. epoch[r] = EpochOf(calls, count[r])
    BY <1>1, <1>3 DEF RankInv
  <2> QED
    BY <1>1, <1>2, <1>4, <1>6, <2>1, IdleRank DEF commVars, checkpointVars
<1>15. ASSUME NEW q \in Ranks \ {r} PROVE RankInv(q)'
  <2>1. RankSame(q)
    BY <1>2, <1>4 DEF RankSame, CountsSame, commVars, checkpointVars
  <2> QED
    BY <1>6, <2>1, RankKeptHere DEF Steady
<1> QED
  BY <1>5, <1>8, <1>9, <1>12, <1>13, <1>14, <1>15, NoneMoves, Together

LEMMA AbortKeeps ==
    ASSUME WorldCalls, PoolInv, Steady, UNCHANGED world_size, NEW r \in Ranks, Abort(r)
    PROVE  Steady'
<1>1. Shape /\ FaultInv /\ RankInv(r) /\ Ranks' = Ranks
  BY DEF Steady, Ranks
<1>2. /\ is_errSet[r] /\ busy[r]
      /\ plan' = [plan EXCEPT ![r] = <<>>] /\ busy' = [busy EXCEPT ![r] = FALSE]
      /\ UNCHANGED <<calls, count, memory, epoch, received_header_queue, faultVars,
                     transportVars, commVars, checkpointVars>>
  BY DEF Abort, CallEnds
<1>3. r # failed
  BY <1>1, <1>2, WorldFacts DEF FaultInv
<1>4. /\ busy' \in [Ranks -> BOOLEAN] /\ plan' \in [Ranks -> Seq(Steps(world_size))]
      /\ ~busy'[r] /\ plan'[r] = <<>>
      /\ \A q \in Ranks \ {r} : busy'[q] = busy[q] /\ plan'[q] = plan[q]
  BY <1>1, <1>2 DEF Shape
<1>5. Shape'
  BY <1>1, <1>2, <1>4 DEF Shape, checkpointVars, commVars, faultVars, NoRank
<1>6. OthersSame(r)
  BY <1>2, <1>4 DEF OthersSame, Rigid, RankSame, CountsSame, faultVars, checkpointVars, commVars
<1>7. Goes(r) /\ Stopped(r)'
  <2>1. count[r] \in Nat /\ epoch[r] \in Nat
    BY <1>1 DEF Shape
  <2> QED
    BY <1>2, <1>4, <2>1 DEF Goes, Stopped, faultVars
<1>8. /\ Onward /\ \A q \in Ranks \ {r} : RankInv(q)'
      /\ \A q \in Ranks \ {r} : \A x, j : /\ Taken(q, x, j)' = Taken(q, x, j)
                                          /\ Sent(q, x, j)' = Sent(q, x, j)
  BY <1>5, <1>6, <1>7, OneMoves
<1>9. QueuesSame /\ WiresSame
  BY <1>2, QueuesKept, WiresKept DEF transportVars, poolVars
<1>10. PairsInv'
  BY <1>2, <1>5, <1>7, <1>8, <1>9, CallEndsKeeps
<1>11. FaultInv'
  <2>1. failed \in Ranks \cup {NoRank} /\ (failed # NoRank => ~busy'[failed])
    BY <1>1, <1>3, <1>4 DEF Shape, FaultInv
  <2> QED
    BY <1>1, <1>2, <2>1, FaultKept DEF faultVars
<1>12. RankInv(r)'
  <2>1. Rigid /\ is_errSet'[r]
    BY <1>2, <1>6 DEF OthersSame, faultVars
  <2> QED
    BY <1>1, <1>2, <1>4, <2>1, IdleRank DEF commVars, checkpointVars
<1> QED
  BY <1>5, <1>8, <1>9, <1>10, <1>11, <1>12, NoneMoves, Together

(***************************************************************************)
(* A message is sent: one of a call, or one of cleanup to the own rank.    *)
(***************************************************************************)
LEMMA AddedElements ==
    ASSUME NEW long, NEW short, NEW n, Removed(long, short, n, n + 1)
    PROVE  /\ n \in Nat /\ DOMAIN short = 1..n /\ DOMAIN long = 1..(n + 1)
           /\ \A i \in 1..n : long[i] = short[i]
BY DEF Removed, Skip

LEMMA OrderAdded ==
    ASSUME NEW long, NEW short, NEW n, Removed(long, short, n, n + 1), NEW s, InOrder(short, s),
           NEW h, h = long[n + 1],
           h.tag = 0 /\ h.source = s =>
              h.call \in Nat /\ \A i \in DOMAIN short :
                 short[i].tag = 0 /\ short[i].source = s => short[i].call <= h.call
    PROVE  InOrder(long, s)
<1>1. /\ n \in Nat /\ DOMAIN short = 1..n /\ DOMAIN long = 1..(n + 1)
      /\ \A i \in 1..n : long[i] = short[i]
  BY AddedElements
<1> SUFFICES ASSUME NEW i \in 1..(n + 1), NEW k \in 1..(n + 1),
                    i < k, long[i].tag = 0, long[k].tag = 0,
                    long[i].source = s, long[k].source = s
             PROVE  long[i].call <= long[k].call
  BY <1>1 DEF InOrder
<1>2. i \in 1..n /\ (k \in 1..n \/ k = n + 1)
  BY <1>1
<1>3. CASE k \in 1..n
  BY <1>1, <1>2, <1>3 DEF InOrder
<1>4. CASE k = n + 1
  BY <1>1, <1>2, <1>4
<1> QED
  BY <1>2, <1>3, <1>4

LEMMA WireGrows ==
    ASSUME WorldCalls, PoolInv, Steady, Shape', Onward, QueuesSame,
           NEW r \in Ranks, NEW d \in Ranks, NEW h, NEW length, NEW payload,
           reliable_send(r, d, h, length, payload),
           \/ GoodMessage(h, r)' /\ h.call = count[r] + 1
           \/ h.tag = MPIX_CLEANUP_TAG /\ r = d /\ is_errSet'[r] /\ h.epoch = epoch'[r]
    PROVE  /\ \A q \in Ranks :
                 /\ QueueInv(q)'
                 /\ \A p \in Ranks :
                       /\ WireInv(p, q)' /\ OrderInv(p, q)'
                       /\ p # r \/ q # d => \A j : Pending(p, q, j)' = Pending(p, q, j)
           /\ \A j : Pending(r, d, j)' = Pending(r, d, j) + (IF Hit(h, r, j) THEN 1 ELSE 0)
<1>0. MPIX_CLEANUP_TAG # 0
  BY DEF MPIX_CLEANUP_TAG
<1>1. Shape /\ \A q \in Ranks : Received(q)' = Received(q) /\ QueueInv(q)'
  <2>1. Shape
    BY DEF Steady
  <2>2. ASSUME NEW q \in Ranks PROVE Received(q)' = Received(q) /\ QueueInv(q)'
    <3>1. Received(q)' = Received(q) /\ QueueInv(q)
      BY DEF Steady, QueuesSame
    <3> QED
      BY <2>1, <3>1, QueueKept
  <2> QED
    BY <2>1, <2>2
<1>2. /\ \A p, q \in Ranks : p # r \/ q # d => OnTheWay(p, q)' = OnTheWay(p, q)
      /\ \E n \in Nat : /\ Removed(OnTheWay(r, d)', OnTheWay(r, d), n, n + 1)
                        /\ OnTheWay(r, d)'[n + 1] = h
  BY SentOnWire
<1>3. ASSUME NEW p \in Ranks, NEW q \in Ranks, p # r \/ q # d
      PROVE  /\ WireInv(p, q)' /\ OrderInv(p, q)'
             /\ \A j : Pending(p, q, j)' = Pending(p, q, j)
  <2>1. /\ WireInv(p, q) /\ OrderInv(p, q) /\ OnTheWay(p, q)' = OnTheWay(p, q)
        /\ Received(q)' = Received(q)
    BY <1>1, <1>2, <1>3 DEF Steady, PairsInv
  <2>2. WireInv(p, q)'
    BY <1>1, <2>1, WireKept
  <2>3. OrderInv(p, q)'
    BY <2>1, OrderKept
  <2>4. ASSUME NEW j PROVE Pending(p, q, j)' = Pending(p, q, j)
    BY <2>1 DEF Pending, Hits
  <2> QED
    BY <2>2, <2>3, <2>4
<1>4. PICK n \in Nat : /\ Removed(OnTheWay(r, d)', OnTheWay(r, d), n, n + 1)
                       /\ OnTheWay(r, d)'[n + 1] = h
  BY <1>2
<1>5. /\ DOMAIN OnTheWay(r, d) = 1..n /\ DOMAIN OnTheWay(r, d)' = 1..(n + 1)
      /\ \A i \in 1..n : OnTheWay(r, d)'[i] = OnTheWay(r, d)[i]
  <2> DEFINE A == OnTheWay(r, d)'
             B == OnTheWay(r, d)
  <2>1. Removed(A, B, n, n + 1)
    BY <1>4
  <2> HIDE DEF A, B
  <2>2. DOMAIN B = 1..n /\ DOMAIN A = 1..(n + 1) /\ \A i \in 1..n : A[i] = B[i]
    BY <2>1 DEF Removed, Skip
  <2> QED
    BY <2>2 DEF A, B
<1>6. /\ WireInv(r, d) /\ OrderInv(r, d) /\ Received(d)' = Received(d) /\ QueueInv(d)
      /\ count[r] \in Nat
  BY <1>1 DEF Steady, PairsInv, Shape
<1>7. WireInv(r, d)'
  <2> DEFINE Good(m) == \/ GoodMessage(m, r)'
                        \/ m.tag = MPIX_CLEANUP_TAG /\ r = d /\ is_errSet'[d] /\ m.epoch = epoch'[d]
  <2>1. ASSUME NEW i \in 1..n, NEW m, m = OnTheWay(r, d)[i] PROVE Good(m)
    <3>1. \/ GoodMessage(m, r)
          \/ m.tag = MPIX_CLEANUP_TAG /\ r = d /\ is_errSet[d] /\ m.epoch = epoch[d]
      BY <1>5, <1>6, <2>1 DEF WireInv
    <3>2. ASSUME GoodMessage(m, r) PROVE GoodMessage(m, r)'
      BY <1>1, <3>2, StepTypes, MessageKept
    <3>3. is_errSet[d] => is_errSet'[d] /\ epoch'[d] = epoch[d]
      BY DEF Onward
    <3> QED
      BY <3>1, <3>2, <3>3
  <2>2. Good(h)
    OBVIOUS
  <2>3. ASSUME NEW i \in DOMAIN OnTheWay(r, d)', NEW m, m = OnTheWay(r, d)'[i] PROVE Good(m)
    <3>1. i \in 1..n \/ i = n + 1
      BY <1>5, <2>3
    <3> HIDE DEF Good
    <3>2. CASE i \in 1..n
      BY <1>5, <2>1, <2>3, <3>2
    <3>3. CASE i = n + 1
      BY <1>4, <2>2, <2>3, <3>3
    <3> QED
      BY <3>1, <3>2, <3>3
  <2> QED
    BY <2>3 DEF WireInv, MPIX_CLEANUP_TAG, GoodMessage
<1>8. ASSUME h.tag = 0, h.source = r
      PROVE  /\ h.call \in Nat
             /\ \A i \in DOMAIN OnTheWay(r, d) :
                   OnTheWay(r, d)[i].tag = 0 => OnTheWay(r, d)[i].call <= h.call
             /\ \A i \in DOMAIN Received(d) :
                   Received(d)[i].tag = 0 /\ Received(d)[i].source = r
                   => Received(d)[i].call <= h.call
  <2>1. h.call = count[r] + 1
    BY <1>0, <1>8
  <2>2. ASSUME NEW i \in DOMAIN OnTheWay(r, d), OnTheWay(r, d)[i].tag = 0
        PROVE  OnTheWay(r, d)[i].call <= h.call
    BY <1>0, <1>6, <2>1, <2>2 DEF WireInv, GoodMessage
  <2>3. ASSUME NEW i \in DOMAIN Received(d), Received(d)[i].tag = 0, Received(d)[i].source = r
        PROVE  Received(d)[i].call <= h.call
    BY <1>6, <2>1, <2>3 DEF QueueInv, GoodMessage
  <2> QED
    BY <1>6, <2>1, <2>2, <2>3
<1>9. OrderInv(r, d)'
  <2>1. InOrder(Received(d), r)'
    BY <1>6 DEF OrderInv, InOrder
  <2>2. InOrder(OnTheWay(r, d), r)'
    <3> DEFINE A == OnTheWay(r, d)'
               B == OnTheWay(r, d)
    <3>1. /\ Removed(A, B, n, n + 1) /\ InOrder(B, r) /\ h = A[n + 1]
          /\ h.tag = 0 /\ h.source = r =>
                h.call \in Nat /\ \A i \in DOMAIN B :
                   B[i].tag = 0 /\ B[i].source = r => B[i].call <= h.call
      BY <1>4, <1>6, <1>8 DEF OrderInv
    <3> HIDE DEF A, B
    <3>2. InOrder(A, r)
      BY <3>1, OrderAdded
    <3> QED
      BY <3>2 DEF A, InOrder
  <2>3. ASSUME NEW i \in DOMAIN Received(d), NEW k \in DOMAIN OnTheWay(r, d)',
               Received(d)[i].tag = 0, OnTheWay(r, d)'[k].tag = 0, Received(d)[i].source = r
        PROVE  Received(d)[i].call <= OnTheWay(r, d)'[k].call
    <3>1. k \in 1..n \/ k = n + 1
      BY <1>5, <2>3
    <3>2. CASE k \in 1..n
      BY <1>5, <1>6, <2>3, <3>2 DEF OrderInv
    <3>3. CASE k = n + 1
      <4>1. h.tag = 0 /\ OnTheWay(r, d)'[k] = h
        BY <1>4, <2>3, <3>3
      <4>2. h.source = r
        BY <1>0, <4>1 DEF GoodMessage
      <4> QED
        BY <1>8, <2>3, <4>1, <4>2
    <3> QED
      BY <3>1, <3>2, <3>3
  <2> QED
    BY <1>6, <2>1, <2>2, <2>3 DEF OrderInv
<1>10. ASSUME NEW j
       PROVE  Pending(r, d, j)' = Pending(r, d, j) + (IF Hit(h, r, j) THEN 1 ELSE 0)
  <2> DEFINE A == OnTheWay(r, d)'
             B == OnTheWay(r, d)
             more == IF Hit(h, r, j) THEN 1 ELSE 0
  <2>1. Removed(A, B, n, n + 1) /\ A[n + 1] = h
    BY <1>4
  <2>2. Pending(r, d, j)' = Cardinality(Hits(Received(d), r, j)) + Cardinality(Hits(A, r, j))
    BY <1>6 DEF Pending, Hits
  <2>3. Pending(r, d, j) = Cardinality(Hits(Received(d), r, j)) + Cardinality(Hits(B, r, j))
    BY DEF Pending
  <2>4. Cardinality(Hits(Received(d), r, j)) \in Nat
    BY PendingType
  <2> HIDE DEF A, B
  <2>5. /\ Cardinality(Hits(A, r, j)) \in Nat /\ Cardinality(Hits(B, r, j)) \in Nat
        /\ Cardinality(Hits(A, r, j)) = Cardinality(Hits(B, r, j)) + more
    BY <2>1, HitsRemoved
  <2>6. more \in Nat
    OBVIOUS
  <2> HIDE DEF more
  <2>7. Pending(r, d, j)' = Pending(r, d, j) + more
    BY <2>2, <2>3, <2>4, <2>5, <2>6
  <2> QED
    BY <2>7 DEF more
<1> QED
  BY <1>1, <1>3, <1>7, <1>9, <1>10

\* A survivor is told of a failure.
LEMMA SetErrKeeps ==
    ASSUME WorldCalls, PoolInv, Steady, UNCHANGED world_size, NEW r \in Ranks, setErr(r)
    PROVE  Steady'
<1>1. Shape /\ FaultInv /\ RankInv(r) /\ Ranks' = Ranks
  BY DEF Steady, Ranks
<1>2. /\ failed \notin {NoRank, r} /\ ~is_errSet[r]
      /\ is_errSet' = [is_errSet EXCEPT ![r] = TRUE]
      /\ UNCHANGED <<callVars, epoch, received_header_queue, failed, restarts, disturbed,
                     cache, poolVars, commVars, checkpointVars>>
      /\ \/ UNCHANGED network
         \/ reliable_send(r, r, Cleanup(r), 0, 0)
  BY DEF setErr
<1>3. UNCHANGED <<calls, count, busy, plan, groups, communicators, handles, files>>
  BY <1>2 DEF callVars, commVars, checkpointVars
<1>4. /\ is_errSet' \in [Ranks -> BOOLEAN] /\ is_errSet'[r]
      /\ \A q \in Ranks \ {r} : is_errSet'[q] = is_errSet[q]
  BY <1>1, <1>2 DEF Shape
<1>5. Shape'
  BY <1>1, <1>2, <1>3, <1>4 DEF Shape, NoRank
<1>6. OthersSame(r)
  BY <1>2, <1>3, <1>4 DEF OthersSame, Rigid, RankSame, CountsSame
<1>7. Goes(r)
  <2>1. count[r] \in Nat /\ epoch[r] \in Nat
    BY <1>1 DEF Shape
  <2> QED
    BY <1>2, <1>3, <2>1 DEF Goes, Stopped
<1>8. /\ Onward /\ \A q \in Ranks \ {r} : RankInv(q)'
  BY <1>5, <1>6, <1>7, OneMoves
<1>9. ASSUME NEW q \in Ranks, NEW x, NEW j
      PROVE  Taken(q, x, j)' = Taken(q, x, j) /\ Sent(q, x, j)' = Sent(q, x, j)
  BY <1>3, <1>8, CountsKept DEF CountsSame, Onward
<1>10. QueuesSame
  BY <1>2, QueuesKept DEF poolVars
<1>11. FaultInv'
  BY <1>1, <1>2, <1>3, <1>4 DEF FaultInv, Shape, NoRank
<1>12. RankInv(r)'
  <2>1. FilesInv(r)'
    BY <1>1, <1>2, <1>3, <1>6, FilesKept DEF RankInv, OthersSame
  <2>2. /\ WorldFirst(communicators[r], r)' /\ WorldHandle(handles[r])'
        /\ groups'[r] = <<WorldGroup>>'
    BY <1>1, <1>3 DEF RankInv, WorldFirst, WorldHandle, Sequence, MPI_COMM_WORLD, WorldGroup
  <2>3. Plan(r, count[r] + 1)' = Plan(r, count[r] + 1)
    BY <1>3 DEF Plan
  <2> QED
    BY <1>1, <1>2, <1>3, <1>4, <2>1, <2>2, <2>3 DEF RankInv
<1>13. CASE UNCHANGED network
  <2>1. WiresSame
    BY <1>13, WiresKept
  <2>2. PairsInv'
    BY <1>5, <1>8, <1>9, <1>10, <2>1, PairsStay
  <2> QED
    BY <1>5, <1>8, <1>10, <1>11, <1>12, <2>1, <2>2, NoneMoves, Together
<1>14. CASE reliable_send(r, r, Cleanup(r), 0, 0)
  <2> DEFINE h == Cleanup(r)
  <2>1. h.tag = MPIX_CLEANUP_TAG /\ h.epoch = epoch'[r]
    BY <1>2 DEF Cleanup
  <2> HIDE DEF h
  <2>2. reliable_send(r, r, h, 0, 0)
    BY <1>14 DEF h
  <2>3. /\ \A q \in Ranks :
              /\ QueueInv(q)'
              /\ \A p \in Ranks :
                    /\ WireInv(p, q)' /\ OrderInv(p, q)'
                    /\ p # r \/ q # r => \A j : Pending(p, q, j)' = Pending(p, q, j)
        /\ \A j : Pending(r, r, j)' = Pending(r, r, j) + (IF Hit(h, r, j) THEN 1 ELSE 0)
    BY <1>4, <1>5, <1>8, <1>10, <2>1, <2>2, WireGrows
  <2>4. ASSUME NEW p \in Ranks, NEW q \in Ranks, NEW j
        PROVE  Pending(p, q, j)' = Pending(p, q, j)
    <3>1. CASE p = r /\ q = r
      <4>1. ~Hit(h, r, j)
        BY <2>1 DEF Hit, MPIX_CLEANUP_TAG
      <4>2. Pending(r, r, j) \in Nat
        BY PendingType
      <4> QED
        BY <2>3, <3>1, <4>1, <4>2
    <3>2. CASE ~(p = r /\ q = r)
      BY <2>3, <3>2
    <3> QED
      BY <3>1, <3>2
  <2>5. ASSUME NEW p \in Ranks, NEW q \in Ranks PROVE PairInv(p, q)'
    <3>1. RankInv(p) /\ RankInv(q) /\ PairInv(p, q)
      BY DEF Steady, PairsInv
    <3> QED
      BY <1>1, <1>5, <1>8, <1>9, <2>4, <3>1, PairKept
  <2>6. PairsInv'
    BY <1>1, <2>3, <2>5 DEF PairsInv
  <2> QED
    BY <1>5, <1>8, <1>11, <1>12, <2>3, <2>6, Together
<1> QED
  BY <1>2, <1>13, <1>14

\* What is left of a plan after its first step.
LEMMA NextStep ==
    ASSUME NEW n, NEW p \in Seq(Steps(n)), p # <<>>, NEW peer
    PROVE  /\ Tail(p) \in Seq(Steps(n))
           /\ Cardinality(Sends(Tail(p), peer)) \in Nat
           /\ Cardinality(Receipts(Tail(p), peer)) \in Nat
           /\ Head(p).operation \in SendOperations =>
                 /\ Cardinality(Receipts(p, peer)) = Cardinality(Receipts(Tail(p), peer))
                 /\ Cardinality(Sends(p, peer)) = Cardinality(Sends(Tail(p), peer))
                                                  + (IF Head(p).peer = peer THEN 1 ELSE 0)
           /\ Head(p).operation \in Receives =>
                 /\ Cardinality(Sends(p, peer)) = Cardinality(Sends(Tail(p), peer))
                 /\ Cardinality(Receipts(p, peer)) = Cardinality(Receipts(Tail(p), peer))
                                                     + (IF Head(p).peer = peer THEN 1 ELSE 0)
<1> DEFINE t == Tail(p)
           h == Head(p)
           m == Len(p) - 1
<1>1. t \in Seq(Steps(n)) /\ Removed(p, t, m, 1) /\ h = p[1]
  BY TailRemoves
<1> HIDE DEF t, h, m
<1>2. /\ Cardinality(Sends(t, peer)) \in Nat /\ Cardinality(Sends(p, peer)) \in Nat
      /\ Cardinality(Sends(p, peer))
            = Cardinality(Sends(t, peer))
              + (IF h.operation \in SendOperations /\ h.peer = peer THEN 1 ELSE 0)
  BY <1>1, SendsRemoved
<1>3. /\ Cardinality(Receipts(t, peer)) \in Nat /\ Cardinality(Receipts(p, peer)) \in Nat
      /\ Cardinality(Receipts(p, peer))
            = Cardinality(Receipts(t, peer))
              + (IF h.operation \in Receives /\ h.peer = peer THEN 1 ELSE 0)
  BY <1>1, ReceiptsRemoved
<1>4. h.operation \in SendOperations => h.operation \notin Receives
  BY DEF SendOperations, Receives
<1>5. CASE h.operation \in SendOperations
  <2>1. CASE h.peer = peer
    BY <1>1, <1>2, <1>3, <1>4, <1>5, <2>1 DEF t, h
  <2>2. CASE h.peer # peer
    BY <1>1, <1>2, <1>3, <1>4, <1>5, <2>2 DEF t, h
  <2> QED
    BY <2>1, <2>2
<1>6. CASE h.operation \notin SendOperations
  <2>1. CASE h.operation \in Receives /\ h.peer = peer
    BY <1>1, <1>2, <1>3, <1>6, <2>1 DEF t, h
  <2>2. CASE ~(h.operation \in Receives /\ h.peer = peer)
    BY <1>1, <1>2, <1>3, <1>6, <2>2 DEF t, h
  <2> QED
    BY <2>1, <2>2
<1> QED
  BY <1>5, <1>6

\* The counts of a rank that goes on with its plan.
LEMMA PlanStep ==
    ASSUME WorldCalls, Steady, Rigid, NEW r \in Ranks, plan[r] # <<>>, plan'[r] = Tail(plan[r]),
           busy'[r] = busy[r], count'[r] = count[r], NEW x \in Ranks, NEW j \in DOMAIN calls
    PROVE  /\ Head(plan[r]).operation \in SendOperations =>
                 /\ Taken(r, x, j)' = Taken(r, x, j)
                 /\ Sent(r, x, j)' = Sent(r, x, j)
                       + (IF j = count[r] + 1 /\ Head(plan[r]).peer = x THEN 1 ELSE 0)
           /\ Head(plan[r]).operation \in Receives =>
                 /\ Sent(r, x, j)' = Sent(r, x, j)
                 /\ Taken(r, x, j)' = Taken(r, x, j)
                       + (IF j = count[r] + 1 /\ Head(plan[r]).peer = x THEN 1 ELSE 0)
<1> DEFINE p == plan[r]
           h == Head(plan[r])
<1>1. busy[r] /\ p \in Seq(Steps(world_size)) /\ Shape /\ RankInv(r) /\ count[r] \in Nat
  BY AtStep DEF Steady, Shape
<1>2. /\ SentTotal(r, x, j)' = SentTotal(r, x, j) /\ TakenTotal(r, x, j)' = TakenTotal(r, x, j)
      /\ SentTotal(r, x, j) \in Nat /\ TakenTotal(r, x, j) \in Nat
      /\ Sent(r, x, j) \in Nat /\ Taken(r, x, j) \in Nat
  BY <1>1, RigidFacts, PlanFacts, CountFacts
<1>3. CASE j = count[r] + 1
  <2> DEFINE S == Cardinality(Sends(p, x))
             R == Cardinality(Receipts(p, x))
             S1 == Cardinality(Sends(Tail(p), x))
             R1 == Cardinality(Receipts(Tail(p), x))
  <2>1. /\ Sent(r, x, j) = SentTotal(r, x, j) - S
        /\ Taken(r, x, j) = TakenTotal(r, x, j) - R
    BY <1>1, <1>3 DEF Sent, Taken
  <2>2. /\ Sent(r, x, j)' = SentTotal(r, x, j) - S1
        /\ Taken(r, x, j)' = TakenTotal(r, x, j) - R1
    BY <1>1, <1>2, <1>3 DEF Sent, Taken
  <2>3. /\ S1 \in Nat /\ R1 \in Nat
        /\ h.operation \in SendOperations => R = R1 /\ S = S1 + (IF h.peer = x THEN 1 ELSE 0)
        /\ h.operation \in Receives => S = S1 /\ R = R1 + (IF h.peer = x THEN 1 ELSE 0)
    BY <1>1, NextStep
  <2> HIDE DEF S, R, S1, R1, p, h
  <2>4. CASE h.peer = x
    BY <1>2, <1>3, <2>1, <2>2, <2>3, <2>4 DEF h
  <2>5. CASE h.peer # x
    BY <1>2, <1>3, <2>1, <2>2, <2>3, <2>5 DEF h
  <2> QED
    BY <2>4, <2>5
<1>4. CASE j # count[r] + 1
  <2>1. Sent(r, x, j)' = Sent(r, x, j) /\ Taken(r, x, j)' = Taken(r, x, j)
    BY <1>2, <1>4 DEF Sent, Taken
  <2> QED
    BY <1>2, <1>4, <2>1
<1> QED
  BY <1>3, <1>4

\* A rank after a step of its plan.
LEMMA BusyRank ==
    ASSUME WorldCalls, Rigid, Steady, NEW r \in Ranks, plan[r] # <<>>, plan'[r] = Tail(plan[r]),
           busy'[r] = busy[r], count'[r] = count[r], epoch'[r] = epoch[r],
           groups'[r] = groups[r], communicators'[r] = communicators[r],
           handles'[r] = handles[r], files'[r] = files[r]
    PROVE  RankInv(r)'
<1>1. /\ Shape /\ RankInv(r) /\ busy[r] /\ count[r] + 1 \in DOMAIN calls
      /\ plan[r] \in Seq(Steps(world_size)) /\ epoch[r] = EpochOf(calls, count[r])
  BY AtStep DEF Steady
<1>2. FilesInv(r)'
  BY <1>1, FilesKept DEF RankInv
<1>3. /\ WorldFirst(communicators[r], r)' /\ WorldHandle(handles[r])'
      /\ groups'[r] = <<WorldGroup>>'
  BY <1>1 DEF RankInv, WorldFirst, WorldHandle, Sequence, MPI_COMM_WORLD, WorldGroup, Rigid
<1>4. Rest(plan'[r], Plan(r, count[r] + 1)')
  <2>1. Plan(r, count[r] + 1)' = Plan(r, count[r] + 1)
    <3>1. Plan(r, count[r] + 1)' = WorldPlan(world_size', r, calls'[count'[r] + 1])
      BY DEF Plan
    <3> QED
      BY <3>1 DEF Plan, Rigid
  <2>2. Plan(r, count[r] + 1) \in Seq(Steps(world_size))
    BY <1>1, PlanFacts
  <2>3. Rest(plan[r], Plan(r, count[r] + 1))
    BY <1>1 DEF RankInv
  <2> QED
    BY <1>1, <2>1, <2>2, <2>3, RestTail
<1>5. calls' = calls /\ count[r] < Len(calls) /\ count[r] <= Len(calls)
  BY <1>1 DEF Rigid, RankInv
<1> QED
  BY <1>1, <1>2, <1>3, <1>4, <1>5 DEF RankInv

LEMMA SendStepKeeps ==
    ASSUME WorldCalls, PoolInv, Steady, UNCHANGED world_size, NEW r \in Ranks, MPI_Send(r)
    PROVE  Steady'
<1> SUFFICES ASSUME NEW d, d = Head(plan[r]).peer,
                    NEW h, h = HeaderOf(r, decide(Head(plan[r]).operation), Envelope(r, r)),
                    NEW c, c = count[r] + 1
             PROVE  Steady'
  OBVIOUS
<1>1. Shape /\ FaultInv /\ RankInv(r) /\ Ranks' = Ranks
  BY DEF Steady, Ranks
<1>2. /\ plan[r] # <<>> /\ Head(plan[r]).operation \in SendOperations /\ ~is_errSet[r]
      /\ reliable_send(r, d, h, 1, memory[r][Head(plan[r]).variable])
      /\ plan' = [plan EXCEPT ![r] = Tail(@)]
      /\ UNCHANGED <<calls, count, busy, memory, epoch, received_header_queue, faultVars,
                     cache, poolVars, commVars, checkpointVars>>
  BY DEF MPI_Send, NextIs, PlanGoesOn, Datagram
<1>3. /\ busy[r] /\ ~Stopped(r) /\ c \in DOMAIN calls /\ epoch[r] = EpochOf(calls, count[r])
      /\ plan[r] \in Seq(Steps(world_size)) /\ d \in Ranks
      /\ Head(plan[r]).operation \in (SendOperations \ {"Ssend"}) \cup Receives
      /\ Envelope(r, r) = [epoch |-> epoch[r], context |-> 0, source |-> r, tag |-> 0]
  BY <1>2, AtStep
<1>4. /\ count[r] \in Nat /\ epoch[r] \in Nat /\ Tail(plan[r]) \in Seq(Steps(world_size))
      /\ plan'[r] = Tail(plan[r]) /\ \A q \in Ranks \ {r} : plan'[q] = plan[q]
      /\ plan' \in [Ranks -> Seq(Steps(world_size))]
  BY <1>1, <1>2, <1>3, NextStep DEF Shape
<1>5. Shape'
  BY <1>1, <1>2, <1>4 DEF Shape, faultVars, commVars, checkpointVars, NoRank
<1>6. OthersSame(r)
  BY <1>2, <1>4 DEF OthersSame, Rigid, RankSame, CountsSame, faultVars, commVars, checkpointVars
<1>7. Goes(r)
  BY <1>2, <1>3, <1>4 DEF Goes, Stopped, faultVars
<1>8. /\ Onward /\ \A q \in Ranks \ {r} : RankInv(q)'
      /\ \A q \in Ranks \ {r} : \A x, j : /\ Taken(q, x, j)' = Taken(q, x, j)
                                          /\ Sent(q, x, j)' = Sent(q, x, j)
  BY <1>5, <1>6, <1>7, OneMoves
<1>9. QueuesSame
  BY <1>2, QueuesKept DEF poolVars
<1>10. /\ h.tag = 0 /\ h.source = r /\ h.context = 0 /\ h.protocol = "EAGER" /\ h.call = c
       /\ h.epoch = EpochOf(calls, c - 1)
  <2>1. decide(Head(plan[r]).operation) = "EAGER"
    BY <1>2, <1>3 DEF decide, SendOperations, Receives
  <2>2. c - 1 = count[r]
    BY <1>4
  <2> QED
    BY <1>3, <2>1, <2>2 DEF HeaderOf
<1>11. GoodMessage(h, r)' /\ h.call = count[r] + 1
  <2>1. calls' = calls /\ count' = count
    BY <1>2
  <2> QED
    BY <1>3, <1>4, <1>10, <2>1 DEF GoodMessage
<1>12. /\ \A q \in Ranks :
             /\ QueueInv(q)'
             /\ \A p \in Ranks :
                   /\ WireInv(p, q)' /\ OrderInv(p, q)'
                   /\ p # r \/ q # d => \A j : Pending(p, q, j)' = Pending(p, q, j)
       /\ \A j : Pending(r, d, j)' = Pending(r, d, j) + (IF Hit(h, r, j) THEN 1 ELSE 0)
  <2>1. d \in Ranks
    BY <1>3
  <2> QED
    BY <1>2, <1>5, <1>8, <1>9, <1>11, <2>1, WireGrows
<1>13. \A j : Hit(h, r, j) <=> j = c
  BY <1>10 DEF Hit
<1>14. ASSUME NEW x \in Ranks, NEW j \in DOMAIN calls
       PROVE  /\ Taken(r, x, j)' = Taken(r, x, j)
              /\ Sent(r, x, j)' = Sent(r, x, j) + (IF j = c /\ d = x THEN 1 ELSE 0)
              /\ Sent(r, x, j) \in Nat
  <2>1. Rigid /\ busy'[r] = busy[r] /\ count'[r] = count[r]
    BY <1>2, <1>6 DEF OthersSame
  <2>2. Sent(r, x, j) \in Nat
    BY <1>1, CountFacts
  <2> QED
    BY <1>2, <1>4, <2>1, <2>2, PlanStep
<1>15. ASSUME NEW p \in Ranks, NEW q \in Ranks, p # r \/ q # d PROVE PairInv(p, q)'
  <2>1. RankInv(p) /\ RankInv(q) /\ PairInv(p, q)
    BY DEF Steady, PairsInv
  <2>2. \A j \in DOMAIN calls : Pending(p, q, j)' = Pending(p, q, j)
    BY <1>12, <1>15
  <2>3. \A j \in DOMAIN calls : Taken(q, p, j)' = Taken(q, p, j)
    BY <1>8, <1>14
  <2>4. \A j \in DOMAIN calls : Sent(p, q, j)' = Sent(p, q, j)
    <3>1. CASE p = r
      BY <1>14, <1>15, <3>1
    <3>2. CASE p # r
      BY <1>8, <3>2
    <3> QED
      BY <3>1, <3>2
  <2> QED
    BY <1>1, <1>5, <1>8, <2>1, <2>2, <2>3, <2>4, PairKept
<1>16. PairInv(r, d)'
  <2> SUFFICES ASSUME ~Stopped(d)', NEW j \in DOMAIN calls PROVE PairAt(r, d, j)'
    BY <1>8 DEF PairInv, Onward, Rigid
  <2>1. d \in Ranks /\ RankInv(d) /\ PairInv(r, d)
    BY <1>3 DEF Steady, PairsInv
  <2>2. ~Stopped(d)
    BY <1>8, <2>1 DEF Onward
  <2>3. PairAt(r, d, j)
    BY <2>1, <2>2 DEF PairInv
  <2>4. /\ Taken(d, r, j) \in Nat /\ Pending(r, d, j) \in Nat /\ Sent(r, d, j) \in Nat
        /\ Taken(d, r, j)' = Taken(d, r, j)
        /\ SentTotal(r, d, j)' = SentTotal(r, d, j)
    <3>1. Taken(d, r, j)' = Taken(d, r, j)
      BY <1>8, <1>14, <2>1
    <3>2. SentTotal(r, d, j)' = SentTotal(r, d, j)
      BY <1>8, RigidFacts DEF Onward
    <3> QED
      BY <1>1, <2>1, <3>1, <3>2, CountFacts, PendingType
  <2>5. Live(d, j)' => Live(d, j)
    BY <1>1, <1>5, <1>8, <2>1, LiveKept
  <2>6. ~Stopped(r)'
    BY <1>2, <1>3 DEF Stopped, faultVars
  <2> DEFINE more == IF j = c THEN 1 ELSE 0
  <2>7. /\ more \in Nat
        /\ Sent(r, d, j)' = Sent(r, d, j) + more
        /\ Pending(r, d, j)' = Pending(r, d, j) + more
    BY <1>12, <1>13, <1>14, <2>1
  <2> HIDE DEF more
  <2>8. /\ Taken(d, r, j) <= Sent(r, d, j)
        /\ Live(d, j) => Pending(r, d, j) + Taken(d, r, j) = Sent(r, d, j)
    BY <1>3, <2>3 DEF PairAt
  <2>9. /\ Taken(d, r, j)' <= Sent(r, d, j)'
        /\ Live(d, j)' => Pending(r, d, j)' + Taken(d, r, j)' = Sent(r, d, j)'
    BY <2>4, <2>5, <2>7, <2>8
  <2> QED
    BY <2>6, <2>9 DEF PairAt
<1>17. PairsInv'
  <2>1. ASSUME NEW p \in Ranks, NEW q \in Ranks PROVE PairInv(p, q)'
    <3>1. CASE p = r /\ q = d
      BY <1>16, <3>1
    <3>2. CASE ~(p = r /\ q = d)
      BY <1>15, <3>2
    <3> QED
      BY <3>1, <3>2
  <2> QED
    BY <1>1, <1>12, <2>1 DEF PairsInv
<1>18. FaultInv'
  <2>1. failed \in Ranks \cup {NoRank} /\ (failed # NoRank => ~busy'[failed])
    BY <1>1, <1>2 DEF Shape, FaultInv
  <2> QED
    BY <1>1, <1>2, <2>1, FaultKept DEF faultVars
<1>19. RankInv(r)'
  BY <1>2, <1>4, <1>6, BusyRank DEF OthersSame, commVars, checkpointVars
<1> QED
  BY <1>5, <1>8, <1>12, <1>17, <1>18, <1>19, Together

(***************************************************************************)
(* The progress thread takes a message from the wire.                      *)
(***************************************************************************)
LEMMA PostOrders ==
    ASSUME WorldCalls, PoolInv, Steady, NEW r \in Ranks, NEW s \in Ranks, post_header(r, s),
           NEW h, h = OnTheWay(s, r)[1], NEW p \in Ranks
    PROVE  OrderInv(p, r)'
<1>1. /\ \A x, y \in Ranks : x # s \/ y # r => OnTheWay(x, y)' = OnTheWay(x, y)
      /\ \E n \in Nat : Removed(OnTheWay(s, r), OnTheWay(s, r)', n, 1)
      /\ \/ Received(r)' = Received(r)
         \/ \E m \in Nat : /\ Removed(Received(r)', Received(r), m, m + 1)
                           /\ Received(r)'[m + 1] = h
  BY PostedFromWire
<1>2. /\ OrderInv(p, r) /\ OrderInv(s, r) /\ WireInv(s, r) /\ QueueInv(r)
      /\ 1 \in DOMAIN OnTheWay(s, r)
  <2>1. 1 \in DOMAIN OnTheWay(s, r)
    BY <1>1 DEF Removed
  <2> QED
    BY <2>1 DEF Steady, PairsInv
<1>3. h.tag = 0 => GoodMessage(h, s) /\ h.call \in Nat
  <2>1. h.tag = 0 => GoodMessage(h, s)
    BY <1>2 DEF WireInv, MPIX_CLEANUP_TAG
  <2>2. DOMAIN calls \subseteq Nat
    BY WorldFacts DEF Steady
  <2> QED
    BY <2>1, <2>2 DEF GoodMessage
<1>4. h.tag = 0 => h.source = s
  BY <1>3 DEF GoodMessage
<1>5. InOrder(OnTheWay(p, r), p)'
  <2>1. CASE p # s
    BY <1>1, <1>2, <2>1 DEF OrderInv, InOrder
  <2>2. CASE p = s
    <3> DEFINE A == OnTheWay(s, r)
               B == OnTheWay(s, r)'
    <3>1. PICK n \in Nat : Removed(A, B, n, 1)
      BY <1>1
    <3>2. InOrder(A, s)
      BY <1>2 DEF OrderInv
    <3> HIDE DEF A, B
    <3>3. InOrder(B, s)
      BY <3>1, <3>2, OrderRemoved
    <3> QED
      BY <2>2, <3>3 DEF B, InOrder
  <2> QED
    BY <2>1, <2>2
<1>6. ASSUME NEW k \in DOMAIN OnTheWay(p, r)'
      PROVE  \E i \in DOMAIN OnTheWay(p, r) : /\ OnTheWay(p, r)'[k] = OnTheWay(p, r)[i]
                                              /\ p = s => i > 1
  <2>1. CASE p # s
    BY <1>1, <2>1
  <2>2. CASE p = s
    <3> DEFINE A == OnTheWay(s, r)
               B == OnTheWay(s, r)'
    <3>1. PICK n \in Nat : Removed(A, B, n, 1)
      BY <1>1
    <3>2. k \in DOMAIN B
      BY <2>2
    <3> HIDE DEF A, B
    <3>3. PICK i \in DOMAIN A : i # 1 /\ B[k] = A[i]
      BY <3>1, <3>2, LeftOver
    <3>4. i > 1
      BY <3>1, <3>3 DEF Removed
    <3> QED
      BY <2>2, <3>3, <3>4 DEF A, B
  <2> QED
    BY <2>1, <2>2
<1>7. CASE Received(r)' = Received(r)
  <2>1. InOrder(Received(r), p)'
    BY <1>2, <1>7 DEF OrderInv, InOrder
  <2> QED
    BY <1>2, <1>5, <1>6, <1>7, <2>1 DEF OrderInv
<1>8. ASSUME NEW m \in Nat, Removed(Received(r)', Received(r), m, m + 1), Received(r)'[m + 1] = h
      PROVE  OrderInv(p, r)'
  <2> DEFINE A == Received(r)'
             B == Received(r)
  <2>1. InOrder(A, p)
    <3>1. ASSUME h.tag = 0, h.source = p, NEW i \in DOMAIN B, B[i].tag = 0, B[i].source = p
          PROVE  B[i].call <= h.call
      BY <1>2, <1>4, <3>1 DEF OrderInv
    <3>2. InOrder(B, p) /\ Removed(A, B, m, m + 1) /\ h = A[m + 1]
      BY <1>2, <1>8 DEF OrderInv
    <3>3. h.tag = 0 /\ h.source = p =>
             h.call \in Nat /\ \A i \in DOMAIN B :
                B[i].tag = 0 /\ B[i].source = p => B[i].call <= h.call
      BY <1>3, <3>1
    <3> HIDE DEF A, B
    <3> QED
      BY <3>2, <3>3, OrderAdded
  <2>2. ASSUME NEW i \in DOMAIN A, NEW k \in DOMAIN OnTheWay(p, r)', A[i].tag = 0,
               OnTheWay(p, r)'[k].tag = 0, A[i].source = p
        PROVE  A[i].call <= OnTheWay(p, r)'[k].call
    <3>1. PICK l \in DOMAIN OnTheWay(p, r) : /\ OnTheWay(p, r)'[k] = OnTheWay(p, r)[l]
                                             /\ p = s => l > 1
      BY <1>6, <2>2
    <3>2. (i \in DOMAIN B /\ A[i] = B[i]) \/ A[i] = h
      <4> HIDE DEF A, B
      <4>1. Removed(A, B, m, m + 1) /\ A[m + 1] = h
        BY <1>8 DEF A, B
      <4>2. /\ DOMAIN B = 1..m /\ DOMAIN A = 1..(m + 1)
            /\ \A x \in 1..m : A[x] = B[x]
        BY <4>1 DEF Removed, Skip
      <4>3. i \in 1..m \/ i = m + 1
        BY <2>2, <4>2
      <4> QED
        BY <4>1, <4>2, <4>3
    <3>3. CASE i \in DOMAIN B /\ A[i] = B[i]
      BY <1>2, <2>2, <3>1, <3>3 DEF OrderInv
    <3>4. CASE A[i] = h
      <4>1. p = s /\ l > 1 /\ h.tag = 0 /\ h.source = s /\ OnTheWay(s, r)[l].tag = 0
        BY <1>4, <2>2, <3>1, <3>4
      <4>2. OnTheWay(s, r)[l].source = s
        BY <1>2, <3>1, <4>1 DEF WireInv, GoodMessage, MPIX_CLEANUP_TAG
      <4>3. InOrder(OnTheWay(s, r), s)
        BY <1>2 DEF OrderInv
      <4>4. h.call <= OnTheWay(s, r)[l].call
        BY <1>2, <3>1, <4>1, <4>2, <4>3 DEF InOrder
      <4> QED
        BY <2>2, <3>1, <3>4, <4>1, <4>4
    <3> QED
      BY <3>2, <3>3, <3>4
  <2>3. InOrder(Received(r), p)'
    BY <2>1 DEF InOrder
  <2> QED
    BY <1>5, <2>2, <2>3 DEF OrderInv
<1> QED
  BY <1>1, <1>7, <1>8

LEMMA PostPending ==
    ASSUME WorldCalls, PoolInv, Steady, NEW r \in Ranks, NEW s \in Ranks, post_header(r, s),
           NEW h, h = OnTheWay(s, r)[1], NEW p \in Ranks, NEW j,
           h.epoch < epoch[r] => ~Hit(h, s, j)
    PROVE  Pending(p, r, j)' = Pending(p, r, j)
<1> DEFINE hit(x) == IF Hit(h, x, j) THEN 1 ELSE 0
           Q == Cardinality(Hits(Received(r), p, j))
           W == Cardinality(Hits(OnTheWay(p, r), p, j))
<1>1. /\ \A x, y \in Ranks : x # s \/ y # r => OnTheWay(x, y)' = OnTheWay(x, y)
      /\ \E n \in Nat : Removed(OnTheWay(s, r), OnTheWay(s, r)', n, 1)
      /\ \/ h.epoch < epoch[r] /\ Received(r)' = Received(r)
         \/ \E m \in Nat : /\ Removed(Received(r)', Received(r), m, m + 1)
                           /\ Received(r)'[m + 1] = h
  BY PostedFromWire
<1>2. Hit(h, p, j) => p = s
  <2>1. 1 \in DOMAIN OnTheWay(s, r)
    BY <1>1 DEF Removed
  <2>2. h.tag = 0 => h.source = s
    BY <2>1 DEF Steady, PairsInv, WireInv, MPIX_CLEANUP_TAG, GoodMessage
  <2> QED
    BY <2>2 DEF Hit
<1>3. Q \in Nat /\ W \in Nat /\ \A x : hit(x) \in Nat
  BY PendingType
<1>4. /\ Cardinality(Hits(OnTheWay(p, r), p, j)') \in Nat
      /\ p # s => Cardinality(Hits(OnTheWay(p, r), p, j)') = W
      /\ p = s => W = Cardinality(Hits(OnTheWay(p, r), p, j)') + hit(s)
  <2>1. CASE p # s
    <3>1. Hits(OnTheWay(p, r), p, j)' = Hits(OnTheWay(p, r), p, j)
      BY <1>1, <2>1 DEF Hits
    <3> QED
      BY <1>3, <2>1, <3>1
  <2>2. CASE p = s
    <3> DEFINE A == OnTheWay(s, r)
               B == OnTheWay(s, r)'
    <3>1. PICK n \in Nat : Removed(A, B, n, 1)
      BY <1>1
    <3>2. A[1] = h /\ W = Cardinality(Hits(A, s, j))
      BY <2>2
    <3>3. Hits(OnTheWay(p, r), p, j)' = Hits(B, s, j)
      BY <2>2 DEF Hits
    <3> HIDE DEF A, B, W
    <3>4. /\ Cardinality(Hits(B, s, j)) \in Nat
          /\ Cardinality(Hits(A, s, j)) = Cardinality(Hits(B, s, j)) + hit(s)
      BY <3>1, <3>2, HitsRemoved
    <3> QED
      BY <2>2, <3>2, <3>3, <3>4
  <2> QED
    BY <2>1, <2>2
<1>5. Pending(p, r, j)' = Cardinality(Hits(Received(r), p, j)') + Cardinality(Hits(OnTheWay(p, r), p, j)')
  BY DEF Pending
<1>6. Pending(p, r, j) = Q + W
  BY DEF Pending
<1>7. CASE h.epoch < epoch[r] /\ Received(r)' = Received(r)
  <2>1. Hits(Received(r), p, j)' = Hits(Received(r), p, j)
    BY <1>7 DEF Hits
  <2>2. hit(s) = 0
    BY <1>7
  <2> HIDE DEF hit, Q, W
  <2>3. Cardinality(Hits(OnTheWay(p, r), p, j)') = W
    BY <1>3, <1>4, <2>2
  <2> QED
    BY <1>5, <1>6, <2>1, <2>3 DEF Q
<1>8. ASSUME NEW m \in Nat, Removed(Received(r)', Received(r), m, m + 1), Received(r)'[m + 1] = h
      PROVE  Pending(p, r, j)' = Pending(p, r, j)
  <2>1. /\ Cardinality(Hits(Received(r), p, j)') \in Nat
        /\ Cardinality(Hits(Received(r), p, j)') = Q + hit(p)
    <3> DEFINE A == Received(r)'
               B == Received(r)
    <3>1. Removed(A, B, m, m + 1) /\ A[m + 1] = h
      BY <1>8
    <3>2. Hits(Received(r), p, j)' = Hits(A, p, j) /\ Q = Cardinality(Hits(B, p, j))
      BY DEF Hits
    <3> HIDE DEF A, B, Q
    <3>3. /\ Cardinality(Hits(A, p, j)) \in Nat
          /\ Cardinality(Hits(A, p, j)) = Cardinality(Hits(B, p, j)) + hit(p)
      BY <3>1, HitsRemoved
    <3> QED
      BY <3>2, <3>3
  <2>2. p # s => hit(p) = 0
    BY <1>2
  <2> HIDE DEF hit, Q, W
  <2>3. CASE p = s
    BY <1>3, <1>4, <1>5, <1>6, <2>1, <2>3
  <2>4. CASE p # s
    BY <1>3, <1>4, <1>5, <1>6, <2>1, <2>2, <2>4
  <2> QED
    BY <2>3, <2>4
<1> QED
  BY <1>1, <1>7, <1>8

\* Only a message of an epoch that its receiver has left for good is dropped.
LEMMA DroppedIsOld ==
    ASSUME WorldCalls, PoolInv, Steady, NEW r \in Ranks, NEW s \in Ranks,
           NEW h, h = OnTheWay(s, r)[1], 1 \in DOMAIN OnTheWay(s, r),
           h.epoch < epoch[r], ~Stopped(r), NEW j \in DOMAIN calls, Hit(h, s, j), Live(r, j)
    PROVE  FALSE
<1>1. /\ Shape /\ FaultInv /\ RankInv(r) /\ RankInv(s) /\ PairInv(s, r) /\ WireInv(s, r)
      /\ count[r] \in Nat /\ epoch[r] \in Nat
  BY DEF Steady, PairsInv, Shape
<1>2. h.epoch = EpochOf(calls, j - 1)
  BY <1>1 DEF WireInv, GoodMessage, Hit, MPIX_CLEANUP_TAG
<1>3. j \in Nat /\ j - 1 \in Nat /\ EpochOf(calls, j - 1) \in Nat
  <2>1. j \in Nat /\ j - 1 \in Nat
    BY <1>1, WorldFacts
  <2> QED
    BY <2>1, EpochType
<1>4. restarts = 0
  BY <1>1, <1>2, <1>3 DEF Live
<1>5. epoch[r] = EpochOf(calls, count[r])
  BY <1>1, <1>4 DEF FaultInv, RankInv
<1>6. j <= count[r]
  <2>1. ASSUME count[r] <= j - 1 PROVE FALSE
    <3>1. EpochOf(calls, count[r]) <= EpochOf(calls, j - 1)
      BY <1>1, <1>3, <2>1, EpochMonotone
    <3> QED
      BY <1>1, <1>2, <1>3, <1>5, <3>1
  <2> QED
    BY <1>1, <1>3, <2>1
<1>7. /\ PairAt(s, r, j) /\ Sent(s, r, j) \in Nat /\ Sent(s, r, j) <= SentTotal(s, r, j)
      /\ SentTotal(s, r, j) = TakenTotal(r, s, j) /\ SentTotal(s, r, j) \in Nat
      /\ Pending(s, r, j) \in Nat
  BY <1>1, CountFacts, PlanFacts, PendingType DEF PairInv
<1>8. Taken(r, s, j) = TakenTotal(r, s, j)
  BY <1>6 DEF Taken
<1>9. Pending(s, r, j) > 0
  BY PendingType
<1>10. Pending(s, r, j) + Taken(r, s, j) <= SentTotal(s, r, j)
  <2>1. CASE ~Stopped(s) \/ j # count[s] + 1
    BY <1>7, <1>8, <2>1 DEF PairAt
  <2>2. CASE ~(~Stopped(s) \/ j # count[s] + 1)
    BY <1>7, <1>8, <2>2 DEF PairAt
  <2> QED
    BY <2>1, <2>2
<1> QED
  BY <1>7, <1>8, <1>9, <1>10

LEMMA PostKeeps ==
    ASSUME WorldCalls, PoolInv, Steady, UNCHANGED world_size, NEW r \in Ranks, NEW s \in Ranks,
           post_header(r, s)
    PROVE  Steady'
<1> SUFFICES ASSUME NEW h, h = OnTheWay(s, r)[1] PROVE Steady'
  OBVIOUS
<1>1. Shape /\ FaultInv /\ Ranks' = Ranks
  BY DEF Steady, Ranks
<1>2. /\ \A x, y \in Ranks : x # s \/ y # r => OnTheWay(x, y)' = OnTheWay(x, y)
      /\ \E n \in Nat : Removed(OnTheWay(s, r), OnTheWay(s, r)', n, 1)
      /\ \A q \in Ranks : q # r => Received(q)' = Received(q)
      /\ h = Head(network[<<s, r>>]).header
      /\ \/ h.epoch < epoch[r] /\ Received(r)' = Received(r)
         \/ /\ ~(h.epoch < epoch[r])
            /\ \E m \in Nat : /\ Removed(Received(r)', Received(r), m, m + 1)
                              /\ Received(r)'[m + 1] = h
  BY PostedFromWire
<1>3. 1 \in DOMAIN OnTheWay(s, r)
  BY <1>2 DEF Removed
<1>4. GoodMessage(h, s) \/ (h.tag = MPIX_CLEANUP_TAG /\ is_errSet[r])
  BY <1>3 DEF Steady, PairsInv, WireInv
<1>5. plan' = plan
  <2>1. halt(r, h)
    BY <1>2 DEF post_header
  <2> QED
    BY <1>4, <2>1 DEF halt, EndsPosted, GoodMessage, MPIX_CLEANUP_TAG
<1>6. UNCHANGED <<calls, count, busy, memory, epoch, faultVars, commVars, checkpointVars>>
  BY DEF post_header
<1>7. Shape'
  BY <1>1, <1>5, <1>6 DEF Shape, faultVars, commVars, checkpointVars, NoRank
<1>8. OthersSame(r) /\ RankSame(r)
  BY <1>5, <1>6 DEF OthersSame, Rigid, RankSame, CountsSame, faultVars, commVars, checkpointVars
<1>9. Goes(r)
  <2>1. count[r] \in Nat /\ epoch[r] \in Nat
    BY <1>1 DEF Shape
  <2> QED
    BY <1>6, <2>1 DEF Goes, Stopped, faultVars
<1>10. Onward /\ \A q \in Ranks \ {r} : RankInv(q)'
  BY <1>7, <1>8, <1>9, OneMoves
<1>11. RankInv(r)'
  BY <1>8, RankKeptHere DEF Steady, OthersSame
<1>12. ASSUME NEW q \in Ranks PROVE QueueInv(q)'
  <2>1. CASE q # r
    BY <1>1, <1>2, <1>7, <1>10, <2>1, QueueKept DEF Steady
  <2>2. CASE q = r
    <3>1. CASE Received(r)' = Received(r)
      BY <1>1, <1>7, <1>10, <2>2, <3>1, QueueKept DEF Steady
    <3>2. ASSUME NEW m \in Nat, Removed(Received(r)', Received(r), m, m + 1), Received(r)'[m + 1] = h
          PROVE  QueueInv(q)'
      <4>1. ASSUME NEW i \in DOMAIN Received(r)', NEW g, g = Received(r)'[i], g.tag = 0
            PROVE  \E x \in Ranks : GoodMessage(g, x)'
        <5>1. g = h \/ \E k \in DOMAIN Received(r) : g = Received(r)[k]
          <6> DEFINE A == Received(r)'
                     B == Received(r)
          <6>1. Removed(A, B, m, m + 1) /\ A[m + 1] = h /\ i \in DOMAIN A /\ g = A[i]
            BY <3>2, <4>1
          <6> HIDE DEF A, B
          <6>2. g = h \/ \E k \in DOMAIN B : g = B[k]
            BY <6>1 DEF Removed, Skip
          <6> QED
            BY <6>2 DEF B
        <5>2. PICK x \in Ranks : GoodMessage(g, x)
          <6>1. CASE g = h
            BY <1>4, <4>1, <6>1 DEF MPIX_CLEANUP_TAG
          <6>2. CASE \E k \in DOMAIN Received(r) : g = Received(r)[k]
            BY <4>1, <6>2 DEF Steady, QueueInv
          <6> QED
            BY <5>1, <6>1, <6>2
        <5>3. GoodMessage(g, x)'
          BY <1>1, <1>7, <1>10, <5>2, StepTypes, MessageKept
        <5> QED
          BY <5>3
      <4> QED
        BY <1>1, <2>2, <4>1 DEF QueueInv, GoodMessage
    <3> QED
      BY <1>2, <3>1, <3>2
  <2> QED
    BY <2>1, <2>2
<1>13. ASSUME NEW p \in Ranks, NEW q \in Ranks PROVE WireInv(p, q)'
  <2>1. CASE p # s \/ q # r
    BY <1>1, <1>2, <1>7, <1>10, <2>1, WireKept DEF Steady, PairsInv
  <2>2. CASE p = s /\ q = r
    <3>1. \A i \in DOMAIN OnTheWay(s, r)' : \E k \in DOMAIN OnTheWay(s, r) :
             OnTheWay(s, r)'[i] = OnTheWay(s, r)[k]
      <4> DEFINE A == OnTheWay(s, r)
                 B == OnTheWay(s, r)'
      <4>1. PICK n \in Nat : Removed(A, B, n, 1)
        BY <1>2
      <4> HIDE DEF A, B
      <4>2. \A i \in DOMAIN B : \E k \in DOMAIN A : B[i] = A[k]
        BY <4>1, LeftOver
      <4> QED
        BY <4>2 DEF A, B
    <3> QED
      BY <1>1, <1>7, <1>10, <2>2, <3>1, WireKept DEF Steady, PairsInv
  <2> QED
    BY <2>1, <2>2
<1>14. ASSUME NEW p \in Ranks, NEW q \in Ranks PROVE OrderInv(p, q)'
  <2>1. CASE q = r
    BY <2>1, PostOrders
  <2>2. CASE q # r
    BY <1>2, <2>2, OrderKept DEF Steady, PairsInv
  <2> QED
    BY <2>1, <2>2
<1>15. ASSUME NEW p \in Ranks, NEW q \in Ranks PROVE PairInv(p, q)'
  <2>1. RankInv(p) /\ RankInv(q) /\ PairInv(p, q)
    BY DEF Steady, PairsInv
  <2>2. \A x \in Ranks : \A j : /\ Taken(q, x, j)' = Taken(q, x, j)
                                /\ Sent(p, x, j)' = Sent(p, x, j)
    BY <1>5, <1>6, <1>8, CountsKept DEF OthersSame, CountsSame
  <2>3. ASSUME ~Stopped(q)', NEW j \in DOMAIN calls, Live(q, j)'
        PROVE  Pending(p, q, j)' = Pending(p, q, j)
    <3>1. CASE q # r
      BY <1>2, <3>1 DEF Pending, Hits
    <3>2. CASE q = r
      <4>1. ~Stopped(r) /\ Live(r, j)
        BY <1>1, <1>7, <1>10, <2>3, <3>2, LiveKept DEF Onward
      <4>2. h.epoch < epoch[r] => ~Hit(h, s, j)
        BY <1>3, <4>1, DroppedIsOld
      <4> QED
        BY <3>2, <4>2, PostPending
    <3> QED
      BY <3>1, <3>2
  <2> QED
    BY <1>1, <1>7, <1>10, <2>1, <2>2, <2>3, PairKept
<1>16. PairsInv'
  BY <1>1, <1>13, <1>14, <1>15 DEF PairsInv
<1>17. FaultInv'
  <2>1. failed \in Ranks \cup {NoRank} /\ (failed # NoRank => ~busy'[failed])
    BY <1>1, <1>6 DEF Shape, FaultInv
  <2> QED
    BY <1>1, <1>6, <2>1, FaultKept DEF faultVars
<1> QED
  BY <1>7, <1>10, <1>11, <1>12, <1>16, <1>17, Together

(***************************************************************************)
(* A receive takes its message.                                            *)
(***************************************************************************)
LEMMA FoundFacts ==
    ASSUME WorldCalls, PoolInv, Steady, NEW r \in Ranks, MPI_Recv(r),
           NEW h, h = Received(r)[Position(r)], NEW s, s = Head(plan[r]).peer,
           NEW c, c = count[r] + 1
    PROVE  /\ s \in Ranks /\ GoodMessage(h, s) /\ h.call = c
           /\ network' = network
<1>1. NextIs(r, Receives) /\ ~is_errSet[r] /\ Matching(r)
  BY DEF MPI_Recv
<1>2. s \in Ranks /\ GoodMessage(h, s) /\ Position(r) \in DOMAIN Received(r)
  BY <1>1, FoundFits
<1>3. h.call = c
  BY <1>1, FoundOwn
<1>4. headers[r][received_header_queue[r][Position(r)]].protocol = "EAGER"
  BY <1>2 DEF Received, GoodMessage
<1>5. UNCHANGED network
  BY <1>4 DEF MPI_Recv, handle_match
<1> QED
  BY <1>2, <1>3, <1>5 DEF Hit, GoodMessage

\* A queue from which a header was taken, and nothing else moved.
LEMMA QueueShrinks ==
    ASSUME WorldCalls, PoolInv, Steady, Shape', Onward, WiresSame, NEW r \in Ranks,
           NEW first, NEW m \in Nat, Removed(Received(r), Received(r)', m, first),
           \A q \in Ranks : q # r => Received(q)' = Received(q),
           NEW h, h = Received(r)[first]
    PROVE  /\ \A q \in Ranks : QueueInv(q)' /\ \A p \in Ranks : WireInv(p, q)' /\ OrderInv(p, q)'
           /\ \A p, q \in Ranks : \A j : q # r => Pending(p, q, j)' = Pending(p, q, j)
           /\ \A p \in Ranks : \A j :
                 /\ Pending(p, r, j)' \in Nat
                 /\ Pending(p, r, j) = Pending(p, r, j)' + (IF Hit(h, p, j) THEN 1 ELSE 0)
<1>1. Shape /\ Ranks' = Ranks
  BY StepTypes DEF Steady
<1>2. \A i \in DOMAIN Received(r)' : \E k \in DOMAIN Received(r) :
         Received(r)'[i] = Received(r)[k]
  <2> DEFINE A == Received(r)
             B == Received(r)'
  <2>1. Removed(A, B, m, first)
    OBVIOUS
  <2> HIDE DEF A, B
  <2>2. \A i \in DOMAIN B : \E k \in DOMAIN A : B[i] = A[k]
    BY <2>1, LeftOver
  <2> QED
    BY <2>2 DEF A, B
<1>3. ASSUME NEW q \in Ranks PROVE QueueInv(q)'
  <2>1. \A i \in DOMAIN Received(q)' : \E k \in DOMAIN Received(q) :
           Received(q)'[i] = Received(q)[k]
    <3>1. CASE q = r
      BY <1>2, <3>1
    <3>2. CASE q # r
      BY <3>2
    <3> QED
      BY <3>1, <3>2
  <2> QED
    BY <1>1, <2>1, QueueKept DEF Steady
<1>4. ASSUME NEW p \in Ranks, NEW q \in Ranks PROVE WireInv(p, q)'
  BY <1>1, WireKept DEF Steady, PairsInv, WiresSame
<1>5. ASSUME NEW p \in Ranks, NEW q \in Ranks PROVE OrderInv(p, q)'
  <2>1. OrderInv(p, q) /\ OnTheWay(p, q)' = OnTheWay(p, q)
    BY <1>1 DEF Steady, PairsInv, WiresSame
  <2>2. CASE q # r
    BY <2>1, <2>2, OrderKept
  <2>3. CASE q = r
    <3> DEFINE A == Received(r)
               B == Received(r)'
    <3>1. Removed(A, B, m, first) /\ InOrder(A, p)
      BY <2>1, <2>3 DEF OrderInv
    <3> HIDE DEF A, B
    <3>2. InOrder(B, p)
      BY <3>1, OrderRemoved
    <3>3. InOrder(Received(q), p)' /\ InOrder(OnTheWay(p, q), p)'
      BY <2>1, <2>3, <3>2 DEF B, InOrder, OrderInv
    <3> QED
      BY <1>2, <2>1, <2>3, <3>3 DEF OrderInv
  <2> QED
    BY <2>2, <2>3
<1>6. ASSUME NEW p \in Ranks, NEW q \in Ranks, q # r, NEW j
      PROVE  Pending(p, q, j)' = Pending(p, q, j)
  BY <1>1, <1>6 DEF Pending, Hits, WiresSame
<1>7. ASSUME NEW p \in Ranks, NEW j
       PROVE  /\ Pending(p, r, j)' \in Nat
              /\ Pending(p, r, j) = Pending(p, r, j)' + (IF Hit(h, p, j) THEN 1 ELSE 0)
  <2> DEFINE A == Received(r)
             B == Received(r)'
             W == Cardinality(Hits(OnTheWay(p, r), p, j))
             more == IF Hit(h, p, j) THEN 1 ELSE 0
  <2>1. Removed(A, B, m, first) /\ A[first] = h
    OBVIOUS
  <2>2. Pending(p, r, j) = Cardinality(Hits(A, p, j)) + W
    BY DEF Pending
  <2>3. Pending(p, r, j)' = Cardinality(Hits(B, p, j)) + W
    BY <1>1 DEF Pending, Hits, WiresSame
  <2>4. W \in Nat /\ more \in Nat
    BY PendingType
  <2> HIDE DEF A, B, W
  <2>5. /\ Cardinality(Hits(A, p, j)) \in Nat /\ Cardinality(Hits(B, p, j)) \in Nat
        /\ Cardinality(Hits(A, p, j)) = Cardinality(Hits(B, p, j)) + more
    BY <2>1, HitsRemoved
  <2> HIDE DEF more
  <2>6. Pending(p, r, j)' \in Nat /\ Pending(p, r, j) = Pending(p, r, j)' + more
    BY <2>2, <2>3, <2>4, <2>5
  <2> QED
    BY <2>6 DEF more
<1> QED
  BY <1>3, <1>4, <1>5, <1>6, <1>7

LEMMA RecvMoves ==
    ASSUME WorldCalls, PoolInv, Steady, Shape', Onward, NEW r \in Ranks, MPI_Recv(r),
           NEW s, s = Head(plan[r]).peer, NEW c, c = count[r] + 1
    PROVE  /\ \A q \in Ranks : QueueInv(q)' /\ \A p \in Ranks : WireInv(p, q)' /\ OrderInv(p, q)'
           /\ \A p, q \in Ranks : \A j :
                 p # s \/ q # r \/ j # c => Pending(p, q, j)' = Pending(p, q, j)
           /\ Pending(s, r, c) = Pending(s, r, c)' + 1
           /\ Pending(s, r, c)' \in Nat
<1> SUFFICES ASSUME NEW h, h = Received(r)[Position(r)], NEW first, first = Position(r)
             PROVE  /\ \A q \in Ranks : /\ QueueInv(q)'
                                        /\ \A p \in Ranks : WireInv(p, q)' /\ OrderInv(p, q)'
                    /\ \A p, q \in Ranks : \A j :
                          p # s \/ q # r \/ j # c => Pending(p, q, j)' = Pending(p, q, j)
                    /\ Pending(s, r, c) = Pending(s, r, c)' + 1
                    /\ Pending(s, r, c)' \in Nat
  OBVIOUS
<1>1. /\ s \in Ranks /\ GoodMessage(h, s) /\ \A p, j : Hit(h, p, j) <=> p = s /\ j = c
      /\ network' = network
  <2>1. s \in Ranks /\ GoodMessage(h, s) /\ network' = network
    BY FoundFacts
  <2>2. \A p, j : Hit(h, p, j) <=> p = s /\ j = c
    <3>1. h.call = c
      BY FoundFacts
    <3> QED
      BY <2>1, <3>1 DEF Hit, GoodMessage
  <2> QED
    BY <2>1, <2>2
<1>2. WiresSame
  BY <1>1, WiresKept
<1>3. /\ \A q \in Ranks : q # r => Received(q)' = Received(q)
      /\ \E m \in Nat : Removed(Received(r), Received(r)', m, first)
  BY TakenFromQueue
<1>4. PICK m \in Nat : Removed(Received(r), Received(r)', m, first)
  BY <1>3
<1>5. /\ \A q \in Ranks : QueueInv(q)' /\ \A p \in Ranks : WireInv(p, q)' /\ OrderInv(p, q)'
      /\ \A p, q \in Ranks : \A j : q # r => Pending(p, q, j)' = Pending(p, q, j)
      /\ \A p \in Ranks : \A j :
            /\ Pending(p, r, j)' \in Nat
            /\ Pending(p, r, j) = Pending(p, r, j)' + (IF Hit(h, p, j) THEN 1 ELSE 0)
  BY <1>2, <1>3, <1>4, QueueShrinks
<1>6. ASSUME NEW p \in Ranks, NEW j, p # s \/ j # c
       PROVE  Pending(p, r, j)' = Pending(p, r, j)
  <2>1. ~Hit(h, p, j)
    BY <1>1, <1>6
  <2> QED
    BY <1>5, <2>1
<1>7. Pending(s, r, c) = Pending(s, r, c)' + 1 /\ Pending(s, r, c)' \in Nat
  <2>1. Hit(h, s, c)
    BY <1>1
  <2> QED
    BY <1>1, <1>5, <2>1
<1> QED
  BY <1>5, <1>6, <1>7

LEMMA RecvStepKeeps ==
    ASSUME WorldCalls, PoolInv, Steady, UNCHANGED world_size, NEW r \in Ranks, MPI_Recv(r)
    PROVE  Steady'
<1> SUFFICES ASSUME NEW s, s = Head(plan[r]).peer, NEW c, c = count[r] + 1
             PROVE  Steady'
  OBVIOUS
<1>1. Shape /\ FaultInv /\ RankInv(r) /\ Ranks' = Ranks
  BY DEF Steady, Ranks
<1>2. /\ plan[r] # <<>> /\ Head(plan[r]).operation \in Receives
      /\ ~is_errSet[r] /\ PlanGoesOn(r)
      /\ UNCHANGED <<calls, count, busy, epoch, faultVars, commVars, checkpointVars>>
  BY DEF MPI_Recv, NextIs
<1>3. /\ busy[r] /\ ~Stopped(r) /\ r # failed /\ c \in DOMAIN calls /\ s \in Ranks
      /\ epoch[r] = EpochOf(calls, count[r]) /\ plan[r] \in Seq(Steps(world_size))
      /\ count[r] \in Nat /\ epoch[r] \in Nat
  <2>1. count[r] \in Nat /\ epoch[r] \in Nat
    BY <1>1 DEF Shape
  <2> QED
    BY <1>2, <2>1, AtStep
<1>4. /\ busy' = busy /\ plan' \in [Ranks -> Seq(Steps(world_size))]
      /\ \A q \in Ranks \ {r} : plan'[q] = plan[q]
      /\ plan'[r] = Tail(plan[r])
  <2>1. plan \in [Ranks -> Seq(Steps(world_size))]
    BY <1>1 DEF Shape
  <2>2. plan' = [plan EXCEPT ![r] = Tail(@)]
    BY <1>2 DEF PlanGoesOn
  <2>3. Tail(plan[r]) \in Seq(Steps(world_size))
    BY <1>2, <1>3
  <2> QED
    BY <1>2, <2>1, <2>2, <2>3
<1>5. Shape'
  BY <1>1, <1>2, <1>4 DEF Shape, faultVars, commVars, checkpointVars, NoRank
<1>6. OthersSame(r)
  BY <1>2, <1>4 DEF OthersSame, Rigid, RankSame, CountsSame, faultVars, commVars, checkpointVars
<1>7. Goes(r)
  BY <1>2, <1>3 DEF Goes, Stopped, faultVars
<1>8. /\ Onward /\ \A q \in Ranks \ {r} : RankInv(q)'
      /\ \A q \in Ranks \ {r} : \A x, j : /\ Taken(q, x, j)' = Taken(q, x, j)
                                          /\ Sent(q, x, j)' = Sent(q, x, j)
  BY <1>5, <1>6, <1>7, OneMoves
<1>9. /\ \A q \in Ranks : QueueInv(q)' /\ \A p \in Ranks : WireInv(p, q)' /\ OrderInv(p, q)'
      /\ \A p, q \in Ranks : \A j :
            p # s \/ q # r \/ j # c => Pending(p, q, j)' = Pending(p, q, j)
      /\ Pending(s, r, c) = Pending(s, r, c)' + 1
      /\ Pending(s, r, c)' \in Nat
  BY <1>5, <1>8, RecvMoves
<1>10. FaultInv'
  <2>1. failed \in Ranks \cup {NoRank} /\ (failed # NoRank => ~busy'[failed])
    BY <1>1, <1>3, <1>4 DEF Shape, FaultInv
  <2> QED
    BY <1>1, <1>2, <2>1, FaultKept DEF faultVars
<1> QED
  <2>1. /\ Rigid /\ plan'[r] = Tail(plan[r]) /\ busy'[r] = busy[r] /\ count'[r] = count[r]
    BY <1>2, <1>4, <1>6 DEF OthersSame
  <2>2. ASSUME NEW x \in Ranks, NEW j \in DOMAIN calls
        PROVE  /\ Sent(r, x, j)' = Sent(r, x, j)
               /\ Taken(r, x, j)' = Taken(r, x, j) + (IF j = c /\ s = x THEN 1 ELSE 0)
               /\ Taken(r, x, j) \in Nat
    <3>1. Taken(r, x, j) \in Nat
      BY <1>1, CountFacts
    <3> QED
      BY <1>2, <2>1, <3>1, PlanStep
  <2>3. ASSUME NEW p \in Ranks, NEW q \in Ranks, p # s \/ q # r PROVE PairInv(p, q)'
    <3>1. RankInv(p) /\ RankInv(q) /\ PairInv(p, q)
      BY DEF Steady, PairsInv
    <3>2. \A j \in DOMAIN calls : Pending(p, q, j)' = Pending(p, q, j)
      BY <1>9, <2>3
    <3>3. ASSUME NEW j \in DOMAIN calls PROVE Taken(q, p, j)' = Taken(q, p, j)
      <4>1. CASE q = r
        BY <2>2, <2>3, <4>1
      <4>2. CASE q # r
        BY <1>8, <4>2
      <4> QED
        BY <4>1, <4>2
    <3>4. ASSUME NEW j \in DOMAIN calls PROVE Sent(p, q, j)' = Sent(p, q, j)
      <4>1. CASE p = r
        BY <2>2, <4>1
      <4>2. CASE p # r
        BY <1>8, <4>2
      <4> QED
        BY <4>1, <4>2
    <3> QED
      BY <1>1, <1>5, <1>8, <3>1, <3>2, <3>3, <3>4, PairKept
  <2>4. PairInv(s, r)'
    <3> SUFFICES ASSUME NEW j \in DOMAIN calls PROVE PairAt(s, r, j)'
      BY <1>8 DEF PairInv, Onward, Rigid
    <3>1. RankInv(s) /\ PairInv(s, r) /\ PairAt(s, r, j)
      BY <1>3 DEF Steady, PairsInv, PairInv
    <3>2. /\ Sent(s, r, j)' = Sent(s, r, j)
          /\ Taken(r, s, j)' = Taken(r, s, j) + (IF j = c THEN 1 ELSE 0)
          /\ Taken(r, s, j) \in Nat /\ Sent(s, r, j) \in Nat
          /\ SentTotal(s, r, j)' = SentTotal(s, r, j) /\ SentTotal(s, r, j) \in Nat
      <4>1. Sent(s, r, j)' = Sent(s, r, j)
        <5>1. CASE s = r
          BY <2>2, <5>1
        <5>2. CASE s # r
          BY <1>3, <1>8, <5>2
        <5> QED
          BY <5>1, <5>2
      <4>2. SentTotal(s, r, j)' = SentTotal(s, r, j)
        BY <2>1, RigidFacts
      <4>3. Sent(s, r, j) \in Nat /\ SentTotal(s, r, j) \in Nat
        BY <1>1, <1>3, <3>1, CountFacts, PlanFacts
      <4> QED
        BY <1>3, <2>2, <4>1, <4>2, <4>3
    <3>3. Stopped(s)' <=> Stopped(s)
      <4>1. CASE s = r
        BY <1>2, <1>4, <1>2, <4>1 DEF Stopped, faultVars
      <4>2. CASE s # r
        BY <1>2, <1>3, <1>4, <4>2 DEF Stopped, faultVars
      <4> QED
        BY <4>1, <4>2
    <3>4. Live(r, j)' => Live(r, j)
      BY <1>1, <1>5, <1>8, LiveKept
    <3>5. CASE j # c
      <4>1. /\ Pending(s, r, j)' = Pending(s, r, j) /\ Taken(r, s, j)' = Taken(r, s, j)
            /\ count'[s] = count[s]
        BY <1>2, <1>3, <1>9, <3>2, <3>5
      <4> QED
        BY <3>1, <3>2, <3>3, <3>4, <4>1 DEF PairAt
    <3>6. CASE j = c
      <4>1. /\ Pending(s, r, j) = Pending(s, r, j)' + 1 /\ Pending(s, r, j)' \in Nat
            /\ Taken(r, s, j)' = Taken(r, s, j) + 1 /\ count'[s] = count[s]
        BY <1>2, <1>9, <3>2, <3>6
      <4>2. Live(r, j)
        <5>1. j - 1 = count[r]
          BY <1>3, <3>6
        <5> QED
          BY <1>2, <1>3, <5>1 DEF Live
      <4>3. CASE ~Stopped(s)
        <5>1. Pending(s, r, j) + Taken(r, s, j) = Sent(s, r, j)
          BY <3>1, <4>2, <4>3 DEF PairAt
        <5>2. /\ Pending(s, r, j)' + Taken(r, s, j)' = Sent(s, r, j)'
              /\ Taken(r, s, j)' <= Sent(s, r, j)'
          BY <3>2, <4>1, <5>1
        <5> QED
          BY <3>3, <4>3, <5>2 DEF PairAt
      <4>4. CASE Stopped(s) /\ j # count[s] + 1
        <5>1. Pending(s, r, j) + Taken(r, s, j) = Sent(s, r, j)
          BY <3>1, <4>2, <4>4 DEF PairAt
        <5>2. Pending(s, r, j)' + Taken(r, s, j)' = Sent(s, r, j)'
          BY <3>2, <4>1, <5>1
        <5> QED
          BY <3>3, <4>1, <4>4, <5>2 DEF PairAt
      <4>5. CASE Stopped(s) /\ j = count[s] + 1
        <5>1. Pending(s, r, j) + Taken(r, s, j) <= SentTotal(s, r, j)
          BY <3>1, <4>2, <4>5 DEF PairAt
        <5>2. Pending(s, r, j)' + Taken(r, s, j)' <= SentTotal(s, r, j)'
          BY <3>2, <4>1, <5>1
        <5> QED
          BY <3>3, <4>1, <4>5, <5>2 DEF PairAt
      <4> QED
        BY <4>3, <4>4, <4>5
    <3> QED
      BY <3>5, <3>6
  <2>5. PairsInv'
    <3>1. ASSUME NEW p \in Ranks, NEW q \in Ranks PROVE PairInv(p, q)'
      <4>1. CASE p = s /\ q = r
        BY <2>4, <4>1
      <4>2. CASE ~(p = s /\ q = r)
        BY <2>3, <4>2
      <4> QED
        BY <4>1, <4>2
    <3> QED
      BY <1>1, <1>9, <3>1 DEF PairsInv
  <2>6. RankInv(r)'
    BY <1>2, <2>1, BusyRank DEF commVars, checkpointVars
  <2> QED
    BY <1>5, <1>8, <1>9, <1>10, <2>5, <2>6, Together

\* A receive that is left posted takes a message, after its rank is told of the failure:
\* what that rank still takes no longer counts.
LEMMA AbandonedStepKeeps ==
    ASSUME WorldCalls, PoolInv, Steady, LeftInv, ~disturbed, UNCHANGED world_size,
           NEW r \in Ranks, match_abandoned(r)
    PROVE  Steady'
<1>1. Shape /\ FaultInv /\ Ranks' = Ranks /\ QueueInv(r)
  BY DEF Steady, Ranks
<1>2. is_errSet[r]
  BY LeftFacts
<1>3. /\ UNCHANGED <<calls, count, busy, plan, epoch, is_errSet, failed, restarts>>
      /\ UNCHANGED <<groups, communicators, handles, files>>
  BY DEF match_abandoned, callVars, faultVars, commVars, checkpointVars
<1>4. Shape' /\ FaultInv'
  BY <1>1, <1>3 DEF Shape, FaultInv, NoRank
<1>5. \A q \in Ranks : count[q] \in Nat /\ epoch[q] \in Nat
  BY <1>1 DEF Shape
<1>6. Onward
  BY <1>3, <1>5 DEF Onward, Rigid, Stopped
<1>7. Rigid /\ \A q \in Ranks : RankSame(q)
  BY <1>3 DEF Rigid, RankSame, CountsSame
<1>8. \A q \in Ranks : RankInv(q)'
  BY <1>7, RankKeptHere DEF Steady
<1>9. PICK p \in DOMAIN Received(r) :
          /\ \A q \in Ranks : q # r => Received(q)' = Received(q)
          /\ \E m \in Nat : Removed(Received(r), Received(r)', m, p)
          /\ Received(r)[p].tag = 0
          /\ Received(r)[p].protocol \notin {"ACK", "EAGER_ACK"} => UNCHANGED network
  BY AbandonedFromQueue
<1>10. PICK m \in Nat : Removed(Received(r), Received(r)', m, p)
  BY <1>9
<1>11. PICK h : h = Received(r)[p]
  OBVIOUS
<1>12. Received(r)[p].protocol = "EAGER"
  BY <1>1, <1>9 DEF QueueInv, GoodMessage
<1>13. WiresSame
  BY <1>9, <1>12, WiresKept
<1>14. /\ \A q \in Ranks : QueueInv(q)' /\ \A x \in Ranks : WireInv(x, q)' /\ OrderInv(x, q)'
       /\ \A x, q \in Ranks : \A j : q # r => Pending(x, q, j)' = Pending(x, q, j)
  BY <1>4, <1>6, <1>9, <1>10, <1>11, <1>13, QueueShrinks
<1>15. ASSUME NEW x \in Ranks, NEW q \in Ranks PROVE PairInv(x, q)'
  <2>1. RankInv(x) /\ RankInv(q) /\ PairInv(x, q)
    BY DEF Steady, PairsInv
  <2>2. ASSUME NEW j \in DOMAIN calls
        PROVE  /\ Taken(q, x, j)' = Taken(q, x, j) /\ Sent(x, q, j)' = Sent(x, q, j)
               /\ Live(q, j)' => Pending(x, q, j)' = Pending(x, q, j)
    <3>1. Taken(q, x, j)' = Taken(q, x, j) /\ Sent(x, q, j)' = Sent(x, q, j)
      BY <1>7, CountsKept DEF RankSame
    <3>2. CASE q = r
      BY <1>2, <1>3, <3>1, <3>2 DEF Live
    <3>3. CASE q # r
      BY <1>14, <3>1, <3>3
    <3> QED
      BY <3>2, <3>3
  <2> QED
    BY <1>1, <1>4, <1>6, <2>1, <2>2, PairKept
<1>16. PairsInv'
  BY <1>1, <1>14, <1>15 DEF PairsInv
<1> QED
  BY <1>1, <1>4, <1>8, <1>14, <1>16 DEF Steady

(***************************************************************************)
(* A call returns. A checkpoint leaves a good file.                        *)
(***************************************************************************)
LEMMA SequencesJoined ==
    ASSUME NEW a, NEW b, Sequence(a), Sequence(b)
    PROVE  /\ Sequence(a \o b) /\ (a \o b # <<>> => a # <<>> \/ b # <<>>)
           /\ a # <<>> => a \o b # <<>> /\ (a \o b)[1] = a[1]
           /\ a = <<>> /\ b # <<>> => (a \o b)[1] = b[1]
<1>1. PICK S : a \in Seq(S)
  BY DEF Sequence
<1>2. PICK T : b \in Seq(T)
  BY DEF Sequence
<1>3. a \in Seq(S \cup T) /\ b \in Seq(S \cup T)
  BY <1>1, <1>2, SeqLarger
<1>4. a \o b \in Seq(S \cup T)
  BY <1>3
<1> QED
  BY <1>3, <1>4 DEF Sequence

LEMMA SequenceGrows ==
    ASSUME NEW a, Sequence(a), a # <<>>, NEW e
    PROVE  Sequence(Append(a, e)) /\ Append(a, e) # <<>> /\ Append(a, e)[1] = a[1]
<1>1. PICK S : a \in Seq(S)
  BY DEF Sequence
<1>2. a \in Seq(S \cup {e}) /\ e \in S \cup {e}
  BY <1>1, SeqLarger
<1>3. Append(a, e) \in Seq(S \cup {e})
  BY <1>2
<1> QED
  BY <1>2, <1>3 DEF Sequence

LEMMA FileWritten ==
    ASSUME WorldCalls, Steady, NEW r \in Ranks, busy[r], NEW c, c = count[r] + 1,
           IsWrite(calls[c])
    PROVE  GoodFile(r, epoch[r], File(r, c))
<1>1. /\ RankInv(r) /\ Shape /\ count[r] \in Nat /\ epoch[r] \in Nat
  BY DEF Steady, Shape
<1>2. c \in DOMAIN calls
  BY <1>1, WorldFacts DEF RankInv
<1>3. EpochOf(calls, c) = epoch[r] + 1
  BY <1>1, EpochStep DEF RankInv
<1>4. Sequence(<<>>)
  BY DEF Sequence
<1> QED
  BY <1>1, <1>2, <1>3, <1>4 DEF GoodFile, File, NotSerialized, RankInv

LEMMA FileSerialized ==
    ASSUME NEW r, NEW k, NEW file, GoodFile(r, k, file), NEW contexts, Sequence(contexts),
           contexts # <<>> => contexts[1] = 0, NEW g, g = [file EXCEPT !.contexts = @ \o contexts]
    PROVE  GoodFile(r, k, g)
<1>1. /\ DOMAIN g = DOMAIN file /\ g.groups = file.groups /\ g.communicators = file.communicators
      /\ g.handles = file.handles /\ g.count = file.count
      /\ g.contexts = file.contexts \o contexts
  BY DEF GoodFile
<1>2. /\ Sequence(file.contexts) /\ (file.contexts # <<>> => file.contexts[1] = 0)
  BY DEF GoodFile
<1>3. Sequence(g.contexts) /\ (g.contexts # <<>> => g.contexts[1] = 0)
  <2>1. CASE file.contexts = <<>>
    BY <1>1, <1>2, <2>1, SequencesJoined
  <2>2. CASE file.contexts # <<>>
    BY <1>1, <1>2, <2>2, SequencesJoined
  <2> QED
    BY <2>1, <2>2
<1> QED
  BY <1>1, <1>3 DEF GoodFile

\* What the handlers append begins with the context of the world.
LEMMA ContextsBegin ==
    ASSUME WorldCalls, Steady, NEW r \in Ranks, NEW contexts,
           contexts = [i \in DOMAIN handles[r] |-> get_context_id_pt2pt(r, handles[r][i])]
    PROVE  Sequence(contexts) /\ (contexts # <<>> => contexts[1] = 0)
<1>1. WorldHandle(handles[r]) /\ WorldFirst(communicators[r], r)
  BY DEF Steady, RankInv
<1>2. PICK S : handles[r] \in Seq(S)
  BY <1>1 DEF WorldHandle, Sequence
<1>3. handles[r] # <<>> /\ handles[r][1] = 0 /\ 1 \in DOMAIN handles[r]
  BY <1>1, <1>2 DEF WorldHandle, MPI_COMM_WORLD
<1>4. get_context_id_pt2pt(r, 0) = 0
  BY <1>1 DEF get_context_id_pt2pt, Communicator, WorldFirst
<1>5. contexts \in Seq({get_context_id_pt2pt(r, handles[r][i]) : i \in DOMAIN handles[r]})
  BY <1>2
<1>6. contexts[1] = 0
  BY <1>3, <1>4
<1> QED
  BY <1>5, <1>6 DEF Sequence

LEMMA FilesFrom ==
    ASSUME Rigid, NEW r, 0..(epoch'[r] - 1) \subseteq DOMAIN files'[r],
           \A k \in DOMAIN files'[r] : GoodFile(r, k, files'[r][k])
    PROVE  FilesInv(r)'
BY DEF Rigid, FilesInv, GoodFile, WorldGroup, WorldFirst, WorldHandle, Sequence, IsWrite,
       EpochOf, MPI_COMM_WORLD

LEMMA ReturnFiles ==
    ASSUME WorldCalls, Steady, UNCHANGED world_size, NEW r \in Ranks, Return(r)
    PROVE  FilesInv(r)' /\ DOMAIN files' = Ranks /\ \A q \in Ranks \ {r} : files'[q] = files[q]
<1> SUFFICES ASSUME NEW c, c = count[r] + 1
             PROVE  FilesInv(r)' /\ DOMAIN files' = Ranks
                    /\ \A q \in Ranks \ {r} : files'[q] = files[q]
  OBVIOUS
<1>1. /\ busy[r] /\ calls' = calls
      /\ CASE calls[c].name = "MPIX_Checkpoint_write" -> write_file(r, epoch[r], count[r] + 1)
           [] calls[c].name = "MPIX_Serialize_handles" -> MPIX_Serialize_handles(r, epoch[r])
           [] OTHER -> UNCHANGED files
      /\ IF calls[c].name = "MPIX_Checkpoint_write" /\ ~is_errSet[r]
         THEN epoch' = [epoch EXCEPT ![r] = @ + 1]
         ELSE UNCHANGED epoch
  BY DEF Return, Call
<1>2. /\ DOMAIN files = Ranks /\ DOMAIN epoch = Ranks /\ epoch[r] \in Nat
      /\ FilesInv(r) /\ Rigid
  BY <1>1 DEF Steady, Shape, RankInv, Rigid
<1>4. CASE calls[c].name = "MPIX_Checkpoint_write"
  <2>1. files' = [files EXCEPT ![r] = Stored(files[r], epoch[r], File(r, c))]
    BY <1>1, <1>4 DEF write_file
  <2>2. files'[r] = Stored(files[r], epoch[r], File(r, c))
    BY <1>2, <2>1
  <2>3. GoodFile(r, epoch[r], File(r, c))
    BY <1>1, <1>4, FileWritten DEF IsWrite
  <2>4. /\ DOMAIN files'[r] = DOMAIN files[r] \cup {epoch[r]}
        /\ files'[r][epoch[r]] = File(r, c)
        /\ \A k \in DOMAIN files[r] : k # epoch[r] => files'[r][k] = files[r][k]
    BY <2>2 DEF Stored
  <2>5. \A k \in DOMAIN files'[r] : GoodFile(r, k, files'[r][k])
    BY <1>2, <2>3, <2>4 DEF FilesInv
  <2>6. 0..(epoch'[r] - 1) \subseteq DOMAIN files'[r]
    <3>1. epoch'[r] = epoch[r] + 1 \/ epoch'[r] = epoch[r]
      BY <1>1, <1>2
    <3>2. 0..(epoch[r] - 1) \subseteq DOMAIN files[r]
      BY <1>2 DEF FilesInv
    <3>3. 0..(epoch'[r] - 1) \subseteq 0..(epoch[r] - 1) \cup {epoch[r]}
      BY <1>2, <3>1
    <3> QED
      BY <2>4, <3>2, <3>3
  <2>8. FilesInv(r)'
    BY <1>2, <2>5, <2>6, FilesFrom
  <2> QED
    BY <1>2, <2>1, <2>8
<1>5. CASE calls[c].name = "MPIX_Serialize_handles"
  <2>1. MPIX_Serialize_handles(r, epoch[r]) /\ epoch' = epoch
    BY <1>1, <1>5
  <2> DEFINE contexts == [i \in DOMAIN handles[r] |-> get_context_id_pt2pt(r, handles[r][i])]
             b == epoch[r] - 1
             g == [files[r][b] EXCEPT !.contexts = @ \o contexts]
  <2>2. Sequence(contexts) /\ (contexts # <<>> => contexts[1] = 0)
    BY ContextsBegin
  <2>3. files' = files \/ files' = [files EXCEPT ![r] = [files[r] EXCEPT ![b] = g]]
    BY <2>1 DEF MPIX_Serialize_handles
  <2> HIDE DEF contexts
  <2>4. b \in DOMAIN files[r] => GoodFile(r, b, g)
    <3>1. ASSUME b \in DOMAIN files[r] PROVE GoodFile(r, b, g)
      <4>1. GoodFile(r, b, files[r][b])
        BY <1>2, <3>1 DEF FilesInv
      <4> QED
        BY <2>2, <4>1, FileSerialized
    <3> QED
      BY <3>1
  <2> HIDE DEF g, b
  <2>5. /\ DOMAIN files' = Ranks /\ DOMAIN files'[r] = DOMAIN files[r]
        /\ \A q \in Ranks \ {r} : files'[q] = files[q]
        /\ \A k \in DOMAIN files[r] : files'[r][k] = files[r][k] \/ (k = b /\ files'[r][k] = g)
    <3>1. CASE files' = files
      BY <1>2, <3>1
    <3>2. CASE files' = [files EXCEPT ![r] = [files[r] EXCEPT ![b] = g]]
      <4>1. files'[r] = [files[r] EXCEPT ![b] = g]
        BY <1>2, <3>2
      <4> QED
        BY <1>2, <3>2, <4>1
    <3> QED
      BY <2>3, <3>1, <3>2
  <2>6. \A k \in DOMAIN files'[r] : GoodFile(r, k, files'[r][k])
    BY <1>2, <2>4, <2>5 DEF FilesInv
  <2>7. 0..(epoch'[r] - 1) \subseteq DOMAIN files'[r]
    BY <1>2, <2>1, <2>5 DEF FilesInv
  <2>8. FilesInv(r)'
    BY <1>2, <2>6, <2>7, FilesFrom
  <2> QED
    BY <2>5, <2>8
<1>6. CASE calls[c].name \notin {"MPIX_Checkpoint_write", "MPIX_Serialize_handles"}
  <2>1. files' = files /\ epoch' = epoch
    BY <1>1, <1>6
  <2> QED
    BY <1>2, <2>1, FilesKept
<1> QED
  BY <1>4, <1>5, <1>6

LEMMA ReturnComms ==
    ASSUME WorldCalls, Steady, UNCHANGED world_size, NEW r \in Ranks, Return(r)
    PROVE  /\ groups' = groups /\ DOMAIN communicators' = Ranks /\ DOMAIN handles' = Ranks
           /\ \A q \in Ranks \ {r} : /\ communicators'[q] = communicators[q]
                                     /\ handles'[q] = handles[q]
           /\ WorldFirst(communicators[r], r)' /\ WorldHandle(handles[r])'
<1>1. /\ WorldFirst(communicators[r], r) /\ WorldHandle(handles[r])
      /\ DOMAIN communicators = Ranks /\ DOMAIN handles = Ranks
  BY DEF Steady, Shape, RankInv
<1>2. CASE UNCHANGED commVars
  BY <1>1, <1>2 DEF commVars, WorldFirst, WorldHandle, Sequence, MPI_COMM_WORLD
<1>3. ASSUME NEW contexts, register(r, handles[r][Call(r).comm], contexts)
      PROVE  /\ groups' = groups /\ DOMAIN communicators' = Ranks /\ DOMAIN handles' = Ranks
             /\ \A q \in Ranks \ {r} : /\ communicators'[q] = communicators[q]
                                       /\ handles'[q] = handles[q]
             /\ WorldFirst(communicators[r], r)' /\ WorldHandle(handles[r])'
  <2>1. PICK e, f : /\ communicators' = [communicators EXCEPT ![r] = Append(communicators[r], e)]
                    /\ handles' = [handles EXCEPT ![r] = Append(handles[r], f)]
                    /\ groups' = groups
    BY <1>3 DEF register
  <2>2. /\ communicators'[r] = Append(communicators[r], e)
        /\ handles'[r] = Append(handles[r], f)
    BY <1>1, <2>1
  <2>3. /\ Sequence(communicators'[r]) /\ communicators'[r] # <<>>
        /\ communicators'[r][1] = communicators[r][1]
    BY <1>1, <2>2, SequenceGrows DEF WorldFirst
  <2>4. /\ Sequence(handles'[r]) /\ handles'[r] # <<>> /\ handles'[r][1] = handles[r][1]
    BY <1>1, <2>2, SequenceGrows DEF WorldHandle
  <2>5. WorldFirst(communicators'[r], r) /\ WorldHandle(handles'[r])
    BY <1>1, <2>3, <2>4 DEF WorldFirst, WorldHandle
  <2>6. WorldFirst(communicators[r], r)' /\ WorldHandle(handles[r])'
    BY <2>5 DEF WorldFirst, WorldHandle, Sequence, MPI_COMM_WORLD
  <2> QED
    BY <1>1, <2>1, <2>6
<1> QED
  BY <1>2, <1>3 DEF Return

LEMMA ReturnKeeps ==
    ASSUME WorldCalls, PoolInv, Steady, UNCHANGED world_size, NEW r \in Ranks, Return(r)
    PROVE  Steady'
<1> SUFFICES ASSUME NEW c, c = count[r] + 1
             PROVE  Steady'
  OBVIOUS
<1>1. Shape /\ FaultInv /\ RankInv(r) /\ Ranks' = Ranks
  BY DEF Steady, Ranks
<1>2. /\ busy[r] /\ plan[r] = <<>>
      /\ busy' = [busy EXCEPT ![r] = FALSE] /\ count' = [count EXCEPT ![r] = c]
      /\ IF calls[c].name = "MPIX_Checkpoint_write" /\ ~is_errSet[r]
         THEN epoch' = [epoch EXCEPT ![r] = @ + 1]
         ELSE UNCHANGED epoch
      /\ UNCHANGED <<calls, plan, memory, received_header_queue, faultVars, transportVars,
                     registered>>
  BY DEF Return, Call
<1>3. /\ groups' = groups /\ DOMAIN communicators' = Ranks /\ DOMAIN handles' = Ranks
      /\ \A q \in Ranks \ {r} : /\ communicators'[q] = communicators[q]
                                /\ handles'[q] = handles[q]
      /\ WorldFirst(communicators[r], r)' /\ WorldHandle(handles[r])'
  BY ReturnComms
<1>4. FilesInv(r)' /\ DOMAIN files' = Ranks /\ \A q \in Ranks \ {r} : files'[q] = files[q]
  BY ReturnFiles
<1>5. /\ count[r] \in Nat /\ epoch[r] \in Nat /\ c \in DOMAIN calls
      /\ epoch[r] = EpochOf(calls, count[r]) /\ r # failed
      /\ count \in [Ranks -> Nat] /\ busy \in [Ranks -> BOOLEAN] /\ epoch \in [Ranks -> Nat]
  <2>1. /\ count \in [Ranks -> Nat] /\ busy \in [Ranks -> BOOLEAN] /\ epoch \in [Ranks -> Nat]
    BY <1>1 DEF Shape
  <2>2. count[r] < Len(calls) /\ epoch[r] = EpochOf(calls, count[r])
    BY <1>1, <1>2 DEF RankInv
  <2>3. r # failed
    BY <1>1, <1>2, WorldFacts DEF FaultInv
  <2>4. c \in DOMAIN calls
    BY <1>1, <2>1, <2>2, WorldFacts
  <2> QED
    BY <2>1, <2>2, <2>3, <2>4
<1>6. /\ busy' \in [Ranks -> BOOLEAN] /\ count' \in [Ranks -> Nat] /\ epoch' \in [Ranks -> Nat]
      /\ ~busy'[r] /\ count'[r] = c /\ count'[r] = count[r] + 1
      /\ \A q \in Ranks \ {r} : /\ busy'[q] = busy[q] /\ count'[q] = count[q]
                                /\ epoch'[q] = epoch[q]
  BY <1>2, <1>5
<1>7. /\ ~is_errSet[r] => epoch'[r] = EpochOf(calls, c)
      /\ is_errSet[r] => epoch'[r] = epoch[r]
      /\ epoch[r] <= epoch'[r]
  <2>1. EpochOf(calls, c) = EpochOf(calls, count[r]) + (IF IsWrite(calls[c]) THEN 1 ELSE 0)
    BY <1>5, EpochStep
  <2>2. CASE calls[c].name = "MPIX_Checkpoint_write" /\ ~is_errSet[r]
    <3>1. epoch'[r] = epoch[r] + 1
      BY <1>2, <1>5, <2>2
    <3> QED
      BY <1>5, <2>1, <2>2, <3>1 DEF IsWrite
  <2>3. CASE ~(calls[c].name = "MPIX_Checkpoint_write" /\ ~is_errSet[r])
    <3>1. epoch'[r] = epoch[r]
      BY <1>2, <2>3
    <3> QED
      BY <1>5, <2>1, <2>3, <3>1 DEF IsWrite
  <2> QED
    BY <2>2, <2>3
<1>8. Shape'
  BY <1>1, <1>2, <1>3, <1>4, <1>6 DEF Shape, faultVars, NoRank
<1>9. OthersSame(r)
  BY <1>2, <1>3, <1>4, <1>6 DEF OthersSame, Rigid, RankSame, CountsSame, faultVars
<1>10. Goes(r)
  BY <1>2, <1>5, <1>6, <1>7 DEF Goes, Stopped, faultVars
<1>11. /\ Onward /\ \A q \in Ranks \ {r} : RankInv(q)'
       /\ \A q \in Ranks \ {r} : \A x, j : /\ Taken(q, x, j)' = Taken(q, x, j)
                                           /\ Sent(q, x, j)' = Sent(q, x, j)
  BY <1>8, <1>9, <1>10, OneMoves
<1>12. QueuesSame /\ WiresSame
  BY <1>2, QueuesKept, WiresKept DEF transportVars, poolVars
<1>13. ASSUME NEW x \in Ranks, NEW j \in DOMAIN calls
       PROVE  Taken(r, x, j)' = Taken(r, x, j) /\ Sent(r, x, j)' = Sent(r, x, j)
  <2>1. /\ SentTotal(r, x, j)' = SentTotal(r, x, j) /\ TakenTotal(r, x, j)' = TakenTotal(r, x, j)
    BY <1>9, RigidFacts DEF OthersSame
  <2>2. j \in Nat
    BY <1>1, WorldFacts
  <2>3. CASE j <= count[r]
    <3>1. j <= count'[r]
      BY <1>5, <1>6, <2>2, <2>3
    <3> QED
      BY <2>1, <2>3, <3>1 DEF Taken, Sent
  <2>4. CASE j = c
    <3>1. /\ Sent(r, x, j)' = SentTotal(r, x, j) /\ Taken(r, x, j)' = TakenTotal(r, x, j)
      BY <1>5, <1>6, <2>1, <2>2, <2>4 DEF Taken, Sent
    <3>2. /\ Sent(r, x, j) = SentTotal(r, x, j) - Cardinality(Sends(plan[r], x))
          /\ Taken(r, x, j) = TakenTotal(r, x, j) - Cardinality(Receipts(plan[r], x))
      BY <1>2, <1>5, <2>4 DEF Taken, Sent
    <3>3. Cardinality(Sends(plan[r], x)) = 0 /\ Cardinality(Receipts(plan[r], x)) = 0
      BY <1>2, FS_EmptySet DEF Sends, Receipts
    <3>4. SentTotal(r, x, j) \in Nat /\ TakenTotal(r, x, j) \in Nat
      BY <1>1, PlanFacts
    <3> QED
      BY <3>1, <3>2, <3>3, <3>4
  <2>5. CASE j > c
    <3>1. /\ ~(j <= count[r]) /\ j # count[r] + 1 /\ ~(j <= count'[r])
      BY <1>5, <1>6, <2>2, <2>5
    <3> QED
      BY <1>6, <3>1 DEF Taken, Sent
  <2> QED
    BY <1>5, <2>2, <2>3, <2>4, <2>5
<1>14. PairsInv'
  BY <1>8, <1>11, <1>12, <1>13, PairsStay
<1>15. FaultInv'
  <2>1. failed \in Ranks \cup {NoRank} /\ (failed # NoRank => ~busy'[failed])
    BY <1>1, <1>5, <1>6 DEF Shape, FaultInv
  <2> QED
    BY <1>1, <1>2, <2>1, FaultKept DEF faultVars
<1>16. RankInv(r)'
  <2>1. groups'[r] = <<WorldGroup>>'
    BY <1>1, <1>3 DEF RankInv, WorldGroup
  <2>2. count'[r] <= Len(calls')
    BY <1>1, <1>2, <1>5, <1>6, WorldFacts
  <2>3. ~is_errSet'[r] => epoch'[r] = EpochOf(calls', count'[r])
    BY <1>2, <1>6, <1>7 DEF faultVars
  <2>4. ~busy'[r] /\ plan'[r] = <<>>
    BY <1>2, <1>6
  <2> QED
    BY <1>3, <1>4, <2>1, <2>2, <2>3, <2>4 DEF RankInv
<1> QED
  BY <1>8, <1>11, <1>12, <1>14, <1>15, <1>16, NoneMoves, Together

(***************************************************************************)
(* A recovery that is not disturbed: all ranks return to the same call,    *)
(* and what is left of messages is older than it.                          *)
(***************************************************************************)
LEMMA RecoveryEpoch ==
    ASSUME WorldCalls, Steady, Recover, ~disturbed', NEW C, C = Committed
    PROVE  /\ C \in Nat /\ failed \in Ranks
           /\ \A r \in Ranks : C <= epoch[r] /\ EpochAfter(r) = C
           /\ \A r \in Survivors : ~Leftovers(r, C) /\ ~HandlesLost(r, C)
<1>1. epoch \in [Ranks -> Nat] /\ Ranks # {} /\ failed \in Ranks
  BY WorldFacts DEF Steady, Shape, Recover
<1>2. C \in Nat /\ \A r \in Ranks : C <= epoch[r]
  <2> DEFINE S == {epoch[r] : r \in Ranks}
  <2>1. S \subseteq Nat /\ S # {}
    BY <1>1
  <2>2. C = CHOOSE x \in S : \A y \in S : x =< y
    BY DEF Committed, Min
  <2> HIDE DEF S
  <2>3. C \in S /\ \A y \in S : C <= y
    BY <2>1, <2>2, LeastNumber
  <2> QED
    BY <1>1, <2>1, <2>3 DEF S
<1>3. /\ EpochAfter(failed) = C
      /\ \A r \in Survivors : ~Leftovers(r, C) /\ ~HandlesLost(r, C)
  BY DEF Recover
<1>4. \A r \in Ranks : EpochAfter(r) = C
  BY <1>3 DEF EpochAfter
<1> QED
  BY <1>1, <1>2, <1>3, <1>4

LEMMA RecoveryFile ==
    ASSUME WorldCalls, Steady, NEW r \in Ranks, NEW C \in Nat \ {0}, C <= epoch[r]
    PROVE  GoodFile(r, C - 1, files[r][C - 1])
<1>1. epoch[r] \in Nat /\ FilesInv(r)
  BY DEF Steady, Shape, RankInv
<1>2. C - 1 \in 0..(epoch[r] - 1)
  BY <1>1
<1> QED
  BY <1>1, <1>2 DEF FilesInv

LEMMA RecoveryCount ==
    ASSUME WorldCalls, Steady, NEW C \in Nat, \A r \in Ranks : C <= epoch[r]
    PROVE  \E c \in Nat : /\ c <= Len(calls) /\ EpochOf(calls, c) = C
                          /\ \A j \in Nat : EpochOf(calls, j) >= C <=> j >= c
                          /\ \A r \in Ranks : CountAfter(r, C) = c
<1>1. CASE C = 0
  <2>1. EpochOf(calls, 0) = 0 /\ \A j \in Nat : EpochOf(calls, j) \in Nat
    BY EpochZero, EpochType
  <2>2. 0 <= Len(calls)
    BY WorldFacts DEF Steady
  <2> QED
    BY <1>1, <2>1, <2>2 DEF CountAfter
<1>2. CASE C # 0
  <2>1. ASSUME NEW r \in Ranks
        PROVE  /\ CountAfter(r, C) \in DOMAIN calls /\ IsWrite(calls[CountAfter(r, C)])
               /\ EpochOf(calls, CountAfter(r, C)) = C
    <3>1. GoodFile(r, C - 1, files[r][C - 1])
      BY <1>2, RecoveryFile
    <3> QED
      BY <1>2, <3>1 DEF GoodFile, CountAfter
  <2>2. DOMAIN calls = 1..Len(calls) /\ Len(calls) \in Nat /\ 0 \in Ranks
    BY WorldFacts DEF Steady
  <2>3. PICK c : c = CountAfter(0, C)
    OBVIOUS
  <2>4. c \in Nat \ {0} /\ c <= Len(calls) /\ IsWrite(calls[c]) /\ EpochOf(calls, c) = C
    BY <2>1, <2>2, <2>3
  <2>5. \A j \in Nat : EpochOf(calls, j) >= C <=> j >= c
    BY <2>4, BeforeWrite
  <2>6. ASSUME NEW r \in Ranks PROVE CountAfter(r, C) = c
    <3>1. PICK d : d = CountAfter(r, C)
      OBVIOUS
    <3>2. d \in Nat \ {0} /\ IsWrite(calls[d]) /\ EpochOf(calls, d) = C
      BY <2>1, <2>2, <3>1
    <3>3. \A j \in Nat : EpochOf(calls, j) >= C <=> j >= d
      BY <3>2, BeforeWrite
    <3>4. d >= c /\ c >= d
      BY <2>4, <2>5, <3>2, <3>3
    <3> QED
      BY <2>4, <3>1, <3>2, <3>4
  <2> QED
    BY <2>4, <2>5, <2>6
<1> QED
  BY <1>1, <1>2

\* The first handle is that of the world, from the file or from its context.
LEMMA RecoveryHandles ==
    ASSUME WorldCalls, Steady, NEW r \in Ranks, NEW C \in Nat, C <= epoch[r],
           r # failed => ~HandlesLost(r, C)
    PROVE  WorldHandle(HandlesAfter(r, failed, C))
<1>1. CASE C = 0
  <2>1. <<MPI_COMM_WORLD>> \in Seq({MPI_COMM_WORLD})
    OBVIOUS
  <2>2. HandlesAfter(r, failed, C) = <<MPI_COMM_WORLD>>
    BY <1>1 DEF HandlesAfter
  <2>3. Sequence(<<MPI_COMM_WORLD>>)
    BY <2>1 DEF Sequence
  <2>4. WorldHandle(<<MPI_COMM_WORLD>>)
    BY <2>3 DEF WorldHandle
  <2> QED
    BY <2>2, <2>4
<1>2. CASE C # 0
  <2>1. GoodFile(r, C - 1, files[r][C - 1])
    BY <1>2, RecoveryFile
  <2>2. CASE r = failed \/ ~registered[r]
    BY <1>2, <2>1, <2>2 DEF HandlesAfter, GoodFile
  <2>3. CASE ~(r = failed \/ ~registered[r])
    <3> DEFINE file == files[r][C - 1]
               after == HandlesAfter(r, failed, C)
    <3>1. after = [i \in 1..Len(file.handles) |-> HandleOf(communicators[r], file.contexts[i])]
      BY <1>2, <2>3 DEF HandlesAfter, MPIX_Deserialize_handles
    <3>2. WorldHandle(file.handles) /\ (file.contexts # <<>> => file.contexts[1] = 0)
      BY <2>1 DEF GoodFile
    <3>3. file.contexts # <<>>
      BY <1>2, <2>3 DEF HandlesLost, NotSerialized
    <3> HIDE DEF file
    <3>4. PICK S : file.handles \in Seq(S)
      BY <3>2 DEF WorldHandle, Sequence
    <3>5. file.handles # <<>> /\ Len(file.handles) \in Nat /\ Len(file.handles) > 0
      BY <3>2, <3>4 DEF WorldHandle
    <3>6. HandleOf(communicators[r], 0) = 0
      <4>1. WorldFirst(communicators[r], r)
        BY DEF Steady, RankInv
      <4>2. PICK T : communicators[r] \in Seq(T)
        BY <4>1 DEF WorldFirst, Sequence
      <4>3. /\ 1 \in DOMAIN communicators[r] /\ communicators[r][1].pt2pt = 0
            /\ DOMAIN communicators[r] = 1..Len(communicators[r])
        BY <4>1, <4>2 DEF WorldFirst
      <4>4. \A i \in DOMAIN communicators[r] :
               (communicators[r][i].pt2pt = 0
                /\ \A j \in 1..(i - 1) : communicators[r][j].pt2pt # 0) <=> i = 1
        BY <4>2, <4>3
      <4> HIDE DEF after
      <4>5. (CHOOSE i \in DOMAIN communicators[r] :
                communicators[r][i].pt2pt = 0
                /\ \A j \in 1..(i - 1) : communicators[r][j].pt2pt # 0) = 1
        BY <4>3, <4>4
      <4> QED
        BY <4>5 DEF HandleOf
    <3>7. after[1] = 0 /\ Len(after) = Len(file.handles)
      BY <3>1, <3>2, <3>3, <3>5, <3>6
    <3>8. after \in Seq({HandleOf(communicators[r], file.contexts[i]) : i \in 1..Len(file.handles)})
      BY <3>1, <3>5
    <3>9. after # <<>>
      BY <3>5, <3>7
    <3> HIDE DEF after
    <3>10. WorldHandle(after)
      BY <3>7, <3>8, <3>9 DEF WorldHandle, Sequence, MPI_COMM_WORLD
    <3> QED
      BY <3>10 DEF after
  <2> QED
    BY <2>2, <2>3
<1> QED
  BY <1>1, <1>2

LEMMA RecoveryComms ==
    ASSUME WorldCalls, Steady, UNCHANGED world_size, Recover, ~disturbed', NEW r \in Ranks
    PROVE  /\ groups'[r] = <<WorldGroup>>' /\ WorldFirst(communicators[r], r)'
           /\ DOMAIN groups' = Ranks /\ DOMAIN communicators' = Ranks
<1> SUFFICES ASSUME NEW C, C = Committed
             PROVE  /\ groups'[r] = <<WorldGroup>>' /\ WorldFirst(communicators[r], r)'
                    /\ DOMAIN groups' = Ranks /\ DOMAIN communicators' = Ranks
  OBVIOUS
<1>1. C \in Nat /\ C <= epoch[r]
  BY RecoveryEpoch
<1> DEFINE file == files[failed][C - 1]
<1>2. /\ groups' = [groups EXCEPT ![failed] = IF C = 0 THEN <<WorldGroup>> ELSE file.groups]
      /\ communicators' = [communicators EXCEPT ![failed] =
                               IF C = 0 THEN <<WorldComm(failed)>> ELSE file.communicators]
  BY DEF Recover, load
<1>3. /\ DOMAIN groups = Ranks /\ DOMAIN communicators = Ranks
      /\ groups[r] = <<WorldGroup>> /\ WorldFirst(communicators[r], r)
  BY DEF Steady, Shape, RankInv
<1>4. C # 0 /\ r = failed => GoodFile(r, C - 1, file)
  BY <1>1, RecoveryFile
<1> HIDE DEF file
<1>5. WorldFirst(<<WorldComm(r)>>, r)
  <2>1. <<WorldComm(r)>> \in Seq({WorldComm(r)})
    OBVIOUS
  <2> QED
    BY <2>1 DEF WorldFirst, Sequence, WorldComm
<1>6. groups'[r] = <<WorldGroup>> /\ WorldFirst(communicators'[r], r)
  <2>1. CASE r # failed
    BY <1>2, <1>3, <2>1
  <2>2. CASE r = failed /\ C = 0
    BY <1>2, <1>3, <1>5, <2>2
  <2>3. CASE r = failed /\ C # 0
    <3>1. groups'[r] = file.groups /\ communicators'[r] = file.communicators
      BY <1>2, <1>3, <2>3
    <3> QED
      BY <1>4, <2>3, <3>1 DEF GoodFile
  <2> QED
    BY <2>1, <2>2, <2>3
<1>7. groups'[r] = <<WorldGroup>>'
  BY <1>6 DEF WorldGroup
<1>8. WorldFirst(communicators[r], r)'
  BY <1>6 DEF WorldFirst, Sequence
<1> QED
  BY <1>2, <1>3, <1>7, <1>8

\* What remains of the messages is older than the common call.
LEMMA RecoveryMessages ==
    ASSUME WorldCalls, PoolInv, Steady, UNCHANGED world_size, Recover, ~disturbed', NEW C, C = Committed
    PROVE  /\ \A r \in Ranks : \A i \in DOMAIN Received(r)' :
                 /\ DOMAIN Received(r)' = DOMAIN Received(r)
                 /\ Received(r)' = Received(r)
                 /\ Received(r)[i].tag = 0 =>
                       \E s \in Ranks : GoodMessage(Received(r)[i], s) /\ Received(r)[i].epoch < C
           /\ \A s, r \in Ranks : \A i \in DOMAIN OnTheWay(s, r)' :
                 /\ OnTheWay(s, r)' = OnTheWay(s, r)
                 /\ GoodMessage(OnTheWay(s, r)[i], s) /\ OnTheWay(s, r)[i].epoch < C
<1>1. /\ C \in Nat /\ failed \in Ranks /\ \A r \in Ranks : C <= epoch[r]
      /\ \A r \in Survivors : ~Leftovers(r, C)
      /\ Shape /\ Ranks' = Ranks
  BY RecoveryEpoch DEF Steady, Ranks
<1>2. /\ received_header_queue' = [received_header_queue EXCEPT ![failed] = <<>>]
      /\ headers' = [headers EXCEPT ![failed] = NoMemory]
      /\ network' = [pair \in Ranks \X Ranks |-> IF pair[2] = failed THEN <<>> ELSE network[pair]]
  BY DEF Recover, load, RestartTransport
<1>3. DOMAIN headers = Ranks /\ DOMAIN received_header_queue = Ranks
  BY DEF PoolInv, RanksGood
<1>4. ASSUME NEW r \in Ranks, NEW i \in DOMAIN Received(r)'
      PROVE  /\ DOMAIN Received(r)' = DOMAIN Received(r)
             /\ Received(r)' = Received(r)
             /\ Received(r)[i].tag = 0 =>
                   \E s \in Ranks : GoodMessage(Received(r)[i], s) /\ Received(r)[i].epoch < C
  <2>1. r # failed
    BY <1>1, <1>2, <1>3, <1>4 DEF Received
  <2>2. Received(r)' = Received(r)
    BY <1>1, <1>2, <1>3, <2>1 DEF Received
  <2>3. ASSUME Received(r)[i].tag = 0
        PROVE  \E s \in Ranks : GoodMessage(Received(r)[i], s) /\ Received(r)[i].epoch < C
    <3>1. i \in DOMAIN Received(r)
      BY <1>4, <2>2
    <3>2. PICK s \in Ranks : GoodMessage(Received(r)[i], s)
      BY <2>3, <3>1 DEF Steady, QueueInv
    <3>3. ~(Received(r)[i].epoch >= C)
      BY <1>1, <2>1, <2>3, <3>1 DEF Leftovers, Survivors, MPIX_CLEANUP_TAG
    <3>4. Received(r)[i].epoch \in Nat
      <4>1. Received(r)[i].call \in Nat \ {0}
        BY <1>1, <3>2, WorldFacts DEF GoodMessage
      <4>2. Received(r)[i].call - 1 \in Nat
        BY <4>1
      <4> QED
        BY <3>2, <4>2, EpochType DEF GoodMessage
    <3> QED
      BY <1>1, <3>2, <3>3, <3>4
  <2> QED
    BY <2>2, <2>3
<1>5. ASSUME NEW s \in Ranks, NEW r \in Ranks, NEW i \in DOMAIN OnTheWay(s, r)'
      PROVE  /\ OnTheWay(s, r)' = OnTheWay(s, r)
             /\ GoodMessage(OnTheWay(s, r)[i], s) /\ OnTheWay(s, r)[i].epoch < C
  <2>1. r # failed
    BY <1>1, <1>2, <1>5 DEF OnTheWay
  <2>2. OnTheWay(s, r)' = OnTheWay(s, r)
    BY <1>1, <1>2, <2>1 DEF OnTheWay
  <2>3. i \in DOMAIN OnTheWay(s, r) /\ i \in DOMAIN network[<<s, r>>]
        /\ OnTheWay(s, r)[i] = network[<<s, r>>][i].header
    BY <1>5, <2>2 DEF OnTheWay
  <2>4. ~(OnTheWay(s, r)[i].epoch >= C)
    BY <1>1, <2>1, <2>3 DEF Leftovers, Survivors
  <2>5. PICK h : h = OnTheWay(s, r)[i]
    OBVIOUS
  <2>6. \/ GoodMessage(h, s)
        \/ h.tag = MPIX_CLEANUP_TAG /\ s = r /\ is_errSet[r] /\ h.epoch = epoch[r]
    BY <2>3, <2>5 DEF Steady, PairsInv, WireInv
  <2>7. epoch[r] \in Nat /\ C <= epoch[r]
    BY <1>1 DEF Shape
  <2>8. GoodMessage(h, s)
    BY <1>1, <2>4, <2>5, <2>6, <2>7
  <2>9. h.epoch \in Nat
    <3>1. h.call \in Nat \ {0}
      BY <1>1, <2>8, WorldFacts DEF GoodMessage
    <3>2. h.call - 1 \in Nat
      BY <3>1
    <3> QED
      BY <2>8, <3>2, EpochType DEF GoodMessage
  <2> QED
    BY <1>1, <2>2, <2>4, <2>5, <2>8, <2>9
<1> QED
  BY <1>4, <1>5

LEMMA RecoveryKeeps ==
    ASSUME WorldCalls, PoolInv, Steady, UNCHANGED world_size, Recover, ~disturbed'
    PROVE  Steady'
<1> SUFFICES ASSUME NEW C, C = Committed PROVE Steady'
  OBVIOUS
<1>1. /\ C \in Nat /\ failed \in Ranks /\ \A r \in Ranks : C <= epoch[r] /\ EpochAfter(r) = C
      /\ \A r \in Survivors : ~HandlesLost(r, C)
      /\ Shape /\ FaultInv /\ Ranks' = Ranks
  BY RecoveryEpoch DEF Steady, Ranks
<1>2. /\ failed # NoRank /\ \A r \in Survivors : is_errSet[r] /\ ~busy[r]
      /\ epoch' = [r \in Ranks |-> EpochAfter(r)]
      /\ handles' = [r \in Ranks |-> HandlesAfter(r, failed, EpochAfter(r))]
      /\ count' = [r \in Ranks |-> CountAfter(r, EpochAfter(r))]
      /\ is_errSet' = [r \in Ranks |-> FALSE]
      /\ failed' = NoRank /\ files' = files
      /\ UNCHANGED <<calls, busy, plan, restarts>>
  BY DEF Recover, load
<1>3. PICK c \in Nat : /\ c <= Len(calls) /\ EpochOf(calls, c) = C
                       /\ \A j \in Nat : EpochOf(calls, j) >= C <=> j >= c
                       /\ \A r \in Ranks : CountAfter(r, C) = c
  BY <1>1, RecoveryCount
<1>4. \A r \in Ranks : ~busy[r] /\ plan[r] = <<>>
  BY <1>1, <1>2 DEF FaultInv, Survivors, Steady, RankInv
<1>5. \A r \in Ranks : epoch'[r] = C /\ count'[r] = c /\ ~is_errSet'[r] /\ ~busy'[r] /\ plan'[r] = <<>>
  BY <1>1, <1>2, <1>3, <1>4
<1>6. \A r \in Ranks : WorldHandle(handles'[r])
  <2>1. ASSUME NEW r \in Ranks PROVE WorldHandle(HandlesAfter(r, failed, C))
    BY <1>1, RecoveryHandles DEF Survivors
  <2> QED
    BY <1>1, <1>2, <2>1
<1>7. \A r \in Ranks : /\ groups'[r] = <<WorldGroup>>' /\ WorldFirst(communicators[r], r)'
                       /\ DOMAIN groups' = Ranks /\ DOMAIN communicators' = Ranks
  BY RecoveryComms
<1>8. Shape'
  <2>1. /\ count' \in [Ranks -> Nat] /\ epoch' \in [Ranks -> Nat] /\ is_errSet' \in [Ranks -> BOOLEAN]
    BY <1>1, <1>2, <1>3
  <2>2. DOMAIN handles' = Ranks /\ DOMAIN groups' = Ranks /\ DOMAIN communicators' = Ranks
    BY <1>1, <1>2, <1>7
  <2> QED
    BY <1>1, <1>2, <2>1, <2>2 DEF Shape, NoRank
<1>9. FaultInv'
  BY <1>1, <1>2 DEF FaultInv, NoRank
<1>10. Rigid
  BY <1>2 DEF Rigid
<1>11. ASSUME NEW r \in Ranks PROVE RankInv(r)'
  <2>1. FilesInv(r)'
    <3>1. FilesInv(r) /\ epoch[r] \in Nat
      BY <1>1 DEF Steady, RankInv, Shape
    <3>2. 0..(epoch'[r] - 1) \subseteq DOMAIN files'[r]
      BY <1>1, <1>2, <1>5, <3>1 DEF FilesInv
    <3>3. \A k \in DOMAIN files'[r] : GoodFile(r, k, files'[r][k])
      BY <1>2, <3>1 DEF FilesInv
    <3> QED
      BY <1>10, <3>2, <3>3, FilesFrom
  <2>2. WorldHandle(handles[r])'
    BY <1>6 DEF WorldHandle, Sequence, MPI_COMM_WORLD
  <2>3. count'[r] <= Len(calls') /\ epoch'[r] = EpochOf(calls', count'[r])
    BY <1>2, <1>3, <1>5
  <2> QED
    BY <1>5, <1>7, <2>1, <2>2, <2>3 DEF RankInv
<1>12. ASSUME NEW s \in Ranks, NEW h, GoodMessage(h, s), h.epoch < C
       PROVE  GoodMessage(h, s)' /\ h.call <= c
  <2>1. h.call \in Nat \ {0} /\ h.epoch = EpochOf(calls, h.call - 1)
    BY <1>1, <1>12, WorldFacts DEF GoodMessage
  <2>2. h.call - 1 \in Nat
    BY <2>1
  <2>3. EpochOf(calls, h.call - 1) \in Nat
    BY <2>2, EpochType
  <2>4. ~(h.call - 1 >= c)
    BY <1>1, <1>3, <1>12, <2>1, <2>2, <2>3
  <2>5. h.call <= c /\ h.call <= c + 1
    BY <1>3, <2>1, <2>4
  <2>6. count'[s] = c /\ calls' = calls
    BY <1>2, <1>5
  <2> QED
    BY <1>12, <2>5, <2>6 DEF GoodMessage
<1>13. ASSUME NEW r \in Ranks PROVE QueueInv(r)'
  <2>1. ASSUME NEW i \in DOMAIN Received(r)', Received(r)'[i].tag = 0
        PROVE  \E s \in Ranks : GoodMessage(Received(r)[i], s)'
    <3>1. Received(r)' = Received(r)
      BY <2>1, RecoveryMessages
    <3>2. PICK s \in Ranks : GoodMessage(Received(r)[i], s) /\ Received(r)[i].epoch < C
      BY <2>1, <3>1, RecoveryMessages
    <3>3. PICK h : h = Received(r)[i]
      OBVIOUS
    <3>4. GoodMessage(h, s)'
      BY <1>12, <3>2, <3>3
    <3> QED
      BY <3>1, <3>3, <3>4 DEF GoodMessage
  <2> QED
    BY <1>1, <2>1 DEF QueueInv
<1>14. ASSUME NEW s \in Ranks, NEW r \in Ranks PROVE WireInv(s, r)' /\ OrderInv(s, r)'
  <2>1. ASSUME NEW i \in DOMAIN OnTheWay(s, r)' PROVE GoodMessage(OnTheWay(s, r)[i], s)'
    <3>1. OnTheWay(s, r)' = OnTheWay(s, r)
      BY <2>1, RecoveryMessages
    <3>2. GoodMessage(OnTheWay(s, r)[i], s) /\ OnTheWay(s, r)[i].epoch < C
      BY <2>1, RecoveryMessages
    <3>3. PICK h : h = OnTheWay(s, r)[i]
      OBVIOUS
    <3>4. GoodMessage(h, s)'
      BY <1>12, <3>2, <3>3
    <3> QED
      BY <3>1, <3>3, <3>4 DEF GoodMessage
  <2>2. WireInv(s, r)'
    BY <2>1 DEF WireInv
  <2>3. OrderInv(s, r)'
    <3>1. OrderInv(s, r)
      BY DEF Steady, PairsInv
    <3>2. InOrder(Received(r), s)'
      <4>1. CASE DOMAIN Received(r)' = {}
        BY <4>1 DEF InOrder
      <4>2. CASE DOMAIN Received(r)' # {}
        <5>1. Received(r)' = Received(r)
          BY <4>2, RecoveryMessages
        <5> QED
          BY <3>1, <5>1 DEF InOrder, OrderInv
      <4> QED
        BY <4>1, <4>2
    <3>3. InOrder(OnTheWay(s, r), s)'
      <4>1. CASE DOMAIN OnTheWay(s, r)' = {}
        BY <4>1 DEF InOrder
      <4>2. CASE DOMAIN OnTheWay(s, r)' # {}
        <5>1. OnTheWay(s, r)' = OnTheWay(s, r)
          BY <4>2, RecoveryMessages
        <5> QED
          BY <3>1, <5>1 DEF InOrder, OrderInv
      <4> QED
        BY <4>1, <4>2
    <3>4. ASSUME NEW i \in DOMAIN Received(r)', NEW k \in DOMAIN OnTheWay(s, r)',
                 Received(r)'[i].tag = 0, OnTheWay(s, r)'[k].tag = 0, Received(r)'[i].source = s
          PROVE  Received(r)'[i].call <= OnTheWay(s, r)'[k].call
      <4>1. Received(r)' = Received(r) /\ OnTheWay(s, r)' = OnTheWay(s, r)
        BY <3>4, RecoveryMessages
      <4> QED
        BY <3>1, <3>4, <4>1 DEF OrderInv
    <3> QED
      BY <3>2, <3>3, <3>4 DEF OrderInv
  <2> QED
    BY <2>2, <2>3
<1>15. ASSUME NEW s \in Ranks, NEW r \in Ranks, NEW j \in DOMAIN calls PROVE PairAt(s, r, j)'
  <2>1. j \in Nat \ {0}
    BY <1>1, WorldFacts
  <2>2. /\ SentTotal(s, r, j)' = SentTotal(s, r, j) /\ TakenTotal(r, s, j)' = TakenTotal(r, s, j)
        /\ SentTotal(s, r, j) = TakenTotal(r, s, j) /\ SentTotal(s, r, j) \in Nat
    BY <1>1, <1>10, RigidFacts, PlanFacts
  <2>3. /\ Sent(s, r, j)' = IF j <= c THEN SentTotal(s, r, j) ELSE 0
        /\ Taken(r, s, j)' = IF j <= c THEN SentTotal(s, r, j) ELSE 0
    BY <1>5, <2>2 DEF Sent, Taken
  <2>4. ~Stopped(s)'
    BY <1>1, <1>2, <1>5, WorldFacts DEF Stopped
  <2>5. ASSUME Live(r, j)' PROVE Pending(s, r, j)' = 0 /\ Taken(r, s, j)' = 0 /\ Sent(s, r, j)' = 0
    <3>1. restarts' # 0
      BY <1>1, <1>2 DEF FaultInv
    <3>2. EpochOf(calls, j - 1) >= C
      BY <1>2, <1>5, <2>5, <3>1 DEF Live
    <3>3. j - 1 \in Nat
      BY <2>1
    <3>4. j > c
      BY <1>3, <2>1, <3>2, <3>3
    <3>5. Hits(Received(r), s, j)' = {}
      <4>1. ASSUME NEW i \in DOMAIN Received(r)', Received(r)'[i].tag = 0
            PROVE  Received(r)'[i].call # j
        <5>1. Received(r)' = Received(r)
          BY <4>1, RecoveryMessages
        <5>2. PICK x \in Ranks : GoodMessage(Received(r)[i], x) /\ Received(r)[i].epoch < C
          BY <4>1, <5>1, RecoveryMessages
        <5>3. PICK h : h = Received(r)[i]
          OBVIOUS
        <5>4. h.call <= c
          BY <1>12, <5>2, <5>3
        <5> QED
          BY <1>3, <2>1, <3>4, <5>1, <5>3, <5>4
      <4> QED
        BY <4>1 DEF Hits
    <3>6. Hits(OnTheWay(s, r), s, j)' = {}
      <4>1. ASSUME NEW i \in DOMAIN OnTheWay(s, r)' PROVE OnTheWay(s, r)'[i].call # j
        <5>1. OnTheWay(s, r)' = OnTheWay(s, r)
          BY <4>1, RecoveryMessages
        <5>2. GoodMessage(OnTheWay(s, r)[i], s) /\ OnTheWay(s, r)[i].epoch < C
          BY <4>1, RecoveryMessages
        <5>3. PICK h : h = OnTheWay(s, r)[i]
          OBVIOUS
        <5>4. h.call <= c
          BY <1>12, <5>2, <5>3
        <5> QED
          BY <1>3, <2>1, <3>4, <5>1, <5>3, <5>4
      <4> QED
        BY <4>1 DEF Hits
    <3>7. Pending(s, r, j)' = 0
      BY <3>5, <3>6, FS_EmptySet DEF Pending
    <3> QED
      BY <1>3, <2>1, <2>3, <3>4, <3>7
  <2>6. Taken(r, s, j)' <= Sent(s, r, j)'
    BY <2>2, <2>3
  <2> QED
    BY <2>4, <2>5, <2>6 DEF PairAt
<1>16. PairsInv'
  <2>1. ASSUME NEW s \in Ranks, NEW r \in Ranks PROVE PairInv(s, r)'
    BY <1>2, <1>15 DEF PairInv
  <2> QED
    BY <1>1, <1>14, <2>1 DEF PairsInv
<1> QED
  BY <1>1, <1>8, <1>9, <1>11, <1>13, <1>16 DEF Steady

(***************************************************************************)
(* The invariant holds initially, every step preserves it, and it implies  *)
(* the property.                                                           *)
(***************************************************************************)
LEMMA CallStart == Init => (WorldCalls => CallInv)
<1> SUFFICES ASSUME Init, WorldCalls PROVE Steady
  BY DEF CallInv
<1>1. /\ world_size \in Sizes /\ calls \in Programs(world_size)
      /\ count = [r \in Ranks |-> 0] /\ busy = [r \in Ranks |-> FALSE]
      /\ plan = [r \in Ranks |-> <<>>] /\ epoch = [r \in Ranks |-> 0]
      /\ received_header_queue = [r \in Ranks |-> <<>>] /\ is_errSet = [r \in Ranks |-> FALSE]
      /\ failed = NoRank /\ restarts = 0
      /\ network = [pair \in Ranks \X Ranks |-> <<>>]
      /\ groups = [r \in Ranks |-> <<WorldGroup>>]
      /\ communicators = [r \in Ranks |-> <<WorldComm(r)>>]
      /\ handles = [r \in Ranks |-> <<MPI_COMM_WORLD>>]
      /\ files = [r \in Ranks |-> [k \in {} |-> 0]]
  BY DEF Init, UniverseInit, TransportInit, CommInit, CheckpointInit
<1>2. Shape
  <2>1. <<>> \in Seq(Steps(world_size))
    OBVIOUS
  <2> QED
    BY <1>1, <2>1 DEF Shape
<1>3. FaultInv
  BY <1>1 DEF FaultInv
<1>4. ASSUME NEW r \in Ranks PROVE RankInv(r) /\ QueueInv(r)
  <2>1. Sequence(communicators[r]) /\ Sequence(handles[r])
    <3>1. <<WorldComm(r)>> \in Seq({WorldComm(r)}) /\ <<MPI_COMM_WORLD>> \in Seq({MPI_COMM_WORLD})
      OBVIOUS
    <3> QED
      BY <1>1, <3>1 DEF Sequence
  <2>2. WorldFirst(communicators[r], r) /\ WorldHandle(handles[r])
    BY <1>1, <2>1 DEF WorldFirst, WorldHandle, WorldComm
  <2>3. FilesInv(r)
    BY <1>1 DEF FilesInv
  <2>4. count[r] <= Len(calls) /\ epoch[r] = EpochOf(calls, count[r])
    BY <1>1, <1>2, WorldFacts, EpochZero
  <2>5. RankInv(r)
    BY <1>1, <2>2, <2>3, <2>4 DEF RankInv
  <2>6. QueueInv(r)
    BY <1>1 DEF QueueInv, Received
  <2> QED
    BY <2>5, <2>6
<1>5. ASSUME NEW s \in Ranks, NEW r \in Ranks PROVE WireInv(s, r) /\ OrderInv(s, r) /\ PairInv(s, r)
  <2>1. DOMAIN OnTheWay(s, r) = {} /\ DOMAIN Received(r) = {}
    BY <1>1 DEF OnTheWay, Received
  <2>2. WireInv(s, r) /\ OrderInv(s, r)
    BY <2>1 DEF WireInv, OrderInv, InOrder
  <2>3. ASSUME NEW j \in DOMAIN calls PROVE PairAt(s, r, j)
    <3>1. Pending(s, r, j) = 0
      <4>1. Hits(Received(r), s, j) = {} /\ Hits(OnTheWay(s, r), s, j) = {}
        BY <2>1 DEF Hits
      <4> QED
        BY <4>1, FS_EmptySet DEF Pending
    <3>2. j \in Nat \ {0}
      BY <1>2, WorldFacts
    <3>3. Sent(s, r, j) = 0 /\ Taken(r, s, j) = 0
      BY <1>1, <3>2 DEF Sent, Taken
    <3>4. ~Stopped(s)
      BY <1>1, <1>2, WorldFacts DEF Stopped
    <3> QED
      BY <3>1, <3>3, <3>4 DEF PairAt
  <2> QED
    BY <2>2, <2>3 DEF PairInv
<1> QED
  BY <1>2, <1>3, <1>4, <1>5 DEF Steady, PairsInv

LEMMA NothingKeeps ==
    ASSUME WorldCalls, PoolInv, Steady, UNCHANGED vars
    PROVE  Steady'
<1>1. Shape /\ FaultInv /\ Ranks' = Ranks
  BY DEF Steady, Ranks, vars
<1>2. /\ UNCHANGED <<world_size, calls, count, busy, plan, memory>>
      /\ UNCHANGED <<epoch, received_header_queue, is_errSet, failed, restarts>>
      /\ UNCHANGED <<network, headers, groups, communicators, handles, files>>
  BY DEF vars, callVars, faultVars, transportVars, poolVars, commVars, checkpointVars
<1>3. Shape' /\ FaultInv'
  BY <1>1, <1>2 DEF Shape, FaultInv, NoRank
<1>4. \A q \in Ranks : count[q] \in Nat /\ epoch[q] \in Nat
  BY <1>1 DEF Shape
<1>5. Onward
  BY <1>2, <1>4 DEF Onward, Rigid, Stopped
<1>6. Rigid /\ \A q \in Ranks : RankSame(q)
  BY <1>2 DEF Rigid, RankSame, CountsSame
<1>7. \A q \in Ranks : RankInv(q)'
  BY <1>6, RankKeptHere DEF Steady
<1>8. QueuesSame /\ WiresSame
  BY <1>2, QueuesKept, WiresKept
<1>9. ASSUME NEW q \in Ranks, NEW x \in Ranks, NEW j \in DOMAIN calls
      PROVE  Taken(q, x, j)' = Taken(q, x, j) /\ Sent(q, x, j)' = Sent(q, x, j)
  BY <1>6, CountsKept DEF RankSame
<1>10. PairsInv'
  BY <1>3, <1>5, <1>8, <1>9, PairsStay
<1>11. \A q \in Ranks : QueueInv(q)'
  BY <1>3, <1>5, <1>8, NoneMoves
<1> QED
  BY <1>1, <1>3, <1>7, <1>10, <1>11 DEF Steady

LEMMA CallStep ==
    PoolInv /\ LeftInv /\ (WorldCalls => CallInv) /\ [Next]_vars => (WorldCalls => CallInv)'
<1> SUFFICES ASSUME PoolInv, LeftInv, WorldCalls => CallInv, [Next]_vars, WorldCalls', ~disturbed'
             PROVE  Steady'
  BY DEF CallInv
<1>1. UNCHANGED <<world_size, calls>>
  <2>1. ASSUME NEW r \in Ranks, User(r) PROVE calls' = calls
    BY <2>1 DEF User, Enter, MPI_Send, MPI_Recv, Return, setErr, Abort, callVars
  <2>2. ASSUME NEW r \in Ranks, ProgressThread(r) PROVE calls' = calls
    BY <2>2 DEF ProgressThread, post_header, match_abandoned, handle_request, callVars
  <2>3. Recover => calls' = calls
    BY DEF Recover
  <2>4. ASSUME NEW r \in Ranks, Fail(r) PROVE calls' = calls
    BY <2>4 DEF Fail
  <2> QED
    BY <2>1, <2>2, <2>3, <2>4 DEF Next, Work, Failure, vars, callVars
<1>2. WorldCalls
  <2>1. \A k \in DOMAIN calls' : calls'[k].comm = 1 /\ Fits(world_size', calls'[k])
    BY DEF WorldCalls, Fits, WorldPlan, Steps
  <2> QED
    BY <1>1, <2>1 DEF WorldCalls
<1>3. ~disturbed
  <2>1. ASSUME NEW r \in Ranks, User(r) PROVE disturbed' = disturbed
    BY <2>1 DEF User, Enter, MPI_Send, MPI_Recv, Return, setErr, Abort, faultVars
  <2>2. ASSUME NEW r \in Ranks, ProgressThread(r) PROVE disturbed' = disturbed
    BY <2>2 DEF ProgressThread, post_header, match_abandoned, handle_request, faultVars
  <2>3. Recover => ~disturbed
    BY DEF Recover
  <2>4. ASSUME NEW r \in Ranks, Fail(r) PROVE disturbed' = disturbed
    BY <2>4 DEF Fail
  <2> QED
    BY <2>1, <2>2, <2>3, <2>4 DEF Next, Work, Failure, vars, faultVars
<1>4. Steady
  BY <1>2, <1>3 DEF CallInv
<1>5. ASSUME UNCHANGED world_size, NEW r \in Ranks, User(r) PROVE Steady'
  BY <1>2, <1>4, <1>5, EnterKeeps, SendStepKeeps, RecvStepKeeps, ReturnKeeps, SetErrKeeps,
     AbortKeeps DEF User
<1>6. ASSUME UNCHANGED world_size, NEW r \in Ranks, ProgressThread(r) PROVE Steady'
  <2>1. CASE handle_request(r)
    <3>1. is_errSet[r]
      BY <1>3, <2>1, LeftFacts
    <3> QED
      BY <2>1, <3>1 DEF handle_request
  <2> QED
    BY <1>2, <1>3, <1>4, <1>6, <2>1, PostKeeps, AbandonedStepKeeps DEF ProgressThread
<1>7. ASSUME UNCHANGED world_size, NEW r \in Ranks, Fail(r) PROVE Steady'
  BY <1>2, <1>4, <1>7, FailKeeps
<1>8. CASE Work /\ UNCHANGED world_size
  BY <1>2, <1>4, <1>5, <1>6, <1>8, RecoveryKeeps DEF Work
<1>9. CASE Failure /\ UNCHANGED world_size
  BY <1>7, <1>9 DEF Failure
<1>10. CASE UNCHANGED vars
  BY <1>2, <1>4, <1>10, NothingKeeps
<1> QED
  BY <1>8, <1>9, <1>10 DEF Next

LEMMA CallInvariant == Spec => []PoolInv /\ []LeftInv /\ [](WorldCalls => CallInv)
<1> QED
  BY PoolInit, PoolStep, LeftStart, LeftStep, CallStart, CallStep, PTL DEF Spec

\* Calls on the world do not take each other's messages, for every program of such calls
\* whose schedules fit, every number of ranks, and every number of failures: what MPI_Recv
\* finds on a rank that is not told of a failure belongs to its own call, unless a recovery
\* was disturbed, by a message, a receive or a send that an interrupted call has left.
THEOREM WorldCallsDoNotMix == Spec => [](WorldCalls => CallsDoNotMix)
<1>1. PoolInv /\ (WorldCalls => CallInv) => (WorldCalls => CallsDoNotMix)
  <2> SUFFICES ASSUME PoolInv, WorldCalls => CallInv, WorldCalls, ~disturbed, NEW r \in Ranks,
                      NextIs(r, Receives), ~is_errSet[r], Matching(r)
               PROVE  Received(r)[Position(r)].call = count[r] + 1
    BY DEF CallsDoNotMix
  <2>1. Steady
    BY DEF CallInv
  <2>2. PICK h, s : h = Received(r)[Position(r)] /\ s = Head(plan[r]).peer
    OBVIOUS
  <2> QED
    BY <2>1, <2>2, FoundOwn
<1> QED
  BY <1>1, CallInvariant, PTL

(***************************************************************************)
(* MPI_Barrier. Every rank receives from the previous one in the ring, and *)
(* sends to the next. But for rank 0, a rank has sent no more than it has  *)
(* received; rank 0 has sent at most one message more.                     *)
(***************************************************************************)
Previous(n, r) == IF r = 0 THEN n - 1 ELSE r - 1
Following(n, r) == IF r = n - 1 THEN 0 ELSE r + 1

LEMMA RingFacts ==
    ASSUME NEW n \in Nat \ {0}, NEW r \in 0..(n - 1)
    PROVE  /\ Right(World(n, r)) = Following(n, r) /\ Left(World(n, r)) = Previous(n, r)
           /\ Previous(n, r) \in 0..(n - 1) /\ Following(n, r) \in 0..(n - 1)
           /\ Following(n, Previous(n, r)) = r /\ Previous(n, Following(n, r)) = r
<1>1. Following(n, r) \in 0..(n - 1) /\ Previous(n, r) \in 0..(n - 1)
  BY DEF Following, Previous
<1>2. (r + 1) % n = Following(n, r)
  BY DEF Following
<1>3. (r + n - 1) % n = Previous(n, r)
  <2>1. CASE r = 0
    <3>1. r + n - 1 = n - 1 /\ n - 1 \in 0..(n - 1)
      BY <2>1
    <3>2. (n - 1) % n = n - 1
      BY <3>1
    <3> QED
      BY <2>1, <3>1, <3>2 DEF Previous
  <2>2. CASE r # 0
    <3>1. r + n - 1 = (r - 1) + n /\ r - 1 \in 0..(n - 1)
      BY <2>2
    <3>2. ((r - 1) + n) % n = r - 1
      BY <3>1
    <3> QED
      BY <2>2, <3>1, <3>2 DEF Previous
  <2> QED
    BY <2>1, <2>2
<1>4. Following(n, Previous(n, r)) = r /\ Previous(n, Following(n, r)) = r
  BY DEF Following, Previous
<1> QED
  BY <1>1, <1>2, <1>3, <1>4 DEF Right, Left, World

LEMMA TwiceTwo ==
    ASSUME NEW S, NEW a \in S, NEW b \in S, NEW q, q = <<a>> \o <<b>>, NEW p, p = q \o q
    PROVE  p \in Seq(S) /\ Len(p) = 4 /\ p[1] = a /\ p[2] = b /\ p[3] = a /\ p[4] = b
<1>1. <<a>> \in Seq(S) /\ <<b>> \in Seq(S)
  OBVIOUS
<1>2. q \in Seq(S) /\ Len(q) = 2
  BY <1>1
<1>3. q[1] = a
  BY <1>1
<1>4. q[2] = b
  BY <1>1
<1>5. p \in Seq(S) /\ Len(p) = 4
  BY <1>2
<1>6. p[1] = q[1] /\ p[2] = q[2]
  BY <1>2
<1>7. p[3] = q[1] /\ p[4] = q[2]
  BY <1>2
<1> QED
  BY <1>3, <1>4, <1>5, <1>6, <1>7

TakesTurns(p, n, r) ==
    /\ Len(p) = 4 /\ DOMAIN p = 1..4
    /\ \A i \in 1..4 : \/ p[i].operation = "Send" /\ p[i].peer = Following(n, r)
                       \/ p[i].operation = "Receive" /\ p[i].peer = Previous(n, r)
    /\ r = 0 => /\ p[1].operation = "Send" /\ p[2].operation = "Receive"
                /\ p[3].operation = "Send" /\ p[4].operation = "Receive"
    /\ r # 0 => /\ p[1].operation = "Receive" /\ p[2].operation = "Send"
                /\ p[3].operation = "Receive" /\ p[4].operation = "Send"

LEMMA BarrierPlan ==
    ASSUME NEW n \in Nat \ {0}, NEW r \in 0..(n - 1), NEW call, call.name = "MPI_Barrier",
           NEW p, p = WorldPlan(n, r, call)
    PROVE  p \in Seq(Steps(n)) /\ TakesTurns(p, n, r)
<1> SUFFICES /\ p \in Seq(Steps(n)) /\ Len(p) = 4 /\ DOMAIN p = 1..4
             /\ \A i \in 1..4 : \/ p[i].operation = "Send" /\ p[i].peer = Following(n, r)
                                \/ p[i].operation = "Receive" /\ p[i].peer = Previous(n, r)
             /\ r = 0 => /\ p[1].operation = "Send" /\ p[2].operation = "Receive"
                         /\ p[3].operation = "Send" /\ p[4].operation = "Receive"
             /\ r # 0 => /\ p[1].operation = "Receive" /\ p[2].operation = "Send"
                         /\ p[3].operation = "Receive" /\ p[4].operation = "Send"
  BY DEF TakesTurns
<1> DEFINE me == World(n, r)
           send == Send(Right(me), me, "msg")
           recv == Recv(Left(me), me, "msg")
<1>1. /\ send.operation = "Send" /\ send.peer = Following(n, r)
      /\ recv.operation = "Receive" /\ recv.peer = Previous(n, r)
  BY RingFacts DEF Send, Recv, Operation
<1>2. send \in Steps(n) /\ recv \in Steps(n)
  BY RingFacts DEF Send, Recv, Operation, Steps, SendOperations, Receives, World
<1>3. p = Round(me) \o Round(me)
  BY DEF WorldPlan, Schedule, MPI_Barrier
<1>4. me.rank = r
  BY DEF World
<1>5. Round(me) = IF r = 0 THEN <<send>> \o <<recv>> ELSE <<recv>> \o <<send>>
  BY <1>4 DEF Round
<1> HIDE DEF send, recv, me
<1>6. CASE r = 0
  <2>1. p = (<<send>> \o <<recv>>) \o (<<send>> \o <<recv>>)
    BY <1>3, <1>5, <1>6
  <2>2. /\ p \in Seq(Steps(n)) /\ Len(p) = 4
        /\ p[1] = send /\ p[2] = recv /\ p[3] = send /\ p[4] = recv
    BY <1>2, <2>1, TwiceTwo
  <2> QED
    BY <1>1, <1>6, <2>2
<1>7. CASE r # 0
  <2>1. p = (<<recv>> \o <<send>>) \o (<<recv>> \o <<send>>)
    BY <1>3, <1>5, <1>7
  <2>2. /\ p \in Seq(Steps(n)) /\ Len(p) = 4
        /\ p[1] = recv /\ p[2] = send /\ p[3] = recv /\ p[4] = send
    BY <1>2, <2>1, TwiceTwo
  <2> QED
    BY <1>1, <1>7, <2>2
<1> QED
  BY <1>6, <1>7

LEMMA TwoElements == Cardinality({1, 3}) = 2 /\ Cardinality({2, 4}) = 2
<1>1. IsFiniteSet({1}) /\ IsFiniteSet({2}) /\ Cardinality({1}) = 1 /\ Cardinality({2}) = 1
  BY FS_Singleton
<1>2. {1, 3} = {1} \cup {3} /\ {2, 4} = {2} \cup {4} /\ 3 \notin {1} /\ 4 \notin {2}
  OBVIOUS
<1>3. Cardinality({1} \cup {3}) = 2 /\ Cardinality({2} \cup {4}) = 2
  BY <1>1, <1>2, FS_AddElement
<1> QED
  BY <1>2, <1>3

\* A barrier sends and receives twice.
LEMMA BarrierTotals ==
    ASSUME NEW n \in Nat \ {0}, NEW r \in 0..(n - 1), NEW call, call.name = "MPI_Barrier",
           NEW p, p = WorldPlan(n, r, call), NEW x
    PROVE  /\ Cardinality(Sends(p, x)) = IF x = Following(n, r) THEN 2 ELSE 0
           /\ Cardinality(Receipts(p, x)) = IF x = Previous(n, r) THEN 2 ELSE 0
<1>1. /\ DOMAIN p = 1..4
      /\ \A i \in 1..4 : \/ p[i].operation = "Send" /\ p[i].peer = Following(n, r)
                         \/ p[i].operation = "Receive" /\ p[i].peer = Previous(n, r)
      /\ r = 0 => /\ p[1].operation = "Send" /\ p[2].operation = "Receive"
                  /\ p[3].operation = "Send" /\ p[4].operation = "Receive"
      /\ r # 0 => /\ p[1].operation = "Receive" /\ p[2].operation = "Send"
                  /\ p[3].operation = "Receive" /\ p[4].operation = "Send"
  <2>1. TakesTurns(p, n, r)
    BY BarrierPlan
  <2> QED
    BY <2>1 DEF TakesTurns
<1>2. 1..4 = {1, 2, 3, 4}
  OBVIOUS
<1>3. x # Following(n, r) => Sends(p, x) = {}
  BY <1>1 DEF Sends, SendOperations
<1>4. x # Previous(n, r) => Receipts(p, x) = {}
  BY <1>1 DEF Receipts, Receives
<1>5. x = Following(n, r) => Sends(p, x) = {1, 3} \/ Sends(p, x) = {2, 4}
  BY <1>1, <1>2 DEF Sends, SendOperations
<1>6. x = Previous(n, r) => Receipts(p, x) = {1, 3} \/ Receipts(p, x) = {2, 4}
  BY <1>1, <1>2 DEF Receipts, Receives
<1> QED
  BY <1>3, <1>4, <1>5, <1>6, TwoElements, FS_EmptySet

\* Sends and receives take turns in what is left of it.
LEMMA BarrierRest ==
    ASSUME NEW n \in Nat \ {0}, NEW r \in 0..(n - 1), NEW call, call.name = "MPI_Barrier",
           NEW p \in Seq(Steps(n)), Rest(p, WorldPlan(n, r, call))
    PROVE  LET s == Cardinality(Sends(p, Following(n, r)))
               t == Cardinality(Receipts(p, Previous(n, r)))
           IN  s \in Nat /\ t \in Nat /\ (r # 0 => t <= s) /\ (r = 0 => t <= s + 1)
<1> SUFFICES ASSUME NEW whole, whole = WorldPlan(n, r, call),
                    NEW A, A = Sends(p, Following(n, r)),
                    NEW B, B = Receipts(p, Previous(n, r))
             PROVE  /\ Cardinality(A) \in Nat /\ Cardinality(B) \in Nat
                    /\ r # 0 => Cardinality(B) <= Cardinality(A)
                    /\ r = 0 => Cardinality(B) <= Cardinality(A) + 1
  OBVIOUS
<1>1. /\ Len(whole) = 4 /\ DOMAIN whole = 1..4
      /\ \A i \in 1..4 : \/ whole[i].operation = "Send" /\ whole[i].peer = Following(n, r)
                         \/ whole[i].operation = "Receive" /\ whole[i].peer = Previous(n, r)
      /\ r = 0 => /\ whole[1].operation = "Send" /\ whole[2].operation = "Receive"
                  /\ whole[3].operation = "Send" /\ whole[4].operation = "Receive"
      /\ r # 0 => /\ whole[1].operation = "Receive" /\ whole[2].operation = "Send"
                  /\ whole[3].operation = "Receive" /\ whole[4].operation = "Send"
  <2>1. TakesTurns(whole, n, r)
    BY BarrierPlan
  <2> QED
    BY <2>1 DEF TakesTurns
<1>2. PICK d \in 0..4 : Len(p) = 4 - d /\ \A i \in 1..Len(p) : p[i] = whole[i + d]
  BY <1>1 DEF Rest
<1>3. DOMAIN p = 1..(4 - d)
  BY <1>2
<1>4. /\ A \in SUBSET (1..(4 - d)) /\ B \in SUBSET (1..(4 - d))
      /\ \A i \in 1..(4 - d) : i \in A <=> whole[i + d].operation = "Send"
      /\ \A i \in 1..(4 - d) : i \in B <=> whole[i + d].operation = "Receive"
  <2>1. \A i \in 1..(4 - d) : i + d \in 1..4 /\ p[i] = whole[i + d]
    BY <1>2
  <2>2. /\ "Send" \in SendOperations /\ "Send" \notin Receives
        /\ "Receive" \in Receives /\ "Receive" \notin SendOperations
    BY DEF SendOperations, Receives
  <2>3. ASSUME NEW i \in 1..(4 - d)
        PROVE  /\ i \in A <=> whole[i + d].operation = "Send"
               /\ i \in B <=> whole[i + d].operation = "Receive"
    <3>1. PICK k \in 1..4 : k = i + d /\ p[i] = whole[k]
      BY <2>1
    <3>2. CASE whole[k].operation = "Send" /\ whole[k].peer = Following(n, r)
      BY <1>3, <2>2, <3>1, <3>2 DEF Sends, Receipts
    <3>3. CASE whole[k].operation = "Receive" /\ whole[k].peer = Previous(n, r)
      BY <1>3, <2>2, <3>1, <3>3 DEF Sends, Receipts
    <3> QED
      BY <1>1, <3>2, <3>3
  <2> QED
    BY <1>3, <2>3 DEF Sends, Receipts
<1>5. IsFiniteSet(A) /\ IsFiniteSet(B)
  <2>1. IsFiniteSet(1..(4 - d))
    BY FS_Interval
  <2> QED
    BY <1>4, <2>1, FS_Subset
<1>6. Cardinality(A) \in Nat /\ Cardinality(B) \in Nat
  BY <1>5, FS_CardinalityType
<1>7. ASSUME r # 0 PROVE Cardinality(B) <= Cardinality(A)
  <2> DEFINE f == [i \in B |-> i + 1]
  <2>1. f \in Injection(B, A)
    <3>1. ASSUME NEW i \in B PROVE i + 1 \in A
      BY <1>1, <1>4, <1>7
    <3> QED
      BY <1>4, <3>1 DEF Injection, IsInjective
  <2> HIDE DEF f
  <2> QED
    BY <1>5, <2>1, FS_Injection
<1>8. ASSUME r = 0 PROVE Cardinality(B) <= Cardinality(A) + 1
  <2> DEFINE f == [i \in B |-> i - 1]
  <2>1. f \in Injection(B, A \cup {0})
    <3>1. ASSUME NEW i \in B, i # 1 PROVE i - 1 \in A
      <4>1. /\ i - 1 \in 1..(4 - d) /\ (i - 1) + d = (i + d) - 1 /\ i + d \in 2..4
            /\ whole[i + d].operation = "Receive"
        BY <1>4, <3>1
      <4>2. whole[(i - 1) + d].operation = "Send"
        BY <1>1, <1>8, <4>1
      <4> QED
        BY <1>4, <4>1, <4>2
    <3> QED
      BY <1>4, <3>1 DEF Injection, IsInjective
  <2>2. 0 \notin A
    BY <1>4
  <2>3. IsFiniteSet(A \cup {0}) /\ Cardinality(A \cup {0}) = Cardinality(A) + 1
    BY <1>5, <2>2, FS_AddElement
  <2> HIDE DEF f
  <2> QED
    BY <1>5, <2>1, <2>3, FS_Injection
<1> QED
  BY <1>6, <1>7, <1>8

\* How far a rank is in a barrier.
LEMMA BarrierCounts ==
    ASSUME WorldCalls, Steady, NEW r \in Ranks, NEW k \in DOMAIN calls,
           calls[k].name = "MPI_Barrier",
           NEW u, u = Sent(r, Following(world_size, r), k),
           NEW t, t = Taken(r, Previous(world_size, r), k)
    PROVE  /\ u \in Nat /\ t \in Nat
           /\ r # 0 => u <= t
           /\ r = 0 => u <= t + 1
           /\ HasLeft(r, k) => u = 2
           /\ ~HasEntered(r, k) => u = 0
<1> SUFFICES ASSUME NEW n, n = world_size, NEW x, x = Following(n, r), NEW y, y = Previous(n, r)
             PROVE  /\ u \in Nat /\ t \in Nat
                    /\ r # 0 => u <= t
                    /\ r = 0 => u <= t + 1
                    /\ HasLeft(r, k) => u = 2
                    /\ ~HasEntered(r, k) => u = 0
  OBVIOUS
<1>1. /\ Shape /\ RankInv(r) /\ n \in Nat \ {0} /\ Ranks = 0..(n - 1)
      /\ k \in Nat \ {0} /\ count[r] \in Nat
  BY WorldFacts DEF Steady, Shape
<1>2. x \in Ranks /\ y \in Ranks
  BY <1>1, RingFacts
<1>3. SentTotal(r, x, k) = 2 /\ TakenTotal(r, y, k) = 2
  BY <1>1, BarrierTotals DEF SentTotal, TakenTotal, Plan
<1>4. CASE k <= count[r]
  <2>1. u = 2 /\ t = 2
    BY <1>3, <1>4 DEF Sent, Taken
  <2> QED
    BY <1>4, <2>1 DEF HasEntered
<1>5. CASE k = count[r] + 1 /\ busy[r]
  <2>1. plan[r] \in Seq(Steps(n)) /\ Rest(plan[r], WorldPlan(n, r, calls[k]))
    BY <1>1, <1>5 DEF Shape, RankInv, Plan
  <2>2. PICK s, v : s = Cardinality(Sends(plan[r], x)) /\ v = Cardinality(Receipts(plan[r], y))
    OBVIOUS
  <2>3. s \in Nat /\ v \in Nat /\ (r # 0 => v <= s) /\ (r = 0 => v <= s + 1)
    BY <1>1, <2>1, <2>2, BarrierRest
  <2>4. ~(k <= count[r])
    BY <1>1, <1>5
  <2>5. u = 2 - s /\ t = 2 - v
    BY <1>3, <1>5, <2>2, <2>4 DEF Sent, Taken
  <2>6. u \in Nat /\ t \in Nat
    BY <1>1, <1>2, CountFacts
  <2>7. ~HasLeft(r, k) /\ HasEntered(r, k)
    BY <1>1, <1>5 DEF HasLeft, HasEntered
  <2> QED
    BY <2>3, <2>5, <2>6, <2>7
<1>6. CASE ~(k <= count[r]) /\ ~(k = count[r] + 1 /\ busy[r])
  <2>1. u = 0 /\ t = 0
    BY <1>6 DEF Sent, Taken
  <2>2. ~HasLeft(r, k)
    BY <1>1, <1>6 DEF HasLeft
  <2> QED
    BY <2>1, <2>2
<1> QED
  BY <1>4, <1>5, <1>6

\* What never grows from one rank to the next is least at the last.
LEMMA NeverGrows ==
    ASSUME NEW n \in Nat, NEW f \in [0..n -> Nat], \A q \in 1..n : f[q] <= f[q - 1],
           NEW p \in 0..n, NEW q \in 0..n, p <= q
    PROVE  f[q] <= f[p]
<1> SUFFICES ASSUME ~(f[q] <= f[p]) PROVE FALSE
  OBVIOUS
<1> DEFINE S == {i \in p..n : ~(f[i] <= f[p])}
<1>1. S \subseteq Nat /\ S # {}
  <2>1. q \in S
    OBVIOUS
  <2>2. p..n \subseteq Nat /\ S \subseteq p..n
    OBVIOUS
  <2> HIDE DEF S
  <2> QED
    BY <2>1, <2>2
<1>2. PICK i \in S : \A m \in S : i <= m
  BY <1>1, LeastNumber
<1>3. i \in p..n /\ ~(f[i] <= f[p]) /\ i # p
  BY <1>2
<1>4. i - 1 \in p..n /\ i \in 1..n /\ i - 1 \in 0..n /\ i \in 0..n
  BY <1>3
<1>5. i - 1 \notin S
  BY <1>2, <1>4
<1>6. f[i - 1] <= f[p] /\ f[i] <= f[i - 1]
  BY <1>4, <1>5
<1>7. f[i] \in Nat /\ f[i - 1] \in Nat /\ f[p] \in Nat
  BY <1>4
<1> QED
  BY <1>3, <1>6, <1>7

LEMMA NobodyLeavesEarly ==
    ASSUME WorldCalls, PoolInv, Steady, failed = NoRank, NEW k \in DOMAIN calls,
           calls[k].name = "MPI_Barrier", NEW r \in Ranks, NEW s \in Ranks, HasLeft(r, k),
           ~HasEntered(s, k)
    PROVE  FALSE
<1> SUFFICES ASSUME NEW n, n = world_size PROVE FALSE
  OBVIOUS
<1>1. n \in Nat \ {0} /\ Ranks = 0..(n - 1)
  BY WorldFacts DEF Steady
<1> DEFINE u(q) == Sent(q, Following(n, q), k)
           t(q) == Taken(q, Previous(n, q), k)
           f == [q \in 0..(n - 1) |-> u(q)]
<1>2. ASSUME NEW q \in Ranks
      PROVE  /\ u(q) \in Nat /\ t(q) \in Nat
             /\ q # 0 => u(q) <= t(q)
             /\ q = 0 => u(q) <= t(q) + 1
  BY BarrierCounts
<1>3. ASSUME NEW q \in Ranks PROVE t(q) <= u(Previous(n, q))
  <2>1. Previous(n, q) \in Ranks /\ Following(n, Previous(n, q)) = q
    BY <1>1, RingFacts
  <2>2. ~Stopped(q) /\ ~Stopped(Previous(n, q))
    BY <1>1, <2>1, WorldFacts DEF Steady, FaultInv, Stopped
  <2>3. PICK p : p = Previous(n, q)
    OBVIOUS
  <2>4. Taken(q, p, k) <= Sent(p, q, k)
    BY <2>1, <2>2, <2>3 DEF Steady, PairsInv, PairInv, PairAt
  <2> QED
    BY <2>1, <2>3, <2>4
<1>4. u(r) = 2 /\ u(s) = 0
  BY BarrierCounts
<1> HIDE DEF u, t
<1>5. n - 1 \in Nat /\ f \in [0..(n - 1) -> Nat]
  BY <1>1, <1>2
<1>6. ASSUME NEW q \in 1..(n - 1) PROVE u(q) <= u(q - 1)
  <2>1. q \in Ranks /\ q - 1 \in Ranks /\ q # 0 /\ Previous(n, q) = q - 1
    BY <1>1 DEF Previous
  <2>2. u(q) <= t(q) /\ t(q) <= u(q - 1)
    BY <1>2, <1>3, <2>1
  <2>3. u(q) \in Nat /\ t(q) \in Nat /\ u(q - 1) \in Nat
    BY <1>2, <2>1
  <2> QED
    BY <2>2, <2>3
<1>7. u(0) <= u(n - 1) + 1
  <2>1. 0 \in Ranks /\ n - 1 \in Ranks /\ Previous(n, 0) = n - 1
    BY <1>1 DEF Previous
  <2>2. u(0) <= t(0) + 1 /\ t(0) <= u(n - 1)
    BY <1>2, <1>3, <2>1
  <2>3. u(0) \in Nat /\ t(0) \in Nat /\ u(n - 1) \in Nat
    BY <1>2, <2>1
  <2> QED
    BY <2>2, <2>3
<1>8. f[r] <= f[0] /\ f[n - 1] <= f[s]
  <2>1. \A q \in 1..(n - 1) : f[q] <= f[q - 1]
    BY <1>1, <1>6
  <2>2. /\ 0 \in 0..(n - 1) /\ r \in 0..(n - 1) /\ s \in 0..(n - 1) /\ n - 1 \in 0..(n - 1)
        /\ 0 <= r /\ s <= n - 1
    BY <1>1
  <2> HIDE DEF f
  <2> QED
    BY <1>5, <2>1, <2>2, NeverGrows
<1>9. /\ f[r] = u(r) /\ f[0] = u(0) /\ f[n - 1] = u(n - 1) /\ f[s] = u(s)
      /\ u(0) \in Nat /\ u(n - 1) \in Nat
  BY <1>1, <1>2
<1> QED
  BY <1>4, <1>7, <1>8, <1>9

\* MPI_Barrier synchronises, for every program of calls on the world whose schedules fit,
\* every number of ranks and every number of failures: no rank returns from the barrier
\* before every rank has entered it, a recovery in between or not, unless it was disturbed.
THEOREM WorldBarrierSynchronises == Spec => [](WorldCalls => BarrierSynchronises)
<1>1. PoolInv /\ (WorldCalls => CallInv) => (WorldCalls => BarrierSynchronises)
  <2> SUFFICES ASSUME PoolInv, WorldCalls => CallInv, WorldCalls, ~disturbed, failed = NoRank,
                      NEW k \in DOMAIN calls, calls[k].name = "MPI_Barrier",
                      NEW r \in Ranks, NEW s \in Ranks, HasLeft(r, k)
               PROVE  HasEntered(s, k)
    BY DEF BarrierSynchronises
  <2>1. Steady
    BY DEF CallInv
  <2> QED
    BY <2>1, NobodyLeavesEarly
<1> QED
  BY <1>1, CallInvariant, PTL

(***************************************************************************)
(* Schedules that fit, for any number of ranks: those of all calls but the *)
(* reductions.                                                             *)
(***************************************************************************)
LEMMA CountsNone ==
    ASSUME NEW x
    PROVE  Cardinality(Sends(<<>>, x)) = 0 /\ Cardinality(Receipts(<<>>, x)) = 0
<1>1. Sends(<<>>, x) = {} /\ Receipts(<<>>, x) = {}
  BY DEF Sends, Receipts
<1> QED
  BY <1>1, FS_EmptySet

LEMMA CountsOne ==
    ASSUME NEW e, NEW x
    PROVE  /\ Cardinality(Sends(<<e>>, x)) =
                 IF e.operation \in SendOperations /\ e.peer = x THEN 1 ELSE 0
           /\ Cardinality(Receipts(<<e>>, x)) =
                 IF e.operation \in Receives /\ e.peer = x THEN 1 ELSE 0
<1>1. DOMAIN <<e>> = {1} /\ <<e>>[1] = e
  OBVIOUS
<1>2. Sends(<<e>>, x) = IF e.operation \in SendOperations /\ e.peer = x THEN {1} ELSE {}
  BY <1>1 DEF Sends
<1>3. Receipts(<<e>>, x) = IF e.operation \in Receives /\ e.peer = x THEN {1} ELSE {}
  BY <1>1 DEF Receipts
<1>4. Cardinality({1}) = 1 /\ Cardinality({}) = 0
  BY FS_Singleton, FS_EmptySet
<1> QED
  BY <1>2, <1>3, <1>4

\* The places of two parts of a sequence, and the places of the whole.
Both(A, B, m) == A \cup {i + m : i \in B}
Joined(A, m, B, k, C) ==
    m \in Nat /\ k \in Nat /\ A \in SUBSET (1..m) /\ B \in SUBSET (1..k) /\ C = Both(A, B, m)

LEMMA PlacesJoined ==
    ASSUME NEW A, NEW m, NEW B, NEW k, NEW C, Joined(A, m, B, k, C)
    PROVE  Cardinality(C) = Cardinality(A) + Cardinality(B)
<1> SUFFICES ASSUME m \in Nat, k \in Nat, A \in SUBSET (1..m), B \in SUBSET (1..k), C = Both(A, B, m)
             PROVE  Cardinality(C) = Cardinality(A) + Cardinality(B)
  BY DEF Joined
<1> DEFINE D == {i + m : i \in B}
<1>1. IsFiniteSet(A) /\ IsFiniteSet(B)
  <2>1. IsFiniteSet(1..m) /\ IsFiniteSet(1..k)
    BY FS_Interval
  <2> QED
    BY <2>1, FS_Subset
<1>2. IsFiniteSet(D) /\ Cardinality(D) = Cardinality(B)
  <2> DEFINE f == [i \in B |-> i + m]
  <2>1. \A i \in B : i \in Int
    OBVIOUS
  <2>2. \A i \in B : \A j \in B : i + m = j + m => i = j
    BY <2>1
  <2>3. /\ f \in [B -> D]
        /\ \A d \in D : \E i \in B : f[i] = d
        /\ \A i \in B : \A j \in B : f[i] = f[j] => i = j
    BY <2>2
  <2>4. f \in Bijection(B, D)
    BY <2>3, Zenon DEF Bijection, Injection, Surjection, IsInjective
  <2> HIDE DEF f, D
  <2> QED
    BY <1>1, <2>4, FS_Bijection DEF ExistsBijection
<1>3. A \cap D = {}
  OBVIOUS
<1>4. C = A \cup D
  BY DEF Both
<1>5. Cardinality({}) = 0
  BY FS_EmptySet
<1> HIDE DEF D
<1>6. Cardinality(A \cup D) = Cardinality(A) + Cardinality(D) - Cardinality(A \cap D)
  BY <1>1, <1>2, FS_Union
<1>7. Cardinality(A) \in Nat /\ Cardinality(D) \in Nat
  BY <1>1, <1>2, FS_CardinalityType
<1>8. Cardinality(A \cap D) = 0 /\ Cardinality(C) = Cardinality(A \cup D)
  BY <1>3, <1>4, <1>5
<1> QED
  BY <1>2, <1>6, <1>7, <1>8

LEMMA CountsJoined ==
    ASSUME NEW S, NEW p \in Seq(S), NEW q \in Seq(S), NEW x
    PROVE  /\ p \o q \in Seq(S)
           /\ Cardinality(Sends(p \o q, x)) = Cardinality(Sends(p, x)) + Cardinality(Sends(q, x))
           /\ Cardinality(Receipts(p \o q, x))
                 = Cardinality(Receipts(p, x)) + Cardinality(Receipts(q, x))
<1> SUFFICES ASSUME NEW w, w = p \o q, NEW m, m = Len(p), NEW k, k = Len(q)
             PROVE  /\ w \in Seq(S)
                    /\ Cardinality(Sends(w, x)) = Cardinality(Sends(p, x)) + Cardinality(Sends(q, x))
                    /\ Cardinality(Receipts(w, x))
                          = Cardinality(Receipts(p, x)) + Cardinality(Receipts(q, x))
  OBVIOUS
<1>1. /\ m \in Nat /\ k \in Nat /\ DOMAIN p = 1..m /\ DOMAIN q = 1..k
      /\ w \in Seq(S) /\ DOMAIN w = 1..(m + k)
      /\ \A i \in 1..m : w[i] = p[i]
      /\ \A i \in 1..k : w[i + m] = q[i]
  OBVIOUS
<1>2. \A i \in 1..(m + k) : i \in 1..m \/ \E j \in 1..k : i = j + m
  <2>1. ASSUME NEW i \in 1..(m + k), i \notin 1..m PROVE \E j \in 1..k : i = j + m
    <3>1. i - m \in 1..k /\ i = (i - m) + m
      BY <1>1, <2>1
    <3> QED
      BY <3>1
  <2> QED
    BY <2>1
<1>3. \A i \in 1..m : i \in 1..(m + k)
  BY <1>1
<1>4. \A i \in 1..k : i + m \in 1..(m + k)
  BY <1>1
<1>5. Sends(w, x) = Both(Sends(p, x), Sends(q, x), m)
  <2>1. ASSUME NEW i \in Sends(w, x) PROVE i \in Sends(p, x) \/ \E j \in Sends(q, x) : i = j + m
    <3>1. i \in 1..(m + k)
      BY <1>1, <2>1 DEF Sends
    <3>2. CASE i \in 1..m
      BY <1>1, <2>1, <3>2 DEF Sends
    <3>3. ASSUME NEW j \in 1..k, i = j + m PROVE j \in Sends(q, x)
      BY <1>1, <2>1, <3>3 DEF Sends
    <3> QED
      BY <1>2, <3>1, <3>2, <3>3
  <2>2. ASSUME NEW i \in Sends(p, x) PROVE i \in Sends(w, x)
    BY <1>1, <1>3, <2>2 DEF Sends
  <2>3. ASSUME NEW i \in Sends(q, x) PROVE i + m \in Sends(w, x)
    BY <1>1, <1>4, <2>3 DEF Sends
  <2> QED
    BY <2>1, <2>2, <2>3 DEF Both
<1>6. Receipts(w, x) = Both(Receipts(p, x), Receipts(q, x), m)
  <2>1. ASSUME NEW i \in Receipts(w, x) PROVE i \in Receipts(p, x) \/ \E j \in Receipts(q, x) : i = j + m
    <3>1. i \in 1..(m + k)
      BY <1>1, <2>1 DEF Receipts
    <3>2. CASE i \in 1..m
      BY <1>1, <2>1, <3>2 DEF Receipts
    <3>3. ASSUME NEW j \in 1..k, i = j + m PROVE j \in Receipts(q, x)
      BY <1>1, <2>1, <3>3 DEF Receipts
    <3> QED
      BY <1>2, <3>1, <3>2, <3>3
  <2>2. ASSUME NEW i \in Receipts(p, x) PROVE i \in Receipts(w, x)
    BY <1>1, <1>3, <2>2 DEF Receipts
  <2>3. ASSUME NEW i \in Receipts(q, x) PROVE i + m \in Receipts(w, x)
    BY <1>1, <1>4, <2>3 DEF Receipts
  <2> QED
    BY <2>1, <2>2, <2>3 DEF Both
<1>7. /\ Sends(p, x) \in SUBSET (1..m) /\ Sends(q, x) \in SUBSET (1..k)
      /\ Receipts(p, x) \in SUBSET (1..m) /\ Receipts(q, x) \in SUBSET (1..k)
  BY <1>1 DEF Sends, Receipts
<1>8. Cardinality(Sends(w, x)) = Cardinality(Sends(p, x)) + Cardinality(Sends(q, x))
  <2>1. PICK A, B, C : A = Sends(p, x) /\ B = Sends(q, x) /\ C = Sends(w, x)
    OBVIOUS
  <2>2. Joined(A, m, B, k, C)
    BY <1>1, <1>5, <1>7, <2>1 DEF Joined
  <2>3. Cardinality(C) = Cardinality(A) + Cardinality(B)
    BY <2>2, PlacesJoined
  <2> QED
    BY <2>1, <2>3
<1>9. Cardinality(Receipts(w, x)) = Cardinality(Receipts(p, x)) + Cardinality(Receipts(q, x))
  <2>1. PICK A, B, C : A = Receipts(p, x) /\ B = Receipts(q, x) /\ C = Receipts(w, x)
    OBVIOUS
  <2>2. Joined(A, m, B, k, C)
    BY <1>1, <1>6, <1>7, <2>1 DEF Joined
  <2>3. Cardinality(C) = Cardinality(A) + Cardinality(B)
    BY <2>2, PlacesJoined
  <2> QED
    BY <2>1, <2>3
<1> QED
  BY <1>1, <1>8, <1>9

Names == {"buffer", "msg", "pt2pt", "coll"}
Broadcast(n, r, root, x, p) ==
    /\ p \in Seq(Steps(n))
    /\ Cardinality(Sends(p, x)) = IF r = root /\ x # root THEN 1 ELSE 0
    /\ Cardinality(Receipts(p, x)) = IF r # root /\ x = root THEN 1 ELSE 0

LEMMA BroadcastCounts ==
    ASSUME NEW n \in Nat \ {0}, NEW r \in 0..(n - 1), NEW root \in 0..(n - 1), NEW x \in 0..(n - 1),
           NEW variable \in Names, NEW p, p = MPI_Bcast(World(n, r), root, variable)
    PROVE  Broadcast(n, r, root, x, p)
<1> SUFFICES /\ p \in Seq(Steps(n))
             /\ Cardinality(Sends(p, x)) = IF r = root /\ x # root THEN 1 ELSE 0
             /\ Cardinality(Receipts(p, x)) = IF r # root /\ x = root THEN 1 ELSE 0
  BY DEF Broadcast
<1> DEFINE me == World(n, r)
           others == Others(n, root)
<1>1. me.rank = r /\ me.size = n /\ me.comm = MPI_COMM_WORLD
  BY DEF World
<1>2. ASSUME NEW peer \in 0..(n - 1)
      PROVE  /\ Send(peer, me, variable) \in Steps(n) /\ Recv(peer, me, variable) \in Steps(n)
             /\ Send(peer, me, variable).operation = "Send" /\ Send(peer, me, variable).peer = peer
             /\ Recv(peer, me, variable).operation = "Receive"
             /\ Recv(peer, me, variable).peer = peer
  BY <1>1 DEF Send, Recv, Operation, Steps, SendOperations, Receives, Names
<1>3. "Send" \in SendOperations /\ "Send" \notin Receives /\ "Receive" \in Receives
      /\ "Receive" \notin SendOperations
  BY DEF SendOperations, Receives
<1>4. CASE r # root
  <2>1. p = <<Recv(root, me, variable)>>
    BY <1>1, <1>4 DEF MPI_Bcast
  <2>2. p \in Seq(Steps(n))
    BY <1>2, <2>1
  <2> QED
    BY <1>2, <1>3, <1>4, <2>1, <2>2, CountsOne
<1>5. CASE r = root
  <2>1. /\ DOMAIN others = 1..(n - 1)
        /\ \A i \in 1..(n - 1) : others[i] = IF i <= root THEN i - 1 ELSE i
    BY DEF Others
  <2>2. \A i \in 1..(n - 1) : others[i] \in 0..(n - 1) /\ others[i] # root
    BY <2>1
  <2>3. p = [i \in 1..(n - 1) |-> Send(others[i], me, variable)]
    BY <1>1, <1>5, <2>1 DEF MPI_Bcast
  <2> HIDE DEF me, others
  <2>4. /\ DOMAIN p = 1..(n - 1)
        /\ \A i \in 1..(n - 1) : /\ p[i] \in Steps(n)
                                 /\ p[i].operation = "Send" /\ p[i].peer = others[i]
    BY <1>2, <2>2, <2>3
  <2>5. p \in Seq(Steps(n))
    <3>1. n - 1 \in Nat
      OBVIOUS
    <3>2. p \in [1..(n - 1) -> Steps(n)]
      BY <2>3, <2>4
    <3> QED
      BY <3>1, <3>2
  <2>6. Receipts(p, x) = {}
    BY <1>3, <2>4 DEF Receipts
  <2>7. CASE x = root
    <3>1. Sends(p, x) = {}
      BY <2>2, <2>4, <2>7 DEF Sends
    <3> QED
      BY <1>5, <2>5, <2>6, <2>7, <3>1, FS_EmptySet
  <2>8. CASE x # root
    <3>1. PICK k : k = IF x < root THEN x + 1 ELSE x
      OBVIOUS
    <3>2. \A i \in 1..(n - 1) : others[i] = x <=> i = k
      BY <2>1, <2>8, <3>1
    <3>3. k \in 1..(n - 1)
      BY <2>8, <3>1
    <3>4. Sends(p, x) = {k}
      BY <1>3, <2>4, <3>2, <3>3 DEF Sends
    <3> QED
      BY <1>5, <2>5, <2>6, <2>8, <3>4, FS_EmptySet, FS_Singleton
  <2> QED
    BY <2>7, <2>8
<1> QED
  BY <1>4, <1>5

\* Calls of which the next theorem speaks.
FittingCall(n, call) ==
    \/ call.name \in {"MPI_Barrier", "MPI_Comm_dup", "MPI_Sendrecv"}
    \/ call.name = "MPI_Bcast" /\ call.root \in 0..(n - 1)
    \/ /\ call.name = "Message" /\ call.from \in 0..(n - 1) /\ call.to \in 0..(n - 1)
       /\ call.mode \in SendOperations \ {"Ssend"}
    \/ IsLocal(call)

\* On MPI_COMM_WORLD, for any number of ranks and any root: every rank receives from every
\* other as many messages of MPI_Barrier, MPI_Bcast, MPI_Comm_dup, MPI_Sendrecv or a single
\* message as that one sends to it, and names only ranks that exist.
THEOREM SchedulesFit ==
    ASSUME NEW n \in Nat \ {0}, NEW call, FittingCall(n, call)
    PROVE  Fits(n, call)
<1>1. CASE call.name = "MPI_Barrier"
  <2>1. ASSUME NEW r \in 0..(n - 1) PROVE WorldPlan(n, r, call) \in Seq(Steps(n))
    BY <1>1, BarrierPlan
  <2>2. ASSUME NEW s \in 0..(n - 1), NEW r \in 0..(n - 1)
        PROVE  Cardinality(Sends(WorldPlan(n, s, call), r))
                  = Cardinality(Receipts(WorldPlan(n, r, call), s))
    <3>1. r = Following(n, s) <=> s = Previous(n, r)
      BY RingFacts
    <3> QED
      BY <1>1, <3>1, BarrierTotals
  <2> QED
    BY <2>1, <2>2 DEF Fits
<1>2. CASE call.name = "MPI_Bcast" /\ call.root \in 0..(n - 1)
  <2>1. ASSUME NEW r \in 0..(n - 1)
        PROVE  WorldPlan(n, r, call) = MPI_Bcast(World(n, r), call.root, "buffer")
    BY <1>2 DEF WorldPlan, Schedule
  <2>2. ASSUME NEW r \in 0..(n - 1), NEW x \in 0..(n - 1)
        PROVE  /\ WorldPlan(n, r, call) \in Seq(Steps(n))
               /\ Cardinality(Sends(WorldPlan(n, r, call), x))
                     = IF r = call.root /\ x # call.root THEN 1 ELSE 0
               /\ Cardinality(Receipts(WorldPlan(n, r, call), x))
                     = IF r # call.root /\ x = call.root THEN 1 ELSE 0
    <3>1. PICK root, p : root = call.root /\ p = MPI_Bcast(World(n, r), root, "buffer")
      OBVIOUS
    <3>2. root \in 0..(n - 1) /\ p = WorldPlan(n, r, call) /\ "buffer" \in Names
      BY <1>2, <2>1, <3>1 DEF Names
    <3>3. Broadcast(n, r, root, x, p)
      BY <3>1, <3>2, BroadcastCounts
    <3> QED
      BY <3>1, <3>2, <3>3 DEF Broadcast
  <2> QED
    BY <2>2 DEF Fits
<1>3. CASE call.name = "MPI_Comm_dup"
  <2>1. ASSUME NEW r \in 0..(n - 1)
        PROVE  WorldPlan(n, r, call)
                  = MPI_Bcast(World(n, r), 0, "pt2pt") \o MPI_Bcast(World(n, r), 0, "coll")
    <3>1. [World(n, r) EXCEPT !.comm = 0] = World(n, r)
      BY DEF World, MPI_COMM_WORLD
    <3> QED
      BY <1>3, <3>1 DEF WorldPlan, Schedule, MPI_Comm_dup
  <2>2. ASSUME NEW r \in 0..(n - 1), NEW x \in 0..(n - 1)
        PROVE  /\ WorldPlan(n, r, call) \in Seq(Steps(n))
               /\ Cardinality(Sends(WorldPlan(n, r, call), x)) = IF r = 0 /\ x # 0 THEN 2 ELSE 0
               /\ Cardinality(Receipts(WorldPlan(n, r, call), x)) = IF r # 0 /\ x = 0 THEN 2 ELSE 0
    <3>1. PICK p, q : /\ p = MPI_Bcast(World(n, r), 0, "pt2pt")
                      /\ q = MPI_Bcast(World(n, r), 0, "coll")
      OBVIOUS
    <3>2. 0 \in 0..(n - 1) /\ "pt2pt" \in Names /\ "coll" \in Names
      BY DEF Names
    <3>3. Broadcast(n, r, 0, x, p)
      BY <3>1, <3>2, BroadcastCounts
    <3>4. Broadcast(n, r, 0, x, q)
      BY <3>1, <3>2, BroadcastCounts
    <3>5. WorldPlan(n, r, call) = p \o q
      BY <2>1, <3>1
    <3> QED
      BY <3>3, <3>4, <3>5, CountsJoined DEF Broadcast
  <2> QED
    BY <2>2 DEF Fits
<1>4. CASE call.name = "MPI_Sendrecv"
  <2>1. ASSUME NEW r \in 0..(n - 1), NEW x \in 0..(n - 1)
        PROVE  /\ WorldPlan(n, r, call) \in Seq(Steps(n))
               /\ Cardinality(Sends(WorldPlan(n, r, call), x))
                     = IF x = Following(n, r) THEN 1 ELSE 0
               /\ Cardinality(Receipts(WorldPlan(n, r, call), x))
                     = IF x = Previous(n, r) THEN 1 ELSE 0
    <3>1. PICK a, b : /\ a = Send(Right(World(n, r)), World(n, r), "buffer")
                      /\ b = Recv(Left(World(n, r)), World(n, r), "buffer")
      OBVIOUS
    <3>2. /\ a \in Steps(n) /\ b \in Steps(n)
          /\ a.operation = "Send" /\ a.peer = Following(n, r)
          /\ b.operation = "Receive" /\ b.peer = Previous(n, r)
      BY <3>1, RingFacts DEF Send, Recv, Operation, Steps, SendOperations, Receives, World
    <3>3. WorldPlan(n, r, call) = <<a, b>>
      BY <1>4, <3>1 DEF WorldPlan, Schedule, MPI_Sendrecv
    <3>4. <<a, b>> \in Seq(Steps(n))
      BY <3>2
    <3>5. DOMAIN <<a, b>> = {1, 2} /\ <<a, b>>[1] = a /\ <<a, b>>[2] = b
      OBVIOUS
    <3>6. Sends(<<a, b>>, x) = IF x = Following(n, r) THEN {1} ELSE {}
      BY <3>2, <3>5 DEF Sends, SendOperations
    <3>7. Receipts(<<a, b>>, x) = IF x = Previous(n, r) THEN {2} ELSE {}
      BY <3>2, <3>5 DEF Receipts, Receives
    <3>8. Cardinality({1}) = 1 /\ Cardinality({2}) = 1 /\ Cardinality({}) = 0
      BY FS_Singleton, FS_EmptySet
    <3> QED
      BY <3>3, <3>4, <3>6, <3>7, <3>8
  <2>2. ASSUME NEW s \in 0..(n - 1), NEW r \in 0..(n - 1) PROVE r = Following(n, s) <=> s = Previous(n, r)
    BY RingFacts
  <2> QED
    BY <2>1, <2>2 DEF Fits
<1>5. CASE /\ call.name = "Message" /\ call.from \in 0..(n - 1) /\ call.to \in 0..(n - 1)
           /\ call.mode \in SendOperations \ {"Ssend"}
  <2>1. ASSUME NEW r \in 0..(n - 1), NEW x \in 0..(n - 1)
        PROVE  /\ WorldPlan(n, r, call) \in Seq(Steps(n))
               /\ Cardinality(Sends(WorldPlan(n, r, call), x))
                     = IF r = call.from /\ x = call.to THEN 1 ELSE 0
               /\ Cardinality(Receipts(WorldPlan(n, r, call), x))
                     = IF r = call.to /\ x = call.from THEN 1 ELSE 0
    <3>1. PICK a, b : /\ a = Operation(call.mode, call.to, World(n, r), "buffer")
                      /\ b = Recv(call.from, World(n, r), "buffer")
      OBVIOUS
    <3>2. /\ a \in Steps(n) /\ b \in Steps(n)
          /\ a.operation \in SendOperations /\ a.operation \notin Receives /\ a.peer = call.to
          /\ b.operation = "Receive" /\ b.peer = call.from
      BY <1>5, <3>1 DEF Recv, Operation, Steps, SendOperations, Receives, World
    <3>3. PICK p, q : /\ p = IF r = call.from THEN <<a>> ELSE <<>>
                      /\ q = IF r = call.to THEN <<b>> ELSE <<>>
      OBVIOUS
    <3>4. WorldPlan(n, r, call) = p \o q
      BY <1>5, <3>1, <3>3 DEF WorldPlan, Schedule, Message, World
    <3>5. p \in Seq(Steps(n)) /\ q \in Seq(Steps(n))
      <4>1. <<>> \in Seq(Steps(n)) /\ <<a>> \in Seq(Steps(n)) /\ <<b>> \in Seq(Steps(n))
        BY <3>2
      <4> QED
        BY <3>3, <4>1
    <3>6. /\ Cardinality(Sends(p, x)) = IF r = call.from /\ x = call.to THEN 1 ELSE 0
          /\ Cardinality(Receipts(p, x)) = 0
      BY <3>2, <3>3, CountsOne, CountsNone
    <3>7. /\ Cardinality(Sends(q, x)) = 0
          /\ Cardinality(Receipts(q, x)) = IF r = call.to /\ x = call.from THEN 1 ELSE 0
      BY <3>2, <3>3, CountsOne, CountsNone DEF SendOperations, Receives
    <3>8. /\ p \o q \in Seq(Steps(n))
          /\ Cardinality(Sends(p \o q, x)) = Cardinality(Sends(p, x)) + Cardinality(Sends(q, x))
          /\ Cardinality(Receipts(p \o q, x))
                = Cardinality(Receipts(p, x)) + Cardinality(Receipts(q, x))
      BY <3>5, CountsJoined
    <3> QED
      BY <3>4, <3>6, <3>7, <3>8
  <2> QED
    BY <2>1 DEF Fits
<1>6. CASE IsLocal(call)
  <2>1. ASSUME NEW r \in 0..(n - 1) PROVE WorldPlan(n, r, call) = <<>>
    BY <1>6 DEF WorldPlan, Schedule, IsLocal
  <2>2. <<>> \in Seq(Steps(n))
    OBVIOUS
  <2> QED
    BY <2>1, <2>2, CountsNone DEF Fits
<1> QED
  BY <1>1, <1>2, <1>3, <1>4, <1>5, <1>6 DEF FittingCall

(***************************************************************************)
(* Payloads. Without a failure no header is dropped, and so each payload   *)
(* is free or belongs to a queued header.                                  *)
(***************************************************************************)
Uses(holders, buffer) == {buffer[h] : h \in holders}
NothingLost(pool, memory_, holders, buffer) ==
    /\ Uses(holders, buffer) \cup FreeItems(pool) = 1..pool.size
    /\ DOMAIN memory_ = Uses(holders, buffer)

\* A payload that is stored.
LEMMA StoredIsUsed ==
    ASSUME NEW pool, NEW memory_, NEW holders, NEW buffer, NEW h, NEW content,
           PayloadsGood(pool, holders, buffer), NothingLost(pool, memory_, holders, buffer),
           h \notin holders
    PROVE  NothingLost(allocate(pool), Stored(memory_, Allocated(pool), content),
                       holders \cup {h}, Stored(buffer, h, Allocated(pool)))
<1> DEFINE item == Allocated(pool)
           taken == allocate(pool)
           after == Stored(buffer, h, item)
<1>1. /\ pool.size <= taken.size
      /\ FreeItems(taken) \cup {item} = FreeItems(pool) \cup (pool.size + 1)..taken.size
      /\ pool.size \in Nat /\ taken.size \in Nat
  BY AllocateFacts DEF PayloadsGood, Orderly, Pools
<1>2. holders \subseteq DOMAIN buffer
  BY DEF PayloadsGood
<1>3. after[h] = item /\ \A g \in holders : after[g] = buffer[g]
  BY <1>2 DEF Stored
<1>4. DOMAIN Stored(memory_, item, content) = (DOMAIN memory_) \cup {item}
  BY DEF Stored
<1> HIDE DEF item, taken, after
<1>5. Uses(holders \cup {h}, after) = Uses(holders, buffer) \cup {item}
  BY <1>3 DEF Uses
<1>6. (1..pool.size) \cup (pool.size + 1)..taken.size = 1..taken.size
  BY <1>1
<1>7. Uses(holders, buffer) \cup FreeItems(pool) = 1..pool.size
  BY DEF NothingLost
<1>8. Uses(holders \cup {h}, after) \cup FreeItems(taken) = 1..taken.size
  BY <1>1, <1>5, <1>6, <1>7
<1> QED
  BY <1>4, <1>5, <1>8 DEF NothingLost, item, taken, after

\* A payload that fill has copied.
LEMMA FilledIsFree ==
    ASSUME NEW pool, NEW memory_, NEW holders, NEW buffer, NEW h \in holders,
           PayloadsGood(pool, holders, buffer), NothingLost(pool, memory_, holders, buffer)
    PROVE  NothingLost(deallocate(pool, buffer[h]), Without(memory_, buffer[h]),
                       holders \ {h}, buffer)
<1> DEFINE after == deallocate(pool, buffer[h])
<1>1. /\ buffer[h] \in (1..pool.size) \ FreeItems(pool) /\ Orderly(pool)
      /\ \A g, k \in holders : buffer[g] = buffer[k] => g = k
  BY DEF PayloadsGood
<1>2. after.size = pool.size /\ FreeItems(after) = FreeItems(pool) \cup {buffer[h]}
  BY <1>1, DeallocateFacts
<1> HIDE DEF after
<1>3. Uses(holders \ {h}, buffer) = Uses(holders, buffer) \ {buffer[h]}
  BY <1>1 DEF Uses
<1>4. DOMAIN Without(memory_, buffer[h]) = (DOMAIN memory_) \ {buffer[h]}
  BY DEF Without
<1>5. buffer[h] \in Uses(holders, buffer)
  BY DEF Uses
<1> QED
  BY <1>2, <1>3, <1>4, <1>5 DEF NothingLost, after

RankLeakless(r) ==
    NothingLost(payload_pool[r], payloads[r], WithPayload(r), payload_buffer[r])
LeakInv ==
    /\ restarts \in Nat /\ DOMAIN payloads = Ranks
    /\ restarts = 0 => ~disturbed /\ \A r \in Ranks : RankLeakless(r)

LEMMA LeakStart == Init => LeakInv
<1> SUFFICES ASSUME Init PROVE LeakInv
  OBVIOUS
<1>1. /\ payload_pool = [r \in Ranks |-> NewPool] /\ payloads = [r \in Ranks |-> NoMemory]
      /\ payload_buffer = [r \in Ranks |-> NoMemory] /\ restarts = 0 /\ ~disturbed
      /\ received_header_queue = [r \in Ranks |-> <<>>]
  BY DEF Init, TransportInit
<1>2. ASSUME NEW r \in Ranks PROVE RankLeakless(r)
  <2>1. WithPayload(r) = {}
    BY <1>1, NewTransportGood DEF WithPayload
  <2>2. Uses({}, NoMemory) = {} /\ DOMAIN NoMemory = {}
    BY DEF Uses, NoMemory
  <2> QED
    BY <1>1, <2>1, <2>2, NewPoolFacts DEF RankLeakless, NothingLost
<1> QED
  BY <1>1, <1>2 DEF LeakInv

\* A step that leaves pools and queues alone.
LEMMA LeakKept ==
    ASSUME LeakInv, UNCHANGED queueVars, UNCHANGED <<restarts, disturbed>>
    PROVE  LeakInv'
<1>1. Ranks' = Ranks
  BY DEF queueVars, Ranks
<1>2. ASSUME NEW r \in Ranks PROVE RankLeakless(r)' = RankLeakless(r)
  BY DEF queueVars, poolVars, RankLeakless, WithPayload, MPIX_CLEANUP_TAG
<1> QED
  BY <1>1, <1>2 DEF LeakInv, queueVars, poolVars

\* No failure yet: every message is one of a call, and arrives in time.
LEMMA ArrivesInTime ==
    ASSUME WorldCalls, PoolInv, Steady, restarts = 0, NEW r \in Ranks, NEW s \in Ranks,
           NEW h, h = OnTheWay(s, r)[1], 1 \in DOMAIN OnTheWay(s, r)
    PROVE  h.tag = 0 /\ ~(h.epoch < epoch[r])
<1>1. /\ failed = NoRank /\ ~is_errSet[r] /\ WireInv(s, r) /\ NoRank \notin Ranks
  BY WorldFacts DEF Steady, FaultInv, PairsInv
<1>2. GoodMessage(h, s)
  BY <1>1 DEF WireInv
<1>3. ~Stopped(r)
  BY <1>1 DEF Stopped
<1>4. PICK j \in DOMAIN calls : Hit(h, s, j)
  BY <1>2 DEF GoodMessage, Hit
<1>5. Live(r, j)
  BY <1>1 DEF Live
<1>6. ASSUME h.epoch < epoch[r] PROVE FALSE
  BY <1>3, <1>4, <1>5, <1>6, DroppedIsOld
<1> QED
  BY <1>2, <1>6 DEF GoodMessage

LEMMA PostLeaksNothing ==
    ASSUME WorldCalls, PoolInv, Steady, LeakInv, restarts = 0, UNCHANGED world_size,
           NEW r \in Ranks, NEW s \in Ranks, post_header(r, s)
    PROVE  LeakInv'
<1> SUFFICES ASSUME NEW datagram, datagram = Head(network[<<s, r>>]), NEW h, h = ReceivedHeader(r),
                    NEW queued, queued = received_header_queue[r]
             PROVE  LeakInv'
  OBVIOUS
<1>1. TakePayload(r, s) /\ network[<<s, r>>] # <<>> /\ UNCHANGED <<restarts, disturbed>>
  BY DEF post_header, ordered_recv, ordered_recv_and_drop, faultVars
<1>2. HasPayload(datagram)
  <2>1. network' = [network EXCEPT ![<<s, r>>] = Tail(@)]
    BY <1>1 DEF TakePayload
  <2> QED
    BY <1>1, <2>1, NetworkShrinks DEF PoolInv
<1>3. datagram.header.tag = 0 /\ ~(datagram.header.epoch < epoch[r])
  <2>1. PICK g : g = OnTheWay(s, r)[1]
    OBVIOUS
  <2>2. g = datagram.header /\ 1 \in DOMAIN OnTheWay(s, r)
    <3>1. /\ g = Head(network[<<s, r>>]).header
          /\ \E n \in Nat : Removed(OnTheWay(s, r), OnTheWay(s, r)', n, 1)
      BY <2>1, PostedFromWire
    <3> QED
      BY <3>1 DEF Removed
  <2> QED
    BY <2>1, <2>2, ArrivesInTime
<1>4. /\ HeadersGood(header_pool[r], queued) /\ ToSet(queued) \subseteq DOMAIN headers[r]
      /\ PayloadsGood(payload_pool[r], WithPayload(r), payload_buffer[r])
      /\ DOMAIN payload_pool = Ranks /\ DOMAIN payload_buffer = Ranks /\ DOMAIN payloads = Ranks
      /\ DOMAIN headers = Ranks /\ DOMAIN received_header_queue = Ranks
      /\ \A q \in Ranks : RankLeakless(q)
  BY DEF PoolInv, RanksGood, RankGood, LeakInv
<1>5. datagram.length > 0
  BY <1>2, <1>3 DEF HasPayload, MPIX_CLEANUP_TAG
<1>6. PICK item : item = Allocated(payload_pool[r])
  OBVIOUS
<1>7. /\ payload_pool' = [payload_pool EXCEPT ![r] = allocate(payload_pool[r])]
      /\ payloads' = [payloads EXCEPT ![r] = Stored(payloads[r], item, datagram.payload)]
      /\ payload_buffer' = [payload_buffer EXCEPT ![r] = Stored(payload_buffer[r], h, item)]
  BY <1>1, <1>5, <1>6 DEF TakePayload
<1>8. /\ headers' = [headers EXCEPT ![r] = Stored(headers[r], h, datagram.header)]
      /\ received_header_queue' = [received_header_queue EXCEPT ![r] = Append(queued, h)]
  BY <1>3 DEF post_header, ordered_recv
<1>9. h \notin ToSet(queued) /\ ToSet(Append(queued, h)) = ToSet(queued) \cup {h}
  BY <1>4, HeaderQueued DEF ReceivedHeader
<1>10. WithPayload(r)' = WithPayload(r) \cup {h} /\ h \notin WithPayload(r)
  <2>1. /\ DOMAIN Stored(headers[r], h, datagram.header) = (DOMAIN headers[r]) \cup {h}
        /\ Stored(headers[r], h, datagram.header)[h] = datagram.header
        /\ \A g \in ToSet(queued) : Stored(headers[r], h, datagram.header)[g] = headers[r][g]
    BY <1>4, <1>9 DEF Stored
  <2>2. /\ headers'[r] = Stored(headers[r], h, datagram.header)
        /\ received_header_queue'[r] = Append(queued, h)
    BY <1>4, <1>8
  <2>3. WithPayload(r)' = {g \in ToSet(queued) \cup {h} : headers'[r][g].tag # MPIX_CLEANUP_TAG}
    BY <1>9, <2>2 DEF WithPayload, MPIX_CLEANUP_TAG
  <2>4. WithPayload(r) = {g \in ToSet(queued) : headers[r][g].tag # MPIX_CLEANUP_TAG}
    BY DEF WithPayload
  <2>5. datagram.header.tag # MPIX_CLEANUP_TAG
    BY <1>3 DEF MPIX_CLEANUP_TAG
  <2> QED
    BY <1>9, <2>1, <2>2, <2>3, <2>4, <2>5
<1>11. RankLeakless(r)'
  <2>1. NothingLost(allocate(payload_pool[r]), Stored(payloads[r], item, datagram.payload),
                    WithPayload(r) \cup {h}, Stored(payload_buffer[r], h, item))
    BY <1>4, <1>6, <1>10, StoredIsUsed DEF RankLeakless
  <2>2. /\ payload_pool'[r] = allocate(payload_pool[r])
        /\ payloads'[r] = Stored(payloads[r], item, datagram.payload)
        /\ payload_buffer'[r] = Stored(payload_buffer[r], h, item)
    BY <1>4, <1>7
  <2> QED
    BY <1>10, <2>1, <2>2 DEF RankLeakless
<1>12. ASSUME NEW q \in Ranks, q # r PROVE RankLeakless(q)'
  <2>1. /\ payload_pool'[q] = payload_pool[q] /\ payloads'[q] = payloads[q]
        /\ payload_buffer'[q] = payload_buffer[q] /\ headers'[q] = headers[q]
        /\ received_header_queue'[q] = received_header_queue[q]
    BY <1>4, <1>7, <1>8, <1>12
  <2>2. WithPayload(q)' = WithPayload(q)
    BY <2>1 DEF WithPayload, MPIX_CLEANUP_TAG
  <2> QED
    BY <1>4, <2>1, <2>2 DEF RankLeakless
<1> QED
  BY <1>1, <1>4, <1>7, <1>11, <1>12 DEF LeakInv, Ranks

LEMMA RecvLeaksNothing ==
    ASSUME WorldCalls, PoolInv, Steady, LeakInv, UNCHANGED world_size, restarts = 0,
           NEW r \in Ranks, MPI_Recv(r)
    PROVE  LeakInv'
<1> SUFFICES ASSUME NEW queued, queued = received_header_queue[r],
                    NEW h, h = queued[Position(r)]
             PROVE  LeakInv'
  OBVIOUS
<1>1. /\ HeadersGood(header_pool[r], queued) /\ RankGood(r)
      /\ PayloadsGood(payload_pool[r], WithPayload(r), payload_buffer[r])
      /\ DOMAIN payload_pool = Ranks /\ DOMAIN payload_buffer = Ranks /\ DOMAIN payloads = Ranks
      /\ ToSet(queued) \subseteq DOMAIN headers[r]
      /\ DOMAIN headers = Ranks /\ DOMAIN received_header_queue = Ranks
      /\ \A q \in Ranks : RankLeakless(q)
  BY DEF PoolInv, RanksGood, RankGood, LeakInv
<1>2. Matching(r) /\ UNCHANGED <<restarts, disturbed>>
  BY DEF MPI_Recv, faultVars
<1>3. Position(r) \in 1..Len(queued) /\ h \in WithPayload(r)
  BY <1>1, <1>2, RecvFinds
<1>4. headers[r][h].protocol = "EAGER"
  <2>1. PICK g, s, c : g = Received(r)[Position(r)] /\ s = Head(plan[r]).peer /\ c = count[r] + 1
    OBVIOUS
  <2>2. GoodMessage(g, s)
    BY <2>1, FoundFacts
  <2>3. DOMAIN Received(r) = 1..Len(queued) /\ g = headers[r][h]
    BY <1>1, <1>3, <2>1 DEF Received, HeadersGood
  <2> QED
    BY <2>2, <2>3 DEF GoodMessage
<1>5. fill(r, h) /\ received_header_queue' = [received_header_queue EXCEPT ![r] = RemoveAt(queued, Position(r))]
  BY <1>4 DEF MPI_Recv, handle_match
<1>6. /\ payload_pool' = [payload_pool EXCEPT ![r] = deallocate(payload_pool[r], payload_buffer[r][h])]
      /\ payloads' = [payloads EXCEPT ![r] = Without(payloads[r], payload_buffer[r][h])]
      /\ payload_buffer' = payload_buffer
      /\ headers' = [headers EXCEPT ![r] = Without(headers[r], h)]
  BY <1>5 DEF fill, release_header
<1>7. ToSet(RemoveAt(queued, Position(r))) = ToSet(queued) \ {h}
  BY <1>1, <1>3, HeaderReleased
<1>8. WithPayload(r)' = WithPayload(r) \ {h}
  <2>1. /\ headers'[r] = Without(headers[r], h)
        /\ received_header_queue'[r] = RemoveAt(queued, Position(r))
    BY <1>1, <1>5, <1>6
  <2>2. \A g \in ToSet(queued) \ {h} : Without(headers[r], h)[g] = headers[r][g]
    BY <1>1 DEF Without
  <2>3. WithPayload(r)' = {g \in ToSet(queued) \ {h} : headers'[r][g].tag # MPIX_CLEANUP_TAG}
    BY <1>7, <2>1 DEF WithPayload, MPIX_CLEANUP_TAG
  <2>4. WithPayload(r) = {g \in ToSet(queued) : headers[r][g].tag # MPIX_CLEANUP_TAG}
    BY DEF WithPayload
  <2> QED
    BY <2>1, <2>2, <2>3, <2>4
<1>9. RankLeakless(r)'
  <2>1. NothingLost(deallocate(payload_pool[r], payload_buffer[r][h]),
                    Without(payloads[r], payload_buffer[r][h]), WithPayload(r) \ {h},
                    payload_buffer[r])
    BY <1>1, <1>3, FilledIsFree DEF RankLeakless
  <2>2. /\ payload_pool'[r] = deallocate(payload_pool[r], payload_buffer[r][h])
        /\ payloads'[r] = Without(payloads[r], payload_buffer[r][h])
        /\ payload_buffer'[r] = payload_buffer[r]
    BY <1>1, <1>6
  <2> QED
    BY <1>8, <2>1, <2>2 DEF RankLeakless
<1>10. ASSUME NEW q \in Ranks, q # r PROVE RankLeakless(q)'
  <2>1. /\ payload_pool'[q] = payload_pool[q] /\ payloads'[q] = payloads[q]
        /\ payload_buffer'[q] = payload_buffer[q] /\ headers'[q] = headers[q]
        /\ received_header_queue'[q] = received_header_queue[q]
    BY <1>1, <1>5, <1>6, <1>10
  <2>2. WithPayload(q)' = WithPayload(q)
    BY <2>1 DEF WithPayload, MPIX_CLEANUP_TAG
  <2> QED
    BY <1>1, <2>1, <2>2 DEF RankLeakless
<1> QED
  BY <1>1, <1>2, <1>6, <1>9, <1>10 DEF LeakInv, Ranks

\* Once a rank has failed there is nothing left to show.
LEMMA LeakAfterFailure ==
    ASSUME LeakInv, UNCHANGED world_size, restarts' \in Nat \ {0}, DOMAIN payloads' = Ranks
    PROVE  LeakInv'
BY DEF LeakInv, Ranks

LEMMA ProgramStays ==
    ASSUME [Next]_vars, WorldCalls'
    PROVE  WorldCalls /\ UNCHANGED <<world_size, calls>>
<1>1. UNCHANGED <<world_size, calls>>
  <2>1. ASSUME NEW r \in Ranks, User(r) PROVE calls' = calls
    BY <2>1 DEF User, Enter, MPI_Send, MPI_Recv, Return, setErr, Abort, callVars
  <2>2. ASSUME NEW r \in Ranks, ProgressThread(r) PROVE calls' = calls
    BY <2>2 DEF ProgressThread, post_header, match_abandoned, handle_request, callVars
  <2>3. Recover => calls' = calls
    BY DEF Recover
  <2>4. ASSUME NEW r \in Ranks, Fail(r) PROVE calls' = calls
    BY <2>4 DEF Fail
  <2> QED
    BY <2>1, <2>2, <2>3, <2>4 DEF Next, Work, Failure, vars, callVars
<1>2. \A k \in DOMAIN calls' : calls'[k].comm = 1 /\ Fits(world_size', calls'[k])
  BY DEF WorldCalls, Fits, WorldPlan, Steps
<1> QED
  BY <1>1, <1>2 DEF WorldCalls

LEMMA LeakStep ==
    PoolInv /\ LeftInv /\ (WorldCalls => CallInv) /\ (WorldCalls => LeakInv) /\ [Next]_vars
        => (WorldCalls => LeakInv)'
<1> SUFFICES ASSUME PoolInv, LeftInv, WorldCalls => CallInv, WorldCalls => LeakInv, [Next]_vars, WorldCalls'
             PROVE  LeakInv'
  OBVIOUS
<1>1. WorldCalls /\ LeakInv /\ CallInv
  BY ProgramStays
<1>2. restarts = 0 => Steady /\ failed = NoRank
  <2>1. restarts = 0 => Steady
    BY <1>1 DEF LeakInv, CallInv
  <2> QED
    BY <2>1 DEF Steady, FaultInv
<1>3. restarts \in Nat /\ DOMAIN payloads = Ranks
  BY <1>1 DEF LeakInv
<1>4. ASSUME UNCHANGED world_size, NEW r \in Ranks, User(r) PROVE LeakInv'
  <2>1. CASE Enter(r) \/ Return(r) \/ Abort(r)
    <3>1. UNCHANGED queueVars /\ UNCHANGED <<restarts, disturbed>>
      BY <1>4, <2>1 DEF Enter, Return, Abort, queueVars, transportVars, faultVars
    <3> QED
      BY <1>1, <3>1, LeakKept
  <2>2. CASE MPI_Send(r) \/ setErr(r)
    <3>1. UNCHANGED queueVars /\ UNCHANGED <<restarts, disturbed>>
      BY <1>4, <2>2 DEF MPI_Send, setErr, queueVars, faultVars
    <3> QED
      BY <1>1, <3>1, LeakKept
  <2>3. CASE MPI_Recv(r) /\ restarts = 0
    BY <1>1, <1>2, <1>4, <2>3, RecvLeaksNothing
  <2>4. CASE MPI_Recv(r) /\ restarts # 0
    <3>1. restarts' = restarts
      BY <2>4 DEF MPI_Recv, faultVars
    <3>2. DOMAIN payloads' = Ranks
      BY <1>3, <2>4 DEF MPI_Recv, handle_match, fill
    <3> QED
      BY <1>1, <1>3, <1>4, <2>4, <3>1, <3>2, LeakAfterFailure
  <2> QED
    BY <1>4, <2>1, <2>2, <2>3, <2>4 DEF User
<1>5. ASSUME UNCHANGED world_size, NEW r \in Ranks, NEW s \in Ranks, post_header(r, s) PROVE LeakInv'
  <2>1. CASE restarts = 0
    BY <1>1, <1>2, <1>5, <2>1, PostLeaksNothing
  <2>2. CASE restarts # 0
    <3>1. restarts' = restarts
      BY <1>5 DEF post_header, faultVars
    <3>2. TakePayload(r, s)
      BY <1>5 DEF post_header, ordered_recv, ordered_recv_and_drop
    <3>3. DOMAIN payloads' = Ranks
      BY <1>3, <3>2 DEF TakePayload
    <3> QED
      BY <1>1, <1>3, <1>5, <2>2, <3>1, <3>3, LeakAfterFailure
  <2> QED
    BY <2>1, <2>2
<1>6. ASSUME UNCHANGED world_size, NEW r \in Ranks, Fail(r) PROVE LeakInv'
  <2>1. restarts' = restarts + 1 /\ payloads' = payloads
    BY <1>6 DEF Fail, transportVars, poolVars
  <2> QED
    BY <1>1, <1>3, <1>6, <2>1, LeakAfterFailure
<1>7. ASSUME UNCHANGED world_size, Recover PROVE LeakInv'
  <2>1. restarts' = restarts /\ failed # NoRank
    BY <1>7 DEF Recover
  <2>2. payloads' = [payloads EXCEPT ![failed] = NoMemory]
    BY <1>7 DEF Recover, load, RestartTransport
  <2> QED
    BY <1>1, <1>2, <1>3, <1>7, <2>1, <2>2, LeakAfterFailure
<1>8. ASSUME UNCHANGED world_size, NEW r \in Ranks, match_abandoned(r) \/ handle_request(r)
      PROVE  LeakInv'
  <2>1. restarts # 0
    <3> SUFFICES ASSUME restarts = 0 PROVE FALSE
      OBVIOUS
    <3>1. ~disturbed /\ ~is_errSet[r]
      BY <1>1, <1>2 DEF LeakInv, Steady, FaultInv
    <3> QED
      BY <1>8, <3>1, LeftFacts
  <2>2. restarts' = restarts
    BY <1>8 DEF match_abandoned, handle_request, faultVars
  <2>3. DOMAIN payloads' = Ranks
    BY <1>3, <1>8 DEF match_abandoned, handle_request, handle_match, fill, poolVars
  <2> QED
    BY <1>1, <1>3, <1>8, <2>1, <2>2, <2>3, LeakAfterFailure
<1>9. CASE UNCHANGED vars
  <2>1. UNCHANGED queueVars /\ UNCHANGED <<restarts, disturbed>>
    BY <1>9 DEF vars, queueVars, transportVars, faultVars
  <2> QED
    BY <1>1, <2>1, LeakKept
<1> QED
  BY <1>4, <1>5, <1>6, <1>7, <1>8, <1>9 DEF Next, Work, Failure, ProgressThread

\* Without a failure no payload is lost, for every program of calls on the world and every
\* number of ranks: no rank ever drops a header, as nobody enters the next epoch before it
\* has taken what was sent to it in the last one, and fill frees what ordered_recv stored.
THEOREM WorldCallsLeakNothing == Spec => [](WorldCalls => NothingLeaks)
<1>1. (WorldCalls => LeakInv) => (WorldCalls => NothingLeaks)
  <2> SUFFICES ASSUME LeakInv, restarts = 0, NEW r \in Ranks
               PROVE  LET used == {payload_buffer[r][h] : h \in WithPayload(r)}
                      IN  /\ used \cup ToSet(payload_pool[r].free_list) = 1..payload_pool[r].size
                          /\ DOMAIN payloads[r] = used
    BY DEF NothingLeaks
  <2>1. RankLeakless(r)
    BY DEF LeakInv
  <2> QED
    BY <2>1 DEF RankLeakless, NothingLost, Uses, FreeItems
<1>2. Init => (WorldCalls => LeakInv)
  BY LeakStart
<1>3. Spec => [](WorldCalls => LeakInv)
  BY <1>2, LeakStep, CallInvariant, PTL DEF Spec
<1> QED
  BY <1>1, <1>3, PTL
===================================================================================
