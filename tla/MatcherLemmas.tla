------------------------------- MODULE MatcherLemmas -------------------------------
(***************************************************************************)
(* What the theorems about the two layers that match messages have in      *)
(* common: the matcher's queues as sets of their elements, and the pair    *)
(* that FirstMatch finds.                                                  *)
(***************************************************************************)
EXTENDS SimpleMatcher, SequenceTheorems, FiniteSetTheorems, WellFoundedInduction, TLAPS

\* The elements of a sequence.
LEMMA ElementsType ==
    ASSUME NEW S, NEW s \in Seq(S)
    PROVE  /\ ToSet(s) \subseteq S
           /\ \A e : e \in ToSet(s) <=> \E i \in 1..Len(s) : s[i] = e
BY DEF ToSet

\* Append adds one element, and keeps the elements different.
LEMMA AppendElements ==
    ASSUME NEW S, NEW s \in Seq(S), NEW e \in S
    PROVE  /\ Append(s, e) \in Seq(S)
           /\ ToSet(Append(s, e)) = ToSet(s) \cup {e}
           /\ IsInjective(s) /\ e \notin ToSet(s) => IsInjective(Append(s, e))
<1>1. Append(s, e) \in Seq(S)
  OBVIOUS
<1>2. /\ Len(Append(s, e)) = Len(s) + 1 /\ Append(s, e)[Len(s) + 1] = e
      /\ \A i \in 1..Len(s) : Append(s, e)[i] = s[i]
      /\ DOMAIN s = 1..Len(s) /\ DOMAIN Append(s, e) = 1..(Len(s) + 1)
  OBVIOUS
<1>3. ToSet(Append(s, e)) = ToSet(s) \cup {e}
  BY <1>2 DEF ToSet
<1>4. IsInjective(s) /\ e \notin ToSet(s) => IsInjective(Append(s, e))
  BY <1>2 DEF ToSet, IsInjective
<1> QED
  BY <1>1, <1>3, <1>4

\* Tail takes the first element away.
LEMMA TailElements ==
    ASSUME NEW S, NEW s \in Seq(S), s # <<>>
    PROVE  /\ Tail(s) \in Seq(S) /\ Head(s) \in S
           /\ Head(s) \in ToSet(s)
           /\ ToSet(Tail(s)) \subseteq ToSet(s)
           /\ IsInjective(s) => IsInjective(Tail(s)) /\ Head(s) \notin ToSet(Tail(s))
<1>1. /\ Len(Tail(s)) = Len(s) - 1 /\ Len(s) \in Nat /\ Len(s) > 0 /\ Head(s) = s[1]
      /\ \A i \in 1..(Len(s) - 1) : Tail(s)[i] = s[i + 1]
      /\ DOMAIN s = 1..Len(s) /\ DOMAIN Tail(s) = 1..(Len(s) - 1)
      /\ Tail(s) \in Seq(S) /\ Head(s) \in S
  OBVIOUS
<1>2. Head(s) \in ToSet(s) /\ ToSet(Tail(s)) \subseteq ToSet(s)
  BY <1>1 DEF ToSet
<1>3. IsInjective(s) => IsInjective(Tail(s)) /\ Head(s) \notin ToSet(Tail(s))
  BY <1>1 DEF ToSet, IsInjective
<1> QED
  BY <1>1, <1>2, <1>3

\* What RemoveAt leaves, position by position.
LEMMA RemoveAtPositions ==
    ASSUME NEW S, NEW s \in Seq(S), NEW i \in 1..Len(s)
    PROVE  /\ RemoveAt(s, i) \in Seq(S)
           /\ Len(RemoveAt(s, i)) = Len(s) - 1
           /\ \A j \in 1..(Len(s) - 1) : RemoveAt(s, i)[j] = IF j < i THEN s[j] ELSE s[j + 1]
<1>1. /\ SubSeq(s, 1, i - 1) \in Seq(S) /\ Len(SubSeq(s, 1, i - 1)) = i - 1
      /\ SubSeq(s, i + 1, Len(s)) \in Seq(S) /\ Len(SubSeq(s, i + 1, Len(s))) = Len(s) - i
      /\ \A j \in 1..(i - 1) : SubSeq(s, 1, i - 1)[j] = s[j]
      /\ \A j \in 1..(Len(s) - i) : SubSeq(s, i + 1, Len(s))[j] = s[i + j]
  OBVIOUS
<1> DEFINE a == SubSeq(s, 1, i - 1)
           b == SubSeq(s, i + 1, Len(s))
<1>2. RemoveAt(s, i) = a \o b
  BY DEF RemoveAt
<1>3. /\ a \in Seq(S) /\ Len(a) = i - 1 /\ b \in Seq(S) /\ Len(b) = Len(s) - i
      /\ \A j \in 1..(i - 1) : a[j] = s[j]
      /\ \A j \in 1..(Len(s) - i) : b[j] = s[i + j]
  BY <1>1
<1> HIDE DEF a, b
<1>4. /\ a \o b \in Seq(S) /\ Len(a \o b) = Len(s) - 1
      /\ \A j \in 1..(Len(s) - 1) : (a \o b)[j] = IF j <= i - 1 THEN a[j] ELSE b[j - (i - 1)]
  <2>1. Len(a) + Len(b) = Len(s) - 1
    BY <1>3
  <2>2. /\ a \o b \in Seq(S) /\ Len(a \o b) = Len(a) + Len(b)
        /\ \A j \in 1..(Len(a) + Len(b)) :
              (a \o b)[j] = IF j <= Len(a) THEN a[j] ELSE b[j - Len(a)]
    BY <1>3, ConcatProperties
  <2> QED
    BY <2>1, <2>2, <1>3
<1>5. ASSUME NEW j \in 1..(Len(s) - 1)
      PROVE  (a \o b)[j] = IF j < i THEN s[j] ELSE s[j + 1]
  <2>1. CASE j < i
    BY <2>1, <1>3, <1>4
  <2>2. CASE ~(j < i)
    <3>1. j - (i - 1) \in 1..(Len(s) - i) /\ i + (j - (i - 1)) = j + 1
      BY <2>2
    <3> QED
      BY <3>1, <2>2, <1>3, <1>4
  <2> QED
    BY <2>1, <2>2
<1> QED
  BY <1>2, <1>4, <1>5

\* RemoveAt takes one element away, and keeps the elements different.
LEMMA RemoveAtElements ==
    ASSUME NEW S, NEW s \in Seq(S), NEW i \in 1..Len(s)
    PROVE  /\ RemoveAt(s, i) \in Seq(S)
           /\ s[i] \in ToSet(s)
           /\ ToSet(RemoveAt(s, i)) \subseteq ToSet(s)
           /\ \A e \in ToSet(s) : e # s[i] => e \in ToSet(RemoveAt(s, i))
           /\ IsInjective(s) => IsInjective(RemoveAt(s, i)) /\ s[i] \notin ToSet(RemoveAt(s, i))
<1> DEFINE t == RemoveAt(s, i)
<1>1. /\ t \in Seq(S) /\ Len(t) = Len(s) - 1
      /\ \A j \in 1..(Len(s) - 1) : t[j] = IF j < i THEN s[j] ELSE s[j + 1]
  BY RemoveAtPositions
<1>2. DOMAIN t = 1..(Len(s) - 1) /\ DOMAIN s = 1..Len(s) /\ Len(s) \in Nat
  BY <1>1
<1> HIDE DEF t
<1>3. ToSet(t) \subseteq ToSet(s) /\ s[i] \in ToSet(s)
  BY <1>1, <1>2 DEF ToSet
<1>4. \A e \in ToSet(s) : e # s[i] => e \in ToSet(t)
  <2> SUFFICES ASSUME NEW j \in 1..Len(s), s[j] # s[i] PROVE s[j] \in ToSet(t)
    BY <1>2 DEF ToSet
  <2>1. CASE j < i
    BY <2>1, <1>1, <1>2 DEF ToSet
  <2>2. CASE j > i
    <3>1. j - 1 \in 1..(Len(s) - 1) /\ t[j - 1] = s[j]
      BY <2>2, <1>1, <1>2
    <3> QED
      BY <3>1, <1>2 DEF ToSet
  <2> QED
    BY <2>1, <2>2
<1>5. IsInjective(s) => IsInjective(t) /\ s[i] \notin ToSet(t)
  <2> DEFINE from(j) == IF j < i THEN j ELSE j + 1
  <2>1. \A j \in 1..(Len(s) - 1) : from(j) \in 1..Len(s) /\ from(j) # i /\ t[j] = s[from(j)]
    BY <1>1, <1>2
  <2>2. \A j, k \in 1..(Len(s) - 1) : from(j) = from(k) => j = k
    BY <1>2
  <2> HIDE DEF from
  <2>3. SUFFICES ASSUME \A j, k \in 1..Len(s) : s[j] = s[k] => j = k
                 PROVE  /\ \A j, k \in 1..(Len(s) - 1) : t[j] = t[k] => j = k
                        /\ \A j \in 1..(Len(s) - 1) : t[j] # s[i]
    BY <1>2 DEF ToSet, IsInjective
  <2> QED
    BY <2>1, <2>2, <2>3
<1> QED
  BY <1>1, <1>3, <1>4, <1>5 DEF t

\* A set of numbers has a least one.
LEMMA LeastNumber ==
    ASSUME NEW S, S \subseteq Nat, S # {}
    PROVE  \E n \in S : \A m \in S : n <= m
<1>1. PICK n \in S : TRUE
  OBVIOUS
<1> DEFINE R == StrictSubsetOrdering(0..n)
           T == {0..m : m \in S \cap 0..n}
<1>2. IsWellFoundedOn(R, SUBSET (0..n))
  <2>1. IsFiniteSet(0..n)
    BY <1>1, FS_Interval
  <2>2. FiniteSubsetsOf(0..n) = SUBSET (0..n)
    BY <2>1, FS_FiniteSubsetsOfFinite
  <2>3. IsWellFoundedOn(StrictSubsetOrdering(0..n), FiniteSubsetsOf(0..n))
    BY FS_StrictSubsetOrderingWellFounded
  <2> QED
    BY <2>2, <2>3
<1>3. T \subseteq SUBSET (0..n) /\ T # {}
  BY <1>1
<1>4. \E x \in T : \A y \in T : ~(<<y, x>> \in R)
  <2> HIDE DEF R, T
  <2> QED
    BY <1>2, <1>3, WFMin
<1>5. PICK l \in S \cap 0..n : \A m \in S \cap 0..n : ~(<<0..m, 0..l>> \in R)
  BY <1>4
<1>6. ASSUME NEW m \in S \cap 0..n, m < l PROVE FALSE
  <2>1. 0..m \subseteq 0..l /\ 0..m # 0..l /\ 0..l \subseteq 0..n
    BY <1>1, <1>6
  <2> QED
    BY <1>5, <2>1 DEF StrictSubsetOrdering
<1> QED
  BY <1>1, <1>5, <1>6

\* The matcher finds a pair when there is one.
LEMMA FirstMatchFits ==
    ASSUME NEW envelopes, NEW headers, DOMAIN envelopes \subseteq Nat,
           DOMAIN headers \subseteq Nat, MatchingPairs(envelopes, headers) # {}
    PROVE  /\ FirstMatch(envelopes, headers) \in MatchingPairs(envelopes, headers)
           /\ \A q \in MatchingPairs(envelopes, headers) :
                 Before(FirstMatch(envelopes, headers), q)
<1> DEFINE pairs == MatchingPairs(envelopes, headers)
           receives == {p[1] : p \in pairs}
<1>1. \A p \in pairs : p \in (DOMAIN envelopes) \X (DOMAIN headers) /\ p[1] \in Nat /\ p[2] \in Nat
  BY DEF MatchingPairs
<1>2. PICK i \in receives : \A j \in receives : i <= j
  <2>1. receives \in SUBSET Nat /\ receives # {}
    BY <1>1
  <2> HIDE DEF receives
  <2> QED
    BY <2>1, LeastNumber
<1> DEFINE messages == {p[2] : p \in {q \in pairs : q[1] = i}}
<1>3. PICK k \in messages : \A j \in messages : k <= j
  <2>1. messages \in SUBSET Nat /\ messages # {}
    BY <1>1
  <2> HIDE DEF messages
  <2> QED
    BY <2>1, LeastNumber
<1>4. PICK p \in pairs : p[1] = i /\ p[2] = k
  OBVIOUS
<1>5. \A q \in pairs : Before(p, q)
  BY <1>1, <1>2, <1>3, <1>4 DEF Before
<1> QED
  BY <1>4, <1>5 DEF FirstMatch
====================================================================================
