------------------------ MODULE MessageTimelineProofs ------------------------
(***************************************************************************)
(* Proofs about MessageTimeline, for every set of sends and of notices and *)
(* every size of its stores.                                               *)
(***************************************************************************)
EXTENDS MessageTimeline, FiniteSetTheorems, SequenceTheorems, TLAPS

-------------------------------------------------------------------------------
(* Sequences in order.                                                     *)

\* Of finite sets one has no other within it.
LEMMA SmallestOf ==
  ASSUME NEW S, IsFiniteSet(S), NEW I, I # {}, NEW f \in [I -> SUBSET S]
  PROVE  \E i \in I : \A j \in I : f[j] \subseteq f[i] => f[j] = f[i]
<1> DEFINE F == {f[i] : i \in I}
<1>1. FiniteSubsetsOf(S) = SUBSET S
  BY FS_FiniteSubsetsOfFinite
<1>2. IsWellFoundedOn(StrictSubsetOrdering(S), SUBSET S)
  BY <1>1, FS_StrictSubsetOrderingWellFounded
<1>3. F \subseteq SUBSET S /\ F # {}
  OBVIOUS
<1>4. PICK U \in F : \A V \in F : <<V, U>> \notin StrictSubsetOrdering(S)
  <2> HIDE DEF F
  <2> QED BY <1>2, <1>3, WFMin
<1>5. PICK i \in I : U = f[i]
  BY <1>4
<1>6. ASSUME NEW j \in I, f[j] \subseteq f[i] PROVE f[j] = f[i]
  <2>1. <<f[j], f[i]>> \in (SUBSET S) \X (SUBSET S)
    OBVIOUS
  <2>2. <<f[j], f[i]>> \notin StrictSubsetOrdering(S)
    BY <1>4, <1>5
  <2> QED BY <2>1, <2>2, <1>6 DEF StrictSubsetOrdering
<1> QED BY <1>6

\* A finite set of numbers that is not empty has a least and a greatest.
LEMMA Extremes ==
  ASSUME NEW I, IsFiniteSet(I), I # {}, \A i \in I : i \in Int
  PROVE  /\ \E i \in I : \A j \in I : i <= j
         /\ \E i \in I : \A j \in I : j <= i
<1> DEFINE ends == [i \in I |-> {j \in I : j <= i}]
           starts == [i \in I |-> {j \in I : j >= i}]
<1>1. PICK i \in I : \A j \in I : ends[j] \subseteq ends[i] => ends[j] = ends[i]
  <2>1. ends \in [I -> SUBSET I]
    OBVIOUS
  <2> HIDE DEF ends
  <2> QED BY <2>1, SmallestOf
<1>2. PICK k \in I : \A j \in I : starts[j] \subseteq starts[k] => starts[j] = starts[k]
  <2>1. starts \in [I -> SUBSET I]
    OBVIOUS
  <2> HIDE DEF starts
  <2> QED BY <2>1, SmallestOf
<1>3. ASSUME NEW j \in I PROVE i <= j
  <2> SUFFICES ASSUME ~(i <= j) PROVE FALSE
    OBVIOUS
  <2>1. ends[j] \subseteq ends[i] /\ i \in ends[i] /\ i \notin ends[j]
    OBVIOUS
  <2> HIDE DEF ends
  <2> QED BY <2>1, <1>1
<1>4. ASSUME NEW j \in I PROVE j <= k
  <2> SUFFICES ASSUME ~(j <= k) PROVE FALSE
    OBVIOUS
  <2>1. starts[j] \subseteq starts[k] /\ k \in starts[k] /\ k \notin starts[j]
    OBVIOUS
  <2> HIDE DEF starts
  <2> QED BY <2>1, <1>2
<1> QED BY <1>3, <1>4

\* A set of places that is not empty has a least and a greatest.
LEMMA LeastAndGreatest ==
  ASSUME NEW n \in Nat, NEW I \in SUBSET (1 .. n), I # {}
  PROVE  /\ \E i \in I : \A j \in I : i <= j
         /\ \E i \in I : \A j \in I : j <= i
<1>1. IsFiniteSet(I)
  <2>1. IsFiniteSet(1 .. n)
    BY FS_Interval
  <2> QED BY <2>1, FS_Subset
<1>2. \A i \in I : i \in Int
  OBVIOUS
<1> QED BY <1>1, <1>2, Extremes

\* What orders the places I.
Orders(R, I) ==
    /\ R \subseteq I \X I
    /\ \A i \in I : <<i, i>> \notin R
    /\ \A i \in I, j \in I : i # j => <<i, j>> \in R \/ <<j, i>> \in R
    /\ \A i \in I, j \in I, k \in I : <<i, j>> \in R /\ <<j, k>> \in R => <<i, k>> \in R

\* The place of a place among them.
Rank(I, R) == [i \in I |-> Cardinality({j \in I : <<j, i>> \in R}) + 1]

\* What precedes a place has fewer members than there are places, and fewer than what
\* precedes a later one; so every number of them belongs to one place.
LEMMA RanksAreNumbers ==
  ASSUME NEW I, IsFiniteSet(I), NEW R, Orders(R, I)
  PROVE  /\ Rank(I, R) \in [I -> 1 .. Cardinality(I)]
         /\ \A i \in I, j \in I : <<i, j>> \in R => Rank(I, R)[i] < Rank(I, R)[j]
         /\ \A k \in 1 .. Cardinality(I) : \E i \in I : Rank(I, R)[i] = k
<1> DEFINE before(i) == {j \in I : <<j, i>> \in R}
           rank == [i \in I |-> Cardinality(before(i)) + 1]
           n == Cardinality(I)
<1>1. n \in Nat
  BY FS_CardinalityType
<1>2. ASSUME NEW i \in I
      PROVE  IsFiniteSet(before(i)) /\ Cardinality(before(i)) \in Nat /\ Cardinality(before(i)) < n
  <2>1. before(i) \in SUBSET I /\ i \notin before(i)
    BY DEF Orders
  <2> HIDE DEF before
  <2>2. IsFiniteSet(before(i)) /\ Cardinality(before(i)) <= n /\ n # Cardinality(before(i))
    BY <2>1, FS_Subset
  <2>3. Cardinality(before(i)) \in Nat
    BY <2>2, FS_CardinalityType
  <2> HIDE DEF n
  <2> QED BY <2>2, <2>3, <1>1
<1>3. ASSUME NEW i \in I, NEW j \in I, <<i, j>> \in R
      PROVE  Cardinality(before(i)) < Cardinality(before(j))
  <2>1. before(i) \in SUBSET before(j)
    BY <1>3 DEF Orders
  <2>2. i \in before(j) /\ i \notin before(i)
    BY <1>3 DEF Orders
  <2> HIDE DEF before, n
  <2>3. Cardinality(before(i)) <= Cardinality(before(j)) /\ Cardinality(before(i)) # Cardinality(before(j))
    BY <2>1, <2>2, <1>2, FS_Subset
  <2> QED BY <2>3, <1>2
<1>4. rank \in [I -> 1 .. n]
  <2> HIDE DEF before, n
  <2> QED BY <1>1, <1>2
<1>5. \A i \in I, j \in I : <<i, j>> \in R => rank[i] < rank[j]
  <2> HIDE DEF before, n
  <2> QED BY <1>2, <1>3
<1>6. \A i \in I, j \in I : rank[i] = rank[j] => i = j
  <2>1. \A i \in I : rank[i] \in Nat
    <3> HIDE DEF rank, n
    <3> QED BY <1>4, <1>1
  <2> SUFFICES ASSUME NEW i \in I, NEW j \in I, rank[i] = rank[j], i # j PROVE FALSE
    OBVIOUS
  <2>2. <<i, j>> \in R \/ <<j, i>> \in R
    BY DEF Orders
  <2> HIDE DEF rank, n
  <2> QED BY <1>5, <2>1, <2>2
<1>7. rank \in Surjection(I, 1 .. n)
  <2>1. IsFiniteSet(1 .. n) /\ Cardinality(1 .. n) = n
    <3> HIDE DEF n
    <3> QED BY <1>1, FS_Interval
  <2>2. rank \in Injection(I, 1 .. n)
    <3> HIDE DEF rank, n
    <3> QED BY <1>4, <1>6 DEF Injection, IsInjective
  <2> HIDE DEF rank
  <2> QED BY <2>1, <2>2, FS_Injection
<1>8. \A k \in 1 .. n : \E i \in I : rank[i] = k
  <2> HIDE DEF rank, n
  <2> QED BY <1>7 DEF Surjection
<1> QED BY <1>4, <1>5, <1>8 DEF Rank

\* t has of s what stands at the places I, in the order R, each once.
Arrangement(t, s, I, R) ==
    \E p \in [1 .. Len(t) -> I] :
        /\ \A k \in 1 .. Len(t) : t[k] = s[p[k]]
        /\ \A k \in 1 .. Len(t), l \in 1 .. Len(t) : k < l => <<p[k], p[l]>> \in R
        /\ \A i \in I : \E k \in 1 .. Len(t) : p[k] = i

\* What is arranged is every place once, in order.
LEMMA ArrangedInOrder ==
  ASSUME NEW S, NEW s \in Seq(S), NEW I \in SUBSET (1 .. Len(s)), NEW R, Orders(R, I)
  PROVE  /\ Cardinality(I) \in Nat /\ Cardinality(I) <= Len(s)
         /\ Arranged(s, I, R) \in Seq(S) /\ Len(Arranged(s, I, R)) = Cardinality(I)
         /\ Arrangement(Arranged(s, I, R), s, I, R)
<1> DEFINE n == Cardinality(I)
           before(i) == {j \in I : <<j, i>> \in R}
           rank == [i \in I |-> Cardinality(before(i)) + 1]
           p == [k \in 1 .. n |-> CHOOSE i \in I : Cardinality(before(i)) = k - 1]
<1>1. IsFiniteSet(I) /\ n \in Nat /\ n <= Len(s)
  <2>1. IsFiniteSet(1 .. Len(s)) /\ Cardinality(1 .. Len(s)) = Len(s)
    BY FS_Interval, LenProperties
  <2> QED BY <2>1, FS_Subset, FS_CardinalityType
<1>2. /\ rank \in [I -> 1 .. n]
      /\ \A i \in I, j \in I : <<i, j>> \in R => rank[i] < rank[j]
      /\ \A k \in 1 .. n : \E i \in I : rank[i] = k
  <2>1. rank = Rank(I, R)
    BY DEF Rank
  <2> HIDE DEF rank, n
  <2>2. n = Cardinality(I)
    BY DEF n
  <2>3. /\ Rank(I, R) \in [I -> 1 .. Cardinality(I)]
        /\ \A i \in I, j \in I : <<i, j>> \in R => Rank(I, R)[i] < Rank(I, R)[j]
        /\ \A k \in 1 .. Cardinality(I) : \E i \in I : Rank(I, R)[i] = k
    BY <1>1, RanksAreNumbers
  <2> QED BY <2>1, <2>2, <2>3
<1>3. \A i \in I : Cardinality(before(i)) \in Nat
  <2> SUFFICES ASSUME NEW i \in I PROVE Cardinality(before(i)) \in Nat
    OBVIOUS
  <2>1. before(i) \in SUBSET I
    OBVIOUS
  <2> HIDE DEF before
  <2> QED BY <2>1, <1>1, FS_Subset, FS_CardinalityType
<1>4. \A k \in 1 .. n : p[k] \in I /\ rank[p[k]] = k
  <2> SUFFICES ASSUME NEW k \in 1 .. n PROVE p[k] \in I /\ rank[p[k]] = k
    OBVIOUS
  <2>1. \E i \in I : Cardinality(before(i)) = k - 1
    <3>1. PICK i \in I : rank[i] = k
      <4> HIDE DEF rank, n
      <4> QED BY <1>2
    <3>2. Cardinality(before(i)) + 1 = k /\ Cardinality(before(i)) \in Nat
      BY <3>1, <1>3
    <3> HIDE DEF before, n
    <3> QED BY <3>2
  <2>2. p[k] \in I /\ Cardinality(before(p[k])) = k - 1
    <3> HIDE DEF before, n
    <3> QED BY <2>1
  <2> HIDE DEF before, p, n
  <2> QED BY <2>2, <1>1
<1>5. Arranged(s, I, R) = [k \in 1 .. n |-> s[p[k]]]
  BY DEF Arranged
<1>6. \A k \in 1 .. n, l \in 1 .. n : k < l => <<p[k], p[l]>> \in R
  <2> SUFFICES ASSUME NEW k \in 1 .. n, NEW l \in 1 .. n, k < l PROVE <<p[k], p[l]>> \in R
    OBVIOUS
  <2>1. p[k] \in I /\ p[l] \in I /\ rank[p[k]] = k /\ rank[p[l]] = l
    <3> HIDE DEF rank, p, n
    <3> QED BY <1>4
  <2>2. p[k] # p[l] /\ ~(<<p[l], p[k]>> \in R)
    <3>1. k \in Int /\ l \in Int
      BY <1>1
    <3>2. <<p[l], p[k]>> \in R => rank[p[l]] < rank[p[k]]
      <4> HIDE DEF rank, p, n
      <4> QED BY <1>2, <2>1
    <3> HIDE DEF rank, p, n
    <3> QED BY <3>1, <3>2, <2>1
  <2> HIDE DEF rank, p, n
  <2> QED BY <2>1, <2>2 DEF Orders
<1>7. \A i \in I : \E k \in 1 .. n : p[k] = i
  <2> SUFFICES ASSUME NEW i \in I PROVE p[rank[i]] = i
    <3> HIDE DEF rank, p, n
    <3> QED BY <1>2
  <2>1. rank[i] \in 1 .. n /\ p[rank[i]] \in I /\ rank[p[rank[i]]] = rank[i]
    <3> HIDE DEF rank, p, n
    <3> QED BY <1>2, <1>4
  <2>2. \A j \in I : rank[j] \in Nat
    <3> HIDE DEF rank, n
    <3> QED BY <1>1, <1>2
  <2> HIDE DEF rank, p, n
  <2>3. ~(<<i, p[rank[i]]>> \in R) /\ ~(<<p[rank[i]], i>> \in R)
    <3> DEFINE q == p[rank[i]]
    <3>1. q \in I /\ rank[q] = rank[i]
      BY <2>1
    <3> HIDE DEF q
    <3>2. /\ <<i, q>> \in R => rank[i] < rank[q]
          /\ <<q, i>> \in R => rank[q] < rank[i]
      BY <3>1, <1>2
    <3>3. ~(<<i, q>> \in R) /\ ~(<<q, i>> \in R)
      BY <3>1, <3>2, <2>2
    <3> QED BY <3>3 DEF q
  <2> QED BY <2>1, <2>3 DEF Orders
<1>8. p \in [1 .. n -> I]
  <2> HIDE DEF before, n
  <2>1. \A k \in 1 .. n : p[k] \in I
    BY <1>4
  <2> QED BY <2>1
<1>9. /\ Arranged(s, I, R) \in Seq(S) /\ Len(Arranged(s, I, R)) = n
      /\ \A k \in 1 .. n : Arranged(s, I, R)[k] = s[p[k]]
  <2>1. \A k \in 1 .. n : s[p[k]] \in S
    <3>1. \A k \in 1 .. n : p[k] \in 1 .. Len(s)
      <4> HIDE DEF p, n
      <4> QED BY <1>8
    <3> HIDE DEF p, n
    <3> QED BY <3>1, ElementOfSeq
  <2> HIDE DEF p, n
  <2> QED BY <2>1, <1>5, <1>1
<1> HIDE DEF p, n
<1>10. n = Cardinality(I)
  BY DEF n
<1> QED BY <1>1, <1>6, <1>7, <1>8, <1>9, <1>10 DEF Arrangement

\* Places in the order of the list, and against it.
LEMMA PlacesAreOrdered ==
  ASSUME NEW n \in Nat, NEW I \in SUBSET (1 .. n)
  PROVE  Orders(Ascending(I), I) /\ Orders(Descending(I), I)
<1>1. \A i \in I : i \in Int
  OBVIOUS
<1>2. \A i \in I, j \in I : (<<i, j>> \in Ascending(I) <=> i < j) /\ (<<i, j>> \in Descending(I) <=> i > j)
  BY DEF Ascending, Descending
<1>3. Ascending(I) \subseteq I \X I /\ Descending(I) \subseteq I \X I
  BY DEF Ascending, Descending
<1>4. ASSUME NEW i \in I, NEW j \in I, NEW k \in I
      PROVE  /\ ~(i < i) /\ (i # j => i < j \/ j < i) /\ (i < j /\ j < k => i < k)
  BY <1>1
<1>5. Orders(Ascending(I), I)
  BY <1>2, <1>3, <1>4 DEF Orders
<1>6. ASSUME NEW i \in I, NEW j \in I, NEW k \in I
      PROVE  /\ ~(i > i) /\ (i # j => i > j \/ j > i) /\ (i > j /\ j > k => i > k)
  BY <1>1
<1>7. Orders(Descending(I), I)
  BY <1>2, <1>3, <1>6 DEF Orders
<1> QED BY <1>5, <1>7

\* The events of a list, newest first.
Recency(s) == {x \in (1 .. Len(s)) \X (1 .. Len(s)) : Newer(s, x[1], x[2])}

\* Of two events one is the newer.
LEMMA RecencyOrders ==
  ASSUME NEW S, NEW s \in Seq(S), \A e \in S : e.at \in Nat
  PROVE  Orders(Recency(s), 1 .. Len(s))
<1> DEFINE n == Len(s)
<1>1. n \in Nat
  BY LenProperties
<1>2. \A i \in 1 .. n : s[i].at \in Nat /\ i \in Int
  BY <1>1, ElementOfSeq
<1>3. \A i \in 1 .. n, j \in 1 .. n : <<i, j>> \in Recency(s) <=> Newer(s, i, j)
  BY DEF Recency
<1>4. ASSUME NEW i \in 1 .. n, NEW j \in 1 .. n, NEW k \in 1 .. n
      PROVE  /\ ~Newer(s, i, i)
             /\ i # j => Newer(s, i, j) \/ Newer(s, j, i)
             /\ Newer(s, i, j) /\ Newer(s, j, k) => Newer(s, i, k)
  <2>1. i \in Int /\ j \in Int /\ k \in Int /\ s[i].at \in Int /\ s[j].at \in Int /\ s[k].at \in Int
    BY <1>2
  <2> HIDE DEF n
  <2> QED BY <2>1 DEF Newer
<1>5. Recency(s) \subseteq (1 .. n) \X (1 .. n)
  BY DEF Recency
<1> HIDE DEF n
<1>6. Orders(Recency(s), 1 .. n)
  BY <1>3, <1>4, <1>5 DEF Orders
<1> QED BY <1>6 DEF n

\* A list by time has the events of the list, each once, the newer before the older.
LEMMA ByTimeIsSorted ==
  ASSUME NEW S, NEW s \in Seq(S), \A e \in S : e.at \in Nat
  PROVE  /\ Len(s) \in Nat
         /\ ByTime(s) \in Seq(S) /\ Len(ByTime(s)) = Len(s)
         /\ \E p \in [1 .. Len(s) -> 1 .. Len(s)] :
              /\ \A k \in 1 .. Len(s) : ByTime(s)[k] = s[p[k]]
              /\ \A k \in 1 .. Len(s), l \in 1 .. Len(s) : k < l => Newer(s, p[k], p[l])
              /\ \A i \in 1 .. Len(s) : \E k \in 1 .. Len(s) : p[k] = i
<1> DEFINE n == Len(s)
           I == 1 .. n
<1>1. n \in Nat
  BY LenProperties
<1>2. Orders(Recency(s), I)
  BY RecencyOrders
<1>3. Cardinality(I) = n
  <2> HIDE DEF n
  <2> QED BY <1>1, FS_Interval
<1>4. ByTime(s) = Arranged(s, I, Recency(s))
  BY DEF ByTime, Recency
<1>5. I \in SUBSET (1 .. Len(s))
  OBVIOUS
<1> HIDE DEF I, n
<1>6. /\ Cardinality(I) \in Nat /\ Cardinality(I) <= Len(s)
      /\ Arranged(s, I, Recency(s)) \in Seq(S) /\ Len(Arranged(s, I, Recency(s))) = Cardinality(I)
      /\ Arrangement(Arranged(s, I, Recency(s)), s, I, Recency(s))
  BY <1>2, <1>5, ArrangedInOrder
<1>6a. Arrangement(ByTime(s), s, I, Recency(s)) /\ Len(ByTime(s)) = n
  BY <1>3, <1>4, <1>6
<1>7. PICK p \in [1 .. n -> I] :
              /\ \A k \in 1 .. n : ByTime(s)[k] = s[p[k]]
              /\ \A k \in 1 .. n, l \in 1 .. n : k < l => <<p[k], p[l]>> \in Recency(s)
              /\ \A i \in I : \E k \in 1 .. n : p[k] = i
  BY <1>6a DEF Arrangement
<1>8. \A k \in 1 .. n, l \in 1 .. n : k < l => Newer(s, p[k], p[l])
  BY <1>7 DEF Recency
<1>9. ByTime(s) \in Seq(S) /\ Len(ByTime(s)) = n
  BY <1>3, <1>4, <1>6
<1> QED BY <1>1, <1>7, <1>8, <1>9 DEF I, n

\* A numbering of numbers that only grows is the identity.
LEMMA GrowingIsIdentity ==
  ASSUME NEW n \in Nat, NEW h \in [1 .. n -> 1 .. n],
         \A k \in 1 .. n, l \in 1 .. n : k < l => h[k] < h[l]
  PROVE  \A k \in 1 .. n : h[k] = k
<1>1. \A k \in 1 .. n : h[k] \in 1 .. n /\ h[k] \in Int
  OBVIOUS
<1> DEFINE Less == {k \in 1 .. n : h[k] < k}
           More == {k \in 1 .. n : h[k] > k}
<1>2. Less = {}
  <2> SUFFICES ASSUME Less # {} PROVE FALSE
    OBVIOUS
  <2>1. Less \in SUBSET (1 .. n)
    OBVIOUS
  <2>2. PICK k \in Less : \A l \in Less : k <= l
    <3> HIDE DEF Less
    <3> QED BY <2>1, LeastAndGreatest
  <2>3. k \in 1 .. n /\ h[k] < k /\ h[k] \in 1 .. n
    BY <1>1
  <2>4. k - 1 \in 1 .. n /\ k - 1 \notin Less
    <3> HIDE DEF Less
    <3> QED BY <2>2, <2>3
  <2>5. h[k - 1] >= k - 1 /\ h[k - 1] < h[k]
    BY <2>3, <2>4, <1>1
  <2> QED BY <2>3, <2>4, <2>5, <1>1
<1>3. More = {}
  <2> SUFFICES ASSUME More # {} PROVE FALSE
    OBVIOUS
  <2>1. More \in SUBSET (1 .. n)
    OBVIOUS
  <2>2. PICK k \in More : \A l \in More : l <= k
    <3> HIDE DEF More
    <3> QED BY <2>1, LeastAndGreatest
  <2>3. k \in 1 .. n /\ h[k] > k /\ h[k] \in 1 .. n
    BY <1>1
  <2>4. k + 1 \in 1 .. n /\ k + 1 \notin More
    <3> HIDE DEF More
    <3> QED BY <2>2, <2>3
  <2>5. h[k + 1] <= k + 1 /\ h[k] < h[k + 1]
    BY <2>3, <2>4, <1>1
  <2> QED BY <2>3, <2>4, <2>5, <1>1
<1> QED BY <1>1, <1>2, <1>3

\* The event saved comes first, and the oldest goes when there is no room.
LEMMA Prepended ==
  ASSUME NEW S, NEW s \in Seq(S), NEW e \in S, Len(s) <= EventsKept
  PROVE  /\ AppendLeft(e, s) \in Seq(S)
         /\ Len(AppendLeft(e, s)) = IF Len(s) < EventsKept THEN Len(s) + 1 ELSE EventsKept
         /\ AppendLeft(e, s)[1] = e
         /\ \A i \in 2 .. Len(AppendLeft(e, s)) : AppendLeft(e, s)[i] = s[i - 1] /\ i - 1 \in 1 .. Len(s)
<1> DEFINE all == <<e>> \o s
           m == IF Len(s) < EventsKept THEN Len(s) + 1 ELSE EventsKept
<1>1. Len(s) \in Nat /\ EventsKept \in Nat \ {0}
  BY LenProperties, TimelineAssumption
<1>2. m \in Nat /\ 1 <= m /\ m <= Len(s) + 1
  BY <1>1
<1>3. <<e>> \in Seq(S) /\ Len(<<e>>) = 1 /\ <<e>>[1] = e
  OBVIOUS
<1>4. all \in Seq(S) /\ Len(all) = 1 + Len(s)
      /\ \A i \in 1 .. 1 + Len(s) : all[i] = IF i <= 1 THEN e ELSE s[i - 1]
  <2> HIDE DEF all
  <2>1. all = <<e>> \o s
    BY DEF all
  <2> QED BY <1>3, <2>1, ConcatProperties
<1>5. AppendLeft(e, s) = SubSeq(all, 1, m)
  BY DEF AppendLeft
<1> HIDE DEF all, m
<1>6. \A i \in 1 .. m : all[i] \in S
  BY <1>1, <1>2, <1>4, ElementOfSeq
<1>7. /\ SubSeq(all, 1, m) \in Seq(S)
      /\ Len(SubSeq(all, 1, m)) = IF 1 <= m THEN m - 1 + 1 ELSE 0
      /\ \A i \in 1 .. m - 1 + 1 : SubSeq(all, 1, m)[i] = all[1 + i - 1]
  BY <1>2, <1>6, SubSeqProperties
<1>8. /\ SubSeq(all, 1, m) \in Seq(S) /\ Len(SubSeq(all, 1, m)) = m
      /\ \A i \in 1 .. m : SubSeq(all, 1, m)[i] = all[i]
  BY <1>2, <1>7
<1>9. \A i \in 2 .. m : all[i] = s[i - 1] /\ i - 1 \in 1 .. Len(s)
  BY <1>1, <1>2, <1>4
<1>10. all[1] = e
  BY <1>1, <1>4
<1>11. m = IF Len(s) < EventsKept THEN Len(s) + 1 ELSE EventsKept
  BY DEF m
<1> QED BY <1>1, <1>2, <1>5, <1>8, <1>9, <1>10, <1>11

\* The first of a list.
LEMMA FirstAreTheSame ==
  ASSUME NEW S, NEW s \in Seq(S), NEW n \in Nat
  PROVE  /\ FirstOf(s, n) \in Seq(S) /\ Len(FirstOf(s, n)) = IF Len(s) < n THEN Len(s) ELSE n
         /\ \A i \in 1 .. Len(FirstOf(s, n)) : FirstOf(s, n)[i] = s[i] /\ i \in 1 .. Len(s)
<1> DEFINE m == IF Len(s) < n THEN Len(s) ELSE n
<1>1. Len(s) \in Nat
  BY LenProperties
<1>2. m \in Nat /\ m <= Len(s)
  BY <1>1
<1>3. FirstOf(s, n) = SubSeq(s, 1, m)
  BY DEF FirstOf
<1>4. m = IF Len(s) < n THEN Len(s) ELSE n
  OBVIOUS
<1> HIDE DEF m
<1>5. \A i \in 1 .. m : s[i] \in S
  BY <1>1, <1>2, ElementOfSeq
<1>6. /\ SubSeq(s, 1, m) \in Seq(S)
      /\ Len(SubSeq(s, 1, m)) = IF 1 <= m THEN m - 1 + 1 ELSE 0
      /\ \A i \in 1 .. m - 1 + 1 : SubSeq(s, 1, m)[i] = s[1 + i - 1]
  BY <1>2, <1>5, SubSeqProperties
<1>7. /\ SubSeq(s, 1, m) \in Seq(S) /\ Len(SubSeq(s, 1, m)) = m
      /\ \A i \in 1 .. m : SubSeq(s, 1, m)[i] = s[i] /\ i \in 1 .. Len(s)
  BY <1>1, <1>2, <1>6
<1> QED BY <1>3, <1>4, <1>7

-------------------------------------------------------------------------------
(* The forms of the state.                                                 *)

\* The identities of what is sent.
Ids == (Sends \X Nat) \cup {NoId}

\* What is made of a notification, and what the routes make of a success.
Received == {Normalize(p, n, t) : p \in {q \in Notices : IsBusiness(q)}, n \in Nat, t \in Nat}
Local == [name : {"LOCAL_OUTBOUND_SEND", "LOCAL_SEND"}, id : Ids, ref : Ids, dir : {"outbound"},
          kind : {"text", "image"}, content : {"text"}, reply : {FALSE}, mentions : {{}}, status : {"sent", "none"},
          source : {NoNumber}, media : {{}}, at : Nat, attempt : Sends \cup {NoAttempt}]

\* The event of the newer routes has the identity; it names its send as the attempt
\* if it says that it was sent.  The others have none.
Locals ==
    {e \in Local :
        /\ e.name = "LOCAL_OUTBOUND_SEND" =>
             /\ e.id = e.ref /\ e.id \in Sends \X Nat
             /\ e.attempt # NoAttempt => e.attempt = e.id[1] /\ e.status = "sent"
        /\ e.name = "LOCAL_SEND" => e.id = NoId}
Business == Received \cup Locals
Operational == [name : {"PIPELINE"}, at : Nat]
Events == Business \cup Operational
KeysOf == {EventKey(e) : e \in Business} \ {NoEventKey}

Ended == [pc |-> "ended"]
UnderWay == [pc : {"posting", "taken", "failed"}, route : Routes, provider : {"evolution", "meta", "instagram"},
             form : {"text", "url", "raw", "uri", "buttons"}, tries : {0}]
Attempts == [of : Sends, id : Ids]
Hearings == [id : {ChosenUpdate(p.items).id : p \in Notices}, status : {UpdateStatus(p.items) : p \in Notices}, at : Nat]
Histories == [saves : Nat, upsets : Nat, file : {"current", "behind"}, taken : [Sends -> Nat], heard : SUBSET Hearings]

LayersForm(b, o) ==
    /\ b \in Seq(Business) /\ Len(b) <= EventsKept
    /\ o \in Seq(Operational) /\ Len(o) <= EventsKept
FileForm(f) == f \in Seq(Events) /\ Len(f) <= EventsKept
KeysForm(order, known) ==
    /\ order \in Seq(KeysOf) /\ Len(order) <= KeysKept
    /\ known = {order[i] : i \in 1 .. Len(order)}
    /\ \A i \in 1 .. Len(order), j \in 1 .. Len(order) : order[i] = order[j] => i = j
AttemptsForm(a) == a \in Seq(Attempts) /\ Len(a) <= AttemptsKept
SendsForm(all) == all \in [Sends -> {New, Ended} \cup UnderWay]

MtForm ==
    /\ LayersForm(business, operational) /\ FileForm(stored) /\ KeysForm(keyOrder, keys)
    /\ AttemptsForm(attempts) /\ SendsForm(sends) /\ clock \in Nat /\ mt \in Histories

\* What an event from the provider is.
LEMMA ReceivedIs ==
  ASSUME NEW e \in Received
  PROVE  /\ e.name \in {"MESSAGES_UPSERT", "MESSAGES_UPDATE", "SEND_MESSAGE"}
         /\ e.dir \in {"inbound", "outbound", "status"} /\ (e.dir = "status" <=> e.name = "MESSAGES_UPDATE")
         /\ e.at \in Nat /\ e.attempt = NoAttempt /\ e.ref = e.id
         /\ e.name = "MESSAGES_UPDATE" => e.kind = "message_status" /\ e.status # "none"
         /\ e.name # "MESSAGES_UPDATE" => e.status = "received"
<1>1. PICK p \in {q \in Notices : IsBusiness(q)}, n \in Nat, t \in Nat : e = Normalize(p, n, t)
  BY DEF Received
<1>2. CASE Canonical(p.event) = "MESSAGES_UPDATE"
  <2>1. UpdateStatus(p.items) # "none"
    BY DEF UpdateStatus
  <2> QED BY <1>1, <1>2, <2>1 DEF Normalize
<1>3. CASE Canonical(p.event) # "MESSAGES_UPDATE"
  <2>1. Canonical(p.event) \in {"MESSAGES_UPSERT", "SEND_MESSAGE"}
    BY <1>3 DEF IsBusiness
  <2> QED BY <1>1, <1>3, <2>1 DEF Normalize
<1> QED BY <1>2, <1>3

\* What an event of the Gateway's own is.
LEMMA LocalIs ==
  ASSUME NEW e \in Locals
  PROVE  /\ e.name \in {"LOCAL_OUTBOUND_SEND", "LOCAL_SEND"} /\ e.dir = "outbound"
         /\ e.at \in Nat /\ e.attempt \in Sends \cup {NoAttempt} /\ e.status \in {"sent", "none"}
         /\ e.name = "LOCAL_OUTBOUND_SEND" =>
              /\ e.id = e.ref /\ e.id \in Sends \X Nat
              /\ e.attempt # NoAttempt => e.attempt = e.id[1] /\ e.status = "sent"
         /\ e.name = "LOCAL_SEND" => e.id = NoId
  BY DEF Locals, Local

\* The layers are told apart by the names, and every event has its time.
LEMMA EventIs ==
  /\ \A e \in Business : ~IsOperational(e) /\ e.at \in Nat
  /\ \A e \in Operational : IsOperational(e) /\ e.at \in Nat
  /\ \A e \in Events : e.at \in Nat
<1>1. \A e \in Business : ~IsOperational(e) /\ e.at \in Nat
  BY ReceivedIs, LocalIs DEF Business, IsOperational
<1>2. \A e \in Operational : IsOperational(e) /\ e.at \in Nat
  BY DEF Operational, IsOperational
<1> QED BY <1>1, <1>2 DEF Events

\* The list of the layers has the events of both.
LEMMA ListForm ==
  ASSUME NEW b, NEW o, LayersForm(b, o)
  PROVE  /\ b \o o \in Seq(Events) /\ Len(b) \in Nat /\ Len(o) \in Nat /\ Len(b \o o) = Len(b) + Len(o)
         /\ \A i \in 1 .. Len(b) + Len(o) : (b \o o)[i] = IF i <= Len(b) THEN b[i] ELSE o[i - Len(b)]
         /\ ListEvents(b, o) \in Seq(Events) /\ Len(ListEvents(b, o)) = Len(b) + Len(o)
         /\ FileForm(FirstOf(ListEvents(b, o), EventsKept))
<1>1. b \in Seq(Events) /\ o \in Seq(Events)
  BY SeqMonotonic DEF LayersForm, Events
<1>2. /\ b \o o \in Seq(Events) /\ Len(b \o o) = Len(b) + Len(o)
      /\ \A i \in 1 .. Len(b) + Len(o) : (b \o o)[i] = IF i <= Len(b) THEN b[i] ELSE o[i - Len(b)]
  BY <1>1, ConcatProperties
<1>3. ByTime(b \o o) \in Seq(Events) /\ Len(ByTime(b \o o)) = Len(b \o o)
  BY <1>2, EventIs, ByTimeIsSorted
<1>4. EventsKept \in Nat
  BY TimelineAssumption
<1>5. FileForm(FirstOf(ListEvents(b, o), EventsKept))
  <2>1. /\ FirstOf(ByTime(b \o o), EventsKept) \in Seq(Events)
        /\ Len(FirstOf(ByTime(b \o o), EventsKept)) =
             IF Len(ByTime(b \o o)) < EventsKept THEN Len(ByTime(b \o o)) ELSE EventsKept
    BY <1>3, <1>4, FirstAreTheSame
  <2>2. Len(ByTime(b \o o)) \in Nat
    BY <1>3, LenProperties
  <2> QED BY <2>1, <2>2, <1>4 DEF FileForm, ListEvents
<1> QED BY <1>1, <1>2, <1>3, <1>5, LenProperties DEF ListEvents

-------------------------------------------------------------------------------
(* What the actions do to the layers, the keys and the file.               *)

\* An event is saved that is not yet known; its key, if it has one, is remembered.
Added(e) ==
    /\ business' = AppendLeft(e, business) /\ e \in Business /\ e.at = clock
    /\ IF EventKey(e) = NoEventKey
       THEN keyOrder' = keyOrder /\ keys' = keys
       ELSE EventKey(e) \notin keys /\ Remember(EventKey(e))
NothingAdded == business' = business /\ keyOrder' = keyOrder /\ keys' = keys

\* The file has what the layers have, or has it not and it is known.
Written ==
    \/ business' = business /\ operational' = operational /\ stored' = stored /\ mt'.file = mt.file
    \/ stored' = FirstOf(ListEvents(business', operational'), EventsKept) /\ mt'.file = "current"
    \/ stored' = stored /\ mt'.file = "behind"

\* A saved event keeps the layer's form.
LEMMA AddedForm ==
  ASSUME NEW b, NEW o, LayersForm(b, o), NEW e \in Business
  PROVE  LayersForm(AppendLeft(e, b), o)
<1>1. b \in Seq(Business) /\ Len(b) <= EventsKept /\ Len(b) \in Nat /\ EventsKept \in Nat
  BY LenProperties, TimelineAssumption DEF LayersForm
<1>2. /\ AppendLeft(e, b) \in Seq(Business)
      /\ Len(AppendLeft(e, b)) = IF Len(b) < EventsKept THEN Len(b) + 1 ELSE EventsKept
  BY <1>1, Prepended
<1> QED BY <1>1, <1>2 DEF LayersForm

\* So does an event of the pipeline.
LEMMA NotedForm ==
  ASSUME NEW b, NEW o, LayersForm(b, o), NEW t \in Nat
  PROVE  LayersForm(b, AppendLeft([name |-> "PIPELINE", at |-> t], o))
<1> DEFINE e == [name |-> "PIPELINE", at |-> t]
<1>1. o \in Seq(Operational) /\ Len(o) <= EventsKept /\ Len(o) \in Nat /\ EventsKept \in Nat
  BY LenProperties, TimelineAssumption DEF LayersForm
<1>2. e \in Operational
  BY DEF Operational
<1> HIDE DEF e
<1>3. /\ AppendLeft(e, o) \in Seq(Operational)
      /\ Len(AppendLeft(e, o)) = IF Len(o) < EventsKept THEN Len(o) + 1 ELSE EventsKept
  BY <1>1, <1>2, Prepended
<1>4. LayersForm(b, AppendLeft(e, o))
  BY <1>1, <1>3 DEF LayersForm
<1> QED BY <1>4 DEF e

\* A new key keeps their form: the oldest goes when there is no room.
LEMMA RememberedForm ==
  ASSUME KeysForm(keyOrder, keys), NEW k \in KeysOf, k \notin keys, Remember(k)
  PROVE  /\ KeysForm(keyOrder', keys')
         /\ \/ keyOrder' = Append(keyOrder, k) /\ Len(keyOrder) < KeysKept
            \/ keyOrder' = Tail(Append(keyOrder, k)) /\ Len(keyOrder) = KeysKept
<1> DEFINE order == Append(keyOrder, k)
<1>1. /\ keyOrder \in Seq(KeysOf) /\ Len(keyOrder) \in Nat /\ Len(keyOrder) <= KeysKept
      /\ KeysKept \in Nat /\ KeysKept >= 1
  <2>1. KeysKept >= 3 * EventsKept /\ EventsKept \in Nat \ {0} /\ KeysKept \in Nat
    BY TimelineAssumption
  <2> QED BY <2>1, LenProperties DEF KeysForm
<1>2. /\ order \in Seq(KeysOf) /\ Len(order) = Len(keyOrder) + 1 /\ order # <<>>
      /\ \A i \in 1 .. Len(keyOrder) : order[i] = keyOrder[i]
      /\ order[Len(keyOrder) + 1] = k
  BY <1>1, AppendProperties
<1>3. \A i \in 1 .. Len(order), j \in 1 .. Len(order) : order[i] = order[j] => i = j
  <2>1. \A i \in 1 .. Len(keyOrder) : keyOrder[i] # k
    BY DEF KeysForm
  <2> HIDE DEF order
  <2> QED BY <1>1, <1>2, <2>1 DEF KeysForm
<1>4. keys \cup {k} = {order[i] : i \in 1 .. Len(order)}
  <2>1. keys = {keyOrder[i] : i \in 1 .. Len(keyOrder)}
    BY DEF KeysForm
  <2> HIDE DEF order
  <2>2. ASSUME NEW x \in keys \cup {k} PROVE \E i \in 1 .. Len(order) : x = order[i]
    <3>1. CASE x = k
      BY <3>1, <1>1, <1>2
    <3>2. CASE x \in keys
      <4>1. PICK i \in 1 .. Len(keyOrder) : x = keyOrder[i]
        BY <3>2, <2>1
      <4> QED BY <4>1, <1>1, <1>2
    <3> QED BY <3>1, <3>2
  <2>3. ASSUME NEW i \in 1 .. Len(order) PROVE order[i] \in keys \cup {k}
    <3>1. CASE i = Len(keyOrder) + 1
      BY <3>1, <1>2
    <3>2. CASE i \in 1 .. Len(keyOrder)
      BY <3>2, <1>2, <2>1
    <3> QED BY <3>1, <3>2, <1>1, <1>2
  <2> QED BY <2>2, <2>3
<1>5. CASE Len(keyOrder) < KeysKept
  <2>1. keyOrder' = order /\ keys' = keys \cup {k}
    <3>1. ~(Len(order) > KeysKept)
      BY <1>1, <1>2, <1>5
    <3> QED BY <3>1 DEF Remember
  <2>2. Len(order) <= KeysKept
    BY <1>1, <1>2, <1>5
  <2> HIDE DEF order
  <2>3. KeysForm(order, keys \cup {k})
    BY <1>2, <1>3, <1>4, <2>2 DEF KeysForm
  <2>4. order = Append(keyOrder, k)
    BY DEF order
  <2> QED BY <2>1, <2>3, <2>4, <1>5
<1>6. CASE ~(Len(keyOrder) < KeysKept)
  <2>1. keyOrder' = Tail(order) /\ keys' = (keys \cup {k}) \ {Head(order)}
    <3>1. Len(order) > KeysKept
      BY <1>1, <1>2, <1>6
    <3> QED BY <3>1 DEF Remember
  <2> HIDE DEF order
  <2>2. /\ Tail(order) \in Seq(KeysOf) /\ Len(Tail(order)) = Len(order) - 1
        /\ \A i \in 1 .. Len(Tail(order)) : Tail(order)[i] = order[i + 1]
    BY <1>2, HeadTailProperties
  <2>3. Head(order) = order[1]
    BY <1>2
  <2>4. Len(Tail(order)) = Len(keyOrder) /\ Len(keyOrder) = KeysKept
    BY <2>2, <1>1, <1>2, <1>6
  <2>5. \A i \in 1 .. Len(keyOrder), j \in 1 .. Len(keyOrder) : Tail(order)[i] = Tail(order)[j] => i = j
    BY <2>2, <2>4, <1>1, <1>2, <1>3
  <2>6. (keys \cup {k}) \ {Head(order)} = {Tail(order)[i] : i \in 1 .. Len(Tail(order))}
    <3>1. ASSUME NEW x \in keys \cup {k}, x # Head(order) PROVE \E i \in 1 .. Len(Tail(order)) : x = Tail(order)[i]
      <4>1. PICK i \in 1 .. Len(order) : x = order[i]
        BY <1>4
      <4>2. i - 1 \in 1 .. Len(Tail(order)) /\ Tail(order)[i - 1] = order[i]
        BY <3>1, <4>1, <2>2, <2>3, <2>4, <1>1, <1>2
      <4> QED BY <4>1, <4>2
    <3>2. ASSUME NEW i \in 1 .. Len(Tail(order)) PROVE Tail(order)[i] \in keys \cup {k} /\ Tail(order)[i] # Head(order)
      <4>1. i + 1 \in 1 .. Len(order) /\ 1 \in 1 .. Len(order) /\ i + 1 # 1 /\ Tail(order)[i] = order[i + 1]
        BY <2>2, <2>4, <1>1, <1>2
      <4> QED BY <4>1, <2>3, <1>3, <1>4
    <3> QED BY <3>1, <3>2
  <2>7. KeysForm(Tail(order), (keys \cup {k}) \ {Head(order)})
    BY <2>2, <2>4, <2>5, <2>6, <1>1 DEF KeysForm
  <2>8. order = Append(keyOrder, k)
    BY DEF order
  <2> QED BY <2>1, <2>4, <2>7, <2>8
<1> QED BY <1>5, <1>6

\* The send that an event is of.
Source(e) == IF e.name = "LOCAL_OUTBOUND_SEND" THEN e.id[1] ELSE e.attempt

\* The status that an update is about is heard of.
HeardWith(e) ==
    IF e.dir = "status" THEN mt.heard \cup {[id |-> e.id, status |-> e.status, at |-> e.at]} ELSE mt.heard

\* Every step but the death of the process adds one event at most, of a notification
\* or of a send that ends; what has ended stays so; a write that fails is counted.
Step ==
    /\ Written
    /\ mt'.upsets = mt.upsets \/ mt'.saves = mt.saves + 1
    /\ clock' >= clock
    /\ \/ NothingAdded /\ mt'.heard = mt.heard
       \/ \E e \in Received : Added(e) /\ mt'.heard = HeardWith(e)
       \/ \E e \in Locals : /\ Added(e) /\ mt'.heard = mt.heard
                            /\ Source(e) \in Sends => sends[Source(e)] # Ended /\ sends'[Source(e)] = Ended
    /\ \A s \in Sends : sends[s] = Ended => sends'[s] = Ended

\* The keys keep their form.
LEMMA AddedKeys ==
  ASSUME MtForm, (\E e \in Business : Added(e)) \/ NothingAdded
  PROVE  KeysForm(keyOrder', keys')
<1>1. CASE NothingAdded
  BY <1>1 DEF NothingAdded, MtForm
<1>2. ASSUME NEW e \in Business, Added(e) PROVE KeysForm(keyOrder', keys')
  <2>1. CASE EventKey(e) = NoEventKey
    BY <1>2, <2>1 DEF Added, MtForm
  <2>2. CASE EventKey(e) # NoEventKey
    <3>1. EventKey(e) \in KeysOf
      BY <2>2 DEF KeysOf
    <3>2. KeysForm(keyOrder, keys) /\ EventKey(e) \notin keys /\ Remember(EventKey(e))
      BY <1>2, <2>2 DEF Added, MtForm
    <3> QED BY <3>1, <3>2, RememberedForm
  <2> QED BY <2>1, <2>2
<1> QED BY <1>1, <1>2

\* Whatever is saved, the layer keeps its form.
LEMMA AddedLayer ==
  ASSUME MtForm, (\E e \in Business : Added(e)) \/ NothingAdded,
         operational' = operational \/ SavePipelineEvent
  PROVE  LayersForm(business', operational')
<1>1. LayersForm(business, operational) /\ clock \in Nat
  BY DEF MtForm
<1>2. LayersForm(business', operational)
  <2>1. CASE NothingAdded
    BY <1>1, <2>1 DEF NothingAdded
  <2>2. ASSUME NEW e \in Business, Added(e) PROVE LayersForm(business', operational)
    <3>1. business' = AppendLeft(e, business)
      BY <2>2 DEF Added
    <3> QED BY <1>1, <3>1, AddedForm
  <2> QED BY <2>1, <2>2
<1>3. CASE operational' = operational
  BY <1>2, <1>3
<1>4. CASE SavePipelineEvent
  <2>1. operational' = AppendLeft([name |-> "PIPELINE", at |-> clock], operational)
    BY <1>4 DEF SavePipelineEvent
  <2>2. LayersForm(business, AppendLeft([name |-> "PIPELINE", at |-> clock], operational))
    BY <1>1, NotedForm
  <2> QED BY <1>2, <2>1, <2>2 DEF LayersForm
<1> QED BY <1>3, <1>4

\* What is saved is new, or it changes nothing.
LEMMA SavedIsAdded ==
  ASSUME NEW e \in Business, e.at = clock, NEW ok, SaveEvent(e, ok)
  PROVE  IF EventKey(e) # NoEventKey /\ EventKey(e) \in keys THEN NothingAdded ELSE Added(e)
<1>1. CASE EventKey(e) # NoEventKey /\ EventKey(e) \in keys
  BY <1>1 DEF SaveEvent, NothingAdded
<1>2. CASE EventKey(e) = NoEventKey
  BY <1>2 DEF SaveEvent, Added
<1>3. CASE EventKey(e) # NoEventKey /\ EventKey(e) \notin keys
  BY <1>3 DEF SaveEvent, Added
<1> QED BY <1>1, <1>2, <1>3

\* The file is written as a whole, or stays as it is.
LEMMA WriteEffect ==
  ASSUME MtForm, LayersForm(business', operational'), NEW ok \in BOOLEAN, NEW history \in Histories,
         history.file = mt.file, history.upsets = mt.upsets, history.saves = mt.saves, WriteAs(ok, history)
  PROVE  /\ FileForm(stored') /\ mt' \in Histories /\ Written
         /\ mt'.heard = history.heard /\ mt'.taken = history.taken
         /\ mt'.upsets = mt.upsets \/ mt'.saves = mt.saves + 1
<1>1. FileForm(FirstOf(ListEvents(business', operational'), EventsKept))
  BY ListForm
<1>2. CASE business' = business /\ operational' = operational
  <2>1. stored' = stored /\ mt' = history
    BY <1>2 DEF WriteAs
  <2> QED BY <1>2, <2>1 DEF MtForm, Written
<1>3. CASE ~(business' = business /\ operational' = operational)
  <2>1. /\ stored' = IF ok THEN FirstOf(ListEvents(business', operational'), EventsKept) ELSE stored
        /\ mt' = [history EXCEPT !.saves = @ + 1, !.upsets = IF ok THEN @ ELSE @ + 1, !.file = IF ok THEN "current" ELSE "behind"]
    BY <1>3 DEF WriteAs
  <2>2. history.saves \in Nat /\ history.upsets \in Nat /\ mt.saves \in Nat
    BY DEF Histories, MtForm
  <2>3. mt' \in Histories /\ mt'.file = (IF ok THEN "current" ELSE "behind") /\ mt'.saves = history.saves + 1
        /\ mt'.heard = history.heard /\ mt'.taken = history.taken
    <3> DEFINE m == IF ok THEN history.upsets ELSE history.upsets + 1
               u == IF ok THEN "current" ELSE "behind"
    <3>1. mt' = [history EXCEPT !.saves = history.saves + 1, !.upsets = m, !.file = u]
      BY <2>1
    <3>2. history.saves + 1 \in Nat /\ m \in Nat /\ u \in {"current", "behind"}
      BY <2>2
    <3>3. u = IF ok THEN "current" ELSE "behind"
      OBVIOUS
    <3> HIDE DEF m, u
    <3>4. mt' = [saves |-> history.saves + 1, upsets |-> m, file |-> u, taken |-> history.taken, heard |-> history.heard]
      BY <3>1 DEF Histories
    <3>5. mt' \in Histories
      BY <3>2, <3>4 DEF Histories
    <3> QED BY <3>3, <3>4, <3>5
  <2>4. FileForm(stored')
    BY <1>1, <2>1 DEF MtForm
  <2>5. Written
    BY <2>1, <2>3 DEF Written
  <2> QED BY <2>2, <2>3, <2>4, <2>5
<1> QED BY <1>2, <1>3

-------------------------------------------------------------------------------
(* Each action keeps the forms, and is a step.                             *)

\* A send that moves is under way or ended.
LEMMA SendMoves ==
  ASSUME SendsForm(sends), NEW s \in Sends, NEW to \in {Ended} \cup UnderWay, sends[s] # Ended,
         sends' = [sends EXCEPT ![s] = to]
  PROVE  /\ SendsForm(sends') /\ sends'[s] = to
         /\ \A r \in Sends : sends[r] = Ended => sends'[r] = Ended
  BY DEF SendsForm

\* A send that is under way is not new, and has not ended.
LEMMA UnderWayIs ==
  ASSUME SendsForm(sends), NEW s \in Sends
  PROVE  /\ sends[s].pc \in {"posting", "taken", "failed"} => sends[s] \in UnderWay
         /\ sends[s] \in UnderWay => sends[s] # Ended /\ sends[s] # New
         /\ New # Ended
<1>1. sends[s] \in {New, Ended} \cup UnderWay
  BY DEF SendsForm
<1>2. New.pc = "new" /\ Ended.pc = "ended" /\ \A x \in UnderWay : x.pc \in {"posting", "taken", "failed"}
  BY DEF New, Ended, UnderWay
<1> QED BY <1>1, <1>2

\* A new request is under way.
LEMMA RequestUnderWay ==
  ASSUME NEW route \in Routes, NEW provider \in Providers(route), NEW form \in Forms(route)
  PROVE  [pc |-> "posting", route |-> route, provider |-> provider, form |-> form, tries |-> Retries] \in UnderWay
<1>1. provider \in {"evolution", "meta", "instagram"}
  BY DEF Providers
<1>2. form \in {"text", "url", "raw", "uri", "buttons"}
  BY DEF Forms
<1> QED BY <1>1, <1>2 DEF UnderWay, Retries

\* An attempt is kept, the oldest goes when there is no room.
LEMMA KeptForm ==
  ASSUME AttemptsForm(attempts), NEW s \in Sends
  PROVE  /\ AttemptsForm(KeepAttempt(s))
         /\ Len(attempts) \in Nat
         /\ \/ Len(KeepAttempt(s)) = Len(attempts) + 1
               /\ \A i \in 1 .. Len(attempts) : KeepAttempt(s)[i] = attempts[i]
            \/ Len(KeepAttempt(s)) = Len(attempts) /\ Len(attempts) >= 1
               /\ \A i \in 1 .. Len(attempts) - 1 : KeepAttempt(s)[i] = attempts[i + 1]
         /\ KeepAttempt(s)[Len(KeepAttempt(s))] = [of |-> s, id |-> NoId]
<1> DEFINE new == [of |-> s, id |-> NoId]
           all == Append(attempts, new)
<1>1. attempts \in Seq(Attempts) /\ Len(attempts) \in Nat /\ Len(attempts) <= AttemptsKept /\ AttemptsKept \in Nat \ {0}
  BY LenProperties, TimelineAssumption DEF AttemptsForm
<1>2. new \in Attempts
  BY DEF Attempts, Ids
<1>3. KeepAttempt(s) = IF Len(all) > AttemptsKept THEN Tail(all) ELSE all
  BY DEF KeepAttempt
<1> HIDE DEF new
<1>4. /\ all \in Seq(Attempts) /\ Len(all) = Len(attempts) + 1 /\ all # <<>>
      /\ \A i \in 1 .. Len(attempts) : all[i] = attempts[i]
      /\ all[Len(attempts) + 1] = new
  BY <1>1, <1>2, AppendProperties
<1> HIDE DEF all
<1>5. /\ Tail(all) \in Seq(Attempts) /\ Len(Tail(all)) = Len(all) - 1
      /\ \A i \in 1 .. Len(Tail(all)) : Tail(all)[i] = all[i + 1]
  BY <1>4, HeadTailProperties
<1>6. CASE Len(all) > AttemptsKept
  <2>1. KeepAttempt(s) = Tail(all) /\ Len(attempts) = AttemptsKept /\ Len(Tail(all)) = Len(attempts)
    BY <1>1, <1>3, <1>4, <1>5, <1>6
  <2>2. Tail(all)[Len(attempts)] = new /\ \A i \in 1 .. Len(attempts) - 1 : Tail(all)[i] = attempts[i + 1]
    BY <2>1, <1>1, <1>4, <1>5
  <2> QED BY <2>1, <2>2, <1>1, <1>5 DEF AttemptsForm, new
<1>7. CASE ~(Len(all) > AttemptsKept)
  <2>1. KeepAttempt(s) = all /\ Len(all) <= AttemptsKept
    BY <1>1, <1>3, <1>4, <1>7
  <2> QED BY <2>1, <1>1, <1>4 DEF AttemptsForm, new
<1> QED BY <1>6, <1>7

\* The attempts of a send that ended have its identity.
LEMMA FinishedForm ==
  ASSUME AttemptsForm(attempts), NEW s, NEW id \in Ids
  PROVE  /\ AttemptsForm(Finished(s, id)) /\ Len(Finished(s, id)) = Len(attempts)
         /\ \A i \in 1 .. Len(attempts) : Finished(s, id)[i].of = attempts[i].of
<1>1. attempts \in Seq(Attempts) /\ Len(attempts) \in Nat /\ Len(attempts) <= AttemptsKept
  BY LenProperties DEF AttemptsForm
<1>2. \A i \in 1 .. Len(attempts) : attempts[i] \in Attempts
  BY <1>1, ElementOfSeq
<1>3. \A i \in 1 .. Len(attempts) : Finished(s, id)[i] \in Attempts /\ Finished(s, id)[i].of = attempts[i].of
  BY <1>2 DEF Finished, Attempts
<1>4. Finished(s, id) \in Seq(Attempts) /\ Len(Finished(s, id)) = Len(attempts)
  BY <1>1, <1>3 DEF Finished
<1> QED BY <1>1, <1>3, <1>4 DEF AttemptsForm

\* A request keeps its attempt, and may be announced.
LEMMA RequestSteps ==
  ASSUME MtForm, NEW s \in Sends, NEW route \in Routes, NEW provider \in Providers(route), NEW form \in Forms(route),
         NEW ok \in BOOLEAN, Request(s, route, provider, form, ok)
  PROVE  MtForm' /\ Step /\ mt'.taken = mt.taken
<1> DEFINE to == [pc |-> "posting", route |-> route, provider |-> provider, form |-> form, tries |-> Retries]
<1>1. to \in UnderWay
  BY RequestUnderWay
<1>2. sends[s] = New /\ sends' = [sends EXCEPT ![s] = to]
  BY DEF Request
<1> HIDE DEF to
<1>3. SendsForm(sends') /\ \A r \in Sends : sends[r] = Ended => sends'[r] = Ended
  <2>1. SendsForm(sends) /\ sends[s] # Ended
    BY <1>2, UnderWayIs DEF MtForm
  <2> QED BY <1>1, <1>2, <2>1, SendMoves
<1>4. AttemptsForm(attempts')
  BY KeptForm DEF Request, MtForm
<1>5. NothingAdded /\ clock' = clock /\ (operational' = operational \/ SavePipelineEvent)
  BY DEF Request, NothingAdded
<1>6. LayersForm(business', operational') /\ KeysForm(keyOrder', keys')
  BY <1>5, AddedLayer, AddedKeys
<1>7. WriteAs(ok, mt) /\ mt \in Histories
  BY DEF Request, Write, MtForm
<1>8. FileForm(stored') /\ mt' \in Histories /\ Written /\ mt'.heard = mt.heard /\ mt'.taken = mt.taken
      /\ (mt'.upsets = mt.upsets \/ mt'.saves = mt.saves + 1)
  BY <1>6, <1>7, WriteEffect
<1>9. clock \in Nat
  BY DEF MtForm
<1> QED BY <1>3, <1>4, <1>5, <1>6, <1>8, <1>9 DEF MtForm, Step

\* A refused request is recorded, with its announcement or alone.
LEMMA RefusalSteps ==
  ASSUME MtForm, NEW s \in Sends, NEW route \in Routes, NEW form \in Forms(route), RefuseRequest(s, route, form)
  PROVE  MtForm' /\ Step /\ mt'.taken = mt.taken
<1> DEFINE event == [name |-> "PIPELINE", at |-> clock]
           announced == IF Announced(route, form) THEN AppendLeft(event, operational) ELSE operational
<1>1. sends[s] = New /\ sends' = [sends EXCEPT ![s] = Ended]
  BY DEF RefuseRequest, Ended
<1>2. SendsForm(sends') /\ \A r \in Sends : sends[r] = Ended => sends'[r] = Ended
  <2>1. SendsForm(sends) /\ sends[s] # Ended
    BY <1>1, UnderWayIs DEF MtForm
  <2> QED BY <1>1, <2>1, SendMoves
<1>3. LayersForm(business, operational) /\ clock \in Nat
  BY DEF MtForm
<1>4. LayersForm(business, announced)
  BY <1>3, NotedForm
<1>5. LayersForm(business, AppendLeft(event, announced))
  <2> HIDE DEF announced
  <2> QED BY <1>3, <1>4, NotedForm
<1>6. operational' = (IF route = "quick" THEN announced ELSE AppendLeft(event, announced)) /\ business' = business
  BY DEF RefuseRequest
<1> HIDE DEF announced, event
<1>7. LayersForm(business', operational')
  BY <1>4, <1>5, <1>6
<1>8. FileForm(FirstOf(ListEvents(business', operational'), EventsKept))
  BY <1>7, ListForm
<1>9. /\ stored' = FirstOf(ListEvents(business', operational'), EventsKept)
      /\ mt' = [mt EXCEPT !.upsets = @ + 1, !.saves = @ + 1, !.file = "current"]
      /\ NothingAdded /\ UNCHANGED <<attempts, clock>>
  BY DEF RefuseRequest, NothingAdded
<1>10. /\ mt' \in Histories /\ mt'.heard = mt.heard /\ mt'.taken = mt.taken
       /\ mt'.saves = mt.saves + 1 /\ mt'.file = "current"
  <2>1. mt \in Histories /\ mt.saves \in Nat /\ mt.upsets \in Nat
    BY DEF MtForm, Histories
  <2>2. mt' = [saves |-> mt.saves + 1, upsets |-> mt.upsets + 1, file |-> "current", taken |-> mt.taken, heard |-> mt.heard]
    BY <1>9, <2>1 DEF Histories
  <2>3. mt' \in Histories
    BY <2>1, <2>2 DEF Histories
  <2> QED BY <2>2, <2>3
<1>11. Written
  BY <1>9, <1>10 DEF Written
<1>12. KeysForm(keyOrder', keys') /\ AttemptsForm(attempts') /\ clock' \in Nat /\ clock' >= clock
  BY <1>3, <1>9 DEF MtForm, NothingAdded
<1> QED BY <1>2, <1>7, <1>8, <1>9, <1>10, <1>11, <1>12 DEF MtForm, Step

\* A post adds nothing; what is not posted again ends or fails.
LEMMA PostSteps ==
  ASSUME MtForm, NEW s \in Sends, NEW answer \in {"taken", "lost", "failed"}, Post(s, answer)
  PROVE  MtForm' /\ Step
<1> DEFINE to == IF answer = "taken" THEN [sends[s] EXCEPT !.pc = "taken"] ELSE Unanswered(sends[s])
<1>1. sends[s] \in UnderWay /\ sends[s] # Ended
  BY UnderWayIs DEF Post, MtForm
<1>2. to \in UnderWay
  <2>1. CASE answer = "taken"
    BY <1>1, <2>1 DEF UnderWay
  <2>2. CASE answer # "taken"
    <3>1. sends[s].tries = 0
      BY <1>1 DEF UnderWay
    <3>2. to = IF sends[s].form = "uri" THEN [sends[s] EXCEPT !.form = "raw", !.tries = Retries]
               ELSE [sends[s] EXCEPT !.pc = "failed"]
      BY <2>2, <3>1 DEF Unanswered
    <3> HIDE DEF to
    <3> QED BY <1>1, <3>2 DEF UnderWay, Retries
  <2> QED BY <2>1, <2>2
<1>3. sends' = [sends EXCEPT ![s] = to]
  BY DEF Post
<1> HIDE DEF to
<1>4. SendsForm(sends') /\ \A r \in Sends : sends[r] = Ended => sends'[r] = Ended
  BY <1>1, <1>2, <1>3, SendMoves DEF MtForm
<1>5. mt' \in Histories /\ mt'.heard = mt.heard /\ mt'.upsets = mt.upsets /\ mt'.file = mt.file
  <2>1. mt \in Histories /\ mt.taken \in [Sends -> Nat]
    BY DEF MtForm, Histories
  <2>2. mt' = [mt EXCEPT !.taken[s] = IF answer = "failed" THEN @ ELSE @ + 1]
    BY DEF Post
  <2> QED BY <2>1, <2>2 DEF Histories
<1>6. UNCHANGED <<business, operational, keyOrder, keys, stored, attempts, clock>>
  BY DEF Post
<1>7. Written /\ NothingAdded
  BY <1>5, <1>6 DEF Written, NothingAdded
<1>8. clock' >= clock
  BY <1>6 DEF MtForm
<1> QED BY <1>4, <1>5, <1>6, <1>7, <1>8 DEF MtForm, Step

\* The identity of a message.
LEMMA ProviderIdIs ==
  ASSUME MtForm, NEW s \in Sends
  PROVE  ProviderId(s) \in Sends \X Nat /\ ProviderId(s)[1] = s
<1>1. mt.taken[s] \in Nat
  BY DEF MtForm, Histories
<1> QED BY <1>1 DEF ProviderId

\* The events of the routes.
LEMMA SentIsLocal ==
  ASSUME MtForm, NEW s \in Sends
  PROVE  /\ LocalEvent(s) \in Locals /\ Source(LocalEvent(s)) = s /\ LocalEvent(s).at = clock
         /\ InstagramEvent(s) \in Locals /\ Source(InstagramEvent(s)) = s /\ InstagramEvent(s).at = clock
         /\ QuickEvent(s) \in Locals /\ Source(QuickEvent(s)) = s /\ QuickEvent(s).at = clock
         /\ EventKey(QuickEvent(s)) = NoEventKey
         /\ OlderEvent(s) \in Locals /\ Source(OlderEvent(s)) = NoAttempt /\ OlderEvent(s).at = clock
         /\ EventKey(OlderEvent(s)) = NoEventKey
<1>1. ProviderId(s) \in Sends \X Nat /\ ProviderId(s)[1] = s /\ clock \in Nat
  BY ProviderIdIs DEF MtForm
<1>2. NoAttempt \notin Sends
  BY TimelineAssumption
<1>3. ASSUME NEW name \in {"LOCAL_OUTBOUND_SEND", "LOCAL_SEND"}, NEW id \in Ids, NEW ref \in Ids,
             NEW status \in {"sent", "none"}, NEW attempt \in Sends \cup {NoAttempt}
      PROVE  /\ Sent(s, name, id, ref, status, attempt) \in Local
             /\ Sent(s, name, id, ref, status, attempt).name = name
             /\ Sent(s, name, id, ref, status, attempt).id = id
             /\ Sent(s, name, id, ref, status, attempt).ref = ref
             /\ Sent(s, name, id, ref, status, attempt).status = status
             /\ Sent(s, name, id, ref, status, attempt).attempt = attempt
             /\ Sent(s, name, id, ref, status, attempt).at = clock
  BY <1>1 DEF Sent, Local
<1>4. ProviderId(s) \in Ids /\ NoId \in Ids
  BY <1>1 DEF Ids
<1>5. LocalEvent(s) \in Locals /\ Source(LocalEvent(s)) = s /\ LocalEvent(s).at = clock
  BY <1>1, <1>3, <1>4 DEF LocalEvent, Locals, Source
<1>6. InstagramEvent(s) \in Locals /\ Source(InstagramEvent(s)) = s /\ InstagramEvent(s).at = clock
  BY <1>1, <1>3, <1>4 DEF InstagramEvent, Locals, Source
<1>7. QuickEvent(s) \in Locals /\ Source(QuickEvent(s)) = s /\ QuickEvent(s).at = clock /\ EventKey(QuickEvent(s)) = NoEventKey
  <2> DEFINE e == QuickEvent(s)
  <2>1. e \in Local /\ e.name = "LOCAL_SEND" /\ e.id = NoId /\ e.attempt = s /\ e.at = clock
    BY <1>3, <1>4 DEF QuickEvent
  <2> HIDE DEF e
  <2>2. e \in Locals /\ Source(e) = s
    BY <2>1 DEF Locals, Source
  <2>3. EventKey(e) = NoEventKey
    BY <2>1 DEF EventKey
  <2> QED BY <2>1, <2>2, <2>3 DEF e
<1>8. OlderEvent(s) \in Locals /\ Source(OlderEvent(s)) = NoAttempt /\ OlderEvent(s).at = clock
      /\ EventKey(OlderEvent(s)) = NoEventKey
  <2> DEFINE e == OlderEvent(s)
  <2>1. e \in Local /\ e.name = "LOCAL_SEND" /\ e.id = NoId /\ e.attempt = NoAttempt /\ e.at = clock
    BY <1>3, <1>4 DEF OlderEvent
  <2> HIDE DEF e
  <2>2. e \in Locals /\ Source(e) = NoAttempt
    BY <2>1 DEF Locals, Source
  <2>3. EventKey(e) = NoEventKey
    BY <2>1 DEF EventKey
  <2> QED BY <2>1, <2>2, <2>3 DEF e
<1> QED BY <1>5, <1>6, <1>7, <1>8

\* A success is recorded by its route.
LEMMA SuccessAdds ==
  ASSUME MtForm, NEW s \in Sends, NEW ok, Succeed(s, ok)
  PROVE  \/ NothingAdded
         \/ \E e \in Locals : Added(e) /\ Source(e) \in {s, NoAttempt}
<1> DEFINE route == sends[s].route
<1>1. CASE ~(route \in {"unified", "instagram", "quick", "legacy"})
  BY <1>1 DEF Succeed, NothingAdded
<1>2. CASE route = "unified"
  <2>1. SaveEvent(LocalEvent(s), ok)
    BY <1>2 DEF Succeed
  <2> QED BY <2>1, SentIsLocal, SavedIsAdded DEF Business
<1>3. CASE route = "instagram"
  <2>1. SaveEvent(InstagramEvent(s), ok)
    BY <1>3 DEF Succeed
  <2> QED BY <2>1, SentIsLocal, SavedIsAdded DEF Business
<1>4. CASE route = "quick"
  <2>1. SaveBusinessEvent(QuickEvent(s))
    BY <1>4 DEF Succeed
  <2> QED BY <2>1, SentIsLocal DEF SaveBusinessEvent, Added, Business
<1>5. CASE route = "legacy"
  <2>1. SaveBusinessEvent(OlderEvent(s))
    BY <1>5 DEF Succeed
  <2> QED BY <2>1, SentIsLocal DEF SaveBusinessEvent, Added, Business
<1> QED BY <1>1, <1>2, <1>3, <1>4, <1>5

\* What was heard changes by a notification only.
LEMMA ReceiptAdds ==
  ASSUME MtForm, NEW p \in Notices, NEW ok \in BOOLEAN, Receive(p, ok)
  PROVE  /\ NothingAdded \/ \E e \in Received : Added(e)
         /\ \/ NothingAdded /\ Hearing(p) = mt.heard
            \/ \E e \in Received : Added(e) /\ Hearing(p) = HeardWith(e)
         /\ Hearing(p) \in SUBSET Hearings
<1> DEFINE e == Normalize(p, mt.saves, clock)
           update == Canonical(p.event) = "MESSAGES_UPDATE"
           new == [id |-> ChosenUpdate(p.items).id, status |-> UpdateStatus(p.items), at |-> clock]
           known == \E k \in keys : k[1] = "MESSAGES_UPDATE" /\ k[2] = new.id /\ k[5] = new.status
<1>1. clock \in Nat /\ mt.saves \in Nat /\ mt.heard \in SUBSET Hearings
  BY DEF MtForm, Histories
<1>2. Hearing(p) = IF update THEN (IF known THEN mt.heard ELSE mt.heard \cup {new}) ELSE mt.heard
  BY DEF Hearing
<1>3. Hearing(p) \in SUBSET Hearings
  <2>1. new \in Hearings
    BY <1>1 DEF Hearings
  <2> HIDE DEF new, known, update
  <2> QED BY <1>1, <1>2, <2>1
<1>4. CASE ~IsBusiness(p)
  <2>1. NothingAdded
    BY <1>4 DEF Receive, NothingAdded
  <2>2. ~update
    BY <1>4 DEF IsBusiness
  <2> QED BY <1>2, <1>3, <2>1, <2>2
<1>5. CASE IsBusiness(p)
  <2>1. e \in Received
    BY <1>1, <1>5 DEF Received
  <2>2. SaveEvent(e, ok) /\ e.at = clock
    BY <1>5 DEF Receive, Normalize
  <2>3. IF EventKey(e) # NoEventKey /\ EventKey(e) \in keys THEN NothingAdded ELSE Added(e)
    <3> HIDE DEF e
    <3> QED BY <2>1, <2>2, SavedIsAdded DEF Business
  <2>4. CASE ~update
    <3>1. e.dir # "status"
      BY <2>4 DEF Normalize
    <3>2. Hearing(p) = mt.heard /\ HeardWith(e) = mt.heard
      BY <1>2, <2>4, <3>1 DEF HeardWith
    <3> HIDE DEF e
    <3> QED BY <1>3, <2>1, <2>3, <3>2
  <2>5. CASE update
    <3>1. /\ e.name = "MESSAGES_UPDATE" /\ e.dir = "status" /\ e.kind = "message_status"
          /\ e.id = new.id /\ e.status = new.status /\ e.at = new.at
      BY <2>5 DEF Normalize
    <3>2. HeardWith(e) = mt.heard \cup {new}
      <4> HIDE DEF e
      <4> QED BY <3>1 DEF HeardWith
    <3>3. known <=> EventKey(e) # NoEventKey /\ EventKey(e) \in keys
      <4>1. ASSUME EventKey(e) # NoEventKey, EventKey(e) \in keys PROVE known
        <5>1. EventKey(e) = <<e.name, e.id, e.dir, e.kind, e.status>>
          <6> HIDE DEF e
          <6> QED BY <3>1, <4>1 DEF EventKey
        <5> HIDE DEF e, new
        <5> QED BY <3>1, <4>1, <5>1
      <4>2. ASSUME NEW k \in keys, k[1] = "MESSAGES_UPDATE", k[2] = new.id, k[5] = new.status
            PROVE  EventKey(e) # NoEventKey /\ EventKey(e) \in keys
        <5>1. PICK f \in Business : k = EventKey(f) /\ EventKey(f) # NoEventKey
          <6>1. k \in KeysOf
            BY ElementOfSeq DEF MtForm, KeysForm
          <6> QED BY <6>1 DEF KeysOf
        <5>2. f.id # NoId /\ k = <<f.name, f.id, f.dir, f.kind, IF f.dir = "status" THEN f.status ELSE "">>
          BY <5>1 DEF EventKey
        <5>3. f.name = "MESSAGES_UPDATE"
          BY <4>2, <5>2
        <5>4. f.dir = "status" /\ f.kind = "message_status"
          BY <5>3, ReceivedIs, LocalIs DEF Business
        <5>5. f.id = e.id /\ f.status = e.status
          <6> HIDE DEF e, new
          <6> QED BY <3>1, <4>2, <5>2, <5>4
        <5>6. EventKey(e) = k
          <6> HIDE DEF e, new
          <6> QED BY <3>1, <5>2, <5>3, <5>4, <5>5 DEF EventKey
        <5> HIDE DEF e, new
        <5> QED BY <4>2, <5>1, <5>6
      <4> QED BY <4>1, <4>2
    <3> HIDE DEF e, new, known
    <3> QED BY <1>2, <1>3, <2>1, <2>3, <2>5, <3>2, <3>3
  <2> QED BY <2>4, <2>5
<1> QED BY <1>4, <1>5

\* What is added, the write does the rest.
Adds(heard) ==
    \/ NothingAdded /\ heard = mt.heard
    \/ \E e \in Received : Added(e) /\ heard = HeardWith(e)
    \/ \E e \in Locals : /\ Added(e) /\ heard = mt.heard
                         /\ Source(e) \in Sends => sends[Source(e)] # Ended /\ sends'[Source(e)] = Ended

\* An action that ends in a write is a step.
LEMMA WritingSteps ==
  ASSUME MtForm, AttemptsForm(attempts'), SendsForm(sends'), \A s \in Sends : sends[s] = Ended => sends'[s] = Ended,
         clock' = clock, operational' = operational \/ SavePipelineEvent,
         NEW history \in Histories, history.file = mt.file, history.upsets = mt.upsets, history.saves = mt.saves,
         Adds(history.heard), NEW ok \in BOOLEAN, WriteAs(ok, history)
  PROVE  MtForm' /\ Step /\ mt'.taken = history.taken
<1>1. (\E e \in Business : Added(e)) \/ NothingAdded
  BY DEF Adds, Business
<1>2. LayersForm(business', operational') /\ KeysForm(keyOrder', keys')
  BY <1>1, AddedLayer, AddedKeys
<1>3. /\ FileForm(stored') /\ mt' \in Histories /\ Written
      /\ mt'.heard = history.heard /\ mt'.taken = history.taken
      /\ mt'.upsets = mt.upsets \/ mt'.saves = mt.saves + 1
  BY <1>2, WriteEffect
<1>4. clock' \in Nat /\ clock' >= clock
  BY DEF MtForm
<1>5. Step
  BY <1>3, <1>4 DEF Step, Adds
<1>6. MtForm'
  BY <1>2, <1>3, <1>4 DEF MtForm
<1> QED BY <1>3, <1>5, <1>6

\* A success is recorded, and the send ends.
LEMMA SuccessSteps ==
  ASSUME MtForm, NEW s \in Sends, NEW ok \in BOOLEAN, Succeed(s, ok)
  PROVE  MtForm' /\ Step /\ mt'.taken = mt.taken
<1>1. sends[s] \in UnderWay /\ sends[s] # Ended /\ sends' = [sends EXCEPT ![s] = Ended]
  BY UnderWayIs DEF Succeed, MtForm, Ended
<1>2. SendsForm(sends') /\ sends'[s] = Ended /\ \A r \in Sends : sends[r] = Ended => sends'[r] = Ended
  BY <1>1, SendMoves DEF MtForm
<1>3. AttemptsForm(attempts')
  <2>1. ProviderId(s) \in Ids
    BY ProviderIdIs DEF Ids
  <2> QED BY <2>1, FinishedForm DEF MtForm, Succeed
<1>4. clock' = clock /\ (operational' = operational \/ SavePipelineEvent)
  BY DEF Succeed
<1>5. Adds(mt.heard)
  BY <1>1, <1>2, SuccessAdds, TimelineAssumption DEF Adds
<1>6. WriteAs(ok, mt) /\ mt \in Histories
  BY DEF Succeed, Write, MtForm
<1> QED BY <1>2, <1>3, <1>4, <1>5, <1>6, WritingSteps

\* So is a failure.
LEMMA FailureSteps ==
  ASSUME MtForm, NEW s \in Sends, NEW ok \in BOOLEAN, Fail(s, ok)
  PROVE  MtForm' /\ Step /\ mt'.taken = mt.taken
<1>1. sends[s] \in UnderWay /\ sends[s] # Ended /\ sends' = [sends EXCEPT ![s] = Ended]
  BY UnderWayIs DEF Fail, MtForm, Ended
<1>2. SendsForm(sends') /\ sends'[s] = Ended /\ \A r \in Sends : sends[r] = Ended => sends'[r] = Ended
  BY <1>1, SendMoves DEF MtForm
<1>3. AttemptsForm(attempts') /\ clock' = clock /\ (operational' = operational \/ SavePipelineEvent)
  BY DEF Fail, MtForm
<1>4. Adds(mt.heard)
  BY DEF Fail, Adds, NothingAdded
<1>5. WriteAs(ok, mt) /\ mt \in Histories
  BY DEF Fail, Write, MtForm
<1> QED BY <1>2, <1>3, <1>4, <1>5, WritingSteps

\* A notification adds what it is heard as.
LEMMA ReceiptSteps ==
  ASSUME MtForm, NEW p \in Notices, NEW ok \in BOOLEAN, Receive(p, ok)
  PROVE  MtForm' /\ Step /\ mt'.taken = mt.taken
<1> DEFINE history == [mt EXCEPT !.heard = Hearing(p)]
<1>1. Hearing(p) \in SUBSET Hearings /\ Adds(Hearing(p))
  BY ReceiptAdds DEF Adds
<1>2. /\ history \in Histories /\ history.heard = Hearing(p) /\ history.taken = mt.taken
      /\ history.file = mt.file /\ history.upsets = mt.upsets /\ history.saves = mt.saves
  BY <1>1 DEF MtForm, Histories
<1>3. WriteAs(ok, history)
  BY DEF Receive
<1> HIDE DEF history
<1>4. AttemptsForm(attempts') /\ clock' = clock /\ (operational' = operational \/ SavePipelineEvent)
  BY DEF Receive, MtForm
<1>5. SendsForm(sends') /\ \A r \in Sends : sends[r] = Ended => sends'[r] = Ended
  BY DEF Receive, MtForm
<1> QED BY <1>1, <1>2, <1>3, <1>4, <1>5, WritingSteps

\* Whatever else is recorded adds nothing.
LEMMA OperationSteps ==
  ASSUME MtForm, NEW ok \in BOOLEAN, Operate(ok)
  PROVE  MtForm' /\ Step /\ mt'.taken = mt.taken
<1>1. AttemptsForm(attempts') /\ clock' = clock /\ (operational' = operational \/ SavePipelineEvent)
  BY DEF Operate, MtForm
<1>2. SendsForm(sends') /\ \A r \in Sends : sends[r] = Ended => sends'[r] = Ended
  BY DEF Operate, MtForm
<1>3. Adds(mt.heard)
  BY DEF Operate, Adds, NothingAdded
<1>4. WriteAs(ok, mt) /\ mt \in Histories
  BY DEF Operate, Write, MtForm
<1> QED BY <1>1, <1>2, <1>3, <1>4, WritingSteps

\* The clock and the media touch nothing of it.
LEMMA QuietSteps ==
  ASSUME MtForm, \/ TimePasses
                 \/ \E medium : GetMedia(medium) \/ UpdateMediaDownloadState(medium)
                 \/ UNCHANGED mtVars
  PROVE  MtForm' /\ Step /\ mt'.taken = mt.taken
<1>1. /\ UNCHANGED <<business, operational, keyOrder, keys, stored, attempts, sends, mt>>
      /\ clock' = clock + 1 \/ clock' = clock
  BY DEF TimePasses, GetMedia, UpdateMediaDownloadState, mtVars
<1>2. MtForm'
  BY <1>1 DEF MtForm
<1>3. Step
  BY <1>1 DEF MtForm, Step, Written, NothingAdded
<1> QED BY <1>1, <1>2, <1>3

-------------------------------------------------------------------------------
(* What a list is selected from, and what it keeps of it.                  *)

\* t has elements of s, each at most once.
Selected(t, s) ==
    \E p \in [1 .. Len(t) -> 1 .. Len(s)] :
        /\ \A k \in 1 .. Len(t) : t[k] = s[p[k]]
        /\ \A k \in 1 .. Len(t), l \in 1 .. Len(t) : p[k] = p[l] => k = l

\* Two events of one key, or of one send.
Alike(e, f) ==
    /\ ~IsOperational(e) /\ ~IsOperational(f)
    /\ \/ EventKey(e) = EventKey(f) /\ EventKey(e) # NoEventKey
       \/ Source(e) = Source(f) /\ Source(e) \in Sends
Unlike(s) == \A i \in 1 .. Len(s), j \in 1 .. Len(s) : Alike(s[i], s[j]) => i = j

\* What is arranged is selected.
LEMMA ArrangedIsSelected ==
  ASSUME NEW S, NEW T, NEW s \in Seq(S), NEW t \in Seq(T), NEW I \in SUBSET (1 .. Len(s)), NEW R, Orders(R, I),
         Arrangement(t, s, I, R)
  PROVE  Selected(t, s)
<1>1. PICK p \in [1 .. Len(t) -> I] :
        /\ \A k \in 1 .. Len(t) : t[k] = s[p[k]]
        /\ \A k \in 1 .. Len(t), l \in 1 .. Len(t) : k < l => <<p[k], p[l]>> \in R
  BY DEF Arrangement
<1>2. p \in [1 .. Len(t) -> 1 .. Len(s)]
  BY <1>1
<1>3. ASSUME NEW k \in 1 .. Len(t), NEW l \in 1 .. Len(t), p[k] = p[l] PROVE k = l
  <2>1. Len(t) \in Nat
    BY LenProperties
  <2>2. p[k] \in I /\ <<p[k], p[k]>> \notin R
    BY <1>1 DEF Orders
  <2>3. ~(k < l) /\ ~(l < k)
    BY <1>1, <1>3, <2>2
  <2> QED BY <2>1, <2>3
<1> QED BY <1>1, <1>2, <1>3 DEF Selected

\* What is selected is as unlike as what it is selected from, and is some of it.
LEMMA SelectedKeeps ==
  ASSUME NEW s, NEW t, Selected(t, s)
  PROVE  /\ Unlike(s) => Unlike(t)
         /\ \A k \in 1 .. Len(t) : \E i \in 1 .. Len(s) : t[k] = s[i]
<1>1. PICK p \in [1 .. Len(t) -> 1 .. Len(s)] :
        /\ \A k \in 1 .. Len(t) : t[k] = s[p[k]]
        /\ \A k \in 1 .. Len(t), l \in 1 .. Len(t) : p[k] = p[l] => k = l
  BY DEF Selected
<1>2. \A k \in 1 .. Len(t) : p[k] \in 1 .. Len(s)
  BY <1>1
<1> QED BY <1>1, <1>2 DEF Unlike

\* The file is a selection from the two layers, and all of a layer but what follows
\* as many as it keeps.
LEMMA FileIsSelected ==
  ASSUME NEW b, NEW o, LayersForm(b, o)
  PROVE  /\ Selected(ListEvents(b, o), b \o o)
         /\ Unlike(b) => Unlike(ListEvents(b, o))
         /\ Unlike(b) => Unlike(FirstOf(ListEvents(b, o), EventsKept))
         /\ \A k \in 1 .. Len(ListEvents(b, o)) :
              \/ \E i \in 1 .. Len(b) : ListEvents(b, o)[k] = b[i]
              \/ ListEvents(b, o)[k] \in Operational
         /\ \A i \in 1 .. Len(b) : \E k \in 1 .. Len(ListEvents(b, o)) : ListEvents(b, o)[k] = b[i]
<1> DEFINE c == b \o o
           list == ListEvents(b, o)
<1>1. /\ c \in Seq(Events) /\ Len(b) \in Nat /\ Len(o) \in Nat /\ Len(c) = Len(b) + Len(o)
      /\ \A i \in 1 .. Len(b) + Len(o) : c[i] = IF i <= Len(b) THEN b[i] ELSE o[i - Len(b)]
      /\ list \in Seq(Events) /\ Len(list) = Len(b) + Len(o)
  BY ListForm
<1>2. PICK p \in [1 .. Len(c) -> 1 .. Len(c)] :
        /\ \A k \in 1 .. Len(c) : list[k] = c[p[k]]
        /\ \A k \in 1 .. Len(c), l \in 1 .. Len(c) : k < l => Newer(c, p[k], p[l])
        /\ \A i \in 1 .. Len(c) : \E k \in 1 .. Len(c) : p[k] = i
  BY <1>1, EventIs, ByTimeIsSorted DEF ListEvents
<1>3. \A i \in 1 .. Len(c) : c[i].at \in Nat
  BY <1>1, EventIs, ElementOfSeq
<1> HIDE DEF c, list
<1>4. \A k \in 1 .. Len(c), l \in 1 .. Len(c) : p[k] = p[l] => k = l
  <2> SUFFICES ASSUME NEW k \in 1 .. Len(c), NEW l \in 1 .. Len(c), p[k] = p[l], k # l PROVE FALSE
    OBVIOUS
  <2>1. p[k] \in 1 .. Len(c) /\ c[p[k]].at \in Nat /\ p[k] \in Int /\ k \in Int /\ l \in Int
    BY <1>1, <1>3
  <2>2. ~Newer(c, p[k], p[k])
    BY <2>1 DEF Newer
  <2> QED BY <1>2, <2>1, <2>2
<1>5. Selected(list, c)
  <2>1. Len(list) = Len(c)
    BY <1>1
  <2>2. /\ p \in [1 .. Len(list) -> 1 .. Len(c)]
        /\ \A k \in 1 .. Len(list) : list[k] = c[p[k]]
        /\ \A k \in 1 .. Len(list), l \in 1 .. Len(list) : p[k] = p[l] => k = l
    BY <2>1, <1>2, <1>4
  <2> QED BY <2>2 DEF Selected
<1>6. \A i \in 1 .. Len(c) : \/ i \in 1 .. Len(b) /\ c[i] = b[i]
                             \/ i - Len(b) \in 1 .. Len(o) /\ c[i] = o[i - Len(b)] /\ c[i] \in Operational
  <2> SUFFICES ASSUME NEW i \in 1 .. Len(c)
      PROVE \/ i \in 1 .. Len(b) /\ c[i] = b[i]
            \/ i - Len(b) \in 1 .. Len(o) /\ c[i] = o[i - Len(b)] /\ c[i] \in Operational
    OBVIOUS
  <2>1. CASE i <= Len(b)
    BY <2>1, <1>1
  <2>2. CASE ~(i <= Len(b))
    <3>1. i - Len(b) \in 1 .. Len(o) /\ c[i] = o[i - Len(b)]
      BY <2>2, <1>1
    <3> QED BY <3>1, ElementOfSeq DEF LayersForm
  <2> QED BY <2>1, <2>2
<1>7. ASSUME Unlike(b) PROVE Unlike(c)
  <2> SUFFICES ASSUME NEW i \in 1 .. Len(c), NEW j \in 1 .. Len(c), Alike(c[i], c[j]) PROVE i = j
    BY DEF Unlike
  <2>1. ~IsOperational(c[i]) /\ ~IsOperational(c[j])
    BY DEF Alike
  <2>2. i \in 1 .. Len(b) /\ c[i] = b[i] /\ j \in 1 .. Len(b) /\ c[j] = b[j]
    BY <2>1, <1>6, EventIs
  <2> QED BY <1>7, <2>2 DEF Unlike
<1>8. /\ Unlike(b) => Unlike(list)
      /\ \A k \in 1 .. Len(list) : \E i \in 1 .. Len(c) : list[k] = c[i]
  BY <1>5, <1>7, SelectedKeeps
<1>9. \A k \in 1 .. Len(list) : (\E i \in 1 .. Len(b) : list[k] = b[i]) \/ list[k] \in Operational
  BY <1>6, <1>8
<1>10. ASSUME NEW i \in 1 .. Len(b) PROVE \E k \in 1 .. Len(list) : list[k] = b[i]
  <2>1. i \in 1 .. Len(c) /\ c[i] = b[i] /\ Len(list) = Len(c)
    BY <1>1
  <2>2. PICK k \in 1 .. Len(c) : p[k] = i
    BY <1>2, <2>1
  <2> QED BY <1>2, <2>1, <2>2
<1>11. Unlike(list) => Unlike(FirstOf(list, EventsKept))
  <2>1. \A i \in 1 .. Len(FirstOf(list, EventsKept)) : FirstOf(list, EventsKept)[i] = list[i] /\ i \in 1 .. Len(list)
    BY <1>1, FirstAreTheSame, TimelineAssumption
  <2> QED BY <2>1 DEF Unlike
<1> QED BY <1>5, <1>8, <1>9, <1>10, <1>11 DEF c, list

\* What is restored is all of the layer, in the order of the file.
LEMMA RestoredIs ==
  ASSUME NEW f, FileForm(f), NEW layer \in {"business", "operational"}
  PROVE  /\ Restored(f, layer) \in Seq(Events) /\ Len(Restored(f, layer)) \in Nat
         /\ Len(Restored(f, layer)) <= Len(f) /\ Len(Restored(f, layer)) = Cardinality(Places(f, layer))
         /\ Arrangement(Restored(f, layer), f, Places(f, layer), Ascending(Places(f, layer)))
         /\ Places(f, layer) \in SUBSET (1 .. Len(f)) /\ Orders(Ascending(Places(f, layer)), Places(f, layer))
         /\ Selected(Restored(f, layer), f)
         /\ \A k \in 1 .. Len(Restored(f, layer)) : IsOperational(Restored(f, layer)[k]) <=> layer = "operational"
<1> DEFINE I == Places(f, layer)
           t == Restored(f, layer)
<1>1. f \in Seq(Events) /\ Len(f) \in Nat
  BY LenProperties DEF FileForm
<1>2. I \in SUBSET (1 .. Len(f)) /\ \A i \in I : IsOperational(f[i]) <=> layer = "operational"
  BY DEF Places
<1>3. t = Arranged(f, I, Ascending(I))
  BY DEF Restored
<1> HIDE DEF I, t
<1>4. Orders(Ascending(I), I)
  BY <1>1, <1>2, PlacesAreOrdered
<1>5. /\ Cardinality(I) <= Len(f) /\ t \in Seq(Events) /\ Len(t) = Cardinality(I)
      /\ Arrangement(t, f, I, Ascending(I))
  BY <1>1, <1>2, <1>3, <1>4, ArrangedInOrder
<1>6. Selected(t, f)
  BY <1>1, <1>2, <1>4, <1>5, ArrangedIsSelected
<1>7. \A k \in 1 .. Len(t) : IsOperational(t[k]) <=> layer = "operational"
  <2>1. PICK p \in [1 .. Len(t) -> I] : \A k \in 1 .. Len(t) : t[k] = f[p[k]]
    BY <1>5 DEF Arrangement
  <2> QED BY <2>1, <1>2
<1>8. Len(t) \in Nat
  BY <1>5, LenProperties
<1> QED BY <1>2, <1>4, <1>5, <1>6, <1>7, <1>8 DEF I, t

\* The layers restored are layers.
LEMMA RestoredLayers ==
  ASSUME NEW f, FileForm(f)
  PROVE  LayersForm(Restored(f, "business"), Restored(f, "operational"))
<1> DEFINE b == Restored(f, "business")
           o == Restored(f, "operational")
<1>1. Len(f) \in Nat /\ Len(f) <= EventsKept /\ EventsKept \in Nat
  BY LenProperties, TimelineAssumption DEF FileForm
<1>2. b \in Seq(Events) /\ Len(b) \in Nat /\ Len(b) <= Len(f) /\ \A k \in 1 .. Len(b) : ~IsOperational(b[k])
  BY RestoredIs
<1>3. o \in Seq(Events) /\ Len(o) \in Nat /\ Len(o) <= Len(f) /\ \A k \in 1 .. Len(o) : IsOperational(o[k])
  BY RestoredIs
<1> HIDE DEF b, o
<1>4. \A k \in 1 .. Len(b) : b[k] \in Business
  BY <1>2, EventIs, ElementOfSeq DEF Events
<1>5. \A k \in 1 .. Len(o) : o[k] \in Operational
  BY <1>3, EventIs, ElementOfSeq DEF Events
<1>6. b \in Seq(Business) /\ Len(b) <= EventsKept
  BY <1>1, <1>2, <1>4, LenProperties
<1>7. o \in Seq(Operational) /\ Len(o) <= EventsKept
  BY <1>1, <1>3, <1>5, LenProperties
<1> QED BY <1>6, <1>7 DEF LayersForm, b, o

\* The key of an event of the layer b, if it has one, is remembered for as long as
\* the event is kept: no more keys follow it than events do.
Remembered(b, order) ==
    \A i \in 1 .. Len(b) : EventKey(b[i]) # NoEventKey =>
        \E p \in 1 .. Len(order) : order[p] = EventKey(b[i]) /\ Len(order) - p < i

\* Numbers that only fall, down to one at the least, are as large as many follow.
LEMMA FallingIsLarge ==
  ASSUME NEW n \in Nat, NEW q \in [1 .. n -> Nat \ {0}],
         \A k \in 1 .. n, l \in 1 .. n : k < l => q[k] > q[l]
  PROVE  \A k \in 1 .. n : q[k] >= n - k + 1
<1> DEFINE Bad == {k \in 1 .. n : ~(q[k] >= n - k + 1)}
<1>1. \A k \in 1 .. n : q[k] \in Int /\ q[k] >= 1
  OBVIOUS
<1> SUFFICES ASSUME Bad # {} PROVE FALSE
  OBVIOUS
<1>2. Bad \in SUBSET (1 .. n)
  OBVIOUS
<1>3. PICK k \in Bad : \A l \in Bad : l <= k
  <2> HIDE DEF Bad
  <2> QED BY <1>2, LeastAndGreatest
<1>4. k \in 1 .. n /\ ~(q[k] >= n - k + 1)
  OBVIOUS
<1>5. CASE k = n
  BY <1>1, <1>4, <1>5
<1>6. CASE k # n
  <2>1. k + 1 \in 1 .. n /\ k + 1 \notin Bad
    <3> HIDE DEF Bad
    <3> QED BY <1>3, <1>4, <1>6
  <2>2. q[k + 1] >= n - (k + 1) + 1 /\ q[k] > q[k + 1]
    BY <2>1, <1>4
  <2> QED BY <1>1, <1>4, <2>1, <2>2
<1> QED BY <1>5, <1>6

\* The keys restored are those of the layer restored.
LEMMA RestoredKeysAre ==
  ASSUME NEW b \in Seq(Business), Len(b) <= EventsKept, Unlike(b)
  PROVE  /\ KeysForm(RestoredKeys(b), {RestoredKeys(b)[i] : i \in 1 .. Len(RestoredKeys(b))})
         /\ Remembered(b, RestoredKeys(b))
<1> DEFINE ks == [i \in 1 .. Len(b) |-> EventKey(b[i])]
           I == {i \in 1 .. Len(b) : EventKey(b[i]) # NoEventKey}
           order == RestoredKeys(b)
           K == KeysOf \cup {NoEventKey}
<1>1. Len(b) \in Nat /\ \A i \in 1 .. Len(b) : b[i] \in Business
  BY LenProperties, ElementOfSeq
<1>2. ks \in Seq(K) /\ Len(ks) = Len(b)
  <2>1. \A i \in 1 .. Len(b) : EventKey(b[i]) \in K
    BY <1>1 DEF KeysOf
  <2> HIDE DEF K
  <2> QED BY <1>1, <2>1
<1>3. I \in SUBSET (1 .. Len(ks)) /\ \A i \in I : i \in 1 .. Len(b) /\ EventKey(b[i]) # NoEventKey /\ ks[i] = EventKey(b[i])
  BY <1>2
<1>4. order = Arranged(ks, I, Descending(I))
  BY DEF RestoredKeys
<1>5. \A i \in 1 .. Len(b) : EventKey(b[i]) # NoEventKey => i \in I
  OBVIOUS
<1> HIDE DEF ks, I, K, order
<1>6. Orders(Descending(I), I)
  BY <1>1, <1>2, <1>3, PlacesAreOrdered
<1>7. /\ Cardinality(I) <= Len(ks) /\ order \in Seq(K) /\ Len(order) = Cardinality(I) /\ Cardinality(I) \in Nat
      /\ Arrangement(order, ks, I, Descending(I))
  BY <1>2, <1>3, <1>4, <1>6, ArrangedInOrder
<1> DEFINE n == Len(order)
<1>8. n \in Nat /\ n <= Len(b)
  BY <1>2, <1>7
<1>9. PICK q \in [1 .. n -> I] :
        /\ \A k \in 1 .. n : order[k] = ks[q[k]]
        /\ \A k \in 1 .. n, l \in 1 .. n : k < l => <<q[k], q[l]>> \in Descending(I)
        /\ \A i \in I : \E k \in 1 .. n : q[k] = i
  BY <1>7 DEF Arrangement
<1> HIDE DEF n
<1>10. \A k \in 1 .. n, l \in 1 .. n : k < l => q[k] > q[l]
  BY <1>9 DEF Descending
<1>11. \A k \in 1 .. n : q[k] \in 1 .. Len(b) /\ order[k] = EventKey(b[q[k]]) /\ EventKey(b[q[k]]) # NoEventKey
  BY <1>3, <1>9
<1>12. \A k \in 1 .. n : order[k] \in KeysOf
  BY <1>1, <1>11 DEF KeysOf
<1>13. order \in Seq(KeysOf)
  BY <1>7, <1>8, <1>12, LenProperties DEF n
<1>14. ASSUME NEW k \in 1 .. n, NEW l \in 1 .. n, order[k] = order[l] PROVE k = l
  <2>1. Alike(b[q[k]], b[q[l]])
    BY <1>1, <1>11, <1>14, EventIs DEF Alike
  <2>2. q[k] = q[l]
    BY <1>11, <2>1 DEF Unlike
  <2>3. q[k] \in Int /\ k \in Int /\ l \in Int
    BY <1>8, <1>11
  <2>4. ~(k < l) /\ ~(l < k)
    BY <1>10, <2>2, <2>3
  <2> QED BY <2>3, <2>4
<1>15. n <= KeysKept
  <2>1. EventsKept \in Nat \ {0} /\ KeysKept \in Nat /\ KeysKept >= 3 * EventsKept
    BY TimelineAssumption
  <2> QED BY <1>1, <1>8, <2>1
<1>16. KeysForm(order, {order[i] : i \in 1 .. Len(order)})
  BY <1>13, <1>14, <1>15 DEF KeysForm, n
<1>17. ASSUME NEW i \in 1 .. Len(b), EventKey(b[i]) # NoEventKey
       PROVE  \E p \in 1 .. Len(order) : order[p] = EventKey(b[i]) /\ Len(order) - p < i
  <2>1. PICK p \in 1 .. n : q[p] = i
    BY <1>5, <1>9, <1>17
  <2>2. q \in [1 .. n -> Nat \ {0}]
    <3>1. \A k \in 1 .. n : q[k] \in Nat \ {0}
      BY <1>11
    <3> QED BY <1>9, <3>1
  <2>3. q[p] >= n - p + 1
    BY <1>8, <1>10, <2>2, FallingIsLarge
  <2>4. n - p < i /\ order[p] = EventKey(b[i])
    BY <1>8, <1>11, <2>1, <2>3
  <2> QED BY <2>4 DEF n
<1> QED BY <1>16, <1>17 DEF Remembered, order

\* The next process has the forms of the last.
LEMMA CrashForm ==
  ASSUME MtForm, Unlike(stored), MtCrash
  PROVE  /\ MtForm' /\ Unlike(business') /\ Remembered(business', keyOrder')
         /\ mt'.taken = mt.taken /\ mt'.upsets = mt.upsets + 1 /\ mt'.saves = mt.saves /\ mt'.file = mt.file
         /\ mt'.heard = {h \in mt.heard : \E i \in 1 .. Len(stored) : IsHearing(stored[i], h)}
         /\ \A s \in Sends : sends'[s] = IF sends[s] = New THEN New ELSE Ended
<1> DEFINE b == Restored(stored, "business")
           o == Restored(stored, "operational")
           heard == {h \in mt.heard : \E i \in 1 .. Len(stored) : IsHearing(stored[i], h)}
<1>1. /\ business' = b /\ operational' = o /\ keyOrder' = RestoredKeys(b)
      /\ keys' = {RestoredKeys(b)[i] : i \in 1 .. Len(RestoredKeys(b))}
      /\ sends' = [s \in Sends |-> IF sends[s] = New THEN New ELSE Ended]
      /\ mt' = [mt EXCEPT !.upsets = mt.upsets + 1, !.heard = heard]
      /\ UNCHANGED <<stored, attempts, clock>>
  BY DEF MtCrash, Ended
<1>2. FileForm(stored)
  BY DEF MtForm
<1>3. Selected(b, stored)
  BY <1>2, RestoredIs
<1>4. LayersForm(b, o)
  BY <1>2, RestoredLayers
<1> HIDE DEF b, o
<1>5. b \in Seq(Business) /\ Len(b) <= EventsKept
  BY <1>4 DEF LayersForm
<1>6. Unlike(b)
  BY <1>3, SelectedKeeps
<1>7. /\ KeysForm(RestoredKeys(b), {RestoredKeys(b)[i] : i \in 1 .. Len(RestoredKeys(b))})
      /\ Remembered(b, RestoredKeys(b))
  BY <1>5, <1>6, RestoredKeysAre
<1>8. heard \in SUBSET Hearings /\ mt \in Histories /\ mt.upsets \in Nat
  BY DEF MtForm, Histories
<1> HIDE DEF heard
<1>9. mt' = [saves |-> mt.saves, upsets |-> mt.upsets + 1, file |-> mt.file, taken |-> mt.taken, heard |-> heard]
  BY <1>1, <1>8 DEF Histories
<1>10. mt' \in Histories
  BY <1>8, <1>9 DEF Histories
<1>11. SendsForm(sends')
  BY <1>1 DEF SendsForm
<1>12. \A s \in Sends : sends'[s] = IF sends[s] = New THEN New ELSE Ended
  BY <1>1
<1>13. LayersForm(business', operational') /\ KeysForm(keyOrder', keys') /\ FileForm(stored') /\ AttemptsForm(attempts')
       /\ clock' \in Nat
  BY <1>1, <1>2, <1>4, <1>7 DEF MtForm
<1>14. MtForm'
  BY <1>10, <1>11, <1>13 DEF MtForm
<1>15. Unlike(business') /\ Remembered(business', keyOrder')
  BY <1>1, <1>6, <1>7
<1> QED BY <1>9, <1>12, <1>14, <1>15 DEF heard

-------------------------------------------------------------------------------
(* What is kept of the messages is kept once.                              *)

\* The events that are not of the pipeline, in memory and in the file.
Kept == {business[i] : i \in 1 .. Len(business)} \cup {e \in {stored[i] : i \in 1 .. Len(stored)} : ~IsOperational(e)}

\* What is kept is of the past, of a send that ended if it is of one, and a status is
\* one that was heard of then.
KeptIsTrue ==
    \A e \in Kept :
        /\ e.at <= clock
        /\ Source(e) \in Sends => sends[Source(e)] = Ended
        /\ e.dir = "status" => [id |-> e.id, status |-> e.status, at |-> e.at] \in mt.heard

KeptOnce == Unlike(business) /\ Unlike(stored) /\ Remembered(business, keyOrder) /\ KeptIsTrue

\* What is kept are events of the provider's or of the sends.
LEMMA KeptEvents ==
  ASSUME MtForm
  PROVE  /\ Kept \subseteq Business
         /\ \A i \in 1 .. Len(business) : business[i] \in Kept
         /\ Len(business) \in Nat /\ Len(stored) \in Nat
<1>1. business \in Seq(Business) /\ stored \in Seq(Events)
  BY DEF MtForm, LayersForm, FileForm
<1>2. \A i \in 1 .. Len(business) : business[i] \in Business
  BY <1>1, ElementOfSeq
<1>3. \A i \in 1 .. Len(stored) : stored[i] \in Business \cup Operational
  BY <1>1, ElementOfSeq DEF Events
<1>4. Kept \subseteq Business
  BY <1>2, <1>3, EventIs DEF Kept
<1>5. Len(business) \in Nat /\ Len(stored) \in Nat
  BY <1>1, LenProperties
<1> QED BY <1>4, <1>5 DEF Kept

\* A layer to which an event is added has it first, and then what it had.
LEMMA AddedIs ==
  ASSUME MtForm, NEW e, Added(e)
  PROVE  /\ Len(business') \in Nat /\ Len(business') >= 1 /\ business'[1] = e
         /\ \A i \in 2 .. Len(business') : business'[i] = business[i - 1] /\ i - 1 \in 1 .. Len(business)
         /\ Len(business') <= EventsKept
         /\ Len(business) < EventsKept => Len(business') = Len(business) + 1
         /\ ~(Len(business) < EventsKept) => Len(business') = EventsKept /\ Len(business) = EventsKept
         /\ EventsKept \in Nat /\ Len(business) \in Nat
<1>1. business \in Seq(Business) /\ Len(business) <= EventsKept /\ e \in Business /\ business' = AppendLeft(e, business)
  BY DEF MtForm, LayersForm, Added
<1>2. Len(business) \in Nat /\ EventsKept \in Nat \ {0}
  BY <1>1, LenProperties, TimelineAssumption
<1>3. /\ Len(business') = IF Len(business) < EventsKept THEN Len(business) + 1 ELSE EventsKept
      /\ business'[1] = e
      /\ \A i \in 2 .. Len(business') : business'[i] = business[i - 1] /\ i - 1 \in 1 .. Len(business)
  BY <1>1, Prepended
<1> QED BY <1>1, <1>2, <1>3

\* The keys of what is kept stay remembered.
LEMMA AddedIsRemembered ==
  ASSUME MtForm, Remembered(business, keyOrder), NEW e, Added(e)
  PROVE  Remembered(business', keyOrder')
<1>1. /\ Len(business') \in Nat /\ Len(business') >= 1 /\ business'[1] = e /\ Len(business') <= EventsKept
      /\ \A i \in 2 .. Len(business') : business'[i] = business[i - 1] /\ i - 1 \in 1 .. Len(business)
  BY AddedIs
<1>2. /\ keyOrder \in Seq(KeysOf) /\ Len(keyOrder) \in Nat /\ Len(keyOrder) <= KeysKept
      /\ EventsKept \in Nat \ {0} /\ KeysKept \in Nat /\ KeysKept >= 3 * EventsKept
  BY LenProperties, TimelineAssumption DEF MtForm, KeysForm
<1>3. CASE EventKey(e) = NoEventKey
  <2>1. keyOrder' = keyOrder
    BY <1>3 DEF Added
  <2>2. ASSUME NEW i \in 1 .. Len(business'), EventKey(business'[i]) # NoEventKey
        PROVE  \E p \in 1 .. Len(keyOrder) : keyOrder[p] = EventKey(business'[i]) /\ Len(keyOrder) - p < i
    <3>1. i \in 2 .. Len(business')
      BY <2>2, <1>1, <1>3
    <3>2. business'[i] = business[i - 1] /\ i - 1 \in 1 .. Len(business)
      BY <1>1, <3>1
    <3>3. PICK p \in 1 .. Len(keyOrder) : keyOrder[p] = EventKey(business[i - 1]) /\ Len(keyOrder) - p < i - 1
      BY <2>2, <3>2 DEF Remembered
    <3>4. Len(keyOrder) - p < i
      BY <1>2, <3>1, <3>3
    <3> QED BY <3>2, <3>3, <3>4
  <2> QED BY <2>1, <2>2 DEF Remembered
<1>4. CASE EventKey(e) # NoEventKey
  <2> DEFINE k == EventKey(e)
             order == Append(keyOrder, k)
  <2>1. k \in KeysOf /\ k \notin keys /\ Remember(k) /\ KeysForm(keyOrder, keys)
    BY <1>4 DEF KeysOf, Added, MtForm
  <2>2. \/ keyOrder' = order /\ Len(keyOrder) < KeysKept
        \/ keyOrder' = Tail(order) /\ Len(keyOrder) = KeysKept
    <3> HIDE DEF k
    <3> QED BY <2>1, RememberedForm
  <2>3. /\ order \in Seq(KeysOf) /\ Len(order) = Len(keyOrder) + 1 /\ order # <<>>
        /\ \A i \in 1 .. Len(keyOrder) : order[i] = keyOrder[i]
        /\ order[Len(keyOrder) + 1] = k
    <3> HIDE DEF k
    <3> QED BY <1>2, <2>1, AppendProperties
  <2> HIDE DEF order
  <2>4. /\ Len(Tail(order)) = Len(order) - 1
        /\ \A i \in 1 .. Len(Tail(order)) : Tail(order)[i] = order[i + 1]
    BY <2>3, HeadTailProperties
  <2>5. ASSUME NEW i \in 1 .. Len(business'), EventKey(business'[i]) # NoEventKey
        PROVE  \E p \in 1 .. Len(order) : order[p] = EventKey(business'[i]) /\ Len(order) - p < i
    <3>1. CASE i = 1
      <4>1. order[Len(order)] = k /\ Len(order) \in 1 .. Len(order) /\ Len(order) - Len(order) < i
        BY <3>1, <1>2, <2>3
      <4> QED BY <3>1, <4>1, <1>1
    <3>2. CASE i \in 2 .. Len(business')
      <4>1. business'[i] = business[i - 1] /\ i - 1 \in 1 .. Len(business)
        BY <1>1, <3>2
      <4>2. PICK p \in 1 .. Len(keyOrder) : keyOrder[p] = EventKey(business[i - 1]) /\ Len(keyOrder) - p < i - 1
        BY <2>5, <4>1 DEF Remembered
      <4>3. p \in 1 .. Len(order) /\ order[p] = keyOrder[p] /\ Len(order) - p < i
        BY <1>2, <2>3, <3>2, <4>2
      <4> QED BY <4>1, <4>2, <4>3
    <3> QED BY <3>1, <3>2, <1>1
  <2>6. CASE keyOrder' = order
    BY <2>5, <2>6 DEF Remembered
  <2>7. CASE keyOrder' = Tail(order) /\ Len(keyOrder) = KeysKept
    <3>1. ASSUME NEW i \in 1 .. Len(business'), EventKey(business'[i]) # NoEventKey
          PROVE  \E p \in 1 .. Len(Tail(order)) : Tail(order)[p] = EventKey(business'[i]) /\ Len(Tail(order)) - p < i
      <4>1. PICK p \in 1 .. Len(order) : order[p] = EventKey(business'[i]) /\ Len(order) - p < i
        BY <2>5, <3>1
      <4>2. i <= EventsKept /\ i \in Nat
        BY <1>1, <1>2
      <4>3. Len(order) = KeysKept + 1 /\ p > 1
        BY <1>2, <2>3, <2>7, <4>1, <4>2
      <4>4. p - 1 \in 1 .. Len(Tail(order)) /\ Tail(order)[p - 1] = order[p] /\ Len(Tail(order)) - (p - 1) < i
        BY <1>2, <2>4, <4>1, <4>2, <4>3
      <4> QED BY <4>1, <4>4
    <3> QED BY <2>7, <3>1 DEF Remembered
  <2> QED BY <2>2, <2>6, <2>7
<1> QED BY <1>3, <1>4

\* No event is added that is like another.
LEMMA AddedIsUnlike ==
  ASSUME MtForm, KeptOnce, NEW e, Added(e), Source(e) \in Sends => sends[Source(e)] # Ended
  PROVE  Unlike(business')
<1>1. /\ Len(business') \in Nat /\ Len(business') >= 1 /\ business'[1] = e
      /\ \A i \in 2 .. Len(business') : business'[i] = business[i - 1] /\ i - 1 \in 1 .. Len(business)
  BY AddedIs
<1>2. ASSUME NEW i \in 1 .. Len(business) PROVE ~Alike(e, business[i]) /\ ~Alike(business[i], e)
  <2>1. business[i] \in Kept
    BY KeptEvents
  <2>2. Source(business[i]) = Source(e) => Source(e) \notin Sends
    BY <2>1 DEF KeptOnce, KeptIsTrue
  <2>3. EventKey(business[i]) = EventKey(e) => EventKey(e) = NoEventKey
    <3> SUFFICES ASSUME EventKey(business[i]) = EventKey(e), EventKey(e) # NoEventKey PROVE FALSE
      OBVIOUS
    <3>1. EventKey(e) \notin keys
      BY DEF Added
    <3>2. PICK p \in 1 .. Len(keyOrder) : keyOrder[p] = EventKey(business[i])
      BY DEF KeptOnce, Remembered
    <3>3. keyOrder[p] \in keys
      BY DEF MtForm, KeysForm
    <3> QED BY <3>1, <3>2, <3>3
  <2> QED BY <2>2, <2>3 DEF Alike
<1>3. ASSUME NEW i \in 1 .. Len(business'), NEW j \in 1 .. Len(business'), Alike(business'[i], business'[j]) PROVE i = j
  <2>1. CASE i = 1 /\ j = 1
    BY <2>1
  <2>2. CASE i = 1 /\ j \in 2 .. Len(business')
    BY <2>2, <1>1, <1>2, <1>3
  <2>3. CASE i \in 2 .. Len(business') /\ j = 1
    BY <2>3, <1>1, <1>2, <1>3
  <2>4. CASE i \in 2 .. Len(business') /\ j \in 2 .. Len(business')
    <3>1. i - 1 = j - 1
      BY <2>4, <1>1, <1>3 DEF KeptOnce, Unlike
    <3> QED BY <3>1, <2>4
  <2> QED BY <2>1, <2>2, <2>3, <2>4, <1>1
<1> QED BY <1>3 DEF Unlike

\* What a step adds is an event of no send, or of one that ends by it.
LEMMA StepAdds ==
  ASSUME MtForm, Step
  PROVE  \/ NothingAdded /\ mt'.heard = mt.heard
         \/ \E e \in Business : /\ Added(e) /\ mt'.heard = HeardWith(e)
                                /\ Source(e) \in Sends => sends[Source(e)] # Ended /\ sends'[Source(e)] = Ended
<1>1. ASSUME NEW e \in Received PROVE e \in Business /\ Source(e) \notin Sends
  BY ReceivedIs, TimelineAssumption DEF Business, Source
<1>2. ASSUME NEW e \in Locals PROVE e \in Business /\ HeardWith(e) = mt.heard
  BY LocalIs DEF Business, HeardWith
<1> QED BY <1>1, <1>2 DEF Step

\* What is in the file after a write is in the layer, or was there.
LEMMA WrittenIs ==
  ASSUME LayersForm(business', operational'), Written
  PROVE  /\ \A k \in 1 .. Len(stored') : ~IsOperational(stored'[k]) =>
              \/ \E i \in 1 .. Len(business') : stored'[k] = business'[i]
              \/ stored' = stored
         /\ stored' = stored \/ (Unlike(business') => Unlike(stored'))
<1> DEFINE b == business'
           o == operational'
           list == ListEvents(b, o)
<1>1. /\ Unlike(b) => Unlike(FirstOf(list, EventsKept))
      /\ \A k \in 1 .. Len(list) : (\E i \in 1 .. Len(b) : list[k] = b[i]) \/ list[k] \in Operational
  BY FileIsSelected
<1>2. list \in Seq(Events)
  BY ListForm
<1>3. \A k \in 1 .. Len(FirstOf(list, EventsKept)) : FirstOf(list, EventsKept)[k] = list[k] /\ k \in 1 .. Len(list)
  <2> HIDE DEF list
  <2> QED BY <1>2, FirstAreTheSame, TimelineAssumption
<1>4. stored' = stored \/ stored' = FirstOf(list, EventsKept)
  BY DEF Written
<1> HIDE DEF list, b
<1>5. CASE stored' = FirstOf(list, EventsKept)
  BY <1>1, <1>3, <1>5, EventIs DEF b
<1> QED BY <1>4, <1>5

\* A step keeps every message once.
LEMMA StepKeepsOnce ==
  ASSUME MtForm, MtForm', KeptOnce, Step
  PROVE  KeptOnce'
<1>1. LayersForm(business', operational') /\ clock \in Nat /\ clock' \in Nat /\ clock' >= clock /\ Written
  BY DEF MtForm, Step
<1>2. /\ \A k \in 1 .. Len(stored') : ~IsOperational(stored'[k]) =>
           \/ \E i \in 1 .. Len(business') : stored'[k] = business'[i]
           \/ stored' = stored
      /\ stored' = stored \/ (Unlike(business') => Unlike(stored'))
  BY <1>1, WrittenIs
<1>3. \A s \in Sends : sends[s] = Ended => sends'[s] = Ended
  BY DEF Step
<1>4. ASSUME NEW e \in Kept, mt.heard \subseteq mt'.heard
      PROVE  /\ e.at <= clock'
             /\ Source(e) \in Sends => sends'[Source(e)] = Ended
             /\ e.dir = "status" => [id |-> e.id, status |-> e.status, at |-> e.at] \in mt'.heard
  <2>1. e.at \in Nat
    BY KeptEvents, EventIs
  <2>2. e.at <= clock /\ (Source(e) \in Sends => sends[Source(e)] = Ended)
        /\ (e.dir = "status" => [id |-> e.id, status |-> e.status, at |-> e.at] \in mt.heard)
    BY DEF KeptOnce, KeptIsTrue
  <2> QED BY <2>1, <2>2, <1>1, <1>3, <1>4
<1>5. CASE NothingAdded /\ mt'.heard = mt.heard
  <2>1. business' = business /\ keyOrder' = keyOrder
    BY <1>5 DEF NothingAdded
  <2>2. Kept' \subseteq Kept
    BY <1>2, <2>1 DEF Kept
  <2>3. KeptIsTrue'
    BY <1>4, <1>5, <2>2 DEF KeptIsTrue
  <2>4. Unlike(business') /\ Unlike(stored') /\ Remembered(business', keyOrder')
    BY <1>2, <2>1 DEF KeptOnce
  <2> QED BY <2>3, <2>4 DEF KeptOnce
<1>6. ASSUME NEW e \in Business, Added(e), mt'.heard = HeardWith(e),
             Source(e) \in Sends => sends[Source(e)] # Ended /\ sends'[Source(e)] = Ended
      PROVE  KeptOnce'
  <2>1. /\ \A i \in 2 .. Len(business') : business'[i] = business[i - 1] /\ i - 1 \in 1 .. Len(business)
        /\ business'[1] = e /\ Len(business') \in Nat
    BY <1>6, AddedIs
  <2>2. Kept' \subseteq Kept \cup {e}
    <3>1. \A i \in 1 .. Len(business') : business'[i] \in Kept \cup {e}
      <4> SUFFICES ASSUME NEW i \in 1 .. Len(business') PROVE business'[i] \in Kept \cup {e}
        OBVIOUS
      <4>1. i = 1 \/ i \in 2 .. Len(business')
        BY <2>1
      <4>2. \A j \in 1 .. Len(business) : business[j] \in Kept
        BY KeptEvents
      <4> QED BY <2>1, <4>1, <4>2
    <3>2. \A k \in 1 .. Len(stored) : ~IsOperational(stored[k]) => stored[k] \in Kept
      BY DEF Kept
    <3>3. \A k \in 1 .. Len(stored') : ~IsOperational(stored'[k]) => stored'[k] \in Kept \cup {e}
      BY <1>2, <3>1, <3>2
    <3> QED BY <3>1, <3>3 DEF Kept
  <2>3. mt.heard \subseteq mt'.heard
    BY <1>6 DEF HeardWith
  <2>4. /\ e.at <= clock' /\ (Source(e) \in Sends => sends'[Source(e)] = Ended)
        /\ e.dir = "status" => [id |-> e.id, status |-> e.status, at |-> e.at] \in mt'.heard
    <3>1. e.at = clock
      BY <1>6 DEF Added
    <3> QED BY <3>1, <1>1, <1>6 DEF HeardWith
  <2>5. KeptIsTrue'
    BY <1>4, <2>2, <2>3, <2>4 DEF KeptIsTrue
  <2>6. Unlike(business')
    BY <1>6, AddedIsUnlike
  <2>7. Unlike(stored')
    BY <1>2, <2>6 DEF KeptOnce
  <2>8. Remembered(business', keyOrder')
    BY <1>6, AddedIsRemembered DEF KeptOnce
  <2> QED BY <2>5, <2>6, <2>7, <2>8 DEF KeptOnce
<1> QED BY <1>5, <1>6, StepAdds

\* So does the death of the process.
LEMMA CrashKeepsOnce ==
  ASSUME MtForm, KeptOnce, MtCrash
  PROVE  KeptOnce'
<1> DEFINE b == Restored(stored, "business")
<1>1. /\ MtForm' /\ Unlike(business') /\ Remembered(business', keyOrder')
      /\ mt'.heard = {h \in mt.heard : \E i \in 1 .. Len(stored) : IsHearing(stored[i], h)}
      /\ \A s \in Sends : sends'[s] = IF sends[s] = New THEN New ELSE Ended
  BY CrashForm DEF KeptOnce
<1>2. business' = b /\ stored' = stored /\ clock' = clock
  BY DEF MtCrash
<1>3. \A k \in 1 .. Len(b) : ~IsOperational(b[k]) /\ \E i \in 1 .. Len(stored) : b[k] = stored[i]
  BY RestoredIs, SelectedKeeps DEF MtForm
<1> HIDE DEF b
<1>4. \A e \in Kept' : e \in Kept /\ ~IsOperational(e) /\ \E i \in 1 .. Len(stored) : e = stored[i]
  BY <1>2, <1>3 DEF Kept
<1>5. ASSUME NEW e \in Kept'
      PROVE  /\ e.at <= clock'
             /\ Source(e) \in Sends => sends'[Source(e)] = Ended
             /\ e.dir = "status" => [id |-> e.id, status |-> e.status, at |-> e.at] \in mt'.heard
  <2>1. /\ e.at <= clock /\ (Source(e) \in Sends => sends[Source(e)] = Ended)
        /\ e.dir = "status" => [id |-> e.id, status |-> e.status, at |-> e.at] \in mt.heard
    BY <1>4 DEF KeptOnce, KeptIsTrue
  <2>2. New # Ended
    BY DEF New, Ended
  <2>3. ASSUME e.dir = "status" PROVE [id |-> e.id, status |-> e.status, at |-> e.at] \in mt'.heard
    <3> DEFINE h == [id |-> e.id, status |-> e.status, at |-> e.at]
    <3>1. h \in mt.heard
      BY <2>1, <2>3
    <3>2. IsHearing(e, h)
      BY <1>4, <2>3 DEF IsHearing
    <3> HIDE DEF h
    <3>3. h \in mt'.heard
      BY <1>1, <1>4, <3>1, <3>2
    <3> QED BY <3>3 DEF h
  <2> QED BY <2>1, <2>2, <2>3, <1>1, <1>2
<1>6. KeptIsTrue'
  BY <1>5 DEF KeptIsTrue
<1>7. Unlike(stored')
  BY <1>2 DEF KeptOnce
<1> QED BY <1>1, <1>6, <1>7 DEF KeptOnce

\* An action is the death of the process, or a step.
LEMMA ActionSteps ==
  ASSUME MtForm, [MtNext]_mtVars
  PROVE  MtCrash \/ (MtForm' /\ Step)
<1>1. ASSUME NEW s \in Sends, NEW route \in Routes, NEW ok \in BOOLEAN,
             NEW provider \in Providers(route), NEW form \in Forms(route), Request(s, route, provider, form, ok)
      PROVE  MtForm' /\ Step
  BY <1>1, RequestSteps
<1>2. ASSUME NEW s \in Sends, NEW route \in Routes, NEW form \in Forms(route), RefuseRequest(s, route, form)
      PROVE  MtForm' /\ Step
  BY <1>2, RefusalSteps
<1>3. ASSUME NEW s \in Sends, NEW answer \in {"taken", "lost", "failed"}, Post(s, answer) PROVE MtForm' /\ Step
  BY <1>3, PostSteps
<1>4. ASSUME NEW s \in Sends, NEW ok \in BOOLEAN, Succeed(s, ok) \/ Fail(s, ok) PROVE MtForm' /\ Step
  BY <1>4, SuccessSteps, FailureSteps
<1>5. ASSUME NEW p \in Notices, NEW ok \in BOOLEAN, Receive(p, ok) PROVE MtForm' /\ Step
  BY <1>5, ReceiptSteps
<1>6. ASSUME NEW ok \in BOOLEAN, Operate(ok) PROVE MtForm' /\ Step
  BY <1>6, OperationSteps
<1>7. ASSUME NEW medium, GetMedia(medium) \/ UpdateMediaDownloadState(medium) PROVE MtForm' /\ Step
  BY <1>7, QuietSteps
<1>8. ASSUME TimePasses \/ UNCHANGED mtVars PROVE MtForm' /\ Step
  BY <1>8, QuietSteps
<1> QED BY <1>1, <1>2, <1>3, <1>4, <1>5, <1>6, <1>7, <1>8 DEF MtNext

\* At first nothing is kept.
LEMMA FirstForm ==
  ASSUME MtInit
  PROVE  MtForm /\ KeptOnce
<1>1. /\ business = <<>> /\ operational = <<>> /\ stored = <<>> /\ keyOrder = <<>> /\ keys = {} /\ attempts = <<>>
      /\ sends = [s \in Sends |-> New] /\ clock = 0
      /\ mt = [saves |-> 0, upsets |-> 0, file |-> "current", taken |-> [s \in Sends |-> 0], heard |-> {}]
  BY DEF MtInit
<1>2. EventsKept \in Nat /\ KeysKept \in Nat /\ AttemptsKept \in Nat
  BY TimelineAssumption
<1>3. \A S : <<>> \in Seq(S) /\ Len(<<>>) = 0 /\ 1 .. Len(<<>>) = {}
  OBVIOUS
<1>4. mt \in Histories
  BY <1>1 DEF Histories
<1>5. SendsForm(sends)
  BY <1>1 DEF SendsForm
<1>6. LayersForm(business, operational) /\ FileForm(stored) /\ KeysForm(keyOrder, keys) /\ AttemptsForm(attempts)
  BY <1>1, <1>2, <1>3 DEF LayersForm, FileForm, KeysForm, AttemptsForm
<1>7. KeptOnce
  BY <1>1, <1>3 DEF KeptOnce, Unlike, Remembered, KeptIsTrue, Kept
<1> QED BY <1>1, <1>4, <1>5, <1>6, <1>7 DEF MtForm

\* In every state there is what has been shown.
LEMMA FormsAreKept == MtSpec => [](MtForm /\ KeptOnce)
<1>1. MtInit => MtForm /\ KeptOnce
  BY FirstForm
<1>2. MtForm /\ KeptOnce /\ [MtNext]_mtVars => (MtForm /\ KeptOnce)'
  <2> SUFFICES ASSUME MtForm, KeptOnce, [MtNext]_mtVars PROVE MtForm' /\ KeptOnce'
    OBVIOUS
  <2>1. CASE MtCrash
    BY <2>1, CrashForm, CrashKeepsOnce DEF KeptOnce
  <2>2. CASE MtForm' /\ Step
    BY <2>2, StepKeepsOnce
  <2> QED BY <2>1, <2>2, ActionSteps
<1> QED BY <1>1, <1>2, PTL DEF MtSpec

\* The layers, the file and the stores keep to their sizes and their forms.
THEOREM TimelineTypes == MtSpec => []MtTypeOK
<1>1. MtForm => MtTypeOK
  <2> SUFFICES ASSUME MtForm PROVE MtTypeOK
    OBVIOUS
  <2>1. \A s \in {business, operational, stored} : Len(s) <= EventsKept
    BY DEF MtForm, LayersForm, FileForm
  <2>2. ASSUME NEW i \in 1 .. Len(business)
        PROVE  [name |-> business[i].name, dir |-> business[i].dir, attempt |-> business[i].attempt] \in Event
    <3>1. business[i] \in Business
      BY ElementOfSeq DEF MtForm, LayersForm
    <3> QED BY <3>1, ReceivedIs, LocalIs DEF Business, Event
  <2>3. Len(keyOrder) <= KeysKept /\ keys = {keyOrder[i] : i \in 1 .. Len(keyOrder)}
    BY DEF MtForm, KeysForm
  <2>4. Len(attempts) <= AttemptsKept /\ \A i \in 1 .. Len(attempts) : attempts[i].of \in Sends
    <3>1. attempts \in Seq(Attempts) /\ Len(attempts) <= AttemptsKept
      BY DEF MtForm, AttemptsForm
    <3>2. \A i \in 1 .. Len(attempts) : attempts[i] \in Attempts
      BY <3>1, ElementOfSeq
    <3> QED BY <3>1, <3>2 DEF Attempts
  <2>5. ASSUME NEW s \in Sends PROVE sends[s].pc \in {"new", "posting", "taken", "failed", "ended"}
    <3>1. sends[s] \in {New, Ended} \cup UnderWay
      BY DEF MtForm, SendsForm
    <3> QED BY <3>1 DEF New, Ended, UnderWay
  <2> QED BY <2>1, <2>2, <2>3, <2>4, <2>5 DEF MtTypeOK
<1> QED BY <1>1, FormsAreKept, PTL

\* Two events that a provider notified of one message are of one key.
LEMMA NoticesAgree ==
  ASSUME NEW e \in Received, NEW f \in Received, e.id = f.id, e.name = f.name, e.status = f.status
  PROVE  EventKey(e) = EventKey(f)
<1>1. PICK p \in {q \in Notices : IsBusiness(q)}, n \in Nat, t \in Nat : e = Normalize(p, n, t)
  BY DEF Received
<1>2. PICK q \in {r \in Notices : IsBusiness(r)}, m \in Nat, u \in Nat : f = Normalize(q, m, u)
  BY DEF Received
<1>3. p \in Notices /\ q \in Notices /\ IsBusiness(p) /\ IsBusiness(q)
  BY <1>1, <1>2
<1>4. CASE e.name = "MESSAGES_UPDATE"
  <2>1. e.dir = "status" /\ f.dir = "status" /\ e.kind = f.kind
    BY <1>4, ReceivedIs
  <2> QED BY <2>1 DEF EventKey
<1>5. CASE e.name # "MESSAGES_UPDATE"
  <2>1. Canonical(p.event) # "MESSAGES_UPDATE" /\ Canonical(q.event) # "MESSAGES_UPDATE"
    BY <1>1, <1>2, <1>5 DEF Normalize
  <2>2. /\ e.name = Canonical(p.event) /\ e.id = p.id /\ e.kind = Kind(p.message)
        /\ e.dir = IF p.fromMe THEN "outbound" ELSE "inbound"
    BY <1>1, <2>1 DEF Normalize
  <2>3. /\ f.name = Canonical(q.event) /\ f.id = q.id /\ f.kind = Kind(q.message)
        /\ f.dir = IF q.fromMe THEN "outbound" ELSE "inbound"
    BY <1>2, <2>1 DEF Normalize
  <2>4. q.fromMe = p.fromMe /\ Kind(q.message) = Kind(p.message)
    BY <1>3, <2>1, <2>2, <2>3, NoticesAssumption
  <2>5. e.dir = f.dir /\ e.kind = f.kind
    BY <2>2, <2>3, <2>4
  <2> QED BY <2>5 DEF EventKey
<1> QED BY <1>4, <1>5

\* However often, and under whichever spelling, a provider notifies a message or
\* a status, before or after a restart, the timeline has it once, and it is
\* remembered for as long as it is shown.
THEOREM ReceivedAndKeptOnce == MtSpec => []ReceivedOnce
<1>1. MtForm /\ KeptOnce => ReceivedOnce
  <2> SUFFICES ASSUME MtForm, KeptOnce, NEW i \in 1 .. Len(business), EventKey(business[i]) # NoEventKey
      PROVE  /\ EventKey(business[i]) \in keys
             /\ \A j \in 1 .. Len(business) : business[i].id = business[j].id /\ business[i].name = business[j].name
                   /\ business[i].status = business[j].status => i = j
    BY DEF ReceivedOnce
  <2>1. \A j \in 1 .. Len(business) : business[j] \in Business
    BY ElementOfSeq DEF MtForm, LayersForm
  <2>2. EventKey(business[i]) \in keys
    <3>1. PICK p \in 1 .. Len(keyOrder) : keyOrder[p] = EventKey(business[i])
      BY DEF KeptOnce, Remembered
    <3> QED BY <3>1 DEF MtForm, KeysForm
  <2>3. ASSUME NEW j \in 1 .. Len(business), business[i].id = business[j].id, business[i].name = business[j].name,
               business[i].status = business[j].status
        PROVE  i = j
    <3> DEFINE e == business[i]
               f == business[j]
    <3>1. e \in Business /\ f \in Business /\ EventKey(e) # NoEventKey /\ ~IsOperational(e) /\ ~IsOperational(f)
          /\ e.id = f.id /\ e.name = f.name /\ e.status = f.status
      BY <2>1, <2>3, EventIs
    <3> HIDE DEF e, f
    <3>2. Alike(e, f)
      <4>1. CASE e.name \in {"MESSAGES_UPSERT", "MESSAGES_UPDATE", "SEND_MESSAGE"}
        <5>1. e \in Received /\ f \in Received
          BY <3>1, <4>1, LocalIs DEF Business
        <5> QED BY <3>1, <5>1, NoticesAgree DEF Alike
      <4>2. CASE e.name = "LOCAL_OUTBOUND_SEND"
        <5>1. e \in Locals
          BY <3>1, <4>2, ReceivedIs DEF Business
        <5>2. e.id[1] \in Sends
          BY <4>2, <5>1, LocalIs
        <5> QED BY <3>1, <4>2, <5>2 DEF Alike, Source
      <4>3. CASE e.name = "LOCAL_SEND"
        <5>1. e.id = NoId
          BY <3>1, <4>3, ReceivedIs, LocalIs DEF Business
        <5> QED BY <3>1, <5>1 DEF EventKey
      <4> QED BY <3>1, <4>1, <4>2, <4>3, ReceivedIs, LocalIs DEF Business
    <3>3. Alike(business[i], business[j])
      BY <3>2 DEF e, f
    <3> QED BY <3>3 DEF KeptOnce, Unlike
  <2> QED BY <2>2, <2>3
<1> QED BY <1>1, FormsAreKept, PTL

-------------------------------------------------------------------------------
(* A send is taken once, and is one delivery.                              *)

\* What an action does to the sends and their attempts.
Moves ==
    \/ UNCHANGED <<sends, attempts>> /\ mt'.taken = mt.taken
    \/ \E s \in Sends : /\ sends[s] = New /\ mt'.taken = mt.taken
                        /\ \E to \in UnderWay : to.pc = "posting" /\ sends' = [sends EXCEPT ![s] = to]
                        /\ attempts' = attempts \/ attempts' = KeepAttempt(s)
    \/ \E s \in Sends : /\ sends' = [sends EXCEPT ![s] = Ended] /\ mt'.taken = mt.taken
                        /\ attempts' = attempts \/ \E id \in Ids : attempts' = Finished(s, id)
    \/ \E s \in Sends, answer \in {"taken", "lost", "failed"} : Post(s, answer)
    \/ MtCrash

\* Every action does so.
LEMMA ActionMoves ==
  ASSUME MtForm, [MtNext]_mtVars
  PROVE  Moves
<1>1. ASSUME NEW s \in Sends, NEW route \in Routes, NEW ok \in BOOLEAN,
             NEW provider \in Providers(route), NEW form \in Forms(route), Request(s, route, provider, form, ok)
      PROVE  Moves
  <2> DEFINE to == [pc |-> "posting", route |-> route, provider |-> provider, form |-> form, tries |-> Retries]
  <2>1. to \in UnderWay /\ to.pc = "posting"
    BY RequestUnderWay
  <2>2. sends[s] = New /\ sends' = [sends EXCEPT ![s] = to] /\ (attempts' = attempts \/ attempts' = KeepAttempt(s))
    BY <1>1 DEF Request
  <2> HIDE DEF to
  <2>3. mt'.taken = mt.taken
    BY <1>1, RequestSteps
  <2> QED BY <2>1, <2>2, <2>3 DEF Moves
<1>2. ASSUME NEW s \in Sends, NEW route \in Routes, NEW form \in Forms(route), RefuseRequest(s, route, form)
      PROVE  Moves
  <2>1. mt'.taken = mt.taken
    BY <1>2, RefusalSteps
  <2> QED BY <1>2, <2>1 DEF Moves, RefuseRequest, Ended
<1>3. ASSUME NEW s \in Sends, NEW answer \in {"taken", "lost", "failed"}, Post(s, answer) PROVE Moves
  BY <1>3 DEF Moves
<1>4. ASSUME NEW s \in Sends, NEW ok \in BOOLEAN, Succeed(s, ok) PROVE Moves
  <2>1. mt'.taken = mt.taken
    BY <1>4, SuccessSteps
  <2>2. ProviderId(s) \in Ids
    BY ProviderIdIs DEF Ids
  <2>3. sends' = [sends EXCEPT ![s] = Ended] /\ attempts' = Finished(s, ProviderId(s))
    BY <1>4 DEF Succeed, Ended
  <2> QED BY <2>1, <2>2, <2>3 DEF Moves
<1>5. ASSUME NEW s \in Sends, NEW ok \in BOOLEAN, Fail(s, ok) PROVE Moves
  <2>1. mt'.taken = mt.taken
    BY <1>5, FailureSteps
  <2> QED BY <1>5, <2>1 DEF Moves, Fail, Ended
<1>6. ASSUME NEW p \in Notices, NEW ok \in BOOLEAN, Receive(p, ok) PROVE Moves
  <2>1. mt'.taken = mt.taken
    BY <1>6, ReceiptSteps
  <2> QED BY <1>6, <2>1 DEF Moves, Receive
<1>7. ASSUME NEW ok \in BOOLEAN, Operate(ok) PROVE Moves
  <2>1. mt'.taken = mt.taken
    BY <1>7, OperationSteps
  <2> QED BY <1>7, <2>1 DEF Moves, Operate
<1>8. ASSUME NEW medium, GetMedia(medium) \/ UpdateMediaDownloadState(medium) PROVE Moves
  BY <1>8 DEF Moves, GetMedia, UpdateMediaDownloadState
<1>9. ASSUME TimePasses \/ UNCHANGED mtVars PROVE Moves
  BY <1>9 DEF Moves, TimePasses, mtVars
<1>10. ASSUME MtCrash PROVE Moves
  BY <1>10 DEF Moves
<1> QED BY <1>1, <1>2, <1>3, <1>4, <1>5, <1>6, <1>7, <1>8, <1>9, <1>10 DEF MtNext

\* A send has one attempt, from when it is under way.
AttemptedOnce ==
    /\ \A i \in 1 .. Len(attempts), j \in 1 .. Len(attempts) : attempts[i].of = attempts[j].of => i = j
    /\ \A i \in 1 .. Len(attempts) : sends[attempts[i].of] # New

\* Before it is asked the provider took nothing, and after that once at most; but
\* media in a data URI.
MayBeTaken(send, n) ==
    /\ send = New => n = 0
    /\ send.pc = "posting" /\ send.form \notin {"uri", "raw"} => n = 0
    /\ send.pc \in {"taken", "failed"} /\ send.form \notin {"uri", "raw"} => n <= 1
TakenOnce == \A s \in Sends : MayBeTaken(sends[s], mt.taken[s])

\* What is under way is not new again.
LEMMA NeverNew ==
  ASSUME MtForm, Moves, NEW s \in Sends, sends[s] # New
  PROVE  sends'[s] # New
<1>1. sends \in [Sends -> {New, Ended} \cup UnderWay] /\ New # Ended /\ New \notin UnderWay
  BY DEF MtForm, SendsForm, New, Ended, UnderWay
<1>2. ASSUME NEW r \in Sends, NEW answer \in {"taken", "lost", "failed"}, Post(r, answer) PROVE sends'[s] # New
  <2>1. sends'[s] = New => sends[s] = New \/ s = r
    BY <1>1, <1>2 DEF Post
  <2>2. MtForm' /\ sends[r] # New /\ sends[r] \in UnderWay
    BY <1>2, PostSteps, UnderWayIs DEF Post, MtForm
  <2>3. sends'[r] = IF answer = "taken" THEN [sends[r] EXCEPT !.pc = "taken"] ELSE Unanswered(sends[r])
    BY <1>1, <1>2 DEF Post
  <2>4. sends'[r].pc \in {"posting", "taken", "failed"}
    BY <2>2, <2>3 DEF Unanswered, UnderWay
  <2>5. sends'[r] # New
    BY <2>4 DEF New
  <2> QED BY <2>1, <2>5
<1>3. CASE MtCrash
  BY <1>1, <1>3 DEF MtCrash, Ended
<1> QED BY <1>1, <1>2, <1>3 DEF Moves

\* No send is attempted twice.
LEMMA MovesKeepAttempts ==
  ASSUME MtForm, AttemptedOnce, Moves
  PROVE  AttemptedOnce'
<1>1. AttemptsForm(attempts) /\ attempts \in Seq(Attempts) /\ Len(attempts) \in Nat
  BY LenProperties DEF MtForm, AttemptsForm
<1>2. \A i \in 1 .. Len(attempts) : attempts[i].of \in Sends
  <2>1. \A i \in 1 .. Len(attempts) : attempts[i] \in Attempts
    BY <1>1, ElementOfSeq
  <2> QED BY <2>1 DEF Attempts
<1>3. \A s \in Sends : sends[s] # New => sends'[s] # New
  BY NeverNew
<1>4. ASSUME Len(attempts') = Len(attempts), \A i \in 1 .. Len(attempts) : attempts'[i].of = attempts[i].of
      PROVE  AttemptedOnce'
  BY <1>2, <1>3, <1>4 DEF AttemptedOnce
<1>5. CASE attempts' = attempts
  BY <1>4, <1>5
<1>6. ASSUME NEW s, NEW id \in Ids, attempts' = Finished(s, id) PROVE AttemptedOnce'
  BY <1>1, <1>4, <1>6, FinishedForm
<1>7. ASSUME NEW s \in Sends, sends[s] = New, sends'[s] # New, attempts' = KeepAttempt(s) PROVE AttemptedOnce'
  <2> DEFINE n == Len(attempts')
  <2>1. /\ \/ n = Len(attempts) + 1 /\ \A i \in 1 .. Len(attempts) : attempts'[i] = attempts[i]
           \/ n = Len(attempts) /\ n >= 1 /\ \A i \in 1 .. n - 1 : attempts'[i] = attempts[i + 1]
        /\ attempts'[n].of = s
    <3> DEFINE a == KeepAttempt(s)
    <3>1. /\ \/ Len(a) = Len(attempts) + 1 /\ \A i \in 1 .. Len(attempts) : a[i] = attempts[i]
             \/ Len(a) = Len(attempts) /\ Len(attempts) >= 1 /\ \A i \in 1 .. Len(attempts) - 1 : a[i] = attempts[i + 1]
          /\ a[Len(a)] = [of |-> s, id |-> NoId]
      BY <1>1, KeptForm
    <3>2. attempts' = a
      BY <1>7
    <3> HIDE DEF a
    <3> QED BY <3>1, <3>2
  <2> HIDE DEF n
  <2>2. \A i \in 1 .. n - 1 : \E k \in 1 .. Len(attempts) : attempts'[i] = attempts[k] /\ (k = i \/ k = i + 1)
    BY <1>1, <2>1
  <2>3. \A i \in 1 .. n - 1 : attempts'[i].of \in Sends /\ attempts'[i].of # s /\ sends'[attempts'[i].of] # New
    BY <1>2, <1>3, <1>7, <2>2 DEF AttemptedOnce
  <2>4. n \in Nat /\ n >= 1
    BY <1>1, <2>1
  <2>5. ASSUME NEW i \in 1 .. n - 1, NEW j \in 1 .. n - 1, attempts'[i].of = attempts'[j].of PROVE i = j
    <3>1. CASE n = Len(attempts) + 1 /\ \A k \in 1 .. Len(attempts) : attempts'[k] = attempts[k]
      <4>1. i \in 1 .. Len(attempts) /\ j \in 1 .. Len(attempts)
        BY <1>1, <3>1
      <4> QED BY <2>5, <3>1, <4>1 DEF AttemptedOnce
    <3>2. CASE n = Len(attempts) /\ \A k \in 1 .. n - 1 : attempts'[k] = attempts[k + 1]
      <4>1. i + 1 \in 1 .. Len(attempts) /\ j + 1 \in 1 .. Len(attempts)
        BY <1>1, <3>2
      <4>2. i + 1 = j + 1
        BY <2>5, <3>2, <4>1 DEF AttemptedOnce
      <4> QED BY <4>2
    <3> QED BY <2>1, <3>1, <3>2
  <2>6. \A i \in 1 .. n : i = n \/ i \in 1 .. n - 1
    BY <2>4
  <2>7. \A i \in 1 .. n, j \in 1 .. n : attempts'[i].of = attempts'[j].of => i = j
    BY <2>1, <2>3, <2>5, <2>6
  <2>8. \A i \in 1 .. n : sends'[attempts'[i].of] # New
    BY <1>7, <2>1, <2>3, <2>6
  <2> QED BY <2>7, <2>8 DEF AttemptedOnce, n
<1>8. ASSUME NEW s \in Sends, NEW to \in UnderWay, sends' = [sends EXCEPT ![s] = to] PROVE sends'[s] # New
  BY <1>8 DEF MtForm, SendsForm, UnderWay, New
<1>9. \/ attempts' = attempts
      \/ \E s \in Sends, id \in Ids : attempts' = Finished(s, id)
      \/ \E s \in Sends : sends[s] = New /\ sends'[s] # New /\ attempts' = KeepAttempt(s)
  BY <1>8 DEF Moves, Post, MtCrash
<1> QED BY <1>5, <1>6, <1>7, <1>9

\* A send that ends or is first asked about has not been taken in between.
LEMMA QuietMoves ==
  ASSUME MtForm, TakenOnce, mt'.taken = mt.taken,
         \A r \in Sends : \/ sends'[r] = sends[r]
                          \/ sends'[r] = Ended
                          \/ sends[r] = New /\ sends'[r].pc = "posting" /\ sends'[r] # New
  PROVE  TakenOnce'
<1>1. Ended.pc = "ended" /\ New # Ended
  BY DEF New, Ended
<1> SUFFICES ASSUME NEW s \in Sends PROVE MayBeTaken(sends'[s], mt'.taken[s])
  BY DEF TakenOnce
<1>2. MayBeTaken(sends[s], mt.taken[s]) /\ mt'.taken[s] = mt.taken[s]
  BY DEF TakenOnce
<1>3. CASE sends'[s] = sends[s]
  BY <1>2, <1>3
<1>4. CASE sends'[s] = Ended
  BY <1>1, <1>4 DEF MayBeTaken
<1>5. CASE sends[s] = New /\ sends'[s].pc = "posting" /\ sends'[s] # New
  <2>1. mt.taken[s] = 0
    BY <1>2, <1>5 DEF MayBeTaken
  <2> QED BY <1>2, <1>5, <2>1 DEF MayBeTaken
<1> QED BY <1>3, <1>4, <1>5

\* No send is taken twice.
LEMMA MovesTakeOnce ==
  ASSUME MtForm, TakenOnce, Moves
  PROVE  TakenOnce'
<1>1. sends \in [Sends -> {New, Ended} \cup UnderWay] /\ mt.taken \in [Sends -> Nat]
  BY DEF MtForm, SendsForm, Histories
<1>2. New.pc = "new" /\ Ended.pc = "ended" /\ New # Ended
  BY DEF New, Ended
<1>3. CASE UNCHANGED <<sends, attempts>> /\ mt'.taken = mt.taken
  BY <1>3, QuietMoves
<1>4. ASSUME NEW s \in Sends, sends[s] = New, mt'.taken = mt.taken, NEW to \in UnderWay, to.pc = "posting",
             sends' = [sends EXCEPT ![s] = to]
      PROVE  TakenOnce'
  <2>1. \A r \in Sends : sends'[r] = sends[r] \/ (sends[r] = New /\ sends'[r].pc = "posting" /\ sends'[r] # New)
    BY <1>1, <1>2, <1>4
  <2> QED BY <1>4, <2>1, QuietMoves
<1>5. ASSUME NEW s \in Sends, sends' = [sends EXCEPT ![s] = Ended], mt'.taken = mt.taken PROVE TakenOnce'
  <2>1. \A r \in Sends : sends'[r] = sends[r] \/ sends'[r] = Ended
    BY <1>1, <1>5
  <2> QED BY <1>5, <2>1, QuietMoves
<1>6. CASE MtCrash
  <2>1. mt'.taken = mt.taken
    BY <1>6 DEF MtCrash, MtForm, Histories
  <2>2. \A r \in Sends : sends'[r] = sends[r] \/ sends'[r] = Ended
    BY <1>6 DEF MtCrash, Ended
  <2> QED BY <2>1, <2>2, QuietMoves
<1>7. ASSUME NEW s \in Sends, NEW answer \in {"taken", "lost", "failed"}, Post(s, answer) PROVE TakenOnce'
  <2>1. sends[s] \in UnderWay /\ sends[s].pc = "posting" /\ sends[s].tries = 0
    BY <1>1, <1>7, <1>2 DEF Post, UnderWay
  <2>2. /\ sends'[s] = IF answer = "taken" THEN [sends[s] EXCEPT !.pc = "taken"] ELSE Unanswered(sends[s])
        /\ \A r \in Sends : r # s => sends'[r] = sends[r]
    BY <1>1, <1>7 DEF Post
  <2>3. /\ mt'.taken[s] = (IF answer = "failed" THEN mt.taken[s] ELSE mt.taken[s] + 1)
        /\ \A r \in Sends : r # s => mt'.taken[r] = mt.taken[r]
    <3>1. mt' = [mt EXCEPT !.taken[s] = IF answer = "failed" THEN @ ELSE @ + 1]
      BY <1>7 DEF Post
    <3>2. mt \in Histories
      BY DEF MtForm
    <3> QED BY <1>1, <3>1, <3>2 DEF Histories
  <2>4. MayBeTaken(sends[s], mt.taken[s]) /\ mt.taken[s] \in Nat
    BY <1>1 DEF TakenOnce
  <2>5. MayBeTaken(sends'[s], mt'.taken[s])
    <3>1. CASE sends[s].form = "uri"
      <4>1. sends'[s].form \in {"uri", "raw"} /\ sends'[s].pc \in {"posting", "taken", "failed"}
        BY <2>1, <2>2, <3>1 DEF Unanswered, UnderWay, Retries
      <4> QED BY <1>2, <4>1 DEF MayBeTaken
    <3>2. CASE sends[s].form # "uri"
      <4>1. sends'[s].form = sends[s].form /\ sends'[s].pc \in {"taken", "failed"}
        BY <2>1, <2>2, <3>2 DEF Unanswered, UnderWay
      <4>2. sends'[s].form \notin {"uri", "raw"} => mt'.taken[s] <= 1
        BY <2>1, <2>3, <2>4, <4>1 DEF MayBeTaken
      <4> QED BY <1>2, <4>1, <4>2 DEF MayBeTaken
    <3> QED BY <3>1, <3>2
  <2>6. \A r \in Sends : MayBeTaken(sends'[r], mt'.taken[r])
    <3>1. \A r \in Sends : MayBeTaken(sends[r], mt.taken[r])
      BY DEF TakenOnce
    <3> QED BY <2>2, <2>3, <2>5, <3>1
  <2> QED BY <2>6 DEF TakenOnce
<1> QED BY <1>3, <1>4, <1>5, <1>6, <1>7 DEF Moves

\* A set whose members are all the same has one at most.
LEMMA OneAtMost ==
  ASSUME NEW S, \A x \in S, y \in S : x = y
  PROVE  Cardinality(S) = IF S = {} THEN 0 ELSE 1
<1>1. CASE S = {}
  BY <1>1, FS_EmptySet
<1>2. CASE S # {}
  <2>1. PICK x \in S : TRUE
    BY <1>2
  <2>2. S = {x}
    BY <2>1
  <2> QED BY <1>2, <2>2, FS_Singleton
<1> QED BY <1>1, <1>2

\* In every state a send has one attempt, and was taken once.
LEMMA SendsAreOnce == MtSpec => [](AttemptedOnce /\ TakenOnce)
<1>1. MtInit => AttemptedOnce /\ TakenOnce
  <2> SUFFICES ASSUME MtInit PROVE AttemptedOnce /\ TakenOnce
    OBVIOUS
  <2>1. attempts = <<>> /\ 1 .. Len(<<>>) = {} /\ \A s \in Sends : sends[s] = New /\ mt.taken[s] = 0
    BY DEF MtInit
  <2>2. \A s \in Sends : MayBeTaken(sends[s], mt.taken[s])
    BY <2>1 DEF MayBeTaken, New
  <2> QED BY <2>1, <2>2 DEF AttemptedOnce, TakenOnce
<1>2. MtForm /\ AttemptedOnce /\ TakenOnce /\ [MtNext]_mtVars => AttemptedOnce' /\ TakenOnce'
  BY ActionMoves, MovesKeepAttempts, MovesTakeOnce
<1> QED BY <1>1, <1>2, FormsAreKept, PTL DEF MtSpec

\* A send is one message and one delivery: a lost answer is not followed by a second
\* post, unless media come in a data URI, and a delivery is listed from its attempt
\* or from the event that names it, never from both.
THEOREM SendsAreDeliveredOnce == MtSpec => []OneDeliveryPerSend
<1>1. MtForm /\ KeptOnce /\ AttemptedOnce /\ TakenOnce => OneDeliveryPerSend
  <2> SUFFICES ASSUME MtForm, KeptOnce, AttemptedOnce, TakenOnce, NEW s \in Sends
      PROVE  /\ Deliveries(s) <= 1
             /\ sends[s].pc \in {"posting", "taken", "failed"} /\ sends[s].form \notin {"uri", "raw"} =>
                  mt.taken[s] <= IF sends[s].pc = "posting" THEN 0 ELSE 1
    BY DEF OneDeliveryPerSend
  <2>1. sends[s].pc \in {"posting", "taken", "failed"} /\ sends[s].form \notin {"uri", "raw"} =>
          mt.taken[s] <= IF sends[s].pc = "posting" THEN 0 ELSE 1
    <3>1. MayBeTaken(sends[s], mt.taken[s]) /\ mt.taken[s] \in Nat
      BY DEF TakenOnce, MtForm, Histories
    <3> QED BY <3>1 DEF MayBeTaken
  <2> DEFINE A == {i \in 1 .. Len(attempts) : attempts[i].of = s}
             E == {i \in FromEvents : Timeline[i].attempt = s}
  <2>2. \A i \in A, j \in A : i = j
    BY DEF AttemptedOnce
  <2>3. A # {} => E = {}
    <3>1. A # {} => HasAttempt(s)
      BY DEF HasAttempt
    <3>2. s # NoAttempt
      BY TimelineAssumption
    <3> QED BY <3>1, <3>2 DEF FromEvents
  <2>4. \A i \in E, j \in E : i = j
    <3> SUFFICES ASSUME NEW i \in E, NEW j \in E PROVE i = j
      OBVIOUS
    <3>1. LayersForm(business, operational) /\ Unlike(business)
      BY DEF MtForm, KeptOnce
    <3>2. Unlike(Timeline) /\ Timeline \in Seq(Events)
      BY <3>1, FileIsSelected, ListForm DEF Timeline
    <3>3. ASSUME NEW k \in E PROVE k \in 1 .. Len(Timeline) /\ ~IsOperational(Timeline[k]) /\ Source(Timeline[k]) = s
      <4> DEFINE e == Timeline[k]
      <4>1. k \in 1 .. Len(Timeline) /\ ~IsOperational(e) /\ e.attempt = s
        BY DEF FromEvents, Shown
      <4>2. e \in Events
        BY <3>2, <4>1, ElementOfSeq
      <4> HIDE DEF e
      <4>3. e \in Locals
        BY <4>1, <4>2, EventIs, ReceivedIs, TimelineAssumption DEF Events, Business
      <4>4. Source(e) = s
        BY <4>1, <4>3, LocalIs, TimelineAssumption DEF Source
      <4> QED BY <4>1, <4>4 DEF e
    <3>4. Alike(Timeline[i], Timeline[j])
      BY <3>3 DEF Alike
    <3> QED BY <3>2, <3>3, <3>4 DEF Unlike
  <2>5. Deliveries(s) = Cardinality(A) + Cardinality(E)
    BY DEF Deliveries
  <2> HIDE DEF A, E
  <2>6. Cardinality(A) = (IF A = {} THEN 0 ELSE 1) /\ Cardinality(E) = (IF E = {} THEN 0 ELSE 1)
    BY <2>2, <2>4, OneAtMost
  <2>7. Deliveries(s) <= 1
    BY <2>3, <2>5, <2>6
  <2> QED BY <2>1, <2>7
<1> QED BY <1>1, FormsAreKept, SendsAreOnce, PTL

-------------------------------------------------------------------------------
(* What is restored is what was written.                                   *)

\* Newest first; of one millisecond the events of the pipeline come last.
Sorted(s) ==
    \A i \in 1 .. Len(s), j \in 1 .. Len(s) : i < j =>
        \/ s[i].at > s[j].at
        \/ s[i].at = s[j].at /\ (IsOperational(s[i]) => IsOperational(s[j]))

\* The list of the layers is so, and what of it is written.
LEMMA ListIsSorted ==
  ASSUME NEW b, NEW o, LayersForm(b, o)
  PROVE  Sorted(ListEvents(b, o)) /\ Sorted(FirstOf(ListEvents(b, o), EventsKept))
<1> DEFINE c == b \o o
           list == ListEvents(b, o)
<1>1. /\ c \in Seq(Events) /\ Len(b) \in Nat /\ Len(o) \in Nat /\ Len(c) = Len(b) + Len(o)
      /\ \A i \in 1 .. Len(b) + Len(o) : c[i] = IF i <= Len(b) THEN b[i] ELSE o[i - Len(b)]
      /\ list \in Seq(Events) /\ Len(list) = Len(b) + Len(o)
  BY ListForm
<1>2. PICK p \in [1 .. Len(c) -> 1 .. Len(c)] :
        /\ \A k \in 1 .. Len(c) : list[k] = c[p[k]]
        /\ \A k \in 1 .. Len(c), l \in 1 .. Len(c) : k < l => Newer(c, p[k], p[l])
  BY <1>1, EventIs, ByTimeIsSorted DEF ListEvents
<1> HIDE DEF c, list
<1>3. \A i \in 1 .. Len(c) : IsOperational(c[i]) <=> i > Len(b)
  <2>1. \A i \in 1 .. Len(b) : ~IsOperational(b[i])
    BY EventIs, ElementOfSeq DEF LayersForm
  <2>2. \A i \in 1 .. Len(o) : IsOperational(o[i])
    BY EventIs, ElementOfSeq DEF LayersForm
  <2> SUFFICES ASSUME NEW i \in 1 .. Len(c) PROVE IsOperational(c[i]) <=> i > Len(b)
    OBVIOUS
  <2>3. CASE i <= Len(b)
    BY <2>1, <2>3, <1>1
  <2>4. CASE ~(i <= Len(b))
    <3>1. i - Len(b) \in 1 .. Len(o) /\ c[i] = o[i - Len(b)]
      BY <2>4, <1>1
    <3> QED BY <2>2, <2>4, <3>1, <1>1
  <2> QED BY <2>3, <2>4
<1>4. Sorted(list)
  <2> SUFFICES ASSUME NEW k \in 1 .. Len(list), NEW l \in 1 .. Len(list), k < l
      PROVE  \/ list[k].at > list[l].at
             \/ list[k].at = list[l].at /\ (IsOperational(list[k]) => IsOperational(list[l]))
    BY DEF Sorted
  <2>1. /\ k \in 1 .. Len(c) /\ l \in 1 .. Len(c) /\ list[k] = c[p[k]] /\ list[l] = c[p[l]]
        /\ p[k] \in 1 .. Len(c) /\ p[l] \in 1 .. Len(c) /\ Newer(c, p[k], p[l])
    BY <1>1, <1>2
  <2>2. p[k] < p[l] => (IsOperational(c[p[k]]) => IsOperational(c[p[l]]))
    BY <2>1, <1>1, <1>3
  <2> QED BY <2>1, <2>2 DEF Newer
<1>5. \A i \in 1 .. Len(FirstOf(list, EventsKept)) : FirstOf(list, EventsKept)[i] = list[i] /\ i \in 1 .. Len(list)
  BY <1>1, FirstAreTheSame, TimelineAssumption
<1>6. Sorted(FirstOf(list, EventsKept))
  BY <1>4, <1>5 DEF Sorted
<1> QED BY <1>4, <1>6 DEF list

\* A list in this order, split into its layers and merged again, is the list.
LEMMA RestoredList ==
  ASSUME NEW f, FileForm(f), Sorted(f)
  PROVE  ListEvents(Restored(f, "business"), Restored(f, "operational")) = f
<1> DEFINE b == Restored(f, "business")
           o == Restored(f, "operational")
           B == Places(f, "business")
           O == Places(f, "operational")
           c == b \o o
           list == ListEvents(b, o)
           n == Len(c)
<1>1. f \in Seq(Events) /\ Len(f) \in Nat /\ \A i \in 1 .. Len(f) : f[i].at \in Nat
  BY LenProperties, ElementOfSeq, EventIs DEF FileForm
<1>2. /\ Len(b) = Cardinality(B) /\ Len(b) \in Nat /\ Arrangement(b, f, B, Ascending(B))
      /\ Len(o) = Cardinality(O) /\ Len(o) \in Nat /\ Arrangement(o, f, O, Ascending(O))
      /\ B \in SUBSET (1 .. Len(f)) /\ O \in SUBSET (1 .. Len(f))
  <2> HIDE DEF B, O
  <2> QED BY RestoredIs DEF B, O
<1>3. /\ \A i \in B : ~IsOperational(f[i])
      /\ \A i \in O : IsOperational(f[i])
      /\ B \cup O = 1 .. Len(f) /\ B \cap O = {}
  BY DEF Places
<1>4. LayersForm(b, o)
  BY RestoredLayers
<1>5. /\ c \in Seq(Events) /\ n = Len(b) + Len(o) /\ n \in Nat
      /\ \A i \in 1 .. Len(b) + Len(o) : c[i] = IF i <= Len(b) THEN b[i] ELSE o[i - Len(b)]
      /\ list \in Seq(Events) /\ Len(list) = n
  <2> HIDE DEF b, o
  <2> QED BY <1>4, ListForm
<1>6. PICK p \in [1 .. n -> 1 .. n] :
        /\ \A k \in 1 .. n : list[k] = c[p[k]]
        /\ \A k \in 1 .. n, l \in 1 .. n : k < l => Newer(c, p[k], p[l])
  <2> HIDE DEF b, o
  <2> QED BY <1>5, EventIs, ByTimeIsSorted DEF ListEvents
<1> HIDE DEF b, o, B, O, c, list
<1>7. n = Len(f)
  <2> DEFINE m == Len(f)
             I == 1 .. m
  <2>1. IsFiniteSet(I) /\ Cardinality(I) = m
    <3>1. m \in Nat
      BY <1>1
    <3> HIDE DEF m
    <3> QED BY <3>1, FS_Interval
  <2>2. B \cup O = I /\ B \cap O = {} /\ B \in SUBSET I /\ O \in SUBSET I
    BY <1>2, <1>3
  <2> HIDE DEF I, m
  <2>3. IsFiniteSet(B) /\ IsFiniteSet(O)
    BY <2>1, <2>2, FS_Subset
  <2>4. Cardinality(B \cup O) = Cardinality(B) + Cardinality(O) - Cardinality(B \cap O)
    BY <2>3, FS_Union
  <2>5. Cardinality(B \cap O) = 0
    BY <2>2, FS_EmptySet
  <2>6. Cardinality(B \cup O) = m
    BY <2>1, <2>2
  <2>7. m = Len(b) + Len(o)
    BY <1>2, <2>4, <2>5, <2>6
  <2> QED BY <1>5, <2>7 DEF m
<1> HIDE DEF n
<1>8. PICK u \in [1 .. Len(b) -> B] :
        /\ \A k \in 1 .. Len(b) : b[k] = f[u[k]]
        /\ \A k \in 1 .. Len(b), l \in 1 .. Len(b) : k < l => <<u[k], u[l]>> \in Ascending(B)
  BY <1>2 DEF Arrangement
<1>9. PICK v \in [1 .. Len(o) -> O] :
        /\ \A k \in 1 .. Len(o) : o[k] = f[v[k]]
        /\ \A k \in 1 .. Len(o), l \in 1 .. Len(o) : k < l => <<v[k], v[l]>> \in Ascending(O)
  BY <1>2 DEF Arrangement
<1> DEFINE q == [i \in 1 .. n |-> IF i <= Len(b) THEN u[i] ELSE v[i - Len(b)]]
<1>10. \A i \in 1 .. n : /\ q[i] \in 1 .. Len(f) /\ c[i] = f[q[i]]
                         /\ i <= Len(b) => q[i] = u[i] /\ i \in 1 .. Len(b) /\ q[i] \in B
                         /\ ~(i <= Len(b)) => q[i] = v[i - Len(b)] /\ i - Len(b) \in 1 .. Len(o) /\ q[i] \in O
  <2> SUFFICES ASSUME NEW i \in 1 .. n
               PROVE  /\ q[i] \in 1 .. Len(f) /\ c[i] = f[q[i]]
                      /\ i <= Len(b) => q[i] = u[i] /\ i \in 1 .. Len(b) /\ q[i] \in B
                      /\ ~(i <= Len(b)) => q[i] = v[i - Len(b)] /\ i - Len(b) \in 1 .. Len(o) /\ q[i] \in O
    OBVIOUS
  <2>1. CASE i <= Len(b)
    <3>1. i \in 1 .. Len(b) /\ c[i] = b[i] /\ q[i] = u[i]
      BY <2>1, <1>2, <1>5
    <3>2. u[i] \in B /\ b[i] = f[u[i]]
      BY <3>1, <1>8
    <3> HIDE DEF q
    <3> QED BY <2>1, <3>1, <3>2, <1>2
  <2>2. CASE ~(i <= Len(b))
    <3>1. i - Len(b) \in 1 .. Len(o) /\ c[i] = o[i - Len(b)] /\ q[i] = v[i - Len(b)]
      BY <2>2, <1>2, <1>5
    <3>2. v[i - Len(b)] \in O /\ o[i - Len(b)] = f[v[i - Len(b)]]
      BY <3>1, <1>9
    <3> HIDE DEF q
    <3> QED BY <2>2, <3>1, <3>2, <1>2
  <2> QED BY <2>1, <2>2
<1> HIDE DEF q
<1>11. ASSUME NEW i \in 1 .. n, NEW j \in 1 .. n, Newer(c, i, j)
       PROVE  q[i] < q[j]
  <2>1. /\ q[i] \in 1 .. Len(f) /\ q[j] \in 1 .. Len(f) /\ c[i] = f[q[i]] /\ c[j] = f[q[j]]
        /\ f[q[i]].at \in Nat /\ f[q[j]].at \in Nat /\ i \in Nat /\ j \in Nat /\ q[i] \in Nat /\ q[j] \in Nat
    BY <1>1, <1>5, <1>10
  <2> DEFINE x == q[i]
             y == q[j]
  <2>2. /\ x \in 1 .. Len(f) /\ y \in 1 .. Len(f) /\ x \in Nat /\ y \in Nat /\ f[x].at \in Nat /\ f[y].at \in Nat
        /\ y < x => f[y].at > f[x].at \/ (f[y].at = f[x].at /\ (IsOperational(f[y]) => IsOperational(f[x])))
    <3>1. x \in 1 .. Len(f) /\ y \in 1 .. Len(f) /\ x \in Nat /\ y \in Nat /\ f[x].at \in Nat /\ f[y].at \in Nat
      BY <2>1
    <3> HIDE DEF x, y
    <3> QED BY <3>1 DEF Sorted
  <2>3. CASE f[q[i]].at > f[q[j]].at
    <3>1. f[x].at > f[y].at
      BY <2>3
    <3>2. x < y
      <4> HIDE DEF x, y
      <4> QED BY <2>2, <3>1
    <3> QED BY <3>2
  <2>4. CASE f[q[i]].at = f[q[j]].at /\ i < j
    <3>1. CASE i <= Len(b) /\ j <= Len(b)
      <4>1. i \in 1 .. Len(b) /\ j \in 1 .. Len(b) /\ q[i] = u[i] /\ q[j] = u[j]
        BY <1>10, <3>1
      <4>2. <<u[i], u[j]>> \in Ascending(B)
        BY <1>8, <2>4, <4>1
      <4> QED BY <4>1, <4>2 DEF Ascending
    <3>2. CASE i <= Len(b) /\ ~(j <= Len(b))
      <4>1. ~IsOperational(f[q[i]]) /\ IsOperational(f[q[j]])
        BY <1>3, <1>10, <3>2
      <4>2. ~IsOperational(f[x]) /\ IsOperational(f[y]) /\ f[x].at = f[y].at
        BY <2>4, <4>1
      <4>3. x < y
        <5> HIDE DEF x, y
        <5> QED BY <2>2, <4>2
      <4> QED BY <4>3
    <3>3. CASE ~(i <= Len(b)) /\ ~(j <= Len(b))
      <4>1. i - Len(b) \in 1 .. Len(o) /\ j - Len(b) \in 1 .. Len(o) /\ q[i] = v[i - Len(b)] /\ q[j] = v[j - Len(b)]
        BY <1>10, <3>3
      <4>2. <<v[i - Len(b)], v[j - Len(b)]>> \in Ascending(O)
        <5>1. i - Len(b) < j - Len(b)
          BY <1>2, <2>1, <2>4
        <5> QED BY <1>9, <4>1, <5>1
      <4> QED BY <4>1, <4>2 DEF Ascending
    <3>4. ~(~(i <= Len(b)) /\ j <= Len(b))
      BY <1>2, <2>1, <2>4
    <3> QED BY <3>1, <3>2, <3>3, <3>4
  <2> QED BY <1>11, <2>1, <2>3, <2>4 DEF Newer
<1> DEFINE h == [k \in 1 .. n |-> q[p[k]]]
<1>12. h \in [1 .. n -> 1 .. n] /\ n \in Nat /\ \A k \in 1 .. n : list[k] = f[h[k]]
  BY <1>5, <1>6, <1>7, <1>10
<1>13. \A k \in 1 .. n, l \in 1 .. n : k < l => h[k] < h[l]
  BY <1>6, <1>11
<1> HIDE DEF h
<1>14. \A k \in 1 .. n : h[k] = k
  BY <1>12, <1>13, GrowingIsIdentity
<1>15. list = f
  <2>1. \A k \in 1 .. n : list[k] = f[k]
    BY <1>12, <1>14
  <2> QED BY <1>1, <1>5, <1>7, <2>1, SeqEqual
<1> QED BY <1>15 DEF list, b, o

\* A list that is no longer is all of its first.
LEMMA FirstOfShort ==
  ASSUME NEW f, FileForm(f)
  PROVE  FirstOf(f, EventsKept) = f
<1>1. f \in Seq(Events) /\ Len(f) \in Nat /\ Len(f) <= EventsKept /\ EventsKept \in Nat
  BY LenProperties, TimelineAssumption DEF FileForm
<1>2. /\ FirstOf(f, EventsKept) \in Seq(Events) /\ Len(FirstOf(f, EventsKept)) = Len(f)
      /\ \A i \in 1 .. Len(f) : FirstOf(f, EventsKept)[i] = f[i]
  <2>1. /\ FirstOf(f, EventsKept) \in Seq(Events)
        /\ Len(FirstOf(f, EventsKept)) = IF Len(f) < EventsKept THEN Len(f) ELSE EventsKept
        /\ \A i \in 1 .. Len(FirstOf(f, EventsKept)) : FirstOf(f, EventsKept)[i] = f[i]
    BY <1>1, FirstAreTheSame
  <2> QED BY <1>1, <2>1
<1> QED BY <1>1, <1>2, SeqEqual

\* The file is in order, and holds what there is room for, when nothing failed.
FileIsTrue == Sorted(stored) /\ (mt.file = "current" => stored = FirstOf(Timeline, EventsKept))

\* A step keeps it so.
LEMMA StepKeepsFile ==
  ASSUME MtForm, MtForm', FileIsTrue, Step
  PROVE  FileIsTrue'
<1> DEFINE written == FirstOf(ListEvents(business', operational'), EventsKept)
<1>1. Sorted(written)
  BY ListIsSorted DEF MtForm
<1>2. Timeline' = ListEvents(business', operational')
  BY DEF Timeline
<1>3. Sorted(stored') /\ (mt'.file = "current" => stored' = written)
  <2>1. CASE business' = business /\ operational' = operational /\ stored' = stored /\ mt'.file = mt.file
    BY <2>1 DEF FileIsTrue, Timeline
  <2>2. CASE stored' = written /\ mt'.file = "current"
    BY <1>1, <2>2
  <2>3. CASE stored' = stored /\ mt'.file = "behind"
    BY <2>3 DEF FileIsTrue
  <2> QED BY <2>1, <2>2, <2>3 DEF Step, Written
<1> QED BY <1>2, <1>3 DEF FileIsTrue

\* After the process died its file is what is shown.
LEMMA CrashShowsFile ==
  ASSUME MtForm, FileIsTrue, MtCrash
  PROVE  stored' = stored /\ Timeline' = stored /\ FirstOf(Timeline', EventsKept) = stored
<1>1. Timeline' = ListEvents(Restored(stored, "business"), Restored(stored, "operational"))
  BY DEF Timeline, MtCrash
<1>2. ListEvents(Restored(stored, "business"), Restored(stored, "operational")) = stored
  BY RestoredList DEF MtForm, FileIsTrue
<1>3. FirstOf(stored, EventsKept) = stored
  BY FirstOfShort DEF MtForm
<1> QED BY <1>1, <1>2, <1>3 DEF MtCrash

\* In every state the file is true.
LEMMA FileStaysTrue == MtSpec => []FileIsTrue
<1>1. MtInit => FileIsTrue
  <2> SUFFICES ASSUME MtInit PROVE FileIsTrue
    OBVIOUS
  <2>1. business = <<>> /\ operational = <<>> /\ stored = <<>> /\ Len(<<>>) = 0 /\ 1 .. Len(<<>>) = {}
    BY DEF MtInit
  <2>2. Sorted(stored)
    BY <2>1 DEF Sorted
  <2>3. FirstOf(Timeline, EventsKept) \in Seq(Events) /\ Len(FirstOf(Timeline, EventsKept)) = 0
    <3>1. LayersForm(business, operational) /\ EventsKept \in Nat \ {0}
      BY FirstForm, TimelineAssumption DEF MtForm
    <3>2. Timeline \in Seq(Events) /\ Len(Timeline) = 0
      <4>1. Timeline \in Seq(Events) /\ Len(Timeline) = Len(business) + Len(operational)
        BY <3>1, ListForm DEF Timeline
      <4> QED BY <2>1, <4>1
    <3>3. /\ FirstOf(Timeline, EventsKept) \in Seq(Events)
          /\ Len(FirstOf(Timeline, EventsKept)) = IF Len(Timeline) < EventsKept THEN Len(Timeline) ELSE EventsKept
      <4> DEFINE list == Timeline
      <4>1. list \in Seq(Events) /\ EventsKept \in Nat
        BY <3>1, <3>2
      <4> HIDE DEF list
      <4>2. /\ FirstOf(list, EventsKept) \in Seq(Events)
            /\ Len(FirstOf(list, EventsKept)) = IF Len(list) < EventsKept THEN Len(list) ELSE EventsKept
        BY <4>1, FirstAreTheSame
      <4> QED BY <4>2 DEF list
    <3> QED BY <3>1, <3>2, <3>3
  <2>4. FirstOf(Timeline, EventsKept) = stored
    BY <2>1, <2>3, EmptySeq
  <2> QED BY <2>2, <2>4 DEF FileIsTrue
<1>2. MtForm /\ KeptOnce /\ FileIsTrue /\ [MtNext]_mtVars => FileIsTrue'
  <2> SUFFICES ASSUME MtForm, KeptOnce, FileIsTrue, [MtNext]_mtVars PROVE FileIsTrue'
    OBVIOUS
  <2>1. CASE MtCrash
    <3>1. stored' = stored /\ FirstOf(Timeline', EventsKept) = stored
      BY <2>1, CrashShowsFile
    <3> QED BY <3>1 DEF FileIsTrue
  <2>2. CASE MtForm' /\ Step
    BY <2>2, StepKeepsFile
  <2> QED BY <2>1, <2>2, ActionSteps
<1> QED BY <1>1, <1>2, FormsAreKept, PTL DEF MtSpec

\* A process that dies after a write loses nothing of what the file holds room
\* for, nor its order.
THEOREM TimelineIsRestored == MtSpec => TimelineSurvives
<1>1. MtForm /\ FileIsTrue /\ [MtNext]_mtVars =>
        [mt'.upsets > mt.upsets /\ mt'.saves = mt.saves /\ mt.file = "current" =>
           FirstOf(Timeline', EventsKept) = FirstOf(Timeline, EventsKept)]_mtVars
  <2> SUFFICES ASSUME MtForm, FileIsTrue, [MtNext]_mtVars, mt'.upsets > mt.upsets, mt'.saves = mt.saves, mt.file = "current"
      PROVE  FirstOf(Timeline', EventsKept) = FirstOf(Timeline, EventsKept)
    OBVIOUS
  <2>1. CASE MtCrash
    BY <2>1, CrashShowsFile DEF FileIsTrue
  <2>2. ~Step
    <3>1. mt.upsets \in Nat /\ mt.saves \in Nat
      BY DEF MtForm, Histories
    <3> QED BY <3>1 DEF Step
  <2> QED BY <2>1, <2>2, ActionSteps
<1> QED BY <1>1, FormsAreKept, FileStaysTrue, PTL DEF MtSpec, TimelineSurvives

-------------------------------------------------------------------------------
(* What is shown is what was heard last.                                   *)

\* The layer is newest first.
Falling(b) == \A i \in 1 .. Len(b), j \in 1 .. Len(b) : i < j => b[i].at >= b[j].at

\* The event is of this hearing.
Says(e, g) == e.dir = "status" /\ e.id = g.id /\ e.status = g.status /\ e.at = g.at

\* Of what was heard there is the event, or no event is older.
HeardIsKept ==
    /\ Falling(business)
    /\ \A g \in mt.heard :
         /\ g.at <= clock
         /\ \/ \E i \in 1 .. Len(business) : Says(business[i], g)
            \/ \A i \in 1 .. Len(business) : business[i].at >= g.at

\* The times are numbers.
LEMMA HeardForm ==
  ASSUME MtForm
  PROVE  /\ \A i \in 1 .. Len(business) : business[i].at \in Nat /\ business[i] \in Business
         /\ \A g \in mt.heard : g.at \in Nat
         /\ clock \in Nat
<1>1. \A i \in 1 .. Len(business) : business[i] \in Business
  BY ElementOfSeq DEF MtForm, LayersForm
<1>2. mt.heard \in SUBSET Hearings
  BY DEF MtForm, Histories
<1>3. \A g \in Hearings : g.at \in Nat
  BY DEF Hearings
<1> QED BY <1>1, <1>2, <1>3, EventIs DEF MtForm

\* A step keeps it so: the oldest event goes first.
LEMMA StepKeepsHeard ==
  ASSUME MtForm, MtForm', KeptOnce, HeardIsKept, Step
  PROVE  HeardIsKept'
<1>1. /\ \A i \in 1 .. Len(business) : business[i].at \in Nat /\ business[i].at <= clock
      /\ \A g \in mt.heard : g.at \in Nat /\ g.at <= clock /\ g.at <= clock'
      /\ clock \in Nat /\ clock' \in Nat /\ clock' >= clock
  <2>1. \A i \in 1 .. Len(business) : business[i].at <= clock
    BY KeptEvents DEF KeptOnce, KeptIsTrue
  <2>2. clock' \in Nat /\ clock' >= clock
    BY DEF MtForm, Step
  <2>3. \A g \in mt.heard : g.at \in Nat /\ g.at <= clock
    BY HeardForm DEF HeardIsKept
  <2> QED BY <2>1, <2>2, <2>3, HeardForm
<1>2. CASE NothingAdded /\ mt'.heard = mt.heard
  <2>1. business' = business /\ mt'.heard = mt.heard
    BY <1>2 DEF NothingAdded
  <2> QED BY <2>1, <1>1 DEF HeardIsKept
<1>3. ASSUME NEW e \in Business, Added(e), mt'.heard = HeardWith(e)
      PROVE  HeardIsKept'
  <2>1. /\ Len(business') \in Nat /\ Len(business') >= 1 /\ business'[1] = e
        /\ \A i \in 2 .. Len(business') : business'[i] = business[i - 1] /\ i - 1 \in 1 .. Len(business)
        /\ Len(business) < EventsKept => Len(business') = Len(business) + 1
        /\ ~(Len(business) < EventsKept) => Len(business') = EventsKept /\ Len(business) = EventsKept
        /\ EventsKept \in Nat /\ Len(business) \in Nat
    BY <1>3, AddedIs
  <2>2. e.at = clock
    BY <1>3 DEF Added
  <2>3. \A i \in 1 .. Len(business') : i = 1 \/ i \in 2 .. Len(business')
    BY <2>1
  <2>4. Falling(business')
    <3> SUFFICES ASSUME NEW i \in 1 .. Len(business'), NEW j \in 1 .. Len(business'), i < j
        PROVE business'[i].at >= business'[j].at
      BY DEF Falling
    <3>1. j \in 2 .. Len(business') /\ business'[j] = business[j - 1] /\ j - 1 \in 1 .. Len(business)
      BY <2>1, <2>3
    <3>2. CASE i = 1
      BY <3>1, <3>2, <1>1, <2>1, <2>2
    <3>3. CASE i \in 2 .. Len(business')
      <4>1. business'[i] = business[i - 1] /\ i - 1 \in 1 .. Len(business) /\ i - 1 < j - 1
        BY <2>1, <3>3
      <4> QED BY <3>1, <4>1 DEF HeardIsKept, Falling
    <3> QED BY <2>3, <3>2, <3>3
  <2>5. ASSUME NEW g \in mt.heard
        PROVE  \/ \E i \in 1 .. Len(business') : Says(business'[i], g)
               \/ \A i \in 1 .. Len(business') : business'[i].at >= g.at
    <3>1. CASE \A i \in 1 .. Len(business) : business[i].at >= g.at
      <4>1. e.at >= g.at
        BY <1>1, <2>2
      <4> QED BY <2>1, <2>3, <3>1, <4>1
    <3>2. ASSUME NEW k \in 1 .. Len(business), Says(business[k], g)
          PROVE  \/ \E i \in 1 .. Len(business') : Says(business'[i], g)
                 \/ \A i \in 1 .. Len(business') : business'[i].at >= g.at
      <4>1. CASE k + 1 \in 2 .. Len(business')
        <5>1. business'[k + 1] = business[k] /\ k + 1 \in 1 .. Len(business')
          <6>1. business'[k + 1] = business[k + 1 - 1]
            BY <2>1, <4>1
          <6>2. k + 1 - 1 = k
            BY <2>1
          <6> QED BY <4>1, <6>1, <6>2
        <5> QED BY <3>2, <5>1
      <4>2. CASE ~(k + 1 \in 2 .. Len(business'))
        <5>1. Len(business') = Len(business) /\ k = Len(business)
          BY <2>1, <4>2
        <5>2. business[k].at = g.at
          BY <3>2 DEF Says
        <5>3. \A i \in 2 .. Len(business') : business'[i].at >= g.at
          <6> SUFFICES ASSUME NEW i \in 2 .. Len(business') PROVE business'[i].at >= g.at
            OBVIOUS
          <6>1. business'[i] = business[i - 1] /\ i - 1 \in 1 .. Len(business) /\ i - 1 < k
            BY <2>1, <5>1
          <6> QED BY <5>2, <6>1 DEF HeardIsKept, Falling
        <5>4. e.at >= g.at
          BY <1>1, <2>2
        <5> QED BY <2>1, <2>3, <5>3, <5>4
      <4> QED BY <4>1, <4>2
    <3> QED BY <3>1, <3>2 DEF HeardIsKept
  <2>6. ASSUME NEW g \in mt'.heard, g \notin mt.heard
        PROVE  g.at <= clock' /\ Says(business'[1], g)
    <3>1. e.dir = "status" /\ g = [id |-> e.id, status |-> e.status, at |-> e.at]
      BY <1>3, <2>6 DEF HeardWith
    <3> QED BY <1>1, <2>1, <2>2, <3>1 DEF Says
  <2>7. 1 \in 1 .. Len(business')
    BY <2>1
  <2>8. \A g \in mt'.heard :
         /\ g.at <= clock'
         /\ \/ \E i \in 1 .. Len(business') : Says(business'[i], g)
            \/ \A i \in 1 .. Len(business') : business'[i].at >= g.at
    BY <1>1, <2>5, <2>6, <2>7
  <2> QED BY <2>4, <2>8 DEF HeardIsKept
<1> QED BY <1>2, <1>3, StepAdds

\* So does the death of the process: what it does not know has not been heard.
LEMMA CrashKeepsHeard ==
  ASSUME MtForm, KeptOnce, FileIsTrue, HeardIsKept, MtCrash
  PROVE  HeardIsKept'
<1> DEFINE b == Restored(stored, "business")
           B == Places(stored, "business")
<1>1. /\ mt'.heard = {h \in mt.heard : \E i \in 1 .. Len(stored) : IsHearing(stored[i], h)}
      /\ business' = b /\ clock' = clock
  BY CrashForm DEF KeptOnce, MtCrash
<1>2. B \in SUBSET (1 .. Len(stored)) /\ Arrangement(b, stored, B, Ascending(B))
  <2> HIDE DEF B
  <2> QED BY RestoredIs DEF MtForm, B
<1>3. \A i \in 1 .. Len(stored) : ~IsOperational(stored[i]) => i \in B
  BY DEF Places
<1>4. \A i \in 1 .. Len(stored) : stored[i].at \in Nat
  BY EventIs, ElementOfSeq DEF MtForm, FileForm
<1> HIDE DEF b, B
<1>5. PICK p \in [1 .. Len(b) -> B] :
        /\ \A k \in 1 .. Len(b) : b[k] = stored[p[k]]
        /\ \A k \in 1 .. Len(b), l \in 1 .. Len(b) : k < l => <<p[k], p[l]>> \in Ascending(B)
        /\ \A i \in B : \E k \in 1 .. Len(b) : p[k] = i
  BY <1>2 DEF Arrangement
<1>6. Falling(b)
  <2> SUFFICES ASSUME NEW k \in 1 .. Len(b), NEW l \in 1 .. Len(b), k < l PROVE b[k].at >= b[l].at
    BY DEF Falling
  <2>1. p[k] \in 1 .. Len(stored) /\ p[l] \in 1 .. Len(stored) /\ p[k] < p[l]
    BY <1>2, <1>5 DEF Ascending
  <2>2. stored[p[k]].at >= stored[p[l]].at
    BY <1>4, <2>1 DEF FileIsTrue, Sorted
  <2> QED BY <1>5, <2>2
<1>7. ASSUME NEW g \in mt'.heard
      PROVE  g.at <= clock' /\ \E k \in 1 .. Len(b) : Says(b[k], g)
  <2>1. g \in mt.heard
    BY <1>1
  <2>2. PICK i \in 1 .. Len(stored) : IsHearing(stored[i], g)
    BY <1>1
  <2>3. PICK k \in 1 .. Len(b) : p[k] = i
    BY <1>3, <1>5, <2>2 DEF IsHearing
  <2>4. Says(b[k], g)
    BY <1>5, <2>2, <2>3 DEF IsHearing, Says
  <2> QED BY <1>1, <2>1, <2>4 DEF HeardIsKept
<1> QED BY <1>1, <1>6, <1>7 DEF HeardIsKept

\* In every state it is so.
LEMMA HeardStaysKept == MtSpec => []HeardIsKept
<1>1. MtInit => HeardIsKept
  <2> SUFFICES ASSUME MtInit PROVE HeardIsKept
    OBVIOUS
  <2>1. business = <<>> /\ 1 .. Len(<<>>) = {} /\ mt.heard = {}
    BY DEF MtInit
  <2> QED BY <2>1 DEF HeardIsKept, Falling
<1>2. MtForm /\ MtForm' /\ KeptOnce /\ FileIsTrue /\ HeardIsKept /\ [MtNext]_mtVars => HeardIsKept'
  BY ActionSteps, StepKeepsHeard, CrashKeepsHeard
<1> QED BY <1>1, <1>2, FormsAreKept, FileStaysTrue, PTL DEF MtSpec

\* What is shown is what is kept in memory, each once, newest first.
LEMMA ShownIs ==
  ASSUME MtForm, KeptOnce
  PROVE  /\ Len(Timeline) \in Nat /\ Shown \in SUBSET (1 .. Len(Timeline))
         /\ \A i \in Shown : /\ Timeline[i] \in Business /\ ~IsOperational(Timeline[i])
                             /\ \E k \in 1 .. Len(business) : Timeline[i] = business[k]
         /\ \A k \in 1 .. Len(business) : \E i \in Shown : Timeline[i] = business[k]
         /\ \A i \in Shown, j \in Shown : Alike(Timeline[i], Timeline[j]) => i = j
         /\ \A i \in Shown, j \in Shown : i <= j => Timeline[i].at >= Timeline[j].at
         /\ \A i \in Shown : Timeline[i].at \in Nat
<1> DEFINE list == Timeline
<1>1. LayersForm(business, operational) /\ Unlike(business)
  BY DEF MtForm, KeptOnce
<1>2. /\ Unlike(list)
      /\ \A k \in 1 .. Len(list) : (\E i \in 1 .. Len(business) : list[k] = business[i]) \/ list[k] \in Operational
      /\ \A i \in 1 .. Len(business) : \E k \in 1 .. Len(list) : list[k] = business[i]
  BY <1>1, FileIsSelected DEF Timeline
<1>3. Len(list) \in Nat /\ \A i \in 1 .. Len(list) : list[i].at \in Nat
  <2>1. list \in Seq(Events)
    BY <1>1, ListForm DEF Timeline
  <2> HIDE DEF list
  <2> QED BY <2>1, LenProperties, ElementOfSeq, EventIs
<1>4. Sorted(list)
  BY <1>1, ListIsSorted DEF Timeline
<1>5. Shown = {i \in 1 .. Len(list) : ~IsOperational(list[i])}
  BY DEF Shown
<1> HIDE DEF list
<1>6. \A k \in 1 .. Len(business) : business[k] \in Business /\ ~IsOperational(business[k])
  BY HeardForm, EventIs
<1>7. \A i \in Shown : /\ list[i] \in Business /\ ~IsOperational(list[i])
                       /\ \E k \in 1 .. Len(business) : list[i] = business[k]
  BY <1>2, <1>5, <1>6, EventIs
<1>8. \A k \in 1 .. Len(business) : \E i \in Shown : list[i] = business[k]
  BY <1>2, <1>5, <1>6
<1>9. \A i \in Shown, j \in Shown : Alike(list[i], list[j]) => i = j
  BY <1>2, <1>5 DEF Unlike
<1>10. ASSUME NEW i \in Shown, NEW j \in Shown, i <= j PROVE list[i].at >= list[j].at
  <2>1. i \in 1 .. Len(list) /\ j \in 1 .. Len(list) /\ list[i].at \in Nat /\ list[j].at \in Nat
    BY <1>3, <1>5
  <2>2. CASE i = j
    BY <2>1, <2>2
  <2>3. CASE i < j
    BY <2>1, <2>3, <1>4 DEF Sorted
  <2> QED BY <1>10, <2>1, <2>2, <2>3, <1>3
<1>11. Shown \in SUBSET (1 .. Len(list))
  BY <1>5
<1> QED BY <1>3, <1>7, <1>8, <1>9, <1>10, <1>11 DEF list

\* The statuses of a message that are shown.
StatusesOf(id) == {i \in Shown : Timeline[i].dir = "status" /\ Timeline[i].id = id}

\* The status that counts is one that is shown, and none is newer.
LEMMA LatestIs ==
  ASSUME MtForm, KeptOnce, NEW id, id # NoId
  PROVE  /\ StatusesOf(id) = {} => LatestStatus(id) = "none"
         /\ StatusesOf(id) # {} =>
              \E i \in StatusesOf(id) : /\ LatestStatus(id) = Timeline[i].status /\ Timeline[i].status # "none"
                                        /\ \A j \in StatusesOf(id) : Timeline[j].at <= Timeline[i].at
<1> DEFINE of == {i \in Shown : Timeline[i].dir = "status" /\ TimelineId(Timeline[i]) = id}
           latest == {i \in of : \A j \in of : Timeline[j].at <= Timeline[i].at}
           chosen == CHOOSE i \in latest : \A j \in latest : j <= i
<1>1. ASSUME NEW i \in Shown, Timeline[i].dir = "status"
      PROVE  Timeline[i].status # "none" /\ (TimelineId(Timeline[i]) = id <=> Timeline[i].id = id)
  <2> DEFINE e == Timeline[i]
  <2>1. e \in Business /\ e.dir = "status"
    BY <1>1, ShownIs
  <2> HIDE DEF e
  <2>2. e \in Received
    BY <2>1, LocalIs DEF Business
  <2>3. e.ref = e.id /\ e.status # "none"
    BY <2>1, <2>2, ReceivedIs
  <2>4. TimelineId(e) = id <=> e.id = id
    BY <2>3 DEF TimelineId
  <2> QED BY <2>3, <2>4 DEF e
<1>2. of = StatusesOf(id)
  BY <1>1 DEF StatusesOf
<1>3. LatestStatus(id) = IF of = {} THEN "none" ELSE Timeline[chosen].status
  BY DEF LatestStatus
<1>4. of \in SUBSET (1 .. Len(Timeline)) /\ Len(Timeline) \in Nat
  BY ShownIs
<1>5. CASE of = {}
  BY <1>2, <1>3, <1>5
<1>6. CASE of # {}
  <2>1. PICK i \in of : \A j \in of : i <= j
    <3> HIDE DEF of
    <3> QED BY <1>4, <1>6, LeastAndGreatest
  <2>2. i \in latest
    <3>1. \A j \in of : Timeline[j].at <= Timeline[i].at
      <4> SUFFICES ASSUME NEW j \in of PROVE Timeline[j].at <= Timeline[i].at
        OBVIOUS
      <4>1. i \in Shown /\ j \in Shown /\ i <= j
        BY <2>1
      <4>2. Timeline[i].at >= Timeline[j].at /\ Timeline[i].at \in Nat /\ Timeline[j].at \in Nat
        BY <4>1, ShownIs
      <4> QED BY <4>2
    <3> QED BY <3>1
  <2>3. latest \in SUBSET (1 .. Len(Timeline)) /\ latest # {}
    BY <1>4, <2>2
  <2>4. \E k \in latest : \A j \in latest : j <= k
    <3> HIDE DEF latest
    <3> QED BY <1>4, <2>3, LeastAndGreatest
  <2>5. chosen \in latest
    <3> HIDE DEF latest
    <3> QED BY <2>4
  <2> HIDE DEF chosen
  <2>6. chosen \in of /\ \A j \in of : Timeline[j].at <= Timeline[chosen].at
    BY <2>5
  <2>7. Timeline[chosen].status # "none"
    BY <1>1, <2>6
  <2> HIDE DEF of
  <2> QED BY <1>2, <1>3, <1>6, <2>6, <2>7
<1> QED BY <1>5, <1>6

\* The event of the newer route is one for each message, and is what is shown of it.
LEMMA LocalIsPrimary ==
  ASSUME MtForm, KeptOnce, NEW i \in Messages, TimelineId(Timeline[i]) # NoId,
         NEW l \in Shown, Timeline[l].name = "LOCAL_OUTBOUND_SEND", Timeline[l].id = TimelineId(Timeline[i]),
         Timeline[l].dir = Timeline[i].dir
  PROVE  Primary(Group(i)) = l
<1> DEFINE group == Group(i)
           local == {k \in group : Timeline[k].name = "LOCAL_OUTBOUND_SEND"}
<1>1. \A k \in Shown : Timeline[k] \in Business /\ ~IsOperational(Timeline[k]) /\ Timeline[k].at \in Nat
  BY ShownIs
<1>2. \A e \in Business : e.name = "LOCAL_OUTBOUND_SEND" => e.dir = "outbound" /\ TimelineId(e) = e.id /\ e.id[1] \in Sends
  <2> SUFFICES ASSUME NEW e \in Business, e.name = "LOCAL_OUTBOUND_SEND"
      PROVE e.dir = "outbound" /\ TimelineId(e) = e.id /\ e.id[1] \in Sends
    OBVIOUS
  <2>1. e \in Locals
    BY ReceivedIs DEF Business
  <2> QED BY <2>1, LocalIs DEF TimelineId
<1>3. group = {j \in Messages : TimelineId(Timeline[j]) = TimelineId(Timeline[i]) /\ Timeline[j].dir = Timeline[i].dir}
  BY DEF Group
<1>4. l \in Messages /\ TimelineId(Timeline[l]) = TimelineId(Timeline[i])
  BY <1>1, <1>2 DEF Messages
<1>5. l \in local
  BY <1>3, <1>4
<1>6. ASSUME NEW k \in local PROVE k = l
  <2>1. k \in Shown /\ Timeline[k].name = "LOCAL_OUTBOUND_SEND" /\ TimelineId(Timeline[k]) = TimelineId(Timeline[i])
    BY <1>3 DEF Messages
  <2>2. Timeline[k].id = Timeline[l].id /\ Timeline[k].id[1] \in Sends
    BY <2>1, <1>1, <1>2
  <2>3. Alike(Timeline[k], Timeline[l])
    BY <1>1, <2>1, <2>2 DEF Alike, Source
  <2> QED BY <2>1, <2>3, ShownIs
<1>7. local = {l}
  BY <1>5, <1>6
<1>8. Primary(group) = IF local # {} THEN Oldest(local) ELSE Oldest(group)
  BY DEF Primary
<1> HIDE DEF local, group
<1>9. Timeline[l].at \in Nat
  BY <1>1
<1>10. {k \in {l} : \A j \in {l} : Timeline[j].at >= Timeline[k].at} = {l}
  BY <1>9
<1>11. Oldest({l}) = First({l})
  BY <1>10 DEF Oldest
<1>12. First({l}) = l
  <2>1. l \in Nat
    BY ShownIs
  <2> QED BY <2>1 DEF First
<1> QED BY <1>7, <1>8, <1>11, <1>12 DEF group

\* The control panel shows of a message the status heard of last, to the
\* millisecond; without one, what the Gateway sent to WhatsApp by the newer route
\* is "sent" even when the provider's echo overtakes the answer.
THEOREM ShownIsWhatWasHeard == MtSpec => []ShownAsHeard
<1>1. MtForm /\ KeptOnce /\ HeardIsKept => ShownAsHeard
  <2> SUFFICES ASSUME MtForm, KeptOnce, HeardIsKept, NEW r \in Logical, r.id # NoId
      PROVE  \/ \E h \in mt.heard : /\ h.id = r.id /\ h.status = r.status
                                    /\ \A g \in mt.heard : g.id = r.id => g.at <= h.at
             \/ /\ \A i \in Shown : ~(Timeline[i].dir = "status" /\ Timeline[i].id = r.id)
                /\ \/ r.status = "sent"
                   \/ \A i \in Shown : ~(/\ Timeline[i].name = "LOCAL_OUTBOUND_SEND" /\ Timeline[i].id = r.id
                                         /\ Timeline[i].dir = r.dir /\ Timeline[i].attempt # NoAttempt)
    BY DEF ShownAsHeard
  <2>1. PICK m \in Messages : r = Record(m)
    BY DEF Logical
  <2> DEFINE id == TimelineId(Timeline[m])
             primary == Timeline[Primary(Group(m))]
  <2>2. /\ r.id = id /\ r.dir = Timeline[m].dir
        /\ r.status = IF LatestStatus(id) # "none" THEN LatestStatus(id) ELSE primary.status
    BY <2>1 DEF Record
  <2>3. id # NoId
    BY <2>2
  <2>4. /\ StatusesOf(id) = {} => LatestStatus(id) = "none"
        /\ StatusesOf(id) # {} =>
             \E i \in StatusesOf(id) : /\ LatestStatus(id) = Timeline[i].status /\ Timeline[i].status # "none"
                                       /\ \A j \in StatusesOf(id) : Timeline[j].at <= Timeline[i].at
    <3> HIDE DEF id
    <3> QED BY <2>3, LatestIs
  <2>5. CASE StatusesOf(id) # {}
    <3>1. PICK i \in StatusesOf(id) : /\ LatestStatus(id) = Timeline[i].status /\ Timeline[i].status # "none"
                                      /\ \A j \in StatusesOf(id) : Timeline[j].at <= Timeline[i].at
      BY <2>4, <2>5
    <3> DEFINE e == Timeline[i]
               h == [id |-> e.id, status |-> e.status, at |-> e.at]
    <3>2. i \in Shown /\ e.dir = "status" /\ e.id = id /\ r.status = e.status
      BY <2>2, <3>1 DEF StatusesOf
    <3>3. PICK k \in 1 .. Len(business) : e = business[k]
      BY <3>2, ShownIs
    <3>4. h \in mt.heard
      <4>1. e \in Kept
        BY <3>3, KeptEvents
      <4> QED BY <3>2, <4>1 DEF KeptOnce, KeptIsTrue
    <3>5. ASSUME NEW g \in mt.heard, g.id = id PROVE g.at <= e.at
      <4>1. e.at \in Nat /\ g.at \in Nat
        BY <3>3, HeardForm
      <4>2. CASE \A j \in 1 .. Len(business) : business[j].at >= g.at
        BY <3>3, <4>1, <4>2
      <4>3. ASSUME NEW j \in 1 .. Len(business), Says(business[j], g) PROVE g.at <= e.at
        <5>1. PICK x \in Shown : Timeline[x] = business[j]
          BY ShownIs
        <5>2. x \in StatusesOf(id) /\ Timeline[x].at = g.at
          BY <3>5, <4>3, <5>1 DEF StatusesOf, Says
        <5> QED BY <3>1, <5>2
      <4> QED BY <4>2, <4>3 DEF HeardIsKept
    <3>6. h.id = r.id /\ h.status = r.status /\ h.at = e.at
      BY <2>2, <3>2
    <3> HIDE DEF h, e, id
    <3> QED BY <2>2, <3>4, <3>5, <3>6
  <2>6. CASE StatusesOf(id) = {}
    <3>1. \A i \in Shown : ~(Timeline[i].dir = "status" /\ Timeline[i].id = r.id)
      BY <2>2, <2>6 DEF StatusesOf
    <3>2. r.status = primary.status
      BY <2>2, <2>4, <2>6
    <3>3. ASSUME NEW l \in Shown, Timeline[l].name = "LOCAL_OUTBOUND_SEND", Timeline[l].id = r.id,
                 Timeline[l].dir = r.dir, Timeline[l].attempt # NoAttempt
          PROVE  r.status = "sent"
      <4>1. Primary(Group(m)) = l
        BY <2>2, <2>3, <3>3, LocalIsPrimary
      <4>2. Timeline[l] \in Locals
        BY <3>3, ShownIs, ReceivedIs DEF Business
      <4>3. Timeline[l].status = "sent"
        BY <3>3, <4>2, LocalIs
      <4> QED BY <3>2, <4>1, <4>3
    <3> QED BY <3>1, <3>3
  <2> QED BY <2>5, <2>6
<1> QED BY <1>1, FormsAreKept, HeardStaysKept, PTL

-------------------------------------------------------------------------------
(* What is received is kept as it was meant.                               *)

\* A larger number has larger multiples.
LEMMA MultiplesGrow ==
  ASSUME NEW a \in Int, NEW b \in Int, a <= b
  PROVE  a * Base \in Int /\ b * Base \in Int /\ a * Base <= b * Base /\ (a < b => a * Base + Base <= b * Base)
<1>1. Base \in Nat \ {0}
  BY NormalizationAssumption
<1>2. ASSUME NEW k \in Nat PROVE k * Base \in Nat /\ (k >= 1 => k * Base >= Base)
  BY <1>1
<1>3. b * Base = a * Base + (b - a) * Base /\ a * Base \in Int /\ b * Base \in Int /\ b - a \in Nat
  BY <1>1
<1> QED BY <1>1, <1>2, <1>3

\* A number is divided in one way.
LEMMA OneDivision ==
  ASSUME NEW q \in Int, NEW r \in 0 .. Base - 1
  PROVE  (q * Base + r) \div Base = q /\ (q * Base + r) % Base = r
<1> DEFINE n == q * Base + r
           k == n \div Base
<1>1. Base \in Nat \ {0} /\ r \in Int /\ q * Base \in Int
  BY NormalizationAssumption
<1>2. n \in Int
  BY <1>1
<1>3. k \in Int /\ n % Base \in 0 .. Base - 1 /\ n = k * Base + (n % Base)
  <2> HIDE DEF n
  <2> QED BY <1>1, <1>2
<1> HIDE DEF k
<1>4. ~(k < q)
  BY <1>1, <1>3, MultiplesGrow
<1>5. ~(q < k)
  BY <1>1, <1>3, MultiplesGrow
<1>6. k = q
  BY <1>3, <1>4, <1>5
<1>7. n % Base = r
  <2> HIDE DEF n
  <2>1. n = q * Base + r
    BY DEF n
  <2> QED BY <1>1, <1>3, <1>6, <2>1
<1> QED BY <1>6, <1>7 DEF k

\* Every number is divided.
LEMMA DivisionOf ==
  ASSUME NEW n \in Int
  PROVE  n \div Base \in Int /\ n % Base \in 0 .. Base - 1 /\ n = (n \div Base) * Base + (n % Base)
<1>1. Base \in Nat \ {0}
  BY NormalizationAssumption
<1> QED BY <1>1

\* What is divided without a remainder.
LEMMA Divisible ==
  ASSUME NEW m \in Int, NEW n \in Int
  PROVE  /\ (n - m) % Base = 0 <=> n % Base = m % Base
         /\ (n - m) % Base = 0 /\ -Base < n - m /\ n - m < Base => n = m
<1> DEFINE a == m \div Base  b == n \div Base  r == m % Base  s == n % Base  k == (n - m) \div Base
<1>1. Base \in Nat \ {0}
  BY NormalizationAssumption
<1>2. a \in Int /\ b \in Int /\ r \in 0 .. Base - 1 /\ s \in 0 .. Base - 1 /\ m = a * Base + r /\ n = b * Base + s
  BY DivisionOf
<1>3. k \in Int /\ (n - m) % Base \in 0 .. Base - 1 /\ n - m = k * Base + ((n - m) % Base)
  <2> DEFINE d == n - m
  <2>1. d \in Int
    OBVIOUS
  <2> HIDE DEF d
  <2> QED BY <2>1, DivisionOf
<1> HIDE DEF a, b, r, s, k
<1>4. ASSUME (n - m) % Base = 0 PROVE r = s
  <2>1. n = (a + k) * Base + r
    BY <1>1, <1>2, <1>3, <1>4
  <2>2. a + k \in Int
    BY <1>2, <1>3
  <2>3. ((a + k) * Base + r) % Base = r
    BY <1>2, <2>2, OneDivision
  <2> QED BY <2>1, <2>3 DEF s
<1>5. ASSUME r = s PROVE (n - m) % Base = 0
  <2>1. n - m = (b - a) * Base + 0
    BY <1>1, <1>2, <1>5
  <2>2. b - a \in Int /\ 0 \in 0 .. Base - 1
    BY <1>1, <1>2
  <2>3. ((b - a) * Base + 0) % Base = 0
    BY <2>2, OneDivision
  <2> QED BY <2>1, <2>3
<1>6. ASSUME (n - m) % Base = 0, -Base < n - m, n - m < Base PROVE n = m
  <2>1. n - m = k * Base /\ 0 * Base = 0
    BY <1>1, <1>3, <1>6
  <2>2. ~(0 < k)
    BY <1>1, <1>3, <1>6, <2>1, MultiplesGrow
  <2>3. ~(k < 0)
    BY <1>1, <1>3, <1>6, <2>1, MultiplesGrow
  <2> QED BY <1>3, <2>1, <2>2, <2>3
<1> QED BY <1>4, <1>5, <1>6 DEF r, s

\* The numbers of 64 bits by their halves.
LEMMA HalvesOf ==
  ASSUME NEW h \in Int, NEW l \in 0 .. Base - 1
  PROVE  LET n == h * Base + l
             half == Base \div 2
         IN  /\ n \in Int /\ half \in Nat /\ Base = 2 * half /\ Sign \in Nat
             /\ h < 0 <=> n < 0
             /\ h < half <=> n < Sign
             /\ h < -half <=> n < -Sign
             /\ h < Base <=> n < 2 * Sign
             /\ n - 2 * Sign = (h - Base) * Base + l
<1> DEFINE n == h * Base + l
           half == Base \div 2
<1>1. Base \in Nat \ {0} /\ half \in Nat /\ Base = 2 * half /\ l \in Int /\ 0 <= l /\ l < Base
  BY NormalizationAssumption
<1> HIDE DEF half
<1>2. Sign = half * Base /\ Sign \in Nat
  BY <1>1 DEF Sign, half
<1>3. ASSUME NEW c \in Int PROVE h < c <=> n < c * Base
  <2>1. h < c => h * Base + Base <= c * Base
    BY MultiplesGrow
  <2>2. ~(h < c) => c * Base <= h * Base
    BY MultiplesGrow
  <2>3. h * Base \in Int /\ c * Base \in Int
    BY <1>1
  <2> QED BY <1>1, <2>1, <2>2, <2>3
<1>4. n \in Int
  BY <1>1
<1>5. 0 * Base = 0 /\ (-half) * Base = -Sign /\ Base * Base = 2 * Sign
  BY <1>1, <1>2
<1>6. n - 2 * Sign = (h - Base) * Base + l
  <2>1. (h - Base) * Base = h * Base - Base * Base
    BY <1>1
  <2> QED BY <1>1, <1>2, <1>5, <2>1
<1>7. h < 0 <=> n < 0
  BY <1>3, <1>5
<1>8. h < half <=> n < Sign
  BY <1>1, <1>2, <1>3
<1>9. h < -half <=> n < -Sign
  <2>1. -half \in Int
    BY <1>1
  <2> HIDE DEF n
  <2> QED BY <1>3, <1>5, <2>1
<1>10. h < Base <=> n < 2 * Sign
  BY <1>1, <1>3, <1>5
<1> HIDE DEF n
<1> QED BY <1>1, <1>2, <1>4, <1>6, <1>7, <1>8, <1>9, <1>10 DEF n, half

\* One number of 64 bits, signed or not, has the halves.
LEMMA OneOfHalves ==
  ASSUME NEW m \in Int, NEW n \in Int, (m \div Base - n \div Base) % Base = 0, (m - n) % Base = 0,
         \/ m \in 0 .. 2 * Sign - 1 /\ n \in 0 .. 2 * Sign - 1
         \/ m \in -Sign .. Sign - 1 /\ n \in -Sign .. Sign - 1
  PROVE  m = n
<1> DEFINE a == m \div Base  b == n \div Base  r == m % Base  s == n % Base  half == Base \div 2
<1>1. a \in Int /\ b \in Int /\ r \in 0 .. Base - 1 /\ s \in 0 .. Base - 1 /\ m = a * Base + r /\ n = b * Base + s
  BY DivisionOf
<1>2. r = s
  BY Divisible
<1> HIDE DEF a, b, r, s
<1>3. Base = 2 * half /\ half \in Nat /\ Sign \in Nat
      /\ (a < 0 <=> m < 0) /\ (a < half <=> m < Sign) /\ (a < -half <=> m < -Sign) /\ (a < Base <=> m < 2 * Sign)
  BY <1>1, HalvesOf
<1>4. (b < 0 <=> n < 0) /\ (b < half <=> n < Sign) /\ (b < -half <=> n < -Sign) /\ (b < Base <=> n < 2 * Sign)
  BY <1>1, HalvesOf
<1> HIDE DEF half
<1>5. -Base < a - b /\ a - b < Base
  <2>1. CASE m \in 0 .. 2 * Sign - 1 /\ n \in 0 .. 2 * Sign - 1
    BY <2>1, <1>1, <1>3, <1>4
  <2>2. CASE m \in -Sign .. Sign - 1 /\ n \in -Sign .. Sign - 1
    BY <2>2, <1>1, <1>3, <1>4
  <2> QED BY <2>1, <2>2
<1>6. a = b
  BY <1>1, <1>5, Divisible DEF a, b
<1> QED BY <1>1, <1>2, <1>6

\* What is said of a time has one of four forms.
LEMMA CandidateIs ==
  ASSUME NEW v \in Candidates
  PROVE  /\ v.form \in {"number", "digits", "long", "iso", "none"}
         /\ v.form \in {"number", "digits"} => v.n \in Int
         /\ v.form = "long" =>
              /\ v.high \in Int /\ -(Base \div 2) <= v.high /\ v.high < Base /\ v.low \in Int
         /\ v.form = "long" => v.unsigned \in BOOLEAN
         /\ v.form = "iso" => v.ms \in Int
<1>1. Base \in Int /\ Base \div 2 \in Int
  BY NormalizationAssumption
<1>2. CASE v \in [form : {"number", "digits"}, n : Int]
  BY <1>2
<1>3. CASE v \in [form : {"long"}, high : -(Base \div 2) .. Base - 1, low : Int, unsigned : BOOLEAN]
  <2>1. v.unsigned \in BOOLEAN
    BY <1>3
  <2>2. v.form = "long" /\ v.high \in -(Base \div 2) .. Base - 1 /\ v.low \in Int
    BY <1>3
  <2> QED BY <1>1, <2>1, <2>2
<1>4. CASE v \in [form : {"iso"}, ms : Int]
  BY <1>4
<1>5. CASE v \in [form : {"none"}]
  BY <1>5
<1> QED BY <1>2, <1>3, <1>4, <1>5 DEF Candidates

\* A long is read as the one number of 64 bits that has its halves; an unsigned
\* one whose upper half looks negative is read as a negative number.
LEMMA LongIsRead ==
  ASSUME NEW v \in Candidates, v.form = "long"
  PROVE  /\ ToInt64(v) \in Int
         /\ v.unsigned /\ v.high < 0 => ToInt64(v) < 0
         /\ ~(v.unsigned /\ v.high < 0) => Numbers(v) = {ToInt64(v)}
<1> DEFINE h == v.high  l == LowBits(v.low)  n == h * Base + l  half == Base \div 2
           range == IF v.unsigned THEN 0 .. 2 * Sign - 1 ELSE -Sign .. Sign - 1
<1>1. h \in Int /\ -half <= h /\ h < Base /\ v.low \in Int /\ v.unsigned \in BOOLEAN
  BY CandidateIs
<1>2. l \in 0 .. Base - 1 /\ l = v.low % Base
  BY <1>1, DivisionOf DEF LowBits
<1>3. /\ n \in Int /\ half \in Nat /\ Base = 2 * half /\ Sign \in Nat
      /\ (h < 0 <=> n < 0) /\ (h < half <=> n < Sign) /\ (h < -half <=> n < -Sign) /\ (h < Base <=> n < 2 * Sign)
      /\ n - 2 * Sign = (h - Base) * Base + l
  BY <1>1, <1>2, HalvesOf
<1>4. ToInt64(v) = IF ~v.unsigned /\ n >= Sign THEN n - 2 * Sign ELSE n
  BY DEF ToInt64
<1>5. Numbers(v) = {m \in range : (m \div Base - h) % Base = 0 /\ (m - v.low) % Base = 0}
  BY DEF Numbers
<1>6. ASSUME NEW q \in Int, NEW m \in Int, m = q * Base + l, q = h \/ q = h - Base
      PROVE  (m \div Base - h) % Base = 0 /\ (m - v.low) % Base = 0
  <2>1. m \div Base = q /\ m % Base = l
    BY <1>2, <1>6, OneDivision
  <2>2. (m - v.low) % Base = 0
    BY <1>1, <1>2, <2>1, Divisible
  <2>3. (q - h) % Base = 0
    <3>1. Base \in Int /\ Base > 0
      BY NormalizationAssumption
    <3>2. q - h = 0 * Base + 0 \/ q - h = (-1) * Base + 0
      BY <1>1, <1>6, <3>1
    <3>3. (0 * Base + 0) % Base = 0 /\ ((-1) * Base + 0) % Base = 0
      BY <3>1, OneDivision
    <3> QED BY <3>2, <3>3
  <2> QED BY <2>1, <2>2, <2>3
<1> HIDE DEF h, l, n, half
<1>7. ToInt64(v) \in Int /\ (v.unsigned /\ h < 0 => ToInt64(v) < 0)
  BY <1>1, <1>3, <1>4
<1>8. ASSUME ~(v.unsigned /\ h < 0) PROVE Numbers(v) = {ToInt64(v)}
  <2> DEFINE k == ToInt64(v)
  <2>1. k \in range
    <3>1. CASE v.unsigned = TRUE
      BY <3>1, <1>1, <1>3, <1>4, <1>8
    <3>2. CASE v.unsigned = FALSE
      BY <3>2, <1>1, <1>3, <1>4
    <3> QED BY <1>1, <3>1, <3>2
  <2>2. k \in Int /\ (k \div Base - h) % Base = 0 /\ (k - v.low) % Base = 0
    <3>1. CASE k = n
      BY <3>1, <1>1, <1>3, <1>6 DEF n
    <3>2. CASE k = n - 2 * Sign
      <4>1. h - Base \in Int /\ k \in Int
        BY <1>1, <1>3, <3>2
      <4> QED BY <4>1, <3>2, <1>3, <1>6
    <3> QED BY <3>1, <3>2, <1>4
  <2>3. ASSUME NEW m \in range, (m \div Base - h) % Base = 0, (m - v.low) % Base = 0 PROVE m = k
    <3> HIDE DEF k
    <3>1. m \in Int /\ m \div Base \in Int /\ k \div Base \in Int
      <4>1. m \in Int
        BY <1>1, <1>3
      <4> QED BY <4>1, <2>2, DivisionOf
    <3>2. (m \div Base - k \div Base) % Base = 0
      <4>1. (m \div Base) % Base = h % Base /\ (k \div Base) % Base = h % Base
        BY <3>1, <2>2, <2>3, <1>1, Divisible
      <4> QED BY <3>1, <4>1, Divisible
    <3>3. (m - k) % Base = 0
      <4>1. m % Base = v.low % Base /\ k % Base = v.low % Base
        BY <3>1, <2>2, <2>3, <1>1, Divisible
      <4> QED BY <3>1, <2>2, <4>1, Divisible
    <3>4. \/ m \in 0 .. 2 * Sign - 1 /\ k \in 0 .. 2 * Sign - 1
          \/ m \in -Sign .. Sign - 1 /\ k \in -Sign .. Sign - 1
      BY <2>1
    <3> HIDE DEF range
    <3> QED BY <3>1, <3>2, <3>3, <3>4, <2>2, OneOfHalves
  <2> HIDE DEF k, range
  <2>4. Numbers(v) = {k}
    BY <1>5, <2>1, <2>2, <2>3
  <2> QED BY <2>4 DEF k
<1> QED BY <1>7, <1>8 DEF h

\* So a time is read as what it may mean, and what is not read says nothing.
LEMMA TimeIsRead ==
  ASSUME NEW v \in Candidates
  PROVE  (Ms(v) = NoNumber /\ SaysNothing(v)) \/ (Ms(v) # NoNumber /\ Ms(v) \in Times(v))
<1> DEFINE n == ToInt64(v)
<1>1. NoNumber \notin Int /\ Threshold \in Nat
  BY NormalizationAssumption
<1>2. CASE v.form \in {"number", "digits", "long"}
  <2>1. n \in Int /\ (Numbers(v) = {n} \/ (v.form = "long" /\ v.unsigned /\ v.high < 0 /\ n < 0))
    <3>1. CASE v.form = "long"
      BY <3>1, LongIsRead
    <3>2. CASE v.form \in {"number", "digits"}
      BY <3>2, CandidateIs DEF ToInt64, Numbers
    <3> QED BY <1>2, <3>1, <3>2
  <2>2. Times(v) = {IF m < Threshold THEN m * 1000 ELSE m : m \in {k \in Numbers(v) : k > 0}}
    BY <1>2 DEF Times
  <2>3. UnixToMs(v) = IF n <= 0 THEN NoNumber ELSE IF n < Threshold THEN n * 1000 ELSE n
    BY <1>1, <2>1 DEF UnixToMs
  <2>4. IsoToMs(v) = NoNumber
    BY <1>2 DEF IsoToMs
  <2> HIDE DEF n
  <2>5. CASE n <= 0
    <3>1. Ms(v) = NoNumber
      BY <2>3, <2>4, <2>5 DEF Ms
    <3>2. Numbers(v) = {n} => Times(v) = {}
      <4>1. Numbers(v) = {n} => {k \in Numbers(v) : k > 0} = {}
        BY <2>1, <2>5
      <4> QED BY <4>1, <2>2
    <3> QED BY <2>1, <3>1, <3>2 DEF SaysNothing
  <2>6. CASE ~(n <= 0)
    <3>1. Numbers(v) = {n} /\ n \in {k \in Numbers(v) : k > 0}
      BY <2>1, <2>6
    <3>2. UnixToMs(v) = (IF n < Threshold THEN n * 1000 ELSE n) /\ UnixToMs(v) \in Int
      BY <1>1, <2>1, <2>3, <2>6
    <3>3. Ms(v) = UnixToMs(v) /\ Ms(v) # NoNumber
      BY <1>1, <3>2 DEF Ms
    <3> QED BY <2>2, <3>1, <3>2, <3>3
  <2> QED BY <2>5, <2>6
<1>3. CASE v.form = "iso"
  <2>1. v.ms \in Int /\ Ms(v) = v.ms /\ Times(v) = {v.ms}
    BY <1>3, CandidateIs DEF Ms, UnixToMs, IsoToMs, ToInt64, Times
  <2> QED BY <1>1, <2>1
<1>4. CASE v.form = "none"
  <2>1. Ms(v) = NoNumber
    BY <1>4 DEF Ms, UnixToMs, IsoToMs, ToInt64
  <2>2. Numbers(v) = {}
    BY <1>4 DEF Numbers
  <2>3. Times(v) = {}
    BY <1>4, <2>2 DEF Times
  <2> QED BY <2>1, <2>3 DEF SaysNothing
<1> QED BY <1>2, <1>3, <1>4, CandidateIs

\* The first that can be read is the time at the source.
LEMMA SourceTimeIsMeant ==
  ASSUME NEW when \in Seq(Candidates)
  PROVE  TimeIsMeant(when, SourceTime(when))
<1> DEFINE read == {i \in 1 .. Len(when) : Ms(when[i]) # NoNumber}
<1>1. \A i \in 1 .. Len(when) : when[i] \in Candidates
  BY ElementOfSeq
<1>2. Len(when) \in Nat
  BY LenProperties
<1>3. CASE read = {}
  <2>1. SourceTime(when) = NoNumber
    BY <1>3 DEF SourceTime
  <2>2. \A i \in 1 .. Len(when) : SaysNothing(when[i])
    BY <1>1, <1>3, TimeIsRead
  <2> QED BY <2>1, <2>2 DEF TimeIsMeant
<1>4. CASE read # {}
  <2> DEFINE i == First(read)
  <2>1. read \in SUBSET (1 .. Len(when))
    OBVIOUS
  <2>2. i \in read /\ \A j \in read : i <= j
    <3>1. \E k \in read : \A j \in read : k <= j
      <4> HIDE DEF read
      <4> QED BY <1>2, <1>4, <2>1, LeastAndGreatest
    <3> HIDE DEF read
    <3> QED BY <3>1 DEF First
  <2>3. SourceTime(when) = Ms(when[i])
    BY <1>4 DEF SourceTime
  <2> HIDE DEF i
  <2>4. i \in 1 .. Len(when) /\ Ms(when[i]) # NoNumber
    BY <2>2
  <2>5. Ms(when[i]) \in Times(when[i])
    BY <1>1, <2>4, TimeIsRead
  <2>6. ASSUME NEW j \in 1 .. i - 1 PROVE SaysNothing(when[j])
    <3>1. j \in 1 .. Len(when) /\ ~(i <= j)
      BY <1>2, <2>4
    <3>2. Ms(when[j]) = NoNumber
      BY <2>2, <3>1
    <3> QED BY <1>1, <3>1, <3>2, TimeIsRead
  <2> QED BY <2>3, <2>4, <2>5, <2>6 DEF TimeIsMeant
<1> QED BY <1>3, <1>4

\* What is made of a notification means what it says.
LEMMA NormalizedMeans ==
  ASSUME NEW p \in Notices, IsBusiness(p), NEW n, NEW t
  PROVE  Means(p, Normalize(p, n, t))
<1> DEFINE e == Normalize(p, n, t)
<1>1. TimeIsMeant(p.when, SourceTime(p.when))
  BY TimesAssumption, SourceTimeIsMeant
<1>2. CASE Canonical(p.event) = "MESSAGES_UPDATE"
  <2>1. /\ e.name = Canonical(p.event) /\ e.source = SourceTime(p.when) /\ e.id = ChosenUpdate(p.items).id
        /\ e.mentions = {}
    BY <1>2 DEF Normalize
  <2>2. e.reply = FALSE
    BY <1>2 DEF Normalize
  <2> HIDE DEF e
  <2>3. Means(p, e)
    BY <1>1, <1>2, <2>1, <2>2 DEF Means
  <2> QED BY <2>3 DEF e
<1>3. CASE Canonical(p.event) # "MESSAGES_UPDATE"
  <2>1. /\ e.name = Canonical(p.event) /\ e.source = SourceTime(p.when) /\ e.id = p.id
        /\ e.mentions = Mentions(p.message)
    BY <1>3 DEF Normalize
  <2>2. e.reply = IsReply(p.message)
    BY <1>3 DEF Normalize
  <2> HIDE DEF e
  <2>3. MentionsAreMeant(p.message, e.mentions)
    BY <2>1 DEF MentionsAreMeant, Mentions, Context
  <2>4. AnswerIsMeant(p.message, e.reply)
    BY <2>2 DEF AnswerIsMeant, IsReply, Context
  <2>5. Means(p, e)
    BY <1>1, <1>3, <2>1, <2>3, <2>4 DEF Means
  <2> QED BY <2>5 DEF e
<1> QED BY <1>2, <1>3

\* What was received is kept as its sender meant it: with its time, whom it mentions
\* and whether it is an answer.
THEOREM ReceivedIsKeptAsMeant == MtSpec => []KeptAsMeant
<1>1. MtForm => KeptAsMeant
  <2> SUFFICES ASSUME MtForm, NEW i \in 1 .. Len(business), business[i].name \notin {"LOCAL_OUTBOUND_SEND", "LOCAL_SEND"}
               PROVE  \E p \in Notices : IsBusiness(p) /\ Means(p, business[i])
    BY DEF KeptAsMeant
  <2>1. business[i] \in Received \cup Locals
    BY ElementOfSeq DEF MtForm, LayersForm, Business
  <2>2. business[i] \in Received
    BY <2>1, LocalIs
  <2>3. PICK p \in {q \in Notices : IsBusiness(q)}, n \in Nat, t \in Nat : business[i] = Normalize(p, n, t)
    BY <2>2 DEF Received
  <2> QED BY <2>3, NormalizedMeans
<1> QED BY <1>1, FormsAreKept, PTL
=============================================================================
