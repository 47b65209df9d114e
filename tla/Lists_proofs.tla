----------------------------- MODULE Lists_proofs ------------------------------
(***************************************************************************)
(* Lemmas on the operators of Lists, and on the natural numbers, that the  *)
(* proofs about the components share.                                      *)
(***************************************************************************)
EXTENDS Lists, WellFoundedInduction, FiniteSetTheorems, SequenceTheorems, TLAPS

(***************************************************************************)
(* Numbers                                                                 *)
(***************************************************************************)
\* A nonempty set of naturals has a least element (the well-foundedness of <, applied).
LEMMA LeastNat ==
    ASSUME NEW S, S \subseteq Nat, S # {}
    PROVE  \E x \in S : \A y \in S : x <= y
<1>1. PICK x \in S : \A y \in S : ~ (<<y, x>> \in OpToRel(<, Nat))
    BY WFMin, NatLessThanWellFounded
<1>2. \A y \in S : ~ (y < x)
    BY <1>1 DEF OpToRel
<1>3. QED
    BY <1>2

\* A nonempty set of places has a last one.
LEMMA LastPlace ==
    ASSUME NEW N \in Nat, NEW S, S \subseteq 1..N, S # {}
    PROVE  \E x \in S : \A y \in S : y <= x
<1> DEFINE T == {N - x : x \in S}
<1>a. \A x \in S : x \in Int /\ N - x \in Nat
    OBVIOUS
<1>1. T \subseteq Nat /\ T # {}
    BY <1>a
<1>2. PICK z \in T : \A y \in T : z <= y
  <2> HIDE DEF T
  <2>1. QED
      BY <1>1, LeastNat
<1>3. PICK x \in S : z = N - x
    BY <1>2
<1>4. ASSUME NEW y \in S PROVE y <= x
  <2>1. N - y \in T
      OBVIOUS
  <2>2. N - x <= N - y
      BY <1>2, <1>3, <2>1
  <2>3. x \in Int /\ y \in Int /\ N \in Int
      BY <1>a
  <2>4. QED
      BY <2>2, <2>3
<1>5. QED
    BY <1>4

\* Induction, for sets: what holds of 0 and is handed on holds up to N.
LEMMA UpTo ==
    ASSUME NEW N \in Nat, NEW S, 0 \in S,
           \A n \in 1..N : n - 1 \in S => n \in S
    PROVE  0..N \subseteq S
<1> DEFINE Bad == {n \in 0..N : n \notin S}
<1>1. CASE Bad = {}
    BY <1>1
<1>2. CASE Bad # {}
  <2>a. Bad \subseteq Nat
      OBVIOUS
  <2> HIDE DEF Bad
  <2>1. PICK n \in Bad : \A m \in Bad : n <= m
      BY <1>2, <2>a, LeastNat
  <2> USE DEF Bad
  <2>2. n \in 1..N /\ n - 1 \in 0..N /\ n - 1 \notin Bad
      BY <2>1
  <2>3. QED
      BY <2>1, <2>2
<1>3. QED
    BY <1>1, <1>2

(***************************************************************************)
(* Sorting                                                                 *)
(***************************************************************************)
LEMMA PrecedingBounds ==
    ASSUME NEW N \in Nat, NEW key \in [1..N -> Int], NEW n \in 1..N
    PROVE  /\ Preceding(key, n) \subseteq 1..N /\ n \notin Preceding(key, n)
           /\ IsFiniteSet(Preceding(key, n)) /\ Cardinality(Preceding(key, n)) \in Nat
           /\ 1 + Cardinality(Preceding(key, n)) \in 1..N
<1>1. Preceding(key, n) \subseteq 1..N /\ n \notin Preceding(key, n)
    BY DEF Preceding
<1>2. IsFiniteSet(1..N) /\ Cardinality(1..N) = N
    BY FS_Interval
<1>3. /\ IsFiniteSet(Preceding(key, n)) /\ Cardinality(Preceding(key, n)) <= N
      /\ Cardinality(Preceding(key, n)) = N => Preceding(key, n) = 1..N
    BY <1>1, <1>2, FS_Subset
<1>4. Cardinality(Preceding(key, n)) \in Nat
    BY <1>3, FS_CardinalityType
<1>5. Cardinality(Preceding(key, n)) # N
    BY <1>1, <1>3
<1>6. QED
    BY <1>1, <1>3, <1>4, <1>5

\* What comes before m comes before whatever m comes before.
LEMMA PrecedingGrows ==
    ASSUME NEW N \in Nat, NEW key \in [1..N -> Int], NEW m \in 1..N, NEW n \in 1..N,
           m \in Preceding(key, n)
    PROVE  Cardinality(Preceding(key, m)) < Cardinality(Preceding(key, n))
<1>1. Preceding(key, m) \subseteq Preceding(key, n)
    BY DEF Preceding
<1>2. m \notin Preceding(key, m)
    BY PrecedingBounds
<1>3. IsFiniteSet(Preceding(key, n)) /\ Cardinality(Preceding(key, n)) \in Nat
    BY PrecedingBounds
<1>4. /\ Cardinality(Preceding(key, m)) <= Cardinality(Preceding(key, n))
      /\ Cardinality(Preceding(key, m)) = Cardinality(Preceding(key, n)) => Preceding(key, m) = Preceding(key, n)
    BY <1>1, <1>3, FS_Subset
<1>5. Cardinality(Preceding(key, m)) \in Nat
    BY PrecedingBounds
<1>6. QED
    BY <1>2, <1>3, <1>4, <1>5

\* Every place of the sorted list is taken by one place of the list.
LEMMA Places ==
    ASSUME NEW N \in Nat, NEW key \in [1..N -> Int]
    PROVE  /\ \A k \in 1..N : /\ Place(key, k) \in 1..N
                              /\ 1 + Cardinality(Preceding(key, Place(key, k))) = k
           /\ \A n \in 1..N : \E k \in 1..N : Place(key, k) = n
           /\ \A k, l \in 1..N : k < l => Place(key, k) \in Preceding(key, Place(key, l))
<1> DEFINE rank == [n \in 1..N |-> 1 + Cardinality(Preceding(key, n))]
<1>1. rank \in [1..N -> 1..N]
    BY PrecedingBounds
<1>2. ASSUME NEW m \in 1..N, NEW n \in 1..N, m # n
      PROVE  m \in Preceding(key, n) \/ n \in Preceding(key, m)
    BY <1>2 DEF Preceding
<1>3. ASSUME NEW m \in 1..N, NEW n \in 1..N, rank[m] = rank[n] PROVE m = n
  <2>1. Cardinality(Preceding(key, m)) = Cardinality(Preceding(key, n))
    <3>1. Cardinality(Preceding(key, m)) \in Nat /\ Cardinality(Preceding(key, n)) \in Nat
        BY PrecedingBounds
    <3>2. QED
        BY <1>3, <3>1
  <2>2. Cardinality(Preceding(key, m)) \in Nat
      BY PrecedingBounds
  <2>3. m \notin Preceding(key, n) /\ n \notin Preceding(key, m)
      BY <2>1, <2>2, PrecedingGrows
  <2>4. QED
      BY <1>2, <2>3
<1>4. rank \in Injection(1..N, 1..N)
  <2> HIDE DEF rank
  <2>1. QED
      BY <1>1, <1>3 DEF Injection, IsInjective
<1>5. rank \in Surjection(1..N, 1..N)
  <2>1. IsFiniteSet(1..N)
      BY FS_Interval
  <2> HIDE DEF rank
  <2>2. QED
      BY <1>4, <2>1, FS_Injection
<1>6. ASSUME NEW k \in 1..N PROVE Place(key, k) \in 1..N /\ rank[Place(key, k)] = k
  <2>1. \E n \in 1..N : rank[n] = k
    <3> HIDE DEF rank
    <3>1. QED
        BY <1>5 DEF Surjection
  <2>2. DOMAIN key = 1..N
      OBVIOUS
  <2>3. \E n \in DOMAIN key : 1 + Cardinality(Preceding(key, n)) = k
      BY <2>1, <2>2
  <2>4. Place(key, k) \in DOMAIN key /\ 1 + Cardinality(Preceding(key, Place(key, k))) = k
      BY <2>3 DEF Place
  <2>5. QED
      BY <2>2, <2>4
<1>7. ASSUME NEW n \in 1..N PROVE \E k \in 1..N : Place(key, k) = n
  <2>1. rank[n] \in 1..N
      BY <1>1
  <2>2. Place(key, rank[n]) \in 1..N /\ rank[Place(key, rank[n])] = rank[n]
      BY <1>6, <2>1
  <2> HIDE DEF rank
  <2>3. QED
      BY <1>3, <2>1, <2>2
<1>8. ASSUME NEW k \in 1..N, NEW l \in 1..N, k < l
      PROVE  Place(key, k) \in Preceding(key, Place(key, l))
  <2> DEFINE m == Place(key, k)
             n == Place(key, l)
  <2>1. m \in 1..N /\ n \in 1..N /\ rank[m] = k /\ rank[n] = l
      BY <1>6
  <2> HIDE DEF m, n
  <2>2. Cardinality(Preceding(key, m)) \in Nat /\ Cardinality(Preceding(key, n)) \in Nat
      BY <2>1, PrecedingBounds
  <2>3. Cardinality(Preceding(key, m)) < Cardinality(Preceding(key, n))
      BY <1>8, <2>1, <2>2
  <2>4. m # n /\ n \notin Preceding(key, m)
      BY <2>1, <2>2, <2>3, PrecedingGrows
  <2>5. m \in Preceding(key, n)
      BY <1>2, <2>1, <2>4
  <2>6. QED
      BY <2>5 DEF m, n
<1>9. QED
    BY <1>6, <1>7, <1>8

LEMMA SortedList ==
    ASSUME NEW X, NEW s \in Seq(X), NEW key \in [1..Len(s) -> Int]
    PROVE  /\ Sorted(s, key) \in Seq(X) /\ Len(Sorted(s, key)) = Len(s)
           /\ \A k \in 1..Len(s) : Sorted(s, key)[k] = s[Place(key, k)]
<1>1. Len(s) \in Nat /\ DOMAIN s = 1..Len(s)
    BY LenProperties
<1>2. \A k \in 1..Len(s) : Place(key, k) \in 1..Len(s)
    BY <1>1, Places
<1>3. \A k \in 1..Len(s) : s[Place(key, k)] \in X
    BY <1>2, ElementOfSeq
<1>4. Sorted(s, key) = [k \in 1..Len(s) |-> s[Place(key, k)]]
    BY <1>1 DEF Sorted
<1>5. [k \in 1..Len(s) |-> s[Place(key, k)]] \in [1..Len(s) -> X]
    BY <1>3
<1>6. Sorted(s, key) \in Seq(X)
    BY <1>1, <1>4, <1>5, IsASeq
<1>7. Len(Sorted(s, key)) = Len(s)
    BY <1>1, <1>4, <1>5, <1>6, LenProperties
<1>8. QED
    BY <1>4, <1>6, <1>7

LEMMA FirstIs ==
    ASSUME NEW X, NEW s \in Seq(X), NEW n \in Nat
    PROVE  /\ First(s, n) \in Seq(X) /\ Len(First(s, n)) \in Nat
           /\ Len(First(s, n)) <= n /\ Len(First(s, n)) <= Len(s)
           /\ Len(First(s, n)) < Len(s) => Len(First(s, n)) = n
           /\ \A k \in 1..Len(First(s, n)) : First(s, n)[k] = s[k]
<1>1. Len(s) \in Nat
    BY LenProperties
<1> DEFINE to == IF Len(s) < n THEN Len(s) ELSE n
<1>2. to \in Nat /\ to <= n /\ to <= Len(s) /\ (to < Len(s) => to = n)
    BY <1>1
<1>3. First(s, n) = SubSeq(s, 1, to)
    BY DEF First
<1> HIDE DEF to
<1>4. \A k \in 1..to : s[k] \in X
    BY <1>1, <1>2, ElementOfSeq
<1>5. /\ SubSeq(s, 1, to) \in Seq(X)
      /\ Len(SubSeq(s, 1, to)) = IF 1 <= to THEN to - 1 + 1 ELSE 0
      /\ \A k \in 1..(to - 1 + 1) : SubSeq(s, 1, to)[k] = s[1 + k - 1]
    BY <1>2, <1>4, SubSeqProperties
<1>6. Len(SubSeq(s, 1, to)) = to
    BY <1>2, <1>5
<1>7. \A k \in 1..to : SubSeq(s, 1, to)[k] = s[k]
    BY <1>2, <1>5
<1>8. QED
    BY <1>2, <1>3, <1>5, <1>6, <1>7

(***************************************************************************)
(* How often an item is in a list                                          *)
(***************************************************************************)
LEMMA SpotsFinite ==
    ASSUME NEW q, NEW i, NEW m \in Nat
    PROVE  /\ IsFiniteSet(Spots(q, i, m)) /\ Cardinality(Spots(q, i, m)) \in Nat
           /\ Cardinality(Spots(q, i, m)) = 0 <=> \A n \in 1..m : q[n] # i
<1>1. IsFiniteSet(1..m)
    BY FS_Interval
<1>2. IsFiniteSet(Spots(q, i, m))
    BY <1>1, FS_Subset DEF Spots
<1>3. Cardinality(Spots(q, i, m)) \in Nat
    BY <1>2, FS_CardinalityType
<1>4. Cardinality(Spots(q, i, m)) = 0 <=> Spots(q, i, m) = {}
    BY <1>2, FS_EmptySet
<1>5. Spots(q, i, m) = {} <=> \A n \in 1..m : q[n] # i
    BY DEF Spots
<1>6. QED
    BY <1>2, <1>3, <1>4, <1>5

\* One position more.
LEMMA SpotsStep ==
    ASSUME NEW q, NEW i, NEW m \in Nat
    PROVE  Cardinality(Spots(q, i, m + 1)) =
               Cardinality(Spots(q, i, m)) + (IF q[m + 1] = i THEN 1 ELSE 0)
<1>1. CASE q[m + 1] = i
  <2>1. Spots(q, i, m + 1) = Spots(q, i, m) \cup {m + 1} /\ m + 1 \notin Spots(q, i, m)
      BY <1>1 DEF Spots
  <2>2. QED
      BY <1>1, <2>1, SpotsFinite, FS_AddElement
<1>2. CASE q[m + 1] # i
  <2>1. Spots(q, i, m + 1) = Spots(q, i, m)
      BY <1>2 DEF Spots
  <2>2. QED
      BY <1>2, <2>1, SpotsFinite
<1>3. QED
    BY <1>1, <1>2

\* A list is cut in two.
LEMMA TimesSplit ==
    ASSUME NEW X, NEW q \in Seq(X), NEW i, NEW k \in 0..Len(q)
    PROVE  Times(q, i) = Cardinality(Spots(q, i, k)) + Times(SubSeq(q, k + 1, Len(q)), i)
<1> DEFINE rest == SubSeq(q, k + 1, Len(q))
           sum(n) == Cardinality(Spots(q, i, k)) + Cardinality(Spots(rest, i, n))
           N == Len(q) - k
           S == {n \in 0..N : Cardinality(Spots(q, i, k + n)) = sum(n)}
<1>1. N \in Nat /\ Len(q) \in Nat /\ k \in Nat
    BY LenProperties
<1>2. Len(rest) = N /\ \A n \in 1..N : rest[n] = q[k + n]
  <2>1. \A n \in (k + 1)..Len(q) : q[n] \in X
      BY ElementOfSeq, <1>1
  <2>2. /\ Len(rest) = IF k + 1 <= Len(q) THEN Len(q) - (k + 1) + 1 ELSE 0
        /\ \A n \in 1..(Len(q) - (k + 1) + 1) : rest[n] = q[k + 1 + n - 1]
      BY <1>1, <2>1, SubSeqProperties
  <2>3. QED
      BY <1>1, <2>2
<1> HIDE DEF rest
<1>3. 0 \in S
  <2>1. Spots(rest, i, 0) = {} /\ Cardinality(Spots(rest, i, 0)) = 0
      BY FS_EmptySet DEF Spots
  <2>2. Cardinality(Spots(q, i, k)) \in Nat
      BY <1>1, SpotsFinite
  <2>3. QED
      BY <1>1, <2>1, <2>2
<1>4. ASSUME NEW n \in 1..N, n - 1 \in S PROVE n \in S
  <2>1. Cardinality(Spots(q, i, k + (n - 1))) = sum(n - 1)
      BY <1>4
  <2>a. k + (n - 1) \in Nat /\ n - 1 \in Nat
      BY <1>1, <1>4
  <2>2. /\ Cardinality(Spots(q, i, (k + (n - 1)) + 1)) =
             Cardinality(Spots(q, i, k + (n - 1))) + (IF q[(k + (n - 1)) + 1] = i THEN 1 ELSE 0)
        /\ Cardinality(Spots(rest, i, (n - 1) + 1)) =
             Cardinality(Spots(rest, i, n - 1)) + (IF rest[(n - 1) + 1] = i THEN 1 ELSE 0)
      BY <2>a, SpotsStep
  <2>3. (k + (n - 1)) + 1 = k + n /\ (n - 1) + 1 = n /\ rest[n] = q[k + n]
      BY <1>1, <1>2, <1>4
  <2>4. /\ Cardinality(Spots(q, i, k)) \in Nat /\ Cardinality(Spots(rest, i, n - 1)) \in Nat
      BY <1>1, <1>4, SpotsFinite
  <2>5. Cardinality(Spots(q, i, k + n)) = sum(n)
      BY <2>1, <2>2, <2>3, <2>4
  <2>6. QED
      BY <1>4, <2>5
<1>5. N \in S
  <2> HIDE DEF S
  <2>1. 0..N \subseteq S
      BY <1>1, <1>3, <1>4, UpTo
  <2>2. QED
      BY <1>1, <2>1
<1>6. k + N = Len(q)
    BY <1>1
<1>7. Times(rest, i) = Cardinality(Spots(rest, i, N))
    BY <1>2 DEF Times
<1>8. QED
    BY <1>5, <1>6, <1>7 DEF Times, rest

\* Two lists are joined.
LEMMA TimesJoin ==
    ASSUME NEW X, NEW q \in Seq(X), NEW p \in Seq(X), NEW i
    PROVE  Times(q \o p, i) = Times(q, i) + Times(p, i)
<1> DEFINE both == q \o p
<1>1. /\ Len(q) \in Nat /\ Len(p) \in Nat
      /\ both \in Seq(X) /\ Len(both) = Len(q) + Len(p)
      /\ \A n \in 1..(Len(q) + Len(p)) :
             both[n] = IF n <= Len(q) THEN q[n] ELSE p[n - Len(q)]
    BY ConcatProperties, LenProperties
<1> HIDE DEF both
<1>2. Times(both, i) = Cardinality(Spots(both, i, Len(q)))
                           + Times(SubSeq(both, Len(q) + 1, Len(both)), i)
  <2>1. Len(q) \in 0..Len(both)
      BY <1>1
  <2>2. QED
      BY <1>1, <2>1, TimesSplit
<1>3. Spots(both, i, Len(q)) = Spots(q, i, Len(q))
    BY <1>1 DEF Spots
<1>4. SubSeq(both, Len(q) + 1, Len(both)) = p
  <2> DEFINE part == SubSeq(both, Len(q) + 1, Len(both))
  <2>1. \A n \in (Len(q) + 1)..Len(both) : both[n] \in X
      BY <1>1, ElementOfSeq
  <2>2. /\ part \in Seq(X)
        /\ Len(part) = IF Len(q) + 1 <= Len(both) THEN Len(both) - (Len(q) + 1) + 1 ELSE 0
        /\ \A n \in 1..(Len(both) - (Len(q) + 1) + 1) : part[n] = both[Len(q) + 1 + n - 1]
      BY <1>1, <2>1, SubSeqProperties
  <2> HIDE DEF part
  <2>3. Len(both) - (Len(q) + 1) + 1 = Len(p) /\ Len(part) = Len(p)
      BY <1>1, <2>2
  <2>a. ASSUME NEW n \in 1..Len(part) PROVE part[n] = p[n]
    <3>1. part[n] = both[Len(q) + n]
        BY <1>1, <2>2, <2>3
    <3>2. Len(q) + n \in 1..(Len(q) + Len(p)) /\ ~ (Len(q) + n <= Len(q))
        BY <1>1, <2>3
    <3>3. both[Len(q) + n] = p[(Len(q) + n) - Len(q)]
        BY <1>1, <3>2
    <3>4. QED
        BY <1>1, <3>1, <3>3
  <2>4. part = p
      BY <2>2, <2>3, <2>a, SeqEqual
  <2>5. QED
      BY <2>4 DEF part
<1>5. QED
    BY <1>2, <1>3, <1>4 DEF Times, both

LEMMA TimesEmpty ==
    ASSUME NEW i
    PROVE  Times(<<>>, i) = 0
BY SpotsFinite, EmptySeq DEF Times

\* A list of elements of X has nothing else.
LEMMA TimesNone ==
    ASSUME NEW X, NEW q \in Seq(X), NEW x
    PROVE  Times(q, x) \in Nat /\ (x \notin X => Times(q, x) = 0)
<1>1. Len(q) \in Nat /\ \A n \in 1..Len(q) : q[n] \in X
    BY LenProperties, ElementOfSeq
<1>2. /\ Cardinality(Spots(q, x, Len(q))) \in Nat
      /\ Cardinality(Spots(q, x, Len(q))) = 0 <=> \A n \in 1..Len(q) : q[n] # x
    BY <1>1, SpotsFinite
<1>3. QED
    BY <1>1, <1>2 DEF Times

\* A list without repetitions has an item once at most.
LEMMA TimesOnce ==
    ASSUME NEW q, NEW i, NEW m \in Nat, NEW p \in 1..m,
           \A n \in 1..m : q[n] = i => n = p
    PROVE  Cardinality(Spots(q, i, m)) <= 1
<1>1. Spots(q, i, m) \in SUBSET {p}
    BY DEF Spots
<1>2. IsFiniteSet({p}) /\ Cardinality({p}) = 1
    BY FS_Singleton
<1>3. Cardinality(Spots(q, i, m)) <= Cardinality({p})
    BY <1>1, <1>2, FS_Subset
<1>4. QED
    BY <1>2, <1>3

LEMMA TimesAppend ==
    ASSUME NEW X, NEW q \in Seq(X), NEW x \in X, NEW i
    PROVE  Times(Append(q, x), i) = Times(q, i) + (IF x = i THEN 1 ELSE 0)
<1> DEFINE more == Append(q, x)
<1>1. /\ Len(q) \in Nat /\ Len(more) = Len(q) + 1
      /\ more[Len(q) + 1] = x /\ \A n \in 1..Len(q) : more[n] = q[n]
    OBVIOUS
<1> HIDE DEF more
<1>2. Spots(more, i, Len(q)) = Spots(q, i, Len(q))
    BY <1>1 DEF Spots
<1>3. Cardinality(Spots(more, i, Len(q) + 1)) =
          Cardinality(Spots(more, i, Len(q))) + (IF more[Len(q) + 1] = i THEN 1 ELSE 0)
    BY <1>1, SpotsStep
<1>4. QED
    BY <1>1, <1>2, <1>3 DEF Times, more

LEMMA TimesSingle ==
    ASSUME NEW y, NEW x
    PROVE  Times(<<y>>, x) = IF x = y THEN 1 ELSE 0
<1> DEFINE none == <<>>
<1>1. none \in Seq({y}) /\ y \in {y} /\ <<y>> = Append(none, y)
    OBVIOUS
<1> HIDE DEF none
<1>2. Times(Append(none, y), x) = Times(none, x) + (IF y = x THEN 1 ELSE 0)
    BY <1>1, TimesAppend
<1>3. Times(none, x) = 0
    BY TimesEmpty DEF none
<1>4. Times(Append(none, y), x) = IF y = x THEN 1 ELSE 0
    BY <1>2, <1>3
<1> DEFINE one == Append(none, y)
<1>5. <<y>> = one /\ Times(one, x) = IF y = x THEN 1 ELSE 0
    BY <1>1, <1>4
<1> HIDE DEF one
<1>6. Times(<<y>>, x) = IF y = x THEN 1 ELSE 0
    BY <1>5, Zenon
<1>7. QED
    BY <1>6

\* Among keeps every occurrence of an element of T, and no other.
LEMMA AmongIs ==
    ASSUME NEW X, NEW q \in Seq(X), NEW T
    PROVE  /\ Among(q, T) \in Seq(X) /\ Among(q, T) \in Seq(X \cap T)
           /\ \A x : Times(Among(q, T), x) = IF x \in T THEN Times(q, x) ELSE 0
<1> DEFINE N == Len(q)
           Body(f, n) == IF n = 0 THEN <<>>
                         ELSE IF q[n] \in T THEN Append(f[n - 1], q[n])
                         ELSE f[n - 1]
           Is(f, m) == f = [n \in 0..m |-> Body(f, n)]
           S == {m \in 0..N : \E f : Is(f, m)}
           new == CHOOSE f : Is(f, N)
<1>1. N \in Nat /\ \A n \in 1..N : q[n] \in X
    BY LenProperties, ElementOfSeq
<1>2. 0 \in S
  <2> DEFINE f == [n \in 0..0 |-> <<>>]
  <2>1. f = [n \in 0..0 |-> Body(f, n)]
      OBVIOUS
  <2>2. Is(f, 0)
      BY <2>1
  <2>3. 0 \in 0..N
      BY <1>1
  <2> HIDE DEF Is, f
  <2>4. QED
      BY <2>2, <2>3
<1>3. ASSUME NEW m \in 1..N, m - 1 \in S PROVE m \in S
  <2>1. PICK f : Is(f, m - 1)
      BY <1>3
  <2> DEFINE g == [n \in 0..m |-> IF n < m THEN f[n] ELSE Body(f, m)]
  <2>2. ASSUME NEW n \in 0..m PROVE g[n] = Body(g, n)
    <3>1. CASE n = 0
        BY <1>1, <1>3, <2>1, <3>1
    <3>2. CASE n # 0 /\ n < m
      <4>1. n \in 0..(m - 1) /\ n - 1 \in 0..m /\ n - 1 < m
          BY <1>1, <1>3, <3>2
      <4>2. g[n] = f[n] /\ g[n - 1] = f[n - 1]
          BY <3>2, <4>1
      <4>3. f[n] = Body(f, n)
          BY <2>1, <4>1
      <4>4. QED
          BY <3>2, <4>2, <4>3
    <3>3. CASE n = m
      <4>1. m # 0 /\ m - 1 \in 0..m /\ m - 1 < m
          BY <1>1, <1>3
      <4>2. g[n] = Body(f, m) /\ g[m - 1] = f[m - 1]
          BY <3>3, <4>1
      <4>3. QED
          BY <3>3, <4>1, <4>2
    <3>4. QED
        BY <1>1, <1>3, <3>1, <3>2, <3>3
  <2>3. Is(g, m)
    <3>1. g = [n \in 0..m |-> g[n]]
        OBVIOUS
    <3> HIDE DEF g, Body
    <3>2. [n \in 0..m |-> g[n]] = [n \in 0..m |-> Body(g, n)]
        BY <2>2
    <3>3. QED
        BY <3>1, <3>2
  <2>4. m \in 0..N
      BY <1>1, <1>3
  <2> HIDE DEF Is, g
  <2>5. QED
      BY <2>3, <2>4
<1>4. Is(new, N)
  <2>1. N \in S
    <3> HIDE DEF S, N
    <3>1. 0..N \subseteq S
        BY <1>1, <1>2, <1>3, UpTo
    <3>2. QED
        BY <1>1, <3>1
  <2>2. \E f : Is(f, N)
      BY <2>1
  <2> HIDE DEF Is
  <2>3. QED
      BY <2>2
<1>5. Among(q, T) = new[N]
    BY DEF Among
<1> DEFINE U == {m \in 0..N : /\ new[m] \in Seq(X \cap T)
                              /\ \A x : Times(new[m], x) =
                                     IF x \in T THEN Cardinality(Spots(q, x, m)) ELSE 0}
<1> HIDE DEF new
<1>6. 0 \in U
  <2>1. new[0] = <<>>
      BY <1>1, <1>4
  <2>2. \A x : Spots(q, x, 0) = {}
      BY DEF Spots
  <2>3. Cardinality({}) = 0
      BY FS_EmptySet
  <2>4. \A x : Times(new[0], x) = 0 /\ Cardinality(Spots(q, x, 0)) = 0
      BY <2>1, <2>2, <2>3, TimesEmpty
  <2>5. new[0] \in Seq(X \cap T) /\ 0 \in 0..N
      BY <1>1, <2>1
  <2>6. QED
      BY <2>4, <2>5
<1>7. ASSUME NEW m \in 1..N, m - 1 \in U PROVE m \in U
  <2>1. m \in 0..N /\ m # 0 /\ m - 1 \in Nat /\ (m - 1) + 1 = m /\ q[m] \in X
      BY <1>1, <1>7
  <2>2. new[m] = Body(new, m)
      BY <1>4, <2>1
  <2>3. /\ new[m - 1] \in Seq(X \cap T)
        /\ \A x : Times(new[m - 1], x) =
               IF x \in T THEN Cardinality(Spots(q, x, m - 1)) ELSE 0
      BY <1>7
  <2>4. \A x : /\ Cardinality(Spots(q, x, m - 1)) \in Nat
               /\ Cardinality(Spots(q, x, m)) =
                              Cardinality(Spots(q, x, m - 1)) + (IF q[m] = x THEN 1 ELSE 0)
    <3> TAKE x
    <3>1. Cardinality(Spots(q, x, (m - 1) + 1)) =
              Cardinality(Spots(q, x, m - 1)) + (IF q[(m - 1) + 1] = x THEN 1 ELSE 0)
        BY <2>1, SpotsStep
    <3>2. QED
        BY <2>1, <3>1, SpotsFinite
  <2>5. CASE q[m] \in T
    <3>1. new[m] = Append(new[m - 1], q[m])
        BY <2>1, <2>2, <2>5
    <3>a. PICK p \in Seq(X \cap T), y \in X \cap T : p = new[m - 1] /\ y = q[m]
        BY <2>1, <2>3, <2>5
    <3>b. Append(p, y) \in Seq(X \cap T)
        OBVIOUS
    <3>2. new[m] \in Seq(X \cap T)
        BY <3>1, <3>a, <3>b
    <3>c. \A x : Times(Append(p, y), x) = Times(p, x) + (IF y = x THEN 1 ELSE 0)
      <4> TAKE x
      <4>1. QED
          BY TimesAppend
    <3>3. \A x : Times(new[m], x) = Times(new[m - 1], x) + (IF q[m] = x THEN 1 ELSE 0)
        BY <3>1, <3>a, <3>c
    <3>4. \A x : Times(new[m], x) =
              IF x \in T THEN Cardinality(Spots(q, x, m)) ELSE 0
        BY <2>3, <2>4, <2>5, <3>3
    <3>5. QED
        BY <2>1, <3>2, <3>4
  <2>6. CASE q[m] \notin T
    <3>1. new[m] = new[m - 1]
        BY <2>1, <2>2, <2>6
    <3>2. \A x : Times(new[m], x) =
              IF x \in T THEN Cardinality(Spots(q, x, m)) ELSE 0
        BY <2>3, <2>4, <2>6, <3>1
    <3>3. QED
        BY <2>1, <2>3, <3>1, <3>2
  <2>7. QED
      BY <2>5, <2>6
<1>8. N \in U
  <2> HIDE DEF U, N
  <2>1. 0..N \subseteq U
      BY <1>1, <1>6, <1>7, UpTo
  <2>2. QED
      BY <1>1, <2>1
<1>9. Seq(X \cap T) \subseteq Seq(X)
    OBVIOUS
<1>10. QED
    BY <1>5, <1>8, <1>9 DEF Times
===============================================================================
