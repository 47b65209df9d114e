---------------------------- MODULE Matching_proofs ----------------------------
(***************************************************************************)
(* What the graph promises of its candidates and of their verdicts, for    *)
(* all documents, all answers of the index and of the LLM, and whatever    *)
(* the numbers at which answers and candidates are cut off.                *)
(***************************************************************************)
EXTENDS Matching, Lists_proofs

(***************************************************************************)
(* Lists of candidates                                                     *)
(***************************************************************************)
Cand == [item : Items, score : Nat]

\* Candidates by their scores: the same ones, the better ones first.
LEMMA ByScoreList ==
    ASSUME NEW s \in Seq(Cand)
    PROVE  /\ ByScore(s) \in Seq(Cand) /\ Len(ByScore(s)) = Len(s) /\ Len(s) \in Nat
           /\ \A k \in 1..Len(s) : \E n \in 1..Len(s) : ByScore(s)[k] = s[n]
           /\ \A n \in 1..Len(s) : \E k \in 1..Len(s) : ByScore(s)[k] = s[n]
           /\ \A k, l \in 1..Len(s) : k < l => ByScore(s)[k].score >= ByScore(s)[l].score
           /\ Distinct(s) => Distinct(ByScore(s))
           /\ \A k \in 1..Len(s) :
                 LET above == {n \in 1..Len(s) : s[n].score > ByScore(s)[k].score}
                 IN  IsFiniteSet(above) /\ Cardinality(above) \in Nat /\ Cardinality(above) < k
<1> DEFINE N == Len(s)
           key == [n \in 1..N |-> s[n].score]
<1>1. N \in Nat /\ DOMAIN s = 1..N /\ \A n \in 1..N : s[n] \in Cand
    BY LenProperties, ElementOfSeq
<1>2. ByScore(s) = Sorted(s, key)
    BY <1>1 DEF ByScore
<1>3. \A n \in 1..N : key[n] \in Nat /\ s[n].score = key[n]
    BY <1>1 DEF Cand
<1>4. key \in [1..N -> Int]
    BY <1>3
<1> HIDE DEF key
<1>5. /\ ByScore(s) \in Seq(Cand) /\ Len(ByScore(s)) = N
      /\ \A k \in 1..N : ByScore(s)[k] = s[Place(key, k)]
    BY <1>2, <1>4, SortedList
<1> HIDE DEF N
<1>6. /\ \A k \in 1..N : /\ Place(key, k) \in 1..N
                         /\ 1 + Cardinality(Preceding(key, Place(key, k))) = k
      /\ \A n \in 1..N : \E k \in 1..N : Place(key, k) = n
      /\ \A k, l \in 1..N : k < l => Place(key, k) \in Preceding(key, Place(key, l))
    BY <1>1, <1>4, Places
<1>7. ASSUME NEW k \in 1..N, NEW l \in 1..N, k < l
      PROVE  ByScore(s)[k].score >= ByScore(s)[l].score
  <2>1. Place(key, k) \in Preceding(key, Place(key, l))
      BY <1>6, <1>7
  <2>2. key[Place(key, k)] >= key[Place(key, l)]
    <3>1. key[Place(key, k)] \in Int /\ key[Place(key, l)] \in Int
        BY <1>4, <1>6
    <3>2. QED
        BY <2>1, <3>1 DEF Preceding
  <2>3. QED
      BY <1>3, <1>5, <1>6, <2>2
<1>8. ASSUME Distinct(s) PROVE Distinct(ByScore(s))
  <2>1. DOMAIN ByScore(s) = 1..N
      BY <1>5, LenProperties
  <2> SUFFICES ASSUME NEW k \in 1..N, NEW l \in 1..N, ByScore(s)[k].item = ByScore(s)[l].item
               PROVE  k = l
      BY <2>1 DEF Distinct
  <2>2. Place(key, k) = Place(key, l)
      BY <1>1, <1>5, <1>6, <1>8 DEF Distinct
  <2>3. k = 1 + Cardinality(Preceding(key, Place(key, k))) /\ l = 1 + Cardinality(Preceding(key, Place(key, l)))
      BY <1>6
  <2>4. QED
      BY <2>2, <2>3
<1>9. ASSUME NEW k \in 1..N
      PROVE  LET above == {n \in 1..N : s[n].score > ByScore(s)[k].score}
             IN  IsFiniteSet(above) /\ Cardinality(above) \in Nat /\ Cardinality(above) < k
  <2> DEFINE above == {n \in 1..N : s[n].score > ByScore(s)[k].score}
             p == Place(key, k)
  <2>1. p \in 1..N /\ 1 + Cardinality(Preceding(key, p)) = k /\ ByScore(s)[k].score = key[p]
      BY <1>3, <1>5, <1>6
  <2> HIDE DEF p
  <2>2. above \subseteq Preceding(key, p)
      BY <1>3, <1>4, <2>1 DEF Preceding
  <2> HIDE DEF above
  <2>3. IsFiniteSet(Preceding(key, p)) /\ Cardinality(Preceding(key, p)) \in Nat
      BY <1>1, <1>4, <2>1, PrecedingBounds
  <2>4. IsFiniteSet(above) /\ Cardinality(above) <= Cardinality(Preceding(key, p))
      BY <2>2, <2>3, FS_Subset
  <2>5. Cardinality(above) \in Nat
      BY <2>4, FS_CardinalityType
  <2>6. Cardinality(above) < k
      BY <2>1, <2>3, <2>4, <2>5
  <2>7. QED
      BY <2>4, <2>5, <2>6 DEF above
<1>10. \A k \in 1..N : \E n \in 1..N : ByScore(s)[k] = s[n]
    BY <1>5, <1>6
<1>11. \A n \in 1..N : \E k \in 1..N : ByScore(s)[k] = s[n]
    BY <1>5, <1>6
<1>12. QED
    BY <1>1, <1>5, <1>7, <1>8, <1>9, <1>10, <1>11 DEF N

(***************************************************************************)
(* Merging                                                                 *)
(***************************************************************************)
\* What candidates ms become when hs are merged in: places stay, scores grow, every hit is
\* among them with no lower score, and whatever is there was there or is one of the hits.
Merged(r, ms, hs) ==
    /\ r \in Seq(Cand) /\ Distinct(r) /\ Len(ms) <= Len(r)
    /\ \A k \in 1..Len(ms) : r[k].item = ms[k].item /\ r[k].score >= ms[k].score
    /\ \A h \in hs : \E k \in 1..Len(r) : r[k].item = h.item /\ r[k].score >= h.score
    /\ \A k \in 1..Len(r) : (k <= Len(ms) /\ r[k] = ms[k]) \/ r[k] \in hs

LEMMA MergeOne ==
    ASSUME NEW ms \in Seq(Cand), Distinct(ms), NEW h \in Cand
    PROVE  Merged(Merge(ms, h), ms, {h})
<1> DEFINE N == Len(ms)
           r == Merge(ms, h)
<1>1. N \in Nat /\ DOMAIN ms = 1..N /\ \A n \in 1..N : ms[n] \in Cand
    BY LenProperties, ElementOfSeq
<1>2. \A n \in 1..N : ms[n].score \in Nat /\ ms[n].item \in Items
    BY <1>1 DEF Cand
<1>3. h.score \in Nat /\ h.item \in Items
    BY DEF Cand
<1>4. CASE \E n \in 1..N : ms[n].item = h.item
  <2>1. PICK p \in 1..N : ms[p].item = h.item
      BY <1>4
  <2>2. r = [n \in 1..N |-> IF ms[n].item = h.item /\ h.score > ms[n].score THEN h ELSE ms[n]]
      BY <1>1, <1>4 DEF Merge
  <2>3. r \in [1..N -> Cand]
      BY <1>1, <2>2
  <2>4. r \in Seq(Cand)
      BY <1>1, <2>3
  <2>5. Len(r) = N
      BY <1>1, <2>3, <2>4, LenProperties
  <2>6. \A n \in 1..N : /\ r[n].item = ms[n].item /\ r[n].score >= ms[n].score
                        /\ r[n] = ms[n] \/ r[n] = h
      BY <1>2, <1>3, <2>2
  <2>7. r[p].item = h.item /\ r[p].score >= h.score
      BY <1>2, <1>3, <2>1, <2>2
  <2> HIDE DEF r, N
  <2>8. Distinct(r)
    <3>1. DOMAIN r = 1..N
        BY <2>3
    <3>2. QED
        BY <1>1, <2>6, <3>1 DEF Distinct
  <2>9. \A n \in 1..N : n <= N
      BY <1>1
  <2>10. Merged(r, ms, {h})
      BY <1>1, <2>1, <2>4, <2>5, <2>6, <2>7, <2>8, <2>9 DEF Merged, N
  <2>11. QED
      BY <2>10 DEF r
<1>5. CASE ~ \E n \in 1..N : ms[n].item = h.item
  <2>1. r = Append(ms, h)
      BY <1>1, <1>5 DEF Merge
  <2>2. /\ r \in Seq(Cand) /\ Len(r) = N + 1 /\ r[N + 1] = h
        /\ \A n \in 1..N : r[n] = ms[n]
      BY <2>1, AppendProperties
  <2>3. DOMAIN r = 1..(N + 1)
      BY <2>2, LenProperties
  <2>4. N + 1 \in 1..(N + 1) /\ \A n \in 1..(N + 1) : n \in 1..N \/ n = N + 1
      BY <1>1
  <2> HIDE DEF r, N
  <2>5. Distinct(r)
      BY <1>1, <1>5, <2>2, <2>3, <2>4 DEF Distinct
  <2>6. \A n \in 1..N : n <= N /\ ms[n].score >= ms[n].score
      BY <1>1, <1>2
  <2>7. h.score >= h.score /\ N <= N + 1
      BY <1>1, <1>3
  <2>8. Merged(r, ms, {h})
      BY <1>1, <2>2, <2>4, <2>5, <2>6, <2>7 DEF Merged, N
  <2>9. QED
      BY <2>8 DEF r
<1>6. QED
    BY <1>4, <1>5

\* One after the other.
LEMMA MergedMore ==
    ASSUME NEW ms \in Seq(Cand), NEW hs \in SUBSET Cand, NEW r, Merged(r, ms, hs),
           NEW h \in Cand
    PROVE  Merged(Merge(r, h), ms, hs \cup {h})
<1> DEFINE q == Merge(r, h)
<1>1. r \in Seq(Cand) /\ Distinct(r)
    BY DEF Merged
<1>2. Merged(q, r, {h})
    BY <1>1, MergeOne
<1> HIDE DEF q
<1>3. q \in Seq(Cand)
    BY <1>2 DEF Merged
<1>4. /\ Len(ms) \in Nat /\ \A n \in 1..Len(ms) : ms[n] \in Cand
      /\ Len(r) \in Nat /\ \A n \in 1..Len(r) : r[n] \in Cand
      /\ Len(q) \in Nat /\ \A n \in 1..Len(q) : q[n] \in Cand
    BY <1>1, <1>3, LenProperties, ElementOfSeq
<1>5. /\ \A n \in 1..Len(ms) : ms[n].score \in Nat
      /\ \A n \in 1..Len(r) : r[n].score \in Nat
      /\ \A n \in 1..Len(q) : q[n].score \in Nat
      /\ \A g \in hs : g.score \in Nat
    BY <1>4 DEF Cand
<1>6. Len(ms) <= Len(r) /\ Len(r) <= Len(q) /\ Len(ms) <= Len(q)
    BY <1>2, <1>4 DEF Merged
<1>7. ASSUME NEW k \in 1..Len(ms) PROVE q[k].item = ms[k].item /\ q[k].score >= ms[k].score
  <2>1. k \in 1..Len(r) /\ k \in 1..Len(q)
      BY <1>4, <1>6
  <2>2. /\ r[k].item = ms[k].item /\ r[k].score >= ms[k].score
        /\ q[k].item = r[k].item /\ q[k].score >= r[k].score
      BY <1>2, <2>1 DEF Merged
  <2>3. QED
      BY <1>5, <2>1, <2>2
<1>8. ASSUME NEW g \in hs PROVE \E k \in 1..Len(q) : q[k].item = g.item /\ q[k].score >= g.score
  <2>1. PICK k \in 1..Len(r) : r[k].item = g.item /\ r[k].score >= g.score
      BY DEF Merged
  <2>2. k \in 1..Len(q)
      BY <1>4, <1>6
  <2>3. q[k].item = r[k].item /\ q[k].score >= r[k].score
      BY <1>2 DEF Merged
  <2>4. q[k].score >= g.score
      BY <1>5, <2>1, <2>2, <2>3
  <2>5. QED
      BY <2>1, <2>2, <2>3, <2>4
<1>9. ASSUME NEW k \in 1..Len(q)
      PROVE  (k <= Len(ms) /\ q[k] = ms[k]) \/ q[k] \in hs \cup {h}
  <2>1. CASE q[k] = h
      BY <2>1
  <2>2. CASE k <= Len(r) /\ q[k] = r[k]
    <3>1. k \in 1..Len(r)
        BY <1>4, <2>2
    <3>2. QED
        BY <2>2, <3>1 DEF Merged
  <2>3. QED
      BY <1>2, <2>1, <2>2 DEF Merged
<1>10. \E k \in 1..Len(q) : q[k].item = h.item /\ q[k].score >= h.score
    BY <1>2 DEF Merged
<1>11. Merged(q, ms, hs \cup {h})
    BY <1>2, <1>3, <1>6, <1>7, <1>8, <1>9, <1>10 DEF Merged
<1>12. QED
    BY <1>11 DEF q

\* All hits of an answer.
LEMMA MergeAllMerges ==
    ASSUME NEW ms \in Seq(Cand), Distinct(ms), NEW hs \in Seq(Cand)
    PROVE  Merged(MergeAll(ms, hs), ms, {hs[n] : n \in 1..Len(hs)})
<1> DEFINE N == Len(hs)
           Body(f, n) == IF n = 0 THEN ms ELSE Merge(f[n - 1], hs[n])
           Is(f, m) == f = [n \in 0..m |-> Body(f, n)]
           S == {m \in 0..N : \E f : Is(f, m)}
           upTo == CHOOSE f : Is(f, N)
<1>1. N \in Nat /\ \A n \in 1..N : hs[n] \in Cand
    BY LenProperties, ElementOfSeq
<1>2. 0 \in S
  <2> DEFINE f == [n \in 0..0 |-> ms]
  <2>1. f = [n \in 0..0 |-> Body(f, n)]
      OBVIOUS
  <2>2. Is(f, 0)
      BY <2>1
  <2>3. 0 \in 0..N
      BY <1>1
  <2> HIDE DEF Is, f
  <2>4. QED
      BY <2>2, <2>3
<1>3. ASSUME NEW m \in 1..N, m - 1 \in S PROVE m \in S
  <2>1. PICK f : Is(f, m - 1)
      BY <1>3
  <2> DEFINE g == [n \in 0..m |-> IF n < m THEN f[n] ELSE Body(f, m)]
  <2>2. ASSUME NEW n \in 0..m PROVE g[n] = Body(g, n)
    <3>1. CASE n = 0
        BY <1>1, <1>3, <2>1, <3>1
    <3>2. CASE n # 0 /\ n < m
      <4>1. n \in 0..(m - 1) /\ n - 1 \in 0..m /\ n - 1 < m
          BY <1>1, <1>3, <3>2
      <4>2. g[n] = f[n] /\ g[n - 1] = f[n - 1]
          BY <3>2, <4>1
      <4>3. f[n] = Body(f, n)
          BY <2>1, <4>1
      <4>4. QED
          BY <3>2, <4>2, <4>3
    <3>3. CASE n = m
      <4>1. m # 0 /\ m - 1 \in 0..m /\ m - 1 < m
          BY <1>1, <1>3
      <4>2. g[n] = Body(f, m) /\ g[m - 1] = f[m - 1]
          BY <3>3, <4>1
      <4>3. QED
          BY <3>3, <4>1, <4>2
    <3>4. QED
        BY <1>1, <1>3, <3>1, <3>2, <3>3
  <2>3. Is(g, m)
    <3>1. g = [n \in 0..m |-> g[n]]
        OBVIOUS
    <3> HIDE DEF g, Body
    <3>2. [n \in 0..m |-> g[n]] = [n \in 0..m |-> Body(g, n)]
        BY <2>2
    <3>3. QED
        BY <3>1, <3>2
  <2>4. m \in 0..N
      BY <1>1, <1>3
  <2> HIDE DEF Is, g
  <2>5. QED
      BY <2>3, <2>4
<1>4. Is(upTo, N)
  <2>1. N \in S
    <3> HIDE DEF S, N
    <3>1. 0..N \subseteq S
        BY <1>1, <1>2, <1>3, UpTo
    <3>2. QED
        BY <1>1, <3>1
  <2>2. \E f : Is(f, N)
      BY <2>1
  <2> HIDE DEF Is
  <2>3. QED
      BY <2>2
<1>5. MergeAll(ms, hs) = upTo[N]
    BY DEF MergeAll
<1>6. upTo[0] = ms /\ \A n \in 1..N : upTo[n] = Merge(upTo[n - 1], hs[n])
  <2>1. \A n \in 0..N : upTo[n] = Body(upTo, n)
    <3> HIDE DEF Body, upTo
    <3>1. QED
        BY <1>4
  <2>2. 0 \in 0..N /\ \A n \in 1..N : n \in 0..N /\ n # 0
      BY <1>1
  <2> HIDE DEF upTo
  <2>3. QED
      BY <2>1, <2>2
<1> HIDE DEF upTo, S, Is, Body
<1> DEFINE Hits(n) == {hs[k] : k \in 1..n}
           T == {n \in 0..N : Merged(upTo[n], ms, Hits(n))}
<1>7. 0 \in T
  <2>1. Hits(0) = {}
      OBVIOUS
  <2>2. Len(ms) \in Nat /\ \A n \in 1..Len(ms) : ms[n] \in Cand
      BY LenProperties, ElementOfSeq
  <2>3. \A n \in 1..Len(ms) : ms[n].score >= ms[n].score /\ n <= Len(ms)
      BY <2>2 DEF Cand
  <2>4. Merged(ms, ms, {})
      BY <2>2, <2>3 DEF Merged
  <2>5. 0 \in 0..N
      BY <1>1
  <2> HIDE DEF Hits
  <2>6. Merged(upTo[0], ms, Hits(0))
      BY <1>6, <2>1, <2>4
  <2>7. QED
      BY <2>5, <2>6
<1>8. ASSUME NEW n \in 1..N, n - 1 \in T PROVE n \in T
  <2>1. Merged(upTo[n - 1], ms, Hits(n - 1)) /\ hs[n] \in Cand
      BY <1>1, <1>8
  <2>2. Hits(n - 1) \in SUBSET Cand
    <3>1. \A k \in 1..(n - 1) : k \in 1..N
        BY <1>1, <1>8
    <3>2. QED
        BY <1>1, <3>1
  <2>3. Hits(n) = Hits(n - 1) \cup {hs[n]}
    <3>1. 1..n = 1..(n - 1) \cup {n}
        BY <1>1, <1>8
    <3>2. QED
        BY <3>1
  <2> HIDE DEF Hits
  <2>4. Merged(upTo[n], ms, Hits(n))
      BY <1>6, <2>1, <2>2, <2>3, MergedMore
  <2>5. QED
      BY <1>1, <1>8, <2>4
<1>9. N \in T
  <2> HIDE DEF T, N
  <2>1. 0..N \subseteq T
      BY <1>1, <1>7, <1>8, UpTo
  <2>2. QED
      BY <1>1, <2>1
<1>10. QED
    BY <1>5, <1>9

(***************************************************************************)
(* The answer to a query                                                   *)
(***************************************************************************)
\* Scores of some documents.
Heard == UNION {[docs -> Nat] : docs \in SUBSET Items}

LEMMA HeardIs ==
    ASSUME NEW h \in Heard
    PROVE  DOMAIN h \subseteq Items /\ \A i \in DOMAIN h : h[i] \in Nat
BY DEF Heard

\* What is known of the hits f that search makes of the scores b: whatever scores higher than
\* a hit is a hit too, and what is none has a full number of hits before it.
Answer(f, b) ==
    /\ f \in Seq(Cand) /\ Distinct(f)
    /\ \A k \in 1..Len(f) : f[k].item \in DOMAIN b /\ f[k].score = b[f[k].item]
    /\ \A k \in 1..Len(f) : \A i \in DOMAIN b :
           b[i] > f[k].score => \E l \in 1..Len(f) : f[l].item = i
    /\ \A i \in DOMAIN b :
           \/ \E l \in 1..Len(f) : f[l].item = i
           \/ Len(f) = PerQuery /\ \A l \in 1..Len(f) : f[l].score >= b[i]

LEMMA BoostedType ==
    ASSUME NEW docs \in SUBSET Items, NEW base \in [docs -> Scores]
    PROVE  Boosted(base) \in [docs -> Nat] /\ Boosted(base) \in Heard
<1>1. Scores \subseteq Nat /\ Bonus \in Nat
    BY MatchingAssumption
<1>2. ASSUME NEW i \in docs
      PROVE  base[i] \in Nat /\ base[i] + Bonus \in Nat /\ base[i] + 0 \in Nat
  <2>1. base[i] \in Scores
      OBVIOUS
  <2>2. base[i] \in Nat
      BY <1>1, <2>1
  <2>3. QED
      BY <1>1, <2>2
<1>3. \A i \in docs : base[i] + (IF i \in region THEN Bonus ELSE 0) \in Nat
    BY <1>2
<1>4. Boosted(base) \in [docs -> Nat]
    BY <1>3 DEF Boosted
<1>5. QED
    BY <1>4 DEF Heard

LEMMA FoundIsAnswer ==
    ASSUME NEW docs \in SUBSET Items, NEW base \in [docs -> Scores], NEW order \in SetToSeqs(docs)
    PROVE  Answer(Found(base, order), Boosted(base))
<1> DEFINE N == Cardinality(docs)
           b == Boosted(base)
           s == Scored(base, order)
           t == ByScore(s)
           f == First(t, PerQuery)
<1>1. N \in Nat /\ IsFiniteSet(docs) /\ PerQuery \in Nat
    BY MatchingAssumption, FS_Subset, FS_CardinalityType
<1>2. order \in [1..N -> docs] /\ \A m, n \in 1..N : m # n => order[m] # order[n]
    BY DEF SetToSeqs
<1>3. \A i \in docs : \E n \in 1..N : order[n] = i
  <2>1. order \in Injection(1..N, docs)
      BY <1>2 DEF Injection, IsInjective
  <2>2. Cardinality(1..N) = N
      BY <1>1, FS_Interval
  <2>3. order \in Surjection(1..N, docs)
      BY <1>1, <2>1, <2>2, FS_Injection
  <2>4. QED
      BY <2>3 DEF Surjection
<1>4. b \in [docs -> Nat]
    BY BoostedType
<1>5. s = [n \in 1..N |-> [item |-> order[n], score |-> b[order[n]]]]
    BY <1>2 DEF Scored
<1> HIDE DEF N, b, s
<1>6. /\ s \in [1..N -> Cand]
      /\ \A n \in 1..N : s[n].item = order[n] /\ s[n].item \in docs /\ s[n].score = b[s[n].item]
    BY <1>2, <1>4, <1>5 DEF Cand
<1>7. s \in Seq(Cand)
    BY <1>1, <1>6
<1>8. Len(s) = N /\ DOMAIN s = 1..N
    BY <1>1, <1>6, <1>7, LenProperties
<1>9. Distinct(s)
    BY <1>2, <1>6, <1>8 DEF Distinct
<1>10. /\ t \in Seq(Cand) /\ Len(t) = N
       /\ \A k \in 1..N : \E n \in 1..N : t[k] = s[n]
       /\ \A n \in 1..N : \E k \in 1..N : t[k] = s[n]
       /\ \A k, l \in 1..N : k < l => t[k].score >= t[l].score
       /\ Distinct(t)
    BY <1>7, <1>8, <1>9, ByScoreList
<1> HIDE DEF t
<1>11. /\ f \in Seq(Cand) /\ Len(f) \in Nat /\ Len(f) <= PerQuery /\ Len(f) <= N
       /\ Len(f) < N => Len(f) = PerQuery
       /\ \A k \in 1..Len(f) : f[k] = t[k]
  <2>1. /\ First(t, PerQuery) \in Seq(Cand) /\ Len(First(t, PerQuery)) \in Nat
        /\ Len(First(t, PerQuery)) <= PerQuery /\ Len(First(t, PerQuery)) <= Len(t)
        /\ Len(First(t, PerQuery)) < Len(t) => Len(First(t, PerQuery)) = PerQuery
        /\ \A k \in 1..Len(First(t, PerQuery)) : First(t, PerQuery)[k] = t[k]
    <3>1. t \in Seq(Cand) /\ PerQuery \in Nat
        BY <1>1, <1>10
    <3>2. QED
        BY <3>1, FirstIs
  <2>2. QED
      BY <1>10, <2>1
<1> HIDE DEF f
<1>12. /\ DOMAIN t = 1..N /\ DOMAIN f = 1..Len(f)
       /\ \A k \in 1..Len(f) : k \in 1..N
       /\ \A k \in 1..N : t[k].score \in Nat
  <2>1. \A k \in 1..N : t[k] \in Cand
      BY <1>10, ElementOfSeq
  <2>2. DOMAIN t = 1..N /\ DOMAIN f = 1..Len(f)
      BY <1>10, <1>11, LenProperties
  <2>3. \A k \in 1..Len(f) : k \in 1..N
      BY <1>1, <1>11
  <2>4. QED
      BY <2>1, <2>2, <2>3 DEF Cand
<1>13. Distinct(f)
  <2> SUFFICES ASSUME NEW k \in 1..Len(f), NEW l \in 1..Len(f), f[k].item = f[l].item
               PROVE  k = l
      BY <1>12 DEF Distinct
  <2>1. k \in 1..N /\ l \in 1..N /\ t[k].item = t[l].item
      BY <1>11, <1>12
  <2>2. QED
      BY <1>10, <1>12, <2>1 DEF Distinct
<1>14. ASSUME NEW k \in 1..N PROVE t[k].item \in docs /\ t[k].score = b[t[k].item]
  <2>1. PICK n \in 1..N : t[k] = s[n]
      BY <1>10
  <2>2. QED
      BY <1>6, <2>1
<1>15. \A k \in 1..Len(f) : f[k].item \in docs /\ f[k].score = b[f[k].item]
    BY <1>11, <1>12, <1>14
<1>16. ASSUME NEW i \in docs PROVE \E l \in 1..N : t[l].item = i
  <2>1. PICK n \in 1..N : order[n] = i
      BY <1>3
  <2>2. PICK l \in 1..N : t[l] = s[n]
      BY <1>10
  <2>3. QED
      BY <1>6, <2>1, <2>2
<1>17. ASSUME NEW k \in 1..Len(f), NEW i \in docs, b[i] > f[k].score
       PROVE  \E l \in 1..Len(f) : f[l].item = i
  <2>1. PICK l \in 1..N : t[l].item = i
      BY <1>16
  <2>2. t[l].score = b[i] /\ f[k] = t[k] /\ k \in 1..N
      BY <1>11, <1>12, <1>14, <2>1
  <2>3. ~ (t[k].score >= t[l].score)
      BY <1>12, <1>17, <2>2
  <2>4. ~ (k < l)
      BY <1>10, <2>2, <2>3
  <2>5. l \in 1..Len(f)
      BY <1>1, <1>11, <2>2, <2>4
  <2>6. QED
      BY <1>11, <2>1, <2>5
<1>18. ASSUME NEW i \in docs
       PROVE  \/ \E l \in 1..Len(f) : f[l].item = i
              \/ Len(f) = PerQuery /\ \A l \in 1..Len(f) : f[l].score >= b[i]
  <2>1. PICK l \in 1..N : t[l].item = i
      BY <1>16
  <2>2. CASE l \in 1..Len(f)
      BY <1>11, <2>1, <2>2
  <2>3. CASE l \notin 1..Len(f)
    <3>1. Len(f) < l /\ Len(f) < N
        BY <1>1, <1>11, <2>3
    <3>2. ASSUME NEW k \in 1..Len(f) PROVE f[k].score >= b[i]
      <4>1. k < l /\ k \in 1..N
          BY <1>11, <1>12, <3>1
      <4>2. QED
          BY <1>10, <1>11, <1>14, <2>1, <4>1
    <3>3. QED
        BY <1>11, <3>1, <3>2
  <2>4. QED
      BY <2>2, <2>3
<1>19. Answer(f, b)
    BY <1>4, <1>11, <1>13, <1>15, <1>17, <1>18 DEF Answer
<1>20. Found(base, order) = f
    BY DEF Found, f, t, s
<1>21. QED
    BY <1>19, <1>20 DEF b

(***************************************************************************)
(* What the candidates are while the queries are searched                  *)
(***************************************************************************)
\* Item i is a candidate with a score not below that of the answer h, or the answer has a full
\* number of candidates before it.
Covers(ms, h, i) == \E l \in 1..Len(ms) : ms[l].item = i /\ ms[l].score >= h[i]

Full(ms, h, i) == Cardinality({l \in 1..Len(ms) : ms[l].score >= h[i]}) >= PerQuery

\* A candidate has its score from an answer, and whatever that answer scores higher is a
\* candidate with no lower score.
Stands(ms, hs, k) ==
    \E q \in 1..Len(hs) :
        /\ ms[k].item \in DOMAIN hs[q] /\ ms[k].score = hs[q][ms[k].item]
        /\ \A i \in DOMAIN hs[q] : hs[q][i] > ms[k].score => Covers(ms, hs[q], i)

Searched(ms, hs) ==
    /\ \A k \in 1..Len(ms) : Stands(ms, hs, k)
    /\ \A q \in 1..Len(hs) : \A i \in DOMAIN hs[q] : Covers(ms, hs[q], i) \/ Full(ms, hs[q], i)

LEMMA ScoresType ==
    ASSUME NEW ms \in Seq(Cand)
    PROVE  /\ Len(ms) \in Nat
           /\ \A k \in 1..Len(ms) : ms[k] \in Cand /\ ms[k].score \in Nat /\ ms[k].item \in Items
<1>1. Len(ms) \in Nat /\ \A k \in 1..Len(ms) : ms[k] \in Cand
    BY LenProperties, ElementOfSeq
<1>2. QED
    BY <1>1 DEF Cand

\* Merging takes nothing away.
LEMMA MergedCovers ==
    ASSUME NEW ms \in Seq(Cand), NEW hits0, NEW r, Merged(r, ms, hits0),
           NEW h \in Heard, NEW i \in DOMAIN h
    PROVE  /\ Covers(ms, h, i) => Covers(r, h, i)
           /\ Full(ms, h, i) => Full(r, h, i)
<1>1. r \in Seq(Cand)
    BY DEF Merged
<1>2. /\ Len(ms) \in Nat /\ \A k \in 1..Len(ms) : ms[k].score \in Nat
      /\ Len(r) \in Nat /\ \A k \in 1..Len(r) : r[k].score \in Nat
      /\ h[i] \in Nat
    BY <1>1, ScoresType, HeardIs
<1>3. ASSUME NEW k \in 1..Len(ms)
      PROVE  /\ k \in 1..Len(r) /\ r[k].item = ms[k].item
             /\ ms[k].score >= h[i] => r[k].score >= h[i]
  <2>1. Len(ms) <= Len(r) /\ r[k].item = ms[k].item /\ r[k].score >= ms[k].score
      BY DEF Merged
  <2>2. k \in 1..Len(r)
      BY <1>2, <2>1
  <2>3. QED
      BY <1>2, <2>1, <2>2
<1>4. ASSUME Covers(ms, h, i) PROVE Covers(r, h, i)
    BY <1>3, <1>4 DEF Covers
<1>5. ASSUME Full(ms, h, i) PROVE Full(r, h, i)
  <2> DEFINE S == {l \in 1..Len(ms) : ms[l].score >= h[i]}
             T == {l \in 1..Len(r) : r[l].score >= h[i]}
  <2>1. S \subseteq T /\ T \subseteq 1..Len(r)
      BY <1>3
  <2>2. Cardinality(S) >= PerQuery
      BY <1>5 DEF Full
  <2> HIDE DEF S, T
  <2>a. IsFiniteSet(1..Len(r))
      BY <1>2, FS_Interval
  <2>3. IsFiniteSet(T)
      BY <2>1, <2>a, FS_Subset
  <2>4. /\ IsFiniteSet(S) /\ Cardinality(S) <= Cardinality(T)
        /\ Cardinality(S) \in Nat /\ Cardinality(T) \in Nat
      BY <2>1, <2>3, FS_Subset, FS_CardinalityType
  <2>5. Cardinality(T) >= PerQuery
      BY <2>2, <2>4, MatchingAssumption
  <2>6. QED
      BY <2>5 DEF Full, T
<1>6. QED
    BY <1>4, <1>5

\* The hits of a full answer fill as many places.
LEMMA HitsFill ==
    ASSUME NEW ms \in Seq(Cand), NEW f \in Seq(Cand), Distinct(f), NEW r,
           Merged(r, ms, {f[n] : n \in 1..Len(f)}),
           NEW b \in Heard, NEW i \in DOMAIN b,
           Len(f) = PerQuery, \A n \in 1..Len(f) : f[n].score >= b[i]
    PROVE  Full(r, b, i)
<1>1. r \in Seq(Cand)
    BY DEF Merged
<1>2. /\ Len(f) \in Nat /\ \A k \in 1..Len(f) : f[k].score \in Nat
      /\ Len(r) \in Nat /\ \A k \in 1..Len(r) : r[k].score \in Nat
      /\ b[i] \in Nat
    BY <1>1, ScoresType, HeardIs
<1> DEFINE T == {l \in 1..Len(r) : r[l].score >= b[i]}
           At(n) == CHOOSE l \in 1..Len(r) : r[l].item = f[n].item /\ r[l].score >= f[n].score
           g == [n \in 1..Len(f) |-> At(n)]
<1>3. ASSUME NEW n \in 1..Len(f)
      PROVE  At(n) \in 1..Len(r) /\ r[At(n)].item = f[n].item /\ r[At(n)].score >= f[n].score
  <2>1. \E l \in 1..Len(r) : r[l].item = f[n].item /\ r[l].score >= f[n].score
      BY DEF Merged
  <2>2. QED
      BY <2>1
<1> HIDE DEF At
<1>4. ASSUME NEW n \in 1..Len(f) PROVE g[n] \in T /\ r[g[n]].item = f[n].item
  <2>1. r[At(n)].score >= b[i]
      BY <1>2, <1>3
  <2>2. QED
      BY <1>3, <2>1
<1>5. g \in [1..Len(f) -> T]
    BY <1>4
<1>6. DOMAIN f = 1..Len(f)
    BY LenProperties
<1>7. T \subseteq 1..Len(r)
    OBVIOUS
<1> HIDE DEF g, T
<1>8. g \in Injection(1..Len(f), T)
    BY <1>4, <1>5, <1>6 DEF Injection, IsInjective, Distinct
<1>9. IsFiniteSet(T) /\ Cardinality(T) \in Nat
  <2>1. IsFiniteSet(1..Len(r))
      BY <1>2, FS_Interval
  <2>2. IsFiniteSet(T)
      BY <1>7, <2>1, FS_Subset
  <2>3. QED
      BY <2>2, FS_CardinalityType
<1>10. Cardinality(1..Len(f)) <= Cardinality(T)
    BY <1>8, <1>9, FS_Injection
<1>11. Cardinality(1..Len(f)) = Len(f)
  <2>1. PICK N \in Nat : N = Len(f)
      BY LenProperties
  <2>2. Cardinality(1..N) = N
      BY <2>1, FS_Interval
  <2>3. QED
      BY <2>1, <2>2
<1>12. Cardinality(T) >= PerQuery
    BY <1>2, <1>9, <1>10, <1>11
<1>13. QED
    BY <1>12 DEF Full, T

\* One more query.
LEMMA SearchedMore ==
    ASSUME NEW ms \in Seq(Cand), NEW hs \in Seq(Heard), Searched(ms, hs),
           NEW b \in Heard, NEW f, Answer(f, b), NEW r,
           Merged(r, ms, {f[n] : n \in 1..Len(f)})
    PROVE  Searched(r, Append(hs, b))
<1> DEFINE gs == Append(hs, b)
<1>1. r \in Seq(Cand) /\ f \in Seq(Cand) /\ Distinct(f)
    BY DEF Merged, Answer
<1>2. /\ Len(hs) \in Nat /\ Len(gs) = Len(hs) + 1 /\ gs[Len(hs) + 1] = b
      /\ \A q \in 1..Len(hs) : gs[q] = hs[q]
      /\ \A q \in 1..Len(hs) : hs[q] \in Heard
    BY LenProperties, ElementOfSeq, AppendProperties
<1> HIDE DEF gs
<1>3. /\ \A q \in 1..Len(gs) : q \in 1..Len(hs) \/ q = Len(hs) + 1
      /\ \A q \in 1..Len(hs) : q \in 1..Len(gs)
      /\ Len(hs) + 1 \in 1..Len(gs)
    BY <1>2
<1>4. /\ Len(ms) \in Nat /\ \A k \in 1..Len(ms) : ms[k].score \in Nat
      /\ Len(r) \in Nat /\ \A k \in 1..Len(r) : r[k].score \in Nat /\ r[k].item \in Items
      /\ \A k \in 1..Len(f) : f[k].score \in Nat
    BY <1>1, ScoresType
\* A hit of the new answer is a candidate.
<1>5. ASSUME NEW i \in DOMAIN b, \E l \in 1..Len(f) : f[l].item = i PROVE Covers(r, b, i)
  <2>1. PICK l \in 1..Len(f) : f[l].item = i
      BY <1>5
  <2>2. f[l].score = b[i]
      BY <2>1 DEF Answer
  <2>3. \E k \in 1..Len(r) : r[k].item = f[l].item /\ r[k].score >= f[l].score
      BY DEF Merged
  <2>4. QED
      BY <2>1, <2>2, <2>3 DEF Covers
<1>6. ASSUME NEW k \in 1..Len(r) PROVE Stands(r, gs, k)
  <2>1. CASE k <= Len(ms) /\ r[k] = ms[k]
    <3>1. k \in 1..Len(ms)
        BY <1>4, <2>1
    <3>2. PICK q \in 1..Len(hs) :
              /\ ms[k].item \in DOMAIN hs[q] /\ ms[k].score = hs[q][ms[k].item]
              /\ \A i \in DOMAIN hs[q] : hs[q][i] > ms[k].score => Covers(ms, hs[q], i)
        BY <3>1 DEF Searched, Stands
    <3>3. \A i \in DOMAIN hs[q] : Covers(ms, hs[q], i) => Covers(r, hs[q], i)
        BY <1>2, MergedCovers
    <3>4. q \in 1..Len(gs) /\ gs[q] = hs[q]
        BY <1>2, <1>3
    <3>5. QED
        BY <2>1, <3>2, <3>3, <3>4 DEF Stands
  <2>2. CASE \E n \in 1..Len(f) : r[k] = f[n]
    <3>1. PICK n \in 1..Len(f) : r[k] = f[n]
        BY <2>2
    <3>2. r[k].item \in DOMAIN b /\ r[k].score = b[r[k].item]
        BY <3>1 DEF Answer
    <3>3. ASSUME NEW i \in DOMAIN b, b[i] > r[k].score PROVE Covers(r, b, i)
      <4>1. \E l \in 1..Len(f) : f[l].item = i
          BY <3>1, <3>3 DEF Answer
      <4>2. QED
          BY <1>5, <4>1
    <3>4. QED
        BY <1>2, <1>3, <3>2, <3>3 DEF Stands
  <2>3. QED
      BY <2>1, <2>2 DEF Merged
<1>7. ASSUME NEW q \in 1..Len(gs), NEW i \in DOMAIN gs[q]
      PROVE  Covers(r, gs[q], i) \/ Full(r, gs[q], i)
  <2>1. CASE q \in 1..Len(hs)
    <3>1. i \in DOMAIN hs[q] /\ (Covers(ms, hs[q], i) \/ Full(ms, hs[q], i))
        BY <1>2, <2>1 DEF Searched
    <3>2. Covers(r, hs[q], i) \/ Full(r, hs[q], i)
        BY <1>2, <2>1, <3>1, MergedCovers
    <3>3. QED
        BY <1>2, <2>1, <3>2
  <2>2. CASE q = Len(hs) + 1
    <3>a. i \in DOMAIN b
        BY <1>2, <2>2
    <3>1. CASE \E l \in 1..Len(f) : f[l].item = i
        BY <1>2, <1>5, <2>2, <3>1, <3>a
    <3>2. CASE ~ \E l \in 1..Len(f) : f[l].item = i
      <4>1. Len(f) = PerQuery /\ \A l \in 1..Len(f) : f[l].score >= b[i]
          BY <3>2, <3>a DEF Answer
      <4>2. Full(r, b, i)
          BY <1>1, <3>a, <4>1, HitsFill
      <4>3. QED
          BY <1>2, <2>2, <4>2
    <3>3. QED
        BY <3>1, <3>2
  <2>3. QED
      BY <1>3, <2>1, <2>2
<1>8. QED
    BY <1>6, <1>7 DEF Searched, gs

\* Whenever an answer holds j, it holds i as well, with a higher score.
DominatesIn(hs, i, j) ==
    \A q \in DOMAIN hs : j \in DOMAIN hs[q] => i \in DOMAIN hs[q] /\ hs[q][i] > hs[q][j]

\* The best of them: those that every answer scores higher come first, the best score is at the
\* head, and a candidate with a lower score than an answer gives it is behind a full answer.
LEMMA BestOfSearched ==
    ASSUME NEW ms \in Seq(Cand), Distinct(ms), NEW hs \in Seq(Heard), Searched(ms, hs),
           NEW cs, cs = First(ByScore(ms), TopK)
    PROVE  /\ \A i, j \in Items : In(cs, j) /\ DominatesIn(hs, i, j) => Before(cs, i, j)
           /\ \A q \in DOMAIN hs : \A i \in DOMAIN hs[q] :
                 /\ cs[1].score >= hs[q][i]
                 /\ \A n \in DOMAIN cs :
                       cs[n].item = i => hs[q][i] <= cs[n].score \/ n > PerQuery
<1> DEFINE t == ByScore(ms)
           N == Len(ms)
<1>1. /\ t \in Seq(Cand) /\ Len(t) = N /\ N \in Nat
      /\ \A k \in 1..N : \E n \in 1..N : t[k] = ms[n]
      /\ \A n \in 1..N : \E k \in 1..N : t[k] = ms[n]
      /\ \A k, l \in 1..N : k < l => t[k].score >= t[l].score
      /\ Distinct(t)
    BY ByScoreList
<1>2. \A k \in 1..N : LET above == {n \in 1..N : ms[n].score > t[k].score}
                      IN  IsFiniteSet(above) /\ Cardinality(above) \in Nat /\ Cardinality(above) < k
    BY ByScoreList
<1> HIDE DEF t
<1>3. TopK \in Nat /\ TopK # 0 /\ PerQuery \in Nat /\ PerQuery # 0
    BY MatchingAssumption
<1>4. /\ cs \in Seq(Cand) /\ Len(cs) \in Nat /\ Len(cs) <= TopK /\ Len(cs) <= Len(t)
      /\ Len(cs) < Len(t) => Len(cs) = TopK
      /\ \A k \in 1..Len(cs) : cs[k] = t[k]
    BY <1>1, <1>3, FirstIs DEF t
<1>5. DOMAIN cs = 1..Len(cs) /\ DOMAIN hs = 1..Len(hs) /\ Len(hs) \in Nat
    BY <1>4, LenProperties
<1>6. /\ \A k \in 1..Len(cs) : k \in 1..N /\ cs[k] = t[k]
      /\ \A k \in 1..N : t[k].score \in Nat /\ t[k].item \in Items
      /\ \A k \in 1..N : ms[k].score \in Nat /\ ms[k].item \in Items
  <2>1. \A k \in 1..N : t[k].score \in Nat /\ t[k].item \in Items
      BY <1>1, ScoresType
  <2>2. \A k \in 1..N : ms[k].score \in Nat /\ ms[k].item \in Items
      BY ScoresType
  <2> HIDE DEF N
  <2>3. \A k \in 1..Len(cs) : k \in 1..N
      BY <1>1, <1>4
  <2>4. QED
      BY <1>4, <2>1, <2>2, <2>3
<1>7. \A q \in 1..Len(hs) : DOMAIN hs[q] \subseteq Items /\ \A i \in DOMAIN hs[q] : hs[q][i] \in Nat
  <2>1. \A q \in 1..Len(hs) : hs[q] \in Heard
      BY ElementOfSeq
  <2>2. QED
      BY <2>1, HeardIs
<1> HIDE DEF N
<1>8. ASSUME NEW i \in Items, NEW j \in Items, In(cs, j),
             DominatesIn(hs, i, j)
      PROVE  Before(cs, i, j)
  <2>1. PICK k \in 1..Len(cs) : cs[k].item = j
      BY <1>5, <1>8 DEF In
  <2>2. PICK n \in 1..N : t[k] = ms[n]
      BY <1>1, <1>6
  <2>3. ms[n].item = j /\ cs[k] = t[k] /\ k \in 1..N
      BY <1>6, <2>1, <2>2
  <2>4. PICK q \in 1..Len(hs) :
            /\ ms[n].item \in DOMAIN hs[q] /\ ms[n].score = hs[q][ms[n].item]
            /\ \A o \in DOMAIN hs[q] : hs[q][o] > ms[n].score => Covers(ms, hs[q], o)
      BY DEF Searched, Stands, N
  <2>5. i \in DOMAIN hs[q] /\ hs[q][i] > ms[n].score /\ Covers(ms, hs[q], i)
      BY <1>5, <1>8, <2>3, <2>4 DEF DominatesIn
  <2>6. PICK m \in 1..N : ms[m].item = i /\ ms[m].score >= hs[q][i]
      BY <2>5 DEF Covers, N
  <2>7. PICK l \in 1..N : t[l] = ms[m]
      BY <1>1
  <2>8. ms[m].score > ms[n].score
      BY <1>6, <1>7, <2>5, <2>6, SMTT(30)
  <2>9. t[l].score > t[k].score /\ t[l].score \in Nat /\ t[k].score \in Nat
      BY <1>6, <2>2, <2>3, <2>7, <2>8
  <2> DEFINE low == t[k].score
             high == t[l].score
  <2>b. high > low /\ high \in Nat /\ low \in Nat
      BY <2>9
  <2> HIDE DEF low, high
  <2>c. ~ (low >= high)
      BY <2>b
  <2>10. ~ (t[k].score >= t[l].score)
      BY <2>c DEF low, high
  <2>a. ~ (k < l)
      BY <1>1, <2>3, <2>10
  <2>d. k # l
      BY <2>9
  <2>11. k \in Nat /\ l \in Nat /\ 1 <= l /\ k <= Len(cs) /\ Len(cs) \in Nat
      BY <1>1, <1>4, <2>1, <2>3
  <2>12. l < k /\ l \in 1..Len(cs)
      BY <2>a, <2>d, <2>11
  <2>13. cs[l].item = i
      BY <1>6, <2>6, <2>7, <2>12
  <2>14. QED
      BY <1>5, <2>1, <2>12, <2>13 DEF Before
<1>9. ASSUME NEW q \in DOMAIN hs, NEW i \in DOMAIN hs[q] PROVE cs[1].score >= hs[q][i]
  <2>1. q \in 1..Len(hs) /\ hs[q][i] \in Nat
      BY <1>5, <1>7, <1>9
  <2>2. \E l \in 1..N : ms[l].score >= hs[q][i]
    <3>1. CASE Covers(ms, hs[q], i)
        BY <3>1 DEF Covers, N
    <3>2. CASE Full(ms, hs[q], i)
      <4> DEFINE S == {l \in 1..Len(ms) : ms[l].score >= hs[q][i]}
      <4>1. Cardinality(S) >= PerQuery
          BY <3>2 DEF Full
      <4>2. S # {}
        <5>1. Cardinality({}) = 0
            BY FS_EmptySet
        <5>2. ~ (0 >= PerQuery)
            BY <1>3
        <5> HIDE DEF S
        <5>3. QED
            BY <4>1, <5>1, <5>2
      <4>3. QED
          BY <4>2 DEF N
    <3>3. QED
        BY <2>1, <3>1, <3>2 DEF Searched
  <2>3. PICK n \in 1..N : ms[n].score >= hs[q][i]
      BY <2>2
  <2>4. PICK k \in 1..N : t[k] = ms[n]
      BY <1>1
  <2>5. 1 \in 1..N /\ 1 \in 1..Len(cs)
      BY <1>1, <1>3, <1>4, <2>4
  <2>6. t[1].score >= t[k].score
    <3>1. CASE k = 1
        BY <1>6, <3>1
    <3>2. CASE k # 1
      <4>1. 1 < k
          BY <1>1, <3>2
      <4>2. QED
          BY <1>1, <2>5, <4>1
    <3>3. QED
        BY <3>1, <3>2
  <2>7. QED
      BY <1>6, <2>1, <2>3, <2>4, <2>5, <2>6
<1>10. ASSUME NEW q \in DOMAIN hs, NEW n \in DOMAIN cs, cs[n].item \in DOMAIN hs[q]
       PROVE  hs[q][cs[n].item] <= cs[n].score \/ n > PerQuery
  <2> DEFINE i == cs[n].item
  <2>1. n \in 1..N /\ n \in 1..Len(cs) /\ cs[n] = t[n] /\ q \in 1..Len(hs)
      BY <1>5, <1>6, <1>10
  <2>2. i \in DOMAIN hs[q] /\ cs[n].score \in Nat /\ hs[q][i] \in Nat /\ t[n].item = i
      BY <1>6, <1>7, <1>10, <2>1
  <2> HIDE DEF i
  <2>3. CASE Covers(ms, hs[q], i)
    <3>1. PICK m \in 1..N : ms[m].item = i /\ ms[m].score >= hs[q][i]
        BY <2>3 DEF Covers, N
    <3>2. PICK k \in 1..N : t[k] = ms[m]
        BY <1>1
    <3>3. DOMAIN t = 1..N
        BY <1>1, LenProperties
    <3>4. k = n
      <4>1. t[k].item = i /\ t[n].item = i
          BY <2>2, <3>1, <3>2
      <4>2. k \in DOMAIN t /\ n \in DOMAIN t
          BY <2>1, <3>2, <3>3
      <4>3. QED
          BY <1>1, <4>1, <4>2 DEF Distinct
    <3>5. hs[q][i] <= cs[n].score
        BY <1>6, <2>1, <2>2, <3>1, <3>2, <3>4
    <3>6. QED
        BY <3>5 DEF i
  <2>4. CASE Full(ms, hs[q], i)
    <3>1. SUFFICES ASSUME ~ (hs[q][i] <= cs[n].score) PROVE n > PerQuery
        BY DEF i
    <3> DEFINE S == {l \in 1..Len(ms) : ms[l].score >= hs[q][i]}
               above == {m \in 1..N : ms[m].score > t[n].score}
    <3>2. S \subseteq above
        BY <1>6, <2>1, <2>2, <3>1 DEF N
    <3>3. Cardinality(S) >= PerQuery
        BY <2>4 DEF Full
    <3>4. IsFiniteSet(above) /\ Cardinality(above) \in Nat /\ Cardinality(above) < n
        BY <1>2, <2>1
    <3> HIDE DEF S, above
    <3>5. IsFiniteSet(S) /\ Cardinality(S) <= Cardinality(above) /\ Cardinality(S) \in Nat
        BY <3>2, <3>4, FS_Subset, FS_CardinalityType
    <3>6. QED
        BY <1>3, <2>1, <3>3, <3>4, <3>5
  <2>5. QED
      BY <2>1, <2>2, <2>3, <2>4 DEF Searched
<1>11. QED
    BY <1>8, <1>9, <1>10

(***************************************************************************)
(* Verdicts                                                                *)
(***************************************************************************)
LEMMA ClampType == \A x \in Int : Clamp(x) \in 0..100
BY DEF Clamp

\* The last usable entry about a candidate is its verdict.
LEMMA VerdictIs ==
    ASSUME NEW entries \in Seq(Entry), NEW n \in Nat
    PROVE  /\ Verdict(entries, n) \in (0..100) \cup {None}
           /\ \/ /\ Verdict(entries, n) = None
                 /\ \A k \in DOMAIN entries : entries[k].id = n - 1 => entries[k].score = None
              \/ \E k \in DOMAIN entries :
                    /\ entries[k].id = n - 1 /\ entries[k].score # None
                    /\ Verdict(entries, n) = Clamp(entries[k].score)
                    /\ \A l \in DOMAIN entries :
                          l > k /\ entries[l].id = n - 1 => entries[l].score = None
<1> DEFINE ks == Usable(entries, n)
<1>1. Len(entries) \in Nat /\ DOMAIN entries = 1..Len(entries)
    BY LenProperties
<1>2. \A k \in DOMAIN entries : entries[k].score \in Int \cup {None}
  <2>1. \A k \in DOMAIN entries : entries[k] \in Entry
      BY <1>1, ElementOfSeq
  <2>2. QED
      BY <2>1, MatchingAssumption DEF Entry
<1>3. CASE ks = {}
    BY <1>3 DEF Verdict, Usable
<1>4. CASE ks # {}
  <2> DEFINE k == CHOOSE k \in ks : \A l \in ks : l <= k
  <2>1. ks \subseteq 1..Len(entries)
      BY <1>1 DEF Usable
  <2>2. \E x \in ks : \A y \in ks : y <= x
    <3> HIDE DEF ks
    <3>1. QED
        BY <1>1, <1>4, <2>1, LastPlace
  <2>3. k \in ks /\ \A l \in ks : l <= k
    <3> HIDE DEF ks
    <3>1. QED
        BY <2>2
  <2>4. Verdict(entries, n) = Clamp(entries[k].score)
      BY <1>4 DEF Verdict
  <2> HIDE DEF k
  <2>5. k \in DOMAIN entries /\ entries[k].id = n - 1 /\ entries[k].score # None
      BY <2>3 DEF Usable
  <2>6. ASSUME NEW l \in DOMAIN entries, l > k, entries[l].id = n - 1
        PROVE  entries[l].score = None
    <3>1. ~ (l <= k)
        BY <1>1, <2>5, <2>6
    <3>2. l \notin ks
        BY <2>3, <3>1
    <3>3. QED
        BY <2>6, <3>2 DEF Usable
  <2>7. Verdict(entries, n) \in 0..100
      BY <1>2, <2>4, <2>5, ClampType
  <2>8. QED
      BY <2>4, <2>5, <2>6, <2>7
<1>5. QED
    BY <1>3, <1>4

\* The judged list holds the candidates, each with the verdict on itself, the best first.
IsJudged(ms, cs, entries) ==
    /\ Len(ms) = Len(cs) /\ Distinct(ms)
    /\ DOMAIN ms = 1..Len(cs) /\ DOMAIN cs = 1..Len(cs) /\ Len(cs) \in Nat
    /\ \A n \in 1..Len(cs) : \E m \in 1..Len(cs) :
          ms[m].item = cs[n].item /\ ms[m].grade = Verdict(entries, n)
    /\ \A i, j \in 1..Len(cs) : i < j =>
          /\ ms[i].grade = None => ms[j].grade = None
          /\ ms[i].grade # None /\ ms[j].grade # None => ms[i].grade >= ms[j].grade
          /\ ms[i].grade = ms[j].grade => Before(cs, ms[i].item, ms[j].item)

LEMMA JudgedList ==
    ASSUME NEW cs \in Seq(Cand), cs = merged, Distinct(cs), NEW entries \in Seq(Entry),
           NEW ms, ms = Judged(entries)
    PROVE  IsJudged(ms, cs, entries)
<1> DEFINE N == Len(cs)
           Grades == (0..100) \cup {None}
           Match == [item : Items, score : Nat, grade : Grades]
           all == [n \in 1..N |-> [item |-> cs[n].item, score |-> cs[n].score,
                                   grade |-> Verdict(entries, n)]]
           key == [n \in 1..N |-> Rank(all[n])]
<1>1. N \in Nat /\ DOMAIN cs = 1..N /\ \A n \in 1..N : cs[n].item \in Items /\ cs[n].score \in Nat
    BY ScoresType, LenProperties
<1>2. ASSUME NEW n \in 1..N PROVE Verdict(entries, n) \in Grades
  <2>1. n \in Nat
      BY <1>1
  <2>2. QED
      BY <2>1, VerdictIs
<1>3. ms = Sorted(all, key)
    BY <1>1 DEF Judged
<1> HIDE DEF Grades
<1>4. all \in [1..N -> Match]
    BY <1>1, <1>2
<1>5. \A n \in 1..N : all[n].item = cs[n].item /\ all[n].grade = Verdict(entries, n)
    OBVIOUS
<1> HIDE DEF all
<1>6. all \in Seq(Match)
  <2> HIDE DEF Match, N
  <2>1. QED
      BY <1>1, <1>4
<1>7. Len(all) = N
  <2> HIDE DEF Match, N
  <2>1. QED
      BY <1>1, <1>4, <1>6, LenProperties
<1>8. \A n \in 1..N : /\ all[n].grade = None => key[n] = -1
                      /\ all[n].grade # None => key[n] = all[n].grade /\ all[n].grade \in 0..100
    BY <1>2, <1>5 DEF Rank, Grades
<1>9. \A n \in 1..N : key[n] \in Int
    BY <1>8
<1> HIDE DEF N, Match
<1>10. key \in [1..N -> Int]
    BY <1>9
<1> HIDE DEF key
<1>11. /\ ms \in Seq(Match) /\ Len(ms) = N
       /\ \A k \in 1..N : ms[k] = all[Place(key, k)]
    BY <1>3, <1>6, <1>7, <1>10, SortedList
<1>12. DOMAIN ms = 1..N
    BY <1>11, LenProperties
<1>13. /\ \A k \in 1..N : /\ Place(key, k) \in 1..N
                          /\ 1 + Cardinality(Preceding(key, Place(key, k))) = k
       /\ \A n \in 1..N : \E k \in 1..N : Place(key, k) = n
       /\ \A k, l \in 1..N : k < l => Place(key, k) \in Preceding(key, Place(key, l))
    BY <1>1, <1>10, Places
<1>14. Distinct(ms)
  <2> SUFFICES ASSUME NEW k \in 1..N, NEW l \in 1..N, ms[k].item = ms[l].item
               PROVE  k = l
      BY <1>12 DEF Distinct
  <2>a. Place(key, k) \in 1..N /\ Place(key, l) \in 1..N
      BY <1>13
  <2>b. cs[Place(key, k)].item = cs[Place(key, l)].item
      BY <1>5, <1>11, <2>a
  <2>1. Place(key, k) = Place(key, l)
      BY <1>1, <2>a, <2>b DEF Distinct
  <2>2. k = 1 + Cardinality(Preceding(key, Place(key, k))) /\ l = 1 + Cardinality(Preceding(key, Place(key, l)))
      BY <1>13
  <2>3. QED
      BY <2>1, <2>2
<1>15. ASSUME NEW n \in 1..N
       PROVE  \E m \in 1..N : ms[m].item = cs[n].item /\ ms[m].grade = Verdict(entries, n)
  <2>1. PICK m \in 1..N : Place(key, m) = n
      BY <1>13
  <2>2. QED
      BY <1>5, <1>11, <2>1
<1>16. ASSUME NEW i \in 1..N, NEW j \in 1..N, i < j
       PROVE  /\ ms[i].grade = None => ms[j].grade = None
              /\ ms[i].grade # None /\ ms[j].grade # None => ms[i].grade >= ms[j].grade
              /\ ms[i].grade = ms[j].grade => Before(cs, ms[i].item, ms[j].item)
  <2> DEFINE p == Place(key, i)
             q == Place(key, j)
  <2>1. p \in 1..N /\ q \in 1..N /\ p \in Preceding(key, q) /\ ms[i] = all[p] /\ ms[j] = all[q]
      BY <1>11, <1>13, <1>16
  <2> HIDE DEF p, q
  <2>2. key[p] \in Int /\ key[q] \in Int /\ p \in Int /\ q \in Int
      BY <1>9, <2>1
  <2>3. key[p] > key[q] \/ (key[p] = key[q] /\ p < q)
      BY <2>1 DEF Preceding
  <2>4. key[p] >= key[q]
      BY <2>2, <2>3
  <2>5. ms[i].grade = None => ms[j].grade = None
    <3>1. SUFFICES ASSUME all[p].grade = None, all[q].grade # None PROVE FALSE
        BY <2>1
    <3>2. key[p] = -1
        BY <1>8, <2>1, <3>1
    <3>3. key[q] \in 0..100
        BY <1>8, <2>1, <3>1
    <3>a. \A x \in 0..100 : x >= 0
        OBVIOUS
    <3>4. key[q] >= 0
        BY <3>3, <3>a
    <3>5. QED
        BY <2>2, <2>4, <3>2, <3>4
  <2>6. ms[i].grade # None /\ ms[j].grade # None => ms[i].grade >= ms[j].grade
      BY <1>8, <2>1, <2>4
  <2>7. ASSUME ms[i].grade = ms[j].grade PROVE Before(cs, ms[i].item, ms[j].item)
    <3>1. key[p] = key[q]
        BY <1>8, <2>1, <2>7
    <3>2. p < q
        BY <2>2, <2>3, <3>1
    <3>3. ms[i].item = cs[p].item /\ ms[j].item = cs[q].item
        BY <1>5, <2>1
    <3>4. QED
        BY <1>1, <2>1, <3>2, <3>3 DEF Before
  <2>8. QED
      BY <2>5, <2>6, <2>7
<1>17. QED
    BY <1>1, <1>11, <1>12, <1>14, <1>15, <1>16 DEF N, IsJudged

(***************************************************************************)
(* The graph                                                               *)
(***************************************************************************)
\* In every state; while the queries are searched; and what the other nodes have made of it.
Typed ==
    /\ pc \in {"extract", "search", "grade", "done"} /\ region \subseteq Items
    /\ merged \in Seq(Cand) /\ Distinct(merged)
    /\ hits \in Seq(Heard) /\ reply \in Seq(Entry)
    /\ pc = "extract" => merged = <<>> /\ matches = <<>> /\ hits = <<>> /\ reply = <<>>

GraphInv ==
    /\ Typed
    /\ pc = "search" => Searched(merged, hits)
    /\ DominantFirst /\ BestScoreCounts /\ VerdictsAreTheirOwn /\ JudgedFirst

LEMMA EmptyLists ==
    /\ \A X : <<>> \in Seq(X)
    /\ Len(<<>>) = 0 /\ DOMAIN <<>> = {}
    /\ Distinct(<<>>)
BY DEF Distinct

LEMMA InitGraph == Init => GraphInv
<1> SUFFICES ASSUME Init PROVE GraphInv
    OBVIOUS
<1>1. Typed
    BY EmptyLists DEF Init, Typed
<1>2. QED
    BY <1>1 DEF Init, GraphInv, DominantFirst, BestScoreCounts, VerdictsAreTheirOwn, JudgedFirst

LEMMA NoReportGraph == GraphInv /\ NoReport => GraphInv'
<1> SUFFICES ASSUME GraphInv, NoReport PROVE GraphInv'
    OBVIOUS
<1>1. /\ pc' = "done" /\ UNCHANGED <<region, queries, merged, matches, hits, reply>>
      /\ merged = <<>> /\ matches = <<>> /\ reply = <<>>
    BY DEF NoReport, GraphInv, Typed
<1>2. Typed'
    BY <1>1 DEF GraphInv, Typed, Distinct
<1>3. VerdictsAreTheirOwn' /\ JudgedFirst'
    BY <1>1, EmptyLists DEF VerdictsAreTheirOwn, JudgedFirst, Distinct
<1>4. QED
    BY <1>1, <1>2, <1>3 DEF GraphInv, DominantFirst, BestScoreCounts

LEMMA ExtractGraph ==
    ASSUME GraphInv, NEW ex, Extract(ex)
    PROVE  GraphInv'
<1>1. /\ pc' = "search" /\ UNCHANGED <<region, merged, matches, hits, reply>>
      /\ merged = <<>> /\ hits = <<>>
    BY DEF Extract, GraphInv, Typed
<1>2. Typed'
    BY <1>1 DEF GraphInv, Typed, Distinct
<1>3. Searched(<<>>, <<>>)
    BY EmptyLists DEF Searched
<1>4. Searched(merged', hits')
    BY <1>1, <1>3
<1>5. QED
    BY <1>1, <1>2, <1>4
       DEF GraphInv, DominantFirst, BestScoreCounts, VerdictsAreTheirOwn, JudgedFirst

LEMMA SearchGraph == GraphInv /\ Search => GraphInv'
<1> SUFFICES ASSUME GraphInv, Search PROVE GraphInv'
    OBVIOUS
<1>a. PICK docs \in SUBSET Items :
          \E base \in [docs -> Scores], order \in SetToSeqs(docs) :
             /\ merged' = MergeAll(merged, Found(base, order))
             /\ hits' = Append(hits, Boosted(base))
    BY DEF Search
<1>1. PICK base \in [docs -> Scores], order \in SetToSeqs(docs) :
          /\ merged' = MergeAll(merged, Found(base, order))
          /\ hits' = Append(hits, Boosted(base))
    BY <1>a
<1>2. /\ pc = "search" /\ pc' = "search" /\ UNCHANGED <<region, matches, reply>>
      /\ Typed /\ Searched(merged, hits)
    BY DEF Search, GraphInv
<1> DEFINE f == Found(base, order)
           b == Boosted(base)
<1>3. Answer(f, b) /\ b \in Heard
    BY FoundIsAnswer, BoostedType
<1>4. merged' = MergeAll(merged, f) /\ hits' = Append(hits, b)
    BY <1>1
<1> HIDE DEF f, b
<1>5. merged \in Seq(Cand) /\ Distinct(merged) /\ hits \in Seq(Heard) /\ f \in Seq(Cand)
    BY <1>2, <1>3 DEF Typed, Answer
<1>6. Merged(merged', merged, {f[n] : n \in 1..Len(f)})
    BY <1>4, <1>5, MergeAllMerges
<1>7. Searched(merged', hits')
    BY <1>2, <1>3, <1>4, <1>5, <1>6, SearchedMore
<1>8. merged' \in Seq(Cand) /\ Distinct(merged')
    BY <1>6 DEF Merged
<1>9. hits' \in Seq(Heard)
    BY <1>3, <1>4, <1>5, AppendProperties
<1>10. Typed'
    BY <1>2, <1>8, <1>9 DEF Typed, Distinct
<1>11. QED
    BY <1>2, <1>7, <1>10
       DEF GraphInv, DominantFirst, BestScoreCounts, VerdictsAreTheirOwn, JudgedFirst

LEMMA SearchEndsGraph == GraphInv /\ SearchEnds => GraphInv'
<1> SUFFICES ASSUME GraphInv, SearchEnds PROVE GraphInv'
    OBVIOUS
<1>1. /\ pc = "search" /\ pc' = "grade" /\ UNCHANGED <<region, queries, matches, hits, reply>>
      /\ merged' = First(ByScore(merged), TopK)
      /\ Typed /\ Searched(merged, hits)
    BY DEF SearchEnds, Candidates, GraphInv
<1>2. merged \in Seq(Cand) /\ Distinct(merged) /\ hits \in Seq(Heard)
    BY <1>1 DEF Typed
<1>3. /\ \A i, j \in Items : In(merged', j) /\ DominatesIn(hits, i, j) => Before(merged', i, j)
      /\ \A q \in DOMAIN hits : \A i \in DOMAIN hits[q] :
            /\ merged'[1].score >= hits[q][i]
            /\ \A n \in DOMAIN merged' :
                  merged'[n].item = i => hits[q][i] <= merged'[n].score \/ n > PerQuery
    BY <1>1, <1>2, BestOfSearched
<1>4. DominantFirst' /\ BestScoreCounts'
    BY <1>1, <1>3 DEF DominantFirst, BestScoreCounts, Dominates, DominatesIn, In, Before
<1>5. merged' \in Seq(Cand) /\ Distinct(merged')
  <2> DEFINE t == ByScore(merged)
             r == First(t, TopK)
  <2>1. t \in Seq(Cand) /\ Distinct(t)
      BY <1>2, ByScoreList
  <2>2. TopK \in Nat
      BY MatchingAssumption
  <2> HIDE DEF t
  <2>3. /\ r \in Seq(Cand) /\ Len(r) \in Nat /\ Len(r) <= Len(t)
        /\ \A k \in 1..Len(r) : r[k] = t[k]
      BY <2>1, <2>2, FirstIs
  <2> HIDE DEF r
  <2>4. DOMAIN r = 1..Len(r) /\ DOMAIN t = 1..Len(t) /\ Len(t) \in Nat
      BY <2>1, <2>3, LenProperties
  <2>5. \A k \in 1..Len(r) : k \in 1..Len(t)
      BY <2>3, <2>4
  <2>6. Distinct(r)
    <3> SUFFICES ASSUME NEW k \in 1..Len(r), NEW l \in 1..Len(r), r[k].item = r[l].item
                 PROVE  k = l
        BY <2>4 DEF Distinct
    <3>1. t[k].item = t[l].item /\ k \in DOMAIN t /\ l \in DOMAIN t
        BY <2>3, <2>4, <2>5
    <3>2. QED
        BY <2>1, <3>1 DEF Distinct
  <2>7. merged' = r
      BY <1>1 DEF r, t
  <2>8. QED
      BY <2>3, <2>6, <2>7
<1>6. Typed'
    BY <1>1, <1>5 DEF Typed, Distinct
<1>7. QED
    BY <1>1, <1>4, <1>6 DEF GraphInv, VerdictsAreTheirOwn, JudgedFirst

LEMMA GradeGraph == GraphInv /\ Grade => GraphInv'
<1> SUFFICES ASSUME GraphInv, Grade PROVE GraphInv'
    OBVIOUS
<1>1. /\ pc = "grade" /\ pc' = "done" /\ hits' = <<>> /\ UNCHANGED <<region, queries, merged>>
      /\ Typed
    BY DEF Grade, GraphInv
<1>2. PICK entries \in IF merged = <<>> THEN {<<>>} ELSE SeqOf(Entry, MaxReply) :
          reply' = entries /\ matches' = Judged(entries)
    BY DEF Grade
<1>3. entries \in Seq(Entry)
  <2>1. CASE merged = <<>>
      BY <1>2, <2>1, EmptyLists
  <2>2. CASE merged # <<>>
    <3>1. PICK m \in 0..MaxReply : entries \in [1..m -> Entry]
        BY <1>2, <2>2 DEF SeqOf
    <3>2. m \in Nat
        BY <3>1, MatchingAssumption
    <3> HIDE DEF Entry
    <3>3. QED
        BY <3>1, <3>2
  <2>3. QED
      BY <2>1, <2>2
<1>4. PICK cs \in Seq(Cand) : cs = merged /\ Distinct(cs)
    BY <1>1 DEF Typed
<1>5. PICK ms : ms = Judged(entries)
    OBVIOUS
<1>a. IsJudged(ms, cs, entries)
    BY <1>3, <1>4, <1>5, JudgedList
<1>6. /\ Len(ms) = Len(cs) /\ Distinct(ms)
      /\ DOMAIN ms = 1..Len(cs) /\ DOMAIN cs = 1..Len(cs) /\ Len(cs) \in Nat
      /\ \A n \in 1..Len(cs) : \E m \in 1..Len(cs) :
            ms[m].item = cs[n].item /\ ms[m].grade = Verdict(entries, n)
      /\ \A i, j \in 1..Len(cs) : i < j =>
            /\ ms[i].grade = None => ms[j].grade = None
            /\ ms[i].grade # None /\ ms[j].grade # None => ms[i].grade >= ms[j].grade
            /\ ms[i].grade = ms[j].grade => Before(cs, ms[i].item, ms[j].item)
    BY <1>a DEF IsJudged
<1>7. merged' = cs /\ matches' = ms /\ reply' = entries
    BY <1>1, <1>2, <1>4, <1>5
<1>8. JudgedFirst'
  <2>1. \A i, j \in DOMAIN ms : i < j =>
            /\ ms[i].grade = None => ms[j].grade = None
            /\ ms[i].grade # None /\ ms[j].grade # None => ms[i].grade >= ms[j].grade
            /\ ms[i].grade = ms[j].grade => Before(cs, ms[i].item, ms[j].item)
      BY <1>6
  <2>2. \A i, j \in DOMAIN matches' : i < j =>
            /\ matches'[i].grade = None => matches'[j].grade = None
            /\ matches'[i].grade # None /\ matches'[j].grade # None =>
                   matches'[i].grade >= matches'[j].grade
            /\ matches'[i].grade = matches'[j].grade =>
                   Before(merged', matches'[i].item, matches'[j].item)
      BY <1>7, <2>1
  <2>3. QED
      BY <2>2 DEF JudgedFirst, Before
<1>9. ASSUME NEW n \in 1..Len(cs)
      PROVE  \E m \in 1..Len(cs) :
                /\ ms[m].item = cs[n].item
                /\ \/ /\ ms[m].grade = None
                      /\ \A k \in DOMAIN entries : entries[k].id = n - 1 => entries[k].score = None
                   \/ \E k \in DOMAIN entries :
                         /\ entries[k].id = n - 1 /\ entries[k].score # None
                         /\ ms[m].grade = Clamp(entries[k].score)
                         /\ \A l \in DOMAIN entries :
                               l > k /\ entries[l].id = n - 1 => entries[l].score = None
  <2>1. PICK m \in 1..Len(cs) : ms[m].item = cs[n].item /\ ms[m].grade = Verdict(entries, n)
      BY <1>6
  <2>2. n \in Nat
      BY <1>6
  <2>3. \/ /\ Verdict(entries, n) = None
           /\ \A k \in DOMAIN entries : entries[k].id = n - 1 => entries[k].score = None
        \/ \E k \in DOMAIN entries :
              /\ entries[k].id = n - 1 /\ entries[k].score # None
              /\ Verdict(entries, n) = Clamp(entries[k].score)
              /\ \A l \in DOMAIN entries :
                    l > k /\ entries[l].id = n - 1 => entries[l].score = None
      BY <1>3, <2>2, VerdictIs
  <2>4. QED
      BY <2>1, <2>3
<1>10. VerdictsAreTheirOwn'
  <2>1. \A n \in DOMAIN cs : \E m \in DOMAIN ms :
            /\ ms[m].item = cs[n].item
            /\ \/ /\ ms[m].grade = None
                  /\ \A k \in DOMAIN entries : entries[k].id = n - 1 => entries[k].score = None
               \/ \E k \in DOMAIN entries :
                     /\ entries[k].id = n - 1 /\ entries[k].score # None
                     /\ ms[m].grade = Clamp(entries[k].score)
                     /\ \A l \in DOMAIN entries :
                           l > k /\ entries[l].id = n - 1 => entries[l].score = None
    <3>1. DOMAIN cs = 1..Len(cs) /\ DOMAIN ms = 1..Len(cs)
        BY <1>6
    <3>2. QED
        BY <1>9, <3>1
  <2>2. \A n \in DOMAIN merged' : \E m \in DOMAIN matches' :
            /\ matches'[m].item = merged'[n].item
            /\ \/ /\ matches'[m].grade = None
                  /\ \A k \in DOMAIN reply' : reply'[k].id = n - 1 => reply'[k].score = None
               \/ \E k \in DOMAIN reply' :
                     /\ reply'[k].id = n - 1 /\ reply'[k].score # None
                     /\ matches'[m].grade = Clamp(reply'[k].score)
                     /\ \A l \in DOMAIN reply' :
                           l > k /\ reply'[l].id = n - 1 => reply'[l].score = None
      BY <1>7, <2>1
  <2>3. Len(matches') = Len(merged') /\ Distinct(matches')
      BY <1>6, <1>7
  <2>4. QED
      BY <2>2, <2>3 DEF VerdictsAreTheirOwn, Distinct, Clamp
<1>11. Typed'
    BY <1>1, <1>3, <1>7, EmptyLists DEF Typed, Distinct
<1>12. QED
    BY <1>1, <1>8, <1>10, <1>11 DEF GraphInv, DominantFirst, BestScoreCounts

\* What the graph keeps, in every reachable state.
THEOREM GraphAlways == Spec => []GraphInv
<1>1. GraphInv /\ [Next]_vars => GraphInv'
  <2> SUFFICES ASSUME GraphInv, [Next]_vars PROVE GraphInv'
      OBVIOUS
  <2>1. CASE NoReport
      BY <2>1, NoReportGraph
  <2>2. CASE Search
      BY <2>2, SearchGraph
  <2>3. CASE SearchEnds
      BY <2>3, SearchEndsGraph
  <2>4. CASE Grade
      BY <2>4, GradeGraph
  <2>5. ASSUME NEW ex \in SUBSET Fields, Extract(ex) PROVE GraphInv'
      BY <2>5, ExtractGraph
  <2>6. CASE UNCHANGED vars
    <3>1. UNCHANGED <<pc, region, queries, merged, matches, hits, reply>>
        BY <2>6 DEF vars
    <3>2. Typed' /\ (pc' = "search" => Searched(merged', hits'))
        BY <3>1 DEF GraphInv, Typed, Distinct
    <3>3. DominantFirst' /\ BestScoreCounts'
        BY <3>1 DEF GraphInv, DominantFirst, Dominates, BestScoreCounts, In, Before
    <3>4. VerdictsAreTheirOwn' /\ JudgedFirst'
        BY <3>1 DEF GraphInv, VerdictsAreTheirOwn, JudgedFirst, Before, Distinct
    <3>5. QED
        BY <3>2, <3>3, <3>4 DEF GraphInv
  <2>7. QED
      BY <2>1, <2>2, <2>3, <2>4, <2>5, <2>6 DEF Next
<1>2. QED
    BY <1>1, InitGraph, PTL DEF Spec

\* THEOREM: an item that scores higher than another in every answer that holds the other comes
\* before it, although answers and candidates are cut off (search, n_search).
THEOREM DominantComesFirst == Spec => []DominantFirst
<1>1. GraphInv => DominantFirst
    BY DEF GraphInv
<1>2. QED
    BY <1>1, GraphAlways, PTL

\* THEOREM: the best score that the index has answered is at the head, and a candidate stands
\* for the best of its scores or is behind a full answer (search, n_search).
THEOREM BestScoresCount == Spec => []BestScoreCounts
<1>1. GraphInv => BestScoreCounts
    BY DEF GraphInv
<1>2. QED
    BY <1>1, GraphAlways, PTL

\* THEOREM: whatever the LLM answers, the judged list holds the candidates, each with the last
\* usable verdict on itself (grade, clean_grades, n_grade).
THEOREM VerdictsStayTheirOwn == Spec => []VerdictsAreTheirOwn
<1>1. GraphInv => VerdictsAreTheirOwn
    BY DEF GraphInv
<1>2. QED
    BY <1>1, GraphAlways, PTL

\* THEOREM: no verdict is never ahead of a verdict, and equal ones keep the order of the search
\* (n_grade).
THEOREM JudgedComeFirst == Spec => []JudgedFirst
<1>1. GraphInv => JudgedFirst
    BY DEF GraphInv
<1>2. QED
    BY <1>1, GraphAlways, PTL
===============================================================================
