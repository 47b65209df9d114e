-------------------------- MODULE Evaluation_proofs ---------------------------
(***************************************************************************)
(* What the experiments pay for and what they report, for all corpora,     *)
(* queries and verdicts, and for any number of runs that overlap and fail: *)
(* a vector is paid for again only where a cache was written over or a     *)
(* request has failed, and judging the first k leaves the recall at k.     *)
(***************************************************************************)
EXTENDS Evaluation, Lists_proofs

(***************************************************************************)
(* Types                                                                   *)
(***************************************************************************)
EmbedKeys == ItemKeys \cup ToSet(Golden)

EmbedRun == [cache : SUBSET Keys, full : BOOLEAN, phase : {"targets", "corpus", "queries"},
             left : Seq(EmbedKeys)]

BoostRun == [cache : SUBSET Keys, left : Seq(ToSet(Hard))]

GradeRun == [cache : SUBSET Keys, k : Ks, left : Seq(ToSet(Golden))]

Verdicts == UNION {[judged -> Scores] : judged \in SUBSET Nat}

Line == [query : ToSet(Golden), k : Ks, emb : Nat, new : Nat]

Typed == /\ saved \subseteq Keys
         /\ grades \in [ToSet(Golden) -> Verdicts \cup {None, Bad}]
         /\ embed \in EmbedRun \cup {None}
         /\ boost \in BoostRun \cup {None}
         /\ grade \in GradeRun \cup {None}
         /\ report \in Seq(Line)
         /\ spent \in [runs : Nat, faults : Nat]
         /\ paid \in [Keys -> Nat] /\ dropped \in [Keys -> Nat]

LEMMA SeqWider ==
    ASSUME NEW X, NEW Y, X \subseteq Y
    PROVE  Seq(X) \subseteq Seq(Y)
OBVIOUS

LEMMA KeysAre == /\ EmbedKeys \subseteq Keys /\ ToSet(Hard) \subseteq Keys
                 /\ ToSet(Golden) \subseteq EmbedKeys /\ ItemKeys \subseteq EmbedKeys
                 /\ \A key \in Keys : key \in EmbedKeys \/ key \in ToSet(Hard)
                 /\ \A key \in EmbedKeys : key \notin ToSet(Hard)
BY KeysAreApart DEF Keys, EmbedKeys, KeysAreApart

\* The lists that are embedded.
LEMMA ListsTyped ==
    /\ Targets \in Seq(EmbedKeys) /\ CorpusKeys \in Seq(EmbedKeys) /\ Golden \in Seq(EmbedKeys)
    /\ Hard \in Seq(ToSet(Hard)) /\ Golden \in Seq(ToSet(Golden))
<1>1. Golden \in Seq(ToSet(Golden)) /\ Hard \in Seq(ToSet(Hard))
    BY EvaluationAssumption DEF EvaluationAssumption
<1>2. CorpusKeys \in Seq(ItemKeys)
  <2>1. Corpus \in Seq(DOMAIN KeyOf) /\ Len(Corpus) \in Nat
      BY EvaluationAssumption, LenProperties DEF EvaluationAssumption
  <2>2. DOMAIN Corpus = 1..Len(Corpus)
      BY <2>1, LenProperties
  <2>3. \A n \in 1..Len(Corpus) : KeyOf[Corpus[n]] \in ItemKeys
      BY <2>2 DEF ItemKeys, ToSet
  <2>4. [n \in 1..Len(Corpus) |-> KeyOf[Corpus[n]]] \in [1..Len(Corpus) -> ItemKeys]
      BY <2>3
  <2>5. QED
      BY <2>1, <2>2, <2>4, IsASeq DEF CorpusKeys
<1>3. Targets \in Seq(ItemKeys)
  <2> DEFINE X == {KeyOf[i] : i \in DOMAIN KeyOf}
             q == [n \in DOMAIN Golden |-> Expected[Golden[n]]]
  <2>1. Len(Golden) \in Nat /\ DOMAIN Golden = 1..Len(Golden)
      BY <1>1, LenProperties
  <2>2. \A n \in 1..Len(Golden) : Golden[n] \in ToSet(Golden)
      BY <2>1 DEF ToSet
  <2>3. \A n \in 1..Len(Golden) : Expected[Golden[n]] \in X
      BY <2>2, EvaluationAssumption DEF EvaluationAssumption
  <2>4. q \in [1..Len(Golden) -> X]
      BY <2>1, <2>3
  <2> HIDE DEF X
  <2>5. q \in Seq(X)
      BY <2>1, <2>4, IsASeq
  <2>6. Targets = Among(q, ItemKeys)
      BY DEF Targets
  <2> HIDE DEF q
  <2>7. Targets \in Seq(X \cap ItemKeys)
      BY <2>5, <2>6, AmongIs
  <2>8. X \cap ItemKeys \subseteq ItemKeys
      OBVIOUS
  <2>9. QED
      BY <2>7, <2>8, SeqWider
<1>4. QED
  <2>1. Seq(ItemKeys) \subseteq Seq(EmbedKeys) /\ Seq(ToSet(Golden)) \subseteq Seq(EmbedKeys)
      BY KeysAre, SeqWider
  <2>2. QED
      BY <1>1, <1>2, <1>3, <2>1

LEMMA MissingIs ==
    ASSUME NEW q \in Seq(EmbedKeys), NEW cache
    PROVE  /\ Missing(q, cache) \in Seq(EmbedKeys)
           /\ \A key \in Keys : Times(Missing(q, cache), key) =
                                    IF key \in cache THEN 0 ELSE Times(q, key)
<1> DEFINE S == Keys \ cache
<1>1. Missing(q, cache) = Among(q, S) /\ \A key \in Keys : key \in S <=> key \notin cache
    BY DEF Missing
<1> HIDE DEF S
<1>2. Among(q, S) \in Seq(EmbedKeys) /\ \A x : Times(Among(q, S), x) = IF x \in S THEN Times(q, x) ELSE 0
    BY AmongIs
<1>3. QED
    BY <1>1, <1>2

\* The part that is embedded next, and the rest.
LEMMA PartsAre ==
    ASSUME NEW q \in Seq(EmbedKeys)
    PROVE  /\ FirstPart(q) \in Seq(EmbedKeys) /\ Remaining(q) \in Seq(EmbedKeys)
           /\ ToSet(FirstPart(q)) \subseteq EmbedKeys
           /\ \A key : /\ Times(q, key) = Times(FirstPart(q), key) + Times(Remaining(q), key)
                       /\ Times(q, key) \in Nat /\ Times(FirstPart(q), key) \in Nat
                       /\ Times(Remaining(q), key) \in Nat
                       /\ key \notin ToSet(FirstPart(q)) => Times(FirstPart(q), key) = 0
<1> DEFINE k == IF Len(q) < Chunk THEN Len(q) ELSE Chunk
           first == FirstPart(q)
           rest == Remaining(q)
<1>1. Chunk \in Nat /\ Len(q) \in Nat /\ k \in 0..Len(q) /\ k \in Nat
    BY LenProperties, EvaluationAssumption DEF EvaluationAssumption
<1>2. /\ first \in Seq(EmbedKeys) /\ Len(first) = k
      /\ \A n \in 1..k : first[n] = q[n]
  <2>1. first = First(q, Chunk)
      BY DEF FirstPart
  <2>2. /\ First(q, Chunk) \in Seq(EmbedKeys) /\ Len(First(q, Chunk)) \in Nat
        /\ Len(First(q, Chunk)) <= Chunk /\ Len(First(q, Chunk)) <= Len(q)
        /\ Len(First(q, Chunk)) < Len(q) => Len(First(q, Chunk)) = Chunk
        /\ \A n \in 1..Len(First(q, Chunk)) : First(q, Chunk)[n] = q[n]
      BY <1>1, FirstIs
  <2> HIDE DEF first
  <2>3. Len(first) = k
      BY <1>1, <2>1, <2>2
  <2>4. QED
      BY <2>1, <2>2, <2>3
<1>3. rest = SubSeq(q, k + 1, Len(q)) /\ rest \in Seq(EmbedKeys)
  <2>1. rest = SubSeq(q, Chunk + 1, Len(q))
      BY DEF Remaining
  <2>2. \A n \in 1..Len(q) : q[n] \in EmbedKeys
      BY <1>1, ElementOfSeq
  <2> HIDE DEF rest
  <2>3. CASE Len(q) < Chunk
    <3>1. SubSeq(q, Chunk + 1, Len(q)) = <<>> /\ SubSeq(q, Len(q) + 1, Len(q)) = <<>>
        BY <1>1, <2>3, SubSeqEmpty
    <3>2. k = Len(q) /\ <<>> \in Seq(EmbedKeys)
        BY <2>3, EmptySeq
    <3> HIDE DEF k
    <3>3. QED
        BY <2>1, <3>1, <3>2
  <2>4. CASE ~ (Len(q) < Chunk)
    <3>1. \A n \in (Chunk + 1)..Len(q) : q[n] \in EmbedKeys
        BY <1>1, <2>2
    <3>2. SubSeq(q, Chunk + 1, Len(q)) \in Seq(EmbedKeys)
        BY <1>1, <3>1, SubSeqProperties
    <3>3. QED
        BY <2>1, <2>4, <3>2
  <2>5. QED
      BY <2>3, <2>4
<1> HIDE DEF k, first, rest
<1>4. ToSet(first) = {q[n] : n \in 1..k} /\ ToSet(first) \subseteq EmbedKeys
  <2>1. DOMAIN first = 1..k
      BY <1>2, LenProperties
  <2>2. \A n \in 1..k : first[n] \in EmbedKeys
      BY <1>2, ElementOfSeq
  <2>3. QED
      BY <1>2, <2>1, <2>2 DEF ToSet
<1>5. ASSUME NEW key
      PROVE  /\ Times(q, key) = Times(first, key) + Times(rest, key)
             /\ Times(q, key) \in Nat /\ Times(first, key) \in Nat /\ Times(rest, key) \in Nat
             /\ key \notin ToSet(first) => Times(first, key) = 0
  <2>1. Times(q, key) = Cardinality(Spots(q, key, k)) + Times(SubSeq(q, k + 1, Len(q)), key)
      BY <1>1, TimesSplit
  <2>2. Spots(first, key, k) = Spots(q, key, k)
      BY <1>2 DEF Spots
  <2>3. Times(first, key) = Cardinality(Spots(q, key, k))
      BY <1>2, <2>2 DEF Times
  <2>4. /\ Cardinality(Spots(q, key, k)) \in Nat
        /\ Cardinality(Spots(q, key, k)) = 0 <=> \A n \in 1..k : q[n] # key
      BY <1>1, SpotsFinite
  <2>5. Times(rest, key) \in Nat /\ Times(q, key) \in Nat
    <3>1. Len(rest) \in Nat
        BY <1>3, LenProperties
    <3>2. QED
        BY <1>1, <3>1, SpotsFinite DEF Times
  <2>6. QED
      BY <1>3, <1>4, <2>1, <2>3, <2>4, <2>5
<1>6. QED
    BY <1>2, <1>3, <1>4, <1>5 DEF first, rest

(***************************************************************************)
(* Ranks                                                                   *)
(***************************************************************************)
\* emb_order: atcIds of items of the corpus.
LEMMA EmbOrderIs ==
    ASSUME NEW q \in ToSet(Golden), NEW cache
    PROVE  EmbOrder(q, cache) \in Seq(ItemKeys)
<1> DEFINE S == {i \in ToSet(Corpus) : KeyOf[i] \in cache}
           with == Among(Order[q], S)
<1>1. Order[q] \in Seq(ToSet(Corpus))
    BY EvaluationAssumption DEF EvaluationAssumption
<1>2. EmbOrder(q, cache) = [n \in DOMAIN with |-> KeyOf[with[n]]]
    BY DEF EmbOrder
<1> HIDE DEF S
<1>3. with \in Seq(ToSet(Corpus))
    BY <1>1, AmongIs
<1> HIDE DEF with
<1>4. /\ Len(with) \in Nat /\ DOMAIN with = 1..Len(with)
      /\ \A n \in 1..Len(with) : with[n] \in ToSet(Corpus)
    BY <1>3, LenProperties, ElementOfSeq
<1>5. [n \in 1..Len(with) |-> KeyOf[with[n]]] \in [1..Len(with) -> ItemKeys]
    BY <1>4 DEF ItemKeys
<1>6. QED
    BY <1>2, <1>4, <1>5, IsASeq

\* rank_of finds the first place of the target, or says that there is none.
LEMMA RankIs ==
    ASSUME NEW X, NEW ids \in Seq(X), NEW target
    PROVE  \/ /\ RankOf(ids, target) = 0
              /\ \A n \in 1..Len(ids) : ids[n] # target
           \/ /\ RankOf(ids, target) \in 1..Len(ids)
              /\ ids[RankOf(ids, target)] = target
              /\ \A n \in 1..Len(ids) : ids[n] = target => RankOf(ids, target) <= n
<1> DEFINE at == {n \in DOMAIN ids : ids[n] = target}
<1>1. Len(ids) \in Nat /\ DOMAIN ids = 1..Len(ids)
    BY LenProperties
<1>2. RankOf(ids, target) = IF at = {} THEN 0 ELSE CHOOSE n \in at : \A m \in at : n <= m
    BY DEF RankOf
<1>3. CASE at = {}
    BY <1>1, <1>2, <1>3
<1>4. CASE at # {}
  <2>1. at \subseteq Nat
      BY <1>1
  <2> HIDE DEF at
  <2>2. \E n \in at : \A m \in at : n <= m
      BY <1>4, <2>1, LeastNat
  <2>3. RankOf(ids, target) \in at /\ \A m \in at : RankOf(ids, target) <= m
      BY <1>2, <1>4, <2>2
  <2>4. QED
      BY <1>1, <2>3 DEF at
<1>5. QED
    BY <1>3, <1>4

\* A line of the table that keeps the recall.
Keeps(r) == IF r.emb \in 1..r.k THEN r.new \in 1..r.k ELSE r.new = r.emb

LEMMA ScoreIs ==
    ASSUME NEW verdicts \in Verdicts, NEW n
    PROVE  ScoreAt(verdicts, n) \in Int
<1>1. PICK judged \in SUBSET Nat : verdicts \in [judged -> Scores]
    BY DEF Verdicts
<1>2. DOMAIN verdicts = judged
    BY <1>1
<1>3. \A m \in judged : verdicts[m] \in Scores
    BY <1>1
<1>4. Scores \subseteq Int
    BY EvaluationAssumption DEF EvaluationAssumption
<1>5. CASE n \in judged
    BY <1>2, <1>3, <1>4, <1>5 DEF ScoreAt
<1>6. CASE n \notin judged
    BY <1>2, <1>6 DEF ScoreAt
<1>7. QED
    BY <1>5, <1>6

\* The new order has the first k at other places, and the rest where it was.
LEMMA NewOrderIs ==
    ASSUME NEW order \in Seq(ItemKeys), NEW k \in Nat \ {0}, NEW verdicts \in Verdicts
    PROVE  LET new == NewOrder(order, k, verdicts)
           IN  /\ new \in Seq(ItemKeys) /\ Len(new) = Len(order)
               /\ \A n \in 1..Len(order) : n <= k => \E m \in 1..Len(order) : m <= k /\ new[n] = order[m]
               /\ \A m \in 1..Len(order) : m <= k => \E n \in 1..Len(order) : n <= k /\ new[n] = order[m]
               /\ \A n \in 1..Len(order) : n > k => new[n] = order[n]
<1> DEFINE L == Len(order)
           T == IF L < k THEN L ELSE k
           top == First(order, k)
           key == [n \in 1..T |-> ScoreAt(verdicts, n)]
           head == Sorted(top, key)
           rest == SubSeq(order, k + 1, Len(order))
           new == head \o rest
<1>1. L \in Nat /\ T \in Nat /\ T <= L /\ T <= k /\ (T < L => T = k) /\ k \in Nat
    BY LenProperties
<1>2. /\ top \in Seq(ItemKeys) /\ Len(top) = T
      /\ \A n \in 1..T : top[n] = order[n]
  <2>1. /\ First(order, k) \in Seq(ItemKeys) /\ Len(First(order, k)) \in Nat
        /\ Len(First(order, k)) <= k /\ Len(First(order, k)) <= Len(order)
        /\ Len(First(order, k)) < Len(order) => Len(First(order, k)) = k
        /\ \A n \in 1..Len(First(order, k)) : First(order, k)[n] = order[n]
      BY FirstIs
  <2> HIDE DEF top
  <2>2. Len(First(order, k)) = T
      BY <1>1, <2>1
  <2>3. QED
      BY <2>1, <2>2 DEF top
<1>3. key \in [1..T -> Int]
  <2>1. \A n \in 1..T : ScoreAt(verdicts, n) \in Int
      BY ScoreIs
  <2>2. QED
      BY <2>1
<1>4. NewOrder(order, k, verdicts) = new
  <2>1. DOMAIN top = 1..T
      BY <1>2, LenProperties
  <2>2. QED
      BY <2>1 DEF NewOrder, Regraded
<1> HIDE DEF key, top
<1>5. /\ head \in Seq(ItemKeys) /\ Len(head) = T
      /\ \A n \in 1..T : head[n] = top[Place(key, n)]
    BY <1>2, <1>3, SortedList
<1>6. /\ \A n \in 1..T : Place(key, n) \in 1..T
      /\ \A m \in 1..T : \E n \in 1..T : Place(key, n) = m
  <2> HIDE DEF T
  <2>1. QED
      BY <1>1, <1>3, Places
<1> HIDE DEF head
<1>7. /\ rest \in Seq(ItemKeys) /\ Len(rest) = L - T
      /\ \A n \in 1..(L - T) : rest[n] = order[T + n]
  <2>1. CASE L < k
    <3>1. rest = <<>>
        BY <1>1, <2>1, SubSeqEmpty
    <3>2. T = L /\ <<>> \in Seq(ItemKeys) /\ Len(<<>>) = 0
        BY <2>1, EmptySeq
    <3> HIDE DEF rest, T
    <3>3. QED
        BY <1>1, <3>1, <3>2
  <2>2. CASE ~ (L < k)
    <3>1. T = k
        BY <2>2
    <3>2. \A n \in (k + 1)..L : order[n] \in ItemKeys
        BY <1>1, ElementOfSeq
    <3>3. /\ rest \in Seq(ItemKeys) /\ Len(rest) = IF k + 1 <= L THEN L - (k + 1) + 1 ELSE 0
          /\ \A n \in 1..(L - (k + 1) + 1) : rest[n] = order[k + 1 + n - 1]
        BY <1>1, <3>2, SubSeqProperties
    <3> HIDE DEF rest, T, L
    <3>4. L - (k + 1) + 1 = L - k /\ (~ (k + 1 <= L) => L - k = 0)
        BY <1>1, <2>2
    <3>5. \A n \in 1..(L - k) : k + 1 + n - 1 = k + n
        BY <1>1
    <3>6. QED
        BY <1>1, <3>1, <3>3, <3>4, <3>5
  <2>3. QED
      BY <2>1, <2>2
<1> HIDE DEF rest
<1>8. /\ new \in Seq(ItemKeys) /\ Len(new) = T + (L - T)
      /\ \A n \in 1..(T + (L - T)) : new[n] = IF n <= T THEN head[n] ELSE rest[n - T]
  <2> HIDE DEF L, T
  <2>1. /\ head \o rest \in Seq(ItemKeys) /\ Len(head \o rest) = Len(head) + Len(rest)
        /\ \A n \in 1..(Len(head) + Len(rest)) :
               (head \o rest)[n] = IF n <= Len(head) THEN head[n] ELSE rest[n - Len(head)]
      BY <1>5, <1>7, ConcatProperties
  <2>2. QED
      BY <1>5, <1>7, <2>1
<1> HIDE DEF new, T
<1>9. T + (L - T) = L
    BY <1>1
<1>10. ASSUME NEW n \in 1..L, n <= k PROVE n \in 1..T
    BY <1>1, <1>10
<1>11. \A n \in 1..T : n \in 1..L /\ n <= k /\ n <= T
    BY <1>1
<1>12. ASSUME NEW n \in 1..L, n <= k PROVE \E m \in 1..L : m <= k /\ new[n] = order[m]
  <2>1. n \in 1..T /\ Place(key, n) \in 1..T
      BY <1>6, <1>10, <1>12
  <2>2. new[n] = order[Place(key, n)]
      BY <1>2, <1>5, <1>8, <1>9, <1>11, <2>1
  <2>3. QED
      BY <1>11, <2>1, <2>2
<1>13. ASSUME NEW m \in 1..L, m <= k PROVE \E n \in 1..L : n <= k /\ new[n] = order[m]
  <2>1. PICK n \in 1..T : Place(key, n) = m
      BY <1>6, <1>10, <1>13
  <2>2. m \in 1..T
      BY <1>10, <1>13
  <2>3. new[n] = order[m]
      BY <1>2, <1>5, <1>8, <1>9, <1>11, <2>1, <2>2
  <2>4. QED
      BY <1>11, <2>1, <2>3
<1>14. ASSUME NEW n \in 1..L, n > k PROVE new[n] = order[n]
  <2>1. ~ (n <= T) /\ n - T \in 1..(L - T) /\ T + (n - T) = n
      BY <1>1, <1>14
  <2>2. QED
      BY <1>7, <1>8, <1>9, <2>1
<1>15. QED
    BY <1>4, <1>8, <1>9, <1>12, <1>13, <1>14

LEMMA RankKept ==
    ASSUME NEW order \in Seq(ItemKeys), NEW k \in Nat \ {0}, NEW verdicts \in Verdicts, NEW target
    PROVE  LET emb == RankOf(order, target)
               new == RankOf(NewOrder(order, k, verdicts), target)
           IN  /\ emb \in Nat /\ new \in Nat
               /\ IF emb \in 1..k THEN new \in 1..k ELSE new = emb
<1> DEFINE L == Len(order)
           ids == NewOrder(order, k, verdicts)
           emb == RankOf(order, target)
           new == RankOf(ids, target)
<1>1. /\ ids \in Seq(ItemKeys) /\ Len(ids) = L
      /\ \A n \in 1..L : n <= k => \E m \in 1..L : m <= k /\ ids[n] = order[m]
      /\ \A m \in 1..L : m <= k => \E n \in 1..L : n <= k /\ ids[n] = order[m]
      /\ \A n \in 1..L : n > k => ids[n] = order[n]
    BY NewOrderIs
<1>2. L \in Nat /\ k \in Nat
    BY LenProperties
<1> HIDE DEF ids
<1>3. \/ emb = 0 /\ \A n \in 1..L : order[n] # target
      \/ /\ emb \in 1..L /\ order[emb] = target
         /\ \A n \in 1..L : order[n] = target => emb <= n
    BY RankIs
<1>4. \/ new = 0 /\ \A n \in 1..L : ids[n] # target
      \/ /\ new \in 1..L /\ ids[new] = target
         /\ \A n \in 1..L : ids[n] = target => new <= n
    BY <1>1, RankIs
<1> HIDE DEF L, emb, new
<1>5. emb \in Nat /\ new \in Nat
    BY <1>2, <1>3, <1>4
<1>6. CASE emb \in 1..k
  <2>1. emb \in 1..L /\ emb <= k /\ order[emb] = target
      BY <1>2, <1>3, <1>6
  <2>2. PICK n \in 1..L : n <= k /\ ids[n] = target
      BY <1>1, <2>1
  <2>3. new \in 1..L /\ new <= n
      BY <1>4, <2>2
  <2>4. new \in 1..k
      BY <1>2, <2>2, <2>3
  <2>5. QED
      BY <1>5, <1>6, <2>4 DEF emb, new, ids
<1>7. CASE emb \notin 1..k
  <2>1. \A m \in 1..L : m <= k => order[m] # target
    <3> SUFFICES ASSUME NEW m \in 1..L, m <= k, order[m] = target PROVE FALSE
        OBVIOUS
    <3>1. emb \in 1..L /\ emb <= m
        BY <1>3
    <3>2. QED
        BY <1>2, <1>7, <3>1
  <2>2. ASSUME NEW n \in 1..L, n <= k PROVE ids[n] # target
    <3>1. PICK m \in 1..L : m <= k /\ ids[n] = order[m]
        BY <1>1, <2>2
    <3>2. QED
        BY <2>1, <3>1
  <2>3. \A n \in 1..L : ids[n] = target <=> order[n] = target
    <3> TAKE n \in 1..L
    <3>1. n <= k \/ n > k
        BY <1>2
    <3>2. QED
        BY <1>1, <2>1, <2>2, <3>1
  <2>4. new = emb
      BY <1>2, <1>3, <1>4, <2>3
  <2>5. QED
      BY <1>5, <1>7, <2>4 DEF emb, new, ids
<1>8. QED
    BY <1>6, <1>7

(***************************************************************************)
(* The types hold                                                          *)
(***************************************************************************)
LEMMA NextPhaseTyped ==
    ASSUME NEW e \in EmbedRun
    PROVE  NextPhase(e) \in EmbedRun /\ NextPhase(e).cache = e.cache
<1>1. /\ Missing(CorpusKeys, e.cache) \in Seq(EmbedKeys)
      /\ Missing(Golden, e.cache) \in Seq(EmbedKeys)
    BY ListsTyped, MissingIs
<1>2. QED
    BY <1>1 DEF NextPhase, EmbedRun

LEMMA PayTyped ==
    ASSUME paid \in [Keys -> Nat], NEW X, NEW part \in Seq(X), Pay(part)
    PROVE  /\ paid' \in [Keys -> Nat]
           /\ \A key \in Keys : /\ paid'[key] = paid[key] + Times(part, key)
                                /\ Times(part, key) \in Nat
<1>1. \A key \in Keys : Times(part, key) \in Nat
    BY TimesNone
<1>2. paid' = [key \in Keys |-> paid[key] + Times(part, key)]
    BY DEF Pay
<1>3. QED
    BY <1>1, <1>2

LEMMA SaveTyped ==
    ASSUME dropped \in [Keys -> Nat], NEW cache \in SUBSET Keys, Save(cache)
    PROVE  /\ saved' = cache /\ dropped' \in [Keys -> Nat]
           /\ \A key \in Keys : /\ dropped'[key] >= dropped[key]
                                /\ key \in saved \ cache => dropped'[key] = dropped[key] + 1
<1>1. dropped' = [key \in Keys |-> dropped[key] + IF key \in saved \ cache THEN 1 ELSE 0]
    BY DEF Save
<1>2. \A key \in Keys : dropped[key] \in Nat
    OBVIOUS
<1>3. QED
    BY <1>1, <1>2 DEF Save

LEMMA SpentTyped ==
    ASSUME spent \in [runs : Nat, faults : Nat], Started \/ Fault \/ UNCHANGED spent
    PROVE  /\ spent' \in [runs : Nat, faults : Nat]
           /\ spent'.faults >= spent.faults
           /\ Fault => spent'.faults = spent.faults + 1
BY DEF Started, Fault

\* A chunk that is embedded becomes part of the cache and of the file.
LEMMA ChunkIs ==
    ASSUME Typed, EmbedChunk
    PROVE  /\ embed \in EmbedRun /\ embed' \in EmbedRun
           /\ embed'.cache = embed.cache \cup ToSet(FirstPart(embed.left))
           /\ embed'.left = Remaining(embed.left)
           /\ embed'.cache \subseteq Keys /\ ToSet(FirstPart(embed.left)) \subseteq EmbedKeys
           /\ Pay(FirstPart(embed.left)) /\ Save(embed'.cache)
           /\ UNCHANGED <<grades, boost, grade, report, spent>>
<1>1. embed \in EmbedRun
    BY DEF EmbedChunk, Typed
<1>2. /\ embed.left \in Seq(EmbedKeys) /\ embed.cache \subseteq Keys
    BY <1>1 DEF EmbedRun
<1>3. /\ Remaining(embed.left) \in Seq(EmbedKeys)
      /\ ToSet(FirstPart(embed.left)) \subseteq EmbedKeys
    BY <1>2, PartsAre
<1> DEFINE cache == embed.cache \cup ToSet(FirstPart(embed.left))
<1>4. cache \subseteq Keys
    BY <1>2, <1>3, KeysAre
<1>5. /\ embed' = [embed EXCEPT !.cache = cache, !.left = Remaining(@)] /\ Save(cache)
      /\ Pay(FirstPart(embed.left)) /\ UNCHANGED <<grades, boost, grade, report, spent>>
    BY DEF EmbedChunk
<1> HIDE DEF cache
<1>6. /\ embed' \in EmbedRun /\ embed'.cache = cache /\ embed'.left = Remaining(embed.left)
    BY <1>1, <1>3, <1>4, <1>5 DEF EmbedRun
<1>7. QED
    BY <1>1, <1>3, <1>4, <1>5, <1>6 DEF cache

\* A vector of run_boost: it has it, or it is embedded and saved, or the request has failed.
LEMMA BoostIs ==
    ASSUME Typed, BoostVector
    PROVE  /\ boost \in BoostRun /\ UNCHANGED <<grades, embed, grade, report>>
           /\ \E key \in ToSet(Hard) :
              \/ /\ boost' \in BoostRun /\ boost'.cache = boost.cache
                 /\ UNCHANGED <<saved, paid, dropped, spent>>
              \/ /\ key \notin boost.cache
                 /\ boost' \in BoostRun /\ boost'.cache = boost.cache \cup {key}
                 /\ boost'.cache \subseteq Keys
                 /\ Pay(<<key>>) /\ Save(boost'.cache) /\ UNCHANGED spent
              \/ /\ key \notin boost.cache
                 /\ boost' \in {boost, None} /\ Fault
                 /\ Pay(<<key>>) \/ UNCHANGED paid
                 /\ UNCHANGED <<saved, dropped>>
<1>1. boost \in BoostRun /\ boost.left # <<>>
    BY DEF BoostVector, Typed
<1>2. boost.left \in Seq(ToSet(Hard)) /\ boost.cache \subseteq Keys
    BY <1>1 DEF BoostRun
<1> DEFINE key == Head(boost.left)
<1>3. key \in ToSet(Hard) /\ Tail(boost.left) \in Seq(ToSet(Hard))
    BY <1>1, <1>2
<1>4. boost.cache \cup {key} \subseteq Keys
    BY <1>2, <1>3, KeysAre
<1>5. UNCHANGED <<grades, embed, grade, report>>
    BY DEF BoostVector
<1>6. CASE key \in boost.cache
  <2>1. /\ boost' = [boost EXCEPT !.left = Tail(@)]
        /\ UNCHANGED <<saved, paid, dropped, spent>>
      BY <1>6 DEF BoostVector
  <2> HIDE DEF key
  <2>2. boost' \in BoostRun /\ boost'.cache = boost.cache
      BY <1>1, <1>3, <2>1 DEF BoostRun
  <2>3. QED
      BY <1>1, <1>3, <1>5, <2>1, <2>2
<1>7. CASE key \notin boost.cache
  <2>1. \/ /\ Pay(<<key>>) /\ Save(boost.cache \cup {key})
           /\ boost' = [cache |-> boost.cache \cup {key}, left |-> Tail(boost.left)]
           /\ UNCHANGED spent
        \/ /\ Fault /\ boost' \in {boost, None}
           /\ Pay(<<key>>) \/ UNCHANGED paid
           /\ UNCHANGED <<saved, dropped>>
      BY <1>7 DEF BoostVector
  <2> HIDE DEF key
  <2>2. CASE /\ Pay(<<key>>) /\ Save(boost.cache \cup {key})
             /\ boost' = [cache |-> boost.cache \cup {key}, left |-> Tail(boost.left)]
             /\ UNCHANGED spent
    <3>1. boost' \in BoostRun /\ boost'.cache = boost.cache \cup {key}
        BY <1>3, <1>4, <2>2 DEF BoostRun
    <3>2. boost'.cache \subseteq Keys /\ Save(boost'.cache)
        BY <1>4, <2>2, <3>1
    <3>3. QED
        BY <1>1, <1>3, <1>5, <1>7, <2>2, <3>1, <3>2
  <2>3. CASE /\ Fault /\ boost' \in {boost, None}
             /\ Pay(<<key>>) \/ UNCHANGED paid
             /\ UNCHANGED <<saved, dropped>>
      BY <1>1, <1>3, <1>5, <1>7, <2>3
  <2>4. QED
      BY <2>1, <2>2, <2>3
<1>8. QED
    BY <1>6, <1>7
\* The query that is graded now.
LEMMA QueryIs ==
    ASSUME Typed, grade # None, grade.left # <<>>
    PROVE  /\ grade \in GradeRun /\ grade.k \in Ks /\ grade.k \in Nat \ {0}
           /\ Head(grade.left) \in ToSet(Golden)
           /\ [grade EXCEPT !.left = Tail(@)] \in GradeRun
<1>1. grade \in GradeRun
    BY DEF Typed
<1>2. grade.left \in Seq(ToSet(Golden)) /\ grade.k \in Ks
    BY <1>1 DEF GradeRun
<1>3. Head(grade.left) \in ToSet(Golden) /\ Tail(grade.left) \in Seq(ToSet(Golden))
    BY <1>2
<1>4. grade.k \in Nat \ {0}
    BY <1>2, EvaluationAssumption DEF EvaluationAssumption
<1>5. [grade EXCEPT !.left = Tail(@)] \in GradeRun
    BY <1>1, <1>3 DEF GradeRun
<1>6. QED
    BY <1>1, <1>2, <1>3, <1>4, <1>5

\* A line is printed after the others.
LEMMA PrintedIs ==
    ASSUME Typed, grade.k \in Ks, NEW q \in ToSet(Golden), NEW emb \in Nat, NEW new \in Nat
    PROVE  LET line == [query |-> q, k |-> grade.k, emb |-> emb, new |-> new]
           IN  /\ Printed(q, emb, new) \in Seq(Line)
               /\ \A n \in DOMAIN Printed(q, emb, new) :
                      \/ n \in DOMAIN report /\ Printed(q, emb, new)[n] = report[n]
                      \/ Printed(q, emb, new)[n] = line
<1> DEFINE line == [query |-> q, k |-> grade.k, emb |-> emb, new |-> new]
<1>1. line \in Line
    BY DEF Line
<1>2. report \in Seq(Line)
    BY DEF Typed
<1>3. Printed(q, emb, new) = Append(report, line)
    BY DEF Printed
<1> HIDE DEF line
<1>4. /\ Append(report, line) \in Seq(Line)
      /\ DOMAIN Append(report, line) = 1..(Len(report) + 1)
      /\ DOMAIN report = 1..Len(report) /\ Len(report) \in Nat
      /\ \A n \in 1..Len(report) : Append(report, line)[n] = report[n]
      /\ Append(report, line)[Len(report) + 1] = line
    BY <1>1, <1>2
<1>5. \A n \in 1..(Len(report) + 1) : n \in 1..Len(report) \/ n = Len(report) + 1
    BY <1>4
<1>6. QED
    BY <1>3, <1>4, <1>5 DEF line

LEMMA InitTyped == Init => Typed
<1> SUFFICES ASSUME Init PROVE Typed
    OBVIOUS
<1>1. Zero \in [Keys -> Nat]
    BY DEF Zero
<1>2. spent \in [runs : Nat, faults : Nat] /\ report \in Seq(Line)
    BY DEF Init
<1>3. grades \in [ToSet(Golden) -> Verdicts \cup {None, Bad}]
    BY DEF Init
<1>4. QED
    BY <1>1, <1>2, <1>3 DEF Init, Typed

LEMMA EmbedTyped ==
    ASSUME Typed, EmbedStart \/ EmbedChunk \/ EmbedFails \/ EmbedPhase
    PROVE  Typed'
<1>1. CASE EmbedStart
  <2>1. PICK full \in BOOLEAN : embed' = [cache |-> saved, full |-> full, phase |-> "targets",
                                          left |-> Missing(Targets, saved)]
      BY <1>1 DEF EmbedStart
  <2>2. Missing(Targets, saved) \in Seq(EmbedKeys) /\ saved \subseteq Keys
      BY ListsTyped, MissingIs DEF Typed
  <2>3. embed' \in EmbedRun
      BY <2>1, <2>2 DEF EmbedRun
  <2>4. spent' \in [runs : Nat, faults : Nat]
      BY <1>1, SpentTyped DEF EmbedStart, Typed
  <2>5. QED
      BY <1>1, <2>3, <2>4 DEF EmbedStart, Typed
<1>2. CASE EmbedChunk
  <2>1. /\ embed \in EmbedRun /\ embed' \in EmbedRun /\ embed'.cache \in SUBSET Keys
        /\ Pay(FirstPart(embed.left)) /\ Save(embed'.cache)
        /\ UNCHANGED <<grades, boost, grade, report, spent>>
      BY <1>2, ChunkIs
  <2>2. embed.left \in Seq(EmbedKeys)
      BY <2>1 DEF EmbedRun
  <2>3. FirstPart(embed.left) \in Seq(EmbedKeys)
      BY <2>2, PartsAre
  <2>4. paid \in [Keys -> Nat] /\ dropped \in [Keys -> Nat]
      BY DEF Typed
  <2>5. paid' \in [Keys -> Nat]
      BY <2>1, <2>3, <2>4, PayTyped
  <2>6. dropped' \in [Keys -> Nat] /\ saved' \subseteq Keys
      BY <2>1, <2>4, SaveTyped
  <2>7. QED
      BY <2>1, <2>5, <2>6 DEF Typed
<1>3. CASE EmbedFails
  <2>1. embed \in EmbedRun /\ paid \in [Keys -> Nat]
      BY <1>3 DEF EmbedFails, Typed
  <2>2. embed' \in EmbedRun \cup {None}
      BY <1>3, <2>1, NextPhaseTyped DEF EmbedFails
  <2>3. FirstPart(embed.left) \in Seq(EmbedKeys)
      BY <2>1, PartsAre DEF EmbedRun
  <2>4. paid' \in [Keys -> Nat]
      BY <1>3, <2>1, <2>3, PayTyped DEF EmbedFails
  <2>5. spent' \in [runs : Nat, faults : Nat]
      BY <1>3, SpentTyped DEF EmbedFails, Typed
  <2>6. QED
      BY <1>3, <2>2, <2>4, <2>5 DEF EmbedFails, Typed
<1>4. CASE EmbedPhase
  <2>1. embed \in EmbedRun
      BY <1>4 DEF EmbedPhase, Typed
  <2>2. embed' \in EmbedRun \cup {None}
      BY <1>4, <2>1, NextPhaseTyped DEF EmbedPhase
  <2>3. QED
      BY <1>4, <2>2 DEF EmbedPhase, Typed
<1>5. QED
    BY <1>1, <1>2, <1>3, <1>4

LEMMA BoostTyped ==
    ASSUME Typed, BoostStart \/ BoostVector \/ BoostEnd
    PROVE  Typed'
<1>1. CASE BoostStart
  <2>1. boost' \in BoostRun
      BY <1>1, ListsTyped DEF BoostStart, BoostRun, Typed
  <2>2. spent' \in [runs : Nat, faults : Nat]
      BY <1>1, SpentTyped DEF BoostStart, Typed
  <2>3. QED
      BY <1>1, <2>1, <2>2 DEF BoostStart, Typed
<1>2. CASE BoostVector
  <2>1. boost \in BoostRun /\ UNCHANGED <<grades, embed, grade, report>>
      BY <1>2, BoostIs
  <2>2. PICK key \in ToSet(Hard) :
              \/ /\ boost' \in BoostRun /\ boost'.cache = boost.cache
                 /\ UNCHANGED <<saved, paid, dropped, spent>>
              \/ /\ key \notin boost.cache
                 /\ boost' \in BoostRun /\ boost'.cache = boost.cache \cup {key}
                 /\ boost'.cache \subseteq Keys
                 /\ Pay(<<key>>) /\ Save(boost'.cache) /\ UNCHANGED spent
              \/ /\ key \notin boost.cache
                 /\ boost' \in {boost, None} /\ Fault
                 /\ Pay(<<key>>) \/ UNCHANGED paid
                 /\ UNCHANGED <<saved, dropped>>
      BY <1>2, BoostIs
  <2>3. /\ paid \in [Keys -> Nat] /\ dropped \in [Keys -> Nat] /\ <<key>> \in Seq(ToSet(Hard))
        /\ spent \in [runs : Nat, faults : Nat] /\ saved \subseteq Keys
      BY DEF Typed
  <2>4. Pay(<<key>>) => paid' \in [Keys -> Nat]
      BY <2>3, PayTyped
  <2>5. Save(boost'.cache) /\ boost'.cache \subseteq Keys
            => dropped' \in [Keys -> Nat] /\ saved' \subseteq Keys
      BY <2>3, SaveTyped
  <2>6. Fault => spent' \in [runs : Nat, faults : Nat]
      BY <2>3, SpentTyped
  <2>7. boost' \in BoostRun \cup {None} /\ paid' \in [Keys -> Nat]
      BY <2>1, <2>2, <2>3, <2>4
  <2>8. dropped' \in [Keys -> Nat] /\ saved' \subseteq Keys /\ spent' \in [runs : Nat, faults : Nat]
      BY <2>2, <2>3, <2>5, <2>6
  <2>9. QED
      BY <2>1, <2>7, <2>8 DEF Typed
<1>3. CASE BoostEnd
    BY <1>3 DEF BoostEnd, Typed
<1>4. QED
    BY <1>1, <1>2, <1>3

\* The ranks that GradeApply prints.
LEMMA ApplyIs ==
    ASSUME Typed, GradeApply
    PROVE  \E emb \in Nat, new \in Nat :
               /\ report' = Printed(Head(grade.left), emb, new)
               /\ IF emb \in 1..grade.k THEN new \in 1..grade.k ELSE new = emb
<1> DEFINE q == Head(grade.left)
           order == EmbOrder(q, grade.cache)
           emb == RankOf(order, Expected[q])
           new == RankOf(NewOrder(order, grade.k, grades[q]), Expected[q])
<1>1. /\ grade # None /\ grade.left # <<>> /\ grades[q] \notin {None, Bad}
      /\ report' = Printed(q, emb, new)
    BY DEF GradeApply
<1>2. q \in ToSet(Golden) /\ grade.k \in Nat \ {0}
    BY <1>1, QueryIs
<1> HIDE DEF q
<1>3. grades[q] \in Verdicts
    BY <1>1, <1>2 DEF Typed
<1>4. order \in Seq(ItemKeys)
    BY <1>2, EmbOrderIs
<1> HIDE DEF order
<1>5. /\ emb \in Nat /\ new \in Nat
      /\ IF emb \in 1..grade.k THEN new \in 1..grade.k ELSE new = emb
    BY <1>2, <1>3, <1>4, RankKept
<1>6. QED
    BY <1>1, <1>5 DEF q

LEMMA GradeTyped ==
    ASSUME Typed, GradeStart \/ GradeAbsent \/ GradeAsk \/ GradeApply \/ GradeEnd
    PROVE  Typed'
<1>1. CASE GradeStart
  <2>1. grade' \in GradeRun
      BY <1>1, ListsTyped DEF GradeStart, GradeRun, Typed
  <2>2. spent' \in [runs : Nat, faults : Nat]
      BY <1>1, SpentTyped DEF GradeStart, Typed
  <2>3. QED
      BY <1>1, <2>1, <2>2 DEF GradeStart, Typed
<1>2. CASE GradeAbsent
  <2>1. /\ grade # None /\ grade.left # <<>> /\ report' = Printed(Head(grade.left), 0, 0)
        /\ grade' = [grade EXCEPT !.left = Tail(@)]
        /\ UNCHANGED <<saved, grades, embed, boost, spent, paid, dropped>>
      BY <1>2 DEF GradeAbsent
  <2>2. /\ Head(grade.left) \in ToSet(Golden) /\ grade.k \in Ks
        /\ [grade EXCEPT !.left = Tail(@)] \in GradeRun
      BY <2>1, QueryIs
  <2>3. Printed(Head(grade.left), 0, 0) \in Seq(Line)
      BY <2>2, PrintedIs
  <2>4. QED
      BY <2>1, <2>2, <2>3 DEF Typed
<1>3. CASE GradeAsk
  <2> DEFINE q == Head(grade.left)
             order == EmbOrder(q, grade.cache)
             shown == First(order, grade.k)
  <2>1. /\ grade # None /\ grade.left # <<>>
        /\ UNCHANGED <<saved, embed, boost, grade, report, spent, paid, dropped>>
        /\ \/ grades' = [grades EXCEPT ![q] = Bad]
           \/ \E judged \in SUBSET DOMAIN shown :
              \E verdicts \in [judged -> Scores] : grades' = [grades EXCEPT ![q] = verdicts]
      BY <1>3 DEF GradeAsk
  <2>2. q \in ToSet(Golden) /\ grade.k \in Nat
      BY <2>1, QueryIs
  <2> HIDE DEF q
  <2>3. order \in Seq(ItemKeys)
      BY <2>2, EmbOrderIs
  <2> HIDE DEF order
  <2>4. shown \in Seq(ItemKeys)
      BY <2>2, <2>3, FirstIs
  <2> HIDE DEF shown
  <2>5. DOMAIN shown \subseteq Nat
      BY <2>4
  <2>6. \E verdicts \in Verdicts \cup {Bad} : grades' = [grades EXCEPT ![q] = verdicts]
      BY <2>1, <2>5 DEF Verdicts
  <2>7. grades' \in [ToSet(Golden) -> Verdicts \cup {None, Bad}]
      BY <2>2, <2>6 DEF Typed
  <2>8. QED
      BY <2>1, <2>7 DEF Typed
<1>4. CASE GradeApply
  <2>1. /\ grade # None /\ grade.left # <<>>
        /\ grade' = [grade EXCEPT !.left = Tail(@)]
        /\ UNCHANGED <<saved, grades, embed, boost, spent, paid, dropped>>
      BY <1>4 DEF GradeApply
  <2>2. /\ Head(grade.left) \in ToSet(Golden) /\ grade.k \in Ks
        /\ [grade EXCEPT !.left = Tail(@)] \in GradeRun
      BY <2>1, QueryIs
  <2>3. PICK emb \in Nat, new \in Nat : report' = Printed(Head(grade.left), emb, new)
      BY <1>4, ApplyIs
  <2>4. Printed(Head(grade.left), emb, new) \in Seq(Line)
      BY <2>2, PrintedIs
  <2>5. QED
      BY <2>1, <2>2, <2>3, <2>4 DEF Typed
<1>5. CASE GradeEnd
  <2>1. Fault \/ UNCHANGED spent
      BY <1>5 DEF GradeEnd
  <2>2. spent' \in [runs : Nat, faults : Nat]
      BY <2>1, SpentTyped DEF Typed
  <2>3. QED
      BY <1>5, <2>2 DEF GradeEnd, Typed
<1>6. QED
    BY <1>1, <1>2, <1>3, <1>4, <1>5

LEMMA NextTyped == Typed /\ [Next]_vars => Typed'
<1> SUFFICES ASSUME Typed, [Next]_vars PROVE Typed'
    OBVIOUS
<1>1. CASE UNCHANGED vars
    BY <1>1 DEF vars, Typed
<1>2. CASE Next
    BY <1>2, EmbedTyped, BoostTyped, GradeTyped DEF Next
<1>3. QED
    BY <1>1, <1>2

(***************************************************************************)
(* What is reported                                                        *)
(***************************************************************************)
AllKeep == \A n \in DOMAIN report : Keeps(report[n])

LEMMA PrintedKeeps ==
    ASSUME Typed, AllKeep, grade.k \in Ks, NEW q \in ToSet(Golden), NEW emb \in Nat, NEW new \in Nat,
           IF emb \in 1..grade.k THEN new \in 1..grade.k ELSE new = emb,
           report' = Printed(q, emb, new)
    PROVE  AllKeep'
<1>1. PICK line : line = [query |-> q, k |-> grade.k, emb |-> emb, new |-> new]
    OBVIOUS
<1>2. line.k = grade.k /\ line.emb = emb /\ line.new = new
    BY <1>1
<1>3. Keeps(line)
    BY <1>2 DEF Keeps
<1>4. \A n \in DOMAIN Printed(q, emb, new) :
          \/ n \in DOMAIN report /\ Printed(q, emb, new)[n] = report[n]
          \/ Printed(q, emb, new)[n] = line
    BY <1>1, PrintedIs
<1>5. QED
    BY <1>3, <1>4 DEF AllKeep

LEMMA NextKeeps == Typed /\ AllKeep /\ [Next]_vars => AllKeep'
<1> SUFFICES ASSUME Typed, AllKeep, [Next]_vars PROVE AllKeep'
    OBVIOUS
<1>1. CASE UNCHANGED report
    BY <1>1 DEF AllKeep
<1>2. CASE GradeStart
  <2>1. report' = <<>>
      BY <1>2 DEF GradeStart
  <2>2. QED
      BY <2>1 DEF AllKeep
<1>3. CASE GradeAbsent
  <2>1. grade # None /\ grade.left # <<>> /\ report' = Printed(Head(grade.left), 0, 0)
      BY <1>3 DEF GradeAbsent
  <2>2. Head(grade.left) \in ToSet(Golden) /\ grade.k \in Ks /\ grade.k \in Nat
      BY <2>1, QueryIs
  <2>3. 0 \notin 1..grade.k
      BY <2>2
  <2>4. QED
      BY <2>1, <2>2, <2>3, PrintedKeeps
<1>4. CASE GradeApply
  <2>1. grade # None /\ grade.left # <<>>
      BY <1>4 DEF GradeApply
  <2>2. Head(grade.left) \in ToSet(Golden) /\ grade.k \in Ks
      BY <2>1, QueryIs
  <2>3. PICK emb \in Nat, new \in Nat :
               /\ report' = Printed(Head(grade.left), emb, new)
               /\ IF emb \in 1..grade.k THEN new \in 1..grade.k ELSE new = emb
      BY <1>4, ApplyIs
  <2>4. QED
      BY <2>2, <2>3, PrintedKeeps
<1>5. CASE EmbedStart \/ EmbedChunk \/ EmbedFails \/ EmbedPhase
  <2>1. UNCHANGED report
      BY <1>5 DEF EmbedStart, EmbedChunk, EmbedFails, EmbedPhase
  <2>2. QED
      BY <1>1, <2>1
<1>6. CASE BoostStart \/ BoostVector \/ BoostEnd \/ GradeAsk \/ GradeEnd
  <2>1. UNCHANGED report
      BY <1>6 DEF BoostStart, BoostVector, BoostEnd, GradeAsk, GradeEnd
  <2>2. QED
      BY <1>1, <2>1
<1>7. QED
  <2>1. UNCHANGED vars => UNCHANGED report
      BY DEF vars
  <2>2. QED
      BY <1>1, <1>2, <1>3, <1>4, <1>5, <1>6, <2>1 DEF Next

\* Whatever the verdicts are (of another k, of another corpus, partial, or none), judging the
\* first k moves items only among the first k: the reported recall at k is the one before.
\* (run_grade: the re-ranking of the first k, rank_of.)
THEOREM RecallIsKept == Spec => []RecallAtKKept
<1>1. Init => Typed /\ AllKeep
  <2>1. Init => AllKeep
      BY DEF Init, AllKeep
  <2>2. QED
      BY <2>1, InitTyped
<1>2. (Typed /\ AllKeep) /\ [Next]_vars => (Typed /\ AllKeep)'
    BY NextTyped, NextKeeps
<1>3. Typed /\ AllKeep => RecallAtKKept
    BY DEF AllKeep, Keeps, RecallAtKKept
<1>4. QED
    BY <1>1, <1>2, <1>3, PTL DEF Spec

(***************************************************************************)
(* What is paid for                                                        *)
(***************************************************************************)
\* The two scripts that embed have their own keys.  Of its own keys the cache of a running
\* script has at least what the file has, and of the keys of the other at most that.
CachesInv ==
    /\ embed # None => /\ saved \cap EmbedKeys \subseteq embed.cache
                       /\ embed.cache \cap ToSet(Hard) \subseteq saved
    /\ boost # None => /\ saved \cap ToSet(Hard) \subseteq boost.cache
                       /\ boost.cache \cap EmbedKeys \subseteq saved

LEMMA CachesStep ==
    ASSUME Typed, CachesInv, [Next]_vars
    PROVE  CachesInv'
<1>1. CASE EmbedStart
    BY <1>1 DEF EmbedStart, CachesInv
<1>2. CASE EmbedChunk
  <2>1. /\ embed # None /\ UNCHANGED boost
        /\ embed'.cache = embed.cache \cup ToSet(FirstPart(embed.left))
        /\ ToSet(FirstPart(embed.left)) \subseteq EmbedKeys /\ Save(embed'.cache)
      BY <1>2, ChunkIs DEF EmbedChunk
  <2>2. saved' = embed'.cache
      BY <2>1 DEF Save
  <2>3. \A key \in ToSet(FirstPart(embed.left)) : key \notin ToSet(Hard)
      BY <2>1, KeysAre
  <2> DEFINE part == ToSet(FirstPart(embed.left))
  <2> HIDE DEF part
  <2>4. embed'.cache = embed.cache \cup part /\ \A key \in part : key \notin ToSet(Hard)
      BY <2>1, <2>3 DEF part
  <2>5. QED
      BY <2>1, <2>2, <2>4 DEF CachesInv
<1>3. CASE EmbedFails \/ EmbedPhase
  <2>1. embed # None /\ embed' \in {embed, None, NextPhase(embed)} /\ UNCHANGED <<saved, boost>>
      BY <1>3 DEF EmbedFails, EmbedPhase
  <2>2. embed \in EmbedRun
      BY <2>1 DEF Typed
  <2>3. NextPhase(embed).cache = embed.cache
      BY <2>2, NextPhaseTyped
  <2>4. QED
      BY <2>1, <2>3 DEF CachesInv
<1>4. CASE BoostStart
    BY <1>4 DEF BoostStart, CachesInv
<1>5. CASE BoostVector
  <2>1. boost # None /\ UNCHANGED embed
      BY <1>5 DEF BoostVector
  <2>2. PICK key \in ToSet(Hard) :
              \/ boost'.cache = boost.cache /\ UNCHANGED saved
              \/ boost'.cache = boost.cache \cup {key} /\ Save(boost'.cache)
              \/ boost' \in {boost, None} /\ UNCHANGED saved
      BY <1>5, BoostIs
  <2>3. key \notin EmbedKeys
      BY KeysAre
  <2>4. Save(boost'.cache) => saved' = boost'.cache
      BY DEF Save
  <2>5. CASE boost'.cache = boost.cache /\ UNCHANGED saved
      BY <2>1, <2>5 DEF CachesInv
  <2>6. CASE boost'.cache = boost.cache \cup {key} /\ Save(boost'.cache)
      BY <2>1, <2>3, <2>4, <2>6 DEF CachesInv
  <2>7. CASE boost' \in {boost, None} /\ UNCHANGED saved
      BY <2>1, <2>7 DEF CachesInv
  <2>8. QED
      BY <2>2, <2>5, <2>6, <2>7
<1>6. CASE BoostEnd
    BY <1>6 DEF BoostEnd, CachesInv
<1>7. CASE GradeStart \/ GradeAbsent \/ GradeAsk \/ GradeApply \/ GradeEnd
  <2>1. UNCHANGED <<saved, embed, boost>>
      BY <1>7 DEF GradeStart, GradeAbsent, GradeAsk, GradeApply, GradeEnd
  <2>2. QED
      BY <2>1 DEF CachesInv
<1>8. CASE UNCHANGED vars
    BY <1>8 DEF vars, CachesInv
<1>9. QED
    BY <1>1, <1>2, <1>3, <1>4, <1>5, <1>6, <1>7, <1>8 DEF Next

\* What n goes of the scripts may pay for a key.
Room(key, n) == Copies(key) * n

Tries(key) == dropped[key] + spent.faults

LEMMA CopiesIs ==
    ASSUME NEW key
    PROVE  /\ Copies(key) \in Nat \ {0}
           /\ \A q \in {Targets, CorpusKeys, Golden} :
                  Times(q, key) \in Nat /\ Times(q, key) <= Copies(key)
<1>1. PICK t : t = Times(Targets, key)
    OBVIOUS
<1>2. PICK c : c = Times(CorpusKeys, key)
    OBVIOUS
<1>3. PICK g : g = Times(Golden, key)
    OBVIOUS
<1>4. t \in Nat /\ c \in Nat /\ g \in Nat
    BY <1>1, <1>2, <1>3, ListsTyped, TimesNone
<1>5. Copies(key) = IF t > c + g THEN t ELSE IF c + g = 0 THEN 1 ELSE c + g
    BY <1>1, <1>2, <1>3 DEF Copies
<1>6. Copies(key) \in Nat \ {0} /\ t <= Copies(key) /\ c <= Copies(key) /\ g <= Copies(key)
    BY <1>4, <1>5
<1>7. QED
    BY <1>1, <1>2, <1>3, <1>4, <1>6

LEMMA Rooms ==
    ASSUME NEW key, NEW n \in Nat
    PROVE  /\ Room(key, n) \in Nat /\ Room(key, n + 1) \in Nat
           /\ Room(key, n + 1) = Room(key, n) + Copies(key)
<1>1. PICK c \in Nat : c = Copies(key)
    BY CopiesIs
<1>2. c * n \in Nat /\ c * (n + 1) = c * n + c
    BY <1>1
<1>3. QED
    BY <1>1, <1>2 DEF Room

LEMMA RoomGrows ==
    ASSUME NEW key, NEW n \in Nat, NEW m \in Nat, n <= m
    PROVE  Room(key, n) <= Room(key, m)
<1>1. PICK c \in Nat : c = Copies(key)
    BY CopiesIs
<1>2. PICK d \in Nat : m = n + d
  <2>1. m - n \in Nat /\ m = n + (m - n)
      OBVIOUS
  <2>2. QED
      BY <2>1
<1>3. c * (n + d) = c * n + c * d
    BY <1>1, <1>2
<1>4. c * n \in Nat /\ c * d \in Nat
    BY <1>1, <1>2
<1>5. QED
    BY <1>1, <1>2, <1>3, <1>4 DEF Room

\* What is left to embed in this phase still fits; a key that is not in the file has a go more.
PaidFor(key) ==
    /\ paid[key] <= Room(key, 1 + Tries(key))
    /\ key \notin saved => paid[key] <= Room(key, Tries(key))
    /\ embed # None => /\ Times(embed.left, key) <= Copies(key)
                       /\ paid[key] + Times(embed.left, key) <= Room(key, 1 + Tries(key))

PaidInv == \A key \in Keys : PaidFor(key)

\* The numbers of a key.
LEMMA NumbersAre ==
    ASSUME Typed, NEW key \in Keys
    PROVE  /\ paid[key] \in Nat /\ Tries(key) \in Nat
           /\ dropped[key] \in Nat /\ spent.faults \in Nat
           /\ Copies(key) \in Nat \ {0}
           /\ Room(key, Tries(key)) \in Nat /\ Room(key, 1 + Tries(key)) \in Nat
           /\ Room(key, 1 + Tries(key)) = Room(key, Tries(key)) + Copies(key)
           /\ embed # None => Times(embed.left, key) \in Nat
<1>1. paid[key] \in Nat /\ dropped[key] \in Nat /\ spent.faults \in Nat
    BY DEF Typed
<1>2. Tries(key) \in Nat
    BY <1>1 DEF Tries
<1>3. Copies(key) \in Nat \ {0}
    BY CopiesIs
<1>4. PICK n \in Nat : n = Tries(key)
    BY <1>2
<1>5. /\ Room(key, n) \in Nat /\ Room(key, n + 1) \in Nat
      /\ Room(key, n + 1) = Room(key, n) + Copies(key)
    BY Rooms
<1>6. 1 + n = n + 1
    OBVIOUS
<1>7. ASSUME embed # None PROVE Times(embed.left, key) \in Nat
  <2>1. embed.left \in Seq(EmbedKeys)
      BY <1>7 DEF Typed, EmbedRun
  <2>2. QED
      BY <2>1, TimesNone
<1>8. QED
    BY <1>1, <1>2, <1>3, <1>4, <1>5, <1>6, <1>7

\* The next phase asks for what is not in the cache of the run.
LEMMA NextLeft ==
    ASSUME NEW e \in EmbedRun, NEW key \in Keys
    PROVE  /\ Times(NextPhase(e).left, key) \in Nat
           /\ Times(NextPhase(e).left, key) <= Copies(key)
           /\ key \in e.cache => Times(NextPhase(e).left, key) = 0
<1>1. PICK q \in {CorpusKeys, Golden} : NextPhase(e).left = Missing(q, e.cache)
    BY DEF NextPhase, EmbedRun
<1>2. q \in Seq(EmbedKeys)
    BY <1>1, ListsTyped
<1>3. Times(Missing(q, e.cache), key) = IF key \in e.cache THEN 0 ELSE Times(q, key)
    BY <1>2, MissingIs
<1>4. Times(q, key) \in Nat /\ Times(q, key) <= Copies(key) /\ Copies(key) \in Nat
    BY <1>1, CopiesIs
<1>5. QED
    BY <1>1, <1>3, <1>4

LEMMA RoomsAre ==
    ASSUME NEW key, NEW n \in Nat, NEW m \in Nat, n <= m
    PROVE  /\ Room(key, n) \in Nat /\ Room(key, 1 + n) \in Nat
           /\ Room(key, m) \in Nat /\ Room(key, 1 + m) \in Nat
           /\ Room(key, 1 + n) = Room(key, n) + Copies(key)
           /\ Room(key, 1 + m) = Room(key, m) + Copies(key)
           /\ Room(key, n) <= Room(key, m) /\ Room(key, 1 + n) <= Room(key, 1 + m)
           /\ n < m => Room(key, 1 + n) <= Room(key, m)
<1>1. n + 1 = 1 + n /\ m + 1 = 1 + m /\ 1 + n \in Nat /\ 1 + m \in Nat /\ 1 + n <= 1 + m
    OBVIOUS
<1>2. /\ Room(key, n) \in Nat /\ Room(key, n + 1) \in Nat
      /\ Room(key, n + 1) = Room(key, n) + Copies(key)
    BY Rooms
<1>3. /\ Room(key, m) \in Nat /\ Room(key, m + 1) \in Nat
      /\ Room(key, m + 1) = Room(key, m) + Copies(key)
    BY Rooms
<1>4. Room(key, n) <= Room(key, m)
    BY RoomGrows
<1>5. Room(key, 1 + n) <= Room(key, 1 + m)
    BY <1>1, RoomGrows
<1>6. ASSUME n < m PROVE Room(key, 1 + n) <= Room(key, m)
  <2>1. 1 + n <= m
      BY <1>6
  <2>2. QED
      BY <1>1, <2>1, RoomGrows
<1>7. QED
    BY <1>1, <1>2, <1>3, <1>4, <1>5, <1>6

\* Nothing is paid for and no run changes; a save may have dropped the key, which counts.
LEMMA QuietKey ==
    ASSUME Typed, Typed', NEW key \in Keys, PaidFor(key), paid'[key] = paid[key],
           Tries(key)' >= Tries(key),
           key \in saved /\ key \notin saved' => Tries(key)' > Tries(key),
           embed' \in {embed, None}
    PROVE  PaidFor(key)'
<1>1. Tries(key) \in Nat
    BY NumbersAre
<1>2. Tries(key)' \in Nat
    BY DEF Tries, Typed
<1>3. PICK n \in Nat : n = Tries(key)
    BY <1>1
<1>4. PICK m \in Nat : m = Tries(key)'
    BY <1>2
<1>5. n <= m /\ (key \in saved /\ key \notin saved' => n < m)
    BY <1>3, <1>4
<1>6. /\ Room(key, n) \in Nat /\ Room(key, 1 + n) \in Nat
      /\ Room(key, m) \in Nat /\ Room(key, 1 + m) \in Nat
      /\ Room(key, n) <= Room(key, m) /\ Room(key, 1 + n) <= Room(key, 1 + m)
      /\ n < m => Room(key, 1 + n) <= Room(key, m)
    BY <1>5, RoomsAre
<1>7. /\ paid[key] <= Room(key, 1 + n)
      /\ key \notin saved => paid[key] <= Room(key, n)
      /\ embed # None => /\ Times(embed.left, key) <= Copies(key)
                         /\ paid[key] + Times(embed.left, key) <= Room(key, 1 + n)
    BY <1>3 DEF PaidFor
<1>8. paid[key] \in Nat /\ (embed # None => Times(embed.left, key) \in Nat)
    BY NumbersAre
<1>9. paid'[key] <= Room(key, 1 + m) /\ (key \notin saved' => paid'[key] <= Room(key, m))
    BY <1>5, <1>6, <1>7, <1>8
<1>10. embed' # None => /\ Times(embed'.left, key) <= Copies(key)
                        /\ paid'[key] + Times(embed'.left, key) <= Room(key, 1 + m)
  <2> SUFFICES ASSUME embed' # None PROVE /\ Times(embed'.left, key) <= Copies(key)
                                          /\ paid'[key] + Times(embed'.left, key) <= Room(key, 1 + m)
      OBVIOUS
  <2>1. embed # None /\ embed' = embed
      OBVIOUS
  <2>2. PICK t \in Nat : t = Times(embed.left, key)
      BY <1>8, <2>1
  <2>3. t <= Copies(key) /\ paid[key] + t <= Room(key, 1 + n)
      BY <1>7, <2>1, <2>2
  <2>4. paid[key] + t <= Room(key, 1 + m)
      BY <1>6, <1>8, <2>3
  <2>5. QED
      BY <2>1, <2>2, <2>3, <2>4
<1>11. QED
    BY <1>4, <1>9, <1>10 DEF PaidFor

\* A run starts, or goes on with the next phase.
LEMMA PhaseKey ==
    ASSUME Typed, Typed', CachesInv, NEW key \in Keys, PaidFor(key), paid'[key] = paid[key],
           UNCHANGED saved, Tries(key)' = Tries(key), embed' # None,
           Times(embed'.left, key) \in Nat, Times(embed'.left, key) <= Copies(key),
           key \in saved => Times(embed'.left, key) = 0
    PROVE  PaidFor(key)'
<1>1. PICK n \in Nat : n = Tries(key)
    BY NumbersAre
<1>2. PICK t \in Nat : t = Times(embed'.left, key)
    OBVIOUS
<1>3. /\ Room(key, n) \in Nat /\ Room(key, 1 + n) \in Nat
      /\ Room(key, 1 + n) = Room(key, n) + Copies(key)
      /\ paid[key] \in Nat /\ Copies(key) \in Nat
    BY <1>1, NumbersAre
<1>4. /\ paid[key] <= Room(key, 1 + n)
      /\ key \notin saved => paid[key] <= Room(key, n)
    BY <1>1 DEF PaidFor
<1>5. t <= Copies(key) /\ (key \in saved => t = 0)
    BY <1>2
<1>6. paid[key] + t <= Room(key, 1 + n)
    BY <1>3, <1>4, <1>5
<1>7. n = Tries(key)'
    BY <1>1
<1>8. /\ paid'[key] <= Room(key, 1 + n)
      /\ key \notin saved' => paid'[key] <= Room(key, n)
      /\ Times(embed'.left, key) <= Copies(key)
      /\ paid'[key] + Times(embed'.left, key) <= Room(key, 1 + n)
    BY <1>2, <1>4, <1>5, <1>6
<1>9. QED
    BY <1>7, <1>8 DEF PaidFor

\* A key with fewer tries than before paid for at most as much as one more try allows.
LEMMA FaultKey ==
    ASSUME Typed, Typed', NEW key \in Keys, PaidFor(key), NEW p \in Nat,
           paid'[key] = paid[key] + p, paid[key] + p <= Room(key, 1 + Tries(key)),
           Tries(key)' = Tries(key) + 1,
           embed' # None => Times(embed'.left, key) \in Nat /\ Times(embed'.left, key) <= Copies(key)
    PROVE  PaidFor(key)'
<1>1. PICK n \in Nat : n = Tries(key)
    BY NumbersAre
<1>2. PICK m \in Nat : m = n + 1
    BY <1>1
<1>3. m = Tries(key)' /\ n <= m /\ n < m
    BY <1>1, <1>2
<1>4. /\ Room(key, m) \in Nat /\ Room(key, 1 + m) \in Nat /\ Room(key, 1 + n) \in Nat
      /\ Room(key, 1 + m) = Room(key, m) + Copies(key)
      /\ Room(key, 1 + n) <= Room(key, m)
    BY <1>3, RoomsAre
<1>5. PICK q : q = paid'[key]
    OBVIOUS
<1>6. q \in Nat /\ q <= Room(key, 1 + n) /\ Copies(key) \in Nat
    BY <1>1, <1>5, NumbersAre
<1>7. q <= Room(key, m) /\ q <= Room(key, 1 + m)
    BY <1>4, <1>6
<1>8. embed' # None => /\ Times(embed'.left, key) <= Copies(key)
                       /\ q + Times(embed'.left, key) <= Room(key, 1 + m)
  <2> SUFFICES ASSUME embed' # None PROVE q + Times(embed'.left, key) <= Room(key, 1 + m)
      OBVIOUS
  <2>1. PICK t \in Nat : t = Times(embed'.left, key)
      OBVIOUS
  <2>2. t <= Copies(key)
      BY <2>1
  <2>3. q + t <= Room(key, 1 + m)
      BY <1>4, <1>6, <1>7, <2>2
  <2>4. QED
      BY <2>1, <2>3
<1>9. QED
    BY <1>3, <1>5, <1>7, <1>8 DEF PaidFor

LEMMA EmbedStartPaid ==
    ASSUME Typed, Typed', CachesInv, PaidInv, EmbedStart
    PROVE  PaidInv'
<1> SUFFICES ASSUME NEW key \in Keys PROVE PaidFor(key)'
    BY DEF PaidInv
<1>1. PICK full \in BOOLEAN : embed' = [cache |-> saved, full |-> full, phase |-> "targets",
                                        left |-> Missing(Targets, saved)]
    BY DEF EmbedStart
<1>2. embed'.left = Missing(Targets, saved) /\ UNCHANGED <<saved, paid, dropped>> /\ Started
    BY <1>1 DEF EmbedStart
<1>3. embed' # None \/ embed' = None
    OBVIOUS
<1>4. Times(Missing(Targets, saved), key) = IF key \in saved THEN 0 ELSE Times(Targets, key)
    BY ListsTyped, MissingIs
<1>5. Times(Targets, key) \in Nat /\ Times(Targets, key) <= Copies(key) /\ Copies(key) \in Nat
    BY CopiesIs
<1>6. spent'.faults = spent.faults
    BY <1>2 DEF Started, Typed
<1>7. Tries(key)' = Tries(key) /\ Tries(key) \in Nat
    BY <1>2, <1>6, NumbersAre DEF Tries
<1>8. PaidFor(key)
    BY DEF PaidInv
<1>9. CASE embed' # None
  <2>1. /\ Times(embed'.left, key) \in Nat /\ Times(embed'.left, key) <= Copies(key)
        /\ key \in saved => Times(embed'.left, key) = 0
      BY <1>2, <1>4, <1>5
  <2>2. QED
      BY <1>2, <1>7, <1>8, <1>9, <2>1, PhaseKey
<1>10. CASE embed' = None
    BY <1>2, <1>7, <1>8, <1>10, QuietKey
<1>11. QED
    BY <1>9, <1>10

LEMMA EmbedPhasePaid ==
    ASSUME Typed, Typed', CachesInv, PaidInv, EmbedPhase
    PROVE  PaidInv'
<1> SUFFICES ASSUME NEW key \in Keys PROVE PaidFor(key)'
    BY DEF PaidInv
<1>1. /\ embed # None /\ embed' \in {None, NextPhase(embed)}
      /\ UNCHANGED <<saved, spent, paid, dropped>>
    BY DEF EmbedPhase
<1>2. embed \in EmbedRun
    BY <1>1 DEF Typed
<1>3. Tries(key)' = Tries(key) /\ Tries(key) \in Nat
    BY <1>1, NumbersAre DEF Tries
<1>4. PaidFor(key)
    BY DEF PaidInv
<1>5. CASE embed' = None
    BY <1>1, <1>3, <1>4, <1>5, QuietKey
<1>6. CASE embed' # None
  <2>1. key \in saved => key \in embed.cache \/ key \in ToSet(Hard)
      BY <1>1, KeysAre DEF CachesInv
  <2>2. /\ Times(NextPhase(embed).left, key) \in Nat
        /\ Times(NextPhase(embed).left, key) <= Copies(key)
        /\ key \in embed.cache => Times(NextPhase(embed).left, key) = 0
      BY <1>2, NextLeft
  <2>3. key \in ToSet(Hard) => Times(NextPhase(embed).left, key) = 0
    <3>1. NextPhase(embed).left \in Seq(EmbedKeys)
        BY <1>2, NextPhaseTyped DEF EmbedRun
    <3>2. QED
        BY <3>1, KeysAre, TimesNone
  <2>4. QED
      BY <1>1, <1>3, <1>4, <1>6, <2>1, <2>2, <2>3, PhaseKey
<1>7. QED
    BY <1>5, <1>6

\* A failed request has paid for what it asked for, or for nothing, and allows one more go.
LEMMA EmbedFailsPaid ==
    ASSUME Typed, Typed', CachesInv, PaidInv, EmbedFails
    PROVE  PaidInv'
<1> SUFFICES ASSUME NEW key \in Keys PROVE PaidFor(key)'
    BY DEF PaidInv
<1>1. /\ embed # None /\ embed' \in {None, embed, NextPhase(embed)} /\ Fault
      /\ Pay(FirstPart(embed.left)) \/ UNCHANGED paid
      /\ UNCHANGED <<saved, dropped>>
    BY DEF EmbedFails
<1>2. embed \in EmbedRun /\ embed.left \in Seq(EmbedKeys)
    BY <1>1 DEF Typed, EmbedRun
<1>3. spent'.faults = spent.faults + 1
    BY <1>1, SpentTyped DEF Typed
<1>4. Tries(key)' = Tries(key) + 1 /\ Tries(key) \in Nat
    BY <1>1, <1>3, NumbersAre DEF Tries
<1>5. PICK t \in Nat : t = Times(embed.left, key)
    BY <1>1, NumbersAre
<1>6. PICK f \in Nat : f = Times(FirstPart(embed.left), key) /\ f <= t
  <2>1. /\ Times(embed.left, key) =
               Times(FirstPart(embed.left), key) + Times(Remaining(embed.left), key)
        /\ Times(FirstPart(embed.left), key) \in Nat /\ Times(Remaining(embed.left), key) \in Nat
      BY <1>2, PartsAre
  <2>2. QED
      BY <1>5, <2>1
<1>7. paid[key] \in Nat /\ Room(key, 1 + Tries(key)) \in Nat
    BY NumbersAre
<1>8. PaidFor(key) /\ t <= Copies(key) /\ paid[key] + t <= Room(key, 1 + Tries(key))
    BY <1>1, <1>5 DEF PaidInv, PaidFor
<1>9. PICK p \in Nat : paid'[key] = paid[key] + p /\ p <= t
  <2>1. CASE Pay(FirstPart(embed.left))
    <3>1. paid'[key] = paid[key] + Times(FirstPart(embed.left), key)
        BY <2>1 DEF Pay
    <3>2. QED
        BY <1>6, <3>1
  <2>2. CASE UNCHANGED paid
    <3>1. paid'[key] = paid[key] + 0 /\ 0 \in Nat /\ 0 <= t
        BY <1>7, <2>2
    <3>2. QED
        BY <3>1
  <2>3. QED
      BY <1>1, <2>1, <2>2
<1>10. paid[key] + p <= Room(key, 1 + Tries(key))
    BY <1>7, <1>8, <1>9
<1>11. embed' # None => Times(embed'.left, key) \in Nat /\ Times(embed'.left, key) <= Copies(key)
    BY <1>1, <1>2, <1>5, <1>8, NextLeft
<1>12. QED
    BY <1>4, <1>8, <1>9, <1>10, <1>11, FaultKey

\* What a chunk pays for is no longer left, and lies in the file afterwards.
LEMMA EmbedChunkPaid ==
    ASSUME Typed, Typed', CachesInv, PaidInv, EmbedChunk
    PROVE  PaidInv'
<1> SUFFICES ASSUME NEW key \in Keys PROVE PaidFor(key)'
    BY DEF PaidInv
<1>1. /\ embed # None /\ embed \in EmbedRun /\ embed' \in EmbedRun
      /\ embed'.cache = embed.cache \cup ToSet(FirstPart(embed.left))
      /\ embed'.left = Remaining(embed.left)
      /\ embed'.cache \in SUBSET Keys
      /\ Pay(FirstPart(embed.left)) /\ Save(embed'.cache)
      /\ UNCHANGED spent
    BY ChunkIs DEF EmbedChunk
<1>2. embed.left \in Seq(EmbedKeys)
    BY <1>1 DEF EmbedRun
<1>3. /\ Times(embed.left, key) =
             Times(FirstPart(embed.left), key) + Times(Remaining(embed.left), key)
      /\ Times(FirstPart(embed.left), key) \in Nat /\ Times(Remaining(embed.left), key) \in Nat
      /\ key \notin ToSet(FirstPart(embed.left)) => Times(FirstPart(embed.left), key) = 0
    BY <1>2, PartsAre
<1>4. PICK f \in Nat : f = Times(FirstPart(embed.left), key)
    BY <1>3
<1>5. PICK r \in Nat : r = Times(Remaining(embed.left), key)
    BY <1>3
<1>6. paid[key] \in Nat /\ dropped[key] \in Nat /\ spent.faults \in Nat /\ Copies(key) \in Nat
    BY NumbersAre
<1>7. saved' = embed'.cache /\ dropped'[key] >= dropped[key]
      /\ (key \in saved \ embed'.cache => dropped'[key] = dropped[key] + 1)
    BY <1>1, SaveTyped DEF Typed
<1>8. dropped'[key] \in Nat
    BY DEF Typed
<1>9. PICK n \in Nat : n = Tries(key)
    BY NumbersAre
<1>10. PICK m \in Nat : m = Tries(key)'
    BY <1>1, <1>6, <1>8 DEF Tries
<1>11. n <= m /\ (key \in saved /\ key \notin saved' => n < m)
    BY <1>1, <1>6, <1>7, <1>8, <1>9, <1>10 DEF Tries
<1>12. /\ Room(key, n) \in Nat /\ Room(key, 1 + n) \in Nat
       /\ Room(key, m) \in Nat /\ Room(key, 1 + m) \in Nat
       /\ Room(key, n) <= Room(key, m) /\ Room(key, 1 + n) <= Room(key, 1 + m)
       /\ n < m => Room(key, 1 + n) <= Room(key, m)
    BY <1>11, RoomsAre
<1>13. /\ paid[key] <= Room(key, 1 + n)
       /\ key \notin saved => paid[key] <= Room(key, n)
       /\ f + r <= Copies(key) /\ paid[key] + (f + r) <= Room(key, 1 + n)
    BY <1>1, <1>3, <1>4, <1>5, <1>9 DEF PaidInv, PaidFor
<1>14. paid'[key] = paid[key] + f
    BY <1>1, <1>4 DEF Pay
<1>15. paid[key] + f <= Room(key, 1 + m) /\ r <= Copies(key)
       /\ (paid[key] + f) + r <= Room(key, 1 + m)
    BY <1>6, <1>12, <1>13
<1>16. ASSUME key \notin saved' PROVE paid[key] + f <= Room(key, m)
  <2>1. f = 0
      BY <1>1, <1>3, <1>4, <1>7, <1>16
  <2>2. paid[key] + f = paid[key]
      BY <1>6, <2>1
  <2>3. paid[key] <= Room(key, m)
      BY <1>6, <1>11, <1>12, <1>13, <1>16
  <2>4. QED
      BY <2>2, <2>3
<1>17. /\ paid'[key] <= Room(key, 1 + m)
       /\ key \notin saved' => paid'[key] <= Room(key, m)
       /\ Times(embed'.left, key) <= Copies(key)
       /\ paid'[key] + Times(embed'.left, key) <= Room(key, 1 + m)
    BY <1>1, <1>5, <1>14, <1>15, <1>16
<1>18. QED
    BY <1>10, <1>17 DEF PaidFor

\* A key that run_boost does not find in its cache is not in the file either.
LEMMA BoostPaid ==
    ASSUME Typed, Typed', CachesInv, PaidInv, BoostVector
    PROVE  PaidInv'
<1> SUFFICES ASSUME NEW key \in Keys PROVE PaidFor(key)'
    BY DEF PaidInv
<1>1. boost # None /\ boost \in BoostRun /\ UNCHANGED embed
    BY BoostIs DEF BoostVector
<1>2. PICK text \in ToSet(Hard) :
              \/ /\ boost' \in BoostRun /\ boost'.cache = boost.cache
                 /\ UNCHANGED <<saved, paid, dropped, spent>>
              \/ /\ text \notin boost.cache
                 /\ boost' \in BoostRun /\ boost'.cache = boost.cache \cup {text}
                 /\ boost'.cache \subseteq Keys
                 /\ Pay(<<text>>) /\ Save(boost'.cache) /\ UNCHANGED spent
              \/ /\ text \notin boost.cache
                 /\ boost' \in {boost, None} /\ Fault
                 /\ Pay(<<text>>) \/ UNCHANGED paid
                 /\ UNCHANGED <<saved, dropped>>
    BY BoostIs
<1>3. /\ PaidFor(key) /\ paid[key] \in Nat /\ dropped[key] \in Nat /\ spent.faults \in Nat
      /\ Tries(key) \in Nat /\ Copies(key) \in Nat \ {0}
    BY NumbersAre DEF PaidInv
<1>4. text \notin EmbedKeys /\ (text \notin boost.cache => text \notin saved)
    BY <1>1, KeysAre DEF CachesInv
<1>5. Times(<<text>>, key) = IF key = text THEN 1 ELSE 0
    BY TimesSingle
<1>6. Pay(<<text>>) => paid'[key] = paid[key] + (IF key = text THEN 1 ELSE 0)
    BY <1>5 DEF Pay
<1>7. CASE UNCHANGED <<saved, paid, dropped, spent>>
  <2>1. Tries(key)' = Tries(key)
      BY <1>7 DEF Tries
  <2>2. QED
      BY <1>1, <1>3, <1>7, <2>1, QuietKey
<1>8. CASE /\ text \notin boost.cache
           /\ boost'.cache = boost.cache \cup {text} /\ boost'.cache \in SUBSET Keys
           /\ Pay(<<text>>) /\ Save(boost'.cache) /\ UNCHANGED spent
  <2>1. saved' = boost'.cache /\ dropped'[key] >= dropped[key]
        /\ (key \in saved \ boost'.cache => dropped'[key] = dropped[key] + 1)
      BY <1>8, SaveTyped DEF Typed
  <2>2. dropped'[key] \in Nat
      BY DEF Typed
  <2>3. Tries(key)' \in Nat /\ Tries(key)' >= Tries(key)
        /\ (key \in saved /\ key \notin saved' => Tries(key)' > Tries(key))
      BY <1>3, <1>8, <2>1, <2>2 DEF Tries
  <2>4. CASE key # text
    <3>1. paid'[key] = paid[key]
        BY <1>3, <1>6, <1>8, <2>4
    <3>2. QED
        BY <1>1, <1>3, <2>3, <3>1, QuietKey
  <2>5. CASE key = text
    <3>1. PICK n \in Nat : n = Tries(key)
        BY <1>3
    <3>2. PICK m \in Nat : m = Tries(key)' /\ n <= m
        BY <2>3, <3>1
    <3>3. /\ Room(key, n) \in Nat /\ Room(key, 1 + n) \in Nat /\ Room(key, 1 + m) \in Nat
          /\ Room(key, 1 + n) = Room(key, n) + Copies(key)
          /\ Room(key, 1 + n) <= Room(key, 1 + m)
        BY <3>2, RoomsAre
    <3>4. paid[key] <= Room(key, n)
        BY <1>3, <1>4, <1>8, <2>5, <3>1 DEF PaidFor
    <3>5. paid'[key] = paid[key] + 1
        BY <1>6, <1>8, <2>5
    <3>6. paid[key] + 1 <= Room(key, 1 + m)
      <4>1. PICK c \in Nat : c = Copies(key) /\ 1 <= c
          BY <1>3
      <4>2. PICK p \in Nat : p = paid[key]
          BY <1>3
      <4>3. p <= Room(key, n) /\ Room(key, 1 + n) = Room(key, n) + c
          BY <3>3, <3>4, <4>1, <4>2
      <4>4. p + 1 <= Room(key, 1 + n)
          BY <3>3, <4>1, <4>3
      <4>5. p + 1 <= Room(key, 1 + m)
          BY <3>3, <4>4
      <4>6. QED
          BY <4>2, <4>5
    <3>7. key \in saved'
        BY <1>8, <2>1, <2>5
    <3>8. embed' # None => Times(embed'.left, key) = 0
      <4> SUFFICES ASSUME embed' # None PROVE Times(embed'.left, key) = 0
          OBVIOUS
      <4>1. embed.left \in Seq(EmbedKeys)
          BY <1>1 DEF Typed, EmbedRun
      <4>2. Times(embed.left, key) = 0
          BY <1>4, <2>5, <4>1, TimesNone
      <4>3. QED
          BY <1>1, <4>2
    <3>9. /\ paid'[key] <= Room(key, 1 + m)
          /\ embed' # None => /\ Times(embed'.left, key) <= Copies(key)
                              /\ paid'[key] + Times(embed'.left, key) <= Room(key, 1 + m)
        BY <1>3, <3>3, <3>5, <3>6, <3>8
    <3>10. QED
        BY <3>2, <3>7, <3>9 DEF PaidFor
  <2>6. QED
      BY <2>4, <2>5
<1>9. CASE /\ text \notin boost.cache /\ Fault
           /\ Pay(<<text>>) \/ UNCHANGED paid
           /\ UNCHANGED <<saved, dropped>>
  <2>1. spent'.faults = spent.faults + 1
      BY <1>9, SpentTyped DEF Typed
  <2>2. Tries(key)' = Tries(key) + 1
      BY <1>3, <1>9, <2>1 DEF Tries
  <2>3. CASE paid'[key] = paid[key]
      BY <1>1, <1>3, <1>9, <2>2, <2>3, QuietKey
  <2>4. CASE key = text /\ paid'[key] = paid[key] + 1
    <3>1. paid[key] <= Room(key, Tries(key))
        BY <1>3, <1>4, <1>9, <2>4 DEF PaidFor
    <3>2. /\ Room(key, Tries(key)) \in Nat /\ Room(key, 1 + Tries(key)) \in Nat
          /\ Room(key, 1 + Tries(key)) = Room(key, Tries(key)) + Copies(key)
        BY NumbersAre
    <3>3. paid[key] + 1 <= Room(key, 1 + Tries(key))
        BY <1>3, <3>1, <3>2
    <3>4. embed' # None => Times(embed'.left, key) \in Nat /\ Times(embed'.left, key) <= Copies(key)
        BY <1>1, <1>3, NumbersAre DEF PaidFor
    <3>5. QED
        BY <1>3, <2>2, <2>4, <3>3, <3>4, FaultKey
  <2>5. QED
      BY <1>3, <1>6, <1>9, <2>3, <2>4
<1>10. QED
    BY <1>2, <1>7, <1>8, <1>9

LEMMA QuietPaid ==
    ASSUME Typed, Typed', PaidInv, UNCHANGED <<saved, paid, dropped, embed>>,
           Started \/ Fault \/ UNCHANGED spent
    PROVE  PaidInv'
<1> SUFFICES ASSUME NEW key \in Keys PROVE PaidFor(key)'
    BY DEF PaidInv
<1>1. spent'.faults >= spent.faults /\ spent'.faults \in Nat
    BY SpentTyped DEF Typed
<1>2. PaidFor(key) /\ dropped[key] \in Nat /\ spent.faults \in Nat
    BY NumbersAre DEF PaidInv
<1>3. Tries(key)' >= Tries(key)
    BY <1>1, <1>2 DEF Tries
<1>4. QED
    BY <1>2, <1>3, QuietKey

LEMMA PaidStep ==
    ASSUME Typed, Typed', CachesInv, PaidInv, [Next]_vars
    PROVE  PaidInv'
<1>1. CASE BoostStart \/ BoostEnd \/ UNCHANGED vars
  <2>1. UNCHANGED <<saved, paid, dropped, embed>> /\ (Started \/ Fault \/ UNCHANGED spent)
      BY <1>1 DEF BoostStart, BoostEnd, vars
  <2>2. QED
      BY <2>1, QuietPaid
<1>2. CASE GradeStart \/ GradeAbsent \/ GradeAsk \/ GradeApply \/ GradeEnd
  <2>1. UNCHANGED <<saved, paid, dropped, embed>> /\ (Started \/ Fault \/ UNCHANGED spent)
      BY <1>2 DEF GradeStart, GradeAbsent, GradeAsk, GradeApply, GradeEnd
  <2>2. QED
      BY <2>1, QuietPaid
<1>3. QED
    BY <1>1, <1>2, EmbedStartPaid, EmbedChunkPaid, EmbedFailsPaid, EmbedPhasePaid, BoostPaid
       DEF Next

\* A vector is paid for once for each place where a script finds its key, and again only after
\* a failed request or a save that has dropped the key from the file, however many runs there
\* are and however they overlap.  (run_embed: embed_into_cache; run_boost: ensure_query_vec.)
THEOREM VectorsArePaidOnce == Spec => []PaidOnce
<1> DEFINE Inv == Typed /\ CachesInv /\ PaidInv
<1>1. Init => Inv
  <2> SUFFICES ASSUME Init PROVE Inv
      OBVIOUS
  <2>1. Typed
      BY InitTyped
  <2>2. CachesInv
      BY DEF Init, CachesInv
  <2>3. ASSUME NEW key \in Keys PROVE PaidFor(key)
    <3>1. paid[key] = 0 /\ embed = None
        BY DEF Init, Zero
    <3>2. Room(key, Tries(key)) \in Nat /\ Room(key, 1 + Tries(key)) \in Nat
        BY <2>1, NumbersAre
    <3>3. QED
        BY <3>1, <3>2 DEF PaidFor
  <2>4. QED
      BY <2>1, <2>2, <2>3 DEF PaidInv
<1>2. Inv /\ [Next]_vars => Inv'
  <2> SUFFICES ASSUME Typed, CachesInv, PaidInv, [Next]_vars PROVE Inv'
      OBVIOUS
  <2>1. Typed'
      BY NextTyped
  <2>2. CachesInv'
      BY CachesStep
  <2>3. PaidInv'
      BY <2>1, PaidStep
  <2>4. QED
      BY <2>1, <2>2, <2>3
<1>3. Inv => PaidOnce
  <2> SUFFICES ASSUME Typed, PaidInv, NEW key \in Keys
               PROVE paid[key] <= Copies(key) * (1 + dropped[key] + spent.faults)
      BY DEF PaidOnce
  <2>1. paid[key] <= Copies(key) * (1 + (dropped[key] + spent.faults))
      BY DEF PaidInv, PaidFor, Room, Tries
  <2>2. 1 + (dropped[key] + spent.faults) = 1 + dropped[key] + spent.faults
      BY NumbersAre
  <2>3. QED
      BY <2>1, <2>2
<1>4. QED
    BY <1>1, <1>2, <1>3, PTL DEF Spec
===============================================================================
