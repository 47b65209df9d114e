--------------------------- MODULE Collector_proofs ---------------------------
(***************************************************************************)
(* What the collector spends and what it keeps, for all sources, items and *)
(* numbers, and for any number of runs, faults and registrations: a run    *)
(* that is cut short loses one batch; and, where --max is a whole number   *)
(* of pages, an item is paid for once, and a calm run leaves none out.     *)
(***************************************************************************)
EXTENDS Collector, Lists_proofs

(***************************************************************************)
(* Numbers                                                                 *)
(***************************************************************************)
LEMMA LeastType ==
    ASSUME NEW a \in Nat, NEW b \in Nat
    PROVE  /\ Least(a, b) \in Nat /\ Least(a, b) <= a /\ Least(a, b) <= b
           /\ Least(a, b) = a \/ Least(a, b) = b
BY DEF Least

\* new_items keeps every occurrence of an item that is not indexed, and no other.
LEMMA NewItemsAre ==
    ASSUME NEW got \in Seq(Items)
    PROVE  /\ NewItems(got) \in Seq(Items)
           /\ \A i \in Items :
                  Times(NewItems(got), i) = IF index[i] = None THEN Times(got, i) ELSE 0
<1> DEFINE S == {i \in Items : index[i] = None}
<1>1. NewItems(got) = Among(got, S)
    BY DEF NewItems
<1>2. \A i \in Items : i \in S <=> index[i] = None
    OBVIOUS
<1> HIDE DEF S
<1>3. /\ Among(got, S) \in Seq(Items)
      /\ \A x : Times(Among(got, S), x) = IF x \in S THEN Times(got, x) ELSE 0
    BY AmongIs
<1>4. QED
    BY <1>1, <1>2, <1>3

(***************************************************************************)
(* Types                                                                   *)
(***************************************************************************)
Details == {"bare", "full"}

Pcs == {"idle", "list", "skip", "detail", "index", "end"}

Runs == [pc : Pcs, src : 0..Len(Sources), page : Nat, got : Seq(Items), docs : Seq(Details),
         calm : BOOLEAN]

\* A run that has a source, a page to ask for, a batch in its hands.
RunTyped(rn) ==
    /\ rn \in Runs
    /\ rn.pc \in {"list", "skip", "detail", "index"} => rn.src >= 1
    /\ rn.pc = "list" => rn.page >= 1 /\ Len(rn.got) < MaxItems
    /\ rn.pc = "index" => Len(rn.docs) = Least(Batch, Len(rn.got))

Typed == /\ listing \in [ToSet(Sources) -> Seq(Items)]
         /\ index \in [Items -> {None} \cup Details]
         /\ RunTyped(run)
         /\ faults \in Nat /\ shifts \in Nat
         /\ paid \in [Items -> Nat]

LEMMA Numbers ==
    /\ Rows \in Nat /\ Rows >= 1 /\ MaxItems \in Nat /\ MaxItems >= 1 /\ Batch \in Nat /\ Batch >= 1
    /\ Len(Sources) \in Nat /\ None \notin Details
    /\ \A n \in 1..Len(Sources) : Sources[n] \in ToSet(Sources)
    /\ \A i \in Items : SourceOf[i] \in ToSet(Sources)
BY CollectorAssumption, LenProperties DEF CollectorAssumption, ToSet, Details

LEMMA NoRunTyped == RunTyped(NoRun)
<1>1. NoRun \in Runs
    BY Numbers, EmptySeq DEF NoRun, Runs, Pcs
<1>2. QED
    BY <1>1 DEF RunTyped, NoRun

\* To the next source or to the end.
LEMMA NextSourceTyped ==
    ASSUME NEW rn \in Runs
    PROVE  /\ RunTyped(NextSource(rn))
           /\ NextSource(rn).pc = IF rn.src = Len(Sources) THEN "end" ELSE "list"
           /\ NextSource(rn).src = IF rn.src = Len(Sources) THEN rn.src ELSE rn.src + 1
           /\ NextSource(rn).page = IF rn.src = Len(Sources) THEN 0 ELSE 1
           /\ NextSource(rn).got = <<>> /\ NextSource(rn).calm = rn.calm
<1>1. <<>> \in Seq(Items) /\ <<>> \in Seq(Details) /\ Len(<<>>) = 0
    BY EmptySeq
<1>2. rn.src \in 0..Len(Sources) /\ Len(Sources) \in Nat /\ MaxItems >= 1 /\ MaxItems \in Nat
    BY Numbers DEF Runs
<1>a. ASSUME NEW p \in Pcs, NEW s \in 0..Len(Sources), NEW n \in Nat
      PROVE  [rn EXCEPT !.pc = p, !.src = s, !.page = n, !.got = <<>>, !.docs = <<>>] \in Runs
    BY <1>1 DEF Runs
<1>3. CASE rn.src = Len(Sources)
  <2>1. NextSource(rn) = [rn EXCEPT !.pc = "end", !.page = 0, !.got = <<>>, !.docs = <<>>]
      BY <1>3 DEF NextSource
  <2>2. NextSource(rn) \in Runs
    <3>1. NextSource(rn) = [rn EXCEPT !.pc = "end", !.src = rn.src, !.page = 0, !.got = <<>>,
                                      !.docs = <<>>]
        BY <2>1 DEF Runs
    <3>2. "end" \in Pcs /\ 0 \in Nat
        BY DEF Pcs
    <3>3. [rn EXCEPT !.pc = "end", !.src = rn.src, !.page = 0, !.got = <<>>, !.docs = <<>>] \in Runs
        BY <1>2, <1>a, <3>2
    <3>4. QED
        BY <3>1, <3>3
  <2>3. QED
      BY <1>3, <2>1, <2>2 DEF RunTyped, Runs
<1>4. CASE rn.src # Len(Sources)
  <2>1. NextSource(rn) =
            [rn EXCEPT !.pc = "list", !.src = rn.src + 1, !.page = 1, !.got = <<>>, !.docs = <<>>]
      BY <1>4 DEF NextSource
  <2>2. NextSource(rn) \in Runs
    <3>1. rn.src + 1 \in 0..Len(Sources)
        BY <1>2, <1>4
    <3>2. "list" \in Pcs /\ 1 \in Nat
        BY DEF Pcs
    <3>3. [rn EXCEPT !.pc = "list", !.src = rn.src + 1, !.page = 1, !.got = <<>>, !.docs = <<>>]
              \in Runs
        BY <1>a, <3>1, <3>2
    <3>4. QED
        BY <2>1, <3>3
  <2>3. QED
      BY <1>1, <1>2, <1>4, <2>1, <2>2 DEF RunTyped, Runs
<1>5. QED
    BY <1>3, <1>4

\* On with the batches that are left.
LEMMA WorkTyped ==
    ASSUME RunTyped(run), run.src >= 1, NEW todo \in Seq(Items)
    PROVE  /\ RunTyped(Work(todo))
           /\ Work(todo).calm = run.calm
           /\ todo = <<>> => Work(todo) = NextSource(run)
           /\ todo # <<>> => /\ Work(todo).pc = "detail" /\ Work(todo).got = todo
                             /\ Work(todo).src = run.src
<1>1. CASE todo = <<>>
    BY <1>1, NextSourceTyped DEF Work, RunTyped
<1>2. CASE todo # <<>>
  <2>1. Work(todo) = [run EXCEPT !.pc = "detail", !.got = todo, !.docs = <<>>]
      BY <1>2 DEF Work
  <2>2. Work(todo) \in Runs
      BY <2>1, EmptySeq DEF RunTyped, Runs, Pcs
  <2>3. QED
      BY <1>2, <2>1, <2>2 DEF RunTyped, Runs
<1>3. QED
    BY <1>1, <1>2

\* Only calm changes.
LEMMA CalmTyped ==
    ASSUME NEW rn, RunTyped(rn), NEW c \in BOOLEAN
    PROVE  RunTyped([rn EXCEPT !.calm = c])
<1>1. [rn EXCEPT !.calm = c] \in Runs
    BY DEF RunTyped, Runs
<1>2. QED
    BY <1>1 DEF RunTyped, Runs

\* What a page is: the rows of the listing from its offset on.
LEMMA PageIs ==
    ASSUME Typed, run.pc = "list"
    PROVE  /\ Source \in ToSet(Sources) /\ listing[Source] \in Seq(Items)
           /\ Asked \in Nat /\ Asked >= 1 /\ Asked <= Rows /\ Asked <= MaxItems - Len(run.got)
           /\ Asked = Rows \/ Asked = MaxItems - Len(run.got)
           /\ Offset(Asked) \in Nat
           /\ Page \in Seq(Items) /\ Len(Page) <= Asked
           /\ Len(Page) = IF Offset(Asked) >= Len(listing[Source]) THEN 0
                          ELSE IF Offset(Asked) + Asked <= Len(listing[Source]) THEN Asked
                          ELSE Len(listing[Source]) - Offset(Asked)
           /\ \A n \in 1..Len(Page) : Page[n] = listing[Source][Offset(Asked) + n]
<1> DEFINE L == listing[Source]
           o == Offset(Asked)
           to == Least(o + Asked, Len(L))
<1>1. run.src \in 1..Len(Sources) /\ Len(run.got) \in Nat /\ Len(run.got) < MaxItems
      /\ run.page \in Nat /\ run.page >= 1
    BY LenProperties, Numbers DEF Typed, RunTyped, Runs
<1>2. Source \in ToSet(Sources) /\ L \in Seq(Items) /\ Len(L) \in Nat
    BY <1>1, Numbers, LenProperties DEF Typed, Source
<1>3. /\ Asked \in Nat /\ Asked >= 1 /\ Asked <= Rows /\ Asked <= MaxItems - Len(run.got)
      /\ Asked = Rows \/ Asked = MaxItems - Len(run.got)
  <2>1. MaxItems - Len(run.got) \in Nat /\ MaxItems - Len(run.got) >= 1
      BY <1>1, Numbers
  <2>2. QED
      BY <2>1, Numbers, LeastType DEF Asked
<1>4. o \in Nat
  <2>1. run.page - 1 \in Nat
      BY <1>1
  <2>2. \A a, b \in Nat : a * b \in Nat
      OBVIOUS
  <2>3. QED
      BY <1>3, <2>1, <2>2 DEF Offset
<1> HIDE DEF L, o
<1>5. to \in Nat /\ to <= Len(L) /\ to <= o + Asked /\ (to = Len(L) \/ to = o + Asked)
  <2>1. o + Asked \in Nat
      BY <1>3, <1>4
  <2>2. QED
      BY <1>2, <2>1, LeastType
<1>6. \A n \in (o + 1)..to : L[n] \in Items
    BY <1>2, <1>4, <1>5, ElementOfSeq
<1>7. Page = SubSeq(L, o + 1, to)
    BY DEF Page, Part, L, o
<1> HIDE DEF to
<1>8. /\ Page \in Seq(Items)
      /\ Len(Page) = IF o + 1 <= to THEN to - (o + 1) + 1 ELSE 0
      /\ \A n \in 1..(to - (o + 1) + 1) : Page[n] = L[o + 1 + n - 1]
    BY <1>4, <1>5, <1>6, <1>7, SubSeqProperties
<1>9. \A n \in 1..Len(Page) : Page[n] = L[o + n]
    BY <1>4, <1>5, <1>8
<1>10. /\ Len(Page) <= Asked
       /\ Len(Page) = IF o >= Len(L) THEN 0 ELSE IF o + Asked <= Len(L) THEN Asked ELSE Len(L) - o
    BY <1>2, <1>3, <1>4, <1>5, <1>8
<1>11. QED
    BY <1>2, <1>3, <1>4, <1>8, <1>9, <1>10 DEF L, o

\* The rest of the work, after the batch in hand.
Rest == SubSeq(run.got, BatchLen + 1, Len(run.got))

LEMMA RestTyped ==
    ASSUME Typed
    PROVE  /\ BatchLen \in 0..Len(run.got) /\ BatchLen <= Batch /\ Len(run.got) \in Nat
           /\ Rest \in Seq(Items)
           /\ \A n \in 1..BatchLen : run.got[n] \in Items
<1>1. run.got \in Seq(Items) /\ Len(run.got) \in Nat
    BY LenProperties DEF Typed, RunTyped, Runs
<1>2. BatchLen \in 0..Len(run.got) /\ BatchLen <= Batch
  <2>1. /\ BatchLen \in Nat /\ BatchLen <= Batch
        /\ BatchLen <= Len(run.got)
      BY <1>1, Numbers, LeastType DEF BatchLen
  <2>2. QED
      BY <1>1, <2>1
<1>3. \A n \in 1..Len(run.got) : run.got[n] \in Items
    BY <1>1, ElementOfSeq
<1>4. \A n \in (BatchLen + 1)..Len(run.got) : run.got[n] \in Items
    BY <1>1, <1>2, <1>3
<1>5. Rest \in Seq(Items)
    BY <1>1, <1>2, <1>4, SubSeqProperties DEF Rest
<1>6. QED
    BY <1>1, <1>2, <1>3, <1>5

\* The latest of some positions is one of them.
LEMMA LatestIn ==
    ASSUME NEW N \in Nat, NEW S, S \subseteq 1..N, S # {}
    PROVE  (CHOOSE n \in S : \A m \in S : m <= n) \in S
<1> DEFINE D == {N - n : n \in S}
<1>1. D \subseteq Nat /\ D # {}
  <2>1. \A n \in S : N - n \in Nat
      OBVIOUS
  <2>2. QED
      BY <2>1
<1> HIDE DEF D
<1>2. PICK d \in D : \A e \in D : d <= e
    BY <1>1, LeastNat
<1> USE DEF D
<1>3. PICK n \in S : d = N - n
    OBVIOUS
<1>4. \A m \in S : m <= n
  <2> TAKE m \in S
  <2>1. d <= N - m
      BY <1>2
  <2>2. QED
      BY <1>3, <2>1
<1>5. QED
    BY <1>4

(***************************************************************************)
(* What the steps do                                                       *)
(***************************************************************************)
LEMMA MeetFaults ==
    ASSUME faults \in Nat, NEW failures, Meet(failures)
    PROVE  /\ faults' \in Nat /\ faults' >= faults
           /\ failures # {} => faults' = faults + 1
BY DEF Meet, Fault

\* A batch: every position of it is paid for.
LEMMA DetailIs ==
    ASSUME Typed, Detail
    PROVE  /\ run.pc = "detail" /\ run'.pc = "index" /\ run'.got = run.got /\ run'.src = run.src
           /\ Len(run'.docs) = BatchLen
           /\ RunTyped(run')
           /\ faults' \in Nat /\ faults' >= faults
           /\ run'.calm => run.calm
           /\ paid' \in [Items -> Nat]
           /\ \A i \in Items : paid'[i] = paid[i] + Cardinality(Spots(run.got, i, BatchLen))
           /\ UNCHANGED <<listing, index, shifts>>
<1>1. PICK failed \in SUBSET (1..BatchLen) :
          /\ Meet(failed)
          /\ run' = [run EXCEPT !.pc = "index", !.calm = @ /\ failed = {},
                         !.docs = [n \in 1..BatchLen |-> IF n \in failed THEN "bare" ELSE "full"]]
    BY DEF Detail
<1> DEFINE docs == [n \in 1..BatchLen |-> IF n \in failed THEN "bare" ELSE "full"]
           calm == run.calm /\ failed = {}
<1>2. run.pc = "detail" /\ run \in Runs /\ run.src >= 1 /\ BatchLen \in Nat
    BY RestTyped DEF Detail, Typed, RunTyped
<1>3. docs \in Seq(Details) /\ Len(docs) = BatchLen
    BY <1>2 DEF Details
<1>4. calm \in BOOLEAN
    OBVIOUS
<1> HIDE DEF docs, calm
<1>5. run' = [run EXCEPT !.pc = "index", !.calm = calm, !.docs = docs]
    BY <1>1 DEF docs, calm
<1>6. run' \in Runs
    BY <1>2, <1>3, <1>4, <1>5 DEF Runs, Pcs
<1>7. /\ run'.pc = "index" /\ run'.got = run.got /\ run'.src = run.src /\ run'.docs = docs
      /\ run'.calm = calm
    BY <1>2, <1>5 DEF Runs
<1>8. RunTyped(run')
    BY <1>2, <1>3, <1>6, <1>7 DEF RunTyped, BatchLen
<1>9. faults' \in Nat /\ faults' >= faults
    BY <1>1, MeetFaults DEF Typed
<1>10. paid' = [i \in Items |-> paid[i] + Cardinality(Spots(run.got, i, BatchLen))]
    BY DEF Detail, Spots
<1>11. \A i \in Items : Cardinality(Spots(run.got, i, BatchLen)) \in Nat
    BY <1>2, SpotsFinite
<1>12. paid' \in [Items -> Nat]
    BY <1>10, <1>11 DEF Typed
<1>13. UNCHANGED <<listing, index, shifts>>
    BY DEF Detail
<1>14. QED
    BY <1>2, <1>3, <1>7, <1>8, <1>9, <1>10, <1>12, <1>13 DEF calm

\* A bulk request: what is not rejected is indexed, and nothing else changes.
LEMMA IndexIs ==
    ASSUME Typed, Index
    PROVE  /\ run.pc = "index" /\ run.src >= 1
           /\ UNCHANGED <<listing, paid, shifts>>
           /\ index' \in [Items -> {None} \cup Details]
           /\ \E rejected \in SUBSET (1..BatchLen), c \in BOOLEAN :
                 /\ Meet(rejected)
                 /\ c => run.calm /\ rejected = {}
                 /\ run' = [Work(Rest) EXCEPT !.calm = c]
                 /\ \A i \in Items :
                        IF \E n \in (1..BatchLen) \ rejected : run.got[n] = i
                        THEN index'[i] # None
                        ELSE index'[i] = index[i]
<1> DEFINE Written(i, rejected) == {n \in DOMAIN run.docs \ rejected : run.got[n] = i}
           Latest(i, rejected) == CHOOSE n \in Written(i, rejected) :
                                      \A m \in Written(i, rejected) : m <= n
<1>1. PICK rejected \in SUBSET DOMAIN run.docs :
          /\ Meet(rejected)
          /\ index' = [i \in Items |-> IF Written(i, rejected) = {} THEN index[i]
                                       ELSE run.docs[Latest(i, rejected)]]
          /\ run' = [Work(SubSeq(run.got, Len(run.docs) + 1, Len(run.got)))
                        EXCEPT !.calm = @ /\ rejected = {}]
    BY DEF Index
<1>2. run.pc = "index" /\ run.src >= 1 /\ Len(run.docs) = BatchLen /\ run.docs \in Seq(Details)
    BY DEF Index, Typed, RunTyped, Runs, BatchLen
<1>3. /\ DOMAIN run.docs = 1..BatchLen /\ BatchLen \in Nat
      /\ \A n \in 1..BatchLen : run.docs[n] \in Details
    BY <1>2, LenProperties, ElementOfSeq
<1>4. ASSUME NEW i \in Items
      PROVE  IF \E n \in (1..BatchLen) \ rejected : run.got[n] = i
             THEN index'[i] \in Details
             ELSE index'[i] = index[i]
  <2>1. CASE Written(i, rejected) = {}
    <3>1. index'[i] = index[i]
        BY <1>1, <2>1
    <3>2. QED
        BY <1>3, <2>1, <3>1
  <2>2. CASE Written(i, rejected) # {}
    <3>1. index'[i] = run.docs[Latest(i, rejected)]
        BY <1>1, <2>2
    <3>2. Written(i, rejected) \subseteq 1..BatchLen
        BY <1>3
    <3>3. Latest(i, rejected) \in Written(i, rejected)
      <4> HIDE DEF Written
      <4>1. QED
          BY <1>3, <2>2, <3>2, LatestIn
    <3>4. \E n \in (1..BatchLen) \ rejected : run.got[n] = i
        BY <1>3, <2>2
    <3> HIDE DEF Written, Latest
    <3>5. QED
        BY <1>3, <3>1, <3>2, <3>3, <3>4
  <2>3. QED
      BY <2>1, <2>2
<1>5. index' \in [Items -> {None} \cup Details]
  <2>1. index' = [i \in Items |-> index'[i]]
      BY <1>1
  <2>2. \A i \in Items : index'[i] \in {None} \cup Details
      BY <1>4 DEF Typed
  <2>3. QED
      BY <2>1, <2>2
<1>6. Work(Rest).calm = run.calm
    BY <1>2, RestTyped, WorkTyped DEF Typed
<1> DEFINE c == run.calm /\ rejected = {}
<1>7. run' = [Work(Rest) EXCEPT !.calm = c]
    BY <1>1, <1>2, <1>6 DEF Rest
<1>8. c \in BOOLEAN /\ (c => run.calm /\ rejected = {})
    OBVIOUS
<1> HIDE DEF c
<1>9. \A i \in Items : IF \E n \in (1..BatchLen) \ rejected : run.got[n] = i
                       THEN index'[i] # None ELSE index'[i] = index[i]
    BY <1>4, Numbers
<1>10. Meet(rejected) /\ rejected \in SUBSET (1..BatchLen)
    BY <1>1, <1>3
<1>11. UNCHANGED <<listing, paid, shifts>>
    BY DEF Index
<1>12. QED
    BY <1>2, <1>5, <1>7, <1>8, <1>9, <1>10, <1>11

\* An item is registered: one listing grows, at one of its ends.
LEMMA RegisterIs ==
    ASSUME Typed, NEW i \in Items, Register(i)
    PROVE  /\ SourceOf[i] \in ToSet(Sources) /\ i \notin Listed(SourceOf[i])
           /\ \/ listing' = [listing EXCEPT ![SourceOf[i]] = <<i>> \o @]
              \/ listing' = [listing EXCEPT ![SourceOf[i]] = Append(@, i)]
           /\ listing' \in [ToSet(Sources) -> Seq(Items)]
           /\ RunTyped(run')
           /\ run' = [run EXCEPT !.calm = run.pc = "idle"]
           /\ shifts' \in Nat /\ shifts' >= shifts
           /\ run.pc = "list" /\ run.got # <<>> => shifts' = shifts + 1
           /\ UNCHANGED <<index, faults, paid>>
<1>1. SourceOf[i] \in ToSet(Sources) /\ listing[SourceOf[i]] \in Seq(Items)
    BY Numbers DEF Typed
<1>2. <<i>> \o listing[SourceOf[i]] \in Seq(Items) /\ Append(listing[SourceOf[i]], i) \in Seq(Items)
    BY <1>1
<1>3. /\ \/ listing' = [listing EXCEPT ![SourceOf[i]] = <<i>> \o @]
         \/ listing' = [listing EXCEPT ![SourceOf[i]] = Append(@, i)]
      /\ i \notin Listed(SourceOf[i])
      /\ run' = [run EXCEPT !.calm = run.pc = "idle"]
      /\ shifts' = IF run.pc = "list" /\ run.got # <<>> THEN shifts + 1 ELSE shifts
      /\ UNCHANGED <<index, faults, paid>>
    BY DEF Register
<1>4. listing' \in [ToSet(Sources) -> Seq(Items)]
    BY <1>1, <1>2, <1>3 DEF Typed
<1>5. (run.pc = "idle") \in BOOLEAN
    OBVIOUS
<1>6. RunTyped(run')
    BY <1>3, <1>5, CalmTyped DEF Typed
<1>7. shifts' \in Nat /\ shifts' >= shifts
    BY <1>3 DEF Typed
<1>8. QED
    BY <1>1, <1>3, <1>4, <1>6, <1>7

\* A page that is not the last one.
LEMMA ListPageIs ==
    ASSUME Typed, ListPage
    PROVE  /\ run.pc = "list" /\ run.src >= 1
           /\ UNCHANGED <<listing, index, faults, paid, shifts>>
           /\ RunTyped(run')
           /\ run'.got = run.got \o Page /\ run'.src = run.src /\ run'.calm = run.calm
           /\ \/ run'.pc = "skip" /\ (Page = <<>> \/ Enough(run'.got))
              \/ run'.pc = "list" /\ run'.page = run.page + 1 /\ Page # <<>> /\ ~Enough(run'.got)
<1> DEFINE got == run.got \o Page
<1>1. run.pc = "list" /\ run \in Runs /\ run.src >= 1 /\ run.page \in Nat /\ run.page >= 1
    BY DEF ListPage, Typed, RunTyped, Runs
<1>2. got \in Seq(Items) /\ Len(got) \in Nat
    BY <1>1, PageIs, ConcatProperties, LenProperties DEF Runs
<1>3. run' = IF Page = <<>> \/ Enough(got) THEN [run EXCEPT !.pc = "skip", !.got = got]
             ELSE [run EXCEPT !.page = @ + 1, !.got = got]
    BY DEF ListPage
<1>4. UNCHANGED <<listing, index, faults, paid, shifts>>
    BY DEF ListPage
<1>5. CASE Page = <<>> \/ Enough(got)
  <2> HIDE DEF got
  <2>1. run' = [run EXCEPT !.pc = "skip", !.got = got]
      BY <1>3, <1>5
  <2>2. run' \in Runs
      BY <1>1, <1>2, <2>1 DEF Runs, Pcs
  <2>3. run'.pc = "skip" /\ run'.got = got /\ run'.src = run.src /\ run'.calm = run.calm
      BY <1>1, <2>1 DEF Runs
  <2>4. RunTyped(run')
      BY <1>1, <2>2, <2>3 DEF RunTyped
  <2>5. QED
      BY <1>1, <1>4, <1>5, <2>3, <2>4 DEF got
<1>6. CASE ~(Page = <<>> \/ Enough(got))
  <2>1. ~(Len(got) >= MaxItems)
      BY <1>6 DEF Enough
  <2> HIDE DEF got
  <2>2. run' = [run EXCEPT !.page = run.page + 1, !.got = got]
      BY <1>3, <1>6
  <2>a. run.page + 1 \in Nat
      BY <1>1
  <2>3. run' \in Runs
      BY <1>1, <1>2, <2>2, <2>a DEF Runs
  <2>4. run'.pc = "list" /\ run'.got = got /\ run'.src = run.src /\ run'.calm = run.calm
        /\ run'.page = run.page + 1
      BY <1>1, <2>2 DEF Runs
  <2>5. RunTyped(run')
      BY <1>1, <1>2, <2>1, <2>3, <2>4, Numbers DEF RunTyped
  <2>6. QED
      BY <1>1, <1>4, <1>6, <2>4, <2>5 DEF got
<1>7. QED
    BY <1>5, <1>6

\* What is left to do of a listing.
LEMMA SkipIs ==
    ASSUME Typed, Skip
    PROVE  /\ run.pc = "skip" /\ run.src >= 1
           /\ UNCHANGED <<listing, index, faults, paid, shifts>>
           /\ run' = Work(NewItems(run.got)) /\ NewItems(run.got) \in Seq(Items)
           /\ RunTyped(run')
<1>1. run.pc = "skip" /\ run.src >= 1 /\ run.got \in Seq(Items) /\ RunTyped(run)
    BY DEF Skip, Typed, RunTyped, Runs
<1>2. NewItems(run.got) \in Seq(Items)
    BY <1>1, NewItemsAre
<1>3. QED
    BY <1>1, <1>2, WorkTyped DEF Skip

\* The listing is taken as it is after an error code.
LEMMA RefusedIs ==
    ASSUME Typed, ListRefused
    PROVE  /\ run.pc = "list" /\ faults' = faults + 1
           /\ UNCHANGED <<listing, index, paid, shifts>>
           /\ run'.pc = "skip" /\ run'.got = run.got /\ ~run'.calm
           /\ RunTyped(run')
<1>1. /\ run.pc = "list" /\ run \in Runs /\ run.src >= 1 /\ faults' = faults + 1
      /\ run' = [run EXCEPT !.pc = "skip", !.calm = FALSE]
      /\ UNCHANGED <<listing, index, paid, shifts>>
    BY DEF ListRefused, Fault, Typed, RunTyped
<1>2. run' \in Runs
    BY <1>1 DEF Runs, Pcs
<1>3. run'.pc = "skip" /\ run'.got = run.got /\ ~run'.calm /\ run'.src = run.src
    BY <1>1 DEF Runs
<1>4. QED
    BY <1>1, <1>2, <1>3 DEF RunTyped

LEMMA InitTyped == Init => Typed
<1> SUFFICES ASSUME Init PROVE Typed
    OBVIOUS
<1>1. listing \in [ToSet(Sources) -> Seq(Items)]
    BY EmptySeq DEF Init
<1>2. QED
    BY <1>1, NoRunTyped DEF Init, Typed

LEMMA NextTyped ==
    ASSUME Typed, [Next]_vars
    PROVE  Typed'
<1>1. CASE Begin
  <2>1. NoRun \in Runs /\ run' = NextSource(NoRun) /\ UNCHANGED <<listing, index, faults, paid, shifts>>
      BY <1>1, NoRunTyped DEF Begin, RunTyped
  <2>2. RunTyped(run')
      BY <2>1, NextSourceTyped
  <2>3. QED
      BY <2>1, <2>2 DEF Typed
<1>2. CASE ListPage
    BY <1>2, ListPageIs DEF Typed
<1>3. CASE ListRefused
    BY <1>3, RefusedIs DEF Typed
<1>4. CASE Skip
    BY <1>4, SkipIs DEF Typed
<1>5. CASE Detail
    BY <1>5, DetailIs DEF Typed
<1>6. CASE Index
  <2>1. PICK rejected \in SUBSET (1..BatchLen), c \in BOOLEAN :
          Meet(rejected) /\ run' = [Work(Rest) EXCEPT !.calm = c]
      BY <1>6, IndexIs
  <2>2. RunTyped(Work(Rest))
      BY <1>6, IndexIs, RestTyped, WorkTyped DEF Typed
  <2>3. RunTyped(run')
      BY <2>1, <2>2, CalmTyped
  <2>4. faults' \in Nat
      BY <2>1, MeetFaults DEF Typed
  <2>5. QED
      BY <1>6, <2>3, <2>4, IndexIs DEF Typed
<1>7. CASE End \/ Crash
  <2>1. run' = NoRun /\ faults' \in Nat /\ UNCHANGED <<listing, index, paid, shifts>>
      BY <1>7 DEF End, Crash, Fault, Typed
  <2>2. QED
      BY <2>1, NoRunTyped DEF Typed
<1>8. ASSUME NEW i \in Items, Register(i) PROVE Typed'
    BY <1>8, RegisterIs DEF Typed
<1>9. CASE UNCHANGED vars
    BY <1>9 DEF vars, Typed
<1>10. QED
    BY <1>1, <1>2, <1>3, <1>4, <1>5, <1>6, <1>7, <1>8, <1>9 DEF Next, RunStep

THEOREM CollectorTyped == Spec => []Typed
BY InitTyped, NextTyped, PTL DEF Spec

(***************************************************************************)
(* A run that is cut short loses one batch.                                *)
(***************************************************************************)
\* Items that were paid for and are not in the index.
Lost == {i \in Items : paid[i] > 0 /\ index[i] = None}

\* The items of the batch that is about to be written.
InHand == IF run.pc = "index" THEN {run.got[n] : n \in 1..BatchLen} ELSE {}

\* What is lost for good was lost to a fault, a batch at a time.
BatchInv == IsFiniteSet(Lost \ InHand) /\ Cardinality(Lost \ InHand) <= Batch * faults

LEMMA InHandBound ==
    ASSUME Typed
    PROVE  IsFiniteSet(InHand) /\ Cardinality(InHand) <= Batch
<1>1. BatchLen \in Nat /\ BatchLen <= Batch /\ Batch \in Nat
    BY RestTyped, Numbers
<1>2. CASE run.pc = "index"
  <2> DEFINE f == [n \in 1..BatchLen |-> run.got[n]]
  <2>1. InHand = {run.got[n] : n \in 1..BatchLen}
      BY <1>2 DEF InHand
  <2>2. f \in [1..BatchLen -> InHand] /\ \A x \in InHand : \E n \in 1..BatchLen : f[n] = x
      BY <2>1
  <2>3. f \in Surjection(1..BatchLen, InHand)
      BY <2>2 DEF Surjection
  <2>5. IsFiniteSet(1..BatchLen) /\ Cardinality(1..BatchLen) = BatchLen
      BY <1>1, FS_Interval
  <2>6. IsFiniteSet(InHand) /\ Cardinality(InHand) <= Cardinality(1..BatchLen)
      BY <2>3, <2>5, FS_Surjection
  <2>7. Cardinality(InHand) \in Nat
      BY <2>6, FS_CardinalityType
  <2>8. QED
      BY <1>1, <2>5, <2>6, <2>7
<1>3. CASE run.pc # "index"
    BY <1>1, <1>3, FS_EmptySet DEF InHand
<1>4. QED
    BY <1>2, <1>3

\* The batch in hand is lost at most.
LEMMA LostBound ==
    ASSUME Typed, BatchInv
    PROVE  IsFiniteSet(Lost) /\ Cardinality(Lost) <= Batch * (faults + 1)
<1> DEFINE kept == Lost \ InHand
           all == kept \cup InHand
<1>1. /\ IsFiniteSet(kept) /\ Cardinality(kept) <= Batch * faults
      /\ IsFiniteSet(InHand) /\ Cardinality(InHand) <= Batch
    BY InHandBound DEF BatchInv
<1>2. /\ IsFiniteSet(all)
      /\ Cardinality(all) = Cardinality(kept) + Cardinality(InHand) - Cardinality(kept \cap InHand)
  <2> HIDE DEF kept
  <2>1. QED
      BY <1>1, FS_Union
<1>3. kept \cap InHand = {} /\ Lost \in SUBSET all
    OBVIOUS
<1>4. Cardinality(kept) \in Nat /\ Cardinality(InHand) \in Nat /\ Cardinality({}) = 0
    BY <1>1, FS_CardinalityType, FS_EmptySet
<1>5. Cardinality(all) <= Batch * faults + Batch
  <2> HIDE DEF kept, all
  <2>1. Batch \in Nat /\ faults \in Nat /\ Batch * faults \in Nat
      BY Numbers DEF Typed
  <2>2. Cardinality(kept \cap InHand) = 0
      BY <1>3, <1>4
  <2>3. QED
      BY <1>1, <1>2, <1>4, <2>1, <2>2
<1>6. Batch * (faults + 1) = Batch * faults + Batch
    BY Numbers DEF Typed
<1>7. IsFiniteSet(Lost) /\ Cardinality(Lost) <= Cardinality(all)
  <2> HIDE DEF all
  <2>1. QED
      BY <1>2, <1>3, FS_Subset
<1>8. Cardinality(Lost) \in Nat /\ Cardinality(all) \in Nat /\ Batch * faults \in Nat
  <2>1. Cardinality(all) \in Nat
      BY <1>2, FS_CardinalityType
  <2>2. Cardinality(Lost) \in Nat
      BY <1>7, FS_CardinalityType
  <2>3. Batch * faults \in Nat
      BY Numbers DEF Typed
  <2>4. QED
      BY <2>1, <2>2, <2>3
<1>9. Batch \in Nat
    BY Numbers
<1>10. Cardinality(Lost) <= Batch * faults + Batch
  <2> DEFINE lost == Cardinality(Lost)
             sum == Cardinality(all)
             b == Batch * faults
  <2>1. lost \in Nat /\ sum \in Nat /\ b \in Nat /\ lost <= sum /\ sum <= b + Batch
      BY <1>5, <1>7, <1>8
  <2> HIDE DEF lost, sum, b
  <2>2. lost <= b + Batch
      BY <1>9, <2>1
  <2>3. QED
      BY <2>2 DEF lost, b
<1> HIDE DEF all
<1>11. QED
    BY <1>6, <1>7, <1>10

\* Nothing more is lost than was.
LEMMA LostKeeps ==
    ASSUME Typed, BatchInv, (Lost \ InHand)' \subseteq Lost \ InHand,
           faults' \in Nat, faults' >= faults
    PROVE  BatchInv'
<1> DEFINE old == Lost \ InHand
           new == (Lost \ InHand)'
<1>1. new \in SUBSET old /\ IsFiniteSet(old) /\ Cardinality(old) <= Batch * faults
    BY DEF BatchInv
<1> HIDE DEF old, new
<1>2. IsFiniteSet(new) /\ Cardinality(new) <= Cardinality(old)
    BY <1>1, FS_Subset
<1>3. Cardinality(new) \in Nat /\ Cardinality(old) \in Nat
    BY <1>1, <1>2, FS_CardinalityType
<1>4. Batch * faults <= Batch * faults' /\ Batch * faults \in Nat /\ Batch * faults' \in Nat
  <2>1. PICK d \in Nat : faults' = faults + d
      BY DEF Typed
  <2>2. Batch * faults' = Batch * faults + Batch * d /\ Batch * d \in Nat
      BY <2>1, Numbers DEF Typed
  <2>3. Batch * faults \in Nat
      BY Numbers DEF Typed
  <2>4. QED
      BY <2>2, <2>3
<1>5. IsFiniteSet(new) /\ Cardinality(new) <= Batch * faults'
    BY <1>1, <1>2, <1>3, <1>4
<1>6. QED
    BY <1>5 DEF BatchInv, new

\* A fault may lose the batch in hand.
LEMMA FaultLoses ==
    ASSUME Typed, BatchInv, (Lost \ InHand)' \subseteq Lost, faults' = faults + 1
    PROVE  BatchInv'
<1> DEFINE new == (Lost \ InHand)'
<1>1. new \in SUBSET Lost /\ IsFiniteSet(Lost) /\ Cardinality(Lost) <= Batch * faults'
    BY LostBound
<1> HIDE DEF new
<1>2. IsFiniteSet(new) /\ Cardinality(new) <= Cardinality(Lost)
    BY <1>1, FS_Subset
<1>3. Cardinality(new) \in Nat /\ Cardinality(Lost) \in Nat
    BY <1>1, <1>2, FS_CardinalityType
<1>4. Batch * faults' \in Nat
    BY Numbers DEF Typed
<1>5. IsFiniteSet(new) /\ Cardinality(new) <= Batch * faults'
    BY <1>1, <1>2, <1>3, <1>4
<1>6. QED
    BY <1>5 DEF BatchInv, new

LEMMA InitBatch == Init => BatchInv
<1> SUFFICES ASSUME Init PROVE BatchInv
    OBVIOUS
<1>1. Lost \ InHand = {}
    BY DEF Init, Lost
<1>2. Batch * faults \in Nat
    BY Numbers, InitTyped DEF Typed
<1>3. QED
    BY <1>1, <1>2, FS_EmptySet DEF BatchInv

LEMMA NextBatch ==
    ASSUME Typed, Typed', BatchInv, [Next]_vars
    PROVE  BatchInv'
<1>a. faults \in Nat /\ faults' \in Nat
    BY DEF Typed
\* No batch in hand, before and after.
<1>b. ASSUME UNCHANGED <<index, paid>>, run.pc # "index", run'.pc # "index", faults' >= faults
      PROVE  BatchInv'
  <2>1. (Lost \ InHand)' = Lost \ InHand
      BY <1>b DEF Lost, InHand
  <2>2. QED
      BY <1>a, <1>b, <2>1, LostKeeps
<1>1. CASE Begin
  <2>1. run.pc = "idle" /\ run' = NextSource(NoRun) /\ UNCHANGED <<index, faults, paid>>
      BY <1>1 DEF Begin
  <2>2. run'.pc # "index"
      BY <2>1, NoRunTyped, NextSourceTyped DEF RunTyped
  <2>3. QED
      BY <1>a, <1>b, <2>1, <2>2
<1>2. CASE ListPage
    BY <1>a, <1>b, <1>2, ListPageIs
<1>3. CASE ListRefused
    BY <1>a, <1>b, <1>3, RefusedIs
<1>4. CASE Skip
  <2>1. run' = NextSource(run) \/ run'.pc = "detail"
      BY <1>4, SkipIs, WorkTyped DEF Typed
  <2>2. run'.pc # "index"
      BY <2>1, NextSourceTyped DEF Typed, RunTyped
  <2>3. QED
      BY <1>a, <1>b, <1>4, <2>2, SkipIs
<1>5. CASE Detail
  <2>1. ASSUME NEW i \in (Lost \ InHand)' PROVE i \in Lost \ InHand
    <3>1. i \in Items /\ index[i] = None /\ paid'[i] > 0 /\ i \notin InHand'
        BY <1>5, <2>1, DetailIs DEF Lost
    <3>2. InHand' = {run.got[n] : n \in 1..BatchLen}
        BY <1>5, DetailIs DEF InHand, BatchLen
    <3>3. Cardinality(Spots(run.got, i, BatchLen)) = 0
        BY <3>1, <3>2, RestTyped, SpotsFinite
    <3>4. paid'[i] = paid[i]
        BY <1>5, <3>1, <3>3, DetailIs DEF Typed
    <3>5. InHand = {}
        BY <1>5, DetailIs DEF InHand
    <3>6. QED
        BY <3>1, <3>4, <3>5 DEF Lost
  <2>2. faults' >= faults
      BY <1>5, DetailIs
  <2>3. QED
      BY <1>a, <2>1, <2>2, LostKeeps
<1>6. CASE Index
  <2>1. PICK rejected \in SUBSET (1..BatchLen), c \in BOOLEAN :
          /\ Meet(rejected)
          /\ \A i \in Items :
                 IF \E n \in (1..BatchLen) \ rejected : run.got[n] = i
                 THEN index'[i] # None
                 ELSE index'[i] = index[i]
      BY <1>6, IndexIs
  <2>2. UNCHANGED paid /\ InHand = {run.got[n] : n \in 1..BatchLen}
      BY <1>6, IndexIs DEF InHand
  <2>3. CASE rejected = {}
    <3>1. ASSUME NEW i \in (Lost \ InHand)' PROVE i \in Lost \ InHand
      <4>1. i \in Items /\ paid[i] > 0 /\ index'[i] = None
          BY <2>2, <3>1 DEF Lost
      <4>2. ~ \E n \in 1..BatchLen : run.got[n] = i
          BY <2>1, <2>3, <4>1
      <4>3. index[i] = None
          BY <2>1, <2>3, <4>1, <4>2
      <4>4. QED
          BY <2>2, <4>1, <4>2, <4>3 DEF Lost
    <3>2. faults' >= faults
        BY <1>a, <2>1, MeetFaults
    <3>3. QED
        BY <1>a, <3>1, <3>2, LostKeeps
  <2>4. CASE rejected # {}
    <3>1. ASSUME NEW i \in (Lost \ InHand)' PROVE i \in Lost
      <4>1. i \in Items /\ paid[i] > 0 /\ index'[i] = None
          BY <2>2, <3>1 DEF Lost
      <4>2. index[i] = None
          BY <2>1, <4>1
      <4>3. QED
          BY <4>1, <4>2 DEF Lost
    <3>2. faults' = faults + 1
        BY <1>a, <2>1, <2>4, MeetFaults
    <3>3. QED
        BY <3>1, <3>2, FaultLoses
  <2>5. QED
      BY <2>3, <2>4
<1>7. CASE End
    BY <1>a, <1>b, <1>7 DEF End, NoRun
<1>8. CASE Crash
  <2>1. run' = NoRun /\ faults' = faults + 1 /\ UNCHANGED <<index, paid>>
      BY <1>8 DEF Crash, Fault
  <2>2. (Lost \ InHand)' \subseteq Lost
      BY <2>1 DEF Lost
  <2>3. QED
      BY <2>1, <2>2, FaultLoses
<1>9. ASSUME NEW i \in Items, Register(i) PROVE BatchInv'
  <2>1. UNCHANGED <<index, paid, faults>> /\ run'.pc = run.pc /\ run'.got = run.got
      BY <1>9, RegisterIs DEF Typed, RunTyped, Runs
  <2>2. (Lost \ InHand)' = Lost \ InHand
      BY <2>1 DEF Lost, InHand, BatchLen
  <2>3. QED
      BY <1>a, <2>1, <2>2, LostKeeps
<1>10. CASE UNCHANGED vars
  <2>1. (Lost \ InHand)' = Lost \ InHand /\ faults' = faults
      BY <1>10 DEF vars, Lost, InHand, BatchLen
  <2>2. QED
      BY <1>a, <2>1, LostKeeps
<1>11. QED
    BY <1>1, <1>2, <1>3, <1>4, <1>5, <1>6, <1>7, <1>8, <1>9, <1>10 DEF Next, RunStep

\* A run that is cut short, at any point and any number of times, loses the work of one batch:
\* with none in hand, what was paid for and is not indexed is a batch for each fault at most.
THEOREM BatchesAreKept == Spec => []BatchesKept
<1>1. Typed /\ BatchInv => BatchesKept
  <2> SUFFICES ASSUME BatchInv, run.pc # "index"
               PROVE  Cardinality(Lost) <= Batch * faults
      BY DEF BatchesKept, Lost
  <2>1. InHand = {} /\ Lost \ {} = Lost
      BY DEF InHand
  <2>2. QED
      BY <2>1 DEF BatchInv
<1>2. QED
    BY <1>1, InitBatch, NextBatch, CollectorTyped, PTL DEF Spec

(***************************************************************************)
(* Pages without gaps and overlaps                                         *)
(***************************************************************************)
\* --max is a whole number of pages, as by default and in the collector's schedule, or less
\* than one.  Otherwise the last request asks for a part of a page, at another offset.
WholePages == MaxItems <= Rows \/ \E k \in Nat : MaxItems = k * Rows

\* A listing shows an item once, and whole pages of it have been read.
PageInv ==
    /\ \A s \in ToSet(Sources) : \A m, n \in 1..Len(listing[s]) :
           listing[s][m] = listing[s][n] => m = n
    /\ run.pc = "list" => Len(run.got) = (run.page - 1) * Rows

LEMMA TimesMonotone ==
    ASSUME NEW a \in Nat, NEW b \in Nat, NEW c \in Nat, a <= b
    PROVE  a * c <= b * c
<1>1. PICK d \in Nat : b = a + d
    OBVIOUS
<1>2. b * c = a * c + d * c /\ d * c \in Nat /\ a * c \in Nat
    BY <1>1
<1>3. QED
    BY <1>2

\* The next page starts where the last one ended.
LEMMA PageFollows ==
    ASSUME WholePages, Typed, PageInv, run.pc = "list"
    PROVE  Offset(Asked) = Len(run.got)
<1> DEFINE p == run.page - 1
           m == Len(run.got)
<1>1. p \in Nat /\ m \in Nat /\ m = p * Rows /\ m < MaxItems
    BY LenProperties DEF Typed, RunTyped, Runs, PageInv
<1>2. Asked \in Nat /\ Offset(Asked) = p * Asked
    BY PageIs DEF Offset
<1>3. Asked = IF Rows < MaxItems - m THEN Rows ELSE MaxItems - m
    BY DEF Asked, Least
<1>4. Rows \in Nat /\ Rows >= 1 /\ MaxItems \in Nat
    BY Numbers
<1> HIDE DEF p, m
<1>5. CASE MaxItems <= Rows
  <2>1. p = 0
    <3>1. SUFFICES ASSUME p # 0 PROVE FALSE
        OBVIOUS
    <3>2. 1 * Rows <= p * Rows
        BY <1>1, <1>4, <3>1, TimesMonotone
    <3>3. QED
        BY <1>1, <1>4, <1>5, <3>2
  <2>2. 0 * Rows = 0 /\ 0 * Asked = 0
      BY <1>2, <1>4
  <2>3. QED
      BY <1>1, <1>2, <2>1, <2>2 DEF m
<1>6. ASSUME NEW k \in Nat, MaxItems = k * Rows PROVE Offset(Asked) = Len(run.got)
  <2>1. p < k
    <3>1. SUFFICES ASSUME k <= p PROVE FALSE
        BY <1>1
    <3>2. k * Rows <= p * Rows
        BY <1>1, <1>4, <3>1, TimesMonotone
    <3>3. QED
        BY <1>1, <1>4, <1>6, <3>2
  <2>2. (p + 1) * Rows <= k * Rows
      BY <1>1, <1>4, <2>1, TimesMonotone
  <2>3. (p + 1) * Rows = p * Rows + Rows
      BY <1>1, <1>4
  <2>4. Rows <= MaxItems - m
      BY <1>1, <1>4, <1>6, <2>2, <2>3
  <2>5. Asked = Rows
      BY <1>1, <1>3, <1>4, <2>4
  <2>6. QED
      BY <1>1, <1>2, <2>5 DEF m
<1>7. QED
    BY <1>5, <1>6 DEF WholePages

\* A page that is not the last one is a full one.
LEMMA PageIsFull ==
    ASSUME WholePages, Typed, PageInv, ListPage, run'.pc = "list"
    PROVE  Len(Page) = Rows
<1>1. run.pc = "list" /\ Page # <<>> /\ ~Enough(run.got \o Page)
    BY ListPageIs
<1>2. run.got \in Seq(Items) /\ Len(run.got) \in Nat /\ Len(listing[Source]) \in Nat
    BY <1>1, PageIs, LenProperties DEF Typed, RunTyped, Runs
<1>3. Offset(Asked) = Len(run.got)
    BY <1>1, PageFollows
<1>4. Len(run.got \o Page) = Len(run.got) + Len(Page) /\ Len(Page) \in Nat /\ Len(Page) # 0
    BY <1>1, <1>2, PageIs, ConcatProperties, LenProperties, EmptySeq
<1>5. /\ ~(Len(run.got) + Len(Page) >= Len(listing[Source]))
      /\ ~(Len(run.got) + Len(Page) >= MaxItems)
    BY <1>1, <1>4 DEF Enough
<1>6. Len(Page) = Asked
    BY <1>1, <1>2, <1>3, <1>4, <1>5, PageIs
<1>7. Asked # MaxItems - Len(run.got)
    BY <1>2, <1>5, <1>6, Numbers
<1>8. QED
    BY <1>1, <1>6, <1>7, PageIs

\* What a registration does to the positions of a listing.
LEMMA RegisterShifts ==
    ASSUME Typed, NEW i \in Items, Register(i), NEW s \in ToSet(Sources)
    PROVE  /\ listing[s] \in Seq(Items) /\ Len(listing[s]) \in Nat
           /\ \/ listing'[s] = listing[s]
              \/ /\ \A m \in 1..Len(listing[s]) : listing[s][m] # i
                 /\ Len(listing'[s]) = Len(listing[s]) + 1
                 /\ \/ \A n \in 1..(Len(listing[s]) + 1) :
                          listing'[s][n] = IF n = 1 THEN i ELSE listing[s][n - 1]
                    \/ \A n \in 1..(Len(listing[s]) + 1) :
                          listing'[s][n] = IF n = Len(listing[s]) + 1 THEN i ELSE listing[s][n]
<1> DEFINE L == listing[s]
<1>1. L \in Seq(Items) /\ Len(L) \in Nat /\ DOMAIN L = 1..Len(L)
    BY LenProperties DEF Typed
<1>2. CASE s # SourceOf[i]
    BY <1>1, <1>2, RegisterIs DEF Typed
<1>3. CASE s = SourceOf[i]
  <2>1. \A m \in 1..Len(L) : L[m] # i
    <3>1. i \notin Listed(s)
        BY <1>3, RegisterIs
    <3>2. Listed(s) = {L[m] : m \in DOMAIN L}
        BY DEF Listed, ToSet
    <3> HIDE DEF L
    <3>3. QED
        BY <1>1, <3>1, <3>2
  <2>2. listing'[s] = <<i>> \o L \/ listing'[s] = Append(L, i)
      BY <1>3, RegisterIs DEF Typed
  <2> HIDE DEF L
  <2>3. /\ Len(<<i>> \o L) = Len(L) + 1
        /\ \A n \in 1..(Len(L) + 1) : (<<i>> \o L)[n] = IF n = 1 THEN i ELSE L[n - 1]
      BY <1>1
  <2>4. /\ Len(Append(L, i)) = Len(L) + 1
        /\ \A n \in 1..(Len(L) + 1) : Append(L, i)[n] = IF n = Len(L) + 1 THEN i ELSE L[n]
      BY <1>1
  <2>5. QED
      BY <1>1, <2>1, <2>2, <2>3, <2>4 DEF L
<1>4. QED
    BY <1>2, <1>3

LEMMA InitPage == Init => PageInv
<1> SUFFICES ASSUME Init PROVE PageInv
    OBVIOUS
<1>1. \A s \in ToSet(Sources) : Len(listing[s]) = 0
    BY EmptySeq DEF Init
<1>2. QED
    BY <1>1 DEF Init, NoRun, PageInv

LEMMA NextPage ==
    ASSUME WholePages, Typed, Typed', PageInv, [Next]_vars
    PROVE  PageInv'
<1>a. ASSUME UNCHANGED listing, run'.pc # "list" PROVE PageInv'
    BY <1>a DEF PageInv
<1>b. ASSUME UNCHANGED listing, run'.pc = "list", run'.got = <<>>, run'.page = 1 PROVE PageInv'
  <2>1. Len(run'.got) = (run'.page - 1) * Rows
      BY <1>b, EmptySeq, Numbers
  <2>2. QED
      BY <1>b, <2>1 DEF PageInv
<1>c. ASSUME NEW rn \in Runs, run'.pc = NextSource(rn).pc, run'.got = NextSource(rn).got,
             run'.page = NextSource(rn).page, UNCHANGED listing
      PROVE  PageInv'
    BY <1>a, <1>b, <1>c, NextSourceTyped
<1>1. CASE Begin
    BY <1>1, <1>c, NoRunTyped DEF Begin, RunTyped
<1>2. CASE ListPage
  <2>1. CASE run'.pc # "list"
      BY <1>2, <1>a, <2>1, ListPageIs
  <2>2. CASE run'.pc = "list"
    <3>1. Len(Page) = Rows /\ run.pc = "list"
        BY <1>2, <2>2, PageIsFull, ListPageIs
    <3>2. run.got \in Seq(Items) /\ Len(run.got) \in Nat /\ run.page \in Nat /\ run.page >= 1
        BY <3>1, LenProperties DEF Typed, RunTyped, Runs
    <3>3. Len(run'.got) = Len(run.got) + Rows
      <4>1. Page \in Seq(Items)
          BY <3>1, PageIs
      <4>2. Len(run.got \o Page) = Len(run.got) + Len(Page)
          BY <3>2, <4>1, ConcatProperties
      <4>3. run'.got = run.got \o Page
          BY <1>2, ListPageIs
      <4>4. QED
          BY <3>1, <4>2, <4>3
    <3>4. Len(run.got) = (run.page - 1) * Rows
        BY <3>1 DEF PageInv
    <3>5. run'.page = run.page + 1
        BY <1>2, <2>2, ListPageIs
    <3>6. ((run.page + 1) - 1) * Rows = (run.page - 1) * Rows + Rows
        BY <3>2, Numbers
    <3>7. Len(run'.got) = (run'.page - 1) * Rows
        BY <3>3, <3>4, <3>5, <3>6
    <3>8. QED
        BY <1>2, <3>7, ListPageIs DEF PageInv
  <2>3. QED
      BY <2>1, <2>2
<1>3. CASE ListRefused
    BY <1>3, <1>a, RefusedIs
<1>4. CASE Skip
  <2>1. run' = NextSource(run) \/ run'.pc = "detail"
      BY <1>4, SkipIs, WorkTyped DEF Typed
  <2>2. QED
      BY <1>4, <1>a, <1>c, <2>1, SkipIs DEF Typed, RunTyped
<1>5. CASE Detail
    BY <1>5, <1>a, DetailIs
<1>6. CASE Index
  <2>1. PICK c \in BOOLEAN : run' = [Work(Rest) EXCEPT !.calm = c]
      BY <1>6, IndexIs
  <2>2. RunTyped(Work(Rest)) /\ (Work(Rest) = NextSource(run) \/ Work(Rest).pc = "detail")
      BY <1>6, IndexIs, RestTyped, WorkTyped DEF Typed
  <2>3. /\ run'.pc = Work(Rest).pc /\ run'.got = Work(Rest).got
        /\ run'.page = Work(Rest).page
      BY <2>1, <2>2 DEF RunTyped, Runs
  <2>4. UNCHANGED listing /\ run \in Runs
      BY <1>6, IndexIs DEF Typed, RunTyped
  <2>5. CASE Work(Rest) = NextSource(run)
      BY <1>c, <2>3, <2>4, <2>5
  <2>6. CASE Work(Rest).pc = "detail"
      BY <1>a, <2>3, <2>4, <2>6
  <2>7. QED
      BY <2>2, <2>5, <2>6
<1>7. CASE End \/ Crash
    BY <1>7, <1>a DEF End, Crash, NoRun
<1>8. ASSUME NEW i \in Items, Register(i) PROVE PageInv'
  <2>1. run'.pc = run.pc /\ run'.got = run.got /\ run'.page = run.page
      BY <1>8, RegisterIs DEF Typed, RunTyped, Runs
  <2>2. ASSUME NEW s \in ToSet(Sources), NEW m \in 1..Len(listing'[s]), NEW n \in 1..Len(listing'[s]),
               listing'[s][m] = listing'[s][n]
        PROVE  m = n
    <3>1. \A a, b \in 1..Len(listing[s]) : listing[s][a] = listing[s][b] => a = b
        BY DEF PageInv
    <3>2. CASE listing'[s] = listing[s]
        BY <2>2, <3>1, <3>2
    <3>3. CASE listing'[s] # listing[s]
      <4> DEFINE L == listing[s]
                 M == listing'[s]
      <4>1. /\ Len(L) \in Nat /\ Len(M) = Len(L) + 1
            /\ \A a \in 1..Len(L) : L[a] # i
            /\ \/ \A a \in 1..(Len(L) + 1) : M[a] = IF a = 1 THEN i ELSE L[a - 1]
               \/ \A a \in 1..(Len(L) + 1) : M[a] = IF a = Len(L) + 1 THEN i ELSE L[a]
          BY <1>8, <3>3, RegisterShifts
      <4>2. M[m] = M[n] /\ m \in 1..Len(M) /\ n \in 1..Len(M)
          BY <2>2
      <4>3. \A a, b \in 1..Len(L) : L[a] = L[b] => a = b
          BY <3>1
      <4> HIDE DEF L, M
      <4>4. CASE \A a \in 1..(Len(L) + 1) : M[a] = IF a = 1 THEN i ELSE L[a - 1]
        <5>1. M[m] = (IF m = 1 THEN i ELSE L[m - 1]) /\ M[n] = (IF n = 1 THEN i ELSE L[n - 1])
            BY <4>1, <4>2, <4>4
        <5>2. /\ m # 1 => m - 1 \in 1..Len(L)
              /\ n # 1 => n - 1 \in 1..Len(L)
            BY <4>1, <4>2
        <5>3. m # 1 /\ n # 1 => m - 1 = n - 1
            BY <4>2, <4>3, <5>1, <5>2
        <5>4. (m = 1 /\ n = 1) \/ (m # 1 /\ n # 1)
            BY <4>1, <4>2, <5>1, <5>2
        <5>5. QED
            BY <4>1, <4>2, <5>3, <5>4
      <4>5. CASE \A a \in 1..(Len(L) + 1) : M[a] = IF a = Len(L) + 1 THEN i ELSE L[a]
        <5>1. /\ M[m] = (IF m = Len(L) + 1 THEN i ELSE L[m])
              /\ M[n] = (IF n = Len(L) + 1 THEN i ELSE L[n])
            BY <4>1, <4>2, <4>5
        <5>2. /\ m # Len(L) + 1 => m \in 1..Len(L)
              /\ n # Len(L) + 1 => n \in 1..Len(L)
            BY <4>1, <4>2
        <5>3. QED
            BY <4>1, <4>2, <4>3, <5>1, <5>2
      <4>6. QED
          BY <4>1, <4>4, <4>5
    <3>4. QED
        BY <3>2, <3>3
  <2>3. QED
      BY <2>1, <2>2 DEF PageInv
<1>9. CASE UNCHANGED vars
    BY <1>9 DEF vars, PageInv
<1>10. QED
    BY <1>1, <1>2, <1>3, <1>4, <1>5, <1>6, <1>7, <1>8, <1>9 DEF Next, RunStep

(***************************************************************************)
(* An item is paid for once.                                               *)
(***************************************************************************)
\* Another payment is excused by a fault, or by a listing that has shifted.
Excused == faults + shifts

\* Whether the pages to come show an item.
Ahead(i) == IF \E n \in 1..Len(listing[Source]) : n > Len(run.got) /\ listing[Source][n] = i
            THEN 1 ELSE 0

\* What has been paid for an item, with what the run is still going to pay: only items that
\* are not indexed reach the batches, and an item that is neither indexed nor in the batch in
\* hand has lost all that was paid for it to faults.
PaidFor(i) ==
    /\ paid[i] <= 1 + Excused
    /\ index[i] = None /\ i \notin InHand => paid[i] <= Excused
    /\ run.pc = "list" /\ index[i] = None => paid[i] + Times(run.got, i) + Ahead(i) <= 1 + Excused
    /\ run.pc = "skip" /\ index[i] = None => paid[i] + Times(run.got, i) <= 1 + Excused
    /\ run.pc = "detail" => paid[i] + Times(run.got, i) <= 1 + Excused
    /\ run.pc = "index" => paid[i] + Times(Rest, i) <= 1 + Excused

PaidInv == \A i \in Items : PaidFor(i)

LEMMA ExcusedGrows ==
    ASSUME faults \in Nat, shifts \in Nat, faults' \in Nat, shifts' \in Nat,
           faults' >= faults, shifts' >= shifts
    PROVE  /\ Excused' \in Nat /\ Excused' >= Excused
           /\ faults' = faults + 1 /\ shifts' = shifts => Excused' = Excused + 1
<1>1. PICK a \in Nat, b \in Nat : a = faults /\ b = shifts
    OBVIOUS
<1>2. PICK c \in Nat, d \in Nat : c = faults' /\ d = shifts'
    OBVIOUS
<1>3. Excused = a + b /\ Excused' = c + d
    BY <1>1, <1>2 DEF Excused
<1>4. c >= a /\ d >= b
    BY <1>1, <1>2
<1>5. c + d \in Nat /\ c + d >= a + b
    BY <1>4
<1>6. c = a + 1 /\ d = b => c + d = a + b + 1
    OBVIOUS
<1>7. QED
    BY <1>1, <1>2, <1>3, <1>5, <1>6

LEMMA GotTimes ==
    ASSUME Typed
    PROVE  /\ Excused \in Nat
           /\ \A i \in Items : /\ paid[i] \in Nat /\ Times(run.got, i) \in Nat
                               /\ Times(Rest, i) \in Nat /\ Ahead(i) \in {0, 1}
                               /\ Cardinality(Spots(run.got, i, BatchLen)) \in Nat
                               /\ Times(run.got, i) =
                                      Cardinality(Spots(run.got, i, BatchLen)) + Times(Rest, i)
<1>1. run.got \in Seq(Items) /\ Rest \in Seq(Items) /\ BatchLen \in 0..Len(run.got)
      /\ Len(run.got) \in Nat /\ faults \in Nat /\ shifts \in Nat /\ paid \in [Items -> Nat]
    BY RestTyped DEF Typed, RunTyped, Runs
<1>2. \A i \in Items : Times(run.got, i) \in Nat /\ Times(Rest, i) \in Nat
    BY <1>1, TimesNone
<1>3. \A i \in Items : Times(run.got, i) =
                           Cardinality(Spots(run.got, i, BatchLen)) + Times(Rest, i)
    BY <1>1, TimesSplit DEF Rest
<1>4. BatchLen \in Nat
    BY <1>1
<1>5. \A i \in Items : Cardinality(Spots(run.got, i, BatchLen)) \in Nat
    BY <1>4, SpotsFinite
<1>6. QED
    BY <1>1, <1>2, <1>3, <1>5 DEF Excused, Ahead

LEMMA GotTimesNext ==
    ASSUME Typed', NEW i \in Items
    PROVE  /\ Excused' \in Nat /\ paid'[i] \in Nat /\ Ahead(i)' \in {0, 1}
           /\ Times(run'.got, i) \in Nat
<1>1. run'.got \in Seq(Items) /\ faults' \in Nat /\ shifts' \in Nat /\ paid'[i] \in Nat
    BY DEF Typed, RunTyped, Runs
<1>2. Times(run'.got, i) \in Nat
    BY <1>1, TimesNone
<1>3. Excused' \in Nat
  <2>1. Excused' = faults' + shifts'
      BY DEF Excused
  <2>2. \A x, y \in Nat : x + y \in Nat
      OBVIOUS
  <2>3. faults' + shifts' \in Nat
      BY <1>1, <2>2
  <2>4. QED
      BY <2>1, <2>3
<1>4. Ahead(i)' \in {0, 1}
    BY DEF Ahead
<1>5. QED
    BY <1>1, <1>2, <1>3, <1>4

\* A run that begins, goes on with the next source or is over.
LEMMA FreshPaid ==
    ASSUME Typed', NEW i \in Items, run'.pc \in {"idle", "end", "list"}, run'.got = <<>>,
           paid'[i] <= 1 + Excused', index'[i] = None => paid'[i] <= Excused'
    PROVE  PaidFor(i)'
<1>1. Excused' \in Nat /\ paid'[i] \in Nat /\ Ahead(i)' \in {0, 1}
    BY GotTimesNext
<1>2. Times(run'.got, i) = 0
    BY TimesEmpty
<1>3. run'.pc = "list" /\ index'[i] = None =>
          paid'[i] + Times(run'.got, i) + Ahead(i)' <= 1 + Excused'
    BY <1>1, <1>2
<1>4. QED
    BY <1>3 DEF PaidFor

\* On to the batches of todo.
LEMMA WorkPaid ==
    ASSUME Typed, Typed', run.src >= 1, NEW todo \in Seq(Items), NEW i \in Items,
           run'.pc = Work(todo).pc, run'.got = Work(todo).got,
           paid'[i] + Times(todo, i) <= 1 + Excused', index'[i] = None => paid'[i] <= Excused'
    PROVE  PaidFor(i)'
<1>1. Excused' \in Nat /\ paid'[i] \in Nat
    BY GotTimesNext
<1>2. Times(todo, i) \in Nat
    BY TimesNone
<1>3. paid'[i] <= 1 + Excused'
    BY <1>1, <1>2
<1>4. CASE todo = <<>>
  <2>a. RunTyped(run) /\ run \in Runs
      BY DEF Typed, RunTyped
  <2>b. Work(todo) = NextSource(run)
      BY <1>4 DEF Work
  <2>c. NextSource(run).pc \in {"end", "list"} /\ NextSource(run).got = <<>>
      BY <2>a, NextSourceTyped
  <2>1. run'.pc \in {"end", "list"} /\ run'.got = <<>>
      BY <2>b, <2>c
  <2>2. QED
      BY <1>3, <2>1, FreshPaid
<1>5. CASE todo # <<>>
  <2>1. run'.pc = "detail" /\ run'.got = todo
      BY <1>5, WorkTyped DEF Typed
  <2>2. QED
      BY <1>3, <2>1 DEF PaidFor
<1>6. QED
    BY <1>4, <1>5

\* What a page shows was ahead, once, and is behind then.
LEMMA PagePaid ==
    ASSUME WholePages, Typed, Typed', PageInv, ListPage, NEW i \in Items
    PROVE  /\ Times(run'.got, i) = Times(run.got, i) + Times(Page, i)
           /\ Times(Page, i) \in Nat
           /\ Times(Page, i) + Ahead(i)' <= Ahead(i)
<1> DEFINE L == listing[Source]
           o == Len(run.got)
<1>1. /\ run.pc = "list" /\ run'.got = run.got \o Page /\ run'.src = run.src
      /\ UNCHANGED listing
    BY ListPageIs
<1>2. run.got \in Seq(Items) /\ o \in Nat /\ L \in Seq(Items) /\ Len(L) \in Nat /\ Source \in ToSet(Sources)
    BY <1>1, PageIs, LenProperties DEF Typed, RunTyped, Runs
<1>3. /\ Page \in Seq(Items) /\ Len(Page) \in Nat
      /\ \A n \in 1..Len(Page) : Page[n] = L[o + n]
      /\ Len(Page) # 0 => o + Len(Page) <= Len(L)
  <2>1. /\ Page \in Seq(Items) /\ \A n \in 1..Len(Page) : Page[n] = L[o + n]
        /\ Len(Page) = IF o >= Len(L) THEN 0 ELSE IF o + Asked <= Len(L) THEN Asked ELSE Len(L) - o
        /\ Asked \in Nat
      BY <1>1, PageIs, PageFollows
  <2>2. Len(Page) \in Nat
      BY <2>1, LenProperties
  <2> HIDE DEF L, o
  <2>3. Len(Page) # 0 => o + Len(Page) <= Len(L)
      BY <1>2, <2>1, <2>2
  <2>4. QED
      BY <2>1, <2>2, <2>3
<1>4. Len(run'.got) = o + Len(Page)
    BY <1>1, <1>2, <1>3, ConcatProperties
<1>5. \A m, n \in 1..Len(L) : L[m] = L[n] => m = n
    BY <1>2 DEF PageInv
<1>6. Times(run'.got, i) = Times(run.got, i) + Times(Page, i) /\ Times(Page, i) \in Nat
    BY <1>1, <1>2, <1>3, TimesJoin, TimesNone
<1>7. Ahead(i)' = IF \E n \in 1..Len(L) : n > o + Len(Page) /\ L[n] = i THEN 1 ELSE 0
    BY <1>1, <1>4 DEF Ahead, Source
<1>8. Ahead(i) = IF \E n \in 1..Len(L) : n > o /\ L[n] = i THEN 1 ELSE 0
    BY DEF Ahead
<1> HIDE DEF L, o
<1>9. CASE Times(Page, i) = 0
  <2>1. Ahead(i)' <= Ahead(i) /\ Ahead(i)' \in {0, 1}
      BY <1>2, <1>3, <1>7, <1>8
  <2>2. QED
      BY <1>6, <1>9, <2>1
<1>10. CASE Times(Page, i) # 0
  <2>1. PICK p \in 1..Len(Page) : Page[p] = i
      BY <1>3, <1>10, SpotsFinite DEF Times
  <2>2. o + p \in 1..Len(L) /\ L[o + p] = i /\ o + p > o /\ o + p <= o + Len(Page)
      BY <1>2, <1>3, <2>1
  <2>3. \A n \in 1..Len(L) : L[n] = i => n = o + p
      BY <1>5, <2>2
  <2>4. \A n \in 1..Len(Page) : Page[n] = i => n = p
    <3> SUFFICES ASSUME NEW n \in 1..Len(Page), Page[n] = i PROVE n = p
        OBVIOUS
    <3>1. o + n \in 1..Len(L) /\ L[o + n] = i
        BY <1>2, <1>3
    <3>2. o + n = o + p
        BY <2>3, <3>1
    <3>3. QED
        BY <1>2, <3>2
  <2>5. Times(Page, i) <= 1
      BY <1>3, <2>1, <2>4, TimesOnce DEF Times
  <2>6. Ahead(i) = 1 /\ Ahead(i)' = 0
      BY <1>2, <1>3, <1>7, <1>8, <2>2, <2>3
  <2>7. QED
      BY <1>6, <2>5, <2>6
<1>11. QED
    BY <1>6, <1>9, <1>10

LEMMA InitPaid == Init => PaidInv
<1> SUFFICES ASSUME Init, NEW i \in Items PROVE PaidFor(i)
    BY DEF PaidInv
<1>1. run.pc = "idle" /\ Excused = 0 /\ paid[i] = 0
    BY DEF Init, NoRun, Excused
<1>2. QED
    BY <1>1 DEF PaidFor

LEMMA NextPaid ==
    ASSUME WholePages, Typed, Typed', PageInv, PaidInv, [Next]_vars, NEW i \in Items
    PROVE  PaidFor(i)'
<1>a. /\ Excused \in Nat /\ Excused' \in Nat
      /\ paid[i] \in Nat /\ paid'[i] \in Nat
      /\ Times(run.got, i) \in Nat /\ Times(run'.got, i) \in Nat
      /\ Times(Rest, i) \in Nat /\ Cardinality(Spots(run.got, i, BatchLen)) \in Nat
      /\ Times(run.got, i) = Cardinality(Spots(run.got, i, BatchLen)) + Times(Rest, i)
      /\ Ahead(i) \in {0, 1} /\ Ahead(i)' \in {0, 1}
    BY GotTimes, GotTimesNext
<1>b. PaidFor(i) /\ run.pc \in Pcs /\ run \in Runs
    BY DEF PaidInv, Typed, RunTyped, Runs
<1>c. paid[i] <= 1 + Excused /\ (index[i] = None /\ i \notin InHand => paid[i] <= Excused)
    BY <1>b DEF PaidFor
<1>1. CASE Begin
  <2>1. /\ run.pc = "idle" /\ UNCHANGED <<index, paid, faults, shifts>>
        /\ run'.pc \in {"list", "end"} /\ run'.got = <<>>
      BY <1>1, NoRunTyped, NextSourceTyped DEF Begin, RunTyped
  <2>2. Excused' = Excused /\ i \notin InHand
      BY <2>1 DEF Excused, InHand
  <2>3. QED
      BY <1>c, <2>1, <2>2, FreshPaid
<1>2. CASE ListPage
  <2>1. /\ run.pc = "list" /\ UNCHANGED <<index, paid, faults, shifts>>
        /\ run'.pc \in {"list", "skip"}
      BY <1>2, ListPageIs
  <2>2. Excused' = Excused /\ i \notin InHand /\ InHand' = {}
      BY <2>1 DEF Excused, InHand
  <2>3. index[i] = None => paid[i] + Times(run.got, i) + Ahead(i) <= 1 + Excused
      BY <1>b, <2>1 DEF PaidFor
  <2>4. /\ Times(run'.got, i) = Times(run.got, i) + Times(Page, i)
        /\ Times(Page, i) \in Nat
        /\ Times(Page, i) + Ahead(i)' <= Ahead(i)
      BY <1>2, PagePaid
  <2>5. index[i] = None => /\ paid[i] + Times(run'.got, i) + Ahead(i)' <= 1 + Excused
                           /\ paid[i] + Times(run'.got, i) <= 1 + Excused
      BY <1>a, <2>3, <2>4
  <2>6. QED
      BY <1>c, <2>1, <2>2, <2>5 DEF PaidFor
<1>3. CASE ListRefused
  <2>1. /\ run.pc = "list" /\ UNCHANGED <<index, paid, shifts>> /\ faults' = faults + 1
        /\ run'.pc = "skip" /\ run'.got = run.got
      BY <1>3, RefusedIs
  <2>2. Excused' = Excused + 1 /\ i \notin InHand
      BY <2>1 DEF Excused, InHand, Typed
  <2>3. index[i] = None => paid[i] + Times(run.got, i) + Ahead(i) <= 1 + Excused
      BY <1>b, <2>1 DEF PaidFor
  <2>4. /\ index[i] = None => paid[i] + Times(run.got, i) <= 1 + Excused'
        /\ paid[i] <= 1 + Excused'
        /\ index[i] = None => paid[i] <= Excused'
      BY <1>a, <1>c, <2>2, <2>3
  <2>5. QED
      BY <2>1, <2>4 DEF PaidFor
<1>4. CASE Skip
  <2>1. /\ run.pc = "skip" /\ run.src >= 1 /\ UNCHANGED <<index, paid, faults, shifts>>
        /\ run' = Work(NewItems(run.got)) /\ NewItems(run.got) \in Seq(Items)
      BY <1>4, SkipIs
  <2>2. Excused' = Excused /\ i \notin InHand
      BY <2>1 DEF Excused, InHand
  <2>3. Times(NewItems(run.got), i) = IF index[i] = None THEN Times(run.got, i) ELSE 0
      BY <1>b, NewItemsAre DEF Runs
  <2>4. index[i] = None => paid[i] + Times(run.got, i) <= 1 + Excused
      BY <1>b, <2>1 DEF PaidFor
  <2>5. paid[i] + Times(NewItems(run.got), i) <= 1 + Excused
      BY <1>a, <1>c, <2>3, <2>4
  <2>6. QED
      BY <1>c, <2>1, <2>2, <2>5, WorkPaid
<1>5. CASE Detail
  <2>1. /\ run.pc = "detail" /\ run'.pc = "index" /\ run'.got = run.got
        /\ UNCHANGED <<index, shifts>> /\ faults' \in Nat /\ faults' >= faults
        /\ paid'[i] = paid[i] + Cardinality(Spots(run.got, i, BatchLen))
      BY <1>5, DetailIs
  <2>2. Excused' >= Excused /\ i \notin InHand
    <3>1. faults \in Nat /\ shifts \in Nat
        BY DEF Typed
    <3>2. shifts' >= shifts /\ shifts' \in Nat
        BY <2>1, <3>1
    <3>3. i \notin InHand
        BY <2>1 DEF InHand
    <3>4. QED
        BY <2>1, <3>1, <3>2, <3>3, ExcusedGrows
  <2>3. paid[i] + Times(run.got, i) <= 1 + Excused
      BY <1>b, <2>1 DEF PaidFor
  <2>4. Rest' = Rest /\ InHand' = {run.got[n] : n \in 1..BatchLen}
      BY <2>1 DEF Rest, BatchLen, InHand
  <2>5. paid'[i] + Times(Rest', i) <= 1 + Excused' /\ paid'[i] <= 1 + Excused'
      BY <1>a, <2>1, <2>2, <2>3, <2>4
  <2>6. ASSUME index'[i] = None, i \notin InHand' PROVE paid'[i] <= Excused'
    <3>1. Cardinality(Spots(run.got, i, BatchLen)) = 0
        BY <2>4, <2>6, RestTyped, SpotsFinite
    <3>2. QED
        BY <1>a, <1>c, <2>1, <2>2, <2>6, <3>1
  <2>7. QED
      BY <2>1, <2>5, <2>6 DEF PaidFor
<1>6. CASE Index
  <2>1. PICK rejected \in SUBSET (1..BatchLen), c \in BOOLEAN :
          /\ Meet(rejected)
          /\ run' = [Work(Rest) EXCEPT !.calm = c]
          /\ IF \E n \in (1..BatchLen) \ rejected : run.got[n] = i
             THEN index'[i] # None
             ELSE index'[i] = index[i]
      BY <1>6, IndexIs
  <2>2. run.pc = "index" /\ run.src >= 1 /\ UNCHANGED <<listing, paid, shifts>>
      BY <1>6, IndexIs
  <2>3. faults' \in Nat /\ faults' >= faults /\ (rejected # {} => faults' = faults + 1)
      BY <2>1, MeetFaults DEF Typed
  <2>4. Excused' >= Excused /\ (rejected # {} => Excused' = Excused + 1)
    <3>1. faults \in Nat /\ shifts \in Nat /\ shifts' = shifts
        BY <2>2 DEF Typed
    <3>2. shifts' >= shifts /\ shifts' \in Nat
        BY <3>1
    <3>3. QED
        BY <2>3, <3>1, <3>2, ExcusedGrows
  <2>5. InHand = {run.got[n] : n \in 1..BatchLen}
      BY <2>2 DEF InHand
  <2>6. paid[i] + Times(Rest, i) <= 1 + Excused
      BY <1>b, <2>2 DEF PaidFor
  <2>7. ASSUME index'[i] = None PROVE paid[i] <= Excused'
    <3>1. index[i] = None
        BY <2>1, <2>7
    <3>2. CASE i \notin InHand
        BY <1>a, <1>c, <2>4, <3>1, <3>2
    <3>3. CASE i \in InHand
      <4>1. rejected # {}
          BY <2>1, <2>5, <2>7, <3>3
      <4>2. QED
          BY <1>a, <1>c, <2>4, <4>1
    <3>4. QED
        BY <3>2, <3>3
  <2>8. Rest \in Seq(Items) /\ RunTyped(Work(Rest))
      BY <2>2, RestTyped, WorkTyped DEF Typed
  <2>9. run'.pc = Work(Rest).pc /\ run'.got = Work(Rest).got
      BY <2>1, <2>8 DEF RunTyped, Runs
  <2>10. paid'[i] + Times(Rest, i) <= 1 + Excused' /\ paid' = paid
      BY <1>a, <2>2, <2>4, <2>6
  <2>11. QED
      BY <2>2, <2>7, <2>8, <2>9, <2>10, WorkPaid
<1>7. CASE End
  <2>1. /\ run.pc = "end" /\ UNCHANGED <<index, paid, faults, shifts>>
        /\ run'.pc = "idle" /\ run'.got = <<>>
      BY <1>7 DEF End, NoRun
  <2>2. Excused' = Excused /\ i \notin InHand
      BY <2>1 DEF Excused, InHand
  <2>3. QED
      BY <1>c, <2>1, <2>2, FreshPaid
<1>8. CASE Crash
  <2>1. /\ UNCHANGED <<index, paid, shifts>> /\ faults' = faults + 1
        /\ run'.pc = "idle" /\ run'.got = <<>>
      BY <1>8 DEF Crash, Fault, NoRun
  <2>2. Excused' = Excused + 1
      BY <2>1 DEF Excused, Typed
  <2>3. paid'[i] <= Excused' /\ paid'[i] <= 1 + Excused'
      BY <1>a, <1>c, <2>1, <2>2
  <2>4. QED
      BY <2>1, <2>3, FreshPaid
<1>9. ASSUME NEW j \in Items, Register(j) PROVE PaidFor(i)'
  <2>1. /\ UNCHANGED <<index, paid, faults>> /\ shifts' \in Nat /\ shifts' >= shifts
        /\ run.pc = "list" /\ run.got # <<>> => shifts' = shifts + 1
        /\ run' = [run EXCEPT !.calm = run.pc = "idle"]
      BY <1>9, RegisterIs
  <2>2. run'.pc = run.pc /\ run'.got = run.got
      BY <1>b, <2>1 DEF Runs
  <2>3. /\ Excused' >= Excused
        /\ run.pc = "list" /\ run.got # <<>> => Excused' = Excused + 1
      BY <2>1 DEF Excused, Typed
  <2>4. InHand' = InHand /\ Rest' = Rest
      BY <2>2 DEF InHand, Rest, BatchLen
  <2>5. ASSUME run.pc = "list", index[i] = None
        PROVE  paid[i] + Times(run.got, i) + Ahead(i)' <= 1 + Excused'
    <3>1. paid[i] + Times(run.got, i) + Ahead(i) <= 1 + Excused /\ i \notin InHand
        BY <1>b, <2>5 DEF PaidFor, InHand
    <3>2. CASE run.got = <<>>
        BY <1>a, <1>c, <2>3, <2>5, <3>1, <3>2, TimesEmpty
    <3>3. CASE run.got # <<>>
        BY <1>a, <2>3, <2>5, <3>1, <3>3
    <3>4. QED
        BY <3>2, <3>3
  <2>6. /\ run.pc = "skip" /\ index[i] = None => paid[i] + Times(run.got, i) <= 1 + Excused'
        /\ run.pc = "detail" => paid[i] + Times(run.got, i) <= 1 + Excused'
        /\ run.pc = "index" => paid[i] + Times(Rest, i) <= 1 + Excused'
      BY <1>a, <1>b, <2>3 DEF PaidFor
  <2>7. paid[i] <= 1 + Excused' /\ (index[i] = None /\ i \notin InHand => paid[i] <= Excused')
      BY <1>a, <1>c, <2>3
  <2>8. QED
      BY <2>1, <2>2, <2>4, <2>5, <2>6, <2>7 DEF PaidFor
<1>10. CASE UNCHANGED vars
    BY <1>b, <1>10 DEF vars, PaidFor, Excused, InHand, Rest, BatchLen, Ahead, Source
<1>11. QED
    BY <1>1, <1>2, <1>3, <1>4, <1>5, <1>6, <1>7, <1>8, <1>9, <1>10 DEF Next, RunStep

\* Details and embeddings are spent on an item once, whatever the runs find when they begin:
\* again only after a fault, or because the listing has shifted under the pages.
THEOREM ItemsArePaidOnce ==
    ASSUME WholePages
    PROVE  Spec => []PaidOnce
<1>1. Init => PageInv /\ PaidInv
    BY InitPage, InitPaid
<1>2. Typed /\ Typed' /\ PageInv /\ PaidInv /\ [Next]_vars => (PageInv /\ PaidInv)'
  <2> SUFFICES ASSUME Typed, Typed', PageInv, PaidInv, [Next]_vars PROVE (PageInv /\ PaidInv)'
      OBVIOUS
  <2>1. \A i \in Items : PaidFor(i)'
      BY NextPaid
  <2>2. QED
      BY <2>1, NextPage DEF PaidInv
<1>3. Typed /\ PaidInv => PaidOnce
  <2> SUFFICES ASSUME Typed, PaidInv, NEW i \in Items PROVE paid[i] <= 1 + faults + shifts
      BY DEF PaidOnce
  <2>1. paid[i] <= 1 + Excused /\ faults \in Nat /\ shifts \in Nat /\ paid[i] \in Nat
      BY DEF PaidInv, PaidFor, Typed
  <2>2. QED
      BY <2>1 DEF Excused
<1>4. QED
    BY <1>1, <1>2, <1>3, CollectorTyped, PTL DEF Spec

(***************************************************************************)
(* A calm run leaves nothing out.                                          *)
(***************************************************************************)
\* What --max lets the collector see of a source is indexed.
Covered(s) == \A n \in 1..Len(listing[s]) : n <= MaxItems => index[listing[s][n]] # None

\* What it sees of the source is indexed, or among the items of q.
CoveredBut(q) ==
    \A n \in 1..Len(listing[Source]) : n <= MaxItems =>
        index[listing[Source][n]] # None \/ Times(q, listing[Source][n]) # 0

\* The sources before this one are covered; of this one, what has been read is the beginning
\* of the listing, and what is still to do makes up for what is not indexed.
CalmInv == run.calm =>
    /\ run.pc \in {"list", "skip", "detail", "index"} =>
           \A k \in 1..Len(Sources) : k < run.src => Covered(Sources[k])
    /\ run.pc = "end" => \A k \in 1..Len(Sources) : Covered(Sources[k])
    /\ run.pc = "list" => \A n \in 1..Len(run.got) : /\ n <= Len(listing[Source])
                                                     /\ run.got[n] = listing[Source][n]
    /\ run.pc \in {"skip", "detail", "index"} => CoveredBut(run.got)

\* From one source to the next.
LEMMA NextSourceCalm ==
    ASSUME NEW rn \in Runs, UNCHANGED listing,
           run'.pc = NextSource(rn).pc, run'.got = NextSource(rn).got, run'.src = NextSource(rn).src,
           \A k \in 1..Len(Sources) : k <= rn.src => Covered(Sources[k])'
    PROVE  CalmInv'
<1>1. rn.src \in 0..Len(Sources) /\ Len(Sources) \in Nat /\ Len(<<>>) = 0
    BY Numbers, EmptySeq DEF Runs
<1>2. CASE rn.src = Len(Sources)
  <2>1. run'.pc = "end"
      BY <1>2, NextSourceTyped
  <2>2. \A k \in 1..Len(Sources) : Covered(Sources[k])'
      BY <1>1, <1>2
  <2>3. QED
      BY <2>1, <2>2 DEF CalmInv
<1>3. CASE rn.src # Len(Sources)
  <2>1. run'.pc = "list" /\ run'.got = <<>> /\ run'.src = rn.src + 1
      BY <1>3, NextSourceTyped
  <2>2. \A k \in 1..Len(Sources) : k < run'.src => Covered(Sources[k])'
      BY <1>1, <2>1
  <2>3. 1..Len(run'.got) = {}
      BY <1>1, <2>1
  <2>4. QED
      BY <2>1, <2>2, <2>3 DEF CalmInv
<1>4. QED
    BY <1>2, <1>3

\* On to the batches of todo.
LEMMA WorkCalm ==
    ASSUME Typed, run.src >= 1, NEW todo \in Seq(Items), UNCHANGED listing,
           run'.pc = Work(todo).pc, run'.got = Work(todo).got, run'.src = Work(todo).src,
           \A k \in 1..Len(Sources) : k < run.src => Covered(Sources[k])',
           \A n \in 1..Len(listing[Source]) : n <= MaxItems =>
               index'[listing[Source][n]] # None \/ Times(todo, listing[Source][n]) # 0
    PROVE  CalmInv'
<1>1. run \in Runs /\ run.src \in 1..Len(Sources)
    BY Numbers DEF Typed, RunTyped, Runs
<1>2. CASE todo = <<>>
  <2>1. Work(todo) = NextSource(run)
      BY <1>2, WorkTyped DEF Typed
  <2>2. ASSUME NEW k \in 1..Len(Sources), k = run.src PROVE Covered(Sources[k])'
    <3>1. \A n \in 1..Len(listing[Sources[k]]) : n <= MaxItems =>
              index'[listing[Sources[k]][n]] # None
        BY <1>2, <2>2, TimesEmpty DEF Source
    <3>2. QED
        BY <3>1 DEF Covered
  <2>3. \A k \in 1..Len(Sources) : k <= run.src => Covered(Sources[k])'
    <3> SUFFICES ASSUME NEW k \in 1..Len(Sources), k <= run.src PROVE Covered(Sources[k])'
        OBVIOUS
    <3>1. k < run.src \/ k = run.src
        BY <1>1
    <3>2. QED
        BY <2>2, <3>1
  <2>4. QED
      BY <1>1, <2>1, <2>3, NextSourceCalm
<1>3. CASE todo # <<>>
  <2>1. run'.pc = "detail" /\ run'.got = todo /\ run'.src = run.src
      BY <1>3, WorkTyped DEF Typed
  <2>2. CoveredBut(todo)'
      BY <2>1 DEF CoveredBut, Source
  <2>3. CoveredBut(run.got)'
      BY <2>1, <2>2 DEF CoveredBut
  <2>4. QED
      BY <2>1, <2>3 DEF CalmInv
<1>4. QED
    BY <1>2, <1>3

\* When the pages are through, all that --max lets the collector see has been read.
LEMMA PagesCover ==
    ASSUME WholePages, Typed, PageInv, ListPage,
           \A n \in 1..Len(run.got) : n <= Len(listing[Source]) /\ run.got[n] = listing[Source][n]
    PROVE  /\ \A n \in 1..Len(run'.got) : /\ n <= Len(listing[Source])
                                          /\ run'.got[n] = listing[Source][n]
           /\ run'.pc = "skip" => \A n \in 1..Len(listing[Source]) : n <= MaxItems =>
                                      Times(run'.got, listing[Source][n]) # 0
<1> DEFINE L == listing[Source]
           o == Len(run.got)
           got == run.got \o Page
<1>1. run.pc = "list" /\ run'.got = got
    BY ListPageIs
<1>2. run.got \in Seq(Items) /\ o \in Nat /\ o < MaxItems /\ L \in Seq(Items) /\ Len(L) \in Nat
    BY <1>1, PageIs, LenProperties DEF Typed, RunTyped, Runs
<1>3. /\ Page \in Seq(Items) /\ \A n \in 1..Len(Page) : Page[n] = L[o + n]
      /\ Len(Page) = IF o >= Len(L) THEN 0 ELSE IF o + Asked <= Len(L) THEN Asked ELSE Len(L) - o
      /\ Asked \in Nat /\ Asked >= 1
    BY <1>1, PageIs, PageFollows
<1>4. Len(Page) \in Nat
    BY <1>3, LenProperties
<1>5. /\ got \in Seq(Items) /\ Len(got) = o + Len(Page)
      /\ \A n \in 1..(o + Len(Page)) : got[n] = IF n <= o THEN run.got[n] ELSE Page[n - o]
  <2>1. PICK p \in Seq(Items), q \in Seq(Items) : p = run.got /\ q = Page
      BY <1>2, <1>3
  <2>2. /\ p \o q \in Seq(Items) /\ Len(p \o q) = Len(p) + Len(q)
        /\ \A n \in 1..(Len(p) + Len(q)) :
               (p \o q)[n] = IF n <= Len(p) THEN p[n] ELSE q[n - Len(p)]
      BY ConcatProperties
  <2>3. QED
      BY <2>1, <2>2
<1>6. run'.pc = "skip" => Page = <<>> \/ Len(got) >= Len(L) \/ Len(got) >= MaxItems
    BY <1>1, ListPageIs DEF Enough
<1>7. \A n \in 1..o : n <= Len(L) /\ run.got[n] = L[n]
    OBVIOUS
<1> HIDE DEF L, o, got
<1>8. ASSUME NEW n \in 1..Len(got) PROVE n <= Len(L) /\ got[n] = L[n]
  <2>1. CASE n <= o
      BY <1>2, <1>4, <1>5, <1>7, <2>1
  <2>2. CASE n > o
    <3>1. n - o \in 1..Len(Page) /\ got[n] = Page[n - o]
        BY <1>2, <1>4, <1>5, <2>2
    <3>2. Page[n - o] = L[o + (n - o)] /\ o + (n - o) = n
        BY <1>2, <1>3, <3>1
    <3>3. n <= Len(L)
        BY <1>2, <1>3, <1>4, <3>1
    <3>4. QED
        BY <3>1, <3>2, <3>3
  <2>3. QED
      BY <1>2, <1>4, <1>5, <2>1, <2>2
<1>9. ASSUME run'.pc = "skip", NEW n \in 1..Len(L), n <= MaxItems PROVE Times(got, L[n]) # 0
  <2>1. Page = <<>> => Len(Page) = 0
      BY EmptySeq
  <2>2. Page = <<>> => Len(got) >= Len(L)
      BY <1>2, <1>3, <1>4, <1>5, <2>1
  <2>3. n \in 1..Len(got) /\ Len(got) \in Nat
      BY <1>2, <1>4, <1>5, <1>6, <1>9, <2>2, Numbers
  <2>4. got[n] = L[n]
      BY <1>8, <2>3
  <2>5. QED
      BY <2>3, <2>4, SpotsFinite DEF Times
<1>10. QED
    BY <1>1, <1>8, <1>9 DEF L

LEMMA NextCalm ==
    ASSUME WholePages, Typed, Typed', PageInv, CalmInv, [Next]_vars
    PROVE  CalmInv'
<1>a. ASSUME run'.pc = "idle" \/ ~run'.calm PROVE CalmInv'
    BY <1>a DEF CalmInv
<1>b. run.src \in 0..Len(Sources) /\ run \in Runs
    BY DEF Typed, RunTyped, Runs
<1>1. CASE Begin
  <2>1. NoRun \in Runs /\ run' = NextSource(NoRun) /\ UNCHANGED listing
      BY <1>1, NoRunTyped DEF Begin, RunTyped
  <2>2. NoRun.src = 0
      BY DEF NoRun
  <2>3. \A k \in 1..Len(Sources) : k <= NoRun.src => Covered(Sources[k])'
      BY <2>2
  <2>4. QED
      BY <2>1, <2>3, NextSourceCalm
<1>2. CASE ListPage
  <2> SUFFICES ASSUME run'.calm PROVE CalmInv'
      BY <1>a
  <2>1. /\ run.pc = "list" /\ UNCHANGED <<listing, index>> /\ run'.pc \in {"list", "skip"}
        /\ run'.src = run.src /\ run.calm
      BY <1>2, ListPageIs
  <2>2. \A n \in 1..Len(run.got) : n <= Len(listing[Source]) /\ run.got[n] = listing[Source][n]
      BY <2>1 DEF CalmInv
  <2>3. /\ \A n \in 1..Len(run'.got) : /\ n <= Len(listing[Source])
                                       /\ run'.got[n] = listing[Source][n]
        /\ run'.pc = "skip" => \A n \in 1..Len(listing[Source]) : n <= MaxItems =>
                                   Times(run'.got, listing[Source][n]) # 0
      BY <1>2, <2>2, PagesCover
  <2>4. listing' = listing /\ Source' = Source
      BY <2>1 DEF Source
  <2>5. run'.pc = "skip" => CoveredBut(run.got)'
      BY <2>3, <2>4 DEF CoveredBut
  <2>6. \A k \in 1..Len(Sources) : k < run'.src => Covered(Sources[k])'
    <3>1. \A k \in 1..Len(Sources) : k < run.src => Covered(Sources[k])
        BY <2>1 DEF CalmInv
    <3>2. \A k \in 1..Len(Sources) : Covered(Sources[k])' = Covered(Sources[k])
        BY <2>1 DEF Covered
    <3>3. QED
        BY <2>1, <3>1, <3>2
  <2>7. run'.pc = "list" => \A n \in 1..Len(run'.got) : /\ n <= Len(listing'[Source'])
                                                        /\ run'.got[n] = listing'[Source'][n]
      BY <2>3, <2>4
  <2>8. QED
      BY <2>1, <2>5, <2>6, <2>7 DEF CalmInv
<1>3. CASE ListRefused
    BY <1>3, <1>a, RefusedIs
<1>4. CASE Skip
  <2>1. /\ run.pc = "skip" /\ run.src >= 1 /\ UNCHANGED <<listing, index>>
        /\ run' = Work(NewItems(run.got)) /\ NewItems(run.got) \in Seq(Items)
      BY <1>4, SkipIs
  <2> SUFFICES ASSUME run.calm PROVE CalmInv'
    <3>1. run'.calm = run.calm
        BY <2>1, WorkTyped DEF Typed
    <3>2. run.calm \in BOOLEAN
        BY <1>b DEF Runs
    <3>3. QED
        BY <1>a, <3>1, <3>2
  <2>2. CoveredBut(run.got) /\ \A k \in 1..Len(Sources) : k < run.src => Covered(Sources[k])
      BY <2>1 DEF CalmInv
  <2>3. ASSUME NEW n \in 1..Len(listing[Source]), n <= MaxItems
        PROVE  index'[listing[Source][n]] # None \/ Times(NewItems(run.got), listing[Source][n]) # 0
    <3>1. Source \in ToSet(Sources) /\ run.got \in Seq(Items)
        BY <1>b, <2>1, Numbers DEF Source, Runs
    <3>2. listing[Source] \in Seq(Items)
        BY <3>1 DEF Typed
    <3>3. listing[Source][n] \in Items
        BY <3>2, ElementOfSeq
    <3>4. index[listing[Source][n]] # None \/ Times(run.got, listing[Source][n]) # 0
        BY <2>2, <2>3 DEF CoveredBut
    <3>5. Times(NewItems(run.got), listing[Source][n]) =
              IF index[listing[Source][n]] = None THEN Times(run.got, listing[Source][n]) ELSE 0
        BY <3>1, <3>3, NewItemsAre
    <3>6. QED
        BY <2>1, <3>4, <3>5
  <2>4. \A k \in 1..Len(Sources) : k < run.src => Covered(Sources[k])'
      BY <2>1, <2>2 DEF Covered
  <2>5. QED
      BY <2>1, <2>3, <2>4, WorkCalm
<1>5. CASE Detail
  <2> SUFFICES ASSUME run'.calm PROVE CalmInv'
      BY <1>a
  <2>1. /\ run.pc = "detail" /\ run'.pc = "index" /\ run'.got = run.got /\ run'.src = run.src
        /\ UNCHANGED <<listing, index>> /\ run.calm
      BY <1>5, DetailIs
  <2>2. CoveredBut(run.got) /\ \A k \in 1..Len(Sources) : k < run.src => Covered(Sources[k])
      BY <2>1 DEF CalmInv
  <2>3. CoveredBut(run.got)'
      BY <2>1, <2>2 DEF CoveredBut, Source
  <2>4. \A k \in 1..Len(Sources) : k < run'.src => Covered(Sources[k])'
      BY <2>1, <2>2 DEF Covered
  <2>5. QED
      BY <2>1, <2>3, <2>4 DEF CalmInv
<1>6. CASE Index
  <2>1. /\ run.pc = "index" /\ run.src >= 1 /\ UNCHANGED listing
        /\ index' \in [Items -> {None} \cup Details]
      BY <1>6, IndexIs
  <2>2. PICK rejected \in SUBSET (1..BatchLen), c \in BOOLEAN :
          /\ c => run.calm /\ rejected = {}
          /\ run' = [Work(Rest) EXCEPT !.calm = c]
          /\ \A i \in Items : IF \E n \in (1..BatchLen) \ rejected : run.got[n] = i
                              THEN index'[i] # None
                              ELSE index'[i] = index[i]
      BY <1>6, IndexIs
  <2>3. Rest \in Seq(Items) /\ RunTyped(Work(Rest))
      BY <2>1, RestTyped, WorkTyped DEF Typed
  <2>4. /\ run'.pc = Work(Rest).pc /\ run'.got = Work(Rest).got /\ run'.src = Work(Rest).src
        /\ run'.calm = c
      BY <2>2, <2>3 DEF RunTyped, Runs
  <2> SUFFICES ASSUME c PROVE CalmInv'
      BY <1>a, <2>4
  <2>5. run.calm /\ rejected = {}
      BY <2>2
  <2>6. CoveredBut(run.got) /\ \A k \in 1..Len(Sources) : k < run.src => Covered(Sources[k])
      BY <2>1, <2>5 DEF CalmInv
  <2>7. ASSUME NEW i \in Items, index[i] # None PROVE index'[i] # None
      BY <2>2, <2>7
  <2>8. ASSUME NEW s \in ToSet(Sources), NEW n \in 1..Len(listing[s]) PROVE listing[s][n] \in Items
    <3>1. listing[s] \in Seq(Items)
        BY DEF Typed
    <3>2. QED
        BY <3>1, ElementOfSeq
  <2>9. \A k \in 1..Len(Sources) : k < run.src => Covered(Sources[k])'
      BY <2>1, <2>6, <2>7, <2>8, Numbers DEF Covered
  <2>10. ASSUME NEW n \in 1..Len(listing[Source]), n <= MaxItems
         PROVE  index'[listing[Source][n]] # None \/ Times(Rest, listing[Source][n]) # 0
    <3> DEFINE i == listing[Source][n]
    <3>1. Source \in ToSet(Sources)
        BY <1>b, <2>1, Numbers DEF Source
    <3>2. i \in Items
        BY <2>8, <3>1
    <3>3. index[i] # None \/ Times(run.got, i) # 0
        BY <2>6, <2>10 DEF CoveredBut
    <3> HIDE DEF i
    <3>4. CASE index[i] # None
        BY <2>7, <3>2, <3>4 DEF i
    <3>5. CASE Times(run.got, i) # 0 /\ Times(Rest, i) = 0
      <4>1. Cardinality(Spots(run.got, i, BatchLen)) # 0
          BY <3>2, <3>5, GotTimes
      <4>2. BatchLen \in Nat
          BY RestTyped
      <4>3. \E m \in 1..BatchLen : run.got[m] = i
          BY <4>1, <4>2, SpotsFinite
      <4>4. index'[i] # None
          BY <2>2, <2>5, <3>2, <4>3
      <4>5. QED
          BY <4>4 DEF i
    <3>6. QED
        BY <3>3, <3>4, <3>5 DEF i
  <2>11. QED
      BY <2>1, <2>3, <2>4, <2>9, <2>10, WorkCalm
<1>7. CASE End \/ Crash
    BY <1>7, <1>a DEF End, Crash, NoRun
<1>8. ASSUME NEW i \in Items, Register(i) PROVE CalmInv'
  <2>1. run'.pc = run.pc /\ run'.calm = (run.pc = "idle")
      BY <1>b, <1>8, RegisterIs DEF Runs
  <2>2. QED
      BY <1>a, <2>1
<1>9. CASE UNCHANGED vars
    BY <1>9 DEF vars, CalmInv, Covered, CoveredBut, Source
<1>10. QED
    BY <1>1, <1>2, <1>3, <1>4, <1>5, <1>6, <1>7, <1>8, <1>9 DEF Next, RunStep

\* A run in which nothing fails and nothing is registered indexes all that --max lets it see,
\* whatever earlier runs have left behind.
THEOREM CalmRunsIndexAll ==
    ASSUME WholePages
    PROVE  Spec => []CalmRunIndexesAll
<1>1. Init => PageInv /\ CalmInv
  <2>1. Init => CalmInv
      BY DEF Init, NoRun, CalmInv
  <2>2. QED
      BY <2>1, InitPage
<1>2. Typed /\ Typed' /\ PageInv /\ CalmInv /\ [Next]_vars => (PageInv /\ CalmInv)'
    BY NextPage, NextCalm
<1>3. Typed /\ CalmInv => CalmRunIndexesAll
  <2> SUFFICES ASSUME Typed, CalmInv, run.pc = "end", run.calm, NEW i \in InReach
               PROVE  index[i] # None
      BY DEF CalmRunIndexesAll
  <2>1. PICK s \in ToSet(Sources) : i \in ToSet(Part(listing[s], 1, MaxItems))
      BY DEF InReach
  <2>2. listing[s] \in Seq(Items) /\ Len(listing[s]) \in Nat
      BY LenProperties DEF Typed
  <2> DEFINE to == Least(MaxItems, Len(listing[s]))
  <2>3. to \in Nat /\ to <= MaxItems /\ to <= Len(listing[s])
      BY <2>2, LeastType, Numbers
  <2>4. Part(listing[s], 1, MaxItems) = SubSeq(listing[s], 1, to)
      BY DEF Part
  <2> HIDE DEF to
  <2>5. \A n \in 1..to : listing[s][n] \in Items
      BY <2>2, <2>3, ElementOfSeq
  <2>6. /\ SubSeq(listing[s], 1, to) \in Seq(Items)
        /\ Len(SubSeq(listing[s], 1, to)) = IF 1 <= to THEN to - 1 + 1 ELSE 0
        /\ \A n \in 1..(to - 1 + 1) : SubSeq(listing[s], 1, to)[n] = listing[s][1 + n - 1]
      BY <2>3, <2>5, SubSeqProperties
  <2>7. DOMAIN SubSeq(listing[s], 1, to) = 1..to
      BY <2>3, <2>6, LenProperties
  <2>8. PICK n \in 1..to : i = listing[s][n]
      BY <2>1, <2>3, <2>4, <2>6, <2>7 DEF ToSet
  <2>9. Covered(s)
      BY DEF CalmInv, ToSet, CollectorAssumption
  <2>10. n \in 1..Len(listing[s]) /\ n <= MaxItems
      BY <2>2, <2>3, <2>8, Numbers
  <2>11. index[listing[s][n]] # None
      BY <2>9, <2>10 DEF Covered
  <2>12. QED
      BY <2>8, <2>11
<1>4. QED
    BY <1>1, <1>2, <1>3, CollectorTyped, PTL DEF Spec
===============================================================================
