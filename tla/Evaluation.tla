------------------------------ MODULE Evaluation ------------------------------
(***************************************************************************)
(* The experiments under eval/: three scripts that share files and no      *)
(* lock.  run_embed.py has items and queries embedded, run_boost.py the    *)
(* hard queries, and both keep the vectors in emb_cache.json, which each   *)
(* reads when it starts and writes as a whole after every answer.          *)
(* run_grade.py has the LLM judge the first items of each query, keeps the *)
(* verdicts in grade_cache.json by their position in the list, and reports *)
(* the rank of the expected item before and after.                         *)
(***************************************************************************)
EXTENDS Lists, SequencesExt

CONSTANTS
    Corpus,        \* corpus.json: a sequence of items
    KeyOf,         \* KeyOf[i]: atcId of item i; the parts of one find share it
    Golden,        \* golden.json: a sequence of queries
    Expected,      \* Expected[q]: atcId that query q is to find
    Hard,          \* golden_hard.json: the texts of its cases, in order
    Order,         \* Order[q]: the items by their likeness to q
    Chunk,         \* items or queries of one embedding request
    Ks,            \* --k
    Scores,        \* scores of a verdict
    MaxRuns,       \* bound: starts of a script
    MaxFaults,     \* bound: failed requests
    None,          \* not there
    Bad            \* verdicts that cannot be read

ASSUME EvaluationAssumption ==
    /\ Corpus \in Seq(DOMAIN KeyOf)
    /\ Expected \in [ToSet(Golden) -> {KeyOf[i] : i \in DOMAIN KeyOf}]
    /\ Golden \in Seq(ToSet(Golden)) /\ Hard \in Seq(ToSet(Hard))
    /\ \A q \in ToSet(Golden) : Order[q] \in Seq(ToSet(Corpus)) /\ ToSet(Order[q]) = ToSet(Corpus)
    /\ Chunk \in Nat \ {0} /\ Ks \subseteq Nat \ {0} /\ Scores \subseteq Nat
    /\ {MaxRuns, MaxFaults} \subseteq Nat

VARIABLES
    saved,         \* emb_cache.json: the keys that have a vector
    grades,        \* grade_cache.json: per query None, the verdicts by position, or Bad
    embed,         \* a run of run_embed: its cache, its phase and what is left of it
    boost,         \* a run of run_boost: its cache and the texts left
    grade,         \* a run of run_grade: its cache, k, the queries left
    report,        \* what the last run of run_grade has printed
    spent,         \* starts and faults so far
    paid,          \* history: vectors paid for, by key
    dropped        \* history: how often a save has dropped a key from the file

vars == <<saved, grades, embed, boost, grade, report, spent, paid, dropped>>

ItemKeys == {KeyOf[i] : i \in ToSet(Corpus)}

Keys == ItemKeys \cup ToSet(Golden) \cup ToSet(Hard)

\* Each script has its own keys: those of the queries begin with "q::", those of the probe texts
\* with "probe::".
ASSUME KeysAreApart == ToSet(Hard) \cap (ItemKeys \cup ToSet(Golden)) = {}

Zero == [key \in Keys |-> 0]

Init == /\ saved = {}
        /\ grades = [q \in ToSet(Golden) |-> None]
        /\ embed = None /\ boost = None /\ grade = None
        /\ report = <<>>
        /\ spent = [runs |-> 0, faults |-> 0]
        /\ paid = Zero /\ dropped = Zero

Started == spent.runs < MaxRuns /\ spent' = [spent EXCEPT !.runs = @ + 1]

Fault == spent.faults < MaxFaults /\ spent' = [spent EXCEPT !.faults = @ + 1]

(***************************************************************************)
(* Vectors                                                                 *)
(***************************************************************************)
\* embed_batch: one request for all texts of the part.
Pay(part) == paid' = [key \in Keys |-> paid[key] + Times(part, key)]

\* The file becomes the cache of the script that writes it.
Save(cache) == /\ saved' = cache
               /\ dropped' = [key \in Keys |->
                                 dropped[key] + IF key \in saved \ cache THEN 1 ELSE 0]

\* Variant: what has a vector is asked for again.
MissingAll(keys, cache) == keys

Missing(keys, cache) == Among(keys, Keys \ cache)

Targets == Among([n \in DOMAIN Golden |-> Expected[Golden[n]]], ItemKeys)

CorpusKeys == [n \in DOMAIN Corpus |-> KeyOf[Corpus[n]]]

FirstPart(seq) == First(seq, Chunk)

Remaining(seq) == SubSeq(seq, Chunk + 1, Len(seq))

(***************************************************************************)
(* run_embed.main: the expected items, with FULL=1 the whole corpus, then  *)
(* the queries.  A failed request ends the phase of the items, and the     *)
(* script when it is about queries.                                        *)
(***************************************************************************)
EmbedStart ==
    /\ embed = None
    /\ Started
    /\ \E full \in BOOLEAN :
          embed' = [cache |-> saved, full |-> full, phase |-> "targets",
                    left |-> Missing(Targets, saved)]
    /\ UNCHANGED <<saved, grades, boost, grade, report, paid, dropped>>

\* On to the next phase, with what is missing by then.
NextPhase(e) ==
    IF e.phase = "targets" /\ e.full
    THEN [e EXCEPT !.phase = "corpus", !.left = Missing(CorpusKeys, e.cache)]
    ELSE [e EXCEPT !.phase = "queries", !.left = Missing(Golden, e.cache)]

\* embed_into_cache, and the loop over the queries.
EmbedChunk ==
    /\ embed # None /\ embed.left # <<>>
    /\ Pay(FirstPart(embed.left))
    /\ LET cache == embed.cache \cup ToSet(FirstPart(embed.left))
       IN  /\ embed' = [embed EXCEPT !.cache = cache, !.left = Remaining(@)]
           /\ Save(cache)
    /\ UNCHANGED <<grades, boost, grade, report, spent>>

\* The request fails, or the answer is lost after it was paid for; embed_batch tries again,
\* or gives up.
EmbedFails ==
    /\ embed # None /\ embed.left # <<>>
    /\ Fault
    /\ Pay(FirstPart(embed.left)) \/ UNCHANGED paid
    /\ embed' \in {embed, IF embed.phase = "queries" THEN None ELSE NextPhase(embed)}
    /\ UNCHANGED <<saved, grades, boost, grade, report, dropped>>

EmbedPhase ==
    /\ embed # None /\ embed.left = <<>>
    /\ embed' = IF embed.phase = "queries" THEN None ELSE NextPhase(embed)
    /\ UNCHANGED <<saved, grades, boost, grade, report, spent, paid, dropped>>

(***************************************************************************)
(* run_boost.main: a vector for each hard case, with probe texts as keys.  *)
(***************************************************************************)
BoostStart ==
    /\ boost = None
    /\ Started
    /\ boost' = [cache |-> saved, left |-> Hard]
    /\ UNCHANGED <<saved, grades, embed, grade, report, paid, dropped>>

\* ensure_query_vec.
BoostVector ==
    /\ boost # None /\ boost.left # <<>>
    /\ LET key == Head(boost.left)
       IN  IF key \in boost.cache
           THEN /\ boost' = [boost EXCEPT !.left = Tail(@)]
                /\ UNCHANGED <<saved, paid, dropped, spent>>
           ELSE \/ /\ Pay(<<key>>) /\ Save(boost.cache \cup {key})
                   /\ boost' = [cache |-> boost.cache \cup {key}, left |-> Tail(boost.left)]
                   /\ UNCHANGED spent
                \/ /\ Fault /\ boost' \in {boost, None}
                   /\ Pay(<<key>>) \/ UNCHANGED paid
                   /\ UNCHANGED <<saved, dropped>>
    /\ UNCHANGED <<grades, embed, grade, report>>

BoostEnd ==
    /\ boost # None /\ boost.left = <<>>
    /\ boost' = None
    /\ UNCHANGED <<saved, grades, embed, grade, report, spent, paid, dropped>>

(***************************************************************************)
(* run_grade.main                                                          *)
(***************************************************************************)
GradeStart ==
    /\ grade = None
    /\ Started
    /\ \E k \in Ks : grade' = [cache |-> saved, k |-> k, left |-> Golden]
    /\ report' = <<>>
    /\ UNCHANGED <<saved, grades, embed, boost, paid, dropped>>

\* emb_order: the atcIds of the items that have a vector.
EmbOrder(q, cache) ==
    LET with == Among(Order[q], {i \in ToSet(Corpus) : KeyOf[i] \in cache})
    IN  [n \in DOMAIN with |-> KeyOf[with[n]]]

\* rank_of: the first place of the atcId, 0 if there is none.
RankOf(ids, target) ==
    LET at == {n \in DOMAIN ids : ids[n] = target}
    IN  IF at = {} THEN 0 ELSE CHOOSE n \in at : \A m \in at : n <= m

ScoreAt(verdicts, n) == IF n \in DOMAIN verdicts THEN verdicts[n] ELSE -1

\* The first k by their verdicts, those without one last.
Regraded(order, k, verdicts) ==
    LET top == First(order, k)
    IN  Sorted(top, [n \in DOMAIN top |-> ScoreAt(verdicts, n)])

\* Variant: of the first k only those with a verdict are listed.
NewOrderJudged(order, k, verdicts) ==
    First(Regraded(order, k, verdicts), Cardinality(DOMAIN verdicts))
        \o SubSeq(order, k + 1, Len(order))

\* The others follow as they were.
NewOrder(order, k, verdicts) == Regraded(order, k, verdicts) \o SubSeq(order, k + 1, Len(order))

Printed(q, emb, new) == Append(report, [query |-> q, k |-> grade.k, emb |-> emb, new |-> new])

\* A query whose item has no vector counts as not found, for both.
GradeAbsent ==
    /\ grade # None /\ grade.left # <<>>
    /\ LET q == Head(grade.left)
       IN  /\ Expected[q] \notin ItemKeys \cap grade.cache
           /\ report' = Printed(q, 0, 0)
    /\ grade' = [grade EXCEPT !.left = Tail(@)]
    /\ UNCHANGED <<saved, grades, embed, boost, spent, paid, dropped>>

\* The LLM judges any part of the list; a reply that is no JSON counts as no verdict, and one
\* without proper ids is kept as it is.
GradeAsk ==
    /\ grade # None /\ grade.left # <<>>
    /\ LET q == Head(grade.left)
       IN  /\ Expected[q] \in ItemKeys \cap grade.cache /\ q \in grade.cache
           /\ grades[q] = None
           /\ \/ grades' = [grades EXCEPT ![q] = Bad]
             \/ \E judged \in SUBSET DOMAIN First(EmbOrder(q, grade.cache), grade.k) :
                \E verdicts \in [judged -> Scores] : grades' = [grades EXCEPT ![q] = verdicts]
    /\ UNCHANGED <<saved, embed, boost, grade, report, spent, paid, dropped>>

\* The verdicts, fresh or kept, are put in.
GradeApply ==
    /\ grade # None /\ grade.left # <<>>
    /\ LET q     == Head(grade.left)
           order == EmbOrder(q, grade.cache)
       IN  /\ Expected[q] \in ItemKeys \cap grade.cache /\ q \in grade.cache
           /\ grades[q] \notin {None, Bad}
           /\ report' = Printed(q, RankOf(order, Expected[q]),
                                RankOf(NewOrder(order, grade.k, grades[q]), Expected[q]))
    /\ grade' = [grade EXCEPT !.left = Tail(@)]
    /\ UNCHANGED <<saved, grades, embed, boost, spent, paid, dropped>>

\* The script ends, or dies: of a query without a vector, of a reply it cannot read, now or
\* from an earlier run, or of a refused request.
GradeEnd ==
    /\ grade # None
    /\ IF grade.left = <<>> THEN UNCHANGED spent
       ELSE LET q == Head(grade.left)
            IN  IF Expected[q] \in ItemKeys \cap grade.cache
                   /\ (q \notin grade.cache \/ grades[q] = Bad)
                THEN UNCHANGED spent ELSE Fault
    /\ grade' = None
    /\ UNCHANGED <<saved, grades, embed, boost, report, paid, dropped>>

Next == \/ EmbedStart \/ EmbedChunk \/ EmbedFails \/ EmbedPhase
        \/ BoostStart \/ BoostVector \/ BoostEnd
        \/ GradeStart \/ GradeAbsent \/ GradeAsk \/ GradeApply \/ GradeEnd

Spec == Init /\ [][Next]_vars

-------------------------------------------------------------------------------
\* How often a key is written in one go of a script.
Copies(key) == LET n == Times(CorpusKeys, key) + Times(Golden, key)
               IN  IF Times(Targets, key) > n THEN Times(Targets, key) ELSE IF n = 0 THEN 1 ELSE n

\* A vector is paid for once per part of its find.  It is paid for again only after a failed
\* request, or when a script that was running at the same time has written its own older
\* cache over the file (embed_into_cache, ensure_query_vec).
PaidOnce == \A key \in Keys : paid[key] <= Copies(key) * (1 + dropped[key] + spent.faults)

\* Judging the first k moves items only among the first k: an item is found within k before
\* exactly when it is after, and further down it keeps its rank, although the verdicts may
\* come from a run with another k or another corpus, be partial or be missing.
RecallAtKKept ==
    \A n \in DOMAIN report :
        LET r == report[n]
        IN  IF r.emb \in 1..r.k THEN r.new \in 1..r.k ELSE r.new = r.emb
===============================================================================
