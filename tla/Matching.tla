------------------------------- MODULE Matching -------------------------------
(***************************************************************************)
(* The matching agent: apps/agent/graph.py with the parts of extract.py,   *)
(* fanout.py, search.py and gemini.py that decide which found items a      *)
(* report is matched with and in which order.  One run of the graph for    *)
(* one report: fields are extracted, up to three queries are built from    *)
(* them, each is searched and merged into the candidates, and the LLM      *)
(* judges the best of these.  World.tla uses the outcome: a ranked list in *)
(* which the LLM may have said nothing about some of the items.            *)
(***************************************************************************)
EXTENDS Lists, SequencesExt

CONSTANTS
    Items,         \* documents of the index, atc_id_fd_sn
    Scores,        \* scores the index gives, for an embedding or for keywords
    Bonus,         \* w_region, in the unit of the scores
    FromIndex,     \* candidates: documents an answer of the index holds at most
    PerQuery,      \* SEARCH_PER_QUERY
    TopK,          \* MERGED_TOPK
    Said,          \* scores the LLM writes, valid or not
    MaxReply,      \* bound: entries in a reply of the LLM
    None           \* no verdict, an unusable score

ASSUME MatchingAssumption ==
    /\ IsFiniteSet(Items) /\ Scores \subseteq Nat /\ Bonus \in Nat
    /\ FromIndex \in Nat /\ PerQuery \in Nat \ {0} /\ TopK \in Nat \ {0} /\ MaxReply \in Nat
    /\ Said \subseteq Int /\ None \notin Int

VARIABLES
    pc,            \* the node of the graph
    region,        \* items whose place lies in the regions of the report
    queries,       \* queries still to be searched
    merged,        \* candidates, in the order in which they came
    matches,       \* the judged list
    hits,          \* history: the scores of the documents the index answered, query after query
    reply          \* history: what the LLM answered

vars == <<pc, region, queries, merged, matches, hits, reply>>

Fields == {"brand", "color", "item", "category"}

Entry == [id : -1..TopK, score : Said \cup {None}]

Distinct(s) == \A m, n \in DOMAIN s : s[m].item = s[n].item => m = n

\* Larger scores first, as they came where they are equal.
ByScore(s) == Sorted(s, [n \in DOMAIN s |-> s[n].score])

Init == /\ pc = "extract"
        /\ region \in SUBSET Items
        /\ queries = <<>> /\ merged = <<>> /\ matches = <<>>
        /\ hits = <<>> /\ reply = <<>>

(***************************************************************************)
(* extract, route, fanout                                                  *)
(***************************************************************************)
\* From narrow to wide, without blanks and repetitions; a query is the set of its words.
BuildQueries(ex) ==
    LET wide == IF "item" \in ex THEN {"item"} ELSE ex \cap {"category"}
        all  == <<ex \cap {"brand", "color", "item"}, ex \cap {"color", "item"}, wide>>
        keep == {n \in 1..3 : all[n] # {} /\ \A m \in 1..(n - 1) : all[m] # all[n]}
    IN  [k \in 1..Cardinality(keep) |->
            all[CHOOSE n \in keep : Cardinality({m \in keep : m <= n}) = k]]

\* The text is not a report: the graph ends here.
NoReport == /\ pc = "extract"
            /\ pc' = "done"
            /\ UNCHANGED <<region, queries, merged, matches, hits, reply>>

\* ex holds the fields found; an outage of the LLM leaves the text itself as item.
Extract(ex) ==
    /\ pc = "extract"
    /\ pc' = "search"
    /\ queries' = BuildQueries(ex)
    /\ UNCHANGED <<region, merged, matches, hits, reply>>

(***************************************************************************)
(* search                                                                  *)
(***************************************************************************)
\* The documents the index answers, with the bonus of those in the regions of the report.
Boosted(base) == [i \in DOMAIN base |-> base[i] + IF i \in region THEN Bonus ELSE 0]

\* These documents in the order of the index, with the score the code gives them.
Scored(base, order) == [n \in DOMAIN order |->
                           [item |-> order[n], score |-> Boosted(base)[order[n]]]]

\* Variant: the answer is cut off before the bonus is added.
FoundThenBoosted(base, order) == ByScore(First(Scored(base, order), PerQuery))

\* What search returns for an answer of the index.
Found(base, order) == First(ByScore(Scored(base, order)), PerQuery)

\* A candidate that was found before keeps its place and takes the better score.
Merge(ms, h) ==
    IF \E n \in DOMAIN ms : ms[n].item = h.item
    THEN [n \in DOMAIN ms |-> IF ms[n].item = h.item /\ h.score > ms[n].score THEN h ELSE ms[n]]
    ELSE Append(ms, h)

MergeAll(ms, hs) ==
    LET upTo[n \in 0..Len(hs)] == IF n = 0 THEN ms ELSE Merge(upTo[n - 1], hs[n])
    IN  upTo[Len(hs)]

\* The index answers a query with some documents, the best first: the nearest ones, or those
\* with its words when there is no embedding.
Search ==
    /\ pc = "search" /\ queries # <<>>
    /\ \E docs \in {d \in SUBSET Items : Cardinality(d) <= FromIndex} :
       \E base \in [docs -> Scores], order \in SetToSeqs(docs) :
          /\ \A m, n \in DOMAIN order : m < n => base[order[m]] >= base[order[n]]
          /\ merged' = MergeAll(merged, Found(base, order))
          /\ hits' = Append(hits, Boosted(base))
    /\ queries' = Tail(queries)
    /\ UNCHANGED <<pc, region, matches, reply>>

\* Variant: the candidates are cut off unsorted.
CandidatesUnsorted == First(merged, TopK)

Candidates == First(ByScore(merged), TopK)

SearchEnds ==
    /\ pc = "search" /\ queries = <<>>
    /\ pc' = "grade"
    /\ merged' = Candidates
    /\ UNCHANGED <<region, queries, matches, hits, reply>>

(***************************************************************************)
(* grade                                                                   *)
(***************************************************************************)
Clamp(x) == IF x < 0 THEN 0 ELSE IF x > 100 THEN 100 ELSE x

\* Variant: the LLM is taken to count from one.
UsableFromOne(entries, n) == {k \in DOMAIN entries : entries[k].id = n /\ entries[k].score # None}

\* clean_grades: entries about the candidate at place n that survive; ids count from zero.
Usable(entries, n) == {k \in DOMAIN entries : entries[k].id = n - 1 /\ entries[k].score # None}

\* The last of them counts.
Verdict(entries, n) ==
    LET ks == Usable(entries, n)
    IN  IF ks = {} THEN None ELSE Clamp(entries[CHOOSE k \in ks : \A l \in ks : l <= k].score)

\* Variant: without a verdict a candidate counts as zero.
RankZero(m) == IF m.grade = None THEN 0 ELSE m.grade

Rank(m) == IF m.grade = None THEN -1 ELSE m.grade

\* The candidates with their verdicts, the best first.
Judged(entries) ==
    LET all == [n \in DOMAIN merged |-> [item |-> merged[n].item, score |-> merged[n].score,
                                         grade |-> Verdict(entries, n)]]
    IN  Sorted(all, [n \in DOMAIN all |-> Rank(all[n])])

Grade ==
    /\ pc = "grade"
    /\ pc' = "done"
    /\ \E entries \in IF merged = <<>> THEN {<<>>} ELSE SeqOf(Entry, MaxReply) :
          /\ reply' = entries
          /\ matches' = Judged(entries)
    /\ hits' = <<>>
    /\ UNCHANGED <<region, queries, merged>>

Next == NoReport \/ Search \/ SearchEnds \/ Grade \/ \E ex \in SUBSET Fields : Extract(ex)

Spec == Init /\ [][Next]_vars

-------------------------------------------------------------------------------
(***************************************************************************)
(* Candidates                                                              *)
(***************************************************************************)
In(s, i) == \E n \in DOMAIN s : s[n].item = i

Before(s, i, j) == \E m, n \in DOMAIN s : m < n /\ s[m].item = i /\ s[n].item = j

\* Whenever the index answers j, it answers i as well, and i scores higher.
Dominates(i, j) ==
    \A q \in DOMAIN hits : j \in DOMAIN hits[q] => i \in DOMAIN hits[q] /\ hits[q][i] > hits[q][j]

\* An item that scores higher than another in every answer that holds the other comes before
\* it, although every answer is cut off, the answers are merged by score, and the result is
\* cut off again (search, n_search).
DominantFirst ==
    pc = "grade" => \A i, j \in Items : In(merged, j) /\ Dominates(i, j) => Before(merged, i, j)

\* A candidate stands for the best of the scores the index has answered for it; if search has
\* cut off a higher one, it is behind as many others as search returns.  The best score of all
\* answers comes first (search, n_search).
BestScoreCounts ==
    pc = "grade" =>
        \A q \in DOMAIN hits : \A i \in DOMAIN hits[q] :
            /\ merged[1].score >= hits[q][i]
            /\ \A n \in DOMAIN merged :
                  merged[n].item = i => hits[q][i] <= merged[n].score \/ n > PerQuery

(***************************************************************************)
(* Verdicts                                                                *)
(***************************************************************************)
\* Whatever the LLM answers, nothing is lost or added: the judged list holds the candidates,
\* each with the last usable verdict on itself (grade, clean_grades, n_grade).
VerdictsAreTheirOwn ==
    pc = "done" => /\ Len(matches) = Len(merged) /\ Distinct(matches)
                   /\ \A n \in DOMAIN merged : \E m \in DOMAIN matches :
                         /\ matches[m].item = merged[n].item
                         /\ \/ /\ matches[m].grade = None
                               /\ \A k \in DOMAIN reply :
                                     reply[k].id = n - 1 => reply[k].score = None
                            \/ \E k \in DOMAIN reply :
                                  /\ reply[k].id = n - 1 /\ reply[k].score # None
                                  /\ matches[m].grade = Clamp(reply[k].score)
                                  /\ \A l \in DOMAIN reply :
                                        l > k /\ reply[l].id = n - 1 => reply[l].score = None

\* A candidate the LLM has said nothing about is never ahead of one it has judged, not even
\* of one that it has judged impossible, and equal verdicts keep the order of the search.
JudgedFirst ==
    pc = "done" => \A i, j \in DOMAIN matches : i < j =>
        /\ matches[i].grade = None => matches[j].grade = None
        /\ matches[i].grade # None /\ matches[j].grade # None => matches[i].grade >= matches[j].grade
        /\ matches[i].grade = matches[j].grade => Before(merged, matches[i].item, matches[j].item)
===============================================================================
