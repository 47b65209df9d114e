-------------------------------- MODULE World --------------------------------
(***************************************************************************)
(* What surrounds the reports of FindIt: the clock, the search index with  *)
(* the verdict the LLM has for each found item, and the budget of faults.  *)
(*                                                                         *)
(* An item stands for a candidate that the search of apps/agent/graph.py   *)
(* ranks among the top candidates of the report.  Items are numbered by    *)
(* search score: a smaller number is a better score.  The report text is   *)
(* fixed and the model runs at temperature 0, so a found item keeps its    *)
(* verdict; the LLM may leave out any part of a list it is asked to judge. *)
(***************************************************************************)
EXTENDS Integers, FiniteSets

CONSTANTS
    Items,       \* found items, numbered by search rank
    Grades,      \* verdicts the LLM may give, a subset of 0..100
    StrongAt,    \* settings.rematch_grade_threshold
    WeakAt,      \* settings.weak_grade_threshold
    MaxTime,     \* bound: last instant of the clock
    MaxFaults,   \* bound: crashes, errors, lost mails and LLM outages, in all
    None         \* the NULL of every column and field

ASSUME WorldAssumption ==
    /\ Items \subseteq Nat
    /\ Grades \subseteq 0..100
    /\ StrongAt \in Nat /\ WeakAt \in Nat
    /\ MaxTime \in Nat
    /\ MaxFaults \in Nat
    /\ None \notin Grades

VARIABLES
    now,         \* the wall clock, in days
    found,       \* the index: found[i] is the verdict of item i, None if not collected
    faults       \* how many faults have happened

worldVars == <<now, found, faults>>

\* A candidate the LLM said nothing about has grade None in the code and sorts as -1.
NoGrade == -1

Candidate == [item : Items, grade : Grades \cup {NoGrade}]

ASSUME NullIsNoCandidate == None \notin Candidate

Listed == {i \in Items : found[i] # None}

\* The order of a judged list: grade first, then search rank (the sort is stable).
Better(m, o) == \/ m.grade > o.grade
                \/ m.grade = o.grade /\ m.item <= o.item

Top(ms) == CHOOSE m \in ms : \A o \in ms : Better(m, o)

\* The list that comes back when the LLM omits the items in lost.
Judged(lost) ==
    {[item |-> i, grade |-> IF i \in lost THEN NoGrade ELSE found[i]] : i \in Listed}

\* Variant: also the candidates the LLM left out.
GradedKeysAll(ms) == {m.item : m \in ms}

GradedKeys(ms) == {m.item : m \in {c \in ms : c.grade # NoGrade}}

Fault == faults < MaxFaults /\ faults' = faults + 1

\* One judgement of the candidates: an omission is a fault of the LLM.
Judge(lost) == IF lost = {} THEN UNCHANGED faults ELSE Fault

WorldInit == /\ now = 0
             /\ found = [i \in Items |-> None]
             /\ faults = 0

WorldTypeOK == /\ now \in Nat
               /\ found \in [Items -> Grades \cup {None}]
               /\ faults \in 0..MaxFaults

Tick == /\ now < MaxTime
        /\ now' = now + 1
        /\ UNCHANGED <<found, faults>>

\* The collector indexes a found item.
Collect(i, g) == /\ found[i] = None
                 /\ found' = [found EXCEPT ![i] = g]
                 /\ UNCHANGED <<now, faults>>
==============================================================================
