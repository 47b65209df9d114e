------------------------------ MODULE Collector ------------------------------
(***************************************************************************)
(* apps/collector/run.py: the collector, started by cron every day.  For   *)
(* each source it pages through the listing of the last days, leaves out   *)
(* what is indexed already, and then asks for details, embeds and indexes  *)
(* batch after batch.  The listing is a live one: items are registered in  *)
(* it while the collector turns its pages.  A day has no role here: the    *)
(* items of the model stay within the window that is asked for.            *)
(***************************************************************************)
EXTENDS Lists, SequencesExt

CONSTANTS
    Items,         \* ids of found items, atcId_fdSn
    Sources,       \* the sources, in the order they are collected
    SourceOf,      \* SourceOf[i]: the source that lists item i
    Rows,          \* --rows
    MaxItems,      \* --max
    Batch,         \* BATCH
    MaxFaults,     \* bound: crashes, refused pages, failed details and rejected documents
    None           \* no document

ASSUME CollectorAssumption ==
    /\ Sources \in Seq(STRING) /\ SourceOf \in [Items -> ToSet(Sources)]
    /\ {Rows, MaxItems, Batch} \subseteq Nat \ {0} /\ MaxFaults \in Nat
    /\ None \notin {"bare", "full"}

VARIABLES
    listing,       \* listing[s]: what data.go.kr lists for source s, page after page
    index,         \* index[i]: the document of item i: None, without or with its details
    run,           \* the run in progress
    faults,        \* faults so far
    paid,          \* history: detail calls and embeddings spent on each item
    shifts         \* history: items registered while a listing was being paged through

vars == <<listing, index, run, faults, paid, shifts>>

\* pc: list, skip, detail, index or end; src: the position of the source; got: the listing as
\* read, then the new items still to do; docs: the documents of the current batch, the head of
\* got; calm (history): no fault and no registration in this run.
NoRun == [pc |-> "idle", src |-> 0, page |-> 0, got |-> <<>>, docs |-> <<>>, calm |-> TRUE]

Init == /\ listing = [s \in ToSet(Sources) |-> <<>>]
        /\ index = [i \in Items |-> None]
        /\ run = NoRun
        /\ faults = 0 /\ shifts = 0
        /\ paid = [i \in Items |-> 0]

Least(a, b) == IF a < b THEN a ELSE b

Fault == faults < MaxFaults /\ faults' = faults + 1

\* The step meets the faults it is given: none leave the run as calm as it was.
Meet(failures) == IF failures = {} THEN UNCHANGED faults ELSE Fault

(***************************************************************************)
(* data.go.kr                                                              *)
(***************************************************************************)
Listed(s) == ToSet(listing[s])

\* A found item is registered, at either end of the listing.
Register(i) ==
    LET s == SourceOf[i]
    IN  /\ i \notin Listed(s)
        /\ \/ listing' = [listing EXCEPT ![s] = <<i>> \o @]
           \/ listing' = [listing EXCEPT ![s] = Append(@, i)]
        /\ run' = [run EXCEPT !.calm = run.pc = "idle"]
        /\ shifts' = IF run.pc = "list" /\ run.got # <<>> THEN shifts + 1 ELSE shifts
        /\ UNCHANGED <<index, faults, paid>>

(***************************************************************************)
(* A run                                                                   *)
(***************************************************************************)
Source == Sources[run.src]

\* On to the listing of the next source, or to the end.
NextSource(rn) ==
    IF rn.src = Len(Sources)
    THEN [rn EXCEPT !.pc = "end", !.page = 0, !.got = <<>>, !.docs = <<>>]
    ELSE [rn EXCEPT !.pc = "list", !.src = @ + 1, !.page = 1, !.got = <<>>, !.docs = <<>>]

Begin == /\ run.pc = "idle"
         /\ run' = NextSource(NoRun)
         /\ UNCHANGED <<listing, index, faults, paid, shifts>>

\* The server cuts its listing into pages of the size it is asked for: the last request asks
\* for fewer rows, and so for another offset.
Asked == Least(Rows, MaxItems - Len(run.got))

\* Variant: pages are counted from zero.
OffsetFromZero(rows) == run.page * rows

Offset(rows) == (run.page - 1) * rows

Part(q, from, to) == SubSeq(q, from, Least(to, Len(q)))

Page == Part(listing[Source], Offset(Asked) + 1, Offset(Asked) + Asked)

\* Variant: one full page is taken for the whole listing.
EnoughOnePage(got) == Len(got) >= Rows

\* As many rows as the server has items, or as are wanted, duplicates included.
Enough(got) == Len(got) >= Len(listing[Source]) \/ Len(got) >= MaxItems

ListPage ==
    /\ run.pc = "list"
    /\ LET got == run.got \o Page
       IN  run' = IF Page = <<>> \/ Enough(got) THEN [run EXCEPT !.pc = "skip", !.got = got]
                  ELSE [run EXCEPT !.page = @ + 1, !.got = got]
    /\ UNCHANGED <<listing, index, faults, paid, shifts>>

\* An answer with an error code: what has been listed so far will do.
ListRefused ==
    /\ run.pc = "list"
    /\ Fault
    /\ run' = [run EXCEPT !.pc = "skip", !.calm = FALSE]
    /\ UNCHANGED <<listing, index, paid, shifts>>

\* Variant: nothing is left out.
NewItemsAll(got) == got

NewItems(got) == Among(got, {i \in Items : index[i] = None})

\* The batches that are left, or the next source.
Work(todo) == IF todo = <<>> THEN NextSource(run)
              ELSE [run EXCEPT !.pc = "detail", !.got = todo, !.docs = <<>>]

Skip ==
    /\ run.pc = "skip"
    /\ run' = Work(NewItems(run.got))
    /\ UNCHANGED <<listing, index, faults, paid, shifts>>

\* Variant: everything is one batch.
BatchLenAll == Len(run.got)

BatchLen == Least(Batch, Len(run.got))

\* enrich_docs: a detail call that fails leaves the document without its details.
Detail ==
    /\ run.pc = "detail"
    /\ \E failed \in SUBSET (1..BatchLen) :
          /\ Meet(failed)
          /\ run' = [run EXCEPT !.pc = "index", !.calm = @ /\ failed = {},
                         !.docs = [n \in 1..BatchLen |-> IF n \in failed THEN "bare" ELSE "full"]]
    /\ paid' = [i \in Items |->
                   paid[i] + Cardinality({n \in 1..BatchLen : run.got[n] = i})]
    /\ UNCHANGED <<listing, index, shifts>>

\* embed_and_index: the documents of one bulk request are written in order, a rejected one is
\* counted and the run goes on.
Index ==
    /\ run.pc = "index"
    /\ \E rejected \in SUBSET DOMAIN run.docs :
          LET written(i) == {n \in DOMAIN run.docs \ rejected : run.got[n] = i}
              latest(i)  == CHOOSE n \in written(i) : \A m \in written(i) : m <= n
              rest       == SubSeq(run.got, Len(run.docs) + 1, Len(run.got))
          IN  /\ Meet(rejected)
              /\ index' = [i \in Items |-> IF written(i) = {} THEN index[i]
                                           ELSE run.docs[latest(i)]]
              /\ run' = [Work(rest) EXCEPT !.calm = @ /\ rejected = {}]
    /\ UNCHANGED <<listing, paid, shifts>>

\* Refresh; the matching of the stored reports follows (module Rematch).
End == /\ run.pc = "end"
       /\ run' = NoRun
       /\ UNCHANGED <<listing, index, faults, paid, shifts>>

\* The listing cannot be had after its retries, an embedding fails, the container dies:
\* the run is over, for the sources it has not come to as well.
Crash == /\ run.pc # "idle"
         /\ Fault
         /\ run' = NoRun
         /\ UNCHANGED <<listing, index, paid, shifts>>

RunStep == Begin \/ ListPage \/ Skip \/ Detail \/ Index \/ End

Next == RunStep \/ ListRefused \/ Crash \/ \E i \in Items : Register(i)

Spec == Init /\ [][Next]_vars

\* Cron starts a run every day, and a run goes on until it ends or dies.
FairSpec == Spec /\ WF_vars(RunStep)

-------------------------------------------------------------------------------
\* The part of a listing that --max lets the collector see.
InReach == {i \in Items : \E s \in ToSet(Sources) :
                i \in ToSet(Part(listing[s], 1, MaxItems))}

\* A run in which nothing fails and nothing is registered leaves no listed item out, whatever
\* earlier runs have left behind (list_items, new_items, the loop over batches).
CalmRunIndexesAll ==
    run.pc = "end" /\ run.calm => \A i \in InReach : index[i] # None

\* Details and embeddings are spent on an item once; again only after a fault, or because
\* the listing has shifted under the pages and shows the item twice.
PaidOnce == \A i \in Items : paid[i] <= 1 + faults + shifts

\* A run that is cut short loses the work of one batch, the one in hand: with none in hand, what
\* was paid for and is not indexed is a batch for each fault at most (the loop over batches).
BatchesKept ==
    run.pc # "index" =>
        Cardinality({i \in Items : paid[i] > 0 /\ index[i] = None}) <= Batch * faults

\* Every listed item is indexed in the end, however runs die and the listing shifts.
ListedGetsIndexed ==
    \A i \in Items : (i \in Listed(SourceOf[i])) ~> (index[i] # None)
===============================================================================
