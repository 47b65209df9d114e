-------------------------------- MODULE Regions --------------------------------
(***************************************************************************)
(* Where regions come from and where they go.  On a desk the tables are    *)
(* built (eval/build_gazetteer.py) and completed (eval/geocode_deps.py); a *)
(* deployment puts them into the image of the service.  The collector      *)
(* writes a region into each document it indexes; it runs in a container   *)
(* of its own, which outlives a deployment with the tables it has loaded.  *)
(* Two scripts in the container of the service mend what is in the index:  *)
(* scripts/backfill_region.py after new tables, scripts/geocode_region.py  *)
(* for what no table knows.                                                *)
(***************************************************************************)
EXTENDS Places

CONSTANTS
    Csvs,          \* versions of the police's list
    Docs,          \* documents of the index
    DepOf,         \* DepOf[d]: who keeps the item of document d
    Kakao,         \* Kakao[dep][q]: the address the map service has for a query
    Wanted,        \* regions that reports ask for
    FlushAt,       \* documents that geocode_region gathers for one bulk request
    MaxFaults,     \* bound: errors of the map service and of the index, crashes
    MaxDeploys,    \* bound: deployments
    MaxJobs,       \* bound: starts of a script or of the collector
    None           \* not there

ASSUME RegionsAssumption ==
    /\ Csvs \in Seq(Seq(Row)) /\ Csvs # <<>>
    /\ DepOf \in [Docs -> Deps]
    /\ Kakao \in [Deps -> [Questions -> Seq(Token)]]
    /\ Wanted \subseteq Seq(Token) \ {<<>>}
    /\ {FlushAt, MaxFaults, MaxDeploys, MaxJobs} \subseteq Nat

VARIABLES
    files,         \* dep_gazetteer.json and dep_geocoded.json on the desk
    live,          \* the tables in the image, and in the memory of the service
    geo,           \* a run of geocode_deps: the deps that are left
    index,         \* index[d]: the region stored with document d, None before it is indexed
    daily,         \* a run of the collector: the tables it has loaded
    back,          \* a run of backfill_region: what it has read and not looked at yet
    fill,          \* a run of geocode_region: documents to do, by dep, and those gathered
    spent,         \* faults, deployments and starts so far
    seen,          \* history: documents the backfill has scrolled
    mended         \* history: documents the backfill has looked at

vars == <<files, live, geo, index, daily, back, fill, spent, seen, mended>>

history == <<seen, mended>>

desk == <<files, live, geo>>

Gazetteer == [c \in DOMAIN Csvs |-> Build(Csvs[c])]

RegionWith(tables, dep) == Resolve(Gazetteer[tables.csv], tables.geocoded, dep)

\* The region of a dep by the questions of candidate_queries, the first that has one, when
\* those in lost get no answer.
Located(dep, lost) ==
    LET at(n)  == RegionFromAddress(Kakao[dep][Queries(dep)[n]])
        hits   == {n \in DOMAIN Queries(dep) \ lost : at(n) # Unknown}
    IN  IF hits = {} THEN Unknown ELSE at(FirstOf(hits))

Init == /\ files = [csv |-> 1, geocoded |-> <<>>]
        /\ live = files
        /\ index = [d \in Docs |-> None] /\ seen = {} /\ mended = {}
        /\ geo = None /\ daily = None /\ back = None /\ fill = None
        /\ spent = [faults |-> 0, deploys |-> 0, jobs |-> 0]

Fault == spent.faults < MaxFaults /\ spent' = [spent EXCEPT !.faults = @ + 1]

Job == spent.jobs < MaxJobs /\ spent' = [spent EXCEPT !.jobs = @ + 1]

\* Documents that others write with other tables than the service has leave the histories.
Disturb(docs) == seen' = seen \ docs /\ mended' = mended \ docs

(***************************************************************************)
(* The desk                                                                *)
(***************************************************************************)
\* build_gazetteer.main, with another version of the list.
BuildGazetteer(c) ==
    /\ c # files.csv
    /\ Job
    /\ files' = [files EXCEPT !.csv = c]
    /\ UNCHANGED <<live, geo, index, daily, back, fill, history>>

\* geocode_deps.main: the deps that neither table knows.
GeoStart ==
    /\ geo = None
    /\ Job
    /\ geo' = {dep \in Deps : RegionWith(files, dep) = Unknown /\ dep \notin DOMAIN files.geocoded}
    /\ UNCHANGED <<files, live, index, daily, back, fill, history>>

Cached(dep, region) ==
    [files EXCEPT !.geocoded = [k \in DOMAIN @ \cup {dep} |-> IF k = dep THEN region ELSE @[k]]]

\* A dep is looked up and saved, found or not, before the next one.
GeoSave(dep) ==
    /\ geo # None /\ dep \in geo
    /\ files' = Cached(dep, Located(dep, {}))
    /\ geo' = geo \ {dep}
    /\ UNCHANGED <<live, index, daily, back, fill, spent, history>>

\* Variant: an error counts as nothing found, as in geocode_region.
GeoErrorSaved(dep) ==
    /\ geo # None /\ dep \in geo
    /\ Fault
    /\ files' = Cached(dep, Unknown)
    /\ geo' = geo \ {dep}
    /\ UNCHANGED <<live, index, daily, back, fill, history>>

\* An error leaves the dep to the next run.
GeoError(dep) ==
    /\ geo # None /\ dep \in geo
    /\ Fault
    /\ geo' = geo \ {dep}
    /\ UNCHANGED <<files, live, index, daily, back, fill, history>>

\* All deps are done, the map service refuses the key, or the script dies.
GeoEnd ==
    /\ geo # None
    /\ (geo = {} /\ UNCHANGED spent) \/ Fault
    /\ geo' = None
    /\ UNCHANGED <<files, live, index, daily, back, fill, history>>

\* A new image: the service is restarted, and the scripts in its container die with the old one.
Deploy ==
    /\ files # live
    /\ spent.deploys < MaxDeploys /\ spent' = [spent EXCEPT !.deploys = @ + 1]
    /\ live' = files
    /\ back' = None /\ fill' = None
    /\ seen' = {} /\ mended' = {}
    /\ UNCHANGED <<files, geo, index, daily>>

(***************************************************************************)
(* The collector.  Module Collector has the rest of it.                    *)
(***************************************************************************)
DailyStart ==
    /\ daily = None
    /\ Job
    /\ \E refresh \in BOOLEAN : daily' = [tables |-> live, refresh |-> refresh]
    /\ UNCHANGED <<desk, index, back, fill, history>>

\* A new document, or with --refresh-existing an old one again.
DailyIndex(d) ==
    /\ daily # None
    /\ index[d] = None \/ daily.refresh
    /\ index' = [index EXCEPT ![d] = RegionWith(daily.tables, DepOf[d])]
    /\ IF daily.tables = live THEN UNCHANGED history ELSE Disturb({d})
    /\ UNCHANGED <<desk, daily, back, fill, spent>>

\* The collector ends or dies, at any time.
DailyEnd ==
    /\ daily # None
    /\ daily' = None
    /\ UNCHANGED <<desk, index, back, fill, spent, history>>

Indexed == {d \in Docs : index[d] # None}

\* eval/index_opensearch.py fills the index from the corpus of the experiments: its documents
\* have no region, whatever was there before.
Seed(d) ==
    /\ Job
    /\ index' = [index EXCEPT ![d] = Unknown]
    /\ Disturb({d})
    /\ UNCHANGED <<desk, daily, back, fill>>

(***************************************************************************)
(* backfill_region.main                                                    *)
(***************************************************************************)
\* The scroll shows the index as it was when it was opened.
BackStart ==
    /\ back = None
    /\ Job
    /\ back' = [d \in Indexed |-> index[d]]
    /\ seen' = Indexed
    /\ UNCHANGED <<desk, index, daily, fill, mended>>

Without(d) == [o \in DOMAIN back \ {d} |-> back[o]]

\* Variant: a document that has a region is passed over.
UpToDateFilled(d) == back[d] # Unknown

\* The region the scroll has shown is the one the tables give.
UpToDate(d) == back[d] = RegionWith(live, DepOf[d])

\* A document whose region is another one is updated, or the index rejects the update.
BackWrite(d) ==
    /\ back # None /\ d \in DOMAIN back
    /\ back' = Without(d)
    /\ IF UpToDate(d)
       THEN /\ mended' = mended \cup ({d} \cap seen)
            /\ UNCHANGED <<index, spent>>
       ELSE \/ /\ index' = [index EXCEPT ![d] = RegionWith(live, DepOf[d])]
               /\ mended' = mended \cup {d}
               /\ UNCHANGED spent
            \/ Fault /\ UNCHANGED <<index, mended>>
    /\ UNCHANGED <<desk, daily, fill, seen>>

BackEnd ==
    /\ back # None
    /\ (DOMAIN back = {} /\ UNCHANGED spent) \/ Fault
    /\ back' = None
    /\ seen' = {}
    /\ UNCHANGED <<desk, index, daily, fill, mended>>

(***************************************************************************)
(* geocode_region.main                                                     *)
(***************************************************************************)
\* The scroll is read to its end, and the documents without a region are grouped by dep.
FillStart ==
    /\ fill = None
    /\ Job
    /\ LET empty == {d \in Indexed : index[d] = Unknown}
       IN  fill' = [todo |-> [dep \in {DepOf[d] : d \in empty} |-> {d \in empty : DepOf[d] = dep}],
                    lines |-> <<>>]
    /\ UNCHANGED <<desk, index, daily, back, history>>

Done(dep) == [o \in DOMAIN fill.todo \ {dep} |-> fill.todo[o]]

\* A bulk request with all that is gathered, of which the index takes a part.
Flush(lines, taken) ==
    /\ index' = [d \in Docs |-> IF d \in taken THEN lines[d] ELSE index[d]]
    /\ Disturb(taken)

\* kakao_region passes over a question whose request fails; a dep that gets a region joins the
\* bulk with its documents, the others are passed over.
FillDep(dep) ==
    /\ fill # None /\ dep \in DOMAIN fill.todo
    /\ \E lost \in SUBSET DOMAIN Queries(dep) :
       LET region == Located(dep, lost)
           found  == {d \in fill.todo[dep] : region # Unknown}
           lines  == [d \in found \cup DOMAIN fill.lines |->
                         IF d \in found THEN region ELSE fill.lines[d]]
           full   == region # Unknown /\ Cardinality(DOMAIN lines) >= FlushAt
       IN  /\ fill' = [todo |-> Done(dep), lines |-> IF full THEN <<>> ELSE lines]
           /\ \E taken \in IF full THEN SUBSET DOMAIN lines ELSE {{}} :
                 /\ Flush(lines, taken)
                 /\ IF lost = {} /\ (full => taken = DOMAIN lines) THEN UNCHANGED spent ELSE Fault
    /\ UNCHANGED <<desk, daily, back>>

\* The rest is written at the end; a script that dies has gathered it in vain.
FillEnd ==
    /\ fill # None
    /\ \/ /\ DOMAIN fill.todo = {}
          /\ \E taken \in SUBSET DOMAIN fill.lines :
                /\ Flush(fill.lines, taken)
                /\ IF taken = DOMAIN fill.lines THEN UNCHANGED spent ELSE Fault
       \/ Fault /\ UNCHANGED <<index, history>>
    /\ fill' = None
    /\ UNCHANGED <<desk, daily, back>>

-------------------------------------------------------------------------------
Desk == \/ \E c \in DOMAIN Csvs : BuildGazetteer(c)
        \/ GeoStart \/ GeoEnd
        \/ \E dep \in Deps : GeoSave(dep) \/ GeoError(dep)
        \/ Deploy

Service == \/ DailyStart \/ DailyEnd \/ BackStart \/ BackEnd \/ FillStart \/ FillEnd
           \/ \E d \in Docs : DailyIndex(d) \/ BackWrite(d) \/ Seed(d)
           \/ \E dep \in Deps : FillDep(dep)

Next == Desk \/ Service

Spec == Init /\ [][Next]_vars

-------------------------------------------------------------------------------
\* A document the backfill has looked at has the region the service finds, so that it can be
\* filtered by what is shown with it.  What the backfill has read may be old when it looks at
\* it, and the collector writes beside it: only a deployment or a write by someone with other
\* tables, before or after the look, leaves a document for the next backfill (_item, browse).
BackfillMends == \A d \in mended : index[d] = RegionWith(live, DepOf[d])

\* A dep counts as unknown to the map service, and is not asked for again, only when every
\* question about it was answered and none had a district: an error leaves it open.
MissIsReal ==
    \A dep \in DOMAIN files.geocoded :
        files.geocoded[dep] = Unknown =>
            \A n \in DOMAIN Queries(dep) : RegionFromAddress(Kakao[dep][Queries(dep)[n]]) = Unknown

\* The same place, its ending written or not.
SamePlace(t, u) == t.stem = u.stem /\ (t.tail = u.tail \/ Letters[t.stem] >= 2)

Names(region, t) == \E u \in ToSet(region) : SamePlace(t, u)

\* A word that names a province, and a district that has the name of one and stands without
\* its own.
IsProvince(t) == t.stem \in Provinces /\ t.tail \in {"sido", ""}

Homonym(region) == /\ \A t \in ToSet(region) : ~IsProvince(t)
                   /\ \E t \in ToSet(region) : t.stem \in Provinces

\* An item gets the bonus of a region exactly when the region of its keeper names the district
\* that is asked for and does not name another province, whichever tables it was resolved with:
\* districts of one letter that exist in many provinces are told apart (region_matches).
BonusIsDeserved ==
    \A region \in {RegionWith(live, dep) : dep \in Deps} :
        LET province == \E t \in ToSet(region) : IsProvince(t)
        IN  \/ Homonym(region)
            \/ \A w \in Wanted :
                  Matches(region, {w}) <=> /\ Names(region, Last(w))
                                           /\ (Len(w) > 1 /\ province) => Names(region, w[1])

\* A dep with nothing but the short name of a metropolis is in the metropolis.
ProvinceNames ==
    \A m \in Metros :
        InGazetteer(Gazetteer[live.csv],
                    [name |-> "", kind |-> "", holds |-> {[stem |-> m, tail |-> ""]},
                     paren |-> "none"]) = <<[stem |-> m, tail |-> "sido"]>>
===============================================================================
