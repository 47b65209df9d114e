# FindIt in TLA+

FindIt keeps reports of lost things, collects found things from the public data
portal every day, and matches the two. This directory models the parts of it
that keep state and run at the same time: the report table, the endpoints that
write it, the daily rematch job, the mails, the rate limits, the threads of the
API with what they share in memory, the collector, the matching pipeline, the
tables of regions with the scripts that fill them, and the experiments that share
cache files.

    tlc -config Addresses.cfg MCFindIt.tla      # a run, see "Runs"
    tlapm FindIt_proofs.tla                     # the proofs of a part, see "Proofs"

## Inventory

| Component | State | Operations | Talks to |
|---|---|---|---|
| Report store `apps/store.py` | table `lost_items`, one row per report | one SQL statement per function, some read before they write | called by API and job, each call on a connection of its own |
| Rematch job `apps/agent/rematch.py` | a snapshot of the open reports, for hours | purge, expire, judge, promote, alert | store, matching agent, notifier; a container of its own, started by cron through the collector |
| Report API `apps/api/main.py` | one row read per request | register (plain, photo, stream), alerts, verify, confirm, dismiss, delete, browse | store, agent, notifier, limits; synchronous endpoints on a thread pool |
| Event stream `main.py:_stream_match` | one generator per client | yield a step, store, yield the result; closed when the client has gone | agent, store, notifier |
| Notifier `apps/notifier.py` | `_UI_CACHE`: translated texts, shared by the threads | result mail, confirmation mail, translation with fallbacks | LLM, SMTP; failures are swallowed |
| Limits `apps/api/limits.py` | sliding windows, daily budget, in memory | hit, spend | called by the API before the LLM |
| Matching agent `apps/agent/graph.py`, `extract`, `fanout`, `route`, `apps/api/gemini.py` | none between runs | extract, route, fanout, search, grade; `_post` with retries | search index, LLM |
| Search `apps/api/search.py`, `region.py` | keyword cache, shared by the threads; two tables of regions | search, browse, resolve a region, compare regions | OpenSearch, LLM |
| Collector `apps/collector/*` | the run in progress; the index | list, skip, detail, embed, resolve the region, index | data.go.kr, LLM, OpenSearch |
| Region data `eval/build_gazetteer.py`, `geocode_deps.py`, `scripts/backfill_region.py`, `geocode_region.py`, `eval/index_opensearch.py` | `dep_gazetteer.json`, `dep_geocoded.json`; the region of each document | build, look up, deploy; mend the index | map service, OpenSearch |
| Evaluation `eval/run_embed.py`, `run_boost.py`, `run_grade.py` | `emb_cache.json`, `grade_cache.json` | embed, judge, report ranks | LLM |
| Operations `apps/ops.py`, `scripts/*.sh` | none | alert, freshness, backup | cron |
| Front end `apps/web` | none of the service's | | API |

What is hard in it:

* The job works from a snapshot while users change the rows. Every statement of
  the store is atomic, a function of two statements is not, and no transaction
  spans two of them. A statement about a deleted report does nothing and says
  nothing.
* A mail cannot be taken back. Confirmation links outlive the address they were
  sent for.
* The job can die between any two statements; the next one starts from the table.
* The limits read their clocks outside the lock. Two dictionaries are shared by
  threads with no lock at all; one operation on them is atomic, two are not.
* A registration takes up to a minute of LLM calls, each of which may fail, be retried
  or return nothing; its client may leave at any point of the stream, and the
  process may be restarted.
* The collector pages through a listing that grows while it does so. It outlives a
  deployment with the tables of regions it has loaded, while two scripts write
  regions into the same index from a scroll read before.
* A place is named by fragments of an address: names of one letter exist in every
  city, and a metropolis shares its name with a city elsewhere.
* The experiments read a cache file, work for minutes and write the whole file back.
* The LLM answers with what it likes, about part of a list or not at all.

What makes each part correct is stated with its module below; the hazards are
listed line by line in `PROJECT.json`.

## Modules

`World` → `Store` → `Notifier` → `Rematch`, `Api` → `FindIt` is one model in
layers, each EXTENDing the one before, and `OptIn` an abstract specification it
implements. `Gemini` → `Browsing`, `Mailing` → `Registration` → `Serving` is another:
the API process while it waits for the LLM. `Places` → `Regions` is the third.
`Collector`, `Matching` and `Evaluation` share `Lists` and else stand alone, as
does `Limits`. `MC*` modules give constants to TLC, `*_proofs` hold theorems.

**World.** Clock (in days), index, budget of faults. An *item* is a found item
that the search ranks among the candidates of every report. `found[i]` is the
grade the LLM gives it (the report's text is fixed and the temperature is 0), and
items are numbered by search rank. `Judged(lost)` is the judged list when the LLM
leaves out `lost`: grade `NoGrade`, sorted last. Candidates are identified by one
id, where the code uses `atc_id` in some places and `atc_id_fd_sn` in others.

**Store.** One operator per statement of `store.py`: `Add`, `UpdateMatch`,
`SetMatches`, `SetGraded`, `SetPendingEmail`, `MarkVerified`, `UpdateAlerts`,
`SetStatus`, `SetWeakNotified`, `Confirm`, `SetDismissed`, `Delete`. `Write`
changes an existing row only, as an UPDATE does. A row has the columns rules
depend on. Helpers of the callers that only look at a row (`AlertLevel`, `Slim`,
`CanEmail`, `WatchUntilAfter`) are here too.

**Notifier.** `Notify` and `SendLinkTo` deliver or lose a mail. `mail` is the
result mail of the last step. The history variables are here, which no action reads:
`consent` (addresses whose owner has opened a link for a report), `raced` (addresses saved
for a report while a confirmation of it was being processed), `told` and `touched` (alerts
and reports since the owner's last change), `judged` (items judged for a report), `undone`
(reports whose reset of the judged ids the job may have written over, or whose record of
alerts the confirmation page has).

**Rematch.** `job.pc` stands between two statements of the job: `idle`, `purge`,
`rows` (the loop over the snapshot), then inside `_rematch_one` `record`
(`set_graded`), `promote`/`alert_strong`, or
`recall`/`mark`/`keep`/`alert_weak`. `job.rows` is the snapshot. `JobRowFails`
is the `except` of the loop, `JobCrash` the end of the container. One job runs at
a time: the collection takes hours once a day and ends with it.

**Api.** `req[t]` is what thread `t` is doing; a request is a first step with its
read (`Register`, `AlertsRead`, `VerifyFind`, ...) and one step for each
statement after it. The token check of the owner is not a step, since the column
never changes. `LinkRefused` is the mail limit of `_send_verification`.
`ApiRestart` loses the requests in flight.

**FindIt.** The composition: the clock and collector, the job, the threads,
interleaved statement by statement.

**OptIn.** What the owner of an address is promised, with no job, thread or old row
in it: a report opens without an address, a named address is unconfirmed until a
link of the report is opened, results go to confirmed addresses. Opening a link takes two
steps, `Follow` and `Confirm`, since `verify_email` is two statements: what is confirmed is
the address the report has at the second one, and an address that is named in between is
`exposed` to that. The abstract specification says so openly, and says that nothing else can
go wrong. FindIt takes it as `Abstract == INSTANCE OptIn WITH ...`, with `Contacts` (of a
row its address columns), `Links` (where each link went), `consent`, `Opening` (links whose
request is under way), `raced`, `Letter` (report and address of the last mail) and `born`;
`KeepsOptIn` is `Abstract!Spec`. A registration is an `Open`, the saving of a link an `Ask`,
`VerifyFind` a `Follow`, `VerifyMark` a `Confirm`, `VerifyReload` or a restart a `Finish`, a
result mail a `Send`, a deletion or purge a `Drop`; everything else stutters.

**Gemini.** `_post`: an attempt that fails with 429, 5xx or a broken connection is made again, up to
`MaxRetry` times, and a call ends with a reply or with none. `posts[t]` counts the
requests of a thread's current work.

**Browsing.** The keyword cache of `search.translate_keyword` operation by operation:
`needs_translation` in the endpoint, then the lookup, the call, the size test, the `clear`
and the entry. A translation that fails is not kept.

**Mailing.** The table of texts for a mail, from the cache or by a call, with the
fallbacks to English and Korean; the translation of what the mail says of the items;
the sending.

**Registration.** One registration with each LLM call as a step: extract, route, queries, search,
grade, pictures, store, the limit on confirmation mails, the link, the answer. In
a stream each step ends in `yielded`, where `Resume` goes on or finds the client gone. `told[r]`
is what the client heard last.

**Serving.** The composition: threads that register, browse and mail; `Restart` of the
process; `Disconnect` of a client; `SendResult` as the mail after a confirmation. Of
a report's row it keeps what an answer says about it; FindIt has the rest. Whether an address
has mails left for the day is a choice of `CountMail`: the counter is a window of
`Limiter.hit`, which Limits has, and registrations and settings outside this model count too.

**Limits.** `_guard_report` over `Limiter.hit` and `Limiter.spend`, for the
counters of one client and the shared budget, with a step for reading the clock
and one for the critical section. `day` is `_day`, -1 for the empty string.

**Collector.** One run after the other over two sources, the second one only when
the first has not raised. `Offset(Asked)` is what the server does with the page
number and the number of rows asked for. `run.got` is the listing as read, then
the work left, of which each batch is detailed (`Detail`) and written (`Index`).
Items stay in the window that is listed.

**Lists.** What the code does with lists in more than one part: `Among` (a comprehension with
an `if`), `Sorted` (the stable sort of Python: `Place` says which element comes k-th),
`First` (a slice), `Times` (how often a list has something).

**Matching.** One run of the graph: `BuildQueries`, then per query `Search`: the index
answers with any documents, `FromIndex` at most (100 in the code; the nearest ones, or those
with a word of the query when there is no embedding), and any scores; the region bonus is added
to these, and search returns the best `PerQuery` of them. A document that the index leaves
out gets no bonus and no rank, however good it would have been with it: the properties speak
of scores in the index's answers. Then `Merge` with the
insertion order of the dictionary (`MergeAll` for a whole answer), the cut to the candidates,
and `Grade` over every reply of the LLM: foreign ids, unusable scores, repetitions, gaps.
`Judged` is the list with the verdicts put in.

**Places.** Names of places as functions: `Core`, `Matches` (`region_matches`), `ParseRegion`,
`RegionFromAddress`, `Build` (the gazetteer), `Resolve` (`RegionResolver` and
`make_resolver`). A word of an address is a stem with an ending; `Letters` gives the length that
the code tests, and only names of `_SIDO` have the ending of a province; another word that ends in 도 (강화도) loses it
like 시, 군 and 구. An address is any list of
words: `police_stations_addr.csv` has some without a province (성남시 수정구), with its short name
(인천 남동구) and with one misspelt (경산남도 양산시). The order in which the code tries the names a place contains
(alphabet, length) is left open where it makes no difference to a property.

**Regions.** The desk (`BuildGazetteer`, `GeoStart`..`GeoEnd`), `Deploy`, the collector
(`Daily*`), `Seed` (`index_opensearch`), `Back*` (`backfill_region`) and `Fill*`
(`geocode_region`). `live` is what the service resolves with, `daily.tables` what a
running collector has loaded. The histories `seen` and `mended` are the documents the backfill has
scrolled and looked at, without those that somebody has written with other tables since; a
deployment empties both.

**Evaluation.** Three scripts with their copies of `emb_cache.json`. `paid` counts paid
vectors, `dropped` entries that a script has written over with an older copy. `NewOrder` is what
`run_grade` makes of the verdicts: the first k `Regraded`, the others as they were.

`Variant` operators are one-line bugs in the definition that follows them. They
are used by nothing in the model: `PROJECT.json` "mutants" lists which property
each one breaks when it takes the place of that definition.

## Runs

Passing:

| Run | Question | Properties |
|---|---|---|
| Addresses | Does a result mail ever go to an unconfirmed address? Two threads register, change the address, open old and new links and delete in any overlap, while the job runs and mails get lost. | `TypeOK`, `VerifiedIsConsented`, `ResultMailIsConsented`, `PendingLinkIsCurrent`, `LinkWorksOnce`, `KeepsOptIn` |
| Candidates | Do status, verdicts, alerts and settings of a report stay consistent under two requests at a time (the confirmation page is one of them), the job and a fault, and when is what the job does out of date? | `CandidateIsStrong`, `GradedWasJudged`, `NoRepeatedAlert`, `SettingsAreTheOwners`, `StaleIsTouched` |
| Lifecycle | Is every item judged, does every report leave the watch and then the database, through a fault and an extension? | `ItemsGetJudged`, `PastReportsExpire`, `OldReportsArePurged` |
| Outcomes | Without faults, does the owner get what was found, also after opting in late, confirming late or dismissing? | `StrongIsPromoted`, `WeakIsTold` |
| Serving | Does every registration come to a true answer, at a bounded cost, whatever fails and whoever leaves, and what do threads do to the caches they share? | `TypeOK`, `CacheMissesBounded`, `PostsBounded`, `AnswerIsTrue`, `FallbackIsNotKept`, `Answered` |
| Quota | How far can late threads push windows, refusals and budget? | `TypeOK`, `WindowKept`, `RefusedOnlyWhenFull`, `BudgetKept` |
| Collecting | Is every listed item indexed, and is little work done twice, through crashes, refused pages, failed details, rejected documents and a growing listing? | `CalmRunIndexesAll`, `PaidOnce`, `BatchesKept`, `ListedGetsIndexed` |
| Graph | Are the best items that the index answers judged, and does each keep its own verdict? | `DominantFirst`, `BestScoreCounts`, `VerdictsAreTheirOwn`, `JudgedFirst` |
| Regions | Does a backfill mend what it looks at, although its scroll is old and others write beside it? Is a miss of the map service real, and a bonus deserved? | `BackfillMends`, `MissIsReal`, `BonusIsDeserved` |
| Evaluating | What do overlapping experiments pay for twice, and does judging the first k leave the recall at k alone? | `PaidOnce`, `RecallAtKKept` |

`TypeOK` is a property of the runs of the three composed models; the other modules
have no states that a type could exclude and their properties would not.

Runs that find a disagreement between the code and what it says of itself
(`PROJECT.json` "findings" has the lines):

| Run | What happens |
|---|---|
| UnconfirmedMail | An old link is opened while a new address is saved; `verify_email` then verifies the row by its id, and with it the new address (`store.py:240`). The same happens between that statement and the reload of the row (`store.py:242`): the page mails the result to the address it then finds, verified or not (`main.py:405`). |
| ProvinceNames | The gazetteer enters the short names of provinces with `setdefault`, after those of the districts. Gwangju is a metropolis and a city of Gyeonggi: the city keeps the name, and a place called after the metropolis is resolved to the city. The file in `eval/data` has it so (광주 is 경기도 광주시; 제주 is 제주시, within the province of that name). |

### Bounds

* One report in the safety runs: no statement or step concerns two rows, and what
  is shared by reports (clock, index, job, threads) has all its states around one
  of them.
* Addresses: two addresses and two tokens, so that a link can be out of date; two threads and
  four requests, enough to register, change, verify and delete, and for two requests to find one
  link; one item, a strong one, since weak alerts go the same way from the same row (Candidates and
  Outcomes have them); one fault. Time stands still: a link that has expired is
  only one more that nobody gets past, and requests may stop at any time anyway.
* Candidates: two items so that a best one can be overtaken, grades on both sides
  of the strong threshold, and `KeepN` = 1 so that `slim_matches` drops something; two
  threads with one request each, among them the confirmation page of a link that the other
  one has saved; two addresses; one fault.
* Lifecycle: five ticks take a report with its period extended past its
  watch, its retention and the job after them. Weak grades only: strong items would
  end the watch. One fault, which may hit anywhere.
* Outcomes: one report of an owner with a confirmed address; two items, a weak and a strong
  grade; three requests, so that the owner may opt in, name an address and confirm it, or
  dismiss one item and then another, before or after the job has judged. No faults: a crash
  after `set_graded` refutes both properties (below, `rematch.py:83`).
* Quota: two threads, five requests, four ticks on three days, windows of two and
  three ticks, a budget of three units for requests of one and three. The properties are
  exact: with `Late` = 0 in their place TLC refutes `WindowKept` and
  `RefusedOnlyWhenFull` under the same bounds, and with `1 + Late` for `1 + 2 * Late` it
  refutes `BudgetKept`.
* Collecting: four items, three of them from one source with two rows to a page, so that
  a registration can shift an item over a page's end; batches of two; two faults.
* Graph: three documents, of which the index answers any, none or all; two per query and two
  candidates, so that both cuts of the code bite and the index's own does; up to three queries;
  replies of two entries, so that one can repeat another.
* Serving: two threads, two attempts a call, one fault (a failed attempt, a useless answer, an
  exception, a lost mail or a restart), room for one keyword, so that the limit bites. `MCLoads` has four loads: two registrations for
  the same address and language, one of them streamed; a photo with one browser;
  three browsers of three words; four result mails in three languages. A load of all at once adds
  no interleaving that two threads could not have in one of these: they share one
  cache with each kind of work.
* Regions: two versions of the police's list, the second with the boxes that make names
  ambiguous and an address with the short name of its province; three documents of three keepers that the gazetteer, a held name
  and the map service know, so that bulks of two are full once; one fault, one
  deployment, four starts, so that collector, deployment and both scripts overlap.
* Evaluating: four items, two of one find; two golden and two hard queries;
  requests of two; k of one and two; four starts, so that all three scripts overlap
  and one of them runs again.
* Clocks, requests and faults are bounded in the guards by `MaxTime` (`MaxClock`), `MaxRequests`
  (`Loads`), `MaxFaults`, `MaxDeploys`, `MaxJobs` and `MaxRuns`. Symmetry is used in safety runs only.

### Fairness

`FairSpec` of FindIt: `WF` of the job's steps (cron starts it every day and nothing
waits for a lock) and of each thread once its request has begun (a pool thread
runs its function to the end; every call has a timeout). Nothing is assumed of
users, of the clock, of the collector, or of failures other than that they are
finitely many. In Collector `WF` of a run's steps, for the same reason: registrations and
faults are never required. Time may stand still while the job runs again: the properties that
need time to pass have its passing as their premise.

In Serving `WF` of each thread's `Work`: a thread that has begun runs its function to the
end, every call has a timeout and `_post` gives up. Attempts that fail, clients that leave and
restarts are never required. `Answered` needs no more.

Deadlock is not checked in Graph, Serving, Regions, ProvinceNames and Evaluating: a run of the
graph ends, and so does each bounded load of work.

## Proofs

Every safety invariant and action property of the passing runs, and the refinement, is
proved for all values of the constants. The runs show these on small instances, together
with the liveness properties, which the prover cannot state. A proof module names the
assumptions it needs where the constants are declared (`...Assumption` in each
module); two hypotheses go further and are named below with what they cost (`WholePages`,
`KeysAreApart`). `NullIsNoRow`, `NullIsNoCandidate`, `NullIsNoLink` and `NullIsNoContact` say
that the NULL of a column is none of the values it stands beside.

`Lists_proofs` has what several parts need: least and last elements, induction over an
interval as a statement on sets (`UpTo`), counting (`Times`), lists filtered by `Among`, and that
`Sorted` takes every place once (`Places`, `SortedList`).

**`FindIt_proofs`**, part 1. `TypeCorrect`: `TypeOK` is inductive as it stands because it says
more than types: which step of the job has a report and candidates at hand, that the
snapshot has a row for whatever is still to do, and what a thread holds at each step
(`Holds`). Without these a step could read a column of a row that is not there. Lemmas on
the statements of `Store` come first; `JobType`, `ArriveType`, `ThreadType` and
`OtherType` are the four groups of actions.

Part 2, double opt-in, for any number of threads beside the job. `DoubleOptIn`,
`VerifiedRowsAreConsented` and `LinksWorkOnce` are not inductive: a mail is sent from
a row read long before, so what is in flight has to be bounded as well. That every mail goes
to a confirmed address is false with two threads, which is what the run UnconfirmedMail shows;
the theorems say what is true: the only addresses it can go wrong for are those in `raced`,
saved between the first and the last database step of a confirmation of that very report.
`ConsentInv` has

* that the pending link of a row has not been used (`RowConsented`);
* that every verified row of the job's snapshot has such an address, however old
  it is, and that the job is on its way to a mail only with a verified row
  (`JobConsented`; it holds because consent, once given, stays);
* that between the steps of a confirmation the row is gone, or has no address, the one the
  link was sent to, a confirmed one, or one of `raced` (`ReqConsented`, `AddressSettled`): here
  the other threads matter, and `OtherRequest` is the lemma about them.

`SameAddresses` says which statements leave addresses alone: all but three. The
three (`Add`, `SetPendingEmail`, `MarkVerified`) are the hard cases.
`LinksWorkOnce` follows from `RowConsented` as well: a request that comes later finds a link only
while it is pending, and an accepted one is pending nowhere.
`PendingLinksAreCurrent` has an invariant of its own (`PendingInv`). `ImplementsOptIn`:
`Spec => KeepsOptIn`. The initial states map to initial states, and each group of
actions to a step of OptIn or a stutter; the hard cases are `SendLink` during a
confirmation (`Ask` then exposes the address, `ConfirmingSeen`) and the last step of one of two
requests that have found the same link (`Finish` only when the other one has ended too).

Part 3, verdicts, settings and alerts, for any number of threads. `CandidatesAreStrong` and
`GradedWereJudged` follow from `VerdictInv`: the job's snapshot, however old, is of registered
reports with judged ids, what it is about to record has been judged, and it goes to
promote only with a strong best candidate. Of all statements two depend on their
callers (`set_graded`, `update_match`) and one on a fresh id (`add`); hence no order of
requests can matter. `SettingsStayTheOwners` looks at what each of the job's statements writes.
`StaleOnlyIfTouched` needs `SnapInv`: of a report that nobody has touched since, the
snapshot and the row agree on all that the job decides by. `AlertsAreNotRepeated` needs
`AlertInv`: what the job has told stands in the row as status or `weak_notified` before the mail
leaves, so that a crash in between loses a mail and repeats none. The confirmation page
writes `weak_notified` too, from a list it has read before: where that list lacks what the job has
recorded in between, an alert may be repeated (below, `store.py:266`), and `VerifyRecord`
empties `told` in exactly that case; every other page leaves the invariant as it is.

**`Limits_proofs`.** `WindowIsKept` and `RefusalsAreEarned` follow from `WindowsInv`: the queue
is a tail of all that was admitted (`QueueIsTail`), a window of which a stamp has been dropped
is over and leaves room for the threads that hold a reading in it (`DroppedIsOver`), and the
stamps that lie behind a younger one are no more than the late threads (`FewBehind`). `BudgetIsKept` follows from `DaysKept`, which says for
each day, before, during and after it, what can still be granted by the threads that hold
a charge for it or can set the counter back (`Charging`, `Returning`, `Share`). The attempt to prove
the bound `1 + Late` failed for a good reason, a run of TLC with a third day
refuted it, and `BudgetKept` has the right one.

**`Serving_proofs`.** `ServingTyped` and `AnswersAreTrue` are one induction (`AnswerInv`): what is
stored of a registration and what has been told fit the step it stands at (`RowFits`,
`StepFits`). `CacheMissesAreBounded` counts the threads between their lookup and their entry (`Missing`,
`Putting`), `PostsAreBounded` the calls that a registration has made at each step (`Made`),
`FallbackIsForgotten` says which table a thread has at hand in which language (`TablesInv`).

**`Regions_proofs`.** `MissesAreReal`: the desk's table is only written with all answers there.
`BackfillsMend` needs `MendInv`: of every document the backfill has scrolled, the index still has
what the scroll has shown, or what the service finds by now (`ScrollHolds`), although collectors
with the same tables write beside it; so the code may pass over a document on the word of an old
scroll (`backfill_region.py:46`), and what it passes over is right. Writers with other tables
leave the histories (`Disturb`). `BonusesAreDeserved` is about two things. `MatchIsDeserved` is
a lemma on `region_matches` alone: two words have the same core exactly when they name the
same place (`SameCore`), and a region has a province's core exactly when a word of it is the name of one
(`HasSidoIs`), so for *any* words the bonus is what `BonusIsDeserved` says. `PlacedInv` and
`InGazetteerTyped` add that the tables give lists of words, whatever the police's list and the map
service say; no order, spelling or completeness of an address is assumed.

**`Collector_proofs`.** `BatchesAreKept` compares what was paid for and is not indexed
(`Lost`) with the batch in hand (`InHand`). `ItemsArePaidOnce` needs to know which rows of the
listing the pages read so far have covered, and by how much registrations have shifted it since
(`PageInv`, `PaidInv`); `CalmRunsIndexAll` the same for a run that nothing disturbs (`CalmInv`,
`Covered`). Both have the hypothesis `WholePages`, that the maximum is a whole number of pages: otherwise
the last page has another offset and they are false (`collector/run.py:35`, below).
`daily_collect.sh` satisfies it with 1000 and 20000.

**`Matching_proofs`.** `GraphInv` says of a graph that has searched: every candidate stands for a score that some
answer of the index has given it, and what that answer scores higher is a candidate too (`Stands`); and
every document of an answer is a candidate with no less than the answer has given it, or as many candidates
as search returns are as good (`Covers`, `Full`). Of documents the index has not answered nothing is said
and nothing is needed. `DominantComesFirst` and `BestScoresCount`
follow; `VerdictsStayTheirOwn` and `JudgedComeFirst` rest on the sort being a stable permutation, which
is proved by counting, and on the last usable verdict of replies of any length.

**`Evaluation_proofs`.** `RecallIsKept`: the re-ranking permutes the first k places and moves nothing else
(`NewOrderIs`, `RankKept`), whatever verdicts other runs have left in the cache.
`VectorsArePaidOnce`: of its own keys a running script knows at least what the file has (`CachesInv`), and
`PaidInv` weighs what has been paid for a key, and what a script in progress may still pay (`Room`), against
the saves that dropped it and the requests that failed (`Tries`). `KeysAreApart` is the assumption that keys of
queries and of items never coincide; the code prefixes them (`q::`, `probe::`).

Only model-checked: liveness under fairness (`ItemsGetJudged`, `PastReportsExpire`,
`OldReportsArePurged`, `StrongIsPromoted`, `WeakIsTold`, `Answered`, `ListedGetsIndexed`), which
needs ENABLED and well-founded arguments over fair behaviours, and the two
runs that find a disagreement.

## Known disagreements without a run

Seen in trial runs of properties that are not kept, or by reading:

* `store.py:235`: two requests may find the same link before either clears it; both are
  accepted (`tests/test_watch.py:148` calls it single-use). "A link is accepted once" is refuted
  under the bounds of UnconfirmedMail; `LinkWorksOnce` is what is left of it.
* `store.py:285`: two dismissals at once read the same list; the second write drops the first.
* `store.py:266`: `mark_weak_notified` of the job and of the confirmation page may
  overwrite each other, and an alert is repeated. `NoRepeatedAlert` leaves out this case alone.
* `rematch.py:90`: a report confirmed after the snapshot is set back to candidate; a
  confirmation is lost. `StaleIsTouched` says that this happens only to reports the
  owner has acted on since.
* `rematch.py:84`: the job may promote an item dismissed after its snapshot.
* `rematch.py:83`: a crash after `set_graded` and before `update_match` loses the promotion, as the
  item counts as judged; and the judged ids of the snapshot are written over a reset that
  `update_alerts`, `verify_email` or `dismiss` has made since, so that an alert the owner has
  just asked for never comes, although `store.py:219` says that a reset makes the next job
  judge again. "Changed settings apply" is refuted under the bounds of Outcomes;
  `WeakIsTold` and `StrongIsPromoted` leave out the reports in `undone`.
* `main.py:399`: the confirmation page mails the stored candidates, with those the owner
  has dismissed.
* `rematch.py:92,97`: the job mails about a report deleted after its snapshot
  (`main.py:434` says that alerts end with it).
* `rematch.py:134` and `114`: a report extended after the job has read it may still
  be expired, or purged, by the old date.
* `main.py:349`: settings saved while the job expires the report store the new period and
  leave it expired.
* `main.py:353`: an expired link cannot be renewed by saving the same address again, as the
  message at `main.py:398` suggests.
* `rematch.py:23`: 0 days counts as not given, where the docstring promises a clamp.
* `limits.py:48`: a thread overtaken at midnight sets the counter back; a day can then be
  granted more than its budget (`limits.py:7`): each such thread can grant the budget
  twice more, once to the day that is over when it comes back to it, and once to the new
  one whose counter it has cleared. `BudgetKept` says so.
* `collector/run.py:35`: when `--max` is no multiple of `--rows`, the last page has another
  offset and some items are never listed (2 rows, 3 items, maximum 3: the third one).
  `daily_collect.sh` uses 1000 and 20000.
* `main.py:210,350`: a request refused by a later counter stays counted in the earlier
  ones; a refused mail leaves the new settings in place although the answer is 429.
* `collector/run.py:71`: an item whose detail call fails is indexed without details, and no
  later run asks again.
* `scripts/backfill_region.py`: regions that `geocode_region` has found are erased by the next
  backfill, because no table knows them.
* `eval/index_opensearch.py` writes documents without region and details over those of
  the collector.
* `region.py:93`: a city that shares its name with a metropolis and stands without its
  province gets the bonus of the metropolis and counts as a province of its own (`Homonym` in
  `BonusIsDeserved`). A region whose address has no province, or a misspelt one, gets
  the bonus of a district in every province; the docstring allows it.
* `eval/run_os.py:37` (and `run_embed.py`): min-max scaling gives 0 to a single hit and to equal hits.
* `eval/run_embed.py`: vectors are kept by `atcId`, of which some finds in the corpus have
  several parts; they share the vector of the one embedded last.
* `eval/run_grade.py:151`: a reply with malformed entries is cached, and every later run
  dies of it until the cache is deleted.

## Not modelled

Texts and layout of mails; the front end; endpoints that only read; prompts; the
regions the LLM derives from a place; headers and IP addresses; the schema
migration; shell scripts, cron lines and `ops.py`; BM25, weight sweeps, metrics and
`eval/datalab`, which compute and print. They hold no state that a rule above depends on.

The result mails of Serving come from a bounded list, those of FindIt from its rows; the two models share no
variable, because no rule relates the language of a mail to the life of its report.

## Plan

Written: World, Store, Notifier, Rematch, Api, FindIt, OptIn; Gemini, Browsing, Mailing,
Registration, Serving; Limits; Collector; Matching; Places, Regions; Evaluation; Lists; and the
theorems of all safety properties. Next:

1. An abstract life cycle of a report's status that FindIt implements, with `StaleIsTouched` as
   what it has to allow, and the proof that it does.
2. An abstract specification of an answer to a registration that Serving implements.
3. Two ids of an item in World (`atc_id`, `atc_id_fd_sn`), to state what a dismissal of one part of
   a find does to the others.
