----------------------------- MODULE Registration -----------------------------
(***************************************************************************)
(* One registration from the request to its answer: POST /lost-items, the  *)
(* photo variant and the event streams of both (apps/api/main.py), with    *)
(* the steps of apps/agent/graph.py in between.  In a stream every step    *)
(* ends with an event; there the server may find that the client has gone, *)
(* and the generator is closed.  What happens between two events happens   *)
(* whether the client is still there or not.                               *)
(*                                                                         *)
(* Of the judged list only its length matters here (module Matching has    *)
(* the rest), and whether its best item is strong.                         *)
(***************************************************************************)
EXTENDS Mailing, Sequences

CONSTANTS
    Requests,      \* requests, and the ids of the reports they may become
    Form,          \* Form[r]: the endpoint, and the address and language that are given
    Emails,        \* addresses
    MaxQueries,    \* queries that build_queries makes at most
    MaxMatches,    \* bound: candidates
    TopPhotos,     \* top of _visual_compare
    None

Told == [kind : {"result", "invalid", "error"}, pending : BOOLEAN]

Stored == [status : {"open", "candidate"}, pending : Emails \cup {None}]

ASSUME RegistrationAssumption ==
    /\ MaxQueries \in Nat \ {0} /\ MaxMatches \in Nat /\ TopPhotos \in Nat
    /\ None \notin Emails \cup Requests \cup Told \cup Stored
    /\ Form \in [Requests -> [photo : BOOLEAN, stream : BOOLEAN,
                              email : Emails \cup {None}, lang : Langs]]

VARIABLES
    reg,           \* the registration each thread is working on
    stored,        \* stored[r]: the row of report r as far as it matters here
    told,          \* told[r]: what the client of r was told last
    gone           \* requests whose client has disconnected

registrationVars == <<reg, stored, told, gone>>

RegPcs == {"idle", "extract", "route", "fanout", "search", "find", "grade", "visual", "compare",
           "yielded", "store", "limit", "pending", "mail", "answer"}

Reg == [pc      : RegPcs,
        r       : Requests \cup {None},
        report  : BOOLEAN,             \* extracted.is_lost_report
        place   : BOOLEAN,             \* extracted.place_context is not empty
        queries : 0..MaxQueries,       \* queries still to be searched
        matches : 0..MaxMatches,       \* length of the list
        strong  : BOOLEAN,             \* its best verdict is a strong one
        at      : 0..MaxMatches,       \* matches that _visual_compare has passed
        checked : 0..TopPhotos,        \* pictures compared
        then    : RegPcs,              \* the step after the event
        pending : BOOLEAN]             \* email_pending

RegIdle == [pc |-> "idle", r |-> None, report |-> TRUE, place |-> FALSE, queries |-> 0, matches |-> 0,
            strong |-> FALSE, at |-> 0, checked |-> 0, then |-> "idle", pending |-> FALSE]

RegistrationTypeOK ==
    /\ reg \in [Threads -> Reg]
    /\ \A t \in Threads : reg[t].pc # "idle" => reg[t].r # None
    /\ stored \in [Requests -> Stored \cup {None}]
    /\ told \in [Requests -> Told \cup {None}]
    /\ gone \subseteq Requests

RegistrationInit ==
    /\ reg = [t \in Threads |-> RegIdle]
    /\ stored = [r \in Requests |-> None] /\ told = [r \in Requests |-> None]
    /\ gone = {}

RegAt(t, pc) == reg[t].pc = pc

Go(t, rg) == reg' = [reg EXCEPT ![t] = rg]

\* The step has ended with rg: in a stream an event goes out before the next one.
Emit(t, rg, next) ==
    Go(t, IF Form[rg.r].stream THEN [rg EXCEPT !.pc = "yielded", !.then = next]
          ELSE [rg EXCEPT !.pc = next])

Photo(t) == Form[reg[t].r].photo

Address(t) == Form[reg[t].r].email

lasting == <<stored, told, gone>>

Fresh(r) == r \notin gone /\ told[r] = None /\ \A t \in Threads : reg[t].r # r

(***************************************************************************)
(* The agent                                                               *)
(***************************************************************************)
\* The request has passed _guard_report (module Limits).
RegisterBegin(t, r) ==
    /\ RegAt(t, "idle") /\ Fresh(r)
    /\ Go(t, [RegIdle EXCEPT !.pc = "extract", !.r = r])
    /\ UNCHANGED <<geminiVars, lasting, mailingVars>>

\* extract: the text itself is searched for when the LLM has no answer.
ExtractedDegraded(rg) == [rg EXCEPT !.queries = IF Form[rg.r].photo THEN 0 ELSE 1]

\* Variant: nothing is said about a text that is no report.
ExtractedSilent(t, rg) == IF rg.report THEN Emit(t, rg, "route") ELSE Go(t, RegIdle)

\* What is left of a text that is no report is an answer that says so; for a photo the LLM
\* is not asked whether it shows one.
Extracted(t, rg) ==
    IF rg.report THEN Emit(t, rg, "route") ELSE Emit(t, rg, "answer")

Extract(t) ==
    /\ RegAt(t, "extract")
    /\ \/ /\ Reply(t)
          /\ \E report, place \in BOOLEAN, n \in 0..MaxQueries :
                Extracted(t, [reg[t] EXCEPT !.report = report \/ Photo(t),
                                            !.place = place, !.queries = n])
       \/ /\ NoReply(t)
          /\ Extracted(t, ExtractedDegraded(reg[t]))
    /\ UNCHANGED <<lasting, mailingVars>>

RouteCalls(t) == RegAt(t, "route") /\ reg[t].place

\* n_route: the LLM is asked only about a place; without an answer there are no regions.
Route(t) ==
    /\ RegAt(t, "route")
    /\ IF reg[t].place THEN Reply(t) \/ NoReply(t) ELSE UNCHANGED geminiVars
    /\ Emit(t, [reg[t] EXCEPT !.place = FALSE], "fanout")
    /\ UNCHANGED <<lasting, mailingVars>>

Fanout(t) ==
    /\ RegAt(t, "fanout")
    /\ Emit(t, reg[t], "search")
    /\ UNCHANGED <<geminiVars, lasting, mailingVars>>

SearchCalls(t) == RegAt(t, "search") /\ reg[t].queries > 0

\* search: a query is embedded, or searched for by its words if it cannot be.
Embed(t) ==
    /\ SearchCalls(t)
    /\ Reply(t) \/ NoReply(t)
    /\ Go(t, [reg[t] EXCEPT !.pc = "find"])
    /\ UNCHANGED <<lasting, mailingVars>>

Find(t) ==
    /\ RegAt(t, "find")
    /\ \E n \in {reg[t].matches, MaxMatches} :
          Go(t, [reg[t] EXCEPT !.pc = "search", !.queries = @ - 1, !.matches = n])
    /\ UNCHANGED <<geminiVars, lasting, mailingVars>>

SearchEnds(t) ==
    /\ RegAt(t, "search") /\ reg[t].queries = 0
    /\ Emit(t, reg[t], "grade")
    /\ UNCHANGED <<geminiVars, lasting, mailingVars>>

GradeCalls(t) == RegAt(t, "grade") /\ reg[t].matches > 0

\* n_grade: nothing to judge, verdicts, or none.
Grade(t) ==
    /\ RegAt(t, "grade")
    /\ \E strong \in BOOLEAN :
          /\ IF ~GradeCalls(t) THEN ~strong /\ UNCHANGED geminiVars
             ELSE Reply(t) \/ (~strong /\ NoReply(t))
          /\ Emit(t, [reg[t] EXCEPT !.strong = strong],
                  IF Photo(t) THEN "visual" ELSE "store")
    /\ UNCHANGED <<lasting, mailingVars>>

\* Variant: the whole list is compared.
PhotosLeftAll(rg) == rg.at < rg.matches

\* Variant: the end of the list is not looked for.
PhotosLeftBeyond(rg) == rg.checked < TopPhotos

\* _visual_compare: matches left, and pictures left to compare.
PhotosLeft(rg) == rg.at < rg.matches /\ rg.checked < TopPhotos

\* The next match has a picture that can be fetched, or is passed over.
Fetch(t) ==
    /\ RegAt(t, "visual") /\ PhotosLeft(reg[t])
    /\ \/ Go(t, [reg[t] EXCEPT !.pc = "compare", !.at = @ + 1])
       \/ Go(t, [reg[t] EXCEPT !.at = @ + 1])
    /\ UNCHANGED <<geminiVars, lasting, mailingVars>>

\* compare_images: a picture counts as compared, with or without an answer.
Compare(t) ==
    /\ RegAt(t, "compare")
    /\ Reply(t) \/ NoReply(t)
    /\ Go(t, [reg[t] EXCEPT !.pc = "visual",
                            !.checked = IF @ < TopPhotos THEN @ + 1 ELSE @])
    /\ UNCHANGED <<lasting, mailingVars>>

VisualEnds(t) ==
    /\ RegAt(t, "visual") /\ ~PhotosLeft(reg[t])
    /\ Emit(t, reg[t], "store")
    /\ UNCHANGED <<geminiVars, lasting, mailingVars>>

\* The generator is resumed for the next event, or closed.
Resume(t) ==
    /\ RegAt(t, "yielded")
    /\ Go(t, IF reg[t].r \in gone THEN RegIdle
             ELSE [reg[t] EXCEPT !.pc = reg[t].then, !.then = "idle"])
    /\ IF reg[t].r \in gone THEN Rest(t) /\ UNCHANGED faults ELSE UNCHANGED geminiVars
    /\ UNCHANGED <<lasting, mailingVars>>

(***************************************************************************)
(* _persist_and_respond                                                    *)
(***************************************************************************)
\* The report is stored without its address.
Store(t) ==
    /\ RegAt(t, "store")
    /\ stored' = [stored EXCEPT ![reg[t].r] =
                     [status |-> IF reg[t].strong THEN "candidate" ELSE "open",
                      pending |-> None]]
    /\ Go(t, [RegIdle EXCEPT !.pc = IF Address(t) = None THEN "answer" ELSE "limit",
                             !.r = reg[t].r])
    /\ UNCHANGED <<geminiVars, mailingVars, told, gone>>

\* Variant: the answer promises the mail before the limit is looked at.
CountMailPromised(t) ==
    /\ RegAt(t, "limit")
    /\ \/ Go(t, [reg[t] EXCEPT !.pc = "pending"])
       \/ Go(t, [reg[t] EXCEPT !.pc = "answer", !.pending = TRUE])
    /\ UNCHANGED <<geminiVars, lasting, mailingVars>>

\* _send_verification: the address has mails left for the day (module Limits; reports and
\* settings of others count too), or the answer goes out without one.
CountMail(t) ==
    /\ RegAt(t, "limit")
    /\ \/ Go(t, [reg[t] EXCEPT !.pc = "pending"])
       \/ Go(t, [reg[t] EXCEPT !.pc = "answer"])
    /\ UNCHANGED <<geminiVars, lasting, mailingVars>>

SetPending(t) ==
    /\ RegAt(t, "pending")
    /\ stored' = [stored EXCEPT ![reg[t].r].pending = Address(t)]
    /\ mail' = [mail EXCEPT ![t] = NewLetter("verify", Form[reg[t].r].lang)]
    /\ Go(t, [reg[t] EXCEPT !.pc = "mail"])
    /\ UNCHANGED <<geminiVars, ui, told, gone>>

\* The confirmation mail goes out, or is lost: the answer is the same.
SendLink(t) ==
    /\ RegAt(t, "mail") /\ Post(t)
    /\ UNCHANGED faults \/ Fault
    /\ Go(t, [reg[t] EXCEPT !.pc = "answer", !.pending = TRUE])
    /\ UNCHANGED <<tries, posts, ui, stored, told, gone>>

\* The last event, or the response: it carries the only copy of the management token.
Answer(t) ==
    /\ RegAt(t, "answer")
    /\ LET r == reg[t].r
       IN  told' = IF r \in gone THEN told
                   ELSE [told EXCEPT ![r] = [kind |-> IF reg[t].report THEN "result" ELSE "invalid",
                                             pending |-> reg[t].pending]]
    /\ Go(t, RegIdle) /\ Rest(t)
    /\ UNCHANGED <<faults, mailingVars, stored, gone>>

(***************************************************************************)
(* Failures                                                                *)
(***************************************************************************)
\* A step raises: the search engine, the database, an answer no one expected.  The error is
\* the last event, or an answer with status 500.
Breaks(t) ==
    /\ reg[t].pc \notin {"idle", "yielded"}
    /\ Fault /\ Rest(t)
    /\ LET r == reg[t].r
       IN  told' = IF r \in gone THEN told
                   ELSE [told EXCEPT ![r] = [kind |-> "error", pending |-> FALSE]]
    /\ Go(t, RegIdle)
    /\ mail' = [mail EXCEPT ![t] = NoLetter]
    /\ UNCHANGED <<ui, stored, gone>>

Disconnect(r) ==
    /\ r \notin gone /\ \E t \in Threads : reg[t].r = r
    /\ gone' = gone \cup {r}
    /\ UNCHANGED <<geminiVars, mailingVars, reg, stored, told>>

RegCalls(t) == \/ RegAt(t, "extract") \/ RouteCalls(t) \/ SearchCalls(t) \/ GradeCalls(t)
               \/ RegAt(t, "compare")

RegisterStep(t) ==
    \/ Extract(t) \/ Route(t) \/ Fanout(t) \/ Embed(t) \/ Find(t) \/ SearchEnds(t)
    \/ Grade(t) \/ Fetch(t) \/ Compare(t) \/ VisualEnds(t) \/ Resume(t)
    \/ Store(t) \/ CountMail(t) \/ SetPending(t) \/ SendLink(t) \/ Answer(t)
==============================================================================
