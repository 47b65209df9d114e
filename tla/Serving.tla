-------------------------------- MODULE Serving --------------------------------
(***************************************************************************)
(* The API process while it waits for the LLM: its threads register        *)
(* reports and browse found items, and share what the process keeps in     *)
(* memory: the keyword cache and the translated mail texts.                *)
(***************************************************************************)
EXTENDS Browsing, Registration

CONSTANT Loads   \* bound: the requests that are made

Load == [browses : Nat, registers : SUBSET Requests, results : Seq(Langs)]

ASSUME ServingAssumption == Loads \subseteq Load

VARIABLE load    \* the requests that are still to come

vars == <<geminiVars, browsingVars, mailingVars, registrationVars, load>>

TypeOK == /\ GeminiTypeOK /\ BrowsingTypeOK /\ MailingTypeOK /\ RegistrationTypeOK
          /\ load \in Load

Init == GeminiInit /\ BrowsingInit /\ MailingInit /\ RegistrationInit /\ load \in Loads

Free(t) == LookAt(t, "idle") /\ RegAt(t, "idle") /\ MailAt(t, "none")

\* An attempt fails and is made again.
TryAgain(t) == /\ RegCalls(t) \/ BrowseCalls(t) \/ MailCalls(t)
               /\ Retry(t)
               /\ UNCHANGED <<browsingVars, mailingVars, registrationVars, load>>

\* A new process: the memory of the old one and its connections are lost.
Restart == /\ Fault
           /\ tries' = [t \in Threads |-> 0] /\ posts' = [t \in Threads |-> 0]
           /\ cache' = {} /\ look' = [t \in Threads |-> LookIdle] /\ late' = 0 /\ clears' = 0
           /\ ui' = {} /\ mail' = [t \in Threads |-> NoLetter]
           /\ reg' = [t \in Threads |-> RegIdle]
           /\ gone' = gone \cup {reg[t].r : t \in {u \in Threads : ~RegAt(u, "idle")}}
           /\ UNCHANGED <<stored, told, load>>

\* POST /email/verify has confirmed an address whose report has results (modules Api, FindIt):
\* they are mailed in the language of the report, whether or not the mail arrives.
SendResult(t) == /\ RegAt(t, "idle") /\ Post(t) /\ Rest(t)
                 /\ UNCHANGED faults \/ Fault
                 /\ UNCHANGED ui

Work(t) == \/ RegisterStep(t) /\ UNCHANGED <<browsingVars, load>>
           \/ BrowseStep(t) /\ UNCHANGED <<mailingVars, registrationVars, load>>
           \/ /\ MailStep(t) \/ SendResult(t)
              /\ UNCHANGED <<browsingVars, registrationVars, load>>

Arrive(t) ==
    /\ Free(t)
    /\ \/ \E r \in load.registers :
             /\ RegisterBegin(t, r)
             /\ load' = [load EXCEPT !.registers = @ \ {r}]
             /\ UNCHANGED browsingVars
       \/ /\ load.browses > 0 /\ load' = [load EXCEPT !.browses = @ - 1]
          /\ \E w \in Words : BrowseBegin(t, w)
          /\ UNCHANGED <<mailingVars, registrationVars>>
       \/ /\ load.results # <<>> /\ load' = [load EXCEPT !.results = Tail(@)]
          /\ mail' = [mail EXCEPT ![t] = NewLetter("alert", Head(load.results))]
          /\ UNCHANGED <<geminiVars, browsingVars, ui, registrationVars>>

Next == \/ Restart
        \/ \E t \in Threads : Arrive(t) \/ Work(t) \/ TryAgain(t)
                              \/ (Breaks(t) /\ UNCHANGED <<browsingVars, load>>)
        \/ \E r \in Requests : Disconnect(r) /\ UNCHANGED <<browsingVars, load>>

Spec == Init /\ [][Next]_vars

\* A thread that has something to do goes on with it.
FairSpec == Spec /\ \A t \in Threads : WF_vars(Work(t))

-------------------------------------------------------------------------------
Late == Cardinality(Threads) - 1

\* What the endpoint saw in the cache may be gone when browse looks: an LLM call nobody was
\* charged for, or a failed lookup.  That happens only when the cache was emptied meanwhile, to
\* each other thread at most once; and threads that find room at the same time overfill it by
\* a word each (needs_translation, translate_keyword).
CacheMissesBounded == late <= clears * Late /\ Cardinality(cache) <= CacheMax + Late

\* The calls a registration makes when nothing fails: extract, route, queries, grade, pictures
\* and one table of the mail.
Calls(rg) == 4 + MaxQueries + IF Form[rg.r].photo THEN TopPhotos ELSE 0

\* What a registration costs the LLM is bounded: each request it sends beyond its calls goes
\* back to a failure (_post, _visual_compare, _table).
PostsBounded == \A t \in Threads : ~RegAt(t, "idle") => posts[t] <= Calls(reg[t]) + faults

\* The answer is true of the database: a result is stored, with the address it calls pending;
\* what was no report is not; and a stored report whose client has heard nothing lost that
\* client (_stream_match, _persist_and_respond).
AnswerIsTrue ==
    \A r \in Requests :
        /\ told[r] # None /\ told[r].kind = "result" =>
              stored[r] # None /\ told[r].pending = (stored[r].pending # None)
        /\ told[r] # None /\ told[r].kind = "invalid" => stored[r] = None
        /\ stored[r] # None /\ told[r] = None => r \in gone \/ \E t \in Threads : reg[t].r = r

\* A mail is in another language than its reader's only if the LLM has failed for that very
\* mail: a fallback is never kept for later ones (_table, _UI_CACHE).
FallbackIsNotKept ==
    \A t \in Threads : MailAt(t, "send") => mail[t].try = mail[t].lang \/ mail[t].hurt

\* A registration comes to an answer, unless its client leaves it, whatever fails on the way.
Answered ==
    \A r \in Requests :
        (\E t \in Threads : reg[t].r = r) ~> (told[r] # None \/ r \in gone)
===============================================================================
