-------------------------------- MODULE FindIt --------------------------------
(***************************************************************************)
(* The life of the reports of FindIt: the requests of apps/api/main.py and *)
(* the job of apps/agent/rematch.py over one table, with the clock and the *)
(* collector running besides them.                                         *)
(***************************************************************************)
EXTENDS Rematch, Api

vars == <<worldVars, storeVars, mailVars, historyVars, job, apiVars>>

Init == /\ WorldInit /\ StoreInit /\ NotifierInit /\ RematchInit /\ ApiInit

WorldStep == /\ \/ Tick
                \/ \E i \in Items, g \in Grades : Collect(i, g)
             /\ Quiet
             /\ UNCHANGED <<storeVars, issued, historyVars, job, apiVars>>

Next == \/ WorldStep
        \/ (JobStep \/ JobFailure) /\ UNCHANGED apiVars
        \/ (ApiStep \/ ApiRestart) /\ UNCHANGED job

Spec == Init /\ [][Next]_vars

(***************************************************************************)
(* Cron starts the job every day and it runs to its end; the thread pool   *)
(* runs every request to its end.  Nothing is assumed about users, about   *)
(* the clock or about the collector, and faults are bounded by MaxFaults.  *)
(***************************************************************************)
Fairness == /\ WF_vars(JobStep /\ UNCHANGED apiVars)
            /\ \A t \in Threads : WF_vars(ThreadStep(t) /\ UNCHANGED job)

FairSpec == Spec /\ Fairness

TypeOK == /\ WorldTypeOK /\ StoreTypeOK /\ NotifierTypeOK /\ RematchTypeOK /\ ApiTypeOK

-------------------------------------------------------------------------------
(***************************************************************************)
(* Addresses: double opt-in.                                               *)
(***************************************************************************)
\* The addresses that may stand as confirmed for a report: those whose owner has opened a
\* link for it, and those that were saved while a confirmation of it was being processed.
Confirmable(r) == consent[r] \cup raced[r]

\* An address stands as verified only when its owner has confirmed it for that report, or
\* when it was saved between the two statements of verify_email, whatever the requests of
\* other threads do (store.verify_email, set_pending_email).
VerifiedIsConsented ==
    \A r \in Reports : db[r] # None /\ CanEmail(db[r]) => db[r].email \in Confirmable(r)

\* A result mail, of the job or of the confirmation page, goes only to such an address,
\* however old the row is that the sender holds and however many requests run at once.
ResultMailIsConsented == mail # None => mail.to \in Confirmable(mail.r)

\* What rematch.can_email promises: alerts go to confirmed addresses alone.
MailOnlyIfConfirmed == mail # None => mail.to \in consent[mail.r]

\* The pending link of a report is the one that was sent to its current address.
PendingLinkIsCurrent ==
    \A r \in Reports : db[r] # None /\ db[r].verify_hash # None =>
        /\ issued[db[r].verify_hash].r = r
        /\ issued[db[r].verify_hash].email = db[r].email
        /\ ~db[r].email_verified

\* A confirmation link that has been accepted is dead for every request that comes later,
\* also when the owner asks for the same address again; of two requests that have found it
\* before either marks its report as verified, both go on (store.verify_email).
LinkWorksOnce ==
    [][/\ \A k \in Tokens : issued[k] # None /\ issued[k].accepted => issued'[k] = issued[k]
       /\ \A t \in Threads : req[t].pc = "idle" /\ req'[t].pc = "verify_mark" =>
              ~issued[req'[t].token].accepted]_vars

\* What OptIn sees of the service: of a row its address columns, of a link where it went.
ContactOf(row) == IF row = None THEN None
                  ELSE [email |-> row.email, verified |-> row.email_verified,
                        link |-> row.verify_hash]
LinkOf(link) == IF link = None THEN None ELSE [r |-> link.r, email |-> link.email]

Contacts == [r \in Reports |-> ContactOf(db[r])]
Links    == [k \in Tokens |-> LinkOf(issued[k])]
Opening  == {req[t].token : t \in {u \in Threads : req[u].pc \in {"verify_mark", "verify_reload"}}}
Letter   == IF mail = None THEN None ELSE <<mail.r, mail.to>>

ASSUME NullIsNoContact ==
    /\ None \notin [email : Emails \cup {None}, verified : BOOLEAN, link : Tokens \cup {None}]
    /\ None \notin [r : Reports, email : Emails]

Abstract == INSTANCE OptIn WITH contact <- Contacts, links <- Links, known <- consent,
                                opening <- Opening, exposed <- raced,
                                letter <- Letter, met <- born

\* The requests of all threads, the job with its old rows, crashes and lost mails together
\* keep the double opt-in that OptIn states.
KeepsOptIn == Abstract!Spec

-------------------------------------------------------------------------------
(***************************************************************************)
(* Candidates and status.                                                  *)
(***************************************************************************)
\* A report is shown as candidate only with a best match that reached the strong threshold,
\* whoever wrote its status last.
CandidateIsStrong ==
    \A r \in Reports : db[r] # None /\ db[r].status = "candidate" =>
        db[r].best_match # None /\ db[r].best_match.grade >= StrongAt

\* An item counts as judged only if the LLM really gave a verdict on it for this report;
\* otherwise an outage would make the job skip it for ever.
GradedWasJudged ==
    \A r \in Reports : db[r] # None => db[r].graded_ids \subseteq judged[r]

\* The job never sends the same alert twice for a report its owner has not changed meanwhile,
\* even when it crashes between its writes and its mails and starts again, and although the
\* confirmation page writes weak_notified too: unless the page writes a list back that lacks
\* what the job has recorded since the page read it (Api!VerifyRecord).
NoRepeatedAlert ==
    [][mail' # None /\ mail'.by = "job" =>
           <<mail'.item, mail'.kind>> \notin told[mail'.r]]_vars

\* The columns the owner sets change only when a request writes them: the job, which works on
\* rows that may be hours old, never writes an old value back.
SettingsAreTheOwners ==
    [][(\E r \in Reports :
            /\ db[r] # None /\ db'[r] # None
            /\ \/ db'[r].email # db[r].email
               \/ db'[r].email_verified # db[r].email_verified
               \/ db'[r].notify_weak # db[r].notify_weak
               \/ db'[r].watch_until # db[r].watch_until
               \/ db'[r].dismissed # db[r].dismissed)
       => job' = job]_vars

\* The job works on rows that may be hours old, and what it does to a report is out of date
\* only if the owner has changed that very report since the snapshot: otherwise it takes no
\* report but an open one out of the watch, and mails the owner at the confirmed address
\* about an item that was not dismissed.
StaleIsTouched ==
    [][job' # job =>
           \A r \in Reports \ touched :
               /\ db[r] # None /\ db'[r] # None /\ db'[r].status # db[r].status =>
                     db[r].status = "open"
               /\ mail' # None /\ mail'.r = r =>
                     /\ db[r] # None /\ CanEmail(db[r]) /\ db[r].email = mail'.to
                     /\ mail'.item \notin db[r].dismissed]_vars

-------------------------------------------------------------------------------
(***************************************************************************)
(* What must happen.                                                       *)
(***************************************************************************)
Open(r) == db[r] # None /\ db[r].status = "open"

\* An item in the index is judged for every report that stays open.
ItemsGetJudged ==
    \A r \in Reports, i \in Items :
        (Open(r) /\ found[i] # None) ~> (~Open(r) \/ i \in judged[r])

\* A report past its watch period does not stay open.
PastReportsExpire ==
    \A r \in Reports : (Open(r) /\ db[r].watch_until < now) ~>
                          (~Open(r) \/ db[r].watch_until >= now)

\* A report past its retention does not stay in the database (the retention promised in
\* the privacy policy).
OldReportsArePurged ==
    \A r \in Reports :
        (db[r] # None /\ db[r].watch_until + Retention < now) ~>
        (db[r] = None \/ db[r].watch_until + Retention >= now)

\* An open report with a strong item in the index, not dismissed, becomes a candidate or is
\* closed, also after a dismissal, unless the job has written the judged ids of its snapshot
\* over the reset that the dismissal made.
StrongIsPromoted ==
    \A r \in Reports, i \in Items :
        (Open(r) /\ found[i] # None /\ found[i] >= StrongAt /\ i \notin db[r].dismissed) ~>
        (~Open(r) \/ i \in db[r].dismissed \/ r \in undone)

\* An opted-in owner with a confirmed address hears of the best item in the index when it is
\* a weak one, also when the job judged that item before the owner opted in or confirmed the
\* address; again unless the job has written over the reset that this made, or the
\* confirmation page over what the job has recorded (store.set_graded, set_weak_notified).
BestIsWeak(r, i) == /\ i \in Listed \ db[r].dismissed
                    /\ Top(Undismissed(Judged({}), db[r])).item = i
                    /\ AlertLevel(found[i], TRUE) = "weak"

WeakAwaited(r, i) == Open(r) /\ db[r].notify_weak /\ CanEmail(db[r]) /\ BestIsWeak(r, i)

WeakIsTold ==
    \A r \in Reports, i \in Items :
        WeakAwaited(r, i) ~> (~WeakAwaited(r, i) \/ i \in db[r].weak_notified \/ r \in undone)
===============================================================================
