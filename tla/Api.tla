--------------------------------- MODULE Api ---------------------------------
(***************************************************************************)
(* apps/api/main.py: the requests that create, change and delete reports.  *)
(* The endpoints are synchronous functions that the server runs on a       *)
(* thread pool, so two of them, and the rematch job, interleave between    *)
(* any two database statements.  A thread carries the row it has read      *)
(* from one step to the next.                                              *)
(***************************************************************************)
EXTENDS Notifier

CONSTANTS
    Threads,       \* threads of the pool
    Requests,      \* the kinds of request the users of an instance make
    DaysAsked,     \* values of watch_days users send
    MaxRequests    \* bound: how many requests are made

AllRequests == {"register", "alerts", "verify", "confirm", "dismiss", "delete"}

ASSUME ApiAssumption == /\ Requests \subseteq AllRequests
                        /\ DaysAsked \subseteq Int /\ None \notin DaysAsked
                        /\ MaxRequests \in Nat

VARIABLES
    req,           \* what each thread is doing
    requests       \* how many requests have been made

apiVars == <<req, requests>>

ReqPcs == {"idle", "link", "alerts_save", "alerts_clear", "confirm_write", "dismiss_write",
           "verify_mark", "verify_reload", "verify_notify", "verify_recall", "verify_record"}

Req == [pc    : ReqPcs,
        r     : Reports \cup {None},
        row   : Row \cup {None},        \* the row as last read
        email : Emails \cup {None},     \* arguments of the request
        weak  : BOOLEAN,
        days  : DaysAsked \cup {None},
        item  : Items \cup {None},
        token : Tokens \cup {None},
        sent  : SUBSET Items]           \* the list that is read before it is written

ReqIdle == [pc |-> "idle", r |-> None, row |-> None, email |-> None, weak |-> FALSE,
            days |-> None, item |-> None, token |-> None, sent |-> {}]

\* The stored candidates with the item, the list before best_match.
Stored(row, item) ==
    LET listed == {m \in row.matches : m.item = item}
    IN  IF listed # {} THEN listed
        ELSE {m \in {row.best_match} \ {None} : m.item = item}

\* The level of the stored candidates, for a report that is still looking.
ResultLevel(row) ==
    IF row.status \in {"open", "candidate"} THEN LevelOf(row.matches, row.notify_weak) ELSE None

\* What a thread at a given step holds.
Holds(rq) ==
    /\ rq.pc # "idle" => rq.r # None
    /\ rq.pc = "link" => rq.email # None
    /\ rq.pc = "alerts_save" => rq.row # None /\ rq.days # None
    /\ rq.pc = "confirm_write" => rq.row # None /\ Stored(rq.row, rq.item) # {}
    /\ rq.pc \in {"verify_mark", "verify_reload"} => rq.token # None /\ issued[rq.token] # None
    /\ rq.pc = "verify_notify" => rq.row # None /\ ResultLevel(rq.row) # None
    /\ rq.pc \in {"dismiss_write", "verify_recall", "verify_record"} => rq.item # None

ApiTypeOK == /\ req \in [Threads -> Req]
             /\ requests \in 0..MaxRequests
             /\ \A t \in Threads : Holds(req[t])

ApiInit == req = [t \in Threads |-> ReqIdle] /\ requests = 0

\* A request begins on an idle thread, with its first read of the database.
Begin(t, kind, rq) ==
    /\ req[t].pc = "idle" /\ kind \in Requests
    /\ requests < MaxRequests /\ requests' = requests + 1
    /\ req' = [req EXCEPT ![t] = rq]

At(t, pc) == req[t].pc = pc /\ UNCHANGED requests

Continue(t, rq) == req' = [req EXCEPT ![t] = rq]

Done(t) == Continue(t, ReqIdle)

\* The owner of report r has changed it.
Touch(r) == touched' = touched \cup {r} /\ UNCHANGED <<told, undone>>

\* The owner has changed what alerts depend on, and then they may be repeated.
Forget(r) == /\ told' = [told EXCEPT ![r] = {}]
             /\ touched' = touched \cup {r}
             /\ undone' = undone \ {r}

\* A confirmation of report r is between its first read and its last.
Confirming(r) == \E t \in Threads : req[t].r = r /\ req[t].pc \in {"verify_mark", "verify_reload"}

(***************************************************************************)
(* POST /lost-items (and its image and stream variants): the agent judges  *)
(* the candidates, the report is stored without its address, then the      *)
(* address is given a confirmation link.                                   *)
(***************************************************************************)
Register(t, r, email, weak) ==
    /\ r \notin born
    /\ Begin(t, "register",
             IF email = None THEN ReqIdle
             ELSE [ReqIdle EXCEPT !.pc = "link", !.r = r, !.email = email])
    /\ \E lost \in SUBSET Listed :
          LET ms == Judged(lost)
          IN  /\ Judge(lost)
              /\ judged' = [judged EXCEPT ![r] = Listed \ lost]
              /\ Add(r, [BlankRow EXCEPT
                    !.status = IF LevelOf(ms, FALSE) = "strong" THEN "candidate" ELSE "open",
                    !.notify_weak = weak /\ email # None,
                    !.watch_until = WatchUntilAfter(0),
                    !.matches = Slim(ms),
                    !.best_match = IF ms = {} THEN None ELSE Top(ms),
                    !.graded_ids = GradedKeys(ms)])
    /\ Quiet /\ UNCHANGED <<now, found, issued, consent, raced, told, touched, undone>>

(***************************************************************************)
(* _send_verification: refused when the address has had its mails for the  *)
(* day (the limit is shared by all reports that name the address).         *)
(***************************************************************************)
SendLink(t, token) ==
    /\ At(t, "link")
    /\ issued[token] = None
    /\ SetPendingEmail(req[t].r, req[t].email, token, now + VerifyFor)
    /\ SendLinkTo(req[t].r, req[t].email, token)
    /\ Touch(req[t].r)
    /\ raced' = IF Confirming(req[t].r) THEN [raced EXCEPT ![req[t].r] = @ \cup {req[t].email}]
                ELSE raced
    /\ Done(t)
    /\ Quiet /\ UNCHANGED <<now, found, born, consent, judged>>

LinkRefused(t) ==
    /\ At(t, "link")
    /\ Done(t)
    /\ Quiet /\ UNCHANGED <<worldVars, storeVars, issued, historyVars>>

(***************************************************************************)
(* POST /lost-items/{lid}/alerts                                           *)
(***************************************************************************)
AlertsRead(t, r, email, weak, days) ==
    /\ db[r] # None
    /\ Begin(t, "alerts", [ReqIdle EXCEPT !.pc = "alerts_save", !.r = r, !.row = db[r],
                              !.email = email, !.weak = weak /\ email # None, !.days = days])
    /\ Quiet /\ UNCHANGED <<worldVars, storeVars, issued, historyVars>>

AlertsSave(t) ==
    /\ At(t, "alerts_save")
    /\ UpdateAlerts(req[t].r, req[t].weak, WatchUntilAfter(req[t].days),
                    IF req[t].row.status = "expired" THEN "open" ELSE None)
    /\ Forget(req[t].r)
    /\ IF req[t].email = req[t].row.email THEN Done(t)
       ELSE Continue(t, [req[t] EXCEPT !.pc = IF req[t].email = None THEN "alerts_clear" ELSE "link",
                                       !.row = None, !.days = None, !.weak = FALSE])
    /\ Quiet /\ UNCHANGED <<worldVars, born, issued, consent, raced, judged>>

AlertsClear(t) ==
    /\ At(t, "alerts_clear")
    /\ SetPendingEmail(req[t].r, None, None, 0)
    /\ Touch(req[t].r)
    /\ Done(t)
    /\ Quiet /\ UNCHANGED <<worldVars, born, issued, consent, raced, judged>>

(***************************************************************************)
(* POST /email/verify: the owner of the address opens the link.            *)
(***************************************************************************)
VerifyFind(t, token, r) ==
    /\ issued[token] # None /\ issued[token].delivered
    /\ db[r] # None /\ db[r].verify_hash = token
    /\ db[r].verify_expires >= now
    /\ Begin(t, "verify", [ReqIdle EXCEPT !.pc = "verify_mark", !.r = r, !.token = token])
    /\ Quiet /\ UNCHANGED <<worldVars, storeVars, issued, historyVars>>

VerifyMark(t) ==
    /\ At(t, "verify_mark")
    /\ MarkVerified(req[t].r)
    /\ issued' = [issued EXCEPT ![req[t].token].accepted = TRUE]
    /\ consent' = [consent EXCEPT ![req[t].r] = @ \cup {issued[req[t].token].email}]
    /\ Forget(req[t].r)
    /\ Continue(t, [req[t] EXCEPT !.pc = "verify_reload"])
    /\ Quiet /\ UNCHANGED <<worldVars, born, raced, judged>>

VerifyReload(t) ==
    /\ At(t, "verify_reload")
    /\ LET row == db[req[t].r]
       IN  IF row = None \/ ResultLevel(row) = None THEN Done(t)
           ELSE Continue(t, [req[t] EXCEPT !.pc = "verify_notify", !.row = row, !.token = None])
    /\ Quiet /\ UNCHANGED <<worldVars, storeVars, issued, historyVars>>

VerifyNotify(t) ==
    /\ At(t, "verify_notify")
    /\ LET row == req[t].row
       IN  /\ Notify(req[t].r, row, row.matches, ResultLevel(row), "verify")
           /\ IF ResultLevel(row) # "weak" THEN Done(t)
              ELSE Continue(t, [req[t] EXCEPT !.pc = "verify_recall", !.row = None,
                                              !.item = Top(row.matches).item])
    /\ UNCHANGED <<now, found, storeVars, issued, historyVars>>

\* mark_weak_notified, after the mail.
VerifyRecall(t) ==
    /\ At(t, "verify_recall")
    /\ Continue(t, [req[t] EXCEPT !.pc = "verify_record", !.sent = WeakNotified(req[t].r)])
    /\ Quiet /\ UNCHANGED <<worldVars, storeVars, issued, historyVars>>

\* The list that is written back may lack what the job has recorded since it was read.
VerifyRecord(t) ==
    /\ At(t, "verify_record")
    /\ SetWeakNotified(req[t].r, req[t].sent \cup {req[t].item})
    /\ IF WeakNotified(req[t].r) \subseteq req[t].sent \cup {req[t].item}
       THEN UNCHANGED <<told, touched, undone>>
       ELSE /\ told' = [told EXCEPT ![req[t].r] = {}]
            /\ touched' = touched \cup {req[t].r} /\ undone' = undone \cup {req[t].r}
    /\ Done(t)
    /\ Quiet /\ UNCHANGED <<worldVars, born, issued, consent, raced, judged>>

(***************************************************************************)
(* confirm, dismiss, delete                                                *)
(***************************************************************************)
ConfirmRead(t, r, item) ==
    /\ db[r] # None /\ Stored(db[r], item) # {}
    /\ Begin(t, "confirm", [ReqIdle EXCEPT !.pc = "confirm_write", !.r = r,
                                           !.row = db[r], !.item = item])
    /\ Quiet /\ UNCHANGED <<worldVars, storeVars, issued, historyVars>>

ConfirmWrite(t) ==
    /\ At(t, "confirm_write")
    /\ Confirm(req[t].r, CHOOSE m \in Stored(req[t].row, req[t].item) : TRUE)
    /\ Touch(req[t].r)
    /\ Done(t)
    /\ Quiet /\ UNCHANGED <<worldVars, born, issued, consent, raced, judged>>

DismissRead(t, r, item) ==
    /\ db[r] # None
    /\ Begin(t, "dismiss", [ReqIdle EXCEPT !.pc = "dismiss_write", !.r = r,
                                           !.item = item, !.sent = Dismissed(r)])
    /\ Quiet /\ UNCHANGED <<worldVars, storeVars, issued, historyVars>>

DismissWrite(t) ==
    /\ At(t, "dismiss_write")
    /\ SetDismissed(req[t].r, req[t].sent \cup {req[t].item})
    /\ Forget(req[t].r)
    /\ Done(t)
    /\ Quiet /\ UNCHANGED <<worldVars, born, issued, consent, raced, judged>>

\* The token check reads what no statement changes, so check and DELETE are one step.
DeleteReport(t, r) ==
    /\ db[r] # None
    /\ Begin(t, "delete", ReqIdle)
    /\ Delete(r)
    /\ Touch(r)
    /\ Quiet /\ UNCHANGED <<worldVars, born, issued, consent, raced, judged>>

(***************************************************************************)
(* A restart of the API container: requests in flight are gone.            *)
(***************************************************************************)
ApiRestart ==
    /\ \E t \in Threads : req[t].pc # "idle"
    /\ Fault
    /\ req' = [t \in Threads |-> ReqIdle]
    /\ Quiet /\ UNCHANGED <<now, found, storeVars, issued, historyVars, requests>>

\* The steps a request takes once it has begun.
ThreadStep(t) ==
    \/ \E k \in Tokens : SendLink(t, k)
    \/ LinkRefused(t) \/ AlertsSave(t) \/ AlertsClear(t)
    \/ VerifyMark(t) \/ VerifyReload(t) \/ VerifyNotify(t) \/ VerifyRecall(t) \/ VerifyRecord(t)
    \/ ConfirmWrite(t) \/ DismissWrite(t)

Arrive(t, r) ==
    \/ \E e \in Emails \cup {None}, w \in BOOLEAN : Register(t, r, e, w)
    \/ \E e \in Emails \cup {None}, w \in BOOLEAN, d \in DaysAsked : AlertsRead(t, r, e, w, d)
    \/ \E k \in Tokens : VerifyFind(t, k, r)
    \/ \E i \in Items : ConfirmRead(t, r, i) \/ DismissRead(t, r, i)
    \/ DeleteReport(t, r)

ApiStep == \E t \in Threads : ThreadStep(t) \/ \E r \in Reports : Arrive(t, r)
==============================================================================
