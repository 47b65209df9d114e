-------------------------------- MODULE Store --------------------------------
(***************************************************************************)
(* apps/store.py: the table lost_items.  Every operator below is one SQL   *)
(* statement, committed on a connection of its own; an UPDATE names the    *)
(* columns it writes and leaves the others as they are, and an UPDATE of a *)
(* deleted report changes nothing and reports no error.  Functions that    *)
(* read before they write (verify_email, mark_weak_notified, dismiss) are  *)
(* two statements, and their callers perform them as two steps.            *)
(*                                                                         *)
(* Of a row the model keeps the columns the life of a report depends on;   *)
(* best_grade is the grade of best_match.                                  *)
(***************************************************************************)
EXTENDS World

CONSTANTS
    Reports,       \* report ids
    Emails,        \* addresses
    Tokens,        \* e-mail confirmation tokens (verify_hash)
    Seeded,        \* reports whose owner has confirmed an address before the run starts
    KeepN,         \* how many candidates slim_matches keeps
    GradedMax,     \* how many ids set_graded keeps
    WatchDefault,  \* settings.watch_days_default
    WatchMax,      \* settings.watch_days_max
    Retention,     \* settings.retention_days
    VerifyFor      \* lifetime of a confirmation link, in days

ASSUME StoreAssumption ==
    /\ Seeded \subseteq Reports
    /\ KeepN \in Nat /\ GradedMax \in Nat /\ Retention \in Nat /\ VerifyFor \in Nat
    /\ WatchMax \in Nat \ {0}
    /\ WatchDefault \in 1..WatchMax
    /\ None \notin Reports /\ None \notin Emails /\ None \notin Tokens
    /\ None \notin Items /\ None \notin {"strong", "weak"}

VARIABLES
    db,            \* db[r] is the row of report r, None when there is none
    born           \* ids that new_id has handed out

storeVars == <<db, born>>

Statuses == {"open", "candidate", "confirmed", "expired"}

Row == [status         : Statuses,
        email          : Emails \cup {None},
        email_verified : BOOLEAN,
        verify_hash    : Tokens \cup {None},
        verify_expires : Nat,
        notify_weak    : BOOLEAN,
        watch_until    : Nat,
        matches        : SUBSET Candidate,
        best_match     : Candidate \cup {None},
        graded_ids     : SUBSET Items,
        dismissed      : SUBSET Items,
        weak_notified  : SUBSET Items]

ASSUME NullIsNoRow == None \notin Row

StoreTypeOK == /\ db \in [Reports -> Row \cup {None}]
               /\ born \subseteq Reports

\* A report nobody has asked anything of yet, before registration fills it.
BlankRow == [status |-> "open", email |-> None, email_verified |-> FALSE,
             verify_hash |-> None, verify_expires |-> 0, notify_weak |-> FALSE,
             watch_until |-> WatchDefault, matches |-> {}, best_match |-> None,
             graded_ids |-> {}, dismissed |-> {}, weak_notified |-> {}]

\* A report registered when nothing was found, whose owner has opened the link.
SeedRow(e, w) == [BlankRow EXCEPT !.email = e, !.email_verified = TRUE, !.notify_weak = w]

SeedRows == {SeedRow(e, w) : e \in Emails, w \in BOOLEAN}

StoreInit == /\ born = Seeded
             /\ db \in [Reports -> SeedRows \cup {None}]
             /\ \A r \in Reports : db[r] = None <=> r \notin Seeded

(***************************************************************************)
(* Helpers of the callers that only look at a row.                         *)
(***************************************************************************)
\* watch_until_after: 0 days counts as "not given", the rest is clamped to 1..WatchMax.
WatchUntilAfter(days) ==
    now + (IF days = 0 THEN WatchDefault
           ELSE IF days < 1 THEN 1
           ELSE IF days > WatchMax THEN WatchMax ELSE days)

\* Variants: the weak threshold in place of the strong one, or a strict comparison.
AlertLevelAbove(grade, optedIn) ==
    IF grade > StrongAt THEN "strong"
    ELSE IF optedIn /\ grade >= WeakAt THEN "weak" ELSE None

AlertLevelLow(grade, optedIn) == IF grade >= WeakAt THEN "strong" ELSE None

\* alert_level of a grade: "strong", "weak" or None.
AlertLevel(grade, optedIn) ==
    IF grade >= StrongAt THEN "strong"
    ELSE IF optedIn /\ grade >= WeakAt THEN "weak" ELSE None

\* alert_level of the best candidate of a list.
LevelOf(ms, optedIn) == IF ms = {} THEN None ELSE AlertLevel(Top(ms).grade, optedIn)

\* slim_matches: the KeepN best candidates.
Slim(ms) == {m \in ms : Cardinality({o \in ms : o # m /\ Better(o, m)}) < KeepN}

\* Variant: what the owner has turned down is proposed again.
UndismissedAll(ms, row) == ms

Undismissed(ms, row) == {m \in ms : m.item \notin row.dismissed}

\* What mark_weak_notified and dismiss read before they write: nothing of a deleted report.
WeakNotified(r) == IF db[r] = None THEN {} ELSE db[r].weak_notified
Dismissed(r) == IF db[r] = None THEN {} ELSE db[r].dismissed

\* Variant: any address will do.
CanEmailUnverified(row) == row.email # None

CanEmail(row) == row.email # None /\ row.email_verified

(***************************************************************************)
(* The statements.                                                         *)
(***************************************************************************)
Write(r, row) == db' = IF db[r] = None THEN db ELSE [db EXCEPT ![r] = row]

Add(r, row) == /\ born' = born \cup {r}
               /\ db' = [db EXCEPT ![r] = row]

UpdateMatch(r, m, st, ms) ==
    Write(r, [db[r] EXCEPT !.best_match = m, !.status = st, !.matches = ms])

SetMatches(r, ms) == Write(r, [db[r] EXCEPT !.matches = ms])

\* Of too long a list the code keeps the last ids; which these are is left open.
SetGraded(r, keys) ==
    \E kept \in SUBSET keys :
        /\ IF Cardinality(keys) <= GradedMax THEN kept = keys ELSE Cardinality(kept) = GradedMax
        /\ Write(r, [db[r] EXCEPT !.graded_ids = kept])

\* Variant: a new address inherits the confirmation of the old one.
SetPendingEmailKeepsVerified(r, email, token, expires) ==
    Write(r, [db[r] EXCEPT !.email = email, !.verify_hash = token, !.verify_expires = expires])

SetPendingEmail(r, email, token, expires) ==
    Write(r, [db[r] EXCEPT !.email = email, !.email_verified = FALSE,
                           !.verify_hash = token, !.verify_expires = expires])

\* Variant: the link stays valid.
MarkVerifiedKeepsLink(r) ==
    Write(r, [db[r] EXCEPT !.email_verified = TRUE, !.graded_ids = {}])

MarkVerified(r) ==
    Write(r, [db[r] EXCEPT !.email_verified = TRUE, !.verify_hash = None,
                           !.verify_expires = 0, !.graded_ids = {}])

\* Variant: what was judged before stays judged.
UpdateAlertsKeepsGraded(r, weak, until, st) ==
    Write(r, [db[r] EXCEPT !.notify_weak = weak, !.watch_until = until,
                           !.status = IF st = None THEN @ ELSE st])

UpdateAlerts(r, weak, until, st) ==
    Write(r, [db[r] EXCEPT !.notify_weak = weak, !.watch_until = until,
                           !.status = IF st = None THEN @ ELSE st, !.graded_ids = {}])

SetStatus(r, st) == Write(r, [db[r] EXCEPT !.status = st])

SetWeakNotified(r, sent) == Write(r, [db[r] EXCEPT !.weak_notified = sent])

Confirm(r, m) == Write(r, [db[r] EXCEPT !.status = "confirmed", !.best_match = m])

SetDismissed(r, dis) ==
    Write(r, [db[r] EXCEPT !.status = "open", !.dismissed = dis, !.graded_ids = {}])

Delete(r) == db' = [db EXCEPT ![r] = None]
==============================================================================
