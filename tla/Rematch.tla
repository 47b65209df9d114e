------------------------------- MODULE Rematch -------------------------------
(***************************************************************************)
(* apps/agent/rematch.py: the batch job that a container of its own runs   *)
(* once a day while the API keeps serving.  It deletes reports past their  *)
(* retention, takes one snapshot of the open reports, and then works       *)
(* through that snapshot, one report after the other, for as long as the   *)
(* LLM takes: everything it decides about a report it decides from the     *)
(* snapshot row.                                                           *)
(***************************************************************************)
EXTENDS Notifier

VARIABLE job   \* the job's program counter and local variables


JobPcs == {"idle", "purge", "rows", "record", "promote", "alert_strong",
           "recall", "mark", "keep", "alert_weak"}

Job == [pc   : JobPcs,
        todo : SUBSET Reports,                \* reports of the current loop still to do
        rows : [Reports -> Row \cup {None}],  \* the snapshot of list_open
        now  : Nat,                           \* the time the job compares with
        cur  : Reports \cup {None},           \* the report in _rematch_one
        ms   : SUBSET Candidate,              \* its judged candidates
        sent : SUBSET Items]                  \* weak_notified as read by mark_weak_notified

NoRows == [r \in Reports |-> None]

JobIdle == [pc |-> "idle", todo |-> {}, rows |-> NoRows, now |-> 0,
            cur |-> None, ms |-> {}, sent |-> {}]

RowPcs == JobPcs \ {"idle", "purge", "rows"}   \* inside _rematch_one

RematchTypeOK == /\ job \in Job
                 /\ job.pc \in RowPcs => job.cur \in job.todo
                 /\ job.pc \in RowPcs \ {"record"} => job.ms # {}
                 /\ job.pc \in RowPcs \cup {"rows"} => \A r \in job.todo : job.rows[r] # None

RematchInit == job = JobIdle

\* Done with report r: the loop goes on with the rest of the snapshot.
NextRow(r) == [job EXCEPT !.pc = "rows", !.todo = @ \ {r}, !.rows = [@ EXCEPT ![r] = None],
                          !.cur = None, !.ms = {}, !.sent = {}]

Goto(pc) == job' = [job EXCEPT !.pc = pc]

CurRow == job.rows[job.cur]

KeptVars == <<now, found, born, issued, consent, raced>>   \* what no step of the job changes

(***************************************************************************)
(* rematch_open and purge_old                                              *)
(***************************************************************************)
\* Variant: only open reports are old.
JobStartOpenOnly ==
    /\ job.pc = "idle"
    /\ job' = [job EXCEPT !.pc = "purge",
                          !.todo = {r \in Reports : /\ db[r] # None /\ db[r].status = "open"
                                                    /\ db[r].watch_until + Retention < now}]
    /\ Quiet /\ UNCHANGED <<KeptVars, db, faults, historyVars>>

\* purge_old reads every row and picks those past deadline and grace.
JobStart ==
    /\ job.pc = "idle"
    /\ job' = [job EXCEPT !.pc = "purge",
                          !.todo = {r \in Reports : /\ db[r] # None
                                                    /\ db[r].watch_until + Retention < now}]
    /\ Quiet /\ UNCHANGED <<KeptVars, db, faults, historyVars>>

JobPurge(r) ==
    /\ job.pc = "purge" /\ r \in job.todo
    /\ Delete(r)
    /\ job' = [job EXCEPT !.todo = @ \ {r}]
    /\ Quiet /\ UNCHANGED <<KeptVars, faults, historyVars>>

\* Variants of JobList: the loop takes every report, or leaves out those past their deadline.
ListedFor(todo(_)) ==
    /\ job.pc = "purge" /\ job.todo = {}
    /\ LET open == {r \in Reports : db[r] # None /\ db[r].status = "open"}
       IN  job' = [job EXCEPT !.pc = "rows", !.todo = todo(open), !.now = now,
                       !.rows = [r \in Reports |-> IF r \in open THEN db[r] ELSE None]]
    /\ touched' = {}
    /\ Quiet /\ UNCHANGED <<KeptVars, db, faults, told, judged, undone>>

JobListAll == ListedFor(LAMBDA open : {r \in Reports : db[r] # None})

JobListWatched == ListedFor(LAMBDA open : {r \in open : db[r].watch_until >= now})

\* list_open, then the time every row will be compared with.
JobList ==
    /\ job.pc = "purge" /\ job.todo = {}
    /\ LET open == {r \in Reports : db[r] # None /\ db[r].status = "open"}
       IN  job' = [job EXCEPT !.pc = "rows", !.todo = open, !.now = now,
                       !.rows = [r \in Reports |-> IF r \in open THEN db[r] ELSE None]]
    /\ touched' = {}
    /\ Quiet /\ UNCHANGED <<KeptVars, db, faults, told, judged, undone>>

JobExpire(r) ==
    /\ job.pc = "rows" /\ r \in job.todo
    /\ job.rows[r].watch_until < job.now
    /\ SetStatus(r, "expired")
    /\ job' = NextRow(r)
    /\ Quiet /\ UNCHANGED <<KeptVars, faults, historyVars>>

JobEnd ==
    /\ job.pc = "rows" /\ job.todo = {}
    /\ job' = JobIdle
    /\ Quiet /\ UNCHANGED <<KeptVars, db, faults, historyVars>>

(***************************************************************************)
(* _rematch_one                                                            *)
(***************************************************************************)
Watched(r) == /\ job.pc = "rows" /\ r \in job.todo
              /\ job.rows[r].watch_until >= job.now

\* Variant: one verdict is enough.
NothingNewEver(r) == job.rows[r].graded_ids # {}

\* match_stored returns None: every candidate was judged before.
NothingNew(r) == job.rows[r].graded_ids # {} /\ Listed \subseteq job.rows[r].graded_ids

JobSkip(r) ==
    /\ Watched(r) /\ NothingNew(r)
    /\ job' = NextRow(r)
    /\ Quiet /\ UNCHANGED <<KeptVars, db, faults, historyVars>>

JobJudge(r) ==
    /\ Watched(r) /\ ~NothingNew(r)
    /\ \E lost \in SUBSET Listed :
          /\ Judge(lost)
          /\ job' = [job EXCEPT !.pc = "record", !.cur = r, !.ms = Judged(lost)]
          /\ judged' = [judged EXCEPT ![r] = @ \cup (Listed \ lost)]
    /\ Quiet /\ UNCHANGED <<KeptVars, db, told, touched, undone>>

\* set_graded: the ids of the snapshot row with those of this judgement.
Record ==
    IF GradedKeys(job.ms) = {} THEN UNCHANGED <<db, undone>>
    ELSE /\ SetGraded(job.cur, CurRow.graded_ids \cup GradedKeys(job.ms))
         /\ undone' = IF job.cur \in touched THEN undone \cup {job.cur} ELSE undone

\* set_graded comes first, then the level is decided on the snapshot row.
JobRecord ==
    /\ job.pc = "record"
    /\ Record
    /\ LET kept  == Undismissed(job.ms, CurRow)
           level == LevelOf(kept, CurRow.notify_weak)
       IN  job' = IF level = "strong" THEN [job EXCEPT !.pc = "promote", !.ms = kept]
                  ELSE IF /\ level = "weak" /\ CanEmail(CurRow)
                          /\ Top(kept).item \notin CurRow.weak_notified
                       THEN [job EXCEPT !.pc = "recall", !.ms = kept]
                       ELSE NextRow(job.cur)
    /\ Quiet /\ UNCHANGED <<KeptVars, faults, told, judged, touched>>

\* Variant: the job writes the whole row it holds.
JobPromoteWholeRow ==
    /\ job.pc = "promote"
    /\ Write(job.cur, [CurRow EXCEPT !.best_match = Top(job.ms), !.status = "candidate",
                                     !.matches = Slim(job.ms)])
    /\ IF CanEmail(CurRow) THEN Goto("alert_strong") ELSE job' = NextRow(job.cur)
    /\ Quiet /\ UNCHANGED <<KeptVars, faults, historyVars>>

JobPromote ==
    /\ job.pc = "promote"
    /\ UpdateMatch(job.cur, Top(job.ms), "candidate", Slim(job.ms))
    /\ IF CanEmail(CurRow) THEN Goto("alert_strong") ELSE job' = NextRow(job.cur)
    /\ Quiet /\ UNCHANGED <<KeptVars, faults, historyVars>>

JobAlert(kind) ==
    /\ Notify(job.cur, CurRow, job.ms, kind, "job")
    /\ told' = IF job.cur \in touched THEN told
               ELSE [told EXCEPT ![job.cur] = @ \cup {<<Top(job.ms).item, kind>>}]
    /\ job' = NextRow(job.cur)
    /\ UNCHANGED <<KeptVars, db, touched, judged, undone>>

JobAlertStrong == job.pc = "alert_strong" /\ JobAlert("strong")

\* mark_weak_notified: read what was sent ...
JobRecall ==
    /\ job.pc = "recall"
    /\ job' = [job EXCEPT !.pc = "mark",
                          !.sent = WeakNotified(job.cur)]
    /\ Quiet /\ UNCHANGED <<KeptVars, db, faults, historyVars>>

\* Variant: the item is not recorded.
JobMarkNothing ==
    /\ job.pc = "mark"
    /\ SetWeakNotified(job.cur, job.sent)
    /\ Goto("keep")
    /\ Quiet /\ UNCHANGED <<KeptVars, faults, historyVars>>

\* ... and write it back with the new item.
JobMark ==
    /\ job.pc = "mark"
    /\ SetWeakNotified(job.cur, job.sent \cup {Top(job.ms).item})
    /\ Goto("keep")
    /\ Quiet /\ UNCHANGED <<KeptVars, faults, historyVars>>

JobKeep ==
    /\ job.pc = "keep"
    /\ SetMatches(job.cur, Slim(job.ms))
    /\ Goto("alert_weak")
    /\ Quiet /\ UNCHANGED <<KeptVars, faults, historyVars>>

JobAlertWeak == job.pc = "alert_weak" /\ JobAlert("weak")

(***************************************************************************)
(* Failures                                                                *)
(***************************************************************************)
\* The search, the LLM or the database raises for one report: rematch_open goes on.
JobRowFails(r) ==
    /\ Watched(r) \/ (job.pc \in RowPcs /\ job.cur = r)
    /\ Fault
    /\ job' = NextRow(r)
    /\ Quiet /\ UNCHANGED <<KeptVars, db, historyVars>>

\* The container dies, or a statement outside the try block raises.
JobCrash ==
    /\ job.pc # "idle"
    /\ Fault
    /\ job' = JobIdle
    /\ Quiet /\ UNCHANGED <<KeptVars, db, historyVars>>

JobStep ==
    \/ JobStart \/ JobList \/ JobEnd
    \/ \E r \in Reports : \/ JobPurge(r) \/ JobExpire(r) \/ JobSkip(r) \/ JobJudge(r)
    \/ JobRecord \/ JobPromote \/ JobAlertStrong
    \/ JobRecall \/ JobMark \/ JobKeep \/ JobAlertWeak

JobFailure == JobCrash \/ \E r \in Reports : JobRowFails(r)
==============================================================================
