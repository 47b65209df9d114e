----------------------------- MODULE FindIt_proofs -----------------------------
(***************************************************************************)
(* FindIt, for all reports, items, addresses, tokens and threads, with any *)
(* interleaving of the job and the requests: first that it is type         *)
(* correct, then double opt-in and the refinement of OptIn, and last what  *)
(* FindIt says of a report and what the LLM said of its candidates.        *)
(***************************************************************************)
EXTENDS FindIt, Lists_proofs

(***************************************************************************)
(* Part 1.  Type correctness.  First some facts about the operators of     *)
(* World and Store: the best candidate of a list exists, and every         *)
(* statement of store.py keeps the table well typed.                       *)
(***************************************************************************)
\* A nonempty list of candidates has a best one, and Top finds it: the first element of
\* the list that n_grade sorts.
LEMMA TopIsBest ==
    ASSUME NEW ms, ms \subseteq Candidate, ms # {}
    PROVE  /\ Top(ms) \in ms
           /\ \A o \in ms : Better(Top(ms), o)
<1> DEFINE Misses == {100 - m.grade : m \in ms}
<1>1. \A m \in ms : m.grade \in Int /\ m.grade <= 100 /\ m.item \in Nat
  <2> TAKE m \in ms
  <2>1. m.grade \in Grades \cup {NoGrade} /\ m.item \in Items
      BY DEF Candidate
  <2>2. NoGrade \in Int /\ NoGrade <= 100
      BY DEF NoGrade
  <2>a. \A g \in Grades : g \in Int /\ g <= 100
      BY WorldAssumption DEF WorldAssumption
  <2>b. Items \subseteq Nat
      BY WorldAssumption DEF WorldAssumption
  <2>3. QED
      BY <2>1, <2>2, <2>a, <2>b
<1>2. Misses \subseteq Nat /\ Misses # {}
    BY <1>1
<1>3. PICK x \in Misses : \A y \in Misses : x <= y
    BY <1>2, LeastNat
<1> DEFINE Best == {m \in ms : 100 - m.grade = x}
<1> DEFINE Ranks == {m.item : m \in Best}
<1>4. Ranks \subseteq Nat /\ Ranks # {}
    BY <1>1, <1>3
<1>5. PICK i \in Ranks : \A j \in Ranks : i <= j
    BY <1>4, LeastNat
<1>6. PICK b \in Best : b.item = i
    BY <1>5
<1>7. \A o \in ms : Better(b, o)
  <2> TAKE o \in ms
  <2>1. x <= 100 - o.grade
      BY <1>3
  <2>2. b \in ms /\ 100 - b.grade = x
      BY <1>6
  <2>3. CASE o.grade = b.grade
      BY <2>2, <2>3, <1>1, <1>5, <1>6 DEF Better
  <2>4. CASE o.grade # b.grade
      BY <2>1, <2>2, <2>4, <1>1 DEF Better
  <2>5. QED
      BY <2>3, <2>4
<1>8. b \in ms
    BY <1>6
<1>9. QED
    BY <1>7, <1>8 DEF Top

\* What the LLM hands back is a list of candidates.
LEMMA JudgedType ==
    ASSUME WorldTypeOK, NEW lost
    PROVE  Judged(lost) \subseteq Candidate
BY DEF WorldTypeOK, Judged, Listed, Candidate, NoGrade

\* The keys that go into graded_ids are items.
LEMMA GradedKeysType ==
    ASSUME NEW ms, ms \subseteq Candidate
    PROVE  GradedKeys(ms) \subseteq Items
BY DEF GradedKeys, Candidate

\* A level is only given to a list that has a best candidate.
LEMMA LevelNeedsCandidate ==
    ASSUME NEW ms, NEW w, LevelOf(ms, w) # None
    PROVE  ms # {} /\ LevelOf(ms, w) \in {"strong", "weak"}
BY DEF LevelOf, AlertLevel

\* The end of a watch period is an instant.
LEMMA WatchUntilType ==
    ASSUME WorldTypeOK, NEW d \in Int
    PROVE  WatchUntilAfter(d) \in Nat
BY StoreAssumption DEF StoreAssumption, WorldTypeOK, WatchUntilAfter

\* A row without data is a row.
LEMMA BlankRowType == BlankRow \in Row
<1>1. WatchDefault \in Nat
    BY StoreAssumption DEF StoreAssumption
<1>2. QED
    BY <1>1 DEF BlankRow, Row, Statuses

\* The rows a run starts from are well typed and have an address.
LEMMA SeedRowsType == \A row \in SeedRows : row \in Row /\ row.email \in Emails
<1>2. BlankRow \in Row
    BY BlankRowType
<1> TAKE row \in SeedRows
<1>3. PICK e \in Emails, w \in BOOLEAN : row = SeedRow(e, w)
    BY DEF SeedRows
<1>4. row \in Row
    BY <1>2, <1>3 DEF Row, SeedRow
<1>5. row.email = e
    BY <1>2, <1>3 DEF Row, SeedRow
<1>6. QED
    BY <1>4, <1>5

\* An UPDATE with a well-typed row keeps the table well typed, and a missing row missing.
LEMMA WriteType ==
    ASSUME StoreTypeOK, NEW r \in Reports, NEW row, db[r] # None => row \in Row,
           Write(r, row), UNCHANGED born
    PROVE  StoreTypeOK'
BY DEF StoreTypeOK, Write

\* The statements of the job.
LEMMA JobStatementsType ==
    ASSUME StoreTypeOK, NEW r \in Reports, UNCHANGED born,
           \/ Delete(r)
           \/ \E st \in Statuses : SetStatus(r, st)
           \/ \E keys \in SUBSET Items : SetGraded(r, keys)
           \/ \E m \in Candidate, ms \in SUBSET Candidate, st \in Statuses :
                 UpdateMatch(r, m, st, ms)
           \/ \E ms \in SUBSET Candidate : SetMatches(r, ms)
           \/ \E sent \in SUBSET Items : SetWeakNotified(r, sent)
    PROVE  StoreTypeOK'
<1>1. CASE Delete(r)
    BY <1>1 DEF StoreTypeOK, Delete
<1>a. db[r] # None => db[r] \in Row
    BY DEF StoreTypeOK
<1>2. ASSUME NEW st \in Statuses, SetStatus(r, st) PROVE StoreTypeOK'
    BY <1>2, <1>a, WriteType DEF SetStatus, Row
<1>3. ASSUME NEW keys \in SUBSET Items, SetGraded(r, keys) PROVE StoreTypeOK'
  <2>1. PICK kept \in SUBSET keys : Write(r, [db[r] EXCEPT !.graded_ids = kept])
      BY <1>3 DEF SetGraded
  <2>2. QED
      BY <2>1, <1>a, WriteType DEF Row
<1>4. ASSUME NEW m \in Candidate, NEW ms \in SUBSET Candidate, NEW st \in Statuses,
             UpdateMatch(r, m, st, ms)
      PROVE  StoreTypeOK'
    BY <1>4, <1>a, WriteType DEF UpdateMatch, Row
<1>5. ASSUME NEW ms \in SUBSET Candidate, SetMatches(r, ms) PROVE StoreTypeOK'
    BY <1>5, <1>a, WriteType DEF SetMatches, Row
<1>6. ASSUME NEW sent \in SUBSET Items, SetWeakNotified(r, sent) PROVE StoreTypeOK'
    BY <1>6, <1>a, WriteType DEF SetWeakNotified, Row
<1>7. QED
    BY <1>1, <1>2, <1>3, <1>4, <1>5, <1>6

\* The statements of the requests.
LEMMA RequestStatementsType ==
    ASSUME StoreTypeOK, NEW r \in Reports, UNCHANGED born,
           \/ \E e \in Emails \cup {None}, k \in Tokens \cup {None}, x \in Nat :
                 SetPendingEmail(r, e, k, x)
           \/ MarkVerified(r)
           \/ \E w \in BOOLEAN, u \in Nat, st \in {"open", None} : UpdateAlerts(r, w, u, st)
           \/ \E m \in Candidate : Confirm(r, m)
           \/ \E dis \in SUBSET Items : SetDismissed(r, dis)
    PROVE  StoreTypeOK'
<1>a. db[r] # None => db[r] \in Row
    BY DEF StoreTypeOK
<1>1. ASSUME NEW e \in Emails \cup {None}, NEW k \in Tokens \cup {None}, NEW x \in Nat,
             SetPendingEmail(r, e, k, x)
      PROVE  StoreTypeOK'
    BY <1>1, <1>a, WriteType DEF SetPendingEmail, Row
<1>2. CASE MarkVerified(r)
    BY <1>2, <1>a, WriteType DEF MarkVerified, Row
<1>3. ASSUME NEW w \in BOOLEAN, NEW u \in Nat, NEW st \in {"open", None},
             UpdateAlerts(r, w, u, st)
      PROVE  StoreTypeOK'
    BY <1>3, <1>a, WriteType DEF UpdateAlerts, Row, Statuses
<1>4. ASSUME NEW m \in Candidate, Confirm(r, m) PROVE StoreTypeOK'
    BY <1>4, <1>a, WriteType DEF Confirm, Row, Statuses
<1>5. ASSUME NEW dis \in SUBSET Items, SetDismissed(r, dis) PROVE StoreTypeOK'
    BY <1>5, <1>a, WriteType DEF SetDismissed, Row, Statuses
<1>6. QED
    BY <1>1, <1>2, <1>3, <1>4, <1>5

-------------------------------------------------------------------------------
(***************************************************************************)
(* The steps                                                               *)
(***************************************************************************)
\* What the job and the requests may do to the mail and to the fault budget.
LEMMA NotifyType ==
    ASSUME NEW r \in Reports, NEW row \in Row, NEW ms, ms \subseteq Candidate,
           NEW kind \in Kinds, NEW sender \in {"job", "verify"},
           faults \in 0..MaxFaults, Notify(r, row, ms, kind, sender)
    PROVE  mail' \in Mail \cup {None} /\ faults' \in 0..MaxFaults
<1>1. CASE row.email = None \/ ms = {}
    BY <1>1 DEF Notify, Quiet
<1>2. CASE row.email # None /\ ms # {} /\ Quiet /\ Fault
    BY <1>2, WorldAssumption DEF Quiet, Fault, WorldAssumption
<1>3. CASE /\ row.email # None /\ ms # {} /\ UNCHANGED faults
           /\ mail' = [r |-> r, to |-> row.email, kind |-> kind,
                       item |-> Top(ms).item, by |-> sender]
  <2>1. Top(ms) \in Candidate
      BY <1>3, TopIsBest
  <2>2. Top(ms).item \in Items /\ row.email \in Emails
      BY <2>1, <1>3 DEF Candidate, Row
  <2>3. QED
      BY <2>2, <1>3 DEF Mail
<1>4. QED
    BY <1>1, <1>2, <1>3 DEF Notify

\* A fault stays within the fault budget.
LEMMA FaultType ==
    ASSUME faults \in 0..MaxFaults, Fault \/ UNCHANGED faults
    PROVE  faults' \in 0..MaxFaults
BY WorldAssumption DEF Fault, WorldAssumption

\* The initial states are well typed.
LEMMA InitType == Init => TypeOK
<1> SUFFICES ASSUME Init PROVE TypeOK
    OBVIOUS
<1> USE DEF Init
<1>1. WorldTypeOK
    BY WorldAssumption DEF WorldAssumption, WorldInit, WorldTypeOK
<1>2. SeedRows \subseteq Row
    BY SeedRowsType
<1>3. StoreTypeOK
    BY <1>2, StoreAssumption DEF StoreAssumption, StoreInit, StoreTypeOK
<1>4. NotifierTypeOK
  <2>1. \A r \in Seeded : db[r].email \in Emails
    <3> TAKE r \in Seeded
    <3>1. r \in Reports /\ db[r] # None
        BY StoreAssumption DEF StoreAssumption, StoreInit
    <3>2. db[r] \in SeedRows
        BY <3>1 DEF StoreInit
    <3>3. QED
        BY <3>2, SeedRowsType
  <2>2. QED
      BY <2>1 DEF NotifierInit, NotifierTypeOK
<1>5. RematchTypeOK
    BY DEF RematchInit, RematchTypeOK, JobIdle, NoRows, Job, JobPcs, RowPcs
<1>6. ApiTypeOK
  <2>1. ReqIdle \in Req
      BY DEF ReqIdle, Req, ReqPcs
  <2>2. Holds(ReqIdle)
      BY DEF Holds, ReqIdle
  <2>3. requests \in 0..MaxRequests
      BY ApiAssumption DEF ApiAssumption, ApiInit
  <2>4. QED
      BY <2>1, <2>2, <2>3 DEF ApiInit, ApiTypeOK
<1>7. QED
    BY <1>1, <1>3, <1>4, <1>5, <1>6 DEF TypeOK

(***************************************************************************)
(* The job.                                                                *)
(***************************************************************************)
\* Going on with the next report keeps the job well typed.
LEMMA NextRowType ==
    ASSUME RematchTypeOK, NEW r \in Reports, job' = NextRow(r),
           job.pc \in RowPcs \cup {"rows"}
    PROVE  RematchTypeOK'
BY DEF RematchTypeOK, NextRow, Job, JobPcs, RowPcs

\* What is known of the report in _rematch_one.
LEMMA CurType ==
    ASSUME RematchTypeOK, job.pc \in RowPcs
    PROVE  /\ job.cur \in Reports /\ CurRow \in Row /\ job.ms \subseteq Candidate
           /\ job.pc # "record" => Top(job.ms) \in job.ms /\ Top(job.ms) \in Candidate
<1>1. job.cur \in Reports /\ CurRow \in Row /\ job.ms \subseteq Candidate
    BY DEF RematchTypeOK, Job, CurRow
<1>2. job.pc # "record" => job.ms # {}
    BY DEF RematchTypeOK
<1>3. QED
    BY <1>1, <1>2, TopIsBest

\* The job's steps keep every component well typed.
LEMMA JobType ==
    ASSUME TypeOK, JobStep \/ JobFailure, UNCHANGED apiVars
    PROVE  TypeOK'
<1> USE DEF TypeOK
<1>a. ASSUME UNCHANGED KeptVars, faults' \in 0..MaxFaults PROVE WorldTypeOK'
    BY <1>a DEF WorldTypeOK, KeptVars
<1>b. ASSUME UNCHANGED <<KeptVars, historyVars>>, Quiet PROVE NotifierTypeOK'
    BY <1>b DEF NotifierTypeOK, KeptVars, historyVars, Quiet
<1>c. ASSUME UNCHANGED <<KeptVars, apiVars>> PROVE ApiTypeOK'
    BY <1>c DEF ApiTypeOK, KeptVars, apiVars, Holds
<1>d. ASSUME UNCHANGED <<KeptVars, db>> PROVE StoreTypeOK'
    BY <1>d DEF StoreTypeOK, KeptVars
<1>e. faults \in 0..MaxFaults
    BY DEF WorldTypeOK
<1>f. UNCHANGED KeptVars => UNCHANGED born
    BY DEF KeptVars
<1>1. CASE JobStart
  <2>1. RematchTypeOK'
      BY <1>1 DEF JobStart, RematchTypeOK, Job, JobPcs, RowPcs
  <2>2. QED
      BY <1>1, <2>1, <1>a, <1>b, <1>c, <1>d, <1>e DEF JobStart
<1>2. ASSUME NEW r \in Reports, JobPurge(r) PROVE TypeOK'
  <2>1. RematchTypeOK'
      BY <1>2 DEF JobPurge, RematchTypeOK, Job, JobPcs, RowPcs
  <2>2. StoreTypeOK'
      BY <1>2, <1>f, JobStatementsType DEF JobPurge
  <2>3. QED
      BY <1>2, <2>1, <2>2, <1>a, <1>b, <1>c, <1>e DEF JobPurge
<1>3. CASE JobList
  <2>1. RematchTypeOK'
      BY <1>3 DEF JobList, RematchTypeOK, Job, JobPcs, RowPcs, StoreTypeOK, WorldTypeOK
  <2>2. NotifierTypeOK'
      BY <1>3 DEF JobList, NotifierTypeOK, KeptVars, Quiet
  <2>3. QED
      BY <1>3, <2>1, <2>2, <1>a, <1>c, <1>d, <1>e DEF JobList
<1>4. ASSUME NEW r \in Reports, JobExpire(r) PROVE TypeOK'
  <2>1. RematchTypeOK'
      BY <1>4, NextRowType DEF JobExpire
  <2>2. StoreTypeOK'
      BY <1>4, <1>f, JobStatementsType DEF JobExpire, Statuses
  <2>3. QED
      BY <1>4, <2>1, <2>2, <1>a, <1>b, <1>c, <1>e DEF JobExpire
<1>5. CASE JobEnd
  <2>1. RematchTypeOK'
      BY <1>5 DEF JobEnd, RematchTypeOK, JobIdle, NoRows, Job, JobPcs, RowPcs
  <2>2. QED
      BY <1>5, <2>1, <1>a, <1>b, <1>c, <1>d, <1>e DEF JobEnd
<1>6. ASSUME NEW r \in Reports, JobSkip(r) PROVE TypeOK'
  <2>1. RematchTypeOK'
      BY <1>6, NextRowType DEF JobSkip, Watched
  <2>2. QED
      BY <1>6, <2>1, <1>a, <1>b, <1>c, <1>d, <1>e DEF JobSkip
<1>7. ASSUME NEW r \in Reports, JobJudge(r) PROVE TypeOK'
  <2>1. PICK lost \in SUBSET Listed :
          /\ Judge(lost)
          /\ job' = [job EXCEPT !.pc = "record", !.cur = r, !.ms = Judged(lost)]
          /\ judged' = [judged EXCEPT ![r] = @ \cup (Listed \ lost)]
      BY <1>7 DEF JobJudge
  <2>2. Judged(lost) \subseteq Candidate
      BY JudgedType
  <2>3. job.pc = "rows" /\ r \in job.todo
      BY <1>7 DEF JobJudge, Watched
  <2>4. RematchTypeOK'
      BY <2>1, <2>2, <2>3 DEF RematchTypeOK, Job, JobPcs, RowPcs
  <2>5. Quiet /\ UNCHANGED <<KeptVars, db, told, touched, undone>>
      BY <1>7 DEF JobJudge
  <2>6. NotifierTypeOK'
      BY <2>1, <2>5 DEF NotifierTypeOK, KeptVars, Quiet, Listed
  <2>7. faults' \in 0..MaxFaults
      BY <2>1, <1>e, FaultType DEF Judge
  <2>8. QED
      BY <2>4, <2>5, <2>6, <2>7, <1>a, <1>c, <1>d
<1>8. CASE JobRecord
  <2>1. job.pc \in RowPcs
      BY <1>8 DEF JobRecord, RowPcs, JobPcs
  <2> DEFINE kept == Undismissed(job.ms, CurRow)
  <2> DEFINE level == LevelOf(kept, CurRow.notify_weak)
  <2>2. kept \subseteq Candidate
      BY <2>1, CurType DEF Undismissed
  <2>3. \/ job' = NextRow(job.cur)
        \/ level # None /\ job' = [job EXCEPT !.pc = "promote", !.ms = kept]
        \/ level # None /\ job' = [job EXCEPT !.pc = "recall", !.ms = kept]
      BY <1>8, StoreAssumption DEF JobRecord, StoreAssumption
  <2>4. RematchTypeOK'
    <3>1. CASE job' = NextRow(job.cur)
        BY <3>1, <2>1, NextRowType, CurType
    <3>2. ASSUME level # None PROVE kept # {}
        BY <3>2, LevelNeedsCandidate
    <3>3. CASE level # None /\ job' = [job EXCEPT !.pc = "promote", !.ms = kept]
        BY <3>2, <3>3, <2>1, <2>2 DEF RematchTypeOK, Job, JobPcs, RowPcs
    <3>4. CASE level # None /\ job' = [job EXCEPT !.pc = "recall", !.ms = kept]
        BY <3>2, <3>4, <2>1, <2>2 DEF RematchTypeOK, Job, JobPcs, RowPcs
    <3>5. QED
        BY <2>3, <3>1, <3>3, <3>4
  <2>5. CurRow.graded_ids \cup GradedKeys(job.ms) \subseteq Items
      BY <2>1, CurType, GradedKeysType DEF Row
  <2>6. StoreTypeOK'
      BY <1>8, <2>1, <2>5, <1>d, <1>f, CurType, JobStatementsType DEF JobRecord, Record
  <2>7. NotifierTypeOK'
    <3>1. UNCHANGED <<KeptVars, told, judged, touched>> /\ Quiet
        BY <1>8 DEF JobRecord
    <3>2. undone' \in {undone, undone \cup {job.cur}} /\ job.cur \in Reports
        BY <1>8, <2>1, CurType DEF JobRecord, Record
    <3>3. QED
        BY <3>1, <3>2 DEF NotifierTypeOK, KeptVars, Quiet
  <2>8. QED
      BY <1>8, <2>4, <2>6, <2>7, <1>a, <1>c, <1>e DEF JobRecord
<1>9. CASE JobPromote
  <2>1. job.pc = "promote" /\ job.pc \in RowPcs
      BY <1>9 DEF JobPromote, RowPcs, JobPcs
  <2>2. RematchTypeOK'
    <3>1. CASE job' = NextRow(job.cur)
        BY <3>1, <2>1, NextRowType, CurType
    <3>2. CASE Goto("alert_strong")
        BY <3>2, <2>1 DEF Goto, RematchTypeOK, Job, JobPcs, RowPcs
    <3>3. QED
        BY <1>9, <3>1, <3>2 DEF JobPromote
  <2>3. Slim(job.ms) \in SUBSET Candidate
      BY <2>1, CurType DEF Slim
  <2>4. StoreTypeOK'
      BY <1>9, <2>1, <2>3, <1>f, CurType, JobStatementsType DEF JobPromote, Statuses
  <2>5. QED
      BY <1>9, <2>2, <2>4, <1>a, <1>b, <1>c, <1>e DEF JobPromote
<1>10. ASSUME NEW kind \in Kinds, JobAlert(kind), job.pc \in RowPcs, job.pc # "record"
       PROVE  TypeOK'
  <2>1. RematchTypeOK'
      BY <1>10, NextRowType, CurType DEF JobAlert
  <2>2. mail' \in Mail \cup {None} /\ faults' \in 0..MaxFaults
      BY <1>10, <1>e, CurType, NotifyType DEF JobAlert
  <2>3. Top(job.ms).item \in Items /\ job.cur \in Reports
      BY <1>10, CurType DEF Candidate
  <2>4. <<Top(job.ms).item, kind>> \in Items \X Kinds
      BY <2>3, <1>10
  <2>5. told' \in [Reports -> SUBSET (Items \X Kinds)]
      BY <1>10, <2>3, <2>4 DEF JobAlert, NotifierTypeOK
  <2>6. NotifierTypeOK'
      BY <1>10, <2>2, <2>5 DEF JobAlert, NotifierTypeOK, KeptVars
  <2>7. QED
      BY <1>10, <2>1, <2>2, <2>6, <1>a, <1>c, <1>d DEF JobAlert
<1>11. CASE JobAlertStrong \/ JobAlertWeak
    BY <1>10, <1>11 DEF JobAlertStrong, JobAlertWeak, RowPcs, JobPcs, Kinds
<1>12. CASE JobRecall
  <2>1. job.pc = "recall" /\ job.pc \in RowPcs
      BY <1>12 DEF JobRecall, RowPcs, JobPcs
  <2>2. WeakNotified(job.cur) \in SUBSET Items
      BY <2>1, CurType DEF WeakNotified, StoreTypeOK, Row
  <2>3. RematchTypeOK'
      BY <1>12, <2>1, <2>2 DEF JobRecall, RematchTypeOK, Job, JobPcs, RowPcs
  <2>4. QED
      BY <1>12, <2>3, <1>a, <1>b, <1>c, <1>d, <1>e DEF JobRecall
<1>13. CASE JobMark
  <2>1. job.pc = "mark" /\ job.pc \in RowPcs
      BY <1>13 DEF JobMark, RowPcs, JobPcs
  <2>2. job.sent \cup {Top(job.ms).item} \in SUBSET Items
      BY <2>1, CurType DEF RematchTypeOK, Job, Candidate
  <2>3. StoreTypeOK'
      BY <1>13, <2>1, <2>2, <1>f, CurType, JobStatementsType DEF JobMark
  <2>4. RematchTypeOK'
      BY <1>13, <2>1 DEF JobMark, Goto, RematchTypeOK, Job, JobPcs, RowPcs
  <2>5. QED
      BY <1>13, <2>3, <2>4, <1>a, <1>b, <1>c, <1>e DEF JobMark
<1>14. CASE JobKeep
  <2>1. job.pc = "keep" /\ job.pc \in RowPcs
      BY <1>14 DEF JobKeep, RowPcs, JobPcs
  <2>2. Slim(job.ms) \in SUBSET Candidate
      BY <2>1, CurType DEF Slim
  <2>3. StoreTypeOK'
      BY <1>14, <2>1, <2>2, <1>f, CurType, JobStatementsType DEF JobKeep
  <2>4. RematchTypeOK'
      BY <1>14, <2>1 DEF JobKeep, Goto, RematchTypeOK, Job, JobPcs, RowPcs
  <2>5. QED
      BY <1>14, <2>3, <2>4, <1>a, <1>b, <1>c, <1>e DEF JobKeep
<1>15. ASSUME NEW r \in Reports, JobRowFails(r) PROVE TypeOK'
  <2>1. job.pc \in RowPcs \cup {"rows"}
      BY <1>15 DEF JobRowFails, Watched
  <2>2. RematchTypeOK'
      BY <1>15, <2>1, NextRowType DEF JobRowFails
  <2>3. faults' \in 0..MaxFaults
      BY <1>15, <1>e, FaultType DEF JobRowFails
  <2>4. QED
      BY <1>15, <2>2, <2>3, <1>a, <1>b, <1>c, <1>d DEF JobRowFails
<1>16. CASE JobCrash
  <2>1. RematchTypeOK'
      BY <1>16 DEF JobCrash, RematchTypeOK, JobIdle, NoRows, Job, JobPcs, RowPcs
  <2>2. faults' \in 0..MaxFaults
      BY <1>16, <1>e, FaultType DEF JobCrash
  <2>3. QED
      BY <1>16, <2>1, <2>2, <1>a, <1>b, <1>c, <1>d DEF JobCrash
<1>17. QED
    BY <1>1, <1>2, <1>3, <1>4, <1>5, <1>6, <1>7, <1>8, <1>9, <1>11, <1>12, <1>13, <1>14,
       <1>15, <1>16 DEF JobStep, JobFailure

(***************************************************************************)
(* The requests.                                                           *)
(***************************************************************************)
\* A thread that goes on with a well-typed request keeps Api well typed, as long as no link
\* is forgotten.
LEMMA ContinueType ==
    ASSUME ApiTypeOK, NEW t \in Threads, NEW rq \in Req, Holds(rq), Continue(t, rq),
           requests' \in 0..MaxRequests,
           \A k \in Tokens : issued[k] # None => issued'[k] # None
    PROVE  ApiTypeOK'
<1>1. req' \in [Threads -> Req] /\ \A s \in Threads : req'[s] = IF s = t THEN rq ELSE req[s]
    BY DEF Continue, ApiTypeOK
<1>2. ASSUME NEW s \in Threads PROVE Holds(req[s])'
  <2>1. Holds(req'[s])
      BY <1>1 DEF ApiTypeOK
  <2>2. req'[s] \in Req
      BY <1>1
  <2>3. QED
      BY <2>1, <2>2 DEF Holds, Req
<1>3. QED
    BY <1>1, <1>2 DEF ApiTypeOK

\* A thread without a request.
LEMMA IdleType == ReqIdle \in Req /\ Holds(ReqIdle)
BY DEF ReqIdle, Req, ReqPcs, Holds

\* A request that begins.
LEMMA BeginType ==
    ASSUME ApiTypeOK, NEW t \in Threads, NEW kind, NEW rq \in Req, Holds(rq), Begin(t, kind, rq),
           \A k \in Tokens : issued[k] # None => issued'[k] # None
    PROVE  ApiTypeOK'
<1>1. Continue(t, rq)
    BY DEF Begin, Continue
<1>2. requests' \in 0..MaxRequests
    BY ApiAssumption DEF ApiAssumption, ApiTypeOK, Begin
<1>3. QED
    BY <1>1, <1>2, ContinueType

\* The request of a thread at a step of its own.
LEMMA AtType ==
    ASSUME ApiTypeOK, NEW t \in Threads, NEW pc, At(t, pc), pc # "idle"
    PROVE  /\ req[t] \in Req /\ req[t].pc = pc /\ Holds(req[t])
           /\ req[t].r \in Reports
           /\ requests' \in 0..MaxRequests
BY DEF ApiTypeOK, At, Req, Holds

\* Steps that write no mail and no history.
LEMMA QuietType ==
    ASSUME NotifierTypeOK, Quiet, UNCHANGED <<issued, historyVars>>
    PROVE  NotifierTypeOK' /\ \A k \in Tokens : issued[k] # None => issued'[k] # None
BY DEF NotifierTypeOK, Quiet, historyVars

\* A change by the owner only touches the history.
LEMMA ForgetType ==
    ASSUME NotifierTypeOK, NEW r \in Reports, Forget(r), Quiet,
           UNCHANGED <<issued, consent, raced, judged>>
    PROVE  NotifierTypeOK'
BY DEF NotifierTypeOK, Quiet, Forget

\* A change that lets no alert be repeated only marks the report.
LEMMA TouchType ==
    ASSUME NotifierTypeOK, NEW r \in Reports, Touch(r), Quiet,
           UNCHANGED <<issued, consent, raced, judged>>
    PROVE  /\ NotifierTypeOK'
           /\ \A k \in Tokens : issued[k] # None => issued'[k] # None
BY DEF NotifierTypeOK, Quiet, Touch

\* The first step of each request.
LEMMA ArriveType ==
    ASSUME TypeOK, NEW t \in Threads, NEW r \in Reports, Arrive(t, r), UNCHANGED job
    PROVE  TypeOK'
<1> USE DEF TypeOK
<1>a. RematchTypeOK'
    BY DEF RematchTypeOK
<1>b. faults \in 0..MaxFaults
    BY DEF WorldTypeOK
<1>c. ASSUME UNCHANGED <<now, found>>, faults' \in 0..MaxFaults PROVE WorldTypeOK'
    BY <1>c DEF WorldTypeOK
<1>d. ASSUME UNCHANGED <<worldVars, storeVars>> PROVE WorldTypeOK' /\ StoreTypeOK'
    BY <1>d DEF WorldTypeOK, StoreTypeOK, worldVars, storeVars
<1>e. db[r] # None => db[r] \in Row
    BY DEF StoreTypeOK
<1>1. ASSUME NEW e \in Emails \cup {None}, NEW w \in BOOLEAN, Register(t, r, e, w) PROVE TypeOK'
  <2> DEFINE rq == IF e = None THEN ReqIdle
                   ELSE [ReqIdle EXCEPT !.pc = "link", !.r = r, !.email = e]
  <2>1. rq \in Req /\ Holds(rq)
    <3>1. CASE e = None
        BY <3>1, IdleType
    <3>2. CASE e # None
        BY <3>2, StoreAssumption DEF StoreAssumption, ReqIdle, Req, ReqPcs, Holds
    <3>3. QED
        BY <3>1, <3>2
  <2>2. PICK lost \in SUBSET Listed :
          /\ Judge(lost)
          /\ judged' = [judged EXCEPT ![r] = Listed \ lost]
          /\ Add(r, [BlankRow EXCEPT
                !.status = IF LevelOf(Judged(lost), FALSE) = "strong" THEN "candidate" ELSE "open",
                !.notify_weak = w /\ e # None,
                !.watch_until = WatchUntilAfter(0),
                !.matches = Slim(Judged(lost)),
                !.best_match = IF Judged(lost) = {} THEN None ELSE Top(Judged(lost)),
                !.graded_ids = GradedKeys(Judged(lost))])
      BY <1>1 DEF Register
  <2>3. Judged(lost) \subseteq Candidate
      BY JudgedType
  <2>4. Slim(Judged(lost)) \subseteq Candidate /\ GradedKeys(Judged(lost)) \subseteq Items
      BY <2>3, GradedKeysType DEF Slim
  <2>5. Judged(lost) # {} => Top(Judged(lost)) \in Candidate
      BY <2>3, TopIsBest
  <2>6. WatchUntilAfter(0) \in Nat
      BY WatchUntilType
  <2>7. BlankRow \in Row
      BY BlankRowType
  <2>8. StoreTypeOK'
      BY <2>2, <2>4, <2>5, <2>6, <2>7 DEF Add, StoreTypeOK, Row, Statuses
  <2>9. faults' \in 0..MaxFaults
      BY <2>2, <1>b, FaultType DEF Judge
  <2>10. Quiet /\ UNCHANGED <<now, found, issued, consent, raced, told, touched, undone>>
      BY <1>1 DEF Register
  <2>11. NotifierTypeOK'
      BY <2>2, <2>10 DEF NotifierTypeOK, Quiet, Listed
  <2>12. Begin(t, "register", rq)
      BY <1>1 DEF Register
  <2>13. ApiTypeOK'
      BY <2>1, <2>10, <2>12, BeginType
  <2>14. QED
      BY <1>a, <1>c, <2>8, <2>9, <2>10, <2>11, <2>13
<1>2. ASSUME NEW e \in Emails \cup {None}, NEW w \in BOOLEAN, NEW d \in DaysAsked,
             AlertsRead(t, r, e, w, d)
      PROVE  TypeOK'
  <2> DEFINE rq == [ReqIdle EXCEPT !.pc = "alerts_save", !.r = r, !.row = db[r],
                              !.email = e, !.weak = w /\ e # None, !.days = d]
  <2>a. db[r] \in Row /\ db[r] # None /\ d # None /\ r # None
      BY <1>2, <1>e, ApiAssumption, StoreAssumption
         DEF ApiAssumption, StoreAssumption, AlertsRead
  <2>b. rq \in Req
      BY <2>a DEF ReqIdle, Req, ReqPcs
  <2>c. rq.pc = "alerts_save" /\ rq.r = r /\ rq.row = db[r] /\ rq.days = d
      BY DEF ReqIdle
  <2>1. rq \in Req /\ Holds(rq)
      BY <2>a, <2>b, <2>c DEF Holds
  <2>2. Begin(t, "alerts", rq) /\ Quiet /\ UNCHANGED <<worldVars, storeVars, issued, historyVars>>
      BY <1>2 DEF AlertsRead
  <2>3. QED
      BY <2>1, <2>2, <1>a, <1>d, QuietType, BeginType
<1>3. ASSUME NEW k \in Tokens, VerifyFind(t, k, r) PROVE TypeOK'
  <2> DEFINE rq == [ReqIdle EXCEPT !.pc = "verify_mark", !.r = r, !.token = k]
  <2>1. rq \in Req /\ Holds(rq)
      BY <1>3, StoreAssumption DEF StoreAssumption, VerifyFind, ReqIdle, Req, ReqPcs, Holds
  <2>2. Begin(t, "verify", rq) /\ Quiet /\ UNCHANGED <<worldVars, storeVars, issued, historyVars>>
      BY <1>3 DEF VerifyFind
  <2>3. QED
      BY <2>1, <2>2, <1>a, <1>d, QuietType, BeginType
<1>4. ASSUME NEW i \in Items, ConfirmRead(t, r, i) PROVE TypeOK'
  <2> DEFINE rq == [ReqIdle EXCEPT !.pc = "confirm_write", !.r = r, !.row = db[r], !.item = i]
  <2>1. rq \in Req
      BY <1>4, <1>e DEF ConfirmRead, ReqIdle, Req, ReqPcs
  <2>2. rq.pc = "confirm_write" /\ rq.r = r /\ rq.row = db[r] /\ rq.item = i
      BY DEF ReqIdle
  <2>3. Holds(rq)
      BY <1>4, <2>2, StoreAssumption DEF StoreAssumption, ConfirmRead, Holds
  <2>4. Begin(t, "confirm", rq) /\ Quiet /\ UNCHANGED <<worldVars, storeVars, issued, historyVars>>
      BY <1>4 DEF ConfirmRead
  <2>5. QED
      BY <2>1, <2>3, <2>4, <1>a, <1>d, QuietType, BeginType
<1>5. ASSUME NEW i \in Items, DismissRead(t, r, i) PROVE TypeOK'
  <2> DEFINE rq == [ReqIdle EXCEPT !.pc = "dismiss_write", !.r = r, !.item = i,
                                   !.sent = Dismissed(r)]
  <2>1. Dismissed(r) \subseteq Items
      BY <1>e DEF Dismissed, Row
  <2>2. rq \in Req /\ Holds(rq)
      BY <2>1, StoreAssumption DEF StoreAssumption, ReqIdle, Req, ReqPcs, Holds
  <2>3. Begin(t, "dismiss", rq) /\ Quiet /\ UNCHANGED <<worldVars, storeVars, issued, historyVars>>
      BY <1>5 DEF DismissRead
  <2>4. QED
      BY <2>2, <2>3, <1>a, <1>d, QuietType, BeginType
<1>6. CASE DeleteReport(t, r)
  <2>1. /\ Begin(t, "delete", ReqIdle) /\ Quiet /\ Touch(r)
        /\ UNCHANGED <<worldVars, born, issued, consent, raced, judged>>
      BY <1>6 DEF DeleteReport
  <2>2. StoreTypeOK'
      BY <1>6, JobStatementsType DEF DeleteReport
  <2>3. WorldTypeOK'
      BY <2>1, <1>b, <1>c DEF worldVars
  <2>4. QED
      BY <2>1, <2>2, <2>3, <1>a, IdleType, TouchType, BeginType
<1>7. QED
    BY <1>1, <1>2, <1>3, <1>4, <1>5, <1>6 DEF Arrive

\* The later steps of each request.
LEMMA ThreadType ==
    ASSUME TypeOK, NEW t \in Threads, ThreadStep(t), UNCHANGED job
    PROVE  TypeOK'
<1> USE DEF TypeOK
<1> DEFINE rq == req[t]
<1>a. RematchTypeOK'
    BY DEF RematchTypeOK
<1>b. faults \in 0..MaxFaults /\ now \in Nat
    BY DEF WorldTypeOK
<1>c. ASSUME UNCHANGED <<now, found>>, faults' \in 0..MaxFaults PROVE WorldTypeOK'
    BY <1>c DEF WorldTypeOK
<1>d. ASSUME UNCHANGED worldVars PROVE WorldTypeOK'
    BY <1>d DEF WorldTypeOK, worldVars
<1>e. ASSUME UNCHANGED storeVars PROVE StoreTypeOK'
    BY <1>e DEF StoreTypeOK, storeVars
<1>f. ASSUME Done(t), requests' \in 0..MaxRequests,
             \A k \in Tokens : issued[k] # None => issued'[k] # None
      PROVE  ApiTypeOK'
    BY <1>f, IdleType, ContinueType DEF Done
<1>1. ASSUME NEW k \in Tokens, SendLink(t, k) PROVE TypeOK'
  <2>1. rq \in Req /\ rq.r \in Reports /\ Holds(rq) /\ rq.pc = "link"
        /\ requests' \in 0..MaxRequests
      BY <1>1, AtType DEF SendLink
  <2>2. rq.email \in Emails
      BY <2>1 DEF Req, Holds
  <2>3. StoreTypeOK'
    <3>1. now + VerifyFor \in Nat
        BY <1>b, StoreAssumption DEF StoreAssumption
    <3>2. SetPendingEmail(rq.r, rq.email, k, now + VerifyFor) /\ UNCHANGED born
        BY <1>1 DEF SendLink
    <3>3. QED
        BY <3>1, <3>2, <2>1, <2>2, RequestStatementsType
  <2>4. PICK delivered \in BOOLEAN :
          /\ issued' = [issued EXCEPT ![k] = [r |-> rq.r, email |-> rq.email,
                                  delivered |-> delivered, accepted |-> FALSE]]
          /\ IF delivered THEN UNCHANGED faults ELSE Fault
      BY <1>1 DEF SendLink, SendLinkTo
  <2>5. faults' \in 0..MaxFaults
      BY <2>4, <1>b, FaultType
  <2>6. [r |-> rq.r, email |-> rq.email, delivered |-> delivered, accepted |-> FALSE] \in Link
      BY <2>1, <2>2 DEF Link
  <2>7. NotifierTypeOK'
    <3>1. raced' \in {raced, [raced EXCEPT ![rq.r] = raced[rq.r] \cup {rq.email}]}
        BY <1>1 DEF SendLink
    <3>2. raced' \in [Reports -> SUBSET Emails]
        BY <2>1, <2>2, <3>1 DEF NotifierTypeOK
    <3>3. QED
        BY <1>1, <2>1, <2>4, <2>6, <3>2 DEF SendLink, NotifierTypeOK, Quiet, Touch
  <2>8. \A kk \in Tokens : issued[kk] # None => issued'[kk] # None
      BY <1>1, <2>4 DEF SendLink, NotifierTypeOK
  <2>9. ApiTypeOK'
      BY <1>1, <2>1, <2>8, <1>f DEF SendLink
  <2>10. QED
      BY <1>1, <2>3, <2>5, <2>7, <2>9, <1>a, <1>c DEF SendLink
<1>2. CASE LinkRefused(t)
    BY <1>2, <1>a, <1>d, <1>e, <1>f, AtType, QuietType DEF LinkRefused
<1>3. CASE AlertsSave(t)
  <2>1. rq \in Req /\ rq.r \in Reports /\ Holds(rq) /\ rq.pc = "alerts_save"
        /\ requests' \in 0..MaxRequests
      BY <1>3, AtType DEF AlertsSave
  <2>2. rq.row \in Row /\ rq.days \in DaysAsked /\ rq.weak \in BOOLEAN
      BY <2>1 DEF Req, Holds
  <2>3. WatchUntilAfter(rq.days) \in Nat
      BY <2>2, WatchUntilType, ApiAssumption DEF ApiAssumption
  <2>4. UNCHANGED <<worldVars, born, issued, consent, raced, judged>> /\ Quiet /\ Forget(rq.r)
      BY <1>3 DEF AlertsSave
  <2>5. StoreTypeOK'
    <3> DEFINE st == IF rq.row.status = "expired" THEN "open" ELSE None
    <3>1. UpdateAlerts(rq.r, rq.weak, WatchUntilAfter(rq.days), st)
        BY <1>3 DEF AlertsSave
    <3>2. st \in {"open", None}
        OBVIOUS
    <3>3. QED
        BY <3>1, <3>2, <2>1, <2>2, <2>3, <2>4, RequestStatementsType
  <2>6. NotifierTypeOK'
      BY <2>1, <2>4, ForgetType
  <2>7. ApiTypeOK'
    <3> DEFINE nxt == [rq EXCEPT !.pc = IF rq.email = None THEN "alerts_clear" ELSE "link",
                                 !.row = None, !.days = None, !.weak = FALSE]
    <3>1. CASE Done(t)
        BY <3>1, <2>1, <2>4, <1>f
    <3>2. CASE Continue(t, nxt)
      <4>1. nxt \in Req
          BY <2>1 DEF Req, ReqPcs
      <4>2. nxt.pc = (IF rq.email = None THEN "alerts_clear" ELSE "link")
            /\ nxt.r = rq.r /\ nxt.email = rq.email
          BY <2>1 DEF Req
      <4>3. Holds(nxt)
          BY <4>2, <2>1 DEF Holds
      <4>4. QED
          BY <3>2, <4>1, <4>3, <2>1, <2>4, ContinueType
    <3>3. QED
        BY <1>3, <3>1, <3>2 DEF AlertsSave
  <2>8. QED
      BY <2>4, <2>5, <2>6, <2>7, <1>a, <1>d
<1>4. CASE AlertsClear(t)
  <2>1. rq.r \in Reports /\ requests' \in 0..MaxRequests
      BY <1>4, AtType DEF AlertsClear
  <2>2. StoreTypeOK'
      BY <1>4, <2>1, RequestStatementsType DEF AlertsClear
  <2>3. QED
      BY <1>4, <2>1, <2>2, <1>a, <1>d, <1>f, TouchType DEF AlertsClear
<1>5. CASE VerifyMark(t)
  <2>1. rq \in Req /\ rq.r \in Reports /\ Holds(rq) /\ rq.pc = "verify_mark"
        /\ requests' \in 0..MaxRequests
      BY <1>5, AtType DEF VerifyMark
  <2>2. rq.token \in Tokens /\ issued[rq.token] \in Link
      BY <2>1 DEF Req, Holds, NotifierTypeOK
  <2>3. StoreTypeOK'
      BY <1>5, <2>1, RequestStatementsType DEF VerifyMark
  <2>5. issued' = [issued EXCEPT ![rq.token] = [issued[rq.token] EXCEPT !.accepted = TRUE]]
      BY <1>5 DEF VerifyMark
  <2>4. NotifierTypeOK'
    <3>1. [issued[rq.token] EXCEPT !.accepted = TRUE] \in Link
        BY <2>2 DEF Link
    <3>2. issued' \in [Tokens -> Link \cup {None}]
        BY <2>5, <3>1 DEF NotifierTypeOK
    <3>3. consent' = [consent EXCEPT ![rq.r] = @ \cup {issued[rq.token].email}]
        BY <1>5 DEF VerifyMark
    <3>4. consent' \in [Reports -> SUBSET Emails]
        BY <2>1, <2>2, <3>3 DEF NotifierTypeOK, Link
    <3>5. Quiet /\ Forget(rq.r) /\ UNCHANGED <<raced, judged>>
        BY <1>5 DEF VerifyMark
    <3>6. /\ told' \in [Reports -> SUBSET (Items \X Kinds)]
          /\ touched' \subseteq Reports /\ undone' \subseteq Reports
        BY <2>1, <3>5 DEF NotifierTypeOK, Forget
    <3>7. QED
        BY <3>2, <3>4, <3>5, <3>6 DEF NotifierTypeOK, Quiet
  <2>6. \A k \in Tokens : issued[k] # None => issued'[k] # None
    <3>1. issued'[rq.token] \in Link
        BY <2>2, <2>5 DEF NotifierTypeOK, Link
    <3>2. None \notin Link
        BY NullIsNoLink
    <3>3. QED
        BY <3>1, <3>2, <2>2, <2>5 DEF NotifierTypeOK
  <2> DEFINE nxt == [rq EXCEPT !.pc = "verify_reload"]
  <2>7. nxt \in Req
      BY <2>1 DEF Req, ReqPcs
  <2>8. nxt.pc = "verify_reload" /\ nxt.r = rq.r /\ nxt.token = rq.token
      BY <2>1 DEF Req
  <2>9. Holds(nxt)
      BY <2>8, <2>1 DEF Holds
  <2>10. ApiTypeOK'
      BY <1>5, <2>1, <2>6, <2>7, <2>9, ContinueType DEF VerifyMark
  <2>11. QED
      BY <1>5, <2>3, <2>4, <2>10, <1>a, <1>d DEF VerifyMark
<1>6. CASE VerifyReload(t)
  <2>1. rq \in Req /\ rq.r \in Reports /\ Holds(rq) /\ rq.pc = "verify_reload"
        /\ requests' \in 0..MaxRequests
      BY <1>6, AtType DEF VerifyReload
  <2>2. UNCHANGED <<worldVars, storeVars, issued, historyVars>> /\ Quiet
      BY <1>6 DEF VerifyReload
  <2> DEFINE nxt == [rq EXCEPT !.pc = "verify_notify", !.row = db[rq.r], !.token = None]
  <2>3. ASSUME db[rq.r] # None, ResultLevel(db[rq.r]) # None, Continue(t, nxt) PROVE ApiTypeOK'
    <3>1. db[rq.r] \in Row
        BY <2>1, <2>3 DEF StoreTypeOK
    <3>2. nxt \in Req
        BY <2>1, <3>1 DEF Req, ReqPcs
    <3>3. nxt.pc = "verify_notify" /\ nxt.r = rq.r /\ nxt.row = db[rq.r]
        BY <2>1 DEF Req
    <3>4. Holds(nxt)
        BY <2>3, <3>3, <2>1 DEF Holds
    <3>5. QED
        BY <2>1, <2>2, <2>3, <3>2, <3>4, ContinueType
  <2>4. ApiTypeOK'
      BY <1>6, <2>1, <2>2, <2>3, <1>f DEF VerifyReload
  <2>5. QED
      BY <2>2, <2>4, <1>a, <1>d, <1>e, QuietType
<1>7. CASE VerifyNotify(t)
  <2>1. rq \in Req /\ rq.r \in Reports /\ Holds(rq) /\ rq.pc = "verify_notify"
        /\ requests' \in 0..MaxRequests
      BY <1>7, AtType DEF VerifyNotify
  <2>2. rq.row \in Row /\ ResultLevel(rq.row) # None
      BY <2>1 DEF Req, Holds
  <2>3. ResultLevel(rq.row) \in Kinds /\ rq.row.matches # {}
      BY <2>2, LevelNeedsCandidate DEF ResultLevel, Kinds
  <2>4. rq.row.matches \subseteq Candidate
      BY <2>2 DEF Row
  <2>5. Notify(rq.r, rq.row, rq.row.matches, ResultLevel(rq.row), "verify")
      BY <1>7 DEF VerifyNotify
  <2>6. mail' \in Mail \cup {None} /\ faults' \in 0..MaxFaults
      BY <2>1, <2>2, <2>3, <2>4, <2>5, <1>b, NotifyType
  <2>7. UNCHANGED <<now, found, storeVars, issued, historyVars>>
      BY <1>7 DEF VerifyNotify
  <2>8. NotifierTypeOK'
      BY <2>6, <2>7 DEF NotifierTypeOK, historyVars
  <2> DEFINE nxt == [rq EXCEPT !.pc = "verify_recall", !.row = None,
                               !.item = Top(rq.row.matches).item]
  <2>9. ASSUME Continue(t, nxt) PROVE ApiTypeOK'
    <3>1. Top(rq.row.matches).item \in Items
        BY <2>3, <2>4, TopIsBest DEF Candidate
    <3>2. nxt \in Req
        BY <2>1, <3>1 DEF Req, ReqPcs
    <3>3. nxt.pc = "verify_recall" /\ nxt.r = rq.r /\ nxt.item = Top(rq.row.matches).item
        BY <2>1 DEF Req
    <3>4. nxt.item # None
        BY <3>1, <3>3, StoreAssumption DEF StoreAssumption
    <3>5. Holds(nxt)
        BY <3>3, <3>4, <2>1 DEF Holds
    <3>6. QED
        BY <2>1, <2>7, <2>9, <3>2, <3>5, ContinueType
  <2>10. ApiTypeOK'
      BY <1>7, <2>1, <2>7, <2>9, <1>f DEF VerifyNotify
  <2>11. QED
      BY <2>6, <2>7, <2>8, <2>10, <1>a, <1>c, <1>e
<1>8. CASE VerifyRecall(t)
  <2>1. rq \in Req /\ rq.r \in Reports /\ Holds(rq) /\ rq.pc = "verify_recall"
        /\ requests' \in 0..MaxRequests
      BY <1>8, AtType DEF VerifyRecall
  <2>2. WeakNotified(rq.r) \subseteq Items
      BY <2>1 DEF WeakNotified, StoreTypeOK, Row
  <2> DEFINE nxt == [rq EXCEPT !.pc = "verify_record", !.sent = WeakNotified(rq.r)]
  <2>3. nxt \in Req
      BY <2>1, <2>2 DEF Req, ReqPcs
  <2>4. nxt.pc = "verify_record" /\ nxt.r = rq.r /\ nxt.item = rq.item
      BY <2>1 DEF Req
  <2>5. Holds(nxt)
      BY <2>4, <2>1 DEF Holds
  <2>6. ApiTypeOK'
      BY <1>8, <2>1, <2>3, <2>5, ContinueType DEF VerifyRecall
  <2>7. QED
      BY <1>8, <2>6, <1>a, <1>d, <1>e, QuietType DEF VerifyRecall
<1>9. CASE VerifyRecord(t)
  <2>1. rq \in Req /\ rq.r \in Reports /\ Holds(rq) /\ rq.pc = "verify_record"
        /\ requests' \in 0..MaxRequests
      BY <1>9, AtType DEF VerifyRecord
  <2>2. rq.sent \cup {rq.item} \in SUBSET Items
      BY <2>1 DEF Req, Holds
  <2>3. StoreTypeOK'
      BY <1>9, <2>1, <2>2, JobStatementsType DEF VerifyRecord
  <2>4. NotifierTypeOK'
    <3>1. UNCHANGED <<issued, consent, raced, judged>> /\ Quiet
        BY <1>9 DEF VerifyRecord
    <3>2. /\ told' \in {told, [told EXCEPT ![rq.r] = {}]}
          /\ touched' \in {touched, touched \cup {rq.r}}
          /\ undone' \in {undone, undone \cup {rq.r}}
        BY <1>9 DEF VerifyRecord
    <3>3. QED
        BY <2>1, <3>1, <3>2 DEF NotifierTypeOK, Quiet
  <2>5. QED
      BY <1>9, <2>1, <2>3, <2>4, <1>a, <1>d, <1>f DEF VerifyRecord
<1>10. CASE ConfirmWrite(t)
  <2>1. rq \in Req /\ rq.r \in Reports /\ Holds(rq) /\ rq.pc = "confirm_write"
        /\ requests' \in 0..MaxRequests
      BY <1>10, AtType DEF ConfirmWrite
  <2>2. rq.row \in Row /\ Stored(rq.row, rq.item) # {}
      BY <2>1 DEF Req, Holds
  <2>3. Stored(rq.row, rq.item) \subseteq Candidate
      BY <2>2 DEF Stored, Row
  <2>4. (CHOOSE m \in Stored(rq.row, rq.item) : TRUE) \in Candidate
      BY <2>2, <2>3
  <2>5. StoreTypeOK'
      BY <1>10, <2>1, <2>4, RequestStatementsType DEF ConfirmWrite
  <2>6. QED
      BY <1>10, <2>1, <2>5, <1>a, <1>d, <1>f, TouchType DEF ConfirmWrite
<1>11. CASE DismissWrite(t)
  <2>1. rq \in Req /\ rq.r \in Reports /\ Holds(rq) /\ rq.pc = "dismiss_write"
        /\ requests' \in 0..MaxRequests
      BY <1>11, AtType DEF DismissWrite
  <2>2. rq.sent \cup {rq.item} \in SUBSET Items
      BY <2>1 DEF Req, Holds
  <2>3. StoreTypeOK'
      BY <1>11, <2>1, <2>2, RequestStatementsType DEF DismissWrite
  <2>4. NotifierTypeOK'
      BY <1>11, <2>1, ForgetType DEF DismissWrite
  <2>5. QED
      BY <1>11, <2>1, <2>3, <2>4, <1>a, <1>d, <1>f DEF DismissWrite
<1>12. QED
    BY <1>1, <1>2, <1>3, <1>4, <1>5, <1>6, <1>7, <1>8, <1>9, <1>10, <1>11 DEF ThreadStep

\* The world and a restart of the API.
LEMMA OtherType ==
    ASSUME TypeOK, \/ WorldStep
                   \/ ApiRestart /\ UNCHANGED job
    PROVE  TypeOK'
<1> USE DEF TypeOK
<1>1. CASE WorldStep
  <2>1. UNCHANGED <<storeVars, issued, historyVars, job, apiVars>> /\ Quiet
      BY <1>1 DEF WorldStep
  <2>2. WorldTypeOK'
      BY <1>1 DEF WorldStep, WorldTypeOK, Tick, Collect
  <2>3. StoreTypeOK'
      BY <2>1 DEF StoreTypeOK, storeVars
  <2>4. RematchTypeOK'
      BY <2>1 DEF RematchTypeOK
  <2>5. ApiTypeOK'
      BY <2>1 DEF ApiTypeOK, apiVars, Holds
  <2>6. QED
      BY <2>1, <2>2, <2>3, <2>4, <2>5, QuietType
<1>2. CASE ApiRestart /\ UNCHANGED job
  <2>1. /\ UNCHANGED <<now, found, storeVars, issued, historyVars, job, requests>> /\ Quiet
        /\ Fault /\ req' = [t \in Threads |-> ReqIdle]
      BY <1>2 DEF ApiRestart
  <2>2. faults' \in 0..MaxFaults
      BY <2>1, FaultType DEF WorldTypeOK
  <2>3. WorldTypeOK' /\ StoreTypeOK' /\ RematchTypeOK'
      BY <2>1, <2>2 DEF WorldTypeOK, StoreTypeOK, storeVars, RematchTypeOK
  <2>4. ApiTypeOK'
    <3>1. \A t \in Threads : Holds(req[t])'
        BY <2>1 DEF Holds, ReqIdle
    <3>2. QED
        BY <2>1, <3>1, IdleType DEF ApiTypeOK
  <2>5. QED
      BY <2>1, <2>3, <2>4, QuietType
<1>3. QED
    BY <1>1, <1>2

\* A step that changes nothing.
LEMMA StutterType == TypeOK /\ UNCHANGED vars => TypeOK'
BY DEF TypeOK, vars, WorldTypeOK, StoreTypeOK, NotifierTypeOK, RematchTypeOK, ApiTypeOK, Holds,
       worldVars, storeVars, mailVars, historyVars, apiVars

(***************************************************************************)
(* Every column, mail, job variable and request stays what the code takes  *)
(* it for, under every interleaving: in particular the job never works on  *)
(* a report without a snapshot row, never takes the best of no candidates, *)
(* and a thread never uses a row or an argument it has not read.           *)
(***************************************************************************)
THEOREM TypeCorrect == Spec => []TypeOK
<1>1. Init => TypeOK
    BY InitType
<1>2. TypeOK /\ [Next]_vars => TypeOK'
  <2> SUFFICES ASSUME TypeOK, [Next]_vars PROVE TypeOK'
      OBVIOUS
  <2>1. CASE WorldStep
      BY <2>1, OtherType
  <2>2. CASE (JobStep \/ JobFailure) /\ UNCHANGED apiVars
      BY <2>2, JobType
  <2>3. CASE ApiStep /\ UNCHANGED job
      BY <2>3, ThreadType, ArriveType DEF ApiStep
  <2>4. CASE ApiRestart /\ UNCHANGED job
      BY <2>4, OtherType
  <2>5. CASE UNCHANGED vars
      BY <2>5, StutterType
  <2>6. QED
      BY <2>1, <2>2, <2>3, <2>4, <2>5 DEF Next
<1>3. QED
    BY <1>1, <1>2, PTL DEF Spec

-------------------------------------------------------------------------------
(***************************************************************************)
(* Part 2.  Double opt-in, with the job running beside any number of       *)
(* requests at once, for all reports, items, addresses and tokens.  What a *)
(* confirmation marks is the address that the report has by then; raced    *)
(* keeps those that were saved meanwhile (see the run UnconfirmedMail).    *)
(* Last, FindIt implements OptIn.                                          *)
(***************************************************************************)
\* A verified row has its owner's consent, or an address saved during a confirmation; a
\* pending link is that of the row's address and has not been used.
RowConsented(r, row) ==
    /\ CanEmail(row) => row.email \in Confirmable(r)
    /\ row.verify_hash # None => /\ issued[row.verify_hash] # None
                                 /\ issued[row.verify_hash].r = r
                                 /\ issued[row.verify_hash].email = row.email
                                 /\ ~issued[row.verify_hash].accepted
                                 /\ ~row.email_verified

RowsConsented == \A r \in Reports : db[r] # None => RowConsented(r, db[r])

\* The steps of the job that lead to a mail.
MailPcs == {"alert_strong", "recall", "mark", "keep", "alert_weak"}

\* The snapshot may be old, but consent is never taken back.
JobConsented ==
    /\ \A r \in Reports : job.rows[r] # None /\ CanEmail(job.rows[r]) =>
           job.rows[r].email \in Confirmable(r)
    /\ job.pc \in MailPcs => CanEmail(CurRow)

\* The address of r, as a confirmation of r with link k finds it.
AddressSettled(r, k) ==
    db[r] # None => db[r].email \in {None, issued[k].email} \cup Confirmable(r)

\* While a report is being confirmed, no address is saved for it that raced does not keep.
ReqConsented(rq) ==
    /\ rq.pc \in {"verify_mark", "verify_reload"} =>
          /\ issued[rq.token].r = rq.r
          /\ AddressSettled(rq.r, rq.token)
    /\ rq.pc = "verify_reload" => issued[rq.token].email \in Confirmable(rq.r)
    /\ rq.pc = "verify_notify" => rq.row.email \in {None} \cup Confirmable(rq.r)

RequestsConsented == \A t \in Threads : ReqConsented(req[t])

ConsentInv == /\ RowsConsented /\ JobConsented /\ RequestsConsented
              /\ ResultMailIsConsented

(***************************************************************************)
(* Statements that leave the addresses alone.                              *)
(***************************************************************************)
SameAddresses ==
    \A r \in Reports : db'[r] # None =>
        /\ db[r] # None
        /\ db'[r].email = db[r].email
        /\ db'[r].email_verified = db[r].email_verified
        /\ db'[r].verify_hash = db[r].verify_hash

\* A statement that writes other columns leaves the addresses alone.
LEMMA WriteSame ==
    ASSUME StoreTypeOK, NEW r \in Reports, NEW row, Write(r, row),
           db[r] # None => /\ row.email = db[r].email
                           /\ row.email_verified = db[r].email_verified
                           /\ row.verify_hash = db[r].verify_hash
    PROVE  SameAddresses
BY DEF StoreTypeOK, Write, SameAddresses

\* The statements other than those of set_pending_email, mark_verified and add.
LEMMA StatementSame ==
    ASSUME StoreTypeOK, NEW r \in Reports,
           \/ UNCHANGED db
           \/ Delete(r)
           \/ \E st : SetStatus(r, st)
           \/ \E keys : SetGraded(r, keys)
           \/ \E m, ms, st : UpdateMatch(r, m, st, ms)
           \/ \E ms : SetMatches(r, ms)
           \/ \E sent : SetWeakNotified(r, sent)
           \/ \E w, u, st : UpdateAlerts(r, w, u, st)
           \/ \E m : Confirm(r, m)
           \/ \E dis : SetDismissed(r, dis)
    PROVE  SameAddresses
<1>a. db[r] # None => db[r] \in Row
    BY DEF StoreTypeOK
<1>1. CASE UNCHANGED db \/ Delete(r)
    BY <1>1 DEF StoreTypeOK, Delete, SameAddresses
<1>2. ASSUME NEW st, SetStatus(r, st) PROVE SameAddresses
    BY <1>2, <1>a, WriteSame DEF SetStatus, Row
<1>3. ASSUME NEW keys, SetGraded(r, keys) PROVE SameAddresses
  <2>1. PICK kept \in SUBSET keys : Write(r, [db[r] EXCEPT !.graded_ids = kept])
      BY <1>3 DEF SetGraded
  <2>2. QED
      BY <2>1, <1>a, WriteSame DEF Row
<1>4. ASSUME NEW m, NEW ms, NEW st, UpdateMatch(r, m, st, ms) PROVE SameAddresses
    BY <1>4, <1>a, WriteSame DEF UpdateMatch, Row
<1>5. ASSUME NEW ms, SetMatches(r, ms) PROVE SameAddresses
    BY <1>5, <1>a, WriteSame DEF SetMatches, Row
<1>6. ASSUME NEW sent, SetWeakNotified(r, sent) PROVE SameAddresses
    BY <1>6, <1>a, WriteSame DEF SetWeakNotified, Row
<1>7. ASSUME NEW w, NEW u, NEW st, UpdateAlerts(r, w, u, st) PROVE SameAddresses
    BY <1>7, <1>a, WriteSame DEF UpdateAlerts, Row
<1>8. ASSUME NEW m, Confirm(r, m) PROVE SameAddresses
    BY <1>8, <1>a, WriteSame DEF Confirm, Row
<1>9. ASSUME NEW dis, SetDismissed(r, dis) PROVE SameAddresses
    BY <1>9, <1>a, WriteSame DEF SetDismissed, Row
<1>10. QED
    BY <1>1, <1>2, <1>3, <1>4, <1>5, <1>6, <1>7, <1>8, <1>9

\* What never goes back: consent, and where a link went.
Forward ==
    /\ \A r \in Reports : Confirmable(r) \subseteq Confirmable(r)'
    /\ \A k \in Tokens : issued[k] # None => /\ issued'[k].r = issued[k].r
                                             /\ issued'[k].email = issued[k].email

\* An address is saved while the report is not being confirmed, or raced keeps it.
Guarded ==
    \A r \in Reports : db'[r] # None =>
        \/ db[r] # None /\ db'[r].email = db[r].email
        \/ db'[r].email \in {None} \cup Confirmable(r)'
        \/ ~Confirming(r)

LEMMA StaysForward ==
    ASSUME UNCHANGED <<issued, consent, raced>>
    PROVE  Forward
BY DEF Forward, Confirmable

LEMMA SameGuarded == SameAddresses => Guarded
BY DEF SameAddresses, Guarded

\* A request that a step leaves alone.
LEMMA OtherRequest ==
    ASSUME TypeOK, RequestsConsented, Forward, Guarded, NEW t \in Threads, req'[t] = req[t]
    PROVE  ReqConsented(req[t])'
<1> DEFINE rq == req[t]
<1>1. ReqConsented(rq) /\ Holds(rq) /\ rq \in Req
    BY DEF RequestsConsented, TypeOK, ApiTypeOK
<1>2. rq.pc # "idle" => rq.r \in Reports
    BY <1>1 DEF Holds, Req
<1>3. CASE rq.pc \in {"verify_mark", "verify_reload"}
  <2>1. rq.r \in Reports /\ Confirming(rq.r)
      BY <1>2, <1>3 DEF Confirming
  <2>2. rq.token \in Tokens /\ issued[rq.token] # None
      BY <1>1, <1>3 DEF Holds, Req
  <2>3. issued'[rq.token].r = rq.r /\ issued'[rq.token].email = issued[rq.token].email
      BY <1>1, <1>3, <2>2 DEF Forward, ReqConsented
  <2>4. Confirmable(rq.r) \subseteq Confirmable(rq.r)'
      BY <2>1 DEF Forward
  <2>5. AddressSettled(rq.r, rq.token)
      BY <1>1, <1>3 DEF ReqConsented
  <2>6. db'[rq.r] # None =>
            db'[rq.r].email \in {None, issued'[rq.token].email} \cup Confirmable(rq.r)'
      BY <2>1, <2>3, <2>4, <2>5 DEF Guarded, AddressSettled
  <2>7. rq.pc = "verify_reload" => issued'[rq.token].email \in Confirmable(rq.r)'
      BY <1>1, <2>3, <2>4 DEF ReqConsented
  <2>8. QED
      BY <1>3, <2>3, <2>6, <2>7 DEF ReqConsented, AddressSettled
<1>4. CASE rq.pc = "verify_notify"
    BY <1>1, <1>2, <1>4 DEF ReqConsented, Forward
<1>5. CASE rq.pc \notin {"verify_mark", "verify_reload", "verify_notify"}
    BY <1>5 DEF ReqConsented
<1>6. QED
    BY <1>3, <1>4, <1>5

\* While addresses, links and consent stay, so do the rows' and the requests' guarantees.
LEMMA SameKeeps ==
    ASSUME TypeOK, SameAddresses, UNCHANGED <<issued, consent, raced>>
    PROVE  /\ RowsConsented => RowsConsented'
           /\ RequestsConsented /\ UNCHANGED req => RequestsConsented'
<1>1. RowsConsented => RowsConsented'
    BY DEF RowsConsented, RowConsented, SameAddresses, CanEmail, Confirmable
<1>2. ASSUME RequestsConsented, UNCHANGED req PROVE RequestsConsented'
    BY <1>2, StaysForward, SameGuarded, OtherRequest DEF RequestsConsented
<1>3. QED
    BY <1>1, <1>2

\* A step that sends no mail.
LEMMA QuietKeeps == Quiet => ResultMailIsConsented'
BY DEF Quiet, ResultMailIsConsented

(***************************************************************************)
(* The job.                                                                *)
(***************************************************************************)
\* The job works on with the same snapshot; it heads for a mail only with a verified row.
LEMMA SnapshotKeeps ==
    ASSUME JobConsented, UNCHANGED <<consent, raced>>, job'.rows = job.rows,
           job'.pc \in MailPcs => job'.cur = job.cur /\ CanEmail(CurRow)
    PROVE  JobConsented'
BY DEF JobConsented, CurRow, CanEmail, Confirmable

\* The job drops a report, or everything, from its snapshot.
LEMMA LeaveKeeps ==
    ASSUME RematchTypeOK, JobConsented, UNCHANGED <<consent, raced>>,
           job' = JobIdle \/ \E r \in Reports : job' = NextRow(r)
    PROVE  JobConsented'
<1>1. CASE job' = JobIdle
    BY <1>1 DEF JobConsented, JobIdle, NoRows, MailPcs, CanEmail, CurRow, Confirmable
<1>2. ASSUME NEW r \in Reports, job' = NextRow(r) PROVE JobConsented'
    BY <1>2 DEF RematchTypeOK, Job, JobConsented, NextRow, MailPcs, CanEmail, CurRow, Confirmable
<1>3. QED
    BY <1>1, <1>2

\* An alert goes to the address of the snapshot row.
LEMMA AlertKeeps ==
    ASSUME TypeOK, JobConsented, job.pc \in MailPcs, NEW kind, JobAlert(kind)
    PROVE  ResultMailIsConsented'
<1>1. job.pc \in RowPcs
    BY DEF MailPcs, RowPcs, JobPcs
<1>2. job.cur \in Reports /\ CurRow # None
    BY <1>1, CurType DEF TypeOK, RematchTypeOK, Job, CurRow
<1>3. CurRow.email \in Confirmable(job.cur)
    BY <1>2 DEF JobConsented, CurRow
<1>4. mail' = None \/ (mail'.to = CurRow.email /\ mail'.r = job.cur)
    BY DEF JobAlert, Notify, Quiet
<1>5. UNCHANGED <<consent, raced>>
    BY DEF JobAlert, KeptVars
<1>6. QED
    BY <1>3, <1>4, <1>5 DEF ResultMailIsConsented, Confirmable

\* No step of the job takes the consent away.
LEMMA JobConsent ==
    ASSUME TypeOK, ConsentInv, JobStep \/ JobFailure, UNCHANGED apiVars
    PROVE  ConsentInv'
<1> USE DEF ConsentInv
<1>a. StoreTypeOK /\ RematchTypeOK
    BY DEF TypeOK
<1>b. ASSUME UNCHANGED KeptVars, SameAddresses, JobConsented', ResultMailIsConsented'
      PROVE  ConsentInv'
  <2>1. UNCHANGED <<issued, consent, raced>> /\ UNCHANGED req
      BY <1>b DEF KeptVars, apiVars
  <2>2. QED
      BY <1>b, <2>1, SameKeeps
<1>c. ASSUME UNCHANGED db PROVE SameAddresses
    BY <1>c DEF SameAddresses
<1>d. UNCHANGED KeptVars => UNCHANGED <<consent, raced>>
    BY DEF KeptVars
<1>e. job.pc \in RowPcs => job.cur \in Reports
    BY <1>a, CurType
<1>1. CASE JobStart
  <2>1. JobConsented'
      BY <1>1, <1>a, <1>d, SnapshotKeeps DEF JobStart, RematchTypeOK, Job, MailPcs
  <2>2. QED
      BY <1>1, <1>b, <1>c, <2>1, QuietKeeps DEF JobStart
<1>2. ASSUME NEW r \in Reports, JobPurge(r) PROVE ConsentInv'
  <2>1. SameAddresses
      BY <1>2, <1>a, StatementSame DEF JobPurge
  <2>2. JobConsented'
      BY <1>2, <1>a, <1>d, SnapshotKeeps DEF JobPurge, RematchTypeOK, Job, MailPcs
  <2>3. QED
      BY <1>2, <1>b, <2>1, <2>2, QuietKeeps DEF JobPurge
<1>3. CASE JobList
  <2>1. \A r \in Reports : job'.rows[r] = db[r] \/ job'.rows[r] = None
      BY <1>3, <1>a DEF JobList, RematchTypeOK, Job
  <2>2. job'.pc \notin MailPcs
      BY <1>3, <1>a DEF JobList, RematchTypeOK, Job, MailPcs
  <2>3. UNCHANGED <<consent, raced>>
      BY <1>3, <1>d DEF JobList
  <2>4. JobConsented'
      BY <2>1, <2>2, <2>3 DEF JobConsented, RowsConsented, RowConsented, CanEmail, Confirmable
  <2>5. QED
      BY <1>3, <1>b, <1>c, <2>4, QuietKeeps DEF JobList
<1>4. ASSUME NEW r \in Reports, JobExpire(r) PROVE ConsentInv'
  <2>1. SameAddresses
      BY <1>4, <1>a, StatementSame DEF JobExpire
  <2>2. QED
      BY <1>4, <1>a, <1>b, <1>d, <2>1, LeaveKeeps, QuietKeeps DEF JobExpire
<1>5. CASE JobEnd \/ JobCrash
    BY <1>5, <1>a, <1>b, <1>c, <1>d, LeaveKeeps, QuietKeeps DEF JobEnd, JobCrash
<1>6. ASSUME NEW r \in Reports, JobSkip(r) \/ JobRowFails(r) PROVE ConsentInv'
    BY <1>6, <1>a, <1>b, <1>c, <1>d, LeaveKeeps, QuietKeeps DEF JobSkip, JobRowFails
<1>7. ASSUME NEW r \in Reports, JobJudge(r) PROVE ConsentInv'
  <2>1. job'.rows = job.rows /\ job'.pc = "record"
      BY <1>7, <1>a DEF JobJudge, RematchTypeOK, Job
  <2>2. JobConsented'
      BY <1>7, <1>d, <2>1, SnapshotKeeps DEF JobJudge, MailPcs
  <2>3. QED
      BY <1>7, <1>b, <1>c, <2>2, QuietKeeps DEF JobJudge
<1>8. CASE JobRecord
  <2>1. job.cur \in Reports
      BY <1>8, <1>e DEF JobRecord, RowPcs, JobPcs
  <2>2. SameAddresses
      BY <1>8, <1>a, <2>1, StatementSame DEF JobRecord, Record
  <2>3. UNCHANGED <<consent, raced>>
      BY <1>8, <1>d DEF JobRecord
  <2>4. \/ job' = NextRow(job.cur)
        \/ job'.rows = job.rows /\ job'.pc = "promote"
        \/ job'.rows = job.rows /\ job'.cur = job.cur /\ CanEmail(CurRow)
      BY <1>8, <1>a DEF JobRecord, RematchTypeOK, Job
  <2>5. JobConsented'
      BY <1>a, <2>1, <2>3, <2>4, LeaveKeeps, SnapshotKeeps DEF MailPcs
  <2>6. QED
      BY <1>8, <1>b, <2>2, <2>5, QuietKeeps DEF JobRecord
<1>9. CASE JobPromote
  <2>1. job.cur \in Reports
      BY <1>9, <1>e DEF JobPromote, RowPcs, JobPcs
  <2>2. SameAddresses
      BY <1>9, <1>a, <2>1, StatementSame DEF JobPromote
  <2>3. UNCHANGED <<consent, raced>>
      BY <1>9, <1>d DEF JobPromote
  <2>4. \/ job' = NextRow(job.cur)
        \/ job'.rows = job.rows /\ job'.cur = job.cur /\ CanEmail(CurRow)
      BY <1>9, <1>a DEF JobPromote, Goto, RematchTypeOK, Job
  <2>5. JobConsented'
      BY <1>a, <2>1, <2>3, <2>4, LeaveKeeps, SnapshotKeeps
  <2>6. QED
      BY <1>9, <1>b, <2>2, <2>5, QuietKeeps DEF JobPromote
<1>10. CASE JobAlertStrong \/ JobAlertWeak
  <2>1. job.pc \in MailPcs /\ job.pc \in RowPcs
      BY <1>10 DEF JobAlertStrong, JobAlertWeak, MailPcs, RowPcs, JobPcs
  <2>2. PICK kind \in Kinds : JobAlert(kind)
      BY <1>10 DEF JobAlertStrong, JobAlertWeak, Kinds
  <2>3. UNCHANGED KeptVars /\ UNCHANGED db /\ job' = NextRow(job.cur)
      BY <2>2 DEF JobAlert
  <2>4. ResultMailIsConsented'
      BY <2>1, <2>2, AlertKeeps
  <2>5. JobConsented'
      BY <1>a, <1>d, <1>e, <2>1, <2>3, LeaveKeeps
  <2>6. QED
      BY <1>b, <1>c, <2>3, <2>4, <2>5
<1>11. CASE JobRecall \/ JobMark \/ JobKeep
  <2>1. job.pc \in MailPcs /\ job.cur \in Reports
      BY <1>11, <1>e DEF JobRecall, JobMark, JobKeep, MailPcs, RowPcs, JobPcs
  <2>2. SameAddresses
      BY <1>11, <1>a, <1>c, <2>1, StatementSame DEF JobRecall, JobMark, JobKeep
  <2>3. job'.rows = job.rows /\ job'.cur = job.cur
      BY <1>11, <1>a DEF JobRecall, JobMark, JobKeep, Goto, RematchTypeOK, Job
  <2>4. UNCHANGED KeptVars /\ Quiet
      BY <1>11 DEF JobRecall, JobMark, JobKeep
  <2>5. CanEmail(CurRow)
      BY <2>1 DEF JobConsented
  <2>6. QED
      BY <1>b, <1>d, <2>2, <2>3, <2>4, <2>5, SnapshotKeeps, QuietKeeps
<1>12. QED
    BY <1>1, <1>2, <1>3, <1>4, <1>5, <1>6, <1>7, <1>8, <1>9, <1>10, <1>11
       DEF JobStep, JobFailure

(***************************************************************************)
(* The requests.                                                           *)
(***************************************************************************)
VerifyPcs == {"verify_mark", "verify_reload", "verify_notify"}

OnlyMoves(t) == \A s \in Threads \ {t} : req'[s] = req[s]

LEMMA OneMoves ==
    ASSUME TypeOK, NEW t \in Threads, ThreadStep(t) \/ \E r \in Reports : Arrive(t, r)
    PROVE  OnlyMoves(t)
<1>1. \E nxt : req' = [req EXCEPT ![t] = nxt]
  <2>1. ASSUME ThreadStep(t) PROVE \E nxt : Continue(t, nxt)
    <3>1. CASE \/ \E k \in Tokens : SendLink(t, k)
               \/ LinkRefused(t) \/ AlertsClear(t) \/ VerifyRecord(t)
               \/ ConfirmWrite(t) \/ DismissWrite(t)
        BY <3>1 DEF SendLink, LinkRefused, AlertsClear, VerifyRecord, ConfirmWrite, DismissWrite,
                    Done
    <3>2. CASE \/ AlertsSave(t) \/ VerifyMark(t) \/ VerifyReload(t)
               \/ VerifyNotify(t) \/ VerifyRecall(t)
        BY <3>2 DEF AlertsSave, VerifyMark, VerifyReload, VerifyNotify, VerifyRecall, Done
    <3>3. QED
        BY <2>1, <3>1, <3>2 DEF ThreadStep
  <2>2. ASSUME NEW r \in Reports, Arrive(t, r) PROVE \E kind, nxt : Begin(t, kind, nxt)
      BY <2>2 DEF Arrive, Register, AlertsRead, VerifyFind, ConfirmRead, DismissRead, DeleteReport
  <2>3. QED
      BY <2>1, <2>2 DEF Continue, Begin
<1>2. QED
    BY <1>1 DEF TypeOK, ApiTypeOK, OnlyMoves

\* One request moves: the others rely on what never goes back.
LEMMA RequestsKeep ==
    ASSUME TypeOK, RequestsConsented, Forward, Guarded, NEW t \in Threads, OnlyMoves(t),
           ReqConsented(req[t])'
    PROVE  RequestsConsented'
<1> SUFFICES ASSUME NEW s \in Threads PROVE ReqConsented(req[s])'
    BY DEF RequestsConsented
<1>1. CASE s = t
    BY <1>1
<1>2. CASE s # t
  <2>1. req'[s] = req[s]
      BY <1>2 DEF OnlyMoves
  <2>2. ReqConsented(req[s])'
      BY <2>1, OtherRequest
  <2>3. QED
      BY <2>2
<1>3. QED
    BY <1>1, <1>2

\* A request outside a confirmation promises nothing.
LEMMA OutsideKeeps ==
    ASSUME NEW t \in Threads, req'[t].pc \notin VerifyPcs
    PROVE  ReqConsented(req[t])'
BY DEF VerifyPcs, ReqConsented

\* The snapshot of the job is not weakened by what requests do.
LEMMA JobStays ==
    ASSUME JobConsented, UNCHANGED job, Forward
    PROVE  JobConsented'
BY DEF JobConsented, CanEmail, CurRow, Forward

\* A request's step that leaves addresses, links and consent alone and sends nothing.
LEMMA PlainKeeps ==
    ASSUME TypeOK, ConsentInv, UNCHANGED <<issued, consent, raced>>, UNCHANGED job, SameAddresses,
           Quiet, NEW t \in Threads, OnlyMoves(t), req'[t].pc \notin VerifyPcs
    PROVE  ConsentInv'
<1>a. Forward /\ Guarded
    BY StaysForward, SameGuarded
<1>1. RowsConsented'
    BY SameKeeps DEF ConsentInv
<1>2. JobConsented'
    BY <1>a, JobStays DEF ConsentInv
<1>3. RequestsConsented' /\ ResultMailIsConsented'
    BY <1>a, OutsideKeeps, RequestsKeep, QuietKeeps DEF ConsentInv
<1>4. QED
    BY <1>1, <1>2, <1>3 DEF ConsentInv

\* The first step of each request.
LEMMA ArriveConsent ==
    ASSUME TypeOK, ConsentInv, UNCHANGED job,
           NEW t \in Threads, NEW r \in Reports, Arrive(t, r)
    PROVE  ConsentInv'
<1>a. StoreTypeOK /\ NotifierTypeOK /\ ApiTypeOK /\ OnlyMoves(t)
    BY OneMoves DEF TypeOK
<1>b. ASSUME NEW kind, NEW rq, Begin(t, kind, rq) PROVE req'[t] = rq
    BY <1>b, <1>a DEF Begin, ApiTypeOK
<1>c. ASSUME UNCHANGED storeVars PROVE SameAddresses
    BY <1>c DEF storeVars, SameAddresses
<1>d. ASSUME UNCHANGED historyVars PROVE UNCHANGED <<consent, raced>>
    BY <1>d DEF historyVars
<1>1. ASSUME NEW e \in Emails \cup {None}, NEW w \in BOOLEAN, Register(t, r, e, w)
      PROVE  ConsentInv'
  <2>1. req'[t].pc \notin VerifyPcs
    <3> DEFINE rq == IF e = None THEN ReqIdle
                     ELSE [ReqIdle EXCEPT !.pc = "link", !.r = r, !.email = e]
    <3>1. Begin(t, "register", rq)
        BY <1>1 DEF Register
    <3>2. req'[t] = rq
        BY <1>b, <3>1
    <3>3. rq.pc \notin VerifyPcs
        BY DEF ReqIdle, VerifyPcs
    <3>4. QED
        BY <3>2, <3>3
  <2>2. PICK row : Add(r, row) /\ row.email = None /\ row.verify_hash = None
    <3> DEFINE new(lost) == [BlankRow EXCEPT
                !.status = IF LevelOf(Judged(lost), FALSE) = "strong" THEN "candidate" ELSE "open",
                !.notify_weak = w /\ e # None,
                !.watch_until = WatchUntilAfter(0),
                !.matches = Slim(Judged(lost)),
                !.best_match = IF Judged(lost) = {} THEN None ELSE Top(Judged(lost)),
                !.graded_ids = GradedKeys(Judged(lost))]
    <3>1. PICK lost \in SUBSET Listed : Add(r, new(lost))
        BY <1>1 DEF Register
    <3>2. new(lost).email = None /\ new(lost).verify_hash = None
        BY DEF BlankRow
    <3>3. QED
        BY <3>1, <3>2
  <2>3. UNCHANGED <<issued, consent, raced>> /\ Quiet /\ Forward
      BY <1>1, StaysForward DEF Register
  <2>a. Guarded /\ RowsConsented'
    <3> SUFFICES ASSUME NEW q \in Reports, db'[q] # None
                 PROVE  /\ (db[q] # None /\ db'[q].email = db[q].email) \/ db'[q].email = None
                        /\ RowConsented(q, db[q])'
        BY DEF Guarded, RowsConsented
    <3>1. CASE q = r
      <4>1. db'[q] = row
          BY <2>2, <3>1, <1>a DEF Add, StoreTypeOK
      <4>2. QED
          BY <4>1, <2>2 DEF RowConsented, CanEmail
    <3>2. CASE q # r
      <4>1. db'[q] = db[q] /\ RowConsented(q, db[q])
          BY <2>2, <3>2, <1>a DEF Add, StoreTypeOK, ConsentInv, RowsConsented
      <4>2. QED
          BY <4>1, <2>3 DEF RowConsented, CanEmail, Confirmable
    <3>3. QED
        BY <3>1, <3>2
  <2>4. RowsConsented'
      BY <2>a
  <2>5. JobConsented'
      BY <2>3, JobStays DEF ConsentInv
  <2>6. RequestsConsented' /\ ResultMailIsConsented'
      BY <1>a, <2>1, <2>3, <2>a, OutsideKeeps, RequestsKeep, QuietKeeps DEF ConsentInv
  <2>7. QED
      BY <2>4, <2>5, <2>6 DEF ConsentInv
<1>2. ASSUME NEW e \in Emails \cup {None}, NEW w \in BOOLEAN, NEW d \in DaysAsked,
             AlertsRead(t, r, e, w, d)
      PROVE  ConsentInv'
  <2>1. req'[t].pc \notin VerifyPcs
      BY <1>2, <1>b DEF AlertsRead, ReqIdle, VerifyPcs
  <2>2. QED
      BY <1>2, <1>a, <1>c, <1>d, <2>1, PlainKeeps DEF AlertsRead
<1>3. ASSUME NEW k \in Tokens, VerifyFind(t, k, r) PROVE ConsentInv'
  <2>1. /\ UNCHANGED <<issued, consent, raced>> /\ UNCHANGED db /\ Quiet
        /\ SameAddresses /\ Forward /\ Guarded
      BY <1>3, <1>c, <1>d, StaysForward, SameGuarded DEF VerifyFind, storeVars
  <2> DEFINE rq == [ReqIdle EXCEPT !.pc = "verify_mark", !.r = r, !.token = k]
  <2>a. req'[t] = rq
    <3>1. Begin(t, "verify", rq)
        BY <1>3 DEF VerifyFind
    <3>2. QED
        BY <1>b, <3>1
  <2>2. req'[t].pc = "verify_mark" /\ req'[t].r = r /\ req'[t].token = k
      BY <2>a DEF ReqIdle
  <2>3. db[r] # None /\ db[r].verify_hash = k /\ k # None
      BY <1>3, StoreAssumption DEF VerifyFind, StoreAssumption
  <2>4. issued[k].r = r /\ issued[k].email = db[r].email /\ ~issued[k].accepted
      BY <2>3 DEF ConsentInv, RowsConsented, RowConsented
  <2>b. ReqConsented(req[t])'
      BY <2>1, <2>2, <2>3, <2>4 DEF ReqConsented, AddressSettled
  <2>5. RequestsConsented'
      BY <1>a, <2>1, <2>b, RequestsKeep DEF ConsentInv
  <2>6. RowsConsented' /\ JobConsented' /\ ResultMailIsConsented'
      BY <2>1, SameKeeps, JobStays, QuietKeeps DEF ConsentInv
  <2>7. QED
      BY <2>5, <2>6 DEF ConsentInv
<1>4. ASSUME NEW i \in Items, ConfirmRead(t, r, i) PROVE ConsentInv'
  <2>1. req'[t].pc \notin VerifyPcs
      BY <1>4, <1>b DEF ConfirmRead, ReqIdle, VerifyPcs
  <2>2. QED
      BY <1>4, <1>a, <1>c, <1>d, <2>1, PlainKeeps DEF ConfirmRead
<1>5. ASSUME NEW i \in Items, DismissRead(t, r, i) PROVE ConsentInv'
  <2>1. req'[t].pc \notin VerifyPcs
      BY <1>5, <1>b DEF DismissRead, ReqIdle, VerifyPcs
  <2>2. QED
      BY <1>5, <1>a, <1>c, <1>d, <2>1, PlainKeeps DEF DismissRead
<1>6. CASE DeleteReport(t, r)
  <2>1. req'[t].pc \notin VerifyPcs
      BY <1>6, <1>b DEF DeleteReport, ReqIdle, VerifyPcs
  <2>2. SameAddresses
      BY <1>6, <1>a, StatementSame DEF DeleteReport
  <2>3. QED
      BY <1>6, <1>a, <1>d, <2>1, <2>2, PlainKeeps DEF DeleteReport
<1>7. QED
    BY <1>1, <1>2, <1>3, <1>4, <1>5, <1>6 DEF Arrive

\* The later steps of each request.
LEMMA ThreadConsent ==
    ASSUME TypeOK, ConsentInv, UNCHANGED job, NEW t \in Threads, ThreadStep(t)
    PROVE  ConsentInv'
<1> DEFINE rq == req[t]
<1>a. StoreTypeOK /\ NotifierTypeOK /\ ApiTypeOK /\ OnlyMoves(t)
    BY OneMoves DEF TypeOK
<1>b. ASSUME NEW nxt, Continue(t, nxt) PROVE req'[t] = nxt
    BY <1>b, <1>a DEF Continue, ApiTypeOK
<1>c. ASSUME Done(t) PROVE req'[t].pc \notin VerifyPcs
    BY <1>b, <1>c DEF Done, ReqIdle, VerifyPcs
<1>d. ASSUME UNCHANGED storeVars PROVE SameAddresses /\ UNCHANGED db
    BY <1>d DEF storeVars, SameAddresses
<1>e. ASSUME UNCHANGED historyVars PROVE UNCHANGED <<consent, raced>>
    BY <1>e DEF historyVars
<1>f. rq.pc # "idle" => rq.r \in Reports /\ rq \in Req
    BY <1>a DEF ApiTypeOK, Holds, Req
<1>g. ReqConsented(rq) /\ Holds(rq)
    BY <1>a DEF ConsentInv, RequestsConsented, ApiTypeOK
<1>1. ASSUME NEW k \in Tokens, SendLink(t, k) PROVE ConsentInv'
  <2>1. rq.r \in Reports
      BY <1>1, <1>f DEF SendLink, At
  <2>2. PICK delivered \in BOOLEAN :
          issued' = [issued EXCEPT ![k] = [r |-> rq.r, email |-> rq.email,
                                           delivered |-> delivered, accepted |-> FALSE]]
      BY <1>1 DEF SendLink, SendLinkTo
  <2>3. /\ issued'[k].r = rq.r /\ issued'[k].email = rq.email /\ ~issued'[k].accepted
        /\ \A o \in Tokens \ {k} : issued'[o] = issued[o]
        /\ issued'[k] # None
    <3> DEFINE link == [r |-> rq.r, email |-> rq.email,
                        delivered |-> delivered, accepted |-> FALSE]
    <3>1. issued'[k] = link /\ \A o \in Tokens \ {k} : issued'[o] = issued[o]
        BY <2>2, <1>a DEF NotifierTypeOK
    <3>2. link \in Link
      <4>1. rq.email \in Emails
          BY <1>1, <1>f, <1>g DEF SendLink, At, Holds, Req
      <4>2. QED
          BY <2>1, <4>1 DEF Link
    <3>3. link # None
        BY <3>2, NullIsNoLink DEF NullIsNoLink
    <3>4. link.r = rq.r /\ link.email = rq.email /\ ~link.accepted
        OBVIOUS
    <3> HIDE DEF link
    <3>5. QED
        BY <3>1, <3>3, <3>4
  <2>4. SetPendingEmail(rq.r, rq.email, k, now + VerifyFor)
      BY <1>1 DEF SendLink
  <2>5. /\ \A q \in Reports \ {rq.r} : db'[q] = db[q]
        /\ db'[rq.r] # None => /\ db'[rq.r].email = rq.email /\ ~db'[rq.r].email_verified
                               /\ db'[rq.r].verify_hash = k
      BY <2>1, <2>4, <1>a DEF SetPendingEmail, Write, StoreTypeOK, Row
  <2>6. /\ UNCHANGED consent /\ issued[k] = None /\ Quiet /\ Done(t)
        /\ raced' = IF Confirming(rq.r) THEN [raced EXCEPT ![rq.r] = @ \cup {rq.email}] ELSE raced
      BY <1>1 DEF SendLink
  <2>a. /\ \A q \in Reports : Confirmable(q) \subseteq Confirmable(q)'
        /\ Confirming(rq.r) => rq.email \in consent'[rq.r] \cup raced'[rq.r]
      BY <2>1, <2>6, <1>a DEF NotifierTypeOK, Confirmable
  <2>b. Forward
      BY <2>a, <2>3, <2>6 DEF Forward
  <2>c. Guarded
      BY <2>a, <2>5 DEF Guarded, Confirmable
  <2>7. RowsConsented'
    <3> SUFFICES ASSUME NEW q \in Reports, db'[q] # None PROVE RowConsented(q, db[q])'
        BY DEF RowsConsented
    <3>1. CASE q = rq.r
        BY <3>1, <2>3, <2>5 DEF RowConsented, CanEmail
    <3>2. CASE q # rq.r
      <4>1. db'[q] = db[q] /\ RowConsented(q, db[q]) /\ db[q] \in Row
          BY <3>2, <2>5, <1>a DEF ConsentInv, RowsConsented, StoreTypeOK
      <4>2. db[q].verify_hash # None => db[q].verify_hash \in Tokens \ {k}
          BY <4>1, <2>6 DEF RowConsented, Row
      <4>3. QED
          BY <4>1, <4>2, <2>3, <2>a DEF RowConsented
    <3>3. QED
        BY <3>1, <3>2
  <2>8. JobConsented'
      BY <2>b, JobStays DEF ConsentInv
  <2>9. RequestsConsented'
      BY <1>a, <1>c, <2>6, <2>b, <2>c, OutsideKeeps, RequestsKeep DEF ConsentInv
  <2>10. QED
      BY <2>6, <2>7, <2>8, <2>9, QuietKeeps DEF ConsentInv
<1>2. CASE LinkRefused(t)
    BY <1>2, <1>a, <1>c, <1>d, <1>e, PlainKeeps DEF LinkRefused
<1>3. CASE AlertsSave(t)
  <2>1. rq.r \in Reports /\ rq \in Req
      BY <1>3, <1>f DEF AlertsSave, At
  <2>2. SameAddresses
      BY <1>3, <1>a, <2>1, StatementSame DEF AlertsSave
  <2>3. req'[t].pc \notin VerifyPcs
    <3> DEFINE nxt == [rq EXCEPT !.pc = IF rq.email = None THEN "alerts_clear" ELSE "link",
                                 !.row = None, !.days = None, !.weak = FALSE]
    <3>1. Done(t) \/ Continue(t, nxt)
        BY <1>3 DEF AlertsSave
    <3>2. nxt.pc \notin VerifyPcs
        BY <2>1 DEF Req, VerifyPcs
    <3>3. Continue(t, nxt) => req'[t] = nxt
        BY <1>b
    <3>4. QED
        BY <1>c, <3>1, <3>2, <3>3
  <2>4. QED
      BY <1>3, <1>a, <2>2, <2>3, PlainKeeps DEF AlertsSave
<1>4. CASE AlertsClear(t)
  <2>1. rq.r \in Reports
      BY <1>4, <1>f DEF AlertsClear, At
  <2>2. UNCHANGED <<issued, consent, raced>> /\ Quiet /\ Done(t) /\ Forward
      BY <1>4, <1>e, StaysForward DEF AlertsClear
  <2>3. /\ \A q \in Reports \ {rq.r} : db'[q] = db[q]
        /\ db'[rq.r] # None => db'[rq.r].email = None /\ db'[rq.r].verify_hash = None
      BY <1>4, <2>1, <1>a DEF AlertsClear, SetPendingEmail, Write, StoreTypeOK, Row
  <2>4. RowsConsented'
      BY <2>2, <2>3 DEF ConsentInv, RowsConsented, RowConsented, CanEmail, Confirmable
  <2>5. JobConsented'
      BY <2>2, JobStays DEF ConsentInv
  <2>6. Guarded
      BY <2>3 DEF Guarded
  <2>7. RequestsConsented'
      BY <1>a, <1>c, <2>2, <2>6, OutsideKeeps, RequestsKeep DEF ConsentInv
  <2>8. QED
      BY <2>2, <2>4, <2>5, <2>7, QuietKeeps DEF ConsentInv
<1>5. CASE VerifyMark(t)
  <2>1. rq.r \in Reports /\ rq \in Req /\ rq.pc = "verify_mark"
      BY <1>5, <1>f DEF VerifyMark, At
  <2>2. /\ issued[rq.token].r = rq.r /\ rq.token \in Tokens /\ issued[rq.token] # None
        /\ AddressSettled(rq.r, rq.token)
      BY <2>1, <1>g DEF ReqConsented, Holds, Req
  <2>3. /\ consent' = [consent EXCEPT ![rq.r] = @ \cup {issued[rq.token].email}]
        /\ issued' = [issued EXCEPT ![rq.token].accepted = TRUE]
        /\ MarkVerified(rq.r) /\ Quiet /\ UNCHANGED raced
        /\ Continue(t, [rq EXCEPT !.pc = "verify_reload"])
      BY <1>5 DEF VerifyMark
  <2>4. /\ \A q \in Reports : Confirmable(q) \subseteq Confirmable(q)'
        /\ issued[rq.token].email \in consent'[rq.r] \cup raced'[rq.r]
      BY <2>1, <2>3, <1>a DEF NotifierTypeOK, Confirmable
  <2>5. /\ \A q \in Reports \ {rq.r} : db'[q] = db[q]
        /\ db'[rq.r] # None => /\ db[rq.r] # None /\ db'[rq.r].email = db[rq.r].email
                               /\ db'[rq.r].verify_hash = None
      BY <2>1, <2>3, <1>a DEF MarkVerified, Write, StoreTypeOK, Row
  <2>6. /\ \A o \in Tokens \ {rq.token} : issued'[o] = issued[o]
        /\ issued'[rq.token].r = rq.r /\ issued'[rq.token].email = issued[rq.token].email
      BY <2>2, <2>3, <1>a DEF NotifierTypeOK, Link
  <2>a. Forward
      BY <2>2, <2>4, <2>6 DEF Forward
  <2>b. Guarded
      BY <2>5 DEF Guarded
  <2>c. db'[rq.r] # None =>
            db'[rq.r].email \in {None, issued[rq.token].email} \cup (consent'[rq.r] \cup raced'[rq.r])
      BY <2>1, <2>2, <2>4, <2>5 DEF AddressSettled, Confirmable
  <2>7. RowsConsented'
    <3> SUFFICES ASSUME NEW q \in Reports, db'[q] # None PROVE RowConsented(q, db[q])'
        BY DEF RowsConsented
    <3>1. CASE q = rq.r
        BY <3>1, <2>c, <2>4, <2>5 DEF RowConsented, CanEmail, Confirmable
    <3>2. CASE q # rq.r
      <4>1. db'[q] = db[q] /\ RowConsented(q, db[q]) /\ db[q] \in Row
          BY <3>2, <2>5, <1>a DEF ConsentInv, RowsConsented, StoreTypeOK
      <4>2. db[q].verify_hash # None => db[q].verify_hash \in Tokens \ {rq.token}
          BY <4>1, <3>2, <2>2 DEF RowConsented, Row
      <4>3. QED
          BY <4>1, <4>2, <2>4, <2>6 DEF RowConsented
    <3>3. QED
        BY <3>1, <3>2
  <2>8. RequestsConsented'
    <3> DEFINE nxt == [rq EXCEPT !.pc = "verify_reload"]
    <3>1. req'[t] = nxt
        BY <2>3, <1>b
    <3>2. nxt.pc = "verify_reload" /\ nxt.r = rq.r /\ nxt.token = rq.token
        BY <2>1 DEF Req
    <3>3. req'[t].pc = "verify_reload" /\ req'[t].r = rq.r /\ req'[t].token = rq.token
        BY <3>1, <3>2
    <3>4. ReqConsented(req[t])'
        BY <3>3, <2>4, <2>6, <2>c DEF ReqConsented, AddressSettled, Confirmable
    <3>5. QED
        BY <3>4, <1>a, <2>a, <2>b, RequestsKeep DEF ConsentInv
  <2>9. JobConsented'
      BY <2>a, JobStays DEF ConsentInv
  <2>10. QED
      BY <2>3, <2>7, <2>8, <2>9, QuietKeeps DEF ConsentInv
<1>6. CASE VerifyReload(t)
  <2>1. rq.r \in Reports /\ rq \in Req /\ rq.pc = "verify_reload"
      BY <1>6, <1>f DEF VerifyReload, At
  <2>2. /\ UNCHANGED <<issued, consent, raced>> /\ UNCHANGED db /\ SameAddresses /\ Quiet
        /\ Forward /\ Guarded
      BY <1>6, <1>d, <1>e, StaysForward, SameGuarded DEF VerifyReload
  <2> DEFINE nxt == [rq EXCEPT !.pc = "verify_notify", !.row = db[rq.r], !.token = None]
  <2>3. Done(t) \/ (db[rq.r] # None /\ Continue(t, nxt))
      BY <1>6 DEF VerifyReload
  <2>4. ASSUME db[rq.r] # None, Continue(t, nxt) PROVE ReqConsented(req[t])'
    <3>1. req'[t] = nxt
        BY <2>4, <1>b
    <3>2. nxt.pc = "verify_notify" /\ nxt.r = rq.r /\ nxt.row = db[rq.r]
        BY <2>1 DEF Req
    <3>3. req'[t].pc = "verify_notify" /\ req'[t].r = rq.r /\ req'[t].row = db[rq.r]
        BY <3>1, <3>2
    <3>4. db[rq.r].email \in {None} \cup Confirmable(rq.r)
        BY <2>1, <2>4, <1>g DEF ReqConsented, AddressSettled
    <3>5. Confirmable(rq.r) \subseteq consent'[rq.r] \cup raced'[rq.r]
        BY <2>1, <2>2 DEF Forward, Confirmable
    <3>6. QED
        BY <3>3, <3>4, <3>5 DEF ReqConsented, Confirmable
  <2>5. RequestsConsented'
      BY <1>a, <1>c, <2>2, <2>3, <2>4, OutsideKeeps, RequestsKeep DEF ConsentInv
  <2>6. RowsConsented' /\ JobConsented' /\ ResultMailIsConsented'
      BY <2>2, SameKeeps, JobStays, QuietKeeps DEF ConsentInv
  <2>7. QED
      BY <2>5, <2>6 DEF ConsentInv
<1>7. CASE VerifyNotify(t)
  <2>1. rq.r \in Reports /\ rq \in Req /\ rq.pc = "verify_notify"
      BY <1>7, <1>f DEF VerifyNotify, At
  <2>2. UNCHANGED <<issued, consent, raced>> /\ SameAddresses /\ Forward /\ Guarded
      BY <1>7, <1>d, <1>e, StaysForward, SameGuarded DEF VerifyNotify
  <2> DEFINE nxt == [rq EXCEPT !.pc = "verify_recall", !.row = None,
                               !.item = Top(rq.row.matches).item]
  <2>3. Done(t) \/ Continue(t, nxt)
      BY <1>7 DEF VerifyNotify
  <2>4. req'[t].pc \notin VerifyPcs
    <3>1. nxt.pc = "verify_recall"
        BY <2>1 DEF Req
    <3>2. Continue(t, nxt) => req'[t] = nxt
        BY <1>b
    <3>3. QED
        BY <2>3, <3>1, <3>2, <1>c DEF VerifyPcs
  <2>5. ResultMailIsConsented'
    <3>1. \/ mail' = None
          \/ mail'.to = rq.row.email /\ mail'.r = rq.r /\ rq.row.email # None
        BY <1>7 DEF VerifyNotify, Notify, Quiet
    <3>2. rq.row.email # None => rq.row.email \in Confirmable(rq.r)
        BY <2>1, <1>g DEF ReqConsented
    <3>3. QED
        BY <3>1, <3>2, <2>1, <2>2 DEF ResultMailIsConsented, Confirmable
  <2>6. RowsConsented' /\ JobConsented'
      BY <2>2, SameKeeps, JobStays DEF ConsentInv
  <2>7. RequestsConsented'
      BY <1>a, <2>2, <2>4, OutsideKeeps, RequestsKeep DEF ConsentInv
  <2>8. QED
      BY <2>5, <2>6, <2>7 DEF ConsentInv
<1>8. CASE VerifyRecall(t)
  <2>1. rq \in Req
      BY <1>8, <1>f DEF VerifyRecall, At
  <2> DEFINE nxt == [rq EXCEPT !.pc = "verify_record", !.sent = WeakNotified(rq.r)]
  <2>2. req'[t] = nxt
    <3>1. Continue(t, nxt)
        BY <1>8 DEF VerifyRecall
    <3>2. QED
        BY <3>1, <1>b
  <2>3. nxt.pc \notin VerifyPcs
      BY <2>1 DEF Req, VerifyPcs
  <2>4. QED
      BY <1>8, <1>a, <1>d, <1>e, <2>2, <2>3, PlainKeeps DEF VerifyRecall
<1>9. CASE VerifyRecord(t) \/ ConfirmWrite(t) \/ DismissWrite(t)
  <2>1. rq.r \in Reports
      BY <1>9, <1>f DEF VerifyRecord, ConfirmWrite, DismissWrite, At
  <2>2. SameAddresses
    <3>1. \/ \E sent : SetWeakNotified(rq.r, sent)
          \/ \E m : Confirm(rq.r, m)
          \/ \E dis : SetDismissed(rq.r, dis)
        BY <1>9 DEF VerifyRecord, ConfirmWrite, DismissWrite
    <3>2. QED
        BY <3>1, <1>a, <2>1, StatementSame
  <2>3. UNCHANGED <<issued, consent, raced>> /\ Quiet /\ Done(t)
      BY <1>9, <1>e DEF VerifyRecord, ConfirmWrite, DismissWrite
  <2>4. QED
      BY <1>a, <1>c, <2>2, <2>3, PlainKeeps
<1>10. QED
    BY <1>1, <1>2, <1>3, <1>4, <1>5, <1>6, <1>7, <1>8, <1>9 DEF ThreadStep

(***************************************************************************)
(* The world, and the theorem.                                             *)
(***************************************************************************)
\* The clock, the collector, a restart of the API, or nothing at all.
LEMMA OtherConsent ==
    ASSUME TypeOK, ConsentInv,
           \/ WorldStep
           \/ ApiRestart /\ UNCHANGED job
           \/ UNCHANGED vars
    PROVE  ConsentInv'
<1>1. UNCHANGED <<db, issued, consent, raced>> /\ UNCHANGED job
    BY DEF WorldStep, ApiRestart, vars, storeVars, historyVars, mailVars
<1>2. SameAddresses
    BY <1>1 DEF SameAddresses
<1>3. RowsConsented' /\ JobConsented'
    BY <1>1, <1>2, SameKeeps, StaysForward, JobStays DEF ConsentInv
<1>4. RequestsConsented'
  <2>1. CASE UNCHANGED req
      BY <1>1, <1>2, <2>1, SameKeeps DEF ConsentInv
  <2>2. CASE ApiRestart
      BY <2>2 DEF ApiRestart, RequestsConsented, ReqConsented, ReqIdle
  <2>3. QED
      BY <2>1, <2>2 DEF WorldStep, vars, apiVars
<1>5. ResultMailIsConsented'
  <2>1. CASE Quiet
      BY <2>1, QuietKeeps
  <2>2. CASE UNCHANGED mail
      BY <1>1, <2>2 DEF ConsentInv, ResultMailIsConsented, Confirmable
  <2>3. QED
      BY <2>1, <2>2 DEF WorldStep, ApiRestart, vars, mailVars
<1>6. QED
    BY <1>3, <1>4, <1>5 DEF ConsentInv

\* What is seeded is confirmed; nothing is pending.
LEMMA InitConsent == Init => ConsentInv
<1> SUFFICES ASSUME Init PROVE ConsentInv
    OBVIOUS
<1>1. RowsConsented
  <2> SUFFICES ASSUME NEW r \in Reports, db[r] # None PROVE RowConsented(r, db[r])
      BY DEF RowsConsented
  <2>1. r \in Seeded /\ db[r] \in SeedRows
      BY DEF Init, StoreInit
  <2>2. PICK e \in Emails, w \in BOOLEAN : db[r] = SeedRow(e, w)
      BY <2>1 DEF SeedRows
  <2>3. db[r].verify_hash = None
      BY <2>2 DEF SeedRow, BlankRow
  <2>4. db[r].email \in consent[r]
      BY <2>1 DEF Init, NotifierInit
  <2>5. QED
      BY <2>3, <2>4 DEF RowConsented, Confirmable
<1>2. JobConsented
    BY DEF Init, RematchInit, JobConsented, JobIdle, NoRows, MailPcs
<1>3. RequestsConsented
    BY DEF Init, ApiInit, RequestsConsented, ReqConsented, ReqIdle
<1>4. ResultMailIsConsented
    BY DEF Init, NotifierInit, ResultMailIsConsented
<1>5. QED
    BY <1>1, <1>2, <1>3, <1>4 DEF ConsentInv

\* ConsentInv is inductive relative to TypeOK.
LEMMA NextConsent ==
    ASSUME TypeOK, ConsentInv, [Next]_vars
    PROVE  ConsentInv'
<1>1. CASE WorldStep
    BY <1>1, OtherConsent
<1>2. CASE (JobStep \/ JobFailure) /\ UNCHANGED apiVars
    BY <1>2, JobConsent
<1>3. CASE ApiStep /\ UNCHANGED job
    BY <1>3, ThreadConsent, ArriveConsent DEF ApiStep
<1>4. CASE ApiRestart /\ UNCHANGED job
    BY <1>4, OtherConsent
<1>5. CASE UNCHANGED vars
    BY <1>5, OtherConsent
<1>6. QED
    BY <1>1, <1>2, <1>3, <1>4, <1>5 DEF Next

\* What all requests and the job keep, in every reachable state.
THEOREM ConsentAlways == Spec => []ConsentInv
<1>1. Init => ConsentInv
    BY InitConsent
<1>2. TypeOK /\ ConsentInv /\ [Next]_vars => ConsentInv'
    BY NextConsent
<1>3. QED
    BY <1>1, <1>2, TypeCorrect, PTL DEF Spec

(***************************************************************************)
(* Double opt-in.  With any number of requests at once beside the job,     *)
(* which mails from a snapshot of any age, and whatever crashes, is lost   *)
(* or is deleted: a result mail only goes to an address whose owner has    *)
(* opened a link for the report, or that was saved for the report between  *)
(* the first and the last read of such a confirmation.                     *)
(***************************************************************************)
THEOREM DoubleOptIn == Spec => []ResultMailIsConsented
<1>1. ConsentInv => ResultMailIsConsented
    BY DEF ConsentInv
<1>2. QED
    BY <1>1, ConsentAlways, PTL

\* A row is marked verified only with an address whose owner has confirmed it for that report,
\* or that was saved while a confirmation of the report was being processed
\* (store.verify_email marks the row, whatever address it holds by then).
THEOREM VerifiedRowsAreConsented == Spec => []VerifiedIsConsented
<1>1. ConsentInv => VerifiedIsConsented
    BY DEF ConsentInv, RowsConsented, RowConsented, VerifiedIsConsented
<1>2. QED
    BY <1>1, ConsentAlways, PTL

UsesLinksOnce ==
    /\ \A k \in Tokens : issued[k] # None /\ issued[k].accepted => issued'[k] = issued[k]
    /\ \A t \in Threads : req[t].pc = "idle" /\ req'[t].pc = "verify_mark" =>
           ~issued[req'[t].token].accepted

\* Only the two steps that send and accept a link change what is known of links.
LEMMA LinkChanges ==
    ASSUME TypeOK, Next, issued' # issued
    PROVE  \E t \in Threads : VerifyMark(t) \/ \E k \in Tokens : SendLink(t, k)
<1>1. ~WorldStep /\ ~ApiRestart
    BY DEF WorldStep, ApiRestart
<1>2. ~JobStep /\ ~JobFailure
    BY DEF JobStep, JobFailure, JobStart, JobPurge, JobList, JobExpire, JobEnd, JobSkip, JobJudge,
           JobRecord, JobPromote, JobAlertStrong, JobAlertWeak, JobAlert, JobRecall, JobMark,
           JobKeep, JobRowFails, JobCrash, KeptVars
<1>3. PICK t \in Threads : ThreadStep(t) \/ \E r \in Reports : Arrive(t, r)
    BY <1>1, <1>2 DEF Next, ApiStep
<1>4. ASSUME NEW r \in Reports PROVE ~Arrive(t, r)
    BY DEF Arrive, Register, AlertsRead, VerifyFind, ConfirmRead, DismissRead, DeleteReport
<1>5. ~(\/ LinkRefused(t) \/ AlertsSave(t) \/ AlertsClear(t) \/ VerifyReload(t)
        \/ VerifyNotify(t) \/ VerifyRecall(t) \/ VerifyRecord(t)
        \/ ConfirmWrite(t) \/ DismissWrite(t))
    BY DEF LinkRefused, AlertsSave, AlertsClear, VerifyReload, VerifyNotify, VerifyRecall,
           VerifyRecord, ConfirmWrite, DismissWrite
<1>6. QED
    BY <1>3, <1>4, <1>5 DEF ThreadStep

\* A confirmation is processed only after its link was found in a row.
LEMMA FindStarts ==
    ASSUME TypeOK, Next, NEW t \in Threads, req[t].pc = "idle", req'[t].pc = "verify_mark"
    PROVE  \E k \in Tokens, r \in Reports : VerifyFind(t, k, r)
<1>1. req' # req
    OBVIOUS
<1>2. ~WorldStep /\ ~(UNCHANGED apiVars)
    BY <1>1 DEF WorldStep, apiVars
<1>3. ~ApiRestart
    BY DEF ApiRestart, ReqIdle
<1>4. PICK u \in Threads : ThreadStep(u) \/ \E r \in Reports : Arrive(u, r)
    BY <1>2, <1>3 DEF Next, ApiStep
<1>5. u = t
    BY <1>4, OneMoves DEF OnlyMoves
<1>6. ~ThreadStep(t)
    BY DEF ThreadStep, SendLink, LinkRefused, AlertsSave, AlertsClear, VerifyMark, VerifyReload,
           VerifyNotify, VerifyRecall, VerifyRecord, ConfirmWrite, DismissWrite, At
<1>7. PICK r \in Reports : Arrive(t, r)
    BY <1>4, <1>5, <1>6
<1>b. ASSUME NEW kind, NEW rq, Begin(t, kind, rq), rq.pc # "verify_mark" PROVE FALSE
    BY <1>b DEF Begin, TypeOK, ApiTypeOK
<1>8. ASSUME NEW e \in Emails \cup {None}, NEW w \in BOOLEAN, Register(t, r, e, w) PROVE FALSE
  <2> DEFINE rq == IF e = None THEN ReqIdle
                   ELSE [ReqIdle EXCEPT !.pc = "link", !.r = r, !.email = e]
  <2>1. Begin(t, "register", rq)
      BY <1>8 DEF Register
  <2>2. rq.pc # "verify_mark"
      BY DEF ReqIdle
  <2>3. QED
      BY <1>b, <2>1, <2>2
<1>9. ASSUME NEW e \in Emails \cup {None}, NEW w \in BOOLEAN, NEW d \in DaysAsked,
             AlertsRead(t, r, e, w, d)
      PROVE  FALSE
    BY <1>9, <1>b DEF AlertsRead, ReqIdle
<1>10. ASSUME NEW i \in Items, ConfirmRead(t, r, i) PROVE FALSE
    BY <1>10, <1>b DEF ConfirmRead, ReqIdle
<1>11. ASSUME NEW i \in Items, DismissRead(t, r, i) PROVE FALSE
    BY <1>11, <1>b DEF DismissRead, ReqIdle
<1>12. ~DeleteReport(t, r)
    BY <1>b DEF DeleteReport, ReqIdle
<1>13. QED
    BY <1>7, <1>8, <1>9, <1>10, <1>11, <1>12 DEF Arrive

(***************************************************************************)
(* A confirmation link that has been accepted is dead: no later request    *)
(* finds it, and no step forgets that it was accepted, with any number of  *)
(* requests at once.  (Two that have found it already may both accept it.) *)
(***************************************************************************)
THEOREM LinksWorkOnce == Spec => LinkWorksOnce
<1>1. TypeOK /\ ConsentInv /\ [Next]_vars => [UsesLinksOnce]_vars
  <2> SUFFICES ASSUME TypeOK, ConsentInv, Next PROVE UsesLinksOnce
      OBVIOUS
  <2>1. ASSUME NEW t \in Threads, req[t].pc = "idle", req'[t].pc = "verify_mark"
        PROVE  ~issued[req'[t].token].accepted
    <3>1. PICK k \in Tokens : \E r \in Reports : VerifyFind(t, k, r)
        BY <2>1, FindStarts
    <3>2. PICK r \in Reports : VerifyFind(t, k, r)
        BY <3>1
    <3>3. req'[t].token = k
        BY <3>2 DEF VerifyFind, Begin, ReqIdle, TypeOK, ApiTypeOK
    <3>4. db[r] # None /\ db[r].verify_hash = k /\ k # None
        BY <3>2, StoreAssumption DEF VerifyFind, StoreAssumption
    <3>5. ~issued[k].accepted
        BY <3>4 DEF ConsentInv, RowsConsented, RowConsented
    <3>6. QED
        BY <3>3, <3>5
  <2>2. ASSUME NEW k \in Tokens, issued[k] # None, issued[k].accepted, issued' # issued
        PROVE  issued'[k] = issued[k]
    <3>1. PICK t \in Threads : VerifyMark(t) \/ \E o \in Tokens : SendLink(t, o)
        BY <2>2, LinkChanges
    <3>2. CASE VerifyMark(t)
      <4>1. issued' = [issued EXCEPT ![req[t].token].accepted = TRUE]
          BY <3>2 DEF VerifyMark
      <4>2. issued[k] \in Link
          BY <2>2 DEF TypeOK, NotifierTypeOK
      <4>3. [issued[k] EXCEPT !.accepted = TRUE] = issued[k]
          BY <2>2, <4>2 DEF Link
      <4>4. QED
          BY <4>1, <4>3 DEF TypeOK, NotifierTypeOK
    <3>3. ASSUME NEW o \in Tokens, SendLink(t, o) PROVE issued'[k] = issued[k]
      <4>1. issued[o] = None
          BY <3>3 DEF SendLink
      <4>2. k # o
          BY <4>1, <2>2
      <4>3. QED
          BY <3>3, <4>2 DEF SendLink, SendLinkTo, TypeOK, NotifierTypeOK
    <3>4. QED
        BY <3>1, <3>2, <3>3
  <2>3. QED
      BY <2>1, <2>2 DEF UsesLinksOnce
<1>2. Spec => [][UsesLinksOnce]_vars
    BY <1>1, ConsentAlways, TypeCorrect, PTL DEF Spec
<1>3. QED
    BY <1>2 DEF LinkWorksOnce, UsesLinksOnce

-------------------------------------------------------------------------------
(***************************************************************************)
(* Pending links, with any number of requests at once.  What a row says of *)
(* its link is written by one statement, so that no order of requests can  *)
(* leave the link of one address beside another.                           *)
(***************************************************************************)
PendingLink(r, row) ==
    row.verify_hash # None => /\ issued[row.verify_hash] # None
                              /\ issued[row.verify_hash].r = r
                              /\ issued[row.verify_hash].email = row.email
                              /\ ~row.email_verified

PendingInv == \A r \in Reports : db[r] # None => PendingLink(r, db[r])

LEMMA SamePending ==
    ASSUME PendingInv, SameAddresses, UNCHANGED issued
    PROVE  PendingInv'
BY DEF PendingInv, PendingLink, SameAddresses

\* The job never writes an address, and sends no links.
LEMMA JobSame ==
    ASSUME TypeOK, JobStep \/ JobFailure
    PROVE  SameAddresses /\ UNCHANGED issued
<1>a. StoreTypeOK /\ RematchTypeOK
    BY DEF TypeOK
<1>b. job.pc \in RowPcs => job.cur \in Reports
    BY <1>a, CurType
<1>1. UNCHANGED issued
    BY DEF JobStep, JobFailure, JobStart, JobPurge, JobList, JobExpire, JobEnd, JobSkip, JobJudge,
           JobRecord, JobPromote, JobAlertStrong, JobAlertWeak, JobAlert, JobRecall, JobMark,
           JobKeep, JobRowFails, JobCrash, KeptVars
<1>2. CASE JobRecord \/ JobPromote \/ JobMark \/ JobKeep
  <2>1. job.cur \in Reports
      BY <1>2, <1>b DEF JobRecord, JobPromote, JobMark, JobKeep, RowPcs, JobPcs
  <2>2. QED
      BY <1>1, <1>2, <1>a, <2>1, StatementSame DEF JobRecord, Record, JobPromote, JobMark, JobKeep
<1>3. CASE \E r \in Reports : JobPurge(r) \/ JobExpire(r)
    BY <1>1, <1>3, <1>a, StatementSame DEF JobPurge, JobExpire
<1>4. CASE UNCHANGED db
    BY <1>1, <1>4 DEF SameAddresses
<1>5. QED
    BY <1>2, <1>3, <1>4
       DEF JobStep, JobFailure, JobStart, JobList, JobEnd, JobSkip, JobJudge, JobAlertStrong,
           JobAlertWeak, JobAlert, JobRecall, JobRowFails, JobCrash

\* The statements of a request that write a link: set_pending_email with a new one or with
\* none, mark_verified, and the INSERT of a report without one.
LEMMA RequestPending ==
    ASSUME TypeOK, PendingInv, NEW t \in Threads,
           ThreadStep(t) \/ \E r \in Reports : Arrive(t, r)
    PROVE  PendingInv'
<1> DEFINE rq == req[t]
<1>a. StoreTypeOK /\ NotifierTypeOK /\ ApiTypeOK
    BY DEF TypeOK
<1>b. rq.pc # "idle" => rq.r \in Reports /\ rq \in Req /\ Holds(rq)
    BY <1>a DEF ApiTypeOK, Holds, Req
<1>c. UNCHANGED storeVars => SameAddresses
    BY DEF storeVars, SameAddresses
<1>d. ASSUME NEW s \in Reports, \A q \in Reports \ {s} : db'[q] = db[q], UNCHANGED issued,
             db'[s] # None => db'[s].verify_hash = None
      PROVE  PendingInv'
    BY <1>d DEF PendingInv, PendingLink
<1>1. ASSUME NEW k \in Tokens, SendLink(t, k) PROVE PendingInv'
  <2>1. rq.r \in Reports /\ rq.email \in Emails
      BY <1>1, <1>b DEF SendLink, At, Holds, Req
  <2>2. PICK delivered \in BOOLEAN :
          issued' = [issued EXCEPT ![k] = [r |-> rq.r, email |-> rq.email,
                                           delivered |-> delivered, accepted |-> FALSE]]
      BY <1>1 DEF SendLink, SendLinkTo
  <2>3. PICK link : link = [r |-> rq.r, email |-> rq.email,
                            delivered |-> delivered, accepted |-> FALSE]
      OBVIOUS
  <2>4. link # None /\ link.r = rq.r /\ link.email = rq.email
    <3>1. link \in Link
        BY <2>1, <2>3 DEF Link
    <3>2. link.r = rq.r /\ link.email = rq.email
        BY <2>3
    <3>3. QED
        BY <3>1, <3>2, NullIsNoLink DEF NullIsNoLink
  <2>5. issued'[k] = link /\ \A o \in Tokens \ {k} : issued'[o] = issued[o]
      BY <2>2, <2>3, <1>a DEF NotifierTypeOK
  <2>6. SetPendingEmail(rq.r, rq.email, k, now + VerifyFor) /\ issued[k] = None
      BY <1>1 DEF SendLink
  <2>7. /\ \A q \in Reports \ {rq.r} : db'[q] = db[q]
        /\ db'[rq.r] # None => /\ db'[rq.r].email = rq.email /\ ~db'[rq.r].email_verified
                               /\ db'[rq.r].verify_hash = k
      BY <2>1, <2>6, <1>a DEF SetPendingEmail, Write, StoreTypeOK, Row
  <2> SUFFICES ASSUME NEW q \in Reports, db'[q] # None PROVE PendingLink(q, db[q])'
      BY DEF PendingInv
  <2>8. CASE q = rq.r
      BY <2>8, <2>4, <2>5, <2>7 DEF PendingLink
  <2>9. CASE q # rq.r
    <3>1. db'[q] = db[q] /\ PendingLink(q, db[q]) /\ db[q] \in Row
        BY <2>9, <2>7, <1>a DEF PendingInv, StoreTypeOK
    <3>2. db[q].verify_hash # None => db[q].verify_hash \in Tokens \ {k}
        BY <3>1, <2>6 DEF PendingLink, Row
    <3>3. QED
        BY <3>1, <3>2, <2>5 DEF PendingLink
  <2>10. QED
      BY <2>8, <2>9
<1>2. CASE AlertsClear(t)
  <2>1. rq.r \in Reports
      BY <1>2, <1>b DEF AlertsClear, At
  <2>2. SetPendingEmail(rq.r, None, None, 0) /\ UNCHANGED issued
      BY <1>2 DEF AlertsClear
  <2>3. /\ \A q \in Reports \ {rq.r} : db'[q] = db[q]
        /\ db'[rq.r] # None => db'[rq.r].verify_hash = None
      BY <2>1, <2>2, <1>a DEF SetPendingEmail, Write, StoreTypeOK, Row
  <2>4. QED
      BY <1>d, <2>1, <2>2, <2>3
<1>3. CASE VerifyMark(t)
  <2>1. rq.r \in Reports /\ rq.token \in Tokens
      BY <1>3, <1>b DEF VerifyMark, At, Holds, Req
  <2>2. MarkVerified(rq.r) /\ issued' = [issued EXCEPT ![rq.token].accepted = TRUE]
      BY <1>3 DEF VerifyMark
  <2>3. /\ \A q \in Reports \ {rq.r} : db'[q] = db[q]
        /\ db'[rq.r] # None => db'[rq.r].verify_hash = None
      BY <2>1, <2>2, <1>a DEF MarkVerified, Write, StoreTypeOK, Row
  <2>4. \A o \in Tokens : issued[o] # None =>
            issued'[o] # None /\ issued'[o].r = issued[o].r /\ issued'[o].email = issued[o].email
    <3> SUFFICES ASSUME NEW o \in Tokens, issued[o] # None
                 PROVE  /\ issued'[o] # None /\ issued'[o].r = issued[o].r
                        /\ issued'[o].email = issued[o].email
        OBVIOUS
    <3>1. PICK link : link = [issued[o] EXCEPT !.accepted = TRUE]
        OBVIOUS
    <3>2. link \in Link /\ link.r = issued[o].r /\ link.email = issued[o].email
        BY <3>1, <1>a DEF NotifierTypeOK, Link
    <3>3. issued'[o] \in {issued[o], link}
        BY <2>2, <3>1, <1>a DEF NotifierTypeOK
    <3>4. QED
        BY <3>2, <3>3, NullIsNoLink DEF NullIsNoLink
  <2> SUFFICES ASSUME NEW q \in Reports, db'[q] # None PROVE PendingLink(q, db[q])'
      BY DEF PendingInv
  <2>5. CASE q = rq.r
      BY <2>5, <2>3 DEF PendingLink
  <2>6. CASE q # rq.r
    <3>1. db'[q] = db[q] /\ PendingLink(q, db[q]) /\ db[q] \in Row
        BY <2>6, <2>3, <1>a DEF PendingInv, StoreTypeOK
    <3>2. QED
        BY <3>1, <2>4 DEF PendingLink, Row
  <2>7. QED
      BY <2>5, <2>6
<1>4. CASE AlertsSave(t) \/ VerifyRecord(t) \/ ConfirmWrite(t) \/ DismissWrite(t)
  <2>1. rq.r \in Reports /\ UNCHANGED issued
      BY <1>4, <1>b DEF AlertsSave, VerifyRecord, ConfirmWrite, DismissWrite, At
  <2>2. \/ \E w, u, st : UpdateAlerts(rq.r, w, u, st)
        \/ \E sent : SetWeakNotified(rq.r, sent)
        \/ \E m : Confirm(rq.r, m)
        \/ \E dis : SetDismissed(rq.r, dis)
      BY <1>4 DEF AlertsSave, VerifyRecord, ConfirmWrite, DismissWrite
  <2>3. QED
      BY <1>a, <2>1, <2>2, StatementSame, SamePending
<1>5. CASE LinkRefused(t) \/ VerifyReload(t) \/ VerifyNotify(t) \/ VerifyRecall(t)
    BY <1>5, <1>c, SamePending DEF LinkRefused, VerifyReload, VerifyNotify, VerifyRecall
<1>6. ASSUME NEW r \in Reports, NEW e \in Emails \cup {None}, NEW w \in BOOLEAN,
             Register(t, r, e, w)
      PROVE  PendingInv'
  <2> DEFINE new(lost) == [BlankRow EXCEPT
              !.status = IF LevelOf(Judged(lost), FALSE) = "strong" THEN "candidate" ELSE "open",
              !.notify_weak = w /\ e # None,
              !.watch_until = WatchUntilAfter(0),
              !.matches = Slim(Judged(lost)),
              !.best_match = IF Judged(lost) = {} THEN None ELSE Top(Judged(lost)),
              !.graded_ids = GradedKeys(Judged(lost))]
  <2>1. PICK lost \in SUBSET Listed : Add(r, new(lost))
      BY <1>6 DEF Register
  <2>2. new(lost).verify_hash = None
      BY DEF BlankRow
  <2> HIDE DEF new
  <2>3. (\A q \in Reports \ {r} : db'[q] = db[q]) /\ db'[r] = new(lost)
      BY <2>1, <1>a DEF Add, StoreTypeOK
  <2>4. UNCHANGED issued
      BY <1>6 DEF Register
  <2>5. QED
      BY <1>d, <2>2, <2>3, <2>4
<1>7. ASSUME NEW r \in Reports, Arrive(t, r),
             ~\E e \in Emails \cup {None}, w \in BOOLEAN : Register(t, r, e, w)
      PROVE  PendingInv'
  <2>1. CASE DeleteReport(t, r)
      BY <2>1, <1>a, StatementSame, SamePending DEF DeleteReport
  <2>2. CASE UNCHANGED <<storeVars, issued>>
      BY <2>2, <1>c, SamePending
  <2>3. QED
      BY <1>7, <2>1, <2>2 DEF Arrive, AlertsRead, VerifyFind, ConfirmRead, DismissRead
<1>8. QED
    BY <1>1, <1>2, <1>3, <1>4, <1>5, <1>6, <1>7 DEF ThreadStep

\* THEOREM: the pending link of a row is the one that was sent, for this report, to the address
\* the row holds, and the row is not verified yet, with any number of requests at once
\* (store.set_pending_email writes address, hash and verified flag in one statement, and
\* mark_verified removes the hash).
THEOREM PendingLinksAreCurrent == Spec => []PendingLinkIsCurrent
<1>1. Init => PendingInv
  <2> SUFFICES ASSUME Init, NEW r \in Reports, db[r] # None PROVE PendingLink(r, db[r])
      BY DEF PendingInv
  <2>1. db[r] \in SeedRows
      BY DEF Init, StoreInit
  <2>2. PICK e \in Emails, w \in BOOLEAN : db[r] = SeedRow(e, w)
      BY <2>1 DEF SeedRows
  <2>3. QED
      BY <2>2 DEF SeedRow, BlankRow, PendingLink
<1>2. TypeOK /\ PendingInv /\ [Next]_vars => PendingInv'
  <2> SUFFICES ASSUME TypeOK, PendingInv, [Next]_vars PROVE PendingInv'
      OBVIOUS
  <2>1. CASE \/ WorldStep
             \/ ApiRestart /\ UNCHANGED job
             \/ UNCHANGED vars
    <3>1. UNCHANGED <<db, issued>>
        BY <2>1 DEF WorldStep, ApiRestart, vars, storeVars, mailVars
    <3>2. QED
        BY <3>1, SamePending DEF SameAddresses
  <2>2. CASE (JobStep \/ JobFailure) /\ UNCHANGED apiVars
      BY <2>2, JobSame, SamePending
  <2>3. CASE ApiStep /\ UNCHANGED job
      BY <2>3, RequestPending DEF ApiStep
  <2>4. QED
      BY <2>1, <2>2, <2>3 DEF Next
<1>3. PendingInv => PendingLinkIsCurrent
    BY DEF PendingInv, PendingLink, PendingLinkIsCurrent
<1>4. QED
    BY <1>1, <1>2, <1>3, TypeCorrect, PTL DEF Spec

(***************************************************************************)
(* FindIt implements OptIn: every step is seen as a step of OptIn.         *)
(***************************************************************************)
OpeningPcs == {"verify_mark", "verify_reload"}

\* The links whose opening is being processed change with the threads that process one.
LEMMA OpeningKept ==
    /\ UNCHANGED req => UNCHANGED Opening
    /\ \A t \in Threads : OnlyMoves(t) /\ req'[t].pc \notin OpeningPcs =>
           /\ Opening' \subseteq Opening
           /\ req[t].pc \notin OpeningPcs => UNCHANGED Opening
BY DEF Opening, OpeningPcs, OnlyMoves

\* What is seen after a step, row by row and link by link.
LEMMA NextSeen ==
    /\ Contacts' = [r \in Reports |-> ContactOf(db'[r])]
    /\ Links' = [k \in Tokens |-> LinkOf(issued'[k])]
BY DEF Contacts, Links, ContactOf, LinkOf

\* There is an address record for every report, and only for those; links likewise.
LEMMA NullSeen ==
    ASSUME TypeOK
    PROVE  /\ \A r \in Reports : Contacts[r] = None <=> db[r] = None
           /\ \A k \in Tokens : Links[k] = None <=> issued[k] = None
<1>1. \A r \in Reports : ContactOf(db[r]) = None <=> db[r] = None
    BY NullIsNoContact DEF NullIsNoContact, TypeOK, StoreTypeOK, Row, ContactOf
<1>2. \A k \in Tokens : LinkOf(issued[k]) = None <=> issued[k] = None
    BY NullIsNoContact DEF NullIsNoContact, TypeOK, NotifierTypeOK, Link, LinkOf
<1>3. QED
    BY <1>1, <1>2 DEF Contacts, Links

\* How a statement is seen that gives a report the address record c.
LEMMA PutSeen ==
    ASSUME TypeOK, NEW r \in Reports, NEW row, Write(r, row),
           NEW c, db[r] # None => ContactOf(row) = c
    PROVE  Abstract!Put(r, c)
<1>1. \A q \in Reports : ContactOf(db'[q]) = IF q = r /\ db[r] # None THEN c ELSE ContactOf(db[q])
    BY DEF Write, TypeOK, StoreTypeOK
<1>2. CASE db[r] = None
    BY <1>1, <1>2, NextSeen, NullSeen DEF Abstract!Put, Contacts
<1>3. CASE db[r] # None
    BY <1>1, <1>3, NextSeen, NullSeen DEF Abstract!Put, Contacts
<1>4. QED
    BY <1>2, <1>3

\* A step that leaves addresses, links and consent alone and sends nothing: reports may go.
LEMMA DropSeen ==
    ASSUME TypeOK, SameAddresses, Quiet, UNCHANGED <<issued, consent, raced, born>>,
           UNCHANGED Opening
    PROVE  Abstract!Next
<1> DEFINE gone == {r \in Reports : db'[r] = None}
<1>1. \A r \in Reports : ContactOf(db'[r]) = IF r \in gone THEN None ELSE ContactOf(db[r])
    BY DEF SameAddresses, ContactOf
<1>2. Contacts' = [r \in Reports |-> IF r \in gone THEN None ELSE Contacts[r]]
    BY <1>1, NextSeen DEF Contacts
<1>3. UNCHANGED Links /\ Letter' = None
    BY DEF Links, LinkOf, Letter, Quiet
<1>4. Abstract!Drop(gone)
    BY <1>2, <1>3 DEF Abstract!Drop
<1>5. QED
    BY <1>4 DEF Abstract!Next

\* A step that may send a result and changes no row.
LEMMA SendSeen ==
    ASSUME TypeOK, TypeOK', ResultMailIsConsented',
           UNCHANGED <<db, issued, consent, raced, born>>, UNCHANGED Opening
    PROVE  Abstract!Next
<1>1. CASE Quiet
    BY <1>1, DropSeen DEF SameAddresses
<1>2. CASE ~Quiet
  <2>1. mail' # None /\ mail'.r \in Reports /\ mail'.to \in Emails
      BY <1>2 DEF Quiet, TypeOK, NotifierTypeOK, Mail
  <2>2. mail'.to \in consent[mail'.r] \cup raced[mail'.r]
      BY <2>1 DEF ResultMailIsConsented, Confirmable
  <2>3. UNCHANGED <<Contacts, Links>> /\ Letter' = <<mail'.r, mail'.to>>
      BY <2>1 DEF Contacts, ContactOf, Links, LinkOf, Letter
  <2>4. Abstract!Send(mail'.r, mail'.to)
      BY <2>2, <2>3 DEF Abstract!Send
  <2>5. QED
      BY <2>1, <2>4 DEF Abstract!Next
<1>3. QED
    BY <1>1, <1>2

\* A step that only ends the processing of links.
LEMMA FinishSeen ==
    ASSUME TypeOK, UNCHANGED <<db, issued, consent, raced, born>>, Quiet,
           Opening' \subseteq Opening
    PROVE  Abstract!Next
<1> DEFINE done == Opening \ Opening'
<1>1. UNCHANGED <<Contacts, Links>> /\ Letter' = None /\ Opening' = Opening \ done
    BY DEF Contacts, ContactOf, Links, LinkOf, Letter, Quiet
<1>2. Abstract!Finish(done)
    BY <1>1 DEF Abstract!Finish
<1>3. Opening \subseteq Tokens
    BY DEF Opening, TypeOK, ApiTypeOK, Holds, Req
<1>4. QED
    BY <1>2, <1>3 DEF Abstract!Next

\* The job sends, or leaves the addresses alone.
LEMMA JobSeen ==
    ASSUME TypeOK, TypeOK', ResultMailIsConsented', JobStep \/ JobFailure, UNCHANGED apiVars
    PROVE  Abstract!Next
<1>a. StoreTypeOK /\ UNCHANGED Opening
    BY OpeningKept DEF TypeOK, apiVars
<1>b. ASSUME UNCHANGED KeptVars, Quiet, SameAddresses PROVE Abstract!Next
    BY <1>a, <1>b, DropSeen DEF KeptVars
<1>c. ASSUME UNCHANGED KeptVars, UNCHANGED db PROVE Abstract!Next
    BY <1>a, <1>c, SendSeen DEF KeptVars
<1>d. job.pc \in RowPcs => job.cur \in Reports
    BY CurType DEF TypeOK
<1>1. CASE JobStart \/ JobList \/ JobEnd \/ JobRecall \/ JobCrash
    BY <1>1, <1>c DEF JobStart, JobList, JobEnd, JobRecall, JobCrash
<1>2. ASSUME NEW r \in Reports, JobSkip(r) \/ JobJudge(r) \/ JobRowFails(r) PROVE Abstract!Next
    BY <1>2, <1>c DEF JobSkip, JobJudge, JobRowFails
<1>3. ASSUME NEW r \in Reports, JobPurge(r) \/ JobExpire(r) PROVE Abstract!Next
    BY <1>3, <1>a, <1>b, StatementSame DEF JobPurge, JobExpire
<1>4. CASE JobRecord \/ JobPromote \/ JobMark \/ JobKeep
  <2>1. job.cur \in Reports
      BY <1>4, <1>d DEF JobRecord, JobPromote, JobMark, JobKeep, RowPcs, JobPcs
  <2>2. \/ UNCHANGED db
        \/ \E keys : SetGraded(job.cur, keys)
        \/ \E m, ms, st : UpdateMatch(job.cur, m, st, ms)
        \/ \E ms : SetMatches(job.cur, ms)
        \/ \E sent : SetWeakNotified(job.cur, sent)
      BY <1>4 DEF JobRecord, Record, JobPromote, JobMark, JobKeep
  <2>3. SameAddresses
      BY <1>a, <2>1, <2>2, StatementSame
  <2>4. QED
      BY <1>4, <1>b, <2>3 DEF JobRecord, JobPromote, JobMark, JobKeep
<1>5. CASE JobAlertStrong \/ JobAlertWeak
    BY <1>5, <1>c DEF JobAlertStrong, JobAlertWeak, JobAlert
<1>6. QED
    BY <1>1, <1>2, <1>3, <1>4, <1>5 DEF JobStep, JobFailure

\* A request begins: a registration, a deletion and the opening of a link are seen.
LEMMA ArriveSeen ==
    ASSUME TypeOK, TypeOK', ConsentInv, ResultMailIsConsented',
           NEW t \in Threads, NEW r \in Reports, Arrive(t, r)
    PROVE  Abstract!Next
<1>a. OnlyMoves(t) /\ StoreTypeOK /\ ApiTypeOK
    BY OneMoves DEF TypeOK
<1>b. ASSUME NEW kind, NEW rq, Begin(t, kind, rq)
      PROVE  req'[t] = rq /\ (rq.pc \notin OpeningPcs => UNCHANGED Opening)
  <2>1. req[t].pc \notin OpeningPcs /\ req'[t] = rq
      BY <1>a, <1>b DEF Begin, ApiTypeOK, OpeningPcs
  <2>2. QED
      BY <1>a, <2>1, OpeningKept
<1>1. ASSUME NEW e \in Emails \cup {None}, NEW w \in BOOLEAN, Register(t, r, e, w)
      PROVE  Abstract!Next
  <2> DEFINE new(lost) == [BlankRow EXCEPT
                !.status = IF LevelOf(Judged(lost), FALSE) = "strong" THEN "candidate" ELSE "open",
                !.notify_weak = w /\ e # None,
                !.watch_until = WatchUntilAfter(0),
                !.matches = Slim(Judged(lost)),
                !.best_match = IF Judged(lost) = {} THEN None ELSE Top(Judged(lost)),
                !.graded_ids = GradedKeys(Judged(lost))]
  <2>1. PICK lost \in SUBSET Listed : Add(r, new(lost))
      BY <1>1 DEF Register
  <2>2. new(lost) # None
    <3>1. Judged(lost) \subseteq Candidate
        BY JudgedType DEF TypeOK
    <3>2. Slim(Judged(lost)) \subseteq Candidate /\ GradedKeys(Judged(lost)) \subseteq Items
        BY <3>1, GradedKeysType DEF Slim
    <3>3. Judged(lost) # {} => Top(Judged(lost)) \in Candidate
        BY <3>1, TopIsBest
    <3>4. WatchUntilAfter(0) \in Nat
        BY WatchUntilType DEF TypeOK
    <3>5. new(lost) \in Row
        BY <3>2, <3>3, <3>4, BlankRowType DEF Row, Statuses
    <3>6. QED
        BY <3>5, NullIsNoRow DEF NullIsNoRow
  <2>3. ContactOf(new(lost)) = Abstract!NoAddress
      BY <2>2 DEF ContactOf, BlankRow, Abstract!NoAddress
  <2> HIDE DEF new
  <2>4. Contacts' = [Contacts EXCEPT ![r] = Abstract!NoAddress]
      BY <2>1, <2>3, NextSeen DEF Contacts, Add, TypeOK, StoreTypeOK
  <2> DEFINE rq == IF e = None THEN ReqIdle
                   ELSE [ReqIdle EXCEPT !.pc = "link", !.r = r, !.email = e]
  <2>a. Begin(t, "register", rq)
      BY <1>1 DEF Register
  <2>b. rq.pc \notin OpeningPcs
      BY DEF ReqIdle, OpeningPcs
  <2>c. UNCHANGED Opening
      BY <1>b, <2>a, <2>b
  <2>5. UNCHANGED <<Links, consent, raced, Opening>> /\ Letter' = None
      BY <1>1, <2>c DEF Register, Links, LinkOf, Letter, Quiet
  <2>6. Abstract!Open(r)
      BY <1>1, <2>1, <2>4, <2>5 DEF Abstract!Open, Register, Add
  <2>7. QED
      BY <2>6 DEF Abstract!Next
<1>2. CASE DeleteReport(t, r)
  <2>1. SameAddresses
      BY <1>2, StatementSame DEF DeleteReport, TypeOK
  <2>2. UNCHANGED Opening
      BY <1>2, <1>b DEF DeleteReport, ReqIdle, OpeningPcs
  <2>3. QED
      BY <1>2, <2>1, <2>2, DropSeen DEF DeleteReport, historyVars
<1>3. ASSUME UNCHANGED <<storeVars, issued, historyVars>>, UNCHANGED Opening PROVE Abstract!Next
    BY <1>3, SendSeen DEF storeVars, historyVars
<1>4. ASSUME NEW i \in Items, ConfirmRead(t, r, i) \/ DismissRead(t, r, i) PROVE Abstract!Next
  <2> DEFINE rq1 == [ReqIdle EXCEPT !.pc = "confirm_write", !.r = r, !.row = db[r], !.item = i]
             rq2 == [ReqIdle EXCEPT !.pc = "dismiss_write", !.r = r, !.item = i, !.sent = Dismissed(r)]
  <2>a. Begin(t, "confirm", rq1) \/ Begin(t, "dismiss", rq2)
      BY <1>4 DEF ConfirmRead, DismissRead
  <2>b. rq1.pc \notin OpeningPcs /\ rq2.pc \notin OpeningPcs
      BY DEF ReqIdle, OpeningPcs
  <2> HIDE DEF rq1, rq2
  <2>1. UNCHANGED Opening
      BY <2>a, <2>b, <1>b
  <2>2. QED
      BY <1>3, <1>4, <2>1 DEF ConfirmRead, DismissRead
<1>5. ASSUME NEW e \in Emails \cup {None}, NEW w \in BOOLEAN, NEW d \in DaysAsked,
             AlertsRead(t, r, e, w, d)
      PROVE  Abstract!Next
  <2> DEFINE rq == [ReqIdle EXCEPT !.pc = "alerts_save", !.r = r, !.row = db[r], !.email = e,
                                   !.weak = w /\ e # None, !.days = d]
  <2>a. Begin(t, "alerts", rq)
      BY <1>5 DEF AlertsRead
  <2>b. rq.pc \notin OpeningPcs
      BY DEF ReqIdle, OpeningPcs
  <2> HIDE DEF rq
  <2>1. UNCHANGED Opening
      BY <2>a, <2>b, <1>b
  <2>2. QED
      BY <1>3, <1>5, <2>1 DEF AlertsRead
<1>6. ASSUME NEW k \in Tokens, VerifyFind(t, k, r) PROVE Abstract!Next
  <2>1. /\ UNCHANGED <<storeVars, issued, historyVars>> /\ Quiet
        /\ db[r] # None /\ db[r].verify_hash = k /\ issued[k] # None
      BY <1>6 DEF VerifyFind
  <2>2. issued[k].r = r
      BY <2>1, StoreAssumption DEF StoreAssumption, ConsentInv, RowsConsented, RowConsented
  <2>3. Links[k] # None /\ Links[k].r = r /\ Contacts[r] # None /\ Contacts[r].link = k
      BY <2>1, <2>2, NullSeen DEF Links, LinkOf, Contacts, ContactOf
  <2> DEFINE rq == [ReqIdle EXCEPT !.pc = "verify_mark", !.r = r, !.token = k]
  <2>4. Begin(t, "verify", rq)
      BY <1>6 DEF VerifyFind
  <2>5. req'[t] = rq /\ rq.pc = "verify_mark" /\ rq.token = k
      BY <1>b, <2>4 DEF ReqIdle
  <2>6. req'[t].pc = "verify_mark" /\ req'[t].token = k /\ req[t].pc = "idle"
      BY <2>4, <2>5 DEF Begin
  <2>7. Opening' = Opening \cup {k}
      BY <1>a, <2>6 DEF Opening, OnlyMoves
  <2>8. UNCHANGED <<Contacts, Links, consent, raced, born>> /\ Letter' = None
      BY <2>1 DEF storeVars, historyVars, Contacts, ContactOf, Links, LinkOf, Letter, Quiet
  <2>9. Abstract!Follow(k)
      BY <2>3, <2>7, <2>8 DEF Abstract!Follow
  <2>10. QED
      BY <2>9 DEF Abstract!Next
<1>7. QED
    BY <1>1, <1>2, <1>4, <1>5, <1>6 DEF Arrive

\* A report is being confirmed when one of its links is being processed.
LEMMA ConfirmingSeen ==
    ASSUME TypeOK, RequestsConsented, NEW r \in Reports
    PROVE  Confirming(r) <=> \E o \in Opening : Links[o].r = r
<1>1. ASSUME NEW t \in Threads, req[t].pc \in OpeningPcs
      PROVE  Links[req[t].token].r = req[t].r /\ req[t].token \in Opening
  <2>1. ReqConsented(req[t]) /\ Holds(req[t]) /\ req[t] \in Req
      BY DEF RequestsConsented, TypeOK, ApiTypeOK
  <2>2. req[t].token \in Tokens /\ issued[req[t].token] # None /\ issued[req[t].token].r = req[t].r
      BY <1>1, <2>1 DEF ReqConsented, Holds, Req, OpeningPcs
  <2>3. QED
      BY <1>1, <2>2 DEF Links, LinkOf, Opening, OpeningPcs
<1>2. QED
    BY <1>1 DEF Confirming, Opening, OpeningPcs

\* A request goes on: sending a link, taking an address back and confirming one are seen.
LEMMA ThreadSeen ==
    ASSUME TypeOK, TypeOK', ConsentInv, ResultMailIsConsented', NEW t \in Threads, ThreadStep(t)
    PROVE  Abstract!Next
<1> DEFINE rq == req[t]
<1>a. StoreTypeOK /\ NotifierTypeOK /\ ApiTypeOK /\ OnlyMoves(t)
    BY OneMoves DEF TypeOK
<1>e. ASSUME Done(t) PROVE req'[t].pc \notin OpeningPcs
    BY <1>a, <1>e DEF Done, Continue, ReqIdle, OpeningPcs, ApiTypeOK
<1>f. rq.pc \notin OpeningPcs /\ req'[t].pc \notin OpeningPcs => UNCHANGED Opening
    BY <1>a, OpeningKept
<1>b. rq.pc # "idle" => rq.r \in Reports /\ rq \in Req
    BY <1>a DEF ApiTypeOK, Holds, Req
<1>c. ReqConsented(rq) /\ Holds(rq)
    BY <1>a DEF ConsentInv, RequestsConsented, ApiTypeOK
<1>1. ASSUME NEW k \in Tokens, SendLink(t, k) PROVE Abstract!Next
  <2>1. rq.r \in Reports /\ rq.email \in Emails
      BY <1>1, <1>b, <1>c DEF SendLink, At, Holds, Req
  <2>2. PICK delivered \in BOOLEAN :
          issued' = [issued EXCEPT ![k] = [r |-> rq.r, email |-> rq.email,
                                           delivered |-> delivered, accepted |-> FALSE]]
      BY <1>1 DEF SendLink, SendLinkTo
  <2> DEFINE link == [r |-> rq.r, email |-> rq.email,
                      delivered |-> delivered, accepted |-> FALSE]
             row == [db[rq.r] EXCEPT !.email = rq.email, !.email_verified = FALSE,
                                     !.verify_hash = k, !.verify_expires = now + VerifyFor]
  <2>3. LinkOf(link) = [r |-> rq.r, email |-> rq.email]
    <3>1. link \in Link
        BY <2>1 DEF Link
    <3>2. QED
        BY <3>1, NullIsNoLink DEF NullIsNoLink, LinkOf
  <2>4. Links' = [Links EXCEPT ![k] = [r |-> rq.r, email |-> rq.email]]
    <3> HIDE DEF link
    <3>1. \A o \in Tokens : issued'[o] = IF o = k THEN link ELSE issued[o]
        BY <2>2, <1>a DEF NotifierTypeOK, link
    <3>2. QED
        BY <3>1, <2>3, NextSeen DEF Links
  <2>5. Write(rq.r, row)
      BY <1>1 DEF SendLink, SetPendingEmail
  <2>6. ASSUME db[rq.r] # None
        PROVE  ContactOf(row) = [email |-> rq.email, verified |-> FALSE, link |-> k]
    <3>1. db[rq.r] \in Row
        BY <2>1, <2>6, <1>a DEF StoreTypeOK
    <3>2. now + VerifyFor \in Nat
        BY StoreAssumption DEF StoreAssumption, TypeOK, WorldTypeOK
    <3>3. row \in Row
        BY <2>1, <3>1, <3>2 DEF Row
    <3>4. row # None /\ row.email = rq.email /\ row.email_verified = FALSE /\ row.verify_hash = k
        BY <3>1, <3>3, NullIsNoRow DEF NullIsNoRow, Row
    <3> HIDE DEF row
    <3>5. QED
        BY <3>4 DEF ContactOf
  <2> HIDE DEF row
  <2>7. Abstract!Put(rq.r, [email |-> rq.email, verified |-> FALSE, link |-> k])
      BY <2>1, <2>5, <2>6, PutSeen
  <2>8. /\ issued[k] = None /\ UNCHANGED <<consent, born>> /\ Quiet
        /\ raced' = IF Confirming(rq.r) THEN [raced EXCEPT ![rq.r] = @ \cup {rq.email}] ELSE raced
      BY <1>1 DEF SendLink
  <2>9. Links[k] = None /\ Letter' = None
      BY <2>8, NullSeen DEF Letter, Quiet
  <2>a. UNCHANGED Opening
      BY <1>1, <1>e, <1>f DEF SendLink, At, OpeningPcs
  <2>b. Confirming(rq.r) <=> \E o \in Opening : Links[o].r = rq.r
      BY <2>1, ConfirmingSeen DEF ConsentInv
  <2>10. Abstract!Ask(rq.r, rq.email, k)
      BY <2>4, <2>7, <2>8, <2>9, <2>a, <2>b DEF Abstract!Ask
  <2>11. QED
      BY <2>1, <2>10 DEF Abstract!Next
<1>2. CASE AlertsClear(t)
  <2> DEFINE row == [db[rq.r] EXCEPT !.email = None, !.email_verified = FALSE,
                                     !.verify_hash = None, !.verify_expires = 0]
  <2>1. rq.r \in Reports /\ Write(rq.r, row)
      BY <1>2, <1>b DEF AlertsClear, At, SetPendingEmail
  <2>2. ASSUME db[rq.r] # None PROVE ContactOf(row) = Abstract!NoAddress
    <3>1. db[rq.r] \in Row
        BY <2>1, <2>2, <1>a DEF StoreTypeOK
    <3>2. row \in Row
        BY <3>1 DEF Row
    <3>3. row # None /\ row.email = None /\ row.email_verified = FALSE /\ row.verify_hash = None
        BY <3>1, <3>2, NullIsNoRow DEF NullIsNoRow, Row
    <3> HIDE DEF row
    <3>4. QED
        BY <3>3 DEF ContactOf, Abstract!NoAddress
  <2> HIDE DEF row
  <2>3. Abstract!Put(rq.r, Abstract!NoAddress)
      BY <2>1, <2>2, PutSeen
  <2>a. UNCHANGED Opening
      BY <1>2, <1>e, <1>f DEF AlertsClear, At, OpeningPcs
  <2>4. UNCHANGED <<Links, consent, raced, born, Opening>> /\ Letter' = None
      BY <1>2, <2>a DEF AlertsClear, Links, LinkOf, Letter, Quiet
  <2>5. Abstract!Withdraw(rq.r)
      BY <2>3, <2>4 DEF Abstract!Withdraw
  <2>6. QED
      BY <2>1, <2>5 DEF Abstract!Next
<1>3. CASE VerifyMark(t)
  <2>1. rq.r \in Reports /\ rq \in Req /\ rq.pc = "verify_mark"
      BY <1>3, <1>b DEF VerifyMark, At
  <2> DEFINE e == issued[rq.token].email
             row == [db[rq.r] EXCEPT !.email_verified = TRUE, !.verify_hash = None,
                                     !.verify_expires = 0, !.graded_ids = {}]
  <2>2. /\ rq.token \in Tokens /\ issued[rq.token] \in Link /\ issued[rq.token].r = rq.r
      BY <2>1, <1>a, <1>c DEF ReqConsented, Holds, Req, NotifierTypeOK
  <2>3. Links[rq.token] = [r |-> rq.r, email |-> e] /\ Links[rq.token] # None
      BY <2>2, NullSeen, NullIsNoLink DEF NullIsNoLink, Links, LinkOf
  <2>4. Write(rq.r, row)
      BY <1>3 DEF VerifyMark, MarkVerified
  <2> DEFINE c == Abstract!Confirmed(Contacts[rq.r].email)
  <2>5. ASSUME db[rq.r] # None PROVE ContactOf(row) = c
    <3>1. db[rq.r] \in Row /\ db[rq.r] # None
        BY <2>1, <2>5, <1>a DEF StoreTypeOK
    <3>2. row \in Row
        BY <3>1 DEF Row
    <3>3. /\ row # None /\ row.email = db[rq.r].email
          /\ row.email_verified = TRUE /\ row.verify_hash = None
        BY <3>1, <3>2, NullIsNoRow DEF NullIsNoRow, Row
    <3> HIDE DEF row
    <3>a. Contacts[rq.r] = [email |-> db[rq.r].email, verified |-> db[rq.r].email_verified,
                            link |-> db[rq.r].verify_hash]
        BY <2>1, <3>1 DEF Contacts, ContactOf
    <3>4. c = [email |-> db[rq.r].email, verified |-> TRUE, link |-> None]
        BY <3>a DEF Abstract!Confirmed
    <3>5. QED
        BY <3>3, <3>4 DEF ContactOf
  <2> HIDE DEF row, c
  <2>6. Abstract!Put(rq.r, c)
      BY <2>1, <2>4, <2>5, PutSeen
  <2> USE DEF c
  <2>7. rq.token \in Opening /\ UNCHANGED Opening
    <3> DEFINE nxt == [rq EXCEPT !.pc = "verify_reload"]
    <3>1. req'[t] = nxt
        BY <1>3, <1>a DEF VerifyMark, Continue, ApiTypeOK
    <3>2. nxt.pc = "verify_reload" /\ nxt.token = rq.token
        BY <2>1 DEF Req
    <3>3. req'[t].pc = "verify_reload" /\ req'[t].token = rq.token
        BY <3>1, <3>2
    <3>4. QED
        BY <1>a, <2>1, <3>3 DEF Opening, OnlyMoves
  <2>8. UNCHANGED Links
    <3>1. issued' = [issued EXCEPT ![rq.token] = [issued[rq.token] EXCEPT !.accepted = TRUE]]
        BY <1>3 DEF VerifyMark
    <3> DEFINE link == [issued[rq.token] EXCEPT !.accepted = TRUE]
    <3>2. link \in Link /\ link.r = issued[rq.token].r /\ link.email = e
        BY <2>2 DEF Link
    <3>3. \A o \in Tokens : issued'[o] = IF o = rq.token THEN link ELSE issued[o]
        BY <3>1, <1>a DEF NotifierTypeOK
    <3> HIDE DEF link
    <3>4. LinkOf(link) = LinkOf(issued[rq.token])
        BY <2>2, <3>2, NullIsNoLink DEF NullIsNoLink, LinkOf
    <3>5. QED
        BY <3>3, <3>4, NextSeen DEF Links
  <2>9. /\ consent' = [consent EXCEPT ![rq.r] = @ \cup {e}]
        /\ UNCHANGED <<born, raced>> /\ Letter' = None
      BY <1>3 DEF VerifyMark, Letter, Quiet
  <2>10. Abstract!Confirm(rq.token)
      BY <2>3, <2>6, <2>7, <2>8, <2>9 DEF Abstract!Confirm
  <2>11. QED
      BY <2>2, <2>10 DEF Abstract!Next
<1>4. CASE LinkRefused(t) \/ VerifyNotify(t) \/ VerifyRecall(t)
  <2>1. rq \in Req /\ rq.pc \notin OpeningPcs
      BY <1>4, <1>b DEF LinkRefused, VerifyNotify, VerifyRecall, At, OpeningPcs
  <2>2. req'[t].pc \notin OpeningPcs
    <3> DEFINE nxt1 == [rq EXCEPT !.pc = "verify_recall", !.row = None,
                                  !.item = Top(rq.row.matches).item]
               nxt2 == [rq EXCEPT !.pc = "verify_record", !.sent = WeakNotified(rq.r)]
    <3>1. Done(t) \/ Continue(t, nxt1) \/ Continue(t, nxt2)
        BY <1>4 DEF LinkRefused, VerifyNotify, VerifyRecall
    <3>2. nxt1.pc = "verify_recall" /\ nxt2.pc = "verify_record"
        BY <2>1 DEF Req
    <3> HIDE DEF nxt1, nxt2
    <3>3. \A nxt : Continue(t, nxt) => req'[t] = nxt
        BY <1>a DEF Continue, ApiTypeOK
    <3>4. QED
        BY <1>e, <3>1, <3>2, <3>3 DEF OpeningPcs
  <2>3. UNCHANGED <<storeVars, issued, historyVars>> /\ UNCHANGED Opening
      BY <1>4, <1>f, <2>1, <2>2 DEF LinkRefused, VerifyNotify, VerifyRecall
  <2>4. QED
      BY <2>3, SendSeen DEF storeVars, historyVars
<1>d. CASE VerifyReload(t)
  <2>1. rq \in Req
      BY <1>d, <1>b DEF VerifyReload, At
  <2>2. req'[t].pc \notin OpeningPcs
    <3> DEFINE nxt == [rq EXCEPT !.pc = "verify_notify", !.row = db[rq.r], !.token = None]
    <3>1. Done(t) \/ Continue(t, nxt)
        BY <1>d DEF VerifyReload
    <3>2. nxt.pc = "verify_notify"
        BY <2>1 DEF Req
    <3> HIDE DEF nxt
    <3>3. Continue(t, nxt) => req'[t] = nxt
        BY <1>a DEF Continue, ApiTypeOK
    <3>4. QED
        BY <1>e, <3>1, <3>2, <3>3 DEF OpeningPcs
  <2>3. Opening' \subseteq Opening
      BY <1>a, <2>2, OpeningKept
  <2>4. QED
      BY <1>d, <2>3, FinishSeen DEF VerifyReload, storeVars, historyVars
<1>5. CASE AlertsSave(t) \/ VerifyRecord(t) \/ ConfirmWrite(t) \/ DismissWrite(t)
  <2>1. rq.r \in Reports
      BY <1>5, <1>b DEF AlertsSave, VerifyRecord, ConfirmWrite, DismissWrite, At
  <2>2. \/ \E w, u, st : UpdateAlerts(rq.r, w, u, st)
        \/ \E sent : SetWeakNotified(rq.r, sent)
        \/ \E m : Confirm(rq.r, m)
        \/ \E dis : SetDismissed(rq.r, dis)
      BY <1>5 DEF AlertsSave, VerifyRecord, ConfirmWrite, DismissWrite
  <2>3. SameAddresses
      BY <1>a, <2>1, <2>2, StatementSame
  <2>4. UNCHANGED <<issued, consent, raced, born>> /\ Quiet
      BY <1>5 DEF AlertsSave, VerifyRecord, ConfirmWrite, DismissWrite, historyVars
  <2>a. rq \in Req /\ rq.pc \notin OpeningPcs
      BY <1>5, <1>b DEF AlertsSave, VerifyRecord, ConfirmWrite, DismissWrite, At, OpeningPcs
  <2>b. req'[t].pc \notin OpeningPcs
    <3> DEFINE nxt == [rq EXCEPT !.pc = IF rq.email = None THEN "alerts_clear" ELSE "link",
                                 !.row = None, !.days = None, !.weak = FALSE]
    <3>1. Done(t) \/ Continue(t, nxt)
        BY <1>5 DEF AlertsSave, VerifyRecord, ConfirmWrite, DismissWrite
    <3>2. nxt.pc \in {"alerts_clear", "link"}
        BY <2>a DEF Req
    <3> HIDE DEF nxt
    <3>3. Continue(t, nxt) => req'[t] = nxt
        BY <1>a DEF Continue, ApiTypeOK
    <3>4. QED
        BY <1>e, <3>1, <3>2, <3>3 DEF OpeningPcs
  <2>5. QED
      BY <1>f, <2>3, <2>4, <2>a, <2>b, DropSeen
<1>6. QED
    BY <1>1, <1>2, <1>3, <1>4, <1>d, <1>5 DEF ThreadStep

\* What is seeded is a confirmed address, and the rest has no report.
LEMMA InitSeen == Init => Abstract!Init
<1> SUFFICES ASSUME Init PROVE Abstract!Init
    OBVIOUS
<1>1. TypeOK
    BY InitType
<1>2. ASSUME NEW r \in Reports, db[r] # None
      PROVE  \E e \in Emails : /\ Contacts[r] = Abstract!Confirmed(e)
                               /\ db[r].email = e /\ Contacts[r].email = e
  <2>1. db[r] \in SeedRows
      BY <1>2 DEF Init, StoreInit
  <2>2. PICK e \in Emails, w \in BOOLEAN : db[r] = SeedRow(e, w)
      BY <2>1 DEF SeedRows
  <2>3. db[r].email = e /\ db[r].email_verified = TRUE /\ db[r].verify_hash = None
      BY <2>2 DEF SeedRow, BlankRow
  <2>4. QED
      BY <1>2, <2>3 DEF Contacts, ContactOf, Abstract!Confirmed
<1>3. \A r \in Reports : (Contacts[r] = None <=> db[r] = None) /\ (db[r] = None <=> r \notin Seeded)
    BY <1>1, NullSeen DEF Init, StoreInit
<1>4. Contacts \in [Reports -> {None} \cup {Abstract!Confirmed(e) : e \in Emails}]
    BY <1>2, <1>3 DEF Contacts
<1>5. born = {r \in Reports : Contacts[r] # None}
    BY <1>3, StoreAssumption DEF StoreAssumption, Init, StoreInit
<1>6. consent = [r \in Reports |-> IF Contacts[r] = None THEN {} ELSE {Contacts[r].email}]
    BY <1>2, <1>3 DEF Init, NotifierInit
<1>7. /\ Links = [k \in Tokens |-> None] /\ Letter = None
      /\ raced = [r \in Reports |-> {}] /\ Opening = {}
    BY DEF Init, NotifierInit, ApiInit, ReqIdle, Links, LinkOf, Letter, Opening
<1>8. QED
    BY <1>4, <1>5, <1>6, <1>7 DEF Abstract!Init

(***************************************************************************)
(* The requests of all threads, and the job that works on old rows beside  *)
(* them, implement OptIn, whatever crashes, is lost or is deleted.         *)
(***************************************************************************)
THEOREM ImplementsOptIn == Spec => KeepsOptIn
<1>1. Init => ConsentInv
    BY InitConsent
<1>2. TypeOK /\ ConsentInv /\ [Next]_vars => ConsentInv'
    BY NextConsent
<1>3. TypeOK /\ TypeOK' /\ ConsentInv /\ ConsentInv' /\ [Next]_vars
      => [Abstract!Next]_(Abstract!optVars)
  <2> SUFFICES ASSUME TypeOK, TypeOK', ConsentInv, ConsentInv', [Next]_vars
               PROVE  Abstract!Next \/ UNCHANGED Abstract!optVars
      OBVIOUS
  <2>1. ResultMailIsConsented'
      BY DEF ConsentInv
  <2>2. CASE WorldStep
    <3>1. UNCHANGED <<db, issued, consent, raced, born>> /\ UNCHANGED Opening
        BY <2>2, OpeningKept DEF WorldStep, storeVars, historyVars, apiVars
    <3>2. QED
        BY <2>1, <3>1, SendSeen
  <2>a. CASE ApiRestart
    <3>1. Opening' = {}
        BY <2>a DEF ApiRestart, ReqIdle, Opening
    <3>2. QED
        BY <2>a, <3>1, FinishSeen DEF ApiRestart, storeVars, historyVars
  <2>3. CASE (JobStep \/ JobFailure) /\ UNCHANGED apiVars
      BY <2>1, <2>3, JobSeen
  <2>4. CASE ApiStep
      BY <2>1, <2>4, ArriveSeen, ThreadSeen DEF ApiStep
  <2>5. CASE UNCHANGED vars
      BY <2>5, OpeningKept DEF vars, storeVars, mailVars, historyVars, apiVars,
                  Abstract!optVars, Contacts, ContactOf, Links, LinkOf, Letter
  <2>6. QED
      BY <2>2, <2>a, <2>3, <2>4, <2>5 DEF Next
<1>4. QED
    BY <1>1, <1>2, <1>3, InitSeen, TypeCorrect, PTL DEF Spec, KeepsOptIn, Abstract!Spec

-------------------------------------------------------------------------------
(***************************************************************************)
(* Part 3.  What FindIt says of a report and what the LLM said of its      *)
(* candidates: status and graded_ids rest on real verdicts, for any number *)
(* of threads, whatever the age of the rows that the job and the requests  *)
(* hold.  The job leaves the settings of the owner alone, writes what is   *)
(* stale only over a row that somebody else has touched, and does not      *)
(* repeat an alert.                                                        *)
(***************************************************************************)
Strong(m) == m # None /\ m.grade >= StrongAt

\* What a row says rests on verdicts.
RowJudged(r, row) == /\ row.graded_ids \subseteq judged[r]
                     /\ row.status = "candidate" => Strong(row.best_match)

RowsJudged == \A r \in Reports : db[r] # None => r \in born /\ RowJudged(r, db[r])

\* The snapshot may be old, but it is of reports that were registered, and a verdict is never
\* taken back; what is about to be written has been judged.
JobJudged ==
    /\ \A r \in Reports : job.rows[r] # None =>
           r \in born /\ job.rows[r].graded_ids \subseteq judged[r]
    /\ job.pc = "record" => GradedKeys(job.ms) \subseteq judged[job.cur]
    /\ job.pc = "promote" => Strong(Top(job.ms))

VerdictInv == RowsJudged /\ JobJudged

\* No verdict is forgotten.
VerdictsStay == \A r \in Reports : judged[r] \subseteq judged'[r]

\* The candidate that gives a list the strong level is strong.
LEMMA StrongLevel ==
    ASSUME NEW ms, ms \subseteq Candidate, NEW w, LevelOf(ms, w) = "strong"
    PROVE  ms # {} /\ Strong(Top(ms))
<1>1. None # "strong"
    BY StoreAssumption DEF StoreAssumption
<1>2. ms # {} /\ Top(ms).grade >= StrongAt
    BY <1>1 DEF LevelOf, AlertLevel
<1>3. Top(ms) \in Candidate
    BY <1>2, TopIsBest
<1>4. QED
    BY <1>2, <1>3, NullIsNoCandidate DEF Strong

\* Only the items the LLM has not left out are recorded as judged.
LEMMA LostIsNotGraded ==
    ASSUME NEW lost
    PROVE  GradedKeys(Judged(lost)) \subseteq Listed \ lost
BY DEF GradedKeys, Judged

(***************************************************************************)
(* The statements.                                                         *)
(***************************************************************************)
\* An UPDATE with a row that rests on verdicts.
LEMMA WriteJudged ==
    ASSUME StoreTypeOK, RowsJudged, VerdictsStay, UNCHANGED born,
           NEW r \in Reports, NEW row, Write(r, row),
           db[r] # None => RowJudged(r, row)
    PROVE  RowsJudged'
BY DEF StoreTypeOK, Write, RowsJudged, RowJudged, VerdictsStay

\* The statements other than that of add.  Two of them are harmless only because of what
\* their callers pass: set_graded and update_match.
LEMMA StatementJudged ==
    ASSUME StoreTypeOK, RowsJudged, VerdictsStay, UNCHANGED born,
           NEW r \in Reports,
           \/ UNCHANGED db
           \/ Delete(r)
           \/ SetStatus(r, "expired")
           \/ \E keys \in SUBSET judged[r] : SetGraded(r, keys)
           \/ \E m, ms : Strong(m) /\ UpdateMatch(r, m, "candidate", ms)
           \/ \E ms : SetMatches(r, ms)
           \/ \E sent : SetWeakNotified(r, sent)
           \/ \E e, k, x : SetPendingEmail(r, e, k, x)
           \/ MarkVerified(r)
           \/ \E w, u : \E st \in {"open", None} : UpdateAlerts(r, w, u, st)
           \/ \E m : Confirm(r, m)
           \/ \E dis : SetDismissed(r, dis)
    PROVE  RowsJudged'
<1>a. db[r] # None => db[r] \in Row /\ RowJudged(r, db[r])
    BY DEF StoreTypeOK, RowsJudged
<1>1. CASE UNCHANGED db \/ Delete(r)
    BY <1>1 DEF StoreTypeOK, Delete, RowsJudged, RowJudged, VerdictsStay
<1>2. CASE SetStatus(r, "expired")
    BY <1>2, <1>a, WriteJudged DEF SetStatus, Row, RowJudged
<1>3. ASSUME NEW keys \in SUBSET judged[r], SetGraded(r, keys) PROVE RowsJudged'
    BY <1>3, <1>a, WriteJudged DEF SetGraded, Row, RowJudged
<1>4. ASSUME NEW m, NEW ms, Strong(m), UpdateMatch(r, m, "candidate", ms) PROVE RowsJudged'
    BY <1>4, <1>a, WriteJudged DEF UpdateMatch, Row, RowJudged
<1>5. ASSUME NEW ms, SetMatches(r, ms) PROVE RowsJudged'
    BY <1>5, <1>a, WriteJudged DEF SetMatches, Row, RowJudged
<1>6. ASSUME NEW sent, SetWeakNotified(r, sent) PROVE RowsJudged'
    BY <1>6, <1>a, WriteJudged DEF SetWeakNotified, Row, RowJudged
<1>7. ASSUME NEW e, NEW k, NEW x, SetPendingEmail(r, e, k, x) PROVE RowsJudged'
    BY <1>7, <1>a, WriteJudged DEF SetPendingEmail, Row, RowJudged
<1>8. CASE MarkVerified(r)
    BY <1>8, <1>a, WriteJudged DEF MarkVerified, Row, RowJudged
<1>9. ASSUME NEW w, NEW u, NEW st \in {"open", None}, UpdateAlerts(r, w, u, st)
      PROVE  RowsJudged'
    BY <1>9, <1>a, WriteJudged DEF UpdateAlerts, Row, RowJudged
<1>10. ASSUME NEW m, Confirm(r, m) PROVE RowsJudged'
    BY <1>10, <1>a, WriteJudged DEF Confirm, Row, RowJudged
<1>11. ASSUME NEW dis, SetDismissed(r, dis) PROVE RowsJudged'
    BY <1>11, <1>a, WriteJudged DEF SetDismissed, Row, RowJudged
<1>12. QED
    BY <1>1, <1>2, <1>3, <1>4, <1>5, <1>6, <1>7, <1>8, <1>9, <1>10, <1>11

(***************************************************************************)
(* The job.                                                                *)
(***************************************************************************)
\* The job works on with the same snapshot, or with less of it.
LEMMA SnapshotJudged ==
    ASSUME JobJudged, VerdictsStay, UNCHANGED born,
           \A r \in Reports : job'.rows[r] \in {job.rows[r], None},
           job'.pc = "record" => GradedKeys(job'.ms) \subseteq judged'[job'.cur],
           job'.pc = "promote" => Strong(Top(job'.ms))
    PROVE  JobJudged'
BY DEF JobJudged, VerdictsStay

\* The job drops a report, or everything, from its snapshot.
LEMMA LeaveJudged ==
    ASSUME RematchTypeOK, JobJudged, VerdictsStay, UNCHANGED born,
           job' = JobIdle \/ \E r \in Reports : job' = NextRow(r)
    PROVE  JobJudged'
<1>1. CASE job' = JobIdle
    BY <1>1, SnapshotJudged DEF JobIdle, NoRows
<1>2. ASSUME NEW r \in Reports, job' = NextRow(r) PROVE JobJudged'
  <2>1. job'.pc = "rows"
      BY <1>2 DEF RematchTypeOK, Job, NextRow
  <2>2. \A s \in Reports : job'.rows[s] \in {job.rows[s], None}
      BY <1>2 DEF RematchTypeOK, Job, NextRow
  <2>3. QED
      BY <2>1, <2>2, SnapshotJudged
<1>3. QED
    BY <1>1, <1>2

\* No step of the job writes what no verdict supports.
LEMMA JobVerdict ==
    ASSUME TypeOK, VerdictInv, JobStep \/ JobFailure
    PROVE  VerdictInv'
<1> USE DEF VerdictInv
<1>a. StoreTypeOK /\ RematchTypeOK /\ NotifierTypeOK /\ WorldTypeOK
    BY DEF TypeOK
<1>b. ASSUME UNCHANGED judged PROVE VerdictsStay
    BY <1>b DEF VerdictsStay
<1>c. UNCHANGED historyVars => UNCHANGED judged
    BY DEF historyVars
<1>d. UNCHANGED KeptVars => UNCHANGED born
    BY DEF KeptVars
<1>e. job.pc \in RowPcs => job.cur \in Reports
    BY <1>a, CurType
<1>f. ASSUME UNCHANGED db, VerdictsStay, UNCHANGED born PROVE RowsJudged'
    BY <1>f DEF RowsJudged, RowJudged, VerdictsStay
<1>1. CASE JobStart
  <2>1. job'.rows = job.rows /\ job'.pc = "purge"
      BY <1>1, <1>a DEF JobStart, RematchTypeOK, Job
  <2>2. QED
      BY <1>1, <1>b, <1>c, <1>d, <1>f, <2>1, SnapshotJudged DEF JobStart
<1>2. ASSUME NEW r \in Reports, JobPurge(r) PROVE VerdictInv'
  <2>1. job'.rows = job.rows /\ job'.pc = "purge"
      BY <1>2, <1>a DEF JobPurge, RematchTypeOK, Job
  <2>2. RowsJudged'
      BY <1>2, <1>a, <1>b, <1>c, <1>d, StatementJudged DEF JobPurge
  <2>3. QED
      BY <1>2, <1>b, <1>c, <1>d, <2>1, <2>2, SnapshotJudged DEF JobPurge
<1>3. CASE JobList
  <2>1. \A r \in Reports : job'.rows[r] = db[r] \/ job'.rows[r] = None
      BY <1>3, <1>a DEF JobList, RematchTypeOK, Job
  <2>2. job'.pc = "rows"
      BY <1>3, <1>a DEF JobList, RematchTypeOK, Job
  <2>3. UNCHANGED <<judged, born, db>>
      BY <1>3, <1>d DEF JobList
  <2>4. JobJudged'
      BY <2>1, <2>2, <2>3 DEF JobJudged, RowsJudged, RowJudged
  <2>5. QED
      BY <1>b, <1>f, <2>3, <2>4
<1>4. ASSUME NEW r \in Reports, JobExpire(r) PROVE VerdictInv'
  <2>1. RowsJudged'
      BY <1>4, <1>a, <1>b, <1>c, <1>d, StatementJudged DEF JobExpire
  <2>2. QED
      BY <1>4, <1>a, <1>b, <1>c, <1>d, <2>1, LeaveJudged DEF JobExpire
<1>5. CASE JobEnd \/ JobCrash
    BY <1>5, <1>a, <1>b, <1>c, <1>d, <1>f, LeaveJudged DEF JobEnd, JobCrash
<1>6. ASSUME NEW r \in Reports, JobSkip(r) \/ JobRowFails(r) PROVE VerdictInv'
    BY <1>6, <1>a, <1>b, <1>c, <1>d, <1>f, LeaveJudged DEF JobSkip, JobRowFails
<1>7. ASSUME NEW r \in Reports, JobJudge(r) PROVE VerdictInv'
  <2>1. PICK lost \in SUBSET Listed :
          /\ job' = [job EXCEPT !.pc = "record", !.cur = r, !.ms = Judged(lost)]
          /\ judged' = [judged EXCEPT ![r] = @ \cup (Listed \ lost)]
      BY <1>7 DEF JobJudge
  <2>2. VerdictsStay /\ Listed \ lost \subseteq judged'[r]
      BY <2>1, <1>a DEF NotifierTypeOK, VerdictsStay
  <2>3. job'.rows = job.rows /\ job'.pc = "record" /\ job'.cur = r /\ job'.ms = Judged(lost)
      BY <2>1, <1>a DEF RematchTypeOK, Job
  <2>4. GradedKeys(job'.ms) \subseteq judged'[job'.cur]
      BY <2>2, <2>3, LostIsNotGraded
  <2>5. UNCHANGED <<born, db>>
      BY <1>7, <1>d DEF JobJudge
  <2>6. QED
      BY <2>2, <2>3, <2>4, <2>5, <1>f, SnapshotJudged
<1>8. CASE JobRecord
  <2>1. job.pc = "record" /\ job.pc \in RowPcs /\ job.cur \in Reports
      BY <1>8, <1>e DEF JobRecord, RowPcs, JobPcs
  <2>2. CurRow # None
      BY <2>1, <1>a DEF RematchTypeOK, CurRow
  <2>3. CurRow.graded_ids \cup GradedKeys(job.ms) \in SUBSET judged[job.cur]
      BY <2>1, <2>2 DEF JobJudged, CurRow
  <2>4. UNCHANGED <<judged, born>> /\ VerdictsStay
      BY <1>8, <1>b, <1>c, <1>d DEF JobRecord
  <2>5. RowsJudged'
      BY <1>8, <1>a, <2>1, <2>3, <2>4, StatementJudged DEF JobRecord, Record
  <2> DEFINE kept == Undismissed(job.ms, CurRow)
  <2> DEFINE level == LevelOf(kept, CurRow.notify_weak)
  <2>6. \/ job' = NextRow(job.cur)
        \/ level = "strong" /\ job' = [job EXCEPT !.pc = "promote", !.ms = kept]
        \/ job' = [job EXCEPT !.pc = "recall", !.ms = kept]
      BY <1>8 DEF JobRecord
  <2>7. kept \subseteq Candidate
      BY <2>1, <1>a, CurType DEF Undismissed
  <2>8. JobJudged'
    <3>1. CASE job' = NextRow(job.cur)
        BY <3>1, <1>a, <2>1, <2>4, LeaveJudged
    <3>2. CASE level = "strong" /\ job' = [job EXCEPT !.pc = "promote", !.ms = kept]
      <4>1. job'.rows = job.rows /\ job'.pc = "promote" /\ job'.ms = kept
          BY <3>2, <1>a DEF RematchTypeOK, Job
      <4>2. Strong(Top(kept))
          BY <3>2, <2>7, StrongLevel
      <4>3. QED
          BY <4>1, <4>2, <2>4, SnapshotJudged
    <3>3. CASE job' = [job EXCEPT !.pc = "recall", !.ms = kept]
      <4>1. job'.rows = job.rows /\ job'.pc = "recall"
          BY <3>3, <1>a DEF RematchTypeOK, Job
      <4>2. QED
          BY <4>1, <2>4, SnapshotJudged
    <3>4. QED
        BY <2>6, <3>1, <3>2, <3>3
  <2>9. QED
      BY <2>5, <2>8
<1>9. CASE JobPromote
  <2>1. job.pc = "promote" /\ job.pc \in RowPcs /\ job.cur \in Reports
      BY <1>9, <1>e DEF JobPromote, RowPcs, JobPcs
  <2>2. UNCHANGED <<judged, born>> /\ VerdictsStay
      BY <1>9, <1>b, <1>c, <1>d DEF JobPromote
  <2>3. Strong(Top(job.ms))
      BY <2>1 DEF JobJudged
  <2>4. RowsJudged'
      BY <1>9, <1>a, <2>1, <2>2, <2>3, StatementJudged DEF JobPromote
  <2>5. job' = NextRow(job.cur) \/ (job'.rows = job.rows /\ job'.pc = "alert_strong")
      BY <1>9, <1>a DEF JobPromote, Goto, RematchTypeOK, Job
  <2>6. JobJudged'
      BY <1>a, <2>1, <2>2, <2>5, LeaveJudged, SnapshotJudged
  <2>7. QED
      BY <2>4, <2>6
<1>10. CASE JobAlertStrong \/ JobAlertWeak
  <2>1. job.pc \in RowPcs
      BY <1>10 DEF JobAlertStrong, JobAlertWeak, RowPcs, JobPcs
  <2>2. UNCHANGED <<judged, born, db>> /\ job' = NextRow(job.cur)
      BY <1>10, <1>d DEF JobAlertStrong, JobAlertWeak, JobAlert
  <2>3. QED
      BY <1>a, <1>b, <1>e, <1>f, <2>1, <2>2, LeaveJudged
<1>11. CASE JobRecall \/ JobMark \/ JobKeep
  <2>1. job.cur \in Reports
      BY <1>11, <1>e DEF JobRecall, JobMark, JobKeep, RowPcs, JobPcs
  <2>2. UNCHANGED <<judged, born>> /\ VerdictsStay
      BY <1>11, <1>b, <1>c, <1>d DEF JobRecall, JobMark, JobKeep
  <2>3. job'.rows = job.rows /\ job'.pc \notin {"record", "promote"}
      BY <1>11, <1>a DEF JobRecall, JobMark, JobKeep, Goto, RematchTypeOK, Job
  <2>4. RowsJudged'
      BY <1>11, <1>a, <2>1, <2>2, StatementJudged DEF JobRecall, JobMark, JobKeep
  <2>5. QED
      BY <2>2, <2>3, <2>4, SnapshotJudged
<1>12. QED
    BY <1>1, <1>2, <1>3, <1>4, <1>5, <1>6, <1>7, <1>8, <1>9, <1>10, <1>11
       DEF JobStep, JobFailure

(***************************************************************************)
(* The requests.                                                           *)
(***************************************************************************)
\* A request's step leaves the verdicts, the ids and the job alone.
LEMMA RequestJudged ==
    ASSUME VerdictInv, UNCHANGED <<judged, born, job>>, RowsJudged'
    PROVE  VerdictInv'
BY DEF VerdictInv, JobJudged

\* The later steps of each request, however many run at once and however old their rows are.
LEMMA ThreadVerdict ==
    ASSUME TypeOK, VerdictInv, NEW t \in Threads, ThreadStep(t), UNCHANGED job
    PROVE  VerdictInv'
<1> USE DEF VerdictInv
<1>a. StoreTypeOK /\ ApiTypeOK
    BY DEF TypeOK
<1>b. UNCHANGED judged => VerdictsStay
    BY DEF VerdictsStay
<1>c. UNCHANGED historyVars => UNCHANGED judged
    BY DEF historyVars
<1>d. UNCHANGED storeVars => UNCHANGED <<db, born>>
    BY DEF storeVars
<1>e. ASSUME NEW pc, At(t, pc), pc # "idle" PROVE req[t].r \in Reports
    BY <1>a, <1>e, AtType
<1>1. ASSUME NEW k \in Tokens, SendLink(t, k) PROVE VerdictInv'
    BY <1>1, <1>a, <1>b, <1>e, StatementJudged, RequestJudged DEF SendLink
<1>2. CASE LinkRefused(t)
    BY <1>2, <1>a, <1>b, <1>c, <1>d, <1>e, StatementJudged, RequestJudged DEF LinkRefused
<1>3. CASE AlertsSave(t)
    BY <1>3, <1>a, <1>b, <1>e, StatementJudged, RequestJudged DEF AlertsSave
<1>4. CASE AlertsClear(t)
    BY <1>4, <1>a, <1>b, <1>e, StatementJudged, RequestJudged DEF AlertsClear
<1>5. CASE VerifyMark(t)
    BY <1>5, <1>a, <1>b, <1>e, StatementJudged, RequestJudged DEF VerifyMark
<1>6. CASE VerifyReload(t) \/ VerifyNotify(t) \/ VerifyRecall(t)
    BY <1>6, <1>a, <1>b, <1>c, <1>d, <1>e, StatementJudged, RequestJudged
       DEF VerifyReload, VerifyNotify, VerifyRecall
<1>7. CASE VerifyRecord(t)
    BY <1>7, <1>a, <1>b, <1>c, <1>e, StatementJudged, RequestJudged DEF VerifyRecord
<1>8. CASE ConfirmWrite(t)
    BY <1>8, <1>a, <1>b, <1>e, StatementJudged, RequestJudged DEF ConfirmWrite
<1>9. CASE DismissWrite(t)
    BY <1>9, <1>a, <1>b, <1>e, StatementJudged, RequestJudged DEF DismissWrite
<1>10. QED
    BY <1>1, <1>2, <1>3, <1>4, <1>5, <1>6, <1>7, <1>8, <1>9 DEF ThreadStep

\* The first step of each request.  A registration is the one step that forgets verdicts,
\* those of an id that nobody has had before.
LEMMA ArriveVerdict ==
    ASSUME TypeOK, VerdictInv, NEW t \in Threads, NEW r \in Reports, Arrive(t, r), UNCHANGED job
    PROVE  VerdictInv'
<1> USE DEF VerdictInv
<1>a. StoreTypeOK /\ RematchTypeOK /\ NotifierTypeOK /\ WorldTypeOK
    BY DEF TypeOK
<1>1. ASSUME NEW e \in Emails \cup {None}, NEW w \in BOOLEAN, Register(t, r, e, w)
      PROVE  VerdictInv'
  <2>1. PICK lost \in SUBSET Listed :
          /\ judged' = [judged EXCEPT ![r] = Listed \ lost]
          /\ Add(r, [BlankRow EXCEPT
                !.status = IF LevelOf(Judged(lost), FALSE) = "strong" THEN "candidate" ELSE "open",
                !.notify_weak = w /\ e # None,
                !.watch_until = WatchUntilAfter(0),
                !.matches = Slim(Judged(lost)),
                !.best_match = IF Judged(lost) = {} THEN None ELSE Top(Judged(lost)),
                !.graded_ids = GradedKeys(Judged(lost))])
      BY <1>1 DEF Register
  <2>2. r \notin born
      BY <1>1 DEF Register
  <2> DEFINE ms == Judged(lost)
  <2>3. /\ born' = born \cup {r} /\ db' = [db EXCEPT ![r] = db'[r]]
        /\ db'[r].status = IF LevelOf(ms, FALSE) = "strong" THEN "candidate" ELSE "open"
        /\ db'[r].best_match = IF ms = {} THEN None ELSE Top(ms)
        /\ db'[r].graded_ids = GradedKeys(ms)
      BY <2>1, <1>a DEF Add, StoreTypeOK, BlankRow
  <2>4. GradedKeys(ms) \subseteq judged'[r]
      BY <2>1, <1>a, LostIsNotGraded DEF NotifierTypeOK
  <2>5. db'[r].status = "candidate" => Strong(db'[r].best_match)
    <3>1. LevelOf(ms, FALSE) = "strong" => ms # {} /\ Strong(Top(ms))
        BY <1>a, JudgedType, StrongLevel
    <3>2. QED
        BY <2>3, <3>1
  <2>6. \A s \in Reports \ {r} : db'[s] = db[s] /\ judged'[s] = judged[s]
      BY <2>1, <2>3, <1>a DEF StoreTypeOK, NotifierTypeOK
  <2>7. RowsJudged'
      BY <2>3, <2>4, <2>5, <2>6 DEF RowsJudged, RowJudged
  <2>8. job.rows[r] = None
      BY <2>2 DEF JobJudged
  <2>9. job.pc = "record" => job.cur \in Reports \ {r}
    <3>1. job.pc = "record" => job.pc \in RowPcs
        BY DEF RowPcs, JobPcs
    <3>2. QED
        BY <3>1, <2>8, <1>a, CurType DEF RematchTypeOK
  <2>10. JobJudged'
      BY <2>3, <2>6, <2>8, <2>9 DEF JobJudged
  <2>11. QED
      BY <2>7, <2>10
<1>2. CASE DeleteReport(t, r)
  <2>1. UNCHANGED <<judged, born>> /\ Delete(r)
      BY <1>2 DEF DeleteReport
  <2>2. VerdictsStay
      BY <2>1 DEF VerdictsStay
  <2>3. QED
      BY <1>a, <2>1, <2>2, StatementJudged, RequestJudged
<1>3. CASE UNCHANGED <<storeVars, historyVars>>
  <2>1. UNCHANGED <<db, born, judged>>
      BY <1>3 DEF storeVars, historyVars
  <2>2. QED
      BY <2>1, RequestJudged DEF RowsJudged, RowJudged
<1>4. QED
    BY <1>1, <1>2, <1>3 DEF Arrive, AlertsRead, VerifyFind, ConfirmRead, DismissRead

(***************************************************************************)
(* Together.                                                               *)
(***************************************************************************)
\* In the beginning nothing is judged and nothing is said.
LEMMA InitVerdict == Init => VerdictInv
<1> SUFFICES ASSUME Init PROVE VerdictInv
    OBVIOUS
<1>1. \A r \in Reports : db[r] # None => r \in born /\ db[r] \in SeedRows
    BY DEF Init, StoreInit
<1>2. \A row \in SeedRows : row.graded_ids = {} /\ row.status = "open"
  <2> TAKE row \in SeedRows
  <2>1. PICK e \in Emails, w \in BOOLEAN : row = SeedRow(e, w)
      BY DEF SeedRows
  <2>2. QED
      BY <2>1 DEF SeedRow, BlankRow
<1>3. RowsJudged
    BY <1>1, <1>2 DEF RowsJudged, RowJudged
<1>4. JobJudged
    BY DEF Init, RematchInit, JobIdle, NoRows, JobJudged
<1>5. QED
    BY <1>3, <1>4 DEF VerdictInv

\* What a row says of its candidates rests on verdicts, in every reachable state.
THEOREM VerdictsHold == Spec => []VerdictInv
<1>1. Init => VerdictInv
    BY InitVerdict
<1>2. TypeOK /\ VerdictInv /\ [Next]_vars => VerdictInv'
  <2> SUFFICES ASSUME TypeOK, VerdictInv, [Next]_vars PROVE VerdictInv'
      OBVIOUS
  <2>1. CASE \/ WorldStep
             \/ ApiRestart /\ UNCHANGED job
             \/ UNCHANGED vars
    <3>1. UNCHANGED <<db, born, judged, job>>
        BY <2>1 DEF WorldStep, ApiRestart, vars, storeVars, historyVars
    <3>2. RowsJudged'
        BY <3>1 DEF VerdictInv, RowsJudged, RowJudged
    <3>3. QED
        BY <3>1, <3>2, RequestJudged
  <2>2. CASE (JobStep \/ JobFailure) /\ UNCHANGED apiVars
      BY <2>2, JobVerdict
  <2>3. CASE ApiStep /\ UNCHANGED job
      BY <2>3, ThreadVerdict, ArriveVerdict DEF ApiStep
  <2>4. QED
      BY <2>1, <2>2, <2>3 DEF Next
<1>3. QED
    BY <1>1, <1>2, TypeCorrect, PTL DEF Spec

\* A report is shown as candidate only with a best match that reached the strong threshold,
\* for any number of requests at once beside the job (rematch.py promotes from old rows).
THEOREM CandidatesAreStrong == Spec => []CandidateIsStrong
<1>1. VerdictInv => CandidateIsStrong
    BY DEF VerdictInv, RowsJudged, RowJudged, Strong, CandidateIsStrong
<1>2. QED
    BY <1>1, VerdictsHold, PTL

\* An item counts as judged only if the LLM gave a verdict on it for this report, whichever
\* of the job and the requests writes graded_ids last.
THEOREM GradedWereJudged == Spec => []GradedWasJudged
<1>1. VerdictInv => GradedWasJudged
    BY DEF VerdictInv, RowsJudged, RowJudged, GradedWasJudged
<1>2. QED
    BY <1>1, VerdictsHold, PTL

-------------------------------------------------------------------------------
(***************************************************************************)
(* The snapshot.  The job decides from rows that may be hours old; what it *)
(* may write all the same, and when what it does is out of date.           *)
(***************************************************************************)
\* The columns the owner sets.
SameSettings(row, old) ==
    /\ row.email = old.email /\ row.email_verified = old.email_verified
    /\ row.notify_weak = old.notify_weak /\ row.watch_until = old.watch_until
    /\ row.dismissed = old.dismissed

\* An UPDATE that leaves report s with that status and that record of weak alerts, and neither
\* the columns of its owner nor another report changed.
Updated(s, st, sent) ==
    /\ \A r \in Reports \ {s} : db'[r] = db[r]
    /\ db[s] = None => db'[s] = None
    /\ db[s] # None => /\ db'[s] # None /\ SameSettings(db'[s], db[s])
                       /\ db'[s].status = st /\ db'[s].weak_notified = sent

LEMMA WriteUpdates ==
    ASSUME StoreTypeOK, NEW s \in Reports, NEW row, Write(s, row), NEW st, NEW sent,
           db[s] # None => /\ row # None /\ SameSettings(row, db[s])
                           /\ row.status = st /\ row.weak_notified = sent
    PROVE  Updated(s, st, sent)
<1>1. CASE db[s] = None
    BY <1>1 DEF Write, Updated
<1>2. CASE db[s] # None
  <2>1. db' = [db EXCEPT ![s] = row]
      BY <1>2 DEF Write
  <2>2. db'[s] = row /\ \A r \in Reports \ {s} : db'[r] = db[r]
      BY <2>1 DEF StoreTypeOK
  <2>3. QED
      BY <1>2, <2>2 DEF Updated
<1>3. QED
    BY <1>1, <1>2

\* The UPDATEs of the job, each of its own columns.
LEMMA JobUpdates ==
    ASSUME StoreTypeOK, NEW s \in Reports
    PROVE  /\ SetStatus(s, "expired") => Updated(s, "expired", db[s].weak_notified)
           /\ \A keys \in SUBSET Items :
                  SetGraded(s, keys) => Updated(s, db[s].status, db[s].weak_notified)
           /\ \A m \in Candidate, ms \in SUBSET Candidate :
                  UpdateMatch(s, m, "candidate", ms) =>
                      Updated(s, "candidate", db[s].weak_notified)
           /\ \A ms \in SUBSET Candidate :
                  SetMatches(s, ms) => Updated(s, db[s].status, db[s].weak_notified)
           /\ \A sent \in SUBSET Items :
                  SetWeakNotified(s, sent) => Updated(s, db[s].status, sent)
<1>a. db[s] # None => db[s] \in Row
    BY DEF StoreTypeOK
<1>1. ASSUME SetStatus(s, "expired") PROVE Updated(s, "expired", db[s].weak_notified)
  <2> DEFINE row == [db[s] EXCEPT !.status = "expired"]
  <2>1. db[s] # None => /\ row \in Row /\ SameSettings(row, db[s])
                        /\ row.status = "expired" /\ row.weak_notified = db[s].weak_notified
      BY <1>a DEF Row, Statuses, SameSettings
  <2>2. Write(s, row)
      BY <1>1 DEF SetStatus
  <2> HIDE DEF row
  <2>3. QED
      BY <2>1, <2>2, NullIsNoRow, WriteUpdates
<1>2. ASSUME NEW keys \in SUBSET Items, SetGraded(s, keys)
      PROVE  Updated(s, db[s].status, db[s].weak_notified)
  <2>1. PICK kept \in SUBSET keys : Write(s, [db[s] EXCEPT !.graded_ids = kept])
      BY <1>2 DEF SetGraded
  <2> DEFINE row == [db[s] EXCEPT !.graded_ids = kept]
  <2>2. db[s] # None => /\ row \in Row /\ SameSettings(row, db[s])
                        /\ row.status = db[s].status /\ row.weak_notified = db[s].weak_notified
      BY <1>a DEF Row, SameSettings
  <2>3. Write(s, row)
      BY <2>1
  <2> HIDE DEF row
  <2>4. QED
      BY <2>2, <2>3, NullIsNoRow, WriteUpdates
<1>3. ASSUME NEW m \in Candidate, NEW ms \in SUBSET Candidate,
             UpdateMatch(s, m, "candidate", ms)
      PROVE  Updated(s, "candidate", db[s].weak_notified)
  <2> DEFINE row == [db[s] EXCEPT !.best_match = m, !.status = "candidate", !.matches = ms]
  <2>1. db[s] # None => /\ row \in Row
                        /\ row.status = "candidate" /\ row.weak_notified = db[s].weak_notified
      BY <1>a DEF Row, Statuses
  <2>2. db[s] # None => SameSettings(row, db[s])
      BY <1>a DEF Row, SameSettings
  <2>3. Write(s, row)
      BY <1>3 DEF UpdateMatch
  <2> HIDE DEF row
  <2>4. QED
      BY <2>1, <2>2, <2>3, NullIsNoRow, WriteUpdates
<1>4. ASSUME NEW ms \in SUBSET Candidate, SetMatches(s, ms)
      PROVE  Updated(s, db[s].status, db[s].weak_notified)
  <2> DEFINE row == [db[s] EXCEPT !.matches = ms]
  <2>1. db[s] # None => /\ row \in Row /\ SameSettings(row, db[s])
                        /\ row.status = db[s].status /\ row.weak_notified = db[s].weak_notified
      BY <1>a DEF Row, SameSettings
  <2>2. Write(s, row)
      BY <1>4 DEF SetMatches
  <2> HIDE DEF row
  <2>3. QED
      BY <2>1, <2>2, NullIsNoRow, WriteUpdates
<1>5. ASSUME NEW sent \in SUBSET Items, SetWeakNotified(s, sent)
      PROVE  Updated(s, db[s].status, sent)
  <2> DEFINE row == [db[s] EXCEPT !.weak_notified = sent]
  <2>1. db[s] # None => /\ row \in Row /\ SameSettings(row, db[s])
                        /\ row.status = db[s].status /\ row.weak_notified = sent
      BY <1>a DEF Row, SameSettings
  <2>2. Write(s, row)
      BY <1>5 DEF SetWeakNotified
  <2> HIDE DEF row
  <2>3. QED
      BY <2>1, <2>2, NullIsNoRow, WriteUpdates
<1>6. QED
    BY <1>1, <1>2, <1>3, <1>4, <1>5

\* What the job writes at each of its steps inside _rematch_one.
LEMMA RowStepUpdates ==
    ASSUME TypeOK
    PROVE  /\ job.pc \in RowPcs => job.cur \in Reports
           /\ JobRecord \/ JobKeep => UNCHANGED db
                  \/ Updated(job.cur, db[job.cur].status, db[job.cur].weak_notified)
           /\ JobPromote => Updated(job.cur, "candidate", db[job.cur].weak_notified)
           /\ JobMark => Updated(job.cur, db[job.cur].status, job.sent \cup {Top(job.ms).item})
<1>a. StoreTypeOK /\ RematchTypeOK
    BY DEF TypeOK
<1>b. job.pc \in RowPcs => job.cur \in Reports /\ CurRow \in Row /\ job.ms \subseteq Candidate
    BY <1>a, CurType
<1>c. ASSUME job.pc \in RowPcs, job.pc # "record"
      PROVE  /\ job.cur \in Reports /\ Top(job.ms) \in Candidate
             /\ Slim(job.ms) \in SUBSET Candidate
    BY <1>a, <1>c, CurType DEF Slim
<1>1. ASSUME JobRecord
      PROVE  UNCHANGED db \/ Updated(job.cur, db[job.cur].status, db[job.cur].weak_notified)
  <2>1. job.pc \in RowPcs
      BY <1>1 DEF JobRecord, RowPcs, JobPcs
  <2>2. CurRow.graded_ids \cup GradedKeys(job.ms) \in SUBSET Items
      BY <1>b, <2>1, GradedKeysType DEF Row
  <2>3. UNCHANGED db \/ SetGraded(job.cur, CurRow.graded_ids \cup GradedKeys(job.ms))
      BY <1>1 DEF JobRecord, Record
  <2>4. QED
      BY <1>a, <1>b, <2>1, <2>2, <2>3, JobUpdates
<1>2. ASSUME JobPromote PROVE Updated(job.cur, "candidate", db[job.cur].weak_notified)
  <2>1. job.pc \in RowPcs /\ job.pc # "record"
      BY <1>2 DEF JobPromote, RowPcs, JobPcs
  <2>2. UpdateMatch(job.cur, Top(job.ms), "candidate", Slim(job.ms))
      BY <1>2 DEF JobPromote
  <2>3. QED
      BY <1>a, <1>c, <2>1, <2>2, JobUpdates
<1>3. ASSUME JobMark
      PROVE  Updated(job.cur, db[job.cur].status, job.sent \cup {Top(job.ms).item})
  <2>1. job.pc \in RowPcs /\ job.pc # "record"
      BY <1>3 DEF JobMark, RowPcs, JobPcs
  <2>2. job.sent \cup {Top(job.ms).item} \in SUBSET Items
      BY <1>a, <1>c, <2>1 DEF RematchTypeOK, Job, Candidate
  <2>3. SetWeakNotified(job.cur, job.sent \cup {Top(job.ms).item})
      BY <1>3 DEF JobMark
  <2>4. QED
      BY <1>a, <1>c, <2>1, <2>2, <2>3, JobUpdates
<1>4. ASSUME JobKeep PROVE Updated(job.cur, db[job.cur].status, db[job.cur].weak_notified)
  <2>1. job.pc \in RowPcs /\ job.pc # "record"
      BY <1>4 DEF JobKeep, RowPcs, JobPcs
  <2>2. SetMatches(job.cur, Slim(job.ms))
      BY <1>4 DEF JobKeep
  <2>3. QED
      BY <1>a, <1>c, <2>1, <2>2, JobUpdates
<1>5. QED
    BY <1>b, <1>1, <1>2, <1>3, <1>4

KeepsSettings ==
    \A r \in Reports : db[r] # None /\ db'[r] # None => SameSettings(db'[r], db[r])

LEMMA JobKeepsSettings ==
    ASSUME TypeOK, JobStep \/ JobFailure
    PROVE  KeepsSettings
<1>a. StoreTypeOK /\ RematchTypeOK
    BY DEF TypeOK
<1>1. \A r \in Reports : SameSettings(db[r], db[r])
    BY DEF SameSettings
<1>2. ASSUME NEW s \in Reports, NEW st, NEW sent, Updated(s, st, sent) PROVE KeepsSettings
    BY <1>1, <1>2 DEF Updated, KeepsSettings
<1>3. ASSUME UNCHANGED db PROVE KeepsSettings
    BY <1>1, <1>3 DEF KeepsSettings
<1>4. ASSUME NEW s \in Reports, JobPurge(s) PROVE KeepsSettings
    BY <1>a, <1>1, <1>4 DEF JobPurge, Delete, StoreTypeOK, KeepsSettings
<1>5. ASSUME NEW s \in Reports, JobExpire(s) PROVE KeepsSettings
  <2>1. Updated(s, "expired", db[s].weak_notified)
      BY <1>5, <1>a, JobUpdates DEF JobExpire
  <2>2. QED
      BY <2>1, <1>2
<1>6. CASE JobRecord \/ JobPromote \/ JobMark \/ JobKeep
  <2>1. job.cur \in Reports
      BY <1>6, RowStepUpdates DEF JobRecord, JobPromote, JobMark, JobKeep, RowPcs, JobPcs
  <2>2. UNCHANGED db \/ \E st, sent : Updated(job.cur, st, sent)
      BY <1>6, RowStepUpdates
  <2>3. QED
      BY <2>1, <2>2, <1>2, <1>3
<1>7. CASE \/ JobStart \/ JobList \/ JobEnd \/ JobAlertStrong \/ JobAlertWeak \/ JobRecall
           \/ JobCrash
           \/ \E r \in Reports : JobSkip(r) \/ JobJudge(r) \/ JobRowFails(r)
    BY <1>7, <1>3
       DEF JobStart, JobList, JobEnd, JobSkip, JobJudge, JobAlertStrong, JobAlertWeak, JobAlert,
           JobRecall, JobRowFails, JobCrash
<1>8. QED
    BY <1>4, <1>5, <1>6, <1>7 DEF JobStep, JobFailure

\* THEOREM: whatever the age of the rows it works on, the job never changes a column that the
\* owner sets: those change only in a step that is a request's (rematch.py writes single columns,
\* never a whole row).
THEOREM SettingsStayTheOwners == Spec => SettingsAreTheOwners
<1> DEFINE Changed == \E r \in Reports :
               /\ db[r] # None /\ db'[r] # None
               /\ \/ db'[r].email # db[r].email
                  \/ db'[r].email_verified # db[r].email_verified
                  \/ db'[r].notify_weak # db[r].notify_weak
                  \/ db'[r].watch_until # db[r].watch_until
                  \/ db'[r].dismissed # db[r].dismissed
<1>1. TypeOK /\ [Next]_vars => (Changed => job' = job)
  <2> SUFFICES ASSUME TypeOK, [Next]_vars, Changed PROVE job' = job
      OBVIOUS
  <2>1. CASE (JobStep \/ JobFailure) /\ UNCHANGED apiVars
      BY <2>1, JobKeepsSettings DEF KeepsSettings, SameSettings
  <2>2. CASE WorldStep \/ UNCHANGED vars
      BY <2>2 DEF WorldStep, vars
  <2>3. QED
      BY <2>1, <2>2 DEF Next
<1>2. QED
    BY <1>1, TypeCorrect, PTL DEF Spec, SettingsAreTheOwners

-------------------------------------------------------------------------------
(***************************************************************************)
(* What the snapshot is still good for.  As long as its owner leaves a     *)
(* report alone, the snapshot row and the row in the table agree in what   *)
(* the job decides with, for nobody but the job changes it; what the job   *)
(* has decided it has decided on the snapshot.                             *)
(***************************************************************************)
AlertPcs == {"alert_strong", "recall", "mark", "keep", "alert_weak"}

\* Outside rematch_open there is no snapshot.
SnapIdle == job.pc \in {"idle", "purge"} => job.rows = NoRows

\* The status of a report in the snapshot that nobody but the job has touched.
StatusLeft(r) == IF r = job.cur /\ job.pc = "alert_strong" THEN "candidate" ELSE "open"

SnapFresh ==
    \A r \in Reports \ touched : job.rows[r] # None =>
        /\ db[r] # None /\ db[r].status = StatusLeft(r)
        /\ db[r].email = job.rows[r].email
        /\ db[r].email_verified = job.rows[r].email_verified
        /\ db[r].dismissed = job.rows[r].dismissed

\* What the job is about to say, it may say by the snapshot row.
SnapGoes ==
    /\ job.pc \in AlertPcs \cup {"promote"} => \A m \in job.ms : m.item \notin CurRow.dismissed
    /\ job.pc \in AlertPcs => CanEmail(CurRow)

SnapInv == SnapIdle /\ SnapFresh /\ SnapGoes

(***************************************************************************)
(* The job.                                                                *)
(***************************************************************************)
\* A step of the job on report s, which is the current one if the job is mailing.
LEMMA FreshKeeps ==
    ASSUME SnapFresh, UNCHANGED touched, NEW s \in Reports,
           \A r \in Reports \ {s} : db'[r] = db[r] /\ job'.rows[r] \in {job.rows[r], None},
           job.pc = "alert_strong" => job.cur = s /\ job'.rows[s] = None,
           job'.pc = "alert_strong" => job'.cur = s,
           job'.rows[s] # None =>
               /\ job'.rows[s] = job.rows[s]
               /\ db[s] # None =>
                      /\ db'[s] # None /\ SameSettings(db'[s], db[s])
                      /\ db'[s].status = IF job'.pc = "alert_strong" THEN "candidate"
                                         ELSE db[s].status
    PROVE  SnapFresh'
<1> SUFFICES ASSUME NEW r \in Reports, r \notin touched, job'.rows[r] # None
             PROVE  /\ db'[r] # None /\ db'[r].status = StatusLeft(r)'
                    /\ db'[r].email = job'.rows[r].email
                    /\ db'[r].email_verified = job'.rows[r].email_verified
                    /\ db'[r].dismissed = job'.rows[r].dismissed
    BY DEF SnapFresh
<1>1. job'.rows[r] = job.rows[r]
    OBVIOUS
<1>2. /\ db[r] # None /\ db[r].status = StatusLeft(r)
      /\ db[r].email = job.rows[r].email
      /\ db[r].email_verified = job.rows[r].email_verified
      /\ db[r].dismissed = job.rows[r].dismissed
    BY <1>1 DEF SnapFresh
<1>3. db[r].status = "open"
    BY <1>2 DEF StatusLeft
<1>4. CASE r = s
    BY <1>1, <1>2, <1>3, <1>4 DEF SameSettings, StatusLeft
<1>5. CASE r # s
    BY <1>1, <1>2, <1>3, <1>5 DEF StatusLeft
<1>6. QED
    BY <1>4, <1>5

\* Without a snapshot there is nothing to keep.
LEMMA NoSnapshot ==
    ASSUME job'.rows = NoRows, job'.pc \in {"idle", "purge"}
    PROVE  SnapInv'
<1>1. SnapIdle' /\ SnapFresh'
    BY DEF SnapIdle, SnapFresh, NoRows
<1>2. SnapGoes'
    BY DEF SnapGoes, AlertPcs
<1>3. QED
    BY <1>1, <1>2 DEF SnapInv

\* The job is done with a report.
LEMMA NextRowKeeps ==
    ASSUME RematchTypeOK, SnapInv, UNCHANGED touched, NEW s \in Reports,
           job.pc = "alert_strong" => job.cur = s,
           \A r \in Reports \ {s} : db'[r] = db[r],
           job' = NextRow(s)
    PROVE  SnapInv'
<1>1. job'.pc = "rows" /\ job'.rows[s] = None
    BY DEF RematchTypeOK, Job, NextRow
<1>2. \A r \in Reports \ {s} : job'.rows[r] = job.rows[r]
    BY DEF RematchTypeOK, Job, NextRow
<1>3. SnapFresh'
    BY <1>1, <1>2, FreshKeeps DEF SnapInv
<1>4. SnapIdle' /\ SnapGoes'
    BY <1>1 DEF SnapIdle, SnapGoes, AlertPcs
<1>5. QED
    BY <1>3, <1>4 DEF SnapInv

\* The job goes on with the same report.
LEMMA GoOnKeeps ==
    ASSUME SnapInv, UNCHANGED touched, job.cur \in Reports, job.pc \in RowPcs,
           job'.rows = job.rows, job'.cur = job.cur,
           job.pc # "alert_strong", job'.pc \in RowPcs,
           \/ UNCHANGED db /\ job'.pc # "alert_strong"
           \/ \E sent : Updated(job.cur, IF job'.pc = "alert_strong" THEN "candidate"
                                         ELSE db[job.cur].status, sent),
           job'.pc \in AlertPcs \cup {"promote"} =>
               \A m \in job'.ms : m.item \notin CurRow.dismissed,
           job'.pc \in AlertPcs => CanEmail(CurRow)
    PROVE  SnapInv'
<1>1. SameSettings(db[job.cur], db[job.cur])
    BY DEF SameSettings
<1>2. SnapFresh'
    BY <1>1, FreshKeeps DEF SnapInv, Updated
<1>3. SnapIdle'
    BY DEF SnapIdle, RowPcs, JobPcs
<1>4. SnapGoes'
    BY DEF SnapGoes, CurRow
<1>5. QED
    BY <1>2, <1>3, <1>4 DEF SnapInv

LEMMA JobSnap ==
    ASSUME TypeOK, SnapInv, JobStep \/ JobFailure
    PROVE  SnapInv'
<1>a. StoreTypeOK /\ RematchTypeOK
    BY DEF TypeOK
<1>b. job.pc \in RowPcs => job.cur \in Reports
    BY <1>a, CurType
<1>c. UNCHANGED historyVars => UNCHANGED touched
    BY DEF historyVars
<1>1. CASE JobStart
  <2>1. job'.rows = job.rows /\ job'.pc = "purge" /\ job.pc = "idle"
      BY <1>1, <1>a DEF JobStart, RematchTypeOK, Job
  <2>2. QED
      BY <2>1, NoSnapshot DEF SnapInv, SnapIdle
<1>2. ASSUME NEW r \in Reports, JobPurge(r) PROVE SnapInv'
  <2>1. job'.rows = job.rows /\ job'.pc = "purge" /\ job.pc = "purge"
      BY <1>2, <1>a DEF JobPurge, RematchTypeOK, Job
  <2>2. QED
      BY <2>1, NoSnapshot DEF SnapInv, SnapIdle
<1>3. CASE JobList
  <2>1. \A r \in Reports : job'.rows[r] # None =>
            db[r] # None /\ db[r].status = "open" /\ job'.rows[r] = db[r]
      BY <1>3, <1>a DEF JobList, RematchTypeOK, Job
  <2>2. job'.pc = "rows" /\ UNCHANGED db
      BY <1>3, <1>a DEF JobList, RematchTypeOK, Job
  <2>3. SnapFresh'
      BY <2>1, <2>2 DEF SnapFresh, StatusLeft
  <2>4. SnapIdle' /\ SnapGoes'
      BY <2>2 DEF SnapIdle, SnapGoes, AlertPcs
  <2>5. QED
      BY <2>3, <2>4 DEF SnapInv
<1>4. ASSUME NEW r \in Reports, JobExpire(r) PROVE SnapInv'
  <2>1. Updated(r, "expired", db[r].weak_notified)
      BY <1>4, <1>a, JobUpdates DEF JobExpire
  <2>2. QED
      BY <1>4, <1>a, <1>c, <2>1, NextRowKeeps DEF JobExpire, Updated
<1>5. CASE JobEnd \/ JobCrash
    BY <1>5, NoSnapshot DEF JobEnd, JobCrash, JobIdle
<1>6. ASSUME NEW r \in Reports, JobSkip(r) \/ JobRowFails(r) PROVE SnapInv'
  <2>1. job.pc = "alert_strong" => job.cur = r
      BY <1>6 DEF JobSkip, JobRowFails, Watched
  <2>2. QED
      BY <1>6, <1>a, <1>c, <2>1, NextRowKeeps DEF JobSkip, JobRowFails
<1>7. ASSUME NEW r \in Reports, JobJudge(r) PROVE SnapInv'
  <2>1. job'.rows = job.rows /\ job'.pc = "record" /\ job.pc = "rows"
      BY <1>7, <1>a DEF JobJudge, Watched, RematchTypeOK, Job
  <2>2. UNCHANGED <<db, touched>>
      BY <1>7 DEF JobJudge
  <2>3. SnapFresh'
      BY <2>1, <2>2 DEF SnapInv, SnapFresh, StatusLeft
  <2>4. SnapIdle' /\ SnapGoes'
      BY <2>1 DEF SnapIdle, SnapGoes, AlertPcs
  <2>5. QED
      BY <2>3, <2>4 DEF SnapInv
<1>8. CASE JobRecord
  <2>1. job.pc = "record" /\ job.pc \in RowPcs /\ job.cur \in Reports
      BY <1>8, <1>b DEF JobRecord, RowPcs, JobPcs
  <2>2. UNCHANGED touched
      BY <1>8, <1>c DEF JobRecord
  <2>3. \/ UNCHANGED db
        \/ Updated(job.cur, db[job.cur].status, db[job.cur].weak_notified)
      BY <1>8, RowStepUpdates
  <2> DEFINE kept == Undismissed(job.ms, CurRow)
  <2>4. \A m \in kept : m.item \notin CurRow.dismissed
      BY DEF Undismissed
  <2>5. \/ job' = NextRow(job.cur)
        \/ job' = [job EXCEPT !.pc = "promote", !.ms = kept]
        \/ CanEmail(CurRow) /\ job' = [job EXCEPT !.pc = "recall", !.ms = kept]
      BY <1>8 DEF JobRecord
  <2> HIDE DEF kept
  <2>6. CASE job' = NextRow(job.cur)
      BY <1>a, <2>1, <2>2, <2>3, <2>6, NextRowKeeps DEF Updated
  <2>7. CASE job' = [job EXCEPT !.pc = "promote", !.ms = kept]
    <3>1. /\ job'.pc = "promote" /\ job'.ms = kept
          /\ job'.rows = job.rows /\ job'.cur = job.cur
        BY <2>7, <1>a DEF RematchTypeOK, Job
    <3>2. job'.pc \in RowPcs /\ job'.pc \notin AlertPcs
        BY <3>1 DEF RowPcs, JobPcs, AlertPcs
    <3>3. QED
        BY <3>1, <3>2, <2>1, <2>2, <2>3, <2>4, GoOnKeeps
  <2>8. CASE CanEmail(CurRow) /\ job' = [job EXCEPT !.pc = "recall", !.ms = kept]
    <3>1. /\ job'.pc = "recall" /\ job'.ms = kept
          /\ job'.rows = job.rows /\ job'.cur = job.cur
        BY <2>8, <1>a DEF RematchTypeOK, Job
    <3>2. job'.pc \in RowPcs
        BY <3>1 DEF RowPcs, JobPcs
    <3>3. QED
        BY <3>1, <3>2, <2>1, <2>2, <2>3, <2>4, <2>8, GoOnKeeps
  <2>9. QED
      BY <2>5, <2>6, <2>7, <2>8
<1>9. CASE JobPromote
  <2>1. job.pc = "promote" /\ job.pc \in RowPcs /\ job.cur \in Reports
      BY <1>9, <1>b DEF JobPromote, RowPcs, JobPcs
  <2>2. UNCHANGED touched
      BY <1>9, <1>c DEF JobPromote
  <2>3. Updated(job.cur, "candidate", db[job.cur].weak_notified)
      BY <1>9, RowStepUpdates
  <2>4. \/ job' = NextRow(job.cur)
        \/ CanEmail(CurRow) /\ job' = [job EXCEPT !.pc = "alert_strong"]
      BY <1>9 DEF JobPromote, Goto
  <2>5. CASE job' = NextRow(job.cur)
      BY <1>a, <2>1, <2>2, <2>3, <2>5, NextRowKeeps DEF Updated
  <2>6. CASE CanEmail(CurRow) /\ job' = [job EXCEPT !.pc = "alert_strong"]
    <3>1. /\ job'.pc = "alert_strong" /\ job'.ms = job.ms
          /\ job'.rows = job.rows /\ job'.cur = job.cur
        BY <2>6, <1>a DEF RematchTypeOK, Job
    <3>2. job'.pc \in RowPcs
        BY <3>1 DEF RowPcs, JobPcs
    <3>3. \A m \in job'.ms : m.item \notin CurRow.dismissed
        BY <2>1, <3>1 DEF SnapInv, SnapGoes
    <3>4. QED
        BY <3>1, <3>2, <3>3, <2>1, <2>2, <2>3, <2>6, GoOnKeeps
  <2>7. QED
      BY <2>4, <2>5, <2>6
<1>10. CASE JobAlertStrong \/ JobAlertWeak
  <2>1. job.pc \in RowPcs
      BY <1>10 DEF JobAlertStrong, JobAlertWeak, RowPcs, JobPcs
  <2>2. UNCHANGED <<touched, db>> /\ job' = NextRow(job.cur)
      BY <1>10 DEF JobAlertStrong, JobAlertWeak, JobAlert
  <2>3. QED
      BY <1>a, <1>b, <2>1, <2>2, NextRowKeeps
<1>11. CASE JobRecall \/ JobMark \/ JobKeep
  <2>1. job.pc \in {"recall", "mark", "keep"}
      BY <1>11 DEF JobRecall, JobMark, JobKeep
  <2>2. job.pc \in RowPcs /\ job.cur \in Reports /\ job.pc # "alert_strong" /\ job.pc \in AlertPcs
      BY <2>1, <1>b DEF RowPcs, JobPcs, AlertPcs
  <2>3. /\ job'.pc \in {"mark", "keep", "alert_weak"} /\ job'.ms = job.ms
        /\ job'.rows = job.rows /\ job'.cur = job.cur
      BY <1>11, <1>a DEF JobRecall, JobMark, JobKeep, Goto, RematchTypeOK, Job
  <2>4. job'.pc \in RowPcs /\ job'.pc # "alert_strong"
      BY <2>3 DEF RowPcs, JobPcs
  <2>5. UNCHANGED touched
      BY <1>11, <1>c DEF JobRecall, JobMark, JobKeep
  <2>6. UNCHANGED db \/ \E sent : Updated(job.cur, db[job.cur].status, sent)
    <3>1. CASE JobRecall
        BY <3>1 DEF JobRecall
    <3>2. CASE JobMark \/ JobKeep
        BY <3>2, RowStepUpdates
    <3>3. QED
        BY <1>11, <3>1, <3>2
  <2>7. (\A m \in job'.ms : m.item \notin CurRow.dismissed) /\ CanEmail(CurRow)
      BY <2>2, <2>3 DEF SnapInv, SnapGoes
  <2>8. QED
      BY <2>2, <2>3, <2>4, <2>5, <2>6, <2>7, GoOnKeeps
<1>12. QED
    BY <1>1, <1>2, <1>3, <1>4, <1>5, <1>6, <1>7, <1>8, <1>9, <1>10, <1>11
       DEF JobStep, JobFailure

(***************************************************************************)
(* The requests.                                                           *)
(***************************************************************************)
\* A request's change to report s: it leaves the record of weak alerts alone.
OwnersUpdate(s) ==
    /\ \A r \in Reports \ {s} : db'[r] = db[r]
    /\ db[s] = None => db'[s] = None
    /\ db'[s] # None => db'[s].weak_notified = db[s].weak_notified

LEMMA RequestUpdates ==
    ASSUME StoreTypeOK, NEW s \in Reports
    PROVE  /\ \A e, k, x : SetPendingEmail(s, e, k, x) =>
                  OwnersUpdate(s) /\ (db'[s] # None => db'[s].status = db[s].status)
           /\ \A w, u, st : UpdateAlerts(s, w, u, st) => OwnersUpdate(s)
           /\ MarkVerified(s) => OwnersUpdate(s)
           /\ \A m : Confirm(s, m) =>
                  OwnersUpdate(s) /\ (db'[s] # None => db'[s].status = "confirmed")
           /\ \A dis : SetDismissed(s, dis) => OwnersUpdate(s)
           /\ Delete(s) => OwnersUpdate(s) /\ db'[s] = None
<1>a. db[s] # None => db[s] \in Row
    BY DEF StoreTypeOK
<1>w. ASSUME NEW row, Write(s, row), db[s] # None => row.weak_notified = db[s].weak_notified
      PROVE  OwnersUpdate(s) /\ db'[s] \in {row, db[s]} /\ (db[s] # None => db'[s] = row)
  <2>1. CASE db[s] = None
      BY <1>w, <2>1 DEF Write, OwnersUpdate
  <2>2. CASE db[s] # None
      BY <1>w, <2>2 DEF Write, OwnersUpdate, StoreTypeOK
  <2>3. QED
      BY <2>1, <2>2
<1>1. ASSUME NEW e, NEW k, NEW x, SetPendingEmail(s, e, k, x)
      PROVE  OwnersUpdate(s) /\ (db'[s] # None => db'[s].status = db[s].status)
  <2> DEFINE row == [db[s] EXCEPT !.email = e, !.email_verified = FALSE,
                                  !.verify_hash = k, !.verify_expires = x]
  <2>1. db[s] # None => row.weak_notified = db[s].weak_notified /\ row.status = db[s].status
      BY <1>a DEF Row
  <2>2. Write(s, row)
      BY <1>1 DEF SetPendingEmail
  <2> HIDE DEF row
  <2>3. QED
      BY <2>1, <2>2, <1>w DEF OwnersUpdate
<1>2. ASSUME NEW w, NEW u, NEW st, UpdateAlerts(s, w, u, st) PROVE OwnersUpdate(s)
  <2> DEFINE row == [db[s] EXCEPT !.notify_weak = w, !.watch_until = u,
                                  !.status = IF st = None THEN @ ELSE st, !.graded_ids = {}]
  <2>1. db[s] # None => row.weak_notified = db[s].weak_notified
      BY <1>a DEF Row
  <2>2. Write(s, row)
      BY <1>2 DEF UpdateAlerts
  <2> HIDE DEF row
  <2>3. QED
      BY <2>1, <2>2, <1>w
<1>3. ASSUME MarkVerified(s) PROVE OwnersUpdate(s)
  <2> DEFINE row == [db[s] EXCEPT !.email_verified = TRUE, !.verify_hash = None,
                                  !.verify_expires = 0, !.graded_ids = {}]
  <2>1. db[s] # None => row.weak_notified = db[s].weak_notified
      BY <1>a DEF Row
  <2>2. Write(s, row)
      BY <1>3 DEF MarkVerified
  <2> HIDE DEF row
  <2>3. QED
      BY <2>1, <2>2, <1>w
<1>4. ASSUME NEW m, Confirm(s, m)
      PROVE  OwnersUpdate(s) /\ (db'[s] # None => db'[s].status = "confirmed")
  <2> DEFINE row == [db[s] EXCEPT !.status = "confirmed", !.best_match = m]
  <2>1. db[s] # None => row.weak_notified = db[s].weak_notified /\ row.status = "confirmed"
      BY <1>a DEF Row
  <2>2. Write(s, row)
      BY <1>4 DEF Confirm
  <2> HIDE DEF row
  <2>3. QED
      BY <2>1, <2>2, <1>w DEF OwnersUpdate
<1>5. ASSUME NEW dis, SetDismissed(s, dis) PROVE OwnersUpdate(s)
  <2> DEFINE row == [db[s] EXCEPT !.status = "open", !.dismissed = dis, !.graded_ids = {}]
  <2>1. db[s] # None => row.weak_notified = db[s].weak_notified
      BY <1>a DEF Row
  <2>2. Write(s, row)
      BY <1>5 DEF SetDismissed
  <2> HIDE DEF row
  <2>3. QED
      BY <2>1, <2>2, <1>w
<1>6. Delete(s) => OwnersUpdate(s) /\ db'[s] = None
    BY DEF Delete, StoreTypeOK, OwnersUpdate
<1>7. QED
    BY <1>1, <1>2, <1>3, <1>4, <1>5, <1>6

\* What a step of thread t may do to the row of report r: nothing; the row is new; the owner
\* has changed it, and an open report with it only where the alerts may be repeated; or the
\* confirmation page records what it has mailed, and where it drops what the job has recorded
\* the alerts may be repeated too.
Leaves(r) ==
    \/ db'[r] = db[r]
    \/ r \notin born
    \/ r \in touched' /\ db'[r] = None
    \/ /\ r \in touched'
       /\ db[r] # None
       /\ db'[r].weak_notified = db[r].weak_notified
       /\ told'[r] = {} \/ db'[r].status \in {db[r].status, "confirmed"}
    \/ /\ db[r] # None /\ db'[r] # None
       /\ SameSettings(db'[r], db[r]) /\ db'[r].status = db[r].status
       /\ \/ db[r].weak_notified \subseteq db'[r].weak_notified
          \/ told'[r] = {} /\ r \in touched'

RequestEffect ==
    /\ \A r \in Reports : Leaves(r) /\ told'[r] \in {told[r], {}}
    /\ touched \subseteq touched' /\ born \subseteq born'

\* A request's change to report s, which is marked as touched.
LEMMA OwnersEffect ==
    ASSUME NotifierTypeOK, NEW s \in Reports, OwnersUpdate(s), UNCHANGED born,
           Touch(s) \/ Forget(s),
           \/ Forget(s)
           \/ db'[s] # None => db'[s].status \in {db[s].status, "confirmed"}
    PROVE  RequestEffect
<1>1. touched' = touched \cup {s} /\ (\A r \in Reports : told'[r] \in {told[r], {}})
    BY DEF Touch, Forget, NotifierTypeOK
<1>2. Forget(s) => told'[s] = {}
    BY DEF Forget, NotifierTypeOK
<1>3. Leaves(s)
    BY <1>1, <1>2 DEF OwnersUpdate, Leaves
<1>4. \A r \in Reports : Leaves(r)
    BY <1>3 DEF OwnersUpdate, Leaves
<1>5. QED
    BY <1>1, <1>4 DEF RequestEffect

LEMMA ThreadEffect ==
    ASSUME TypeOK, NEW t \in Threads, ThreadStep(t)
    PROVE  RequestEffect
<1>a. StoreTypeOK /\ NotifierTypeOK /\ ApiTypeOK
    BY DEF TypeOK
<1>b. UNCHANGED <<storeVars, historyVars>> => RequestEffect
    BY DEF storeVars, historyVars, RequestEffect, Leaves
<1>e. ASSUME NEW pc, At(t, pc), pc # "idle" PROVE req[t].r \in Reports /\ req[t] \in Req
    BY <1>a, <1>e, AtType
<1>1. ASSUME NEW k \in Tokens, SendLink(t, k) PROVE RequestEffect
  <2>1. req[t].r \in Reports
      BY <1>1, <1>e DEF SendLink
  <2>2. /\ SetPendingEmail(req[t].r, req[t].email, k, now + VerifyFor)
        /\ Touch(req[t].r) /\ UNCHANGED born
      BY <1>1 DEF SendLink
  <2>3. QED
      BY <1>a, <2>1, <2>2, RequestUpdates, OwnersEffect
<1>2. CASE LinkRefused(t)
    BY <1>2, <1>b DEF LinkRefused
<1>3. CASE AlertsSave(t)
  <2>1. req[t].r \in Reports
      BY <1>3, <1>e DEF AlertsSave
  <2>2. /\ UpdateAlerts(req[t].r, req[t].weak, WatchUntilAfter(req[t].days),
                        IF req[t].row.status = "expired" THEN "open" ELSE None)
        /\ Forget(req[t].r) /\ UNCHANGED born
      BY <1>3 DEF AlertsSave
  <2>3. OwnersUpdate(req[t].r)
      BY <1>a, <2>1, <2>2, RequestUpdates
  <2>4. QED
      BY <1>a, <2>1, <2>2, <2>3, OwnersEffect
<1>4. CASE AlertsClear(t)
  <2>1. req[t].r \in Reports
      BY <1>4, <1>e DEF AlertsClear
  <2>2. /\ SetPendingEmail(req[t].r, None, None, 0)
        /\ Touch(req[t].r) /\ UNCHANGED born
      BY <1>4 DEF AlertsClear
  <2>3. QED
      BY <1>a, <2>1, <2>2, RequestUpdates, OwnersEffect
<1>5. CASE VerifyMark(t)
  <2>1. req[t].r \in Reports
      BY <1>5, <1>e DEF VerifyMark
  <2>2. MarkVerified(req[t].r) /\ Forget(req[t].r) /\ UNCHANGED born
      BY <1>5 DEF VerifyMark
  <2>3. QED
      BY <1>a, <2>1, <2>2, RequestUpdates, OwnersEffect
<1>6. CASE VerifyReload(t) \/ VerifyNotify(t) \/ VerifyRecall(t)
    BY <1>6, <1>b DEF VerifyReload, VerifyNotify, VerifyRecall
<1>7. CASE VerifyRecord(t)
  <2>1. req[t].r \in Reports /\ req[t].pc = "verify_record"
      BY <1>7, <1>e DEF VerifyRecord, At
  <2>2. req[t] \in Req /\ req[t].item \in Items
      BY <1>7, <1>a, <1>e, <2>1 DEF VerifyRecord, ApiTypeOK, Holds, Req
  <2>3. SetWeakNotified(req[t].r, req[t].sent \cup {req[t].item})
      BY <1>7 DEF VerifyRecord
  <2>4. req[t].sent \cup {req[t].item} \in SUBSET Items
      BY <2>2 DEF Req
  <2>5. Updated(req[t].r, db[req[t].r].status, req[t].sent \cup {req[t].item})
      BY <1>a, <2>1, <2>3, <2>4, JobUpdates
  <2> DEFINE s == req[t].r
             kept == WeakNotified(s) \subseteq req[t].sent \cup {req[t].item}
  <2>6. /\ UNCHANGED born
        /\ kept => UNCHANGED <<told, touched>>
        /\ ~kept => told' = [told EXCEPT ![s] = {}] /\ touched' = touched \cup {s}
      BY <1>7 DEF VerifyRecord
  <2>7. /\ \A r \in Reports : told'[r] \in {told[r], {}}
        /\ touched \subseteq touched'
        /\ kept \/ (told'[s] = {} /\ s \in touched')
      BY <1>a, <2>1, <2>6 DEF NotifierTypeOK
  <2>8. Leaves(s)
      BY <2>1, <2>5, <2>6, <2>7 DEF Updated, Leaves, WeakNotified
  <2>9. \A r \in Reports : Leaves(r)
      BY <2>1, <2>5, <2>8 DEF Updated, Leaves
  <2>10. QED
      BY <2>6, <2>7, <2>9 DEF RequestEffect
<1>8. CASE ConfirmWrite(t)
  <2>1. req[t].r \in Reports
      BY <1>8, <1>e DEF ConfirmWrite
  <2>2. /\ \E m : Confirm(req[t].r, m)
        /\ Touch(req[t].r) /\ UNCHANGED born
      BY <1>8 DEF ConfirmWrite
  <2>3. QED
      BY <1>a, <2>1, <2>2, RequestUpdates, OwnersEffect
<1>9. CASE DismissWrite(t)
  <2>1. req[t].r \in Reports
      BY <1>9, <1>e DEF DismissWrite
  <2>2. /\ \E dis : SetDismissed(req[t].r, dis)
        /\ Forget(req[t].r) /\ UNCHANGED born
      BY <1>9 DEF DismissWrite
  <2>3. QED
      BY <1>a, <2>1, <2>2, RequestUpdates, OwnersEffect
<1>10. QED
    BY <1>1, <1>2, <1>3, <1>4, <1>5, <1>6, <1>7, <1>8, <1>9 DEF ThreadStep

LEMMA ArriveEffect ==
    ASSUME TypeOK, NEW t \in Threads, NEW s \in Reports, Arrive(t, s)
    PROVE  RequestEffect
<1>a. StoreTypeOK /\ NotifierTypeOK
    BY DEF TypeOK
<1>1. ASSUME NEW e \in Emails \cup {None}, NEW w \in BOOLEAN, Register(t, s, e, w)
      PROVE  RequestEffect
  <2>1. s \notin born /\ UNCHANGED <<told, touched>>
      BY <1>1 DEF Register
  <2>2. \E row : Add(s, row)
      BY <1>1 DEF Register
  <2>3. born \subseteq born' /\ \A r \in Reports \ {s} : db'[r] = db[r]
      BY <1>a, <2>2 DEF Add, StoreTypeOK
  <2>4. QED
      BY <2>1, <2>3 DEF RequestEffect, Leaves
<1>2. CASE DeleteReport(t, s)
  <2>1. Delete(s) /\ Touch(s) /\ UNCHANGED born
      BY <1>2 DEF DeleteReport
  <2>2. QED
      BY <1>a, <2>1, RequestUpdates, OwnersEffect
<1>3. CASE UNCHANGED <<storeVars, historyVars>>
    BY <1>3 DEF storeVars, historyVars, RequestEffect, Leaves
<1>4. QED
    BY <1>1, <1>2, <1>3 DEF Arrive, AlertsRead, VerifyFind, ConfirmRead, DismissRead

\* No request disturbs the snapshot of a report it has not touched.
LEMMA RequestSnap ==
    ASSUME VerdictInv, SnapInv, UNCHANGED job, RequestEffect
    PROVE  SnapInv'
<1>1. SnapIdle' /\ SnapGoes'
    BY DEF SnapInv, SnapIdle, SnapGoes, CurRow
<1>2. SnapFresh'
  <2> SUFFICES ASSUME NEW r \in Reports, r \notin touched', job.rows[r] # None
               PROVE  /\ db'[r] # None /\ db'[r].status = StatusLeft(r)
                      /\ db'[r].email = job.rows[r].email
                      /\ db'[r].email_verified = job.rows[r].email_verified
                      /\ db'[r].dismissed = job.rows[r].dismissed
      BY DEF SnapFresh, StatusLeft
  <2>1. r \in born /\ r \notin touched
      BY DEF VerdictInv, JobJudged, RequestEffect
  <2>2. Leaves(r)
      BY DEF RequestEffect
  <2>3. QED
      BY <2>1, <2>2 DEF Leaves, SnapInv, SnapFresh, SameSettings
<1>3. QED
    BY <1>1, <1>2 DEF SnapInv

(***************************************************************************)
(* Together.                                                               *)
(***************************************************************************)
THEOREM SnapshotAlways == Spec => []SnapInv
<1>1. Init => SnapInv
  <2> SUFFICES ASSUME Init PROVE SnapInv
      OBVIOUS
  <2>1. job.pc = "idle" /\ job.rows = NoRows
      BY DEF Init, RematchInit, JobIdle
  <2>2. QED
      BY <2>1 DEF SnapInv, SnapIdle, SnapFresh, SnapGoes, AlertPcs, NoRows
<1>2. TypeOK /\ VerdictInv /\ SnapInv /\ [Next]_vars => SnapInv'
  <2> SUFFICES ASSUME TypeOK, VerdictInv, SnapInv, [Next]_vars PROVE SnapInv'
      OBVIOUS
  <2>1. CASE (JobStep \/ JobFailure) /\ UNCHANGED apiVars
      BY <2>1, JobSnap
  <2>2. CASE ApiStep /\ UNCHANGED job
      BY <2>2, ThreadEffect, ArriveEffect, RequestSnap DEF ApiStep
  <2>3. CASE \/ WorldStep
             \/ ApiRestart /\ UNCHANGED job
             \/ UNCHANGED vars
    <3>1. UNCHANGED <<db, born, told, touched, job>>
        BY <2>3 DEF WorldStep, ApiRestart, vars, storeVars, historyVars
    <3>2. QED
        BY <3>1 DEF SnapInv, SnapIdle, SnapFresh, SnapGoes, StatusLeft, CurRow
  <2>4. QED
      BY <2>1, <2>2, <2>3 DEF Next
<1>3. QED
    BY <1>1, <1>2, TypeCorrect, VerdictsHold, PTL DEF Spec

\* What the job's step does to a report nobody has touched is right today, not only by the
\* snapshot.
JobIsRight(r) ==
    /\ db[r] # None /\ db'[r] # None /\ db'[r].status # db[r].status => db[r].status = "open"
    /\ mail' # None /\ mail'.r = r =>
          /\ db[r] # None /\ CanEmail(db[r]) /\ db[r].email = mail'.to
          /\ mail'.item \notin db[r].dismissed

LEMMA UntouchedIsRight ==
    ASSUME TypeOK, SnapInv, JobStep \/ JobFailure, NEW r \in Reports, r \notin touched
    PROVE  JobIsRight(r)
<1>a. StoreTypeOK /\ RematchTypeOK
    BY DEF TypeOK
<1>b. job.rows[r] # None => db[r] # None /\ db[r].status = StatusLeft(r)
    BY DEF SnapInv, SnapFresh
<1>1. ASSUME mail' = None, db'[r] = db[r] \/ db'[r] = None PROVE JobIsRight(r)
    BY <1>1 DEF JobIsRight
<1>2. ASSUME mail' = None, NEW s \in Reports, NEW st, NEW sent, Updated(s, st, sent),
             s # r \/ db[r].status \in {"open", st}
      PROVE  JobIsRight(r)
    BY <1>2 DEF Updated, JobIsRight
<1>3. ASSUME NEW s \in Reports, JobPurge(s) PROVE JobIsRight(r)
    BY <1>3, <1>1, <1>a DEF JobPurge, Delete, StoreTypeOK, Quiet
<1>4. ASSUME NEW s \in Reports, JobExpire(s) PROVE JobIsRight(r)
  <2>1. Updated(s, "expired", db[s].weak_notified) /\ mail' = None
      BY <1>4, <1>a, JobUpdates DEF JobExpire, Quiet
  <2>2. job.pc = "rows" /\ job.rows[s] # None
      BY <1>4, <1>a DEF JobExpire, RematchTypeOK
  <2>3. s = r => db[r].status = "open"
      BY <1>b, <2>2 DEF StatusLeft
  <2>4. QED
      BY <2>1, <2>3, <1>2
<1>5. CASE JobRecord \/ JobMark \/ JobKeep
  <2>1. job.cur \in Reports /\ mail' = None
      BY <1>5, RowStepUpdates DEF JobRecord, JobMark, JobKeep, RowPcs, JobPcs, Quiet
  <2>2. UNCHANGED db \/ \E sent : Updated(job.cur, db[job.cur].status, sent)
      BY <1>5, RowStepUpdates
  <2>3. QED
      BY <2>1, <2>2, <1>1, <1>2
<1>6. CASE JobPromote
  <2>1. job.cur \in Reports /\ mail' = None /\ job.pc = "promote" /\ job.pc \in RowPcs
      BY <1>6, RowStepUpdates DEF JobPromote, RowPcs, JobPcs, Quiet
  <2>2. Updated(job.cur, "candidate", db[job.cur].weak_notified)
      BY <1>6, RowStepUpdates
  <2>3. job.rows[job.cur] # None
      BY <2>1, <1>a DEF RematchTypeOK
  <2>4. job.cur = r => db[r].status = "open"
      BY <1>b, <2>1, <2>3 DEF StatusLeft
  <2>5. QED
      BY <2>1, <2>2, <2>4, <1>2
<1>7. CASE JobAlertStrong \/ JobAlertWeak
  <2>1. job.pc \in AlertPcs /\ job.pc \in RowPcs /\ job.pc # "record" /\ UNCHANGED db
      BY <1>7 DEF JobAlertStrong, JobAlertWeak, JobAlert, AlertPcs, RowPcs, JobPcs
  <2>2. job.cur \in Reports /\ job.rows[job.cur] # None /\ job.ms # {} /\ job.ms \subseteq Candidate
      BY <2>1, <1>a, CurType DEF RematchTypeOK
  <2>3. Top(job.ms) \in job.ms
      BY <2>2, TopIsBest
  <2>4. Top(job.ms).item \notin CurRow.dismissed /\ CanEmail(CurRow)
      BY <2>1, <2>3 DEF SnapInv, SnapGoes
  <2>5. mail' = None \/ (mail'.r = job.cur /\ mail'.to = CurRow.email
                          /\ mail'.item = Top(job.ms).item)
      BY <1>7 DEF JobAlertStrong, JobAlertWeak, JobAlert, Notify, Quiet
  <2>6. job.cur = r =>
            /\ db[r] # None /\ db[r].email = CurRow.email
            /\ db[r].email_verified = CurRow.email_verified
            /\ db[r].dismissed = CurRow.dismissed
      BY <2>2 DEF SnapInv, SnapFresh, CurRow
  <2>7. QED
      BY <2>1, <2>4, <2>5, <2>6 DEF JobIsRight, CanEmail
<1>8. CASE \/ JobStart \/ JobList \/ JobEnd \/ JobRecall \/ JobCrash
           \/ \E s \in Reports : JobSkip(s) \/ JobJudge(s) \/ JobRowFails(s)
    BY <1>8, <1>1
       DEF JobStart, JobList, JobEnd, JobSkip, JobJudge, JobRecall, JobRowFails, JobCrash, Quiet
<1>9. QED
    BY <1>3, <1>4, <1>5, <1>6, <1>7, <1>8 DEF JobStep, JobFailure

\* THEOREM: whatever the job does to a report that nobody has changed since the snapshot is
\* right by the table of today: it takes only an open report out of the watch, and mails its
\* owner at the confirmed address about an item that was not turned down (rematch.py never
\* reads a row again before it acts on it).
THEOREM StaleOnlyIfTouched == Spec => StaleIsTouched
<1>1. TypeOK /\ SnapInv /\ [Next]_vars =>
          (job' # job => \A r \in Reports \ touched : JobIsRight(r))
  <2> SUFFICES ASSUME TypeOK, SnapInv, [Next]_vars, job' # job, NEW r \in Reports \ touched
               PROVE  JobIsRight(r)
      OBVIOUS
  <2>1. CASE (JobStep \/ JobFailure) /\ UNCHANGED apiVars
      BY <2>1, UntouchedIsRight
  <2>2. CASE WorldStep \/ UNCHANGED vars
      BY <2>2 DEF WorldStep, vars
  <2>3. QED
      BY <2>1, <2>2 DEF Next
<1>2. QED
    BY <1>1, TypeCorrect, SnapshotAlways, PTL DEF Spec, StaleIsTouched, JobIsRight

-------------------------------------------------------------------------------
(***************************************************************************)
(* Alerts.  Neither the status, nor weak_notified, nor the snapshot alone  *)
(* keeps the job from sending an alert twice.  A strong alert is recorded  *)
(* by the status and a weak one by weak_notified, both written before the  *)
(* mail; a snapshot that was taken earlier does not hold the report any    *)
(* more, or holds the same record.                                         *)
(***************************************************************************)
StrongRecorded(r) ==
    \A i \in Items : <<i, "strong">> \in told[r] =>
        job.rows[r] = None /\ (db[r] = None \/ db[r].status # "open")

WeakRecorded(r) ==
    \A i \in Items : <<i, "weak">> \in told[r] =>
        /\ db[r] # None => i \in db[r].weak_notified
        /\ job.rows[r] # None => i \in job.rows[r].weak_notified
        /\ r = job.cur /\ job.pc = "mark" /\ db[r] # None => i \in job.sent

TopItem == Top(job.ms).item

\* The weak alert on its way is a new one, and once it is marked the row says so, unless the
\* confirmation page has just dropped it again.
WeakOnItsWay ==
    /\ job.pc \in AlertPcs \ {"alert_strong"} => TopItem \notin CurRow.weak_notified
    /\ job.pc \in {"keep", "alert_weak"} /\ db[job.cur] # None /\ job.cur \notin touched =>
           TopItem \in db[job.cur].weak_notified

AlertInv ==
    /\ \A r \in Reports : told[r] # {} => r \in born
    /\ \A r \in Reports : StrongRecorded(r) /\ WeakRecorded(r)
    /\ WeakOnItsWay

\* A request: what it has changed it has marked, and where it reopens a report the alerts may
\* be repeated.
LEMMA RequestAlerts ==
    ASSUME TypeOK, VerdictInv, AlertInv, UNCHANGED job, RequestEffect
    PROVE  AlertInv'
<1>a. RematchTypeOK
    BY DEF TypeOK
<1>1. \A r \in Reports : told'[r] \in {told[r], {}} /\ (told[r] # {} => r \in born)
    BY DEF RequestEffect, AlertInv
<1>2. \A r \in Reports : told'[r] # {} => r \in born'
    BY <1>1 DEF RequestEffect
<1>3. ASSUME NEW r \in Reports, told'[r] # {} PROVE StrongRecorded(r)' /\ WeakRecorded(r)'
  <2>1. told'[r] = told[r] /\ r \in born
      BY <1>1, <1>3
  <2>2. StrongRecorded(r) /\ WeakRecorded(r)
      BY DEF AlertInv
  <2>3. Leaves(r)
      BY DEF RequestEffect
  <2>4. db'[r] # None => /\ db[r] # None /\ db[r].weak_notified \subseteq db'[r].weak_notified
                         /\ db'[r].status \in {db[r].status, "confirmed"}
      BY <1>3, <2>1, <2>3 DEF Leaves
  <2>5. StrongRecorded(r)'
      BY <2>1, <2>2, <2>4 DEF StrongRecorded
  <2>6. WeakRecorded(r)'
      BY <2>1, <2>2, <2>4 DEF WeakRecorded
  <2>7. QED
      BY <2>5, <2>6
<1>4. WeakOnItsWay'
  <2>1. job.pc \in {"keep", "alert_weak"} => job.pc \in RowPcs
      BY DEF RowPcs, JobPcs
  <2>2. job.pc \in {"keep", "alert_weak"} => job.cur \in Reports /\ job.rows[job.cur] # None
      BY <1>a, <2>1, CurType DEF RematchTypeOK
  <2>3. job.pc \in {"keep", "alert_weak"} => job.cur \in born
      BY <2>2 DEF VerdictInv, JobJudged
  <2>4. job.pc \in {"keep", "alert_weak"} /\ db'[job.cur] # None /\ job.cur \notin touched' =>
            /\ db[job.cur] # None /\ job.cur \notin touched
            /\ db[job.cur].weak_notified \subseteq db'[job.cur].weak_notified
      BY <2>2, <2>3 DEF RequestEffect, Leaves
  <2>5. WeakOnItsWay
      BY DEF AlertInv
  <2>6. QED
      BY <2>4, <2>5 DEF WeakOnItsWay, TopItem, CurRow
<1>5. \A r \in Reports : told'[r] = {} => StrongRecorded(r)' /\ WeakRecorded(r)'
    BY DEF StrongRecorded, WeakRecorded
<1>6. QED
    BY <1>2, <1>3, <1>4, <1>5 DEF AlertInv

\* A step of the job that decides no alert, on report s.
LEMMA JobAlertsKeep ==
    ASSUME AlertInv, UNCHANGED <<told, born>>, NEW s \in Reports,
           \A r \in Reports \ {s} : db'[r] = db[r] /\ job'.rows[r] \in {job.rows[r], None},
           job'.rows[s] \in {job.rows[s], None},
           db[s] = None => db'[s] = None,
           db'[s] # None => /\ db[s].weak_notified \subseteq db'[s].weak_notified
                               \/ (job.pc = "mark" /\ job.cur = s
                                      /\ job.sent \subseteq db'[s].weak_notified)
                            /\ db'[s].status = db[s].status \/ db'[s].status # "open",
           job'.pc = "mark" => \/ job.pc = "recall" /\ job'.cur = s /\ job'.sent = WeakNotified(s)
                                  /\ UNCHANGED db
                               \/ job.pc = "mark" /\ UNCHANGED <<db, job>>,
           WeakOnItsWay'
    PROVE  AlertInv'
<1>1. ASSUME NEW r \in Reports PROVE StrongRecorded(r)'
  <2>1. StrongRecorded(r)
      BY DEF AlertInv
  <2>2. CASE r = s
      BY <2>1, <2>2 DEF StrongRecorded
  <2>3. CASE r # s
      BY <2>1, <2>3 DEF StrongRecorded
  <2>4. QED
      BY <2>2, <2>3
<1>2. ASSUME NEW r \in Reports PROVE WeakRecorded(r)'
  <2>1. WeakRecorded(r)
      BY DEF AlertInv
  <2>2. CASE r = s
      BY <2>1, <2>2 DEF WeakRecorded, WeakNotified
  <2>3. CASE r # s
      BY <2>1, <2>3 DEF WeakRecorded
  <2>4. QED
      BY <2>2, <2>3
<1>3. QED
    BY <1>1, <1>2 DEF AlertInv

\* The job is done with report s, for whatever reason, and has decided no alert.
LEMMA NextRowAlerts ==
    ASSUME RematchTypeOK, AlertInv, UNCHANGED <<told, born>>, NEW s \in Reports,
           job' = NextRow(s),
           \/ UNCHANGED db
           \/ \E st : /\ Updated(s, st, db[s].weak_notified)
                      /\ db[s] # None => st = db[s].status \/ st # "open"
    PROVE  AlertInv'
<1>1. job'.pc = "rows" /\ \A r \in Reports : job'.rows[r] \in {job.rows[r], None}
    BY DEF RematchTypeOK, Job, NextRow
<1>2. WeakOnItsWay'
    BY <1>1 DEF WeakOnItsWay, AlertPcs
<1>3. /\ \A r \in Reports \ {s} : db'[r] = db[r]
      /\ db[s] = None => db'[s] = None
      /\ db'[s] # None => /\ db[s].weak_notified = db'[s].weak_notified
                          /\ db'[s].status = db[s].status \/ db'[s].status # "open"
    BY DEF Updated
<1>4. QED
    BY <1>1, <1>2, <1>3, JobAlertsKeep

\* The job has decided an alert and tried to send it.
LEMMA AlertDecided ==
    ASSUME TypeOK, VerdictInv, SnapInv, AlertInv, NEW kind \in Kinds, JobAlert(kind),
           job.pc = IF kind = "strong" THEN "alert_strong" ELSE "alert_weak"
    PROVE  AlertInv'
<1>a. RematchTypeOK /\ NotifierTypeOK
    BY DEF TypeOK
<1>1. /\ job.pc \in RowPcs /\ job.pc # "record" /\ job.cur \in Reports
      /\ job.rows[job.cur] # None /\ job.cur \in born
  <2>1. job.pc \in RowPcs /\ job.pc # "record"
      BY DEF RowPcs, JobPcs
  <2>2. job.cur \in Reports /\ job.rows[job.cur] # None
      BY <1>a, <2>1, CurType DEF RematchTypeOK
  <2>3. QED
      BY <2>1, <2>2 DEF VerdictInv, JobJudged
<1>c. PICK c \in Reports : c = job.cur
    BY <1>1
<1>2. UNCHANGED <<db, born, touched>> /\ job' = NextRow(job.cur)
    BY DEF JobAlert, KeptVars
<1>3. /\ job'.pc = "rows" /\ job'.rows[c] = None
      /\ \A r \in Reports \ {c} : job'.rows[r] = job.rows[r]
    BY <1>a, <1>c, <1>2 DEF RematchTypeOK, Job, NextRow
<1>4. told' = IF c \in touched THEN told
              ELSE [told EXCEPT ![c] = @ \cup {<<TopItem, kind>>}]
    BY <1>c DEF JobAlert, TopItem
<1>5. /\ \A r \in Reports \ {c} : told'[r] = told[r]
      /\ told'[c] \subseteq told[c] \cup {<<TopItem, kind>>}
      /\ c \in touched => told'[c] = told[c]
    BY <1>a, <1>4 DEF NotifierTypeOK
<1>6. WeakOnItsWay'
    BY <1>3 DEF WeakOnItsWay, AlertPcs
<1>7. \A r \in Reports : told'[r] # {} => r \in born'
    BY <1>1, <1>c, <1>2, <1>5 DEF AlertInv
<1>8. ASSUME NEW r \in Reports, r # c PROVE StrongRecorded(r)' /\ WeakRecorded(r)'
    BY <1>2, <1>3, <1>5, <1>8 DEF AlertInv, StrongRecorded, WeakRecorded
<1>9. StrongRecorded(c)'
  <2> SUFFICES ASSUME NEW i \in Items, <<i, "strong">> \in told'[c]
               PROVE  db[c] = None \/ db[c].status # "open"
      BY <1>2, <1>3 DEF StrongRecorded
  <2>1. CASE <<i, "strong">> \in told[c]
      BY <1>1, <1>c, <2>1 DEF AlertInv, StrongRecorded
  <2>2. CASE <<i, "strong">> \notin told[c]
    <3>1. kind = "strong" /\ c \notin touched
        BY <1>5, <2>2
    <3>2. QED
        BY <1>1, <1>c, <3>1 DEF SnapInv, SnapFresh, StatusLeft
  <2>3. QED
      BY <2>1, <2>2
<1>10. WeakRecorded(c)'
  <2> SUFFICES ASSUME NEW i \in Items, <<i, "weak">> \in told'[c], db[c] # None
               PROVE  i \in db[c].weak_notified
      BY <1>2, <1>3 DEF WeakRecorded
  <2>1. CASE <<i, "weak">> \in told[c]
      BY <1>1, <1>c, <2>1 DEF AlertInv, WeakRecorded
  <2>2. CASE <<i, "weak">> \notin told[c]
    <3>1. kind = "weak" /\ i = TopItem /\ c \notin touched
        BY <1>5, <2>2
    <3>2. QED
        BY <1>c, <3>1 DEF AlertInv, WeakOnItsWay
  <2>3. QED
      BY <2>1, <2>2
<1>11. QED
    BY <1>6, <1>7, <1>8, <1>9, <1>10 DEF AlertInv

LEMMA JobAlerts ==
    ASSUME TypeOK, VerdictInv, SnapInv, AlertInv, JobStep \/ JobFailure
    PROVE  AlertInv'
<1>a. StoreTypeOK /\ RematchTypeOK /\ NotifierTypeOK
    BY DEF TypeOK
<1>b. job.pc \in RowPcs => job.cur \in Reports
    BY <1>a, CurType
<1>c. (UNCHANGED historyVars => UNCHANGED told) /\ (UNCHANGED KeptVars => UNCHANGED born)
    BY DEF historyVars, KeptVars
<1>1. ASSUME job'.pc \in {"idle", "purge", "rows"}, UNCHANGED <<told, born>>,
             \A r \in Reports : job'.rows[r] \in {job.rows[r], None},
             \A r \in Reports : db'[r] \in {db[r], None}
      PROVE  AlertInv'
  <2>1. WeakOnItsWay'
      BY <1>1 DEF WeakOnItsWay, AlertPcs
  <2>2. ASSUME NEW r \in Reports PROVE StrongRecorded(r)' /\ WeakRecorded(r)'
    <3>1. StrongRecorded(r) /\ WeakRecorded(r)
        BY DEF AlertInv
    <3>2. job'.rows[r] \in {job.rows[r], None} /\ db'[r] \in {db[r], None}
        BY <1>1
    <3>3. StrongRecorded(r)'
        BY <1>1, <3>1, <3>2 DEF StrongRecorded
    <3>4. WeakRecorded(r)'
        BY <1>1, <3>1, <3>2 DEF WeakRecorded
    <3>5. QED
        BY <3>3, <3>4
  <2>3. QED
      BY <1>1, <2>1, <2>2 DEF AlertInv
<1>2. CASE JobStart
  <2>1. job'.rows = job.rows /\ job'.pc = "purge"
      BY <1>2, <1>a DEF JobStart, RematchTypeOK, Job
  <2>2. QED
      BY <1>1, <1>2, <1>c, <2>1 DEF JobStart
<1>3. ASSUME NEW r \in Reports, JobPurge(r) PROVE AlertInv'
  <2>1. job'.rows = job.rows /\ job'.pc = "purge"
      BY <1>3, <1>a DEF JobPurge, RematchTypeOK, Job
  <2>2. \A s \in Reports : db'[s] \in {db[s], None}
      BY <1>3, <1>a DEF JobPurge, Delete, StoreTypeOK
  <2>3. QED
      BY <1>1, <1>3, <1>c, <2>1, <2>2 DEF JobPurge
<1>4. CASE JobList
  <2>1. \A r \in Reports : job'.rows[r] # None =>
            db[r] # None /\ db[r].status = "open" /\ job'.rows[r] = db[r]
      BY <1>4, <1>a DEF JobList, RematchTypeOK, Job
  <2>2. job'.pc = "rows" /\ UNCHANGED <<db, told, born>>
      BY <1>4, <1>a, <1>c DEF JobList, RematchTypeOK, Job
  <2>3. QED
      BY <2>1, <2>2 DEF AlertInv, StrongRecorded, WeakRecorded, WeakOnItsWay, AlertPcs
<1>5. ASSUME NEW r \in Reports, JobExpire(r) PROVE AlertInv'
  <2>1. Updated(r, "expired", db[r].weak_notified)
      BY <1>5, <1>a, JobUpdates DEF JobExpire
  <2>2. QED
      BY <1>5, <1>a, <1>c, <2>1, NextRowAlerts DEF JobExpire
<1>6. CASE JobEnd \/ JobCrash
    BY <1>6, <1>1, <1>c DEF JobEnd, JobCrash, JobIdle, NoRows
<1>7. ASSUME NEW r \in Reports, JobSkip(r) \/ JobRowFails(r) PROVE AlertInv'
    BY <1>7, <1>a, <1>c, NextRowAlerts DEF JobSkip, JobRowFails
<1>8. ASSUME NEW r \in Reports, JobJudge(r) PROVE AlertInv'
  <2>1. job'.rows = job.rows /\ job'.pc = "record"
      BY <1>8, <1>a DEF JobJudge, RematchTypeOK, Job
  <2>2. UNCHANGED <<db, told, born>>
      BY <1>8, <1>c DEF JobJudge
  <2>3. QED
      BY <2>1, <2>2 DEF AlertInv, StrongRecorded, WeakRecorded, WeakOnItsWay, AlertPcs
<1>9. CASE JobRecord
  <2>1. job.pc = "record" /\ job.pc \in RowPcs /\ job.cur \in Reports
      BY <1>9, <1>b DEF JobRecord, RowPcs, JobPcs
  <2>2. UNCHANGED <<told, born>>
      BY <1>9, <1>c DEF JobRecord
  <2>3. UNCHANGED db \/ Updated(job.cur, db[job.cur].status, db[job.cur].weak_notified)
      BY <1>9, RowStepUpdates
  <2> DEFINE kept == Undismissed(job.ms, CurRow)
  <2>4. \/ job' = NextRow(job.cur)
        \/ job' = [job EXCEPT !.pc = "promote", !.ms = kept]
        \/ /\ Top(kept).item \notin CurRow.weak_notified
           /\ job' = [job EXCEPT !.pc = "recall", !.ms = kept]
      BY <1>9 DEF JobRecord
  <2> HIDE DEF kept
  <2>5. CASE job' = NextRow(job.cur)
      BY <1>a, <2>1, <2>2, <2>3, <2>5, NextRowAlerts
  <2>6. CASE \/ job' = [job EXCEPT !.pc = "promote", !.ms = kept]
             \/ /\ Top(kept).item \notin CurRow.weak_notified
                /\ job' = [job EXCEPT !.pc = "recall", !.ms = kept]
    <3>1. /\ \/ job'.pc = "promote"
             \/ job'.pc = "recall" /\ Top(job'.ms).item \notin CurRow.weak_notified
          /\ job'.rows = job.rows /\ job'.cur = job.cur
        BY <2>6, <1>a DEF RematchTypeOK, Job
    <3>2. WeakOnItsWay'
        BY <3>1 DEF WeakOnItsWay, TopItem, CurRow, AlertPcs
    <3>3. /\ \A r \in Reports \ {job.cur} : db'[r] = db[r]
          /\ db[job.cur] = None => db'[job.cur] = None
          /\ db'[job.cur] # None =>
                 /\ db[job.cur].weak_notified = db'[job.cur].weak_notified
                 /\ db'[job.cur].status = db[job.cur].status
        BY <2>3 DEF Updated
    <3>4. QED
        BY <3>1, <3>2, <3>3, <2>1, <2>2, JobAlertsKeep
  <2>7. QED
      BY <2>4, <2>5, <2>6
<1>10. CASE JobPromote
  <2>1. job.pc = "promote" /\ job.pc \in RowPcs /\ job.cur \in Reports
      BY <1>10, <1>b DEF JobPromote, RowPcs, JobPcs
  <2>2. UNCHANGED <<told, born>>
      BY <1>10, <1>c DEF JobPromote
  <2>3. Updated(job.cur, "candidate", db[job.cur].weak_notified)
      BY <1>10, RowStepUpdates
  <2>4. \/ job' = NextRow(job.cur)
        \/ job' = [job EXCEPT !.pc = "alert_strong"]
      BY <1>10 DEF JobPromote, Goto
  <2>5. CASE job' = NextRow(job.cur)
      BY <1>a, <2>1, <2>2, <2>3, <2>5, NextRowAlerts
  <2>6. CASE job' = [job EXCEPT !.pc = "alert_strong"]
    <3>1. job'.pc = "alert_strong" /\ job'.rows = job.rows
        BY <2>6, <1>a DEF RematchTypeOK, Job
    <3>2. WeakOnItsWay'
        BY <3>1 DEF WeakOnItsWay
    <3>3. /\ \A r \in Reports \ {job.cur} : db'[r] = db[r]
          /\ db[job.cur] = None => db'[job.cur] = None
          /\ db'[job.cur] # None =>
                 /\ db[job.cur].weak_notified = db'[job.cur].weak_notified
                 /\ db'[job.cur].status # "open"
        BY <2>3 DEF Updated
    <3>4. QED
        BY <3>1, <3>2, <3>3, <2>1, <2>2, JobAlertsKeep
  <2>7. QED
      BY <2>4, <2>5, <2>6
<1>11. CASE JobAlertStrong \/ JobAlertWeak
    BY <1>11, AlertDecided DEF JobAlertStrong, JobAlertWeak, Kinds
<1>12. CASE JobRecall
  <2>1. job.pc = "recall" /\ job.cur \in Reports
      BY <1>12, <1>b DEF JobRecall, RowPcs, JobPcs
  <2>2. /\ job'.pc = "mark" /\ job'.sent = WeakNotified(job.cur)
        /\ job'.rows = job.rows /\ job'.cur = job.cur /\ job'.ms = job.ms
      BY <1>12, <1>a DEF JobRecall, RematchTypeOK, Job
  <2>3. UNCHANGED <<db, told, born>>
      BY <1>12, <1>c DEF JobRecall
  <2>4. WeakOnItsWay'
      BY <2>1, <2>2 DEF AlertInv, WeakOnItsWay, TopItem, CurRow, AlertPcs
  <2>5. QED
      BY <2>1, <2>2, <2>3, <2>4, JobAlertsKeep
<1>13. CASE JobMark
  <2>1. job.pc = "mark" /\ job.cur \in Reports
      BY <1>13, <1>b DEF JobMark, RowPcs, JobPcs
  <2>2. /\ job'.pc = "keep" /\ job'.rows = job.rows /\ job'.cur = job.cur /\ job'.ms = job.ms
      BY <1>13, <1>a DEF JobMark, Goto, RematchTypeOK, Job
  <2>3. UNCHANGED <<told, born>>
      BY <1>13, <1>c DEF JobMark
  <2>4. Updated(job.cur, db[job.cur].status, job.sent \cup {TopItem})
      BY <1>13, RowStepUpdates DEF TopItem
  <2>5. /\ \A r \in Reports \ {job.cur} : db'[r] = db[r]
        /\ db[job.cur] = None => db'[job.cur] = None
        /\ db'[job.cur] # None =>
               /\ job.sent \subseteq db'[job.cur].weak_notified
               /\ TopItem \in db'[job.cur].weak_notified
               /\ db'[job.cur].status = db[job.cur].status
      BY <2>4 DEF Updated
  <2>6. WeakOnItsWay'
      BY <2>1, <2>2, <2>5 DEF AlertInv, WeakOnItsWay, TopItem, CurRow, AlertPcs
  <2>7. QED
      BY <2>1, <2>2, <2>3, <2>5, <2>6, JobAlertsKeep
<1>14. CASE JobKeep
  <2>1. job.pc = "keep" /\ job.cur \in Reports
      BY <1>14, <1>b DEF JobKeep, RowPcs, JobPcs
  <2>2. /\ job'.pc = "alert_weak" /\ job'.rows = job.rows
        /\ job'.cur = job.cur /\ job'.ms = job.ms
      BY <1>14, <1>a DEF JobKeep, Goto, RematchTypeOK, Job
  <2>3. UNCHANGED <<told, born, touched>>
      BY <1>14, <1>c DEF JobKeep, historyVars
  <2>4. UNCHANGED db \/ Updated(job.cur, db[job.cur].status, db[job.cur].weak_notified)
      BY <1>14, RowStepUpdates
  <2>5. /\ \A r \in Reports \ {job.cur} : db'[r] = db[r]
        /\ db[job.cur] = None => db'[job.cur] = None
        /\ db'[job.cur] # None =>
               /\ db[job.cur].weak_notified = db'[job.cur].weak_notified
               /\ db'[job.cur].status = db[job.cur].status
      BY <2>4 DEF Updated
  <2>6. WeakOnItsWay'
      BY <2>1, <2>2, <2>3, <2>5 DEF AlertInv, WeakOnItsWay, TopItem, CurRow, AlertPcs
  <2>7. QED
      BY <2>1, <2>2, <2>3, <2>5, <2>6, JobAlertsKeep
<1>15. QED
    BY <1>2, <1>3, <1>4, <1>5, <1>6, <1>7, <1>8, <1>9, <1>10, <1>11, <1>12, <1>13, <1>14
       DEF JobStep, JobFailure

\* The records of alerts, in every reachable state.
THEOREM AlertsAlways == Spec => []AlertInv
<1>1. Init => AlertInv
    BY DEF Init, RematchInit, JobIdle, NotifierInit, AlertInv, StrongRecorded, WeakRecorded,
           WeakOnItsWay, AlertPcs
<1>2. TypeOK /\ VerdictInv /\ SnapInv /\ AlertInv /\ [Next]_vars => AlertInv'
  <2> SUFFICES ASSUME TypeOK, VerdictInv, SnapInv, AlertInv, [Next]_vars
               PROVE  AlertInv'
      OBVIOUS
  <2>1. CASE (JobStep \/ JobFailure) /\ UNCHANGED apiVars
      BY <2>1, JobAlerts
  <2>2. CASE ApiStep /\ UNCHANGED job
    <3>1. PICK t \in Threads : ThreadStep(t) \/ \E r \in Reports : Arrive(t, r)
        BY <2>2 DEF ApiStep
    <3>2. RequestEffect
        BY <3>1, ThreadEffect, ArriveEffect
    <3>3. QED
        BY <2>2, <3>2, RequestAlerts
  <2>3. CASE \/ WorldStep
             \/ ApiRestart /\ UNCHANGED job
             \/ UNCHANGED vars
    <3>1. UNCHANGED <<db, born, told, touched, job>>
        BY <2>3 DEF WorldStep, ApiRestart, vars, storeVars, historyVars
    <3>2. QED
        BY <3>1 DEF AlertInv, StrongRecorded, WeakRecorded, WeakOnItsWay, TopItem, CurRow
  <2>4. QED
      BY <2>1, <2>2, <2>3 DEF Next
<1>3. QED
    BY <1>1, <1>2, TypeCorrect, VerdictsHold, SnapshotAlways, PTL DEF Spec

\* The job never decides the same alert twice for a report whose owner has not changed it,
\* through any crashes and starts of the job and any number of requests at once, those of the
\* confirmation page included: the record is written before the mail (rematch.py update_match,
\* mark_weak_notified, then notify), and stays unless the page writes back an older list.
THEOREM AlertsAreNotRepeated == Spec => NoRepeatedAlert
<1>1. TypeOK /\ AlertInv /\ [Next]_vars =>
          [mail' # None /\ mail'.by = "job" => <<mail'.item, mail'.kind>> \notin told[mail'.r]]_vars
  <2> SUFFICES ASSUME TypeOK, AlertInv, Next,
                      mail' # None, mail'.by = "job"
               PROVE  <<mail'.item, mail'.kind>> \notin told[mail'.r]
      OBVIOUS
  <2>a. RematchTypeOK /\ mail \in Mail \cup {None}
      BY DEF TypeOK, NotifierTypeOK
  <2>1. ASSUME NEW kind \in Kinds, JobAlert(kind),
               job.pc = IF kind = "strong" THEN "alert_strong" ELSE "alert_weak"
        PROVE  <<mail'.item, mail'.kind>> \notin told[mail'.r]
    <3>1. mail'.r = job.cur /\ mail'.kind = kind /\ mail'.item = TopItem
        BY <2>1 DEF JobAlert, Notify, Quiet, TopItem
    <3>2. job.pc \in RowPcs /\ job.pc # "record"
        BY <2>1 DEF RowPcs, JobPcs
    <3>3. /\ job.cur \in Reports /\ job.rows[job.cur] # None
          /\ Top(job.ms) \in Candidate
        BY <2>a, <3>2, CurType DEF RematchTypeOK
    <3>4. TopItem \in Items
        BY <3>3 DEF TopItem, Candidate
    <3>5. CASE kind = "strong"
        BY <3>1, <3>3, <3>4, <3>5 DEF AlertInv, StrongRecorded
    <3>6. CASE kind = "weak"
        BY <2>1, <3>1, <3>3, <3>4, <3>6
           DEF AlertInv, WeakRecorded, WeakOnItsWay, CurRow, AlertPcs
    <3>7. QED
        BY <3>5, <3>6 DEF Kinds
  <2>2. CASE (JobStep \/ JobFailure) /\ UNCHANGED apiVars
    <3>1. CASE JobAlertStrong \/ JobAlertWeak
        BY <3>1, <2>1 DEF JobAlertStrong, JobAlertWeak, Kinds
    <3>2. CASE ~(JobAlertStrong \/ JobAlertWeak)
        BY <2>2, <3>2
           DEF JobStep, JobFailure, JobStart, JobList, JobEnd, JobPurge, JobExpire, JobSkip,
               JobJudge, JobRecord, JobPromote, JobRecall, JobMark, JobKeep, JobRowFails,
               JobCrash, Quiet
    <3>3. QED
        BY <3>1, <3>2
  <2>3. CASE ApiStep /\ UNCHANGED job
    <3>1. PICK t \in Threads : ThreadStep(t) \/ \E r \in Reports : Arrive(t, r)
        BY <2>3 DEF ApiStep
    <3>2. ~VerifyNotify(t)
        BY DEF VerifyNotify, Notify, Quiet
    <3>3. QED
        BY <3>1, <3>2
           DEF ThreadStep, SendLink, LinkRefused, AlertsSave, AlertsClear, VerifyMark,
               VerifyReload, VerifyRecall, VerifyRecord, ConfirmWrite, DismissWrite,
               Arrive, Register, AlertsRead, VerifyFind, ConfirmRead, DismissRead, DeleteReport,
               Quiet
  <2>4. CASE WorldStep \/ (ApiRestart /\ UNCHANGED job)
      BY <2>4 DEF WorldStep, ApiRestart, Quiet
  <2>5. QED
      BY <2>2, <2>3, <2>4 DEF Next
<1>2. QED
    BY <1>1, AlertsAlways, TypeCorrect, PTL DEF Spec, NoRepeatedAlert
===============================================================================
