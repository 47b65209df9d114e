---------------------------- MODULE Serving_proofs ----------------------------
(***************************************************************************)
(* Proofs about module Serving, for any number of threads, requests,       *)
(* words, languages and addresses: what a registration tells its client,   *)
(* what it costs, and what the caches hold.                                *)
(***************************************************************************)
EXTENDS Serving, FiniteSetTheorems, SequenceTheorems, TLAPS

(***************************************************************************)
(* The inductive invariants                                                *)
(***************************************************************************)
Active(t) == reg[t].r # None

\* The step a registration is at, or the one that follows the event it waits to send.
Ahead(rg) == IF rg.pc = "yielded" THEN rg.then ELSE rg.pc

BeforeRow == {"extract", "route", "fanout", "search", "find", "grade", "visual", "compare", "store"}
WithAddress == {"limit", "pending", "mail"}

\* What the steps of the agent leave for the next one.
StepFits(rg) ==
    /\ rg.pc = "find" => rg.queries > 0
    /\ Ahead(rg) \in {"visual", "compare"} => Form[rg.r].photo
    /\ rg.pc = "compare" => rg.checked < TopPhotos
    /\ rg.pc = "yielded" => rg.then \in (BeforeRow \ {"find", "compare"}) \cup {"answer"}

\* A registration and its row, from step to step.
RowFits(rg, row) ==
    /\ Ahead(rg) \in BeforeRow => row = None /\ rg.report /\ ~rg.pending
    /\ Ahead(rg) \in WithAddress =>
          /\ rg.report /\ ~rg.pending /\ Form[rg.r].email # None
          /\ row # None /\ row.pending = IF rg.pc = "mail" THEN Form[rg.r].email ELSE None
    /\ Ahead(rg) = "answer" =>
          IF rg.report THEN row # None /\ rg.pending = (row.pending # None)
          ELSE row = None /\ ~rg.pending

\* A request is worked on by one thread, and not after it has been answered.
AnswerInv ==
    /\ \A t \in Threads : RegAt(t, "idle") <=> ~Active(t)
    /\ \A t, u \in Threads : t # u /\ Active(t) => reg[u].r # reg[t].r
    /\ \A t \in Threads : Active(t) => /\ told[reg[t].r] = None
                                       /\ StepFits(reg[t]) /\ RowFits(reg[t], stored[reg[t].r])
    /\ AnswerIsTrue

\* A kept table is in the language it is kept for, and a thread looks for another language
\* than its reader's only after a failure.
TablesInv ==
    /\ \A x \in ui : x[1][2] = x[2]
    /\ \A t \in Threads : ~MailAt(t, "none") => mail[t].try = mail[t].lang \/ mail[t].hurt

\* The threads that have seen their word in the cache and will not find it there.
Missing == {t \in Threads : /\ LookAt(t, "read") \/ (LookAt(t, "test") /\ ~look[t].paid)
                            /\ look[t].word \notin cache}
Putting == {t \in Threads : LookAt(t, "put")}

CacheInv ==
    /\ late + Cardinality(Missing) <= clears * Late
    /\ IsFiniteSet(cache)
    /\ Cardinality(cache) + Cardinality(Putting) <= CacheMax + Late

Photos(rg) == IF Form[rg.r].photo THEN TopPhotos ELSE 0

\* The calls that a registration has made by a step when nothing has failed.
Made(rg) ==
    LET s == Ahead(rg)
    IN  CASE s = "extract" -> 0
          [] s = "route"   -> 1
          [] s = "fanout"  -> 2
          [] s = "search"  -> 2 + MaxQueries - rg.queries
          [] s = "find"    -> 3 + MaxQueries - rg.queries
          [] s = "grade"   -> 2 + MaxQueries
          [] s \in {"visual", "compare"} -> 3 + MaxQueries + rg.checked
          [] s = "answer"  -> 4 + MaxQueries + Photos(rg)
          [] OTHER -> 3 + MaxQueries + Photos(rg)

\* A thread does one thing at a time, and its calls are counted for that alone: n requests have
\* been sent for what it does, after f faults.
Works(l, rg, m, n, f) ==
    /\ l.pc # "idle" => rg.pc = "idle" /\ m.pc = "none"
    /\ rg.pc \notin {"idle", "mail"} => m.pc = "none"
    /\ rg.pc = "mail" => m.table = "verify" /\ m.pc \in {"table", "send"}
    /\ n # 0 => \/ rg.pc # "idle" \/ m.pc # "none"
                \/ l.pc \in {"call", "size", "clear", "put"}
    /\ rg.pc # "idle" => n <= Made(rg) + f + IF m.pc = "send" THEN 1 ELSE 0

WorkInv == \A t \in Threads : Works(look[t], reg[t], mail[t], posts[t], faults)

-------------------------------------------------------------------------------
(***************************************************************************)
(* The steps of the agent                                                  *)
(***************************************************************************)
\* A registration whose step has ended with rg.
After(rg, next) == IF Form[rg.r].stream THEN [rg EXCEPT !.pc = "yielded", !.then = next]
                   ELSE [rg EXCEPT !.pc = next]

LEMMA EmitIsAfter ==
    ASSUME NEW t, NEW rg, NEW next
    PROVE  Emit(t, rg, next) <=> reg' = [reg EXCEPT ![t] = After(rg, next)]
BY DEF Emit, Go, After

LEMMA AfterFields ==
    ASSUME NEW rg \in Reg, NEW next \in RegPcs, next # "yielded"
    PROVE  LET n == After(rg, next)
           IN  /\ n \in Reg /\ Ahead(n) = next /\ n.pc \in {next, "yielded"}
               /\ n.pc = "yielded" => n.then = next
               /\ n.r = rg.r /\ n.report = rg.report /\ n.place = rg.place
               /\ n.queries = rg.queries /\ n.checked = rg.checked /\ n.pending = rg.pending
<1>1. CASE Form[rg.r].stream
  BY <1>1 DEF After, Ahead, Reg, RegPcs
<1>2. CASE ~Form[rg.r].stream
  BY <1>2 DEF After, Ahead, Reg, RegPcs
<1> QED BY <1>1, <1>2

LEMMA MadeAt ==
    ASSUME NEW rg
    PROVE  /\ Ahead(rg) = "extract" => Made(rg) = 0
           /\ Ahead(rg) = "route" => Made(rg) = 1
           /\ Ahead(rg) = "fanout" => Made(rg) = 2
           /\ Ahead(rg) = "search" => Made(rg) = 2 + MaxQueries - rg.queries
           /\ Ahead(rg) = "find" => Made(rg) = 3 + MaxQueries - rg.queries
           /\ Ahead(rg) = "grade" => Made(rg) = 2 + MaxQueries
           /\ Ahead(rg) \in {"visual", "compare"} => Made(rg) = 3 + MaxQueries + rg.checked
           /\ Ahead(rg) = "answer" => Made(rg) = 4 + MaxQueries + Photos(rg)
           /\ Ahead(rg) \in {"store", "limit", "pending", "mail"} =>
                 Made(rg) = 3 + MaxQueries + Photos(rg)
BY DEF Made

LEMMA MadeIsInt == ASSUME NEW rg \in Reg PROVE Made(rg) \in Int
<1>1. /\ rg.queries \in Int /\ rg.checked \in Int /\ Photos(rg) \in Int /\ MaxQueries \in Int
  BY RegistrationAssumption DEF Reg, Photos
<1>2. /\ 2 + MaxQueries - rg.queries \in Int /\ 3 + MaxQueries - rg.queries \in Int
      /\ 2 + MaxQueries \in Int /\ 3 + MaxQueries + rg.checked \in Int
      /\ 4 + MaxQueries + Photos(rg) \in Int /\ 3 + MaxQueries + Photos(rg) \in Int
      /\ 0 \in Int /\ 1 \in Int /\ 2 \in Int
  BY <1>1
<1> QED BY <1>2 DEF Made

LEMMA AtWork ==
    ASSUME TypeOK, AnswerInv, NEW t \in Threads, ~RegAt(t, "idle")
    PROVE  /\ reg[t] \in Reg /\ reg[t].r \in Requests /\ reg[t].r # None
           /\ told[reg[t].r] = None
           /\ stored[reg[t].r] \in Stored \cup {None}
           /\ StepFits(reg[t]) /\ RowFits(reg[t], stored[reg[t].r])
<1>1. reg[t] \in Reg /\ reg[t].r # None
  BY DEF TypeOK, RegistrationTypeOK, RegAt
<1>2. reg[t].r \in Requests
  BY <1>1 DEF Reg
<1> QED BY <1>1, <1>2 DEF AnswerInv, Active, TypeOK, RegistrationTypeOK

LEMMA FormIs ==
    ASSUME NEW r \in Requests
    PROVE  /\ Form[r].photo \in BOOLEAN /\ Form[r].stream \in BOOLEAN
           /\ Form[r].email \in Emails \cup {None} /\ Form[r].lang \in Langs
BY RegistrationAssumption

\* The registration of t goes on with rg, which fits its row as the one before did.
Moves(t, rg) ==
    /\ reg[t].pc \in BeforeRow \cup {"yielded"} /\ rg.pc \in BeforeRow \cup {"yielded", "answer"}
    /\ rg \in Reg /\ rg.r = reg[t].r
    /\ StepFits(rg) /\ RowFits(rg, stored[rg.r])
    /\ reg' = [reg EXCEPT ![t] = rg]
    /\ UNCHANGED <<lasting, mailingVars>>

\* Its calls are counted, those of a step that fails on top.
Counts(t, rg) ==
    \/ UNCHANGED geminiVars /\ Made(reg[t]) <= Made(rg)
    \/ Reply(t) /\ Made(reg[t]) + 1 <= Made(rg)
    \/ NoReply(t) /\ Made(reg[t]) <= Made(rg)

AgentStep(t) == \/ Extract(t) \/ Route(t) \/ Fanout(t) \/ Embed(t) \/ Find(t) \/ SearchEnds(t)
                \/ Grade(t) \/ Fetch(t) \/ Compare(t) \/ VisualEnds(t)

\* A move whose row is still to come.
LEMMA MovesOn ==
    ASSUME TypeOK, AnswerInv, NEW t \in Threads, reg[t].pc \in BeforeRow,
           NEW rg \in Reg, rg.r = reg[t].r, rg.report = reg[t].report, rg.pending = reg[t].pending,
           rg.pc \in BeforeRow \cup {"yielded"}, Ahead(rg) \in BeforeRow,
           rg.pc = "find" => rg.queries > 0,
           Ahead(rg) \in {"visual", "compare"} => Form[rg.r].photo,
           rg.pc = "compare" => rg.checked < TopPhotos,
           rg.pc = "yielded" => rg.then \notin {"find", "compare"},
           reg' = [reg EXCEPT ![t] = rg], UNCHANGED <<lasting, mailingVars>>
    PROVE  Moves(t, rg)
<1>1. ~RegAt(t, "idle") /\ Ahead(reg[t]) \in BeforeRow
  BY DEF RegAt, BeforeRow, Ahead
<1>2. stored[rg.r] = None /\ rg.report /\ ~rg.pending
  BY <1>1, AtWork DEF RowFits
<1>3. RowFits(rg, stored[rg.r])
  BY <1>2 DEF RowFits, BeforeRow, WithAddress
<1>4. StepFits(rg)
  BY DEF StepFits, Ahead
<1> QED BY <1>3, <1>4 DEF Moves

LEMMA MovesOnTo ==
    ASSUME TypeOK, AnswerInv, NEW t \in Threads, reg[t].pc \in BeforeRow,
           NEW rg \in Reg, rg.r = reg[t].r, rg.report = reg[t].report, rg.pending = reg[t].pending,
           NEW next \in BeforeRow \ {"find", "compare"}, next = "visual" => Form[rg.r].photo,
           Emit(t, rg, next), UNCHANGED <<lasting, mailingVars>>
    PROVE  \E n \in Reg : /\ Moves(t, n) /\ Ahead(n) = next
                          /\ n.queries = rg.queries /\ n.checked = rg.checked /\ n.r = rg.r
<1>1. next \in RegPcs /\ next # "yielded"
  BY DEF BeforeRow, RegPcs
<1>2. PICK n : n = After(rg, next)
  OBVIOUS
<1>3. /\ n \in Reg /\ Ahead(n) = next /\ n.pc \in {next, "yielded"}
      /\ n.r = rg.r /\ n.report = rg.report /\ n.queries = rg.queries
      /\ n.checked = rg.checked /\ n.pending = rg.pending
      /\ n.pc = "yielded" => n.then = next
  BY <1>1, <1>2, AfterFields
<1>4. reg' = [reg EXCEPT ![t] = n]
  BY <1>2, EmitIsAfter
<1>5. Moves(t, n)
  BY <1>3, <1>4, MovesOn
<1> QED BY <1>2, <1>3, <1>5

LEMMA AgentConstants ==
    /\ MaxQueries \in Nat /\ MaxQueries > 0 /\ TopPhotos \in Nat /\ MaxMatches \in Nat
BY RegistrationAssumption

LEMMA PhotosAreFew == ASSUME NEW rg PROVE Photos(rg) \in Nat
BY RegistrationAssumption DEF Photos

LEMMA ExtractMoves ==
    ASSUME TypeOK, AnswerInv, NEW t \in Threads, Extract(t)
    PROVE  \E rg \in Reg : Moves(t, rg) /\ Counts(t, rg)
<1>1. /\ reg[t].pc = "extract" /\ reg[t].pc \in BeforeRow /\ ~RegAt(t, "idle")
      /\ Ahead(reg[t]) = "extract" /\ UNCHANGED <<lasting, mailingVars>>
  BY DEF Extract, RegAt, BeforeRow, Ahead
<1>2. /\ reg[t] \in Reg /\ reg[t].r \in Requests /\ stored[reg[t].r] = None
      /\ reg[t].report = TRUE /\ reg[t].pending = FALSE
  BY <1>1, AtWork DEF RowFits, Reg
<1>3. Made(reg[t]) = 0
  BY <1>1, MadeAt
<1>4. PICK rg \in Reg : /\ rg.r = reg[t].r /\ rg.pending = FALSE /\ Extracted(t, rg)
                        /\ Reply(t) \/ (NoReply(t) /\ rg.report = TRUE)
  <2>1. CASE /\ Reply(t)
             /\ \E report, place \in BOOLEAN, n \in 0..MaxQueries :
                  Extracted(t, [reg[t] EXCEPT !.report = report \/ Photo(t),
                                              !.place = place, !.queries = n])
    <3>1. PICK report \in BOOLEAN, place \in BOOLEAN, n \in 0..MaxQueries :
             Extracted(t, [reg[t] EXCEPT !.report = report \/ Photo(t), !.place = place, !.queries = n])
      BY <2>1
    <3>2. PICK rg : rg = [reg[t] EXCEPT !.report = report \/ Photo(t), !.place = place, !.queries = n]
      OBVIOUS
    <3>3. (report \/ Photo(t)) \in BOOLEAN
      BY <1>2, FormIs DEF Photo
    <3>4. rg \in Reg /\ rg.r = reg[t].r /\ rg.pending = FALSE
      BY <1>2, <3>2, <3>3 DEF Reg
    <3> QED BY <2>1, <3>1, <3>2, <3>4
  <2>2. CASE NoReply(t) /\ Extracted(t, ExtractedDegraded(reg[t]))
    <3>1. PICK rg : rg = ExtractedDegraded(reg[t])
      OBVIOUS
    <3>2. rg \in Reg /\ rg.r = reg[t].r /\ rg.pending = FALSE /\ rg.report = TRUE
      BY <1>2, <3>1, AgentConstants DEF Reg, ExtractedDegraded
    <3> QED BY <2>2, <3>1, <3>2
  <2> QED BY <2>1, <2>2 DEF Extract
<1>5. CASE rg.report
  <2>1. Emit(t, rg, "route") /\ rg.report = reg[t].report /\ rg.pending = reg[t].pending
    BY <1>2, <1>4, <1>5 DEF Extracted, Reg
  <2>2. PICK n \in Reg : Moves(t, n) /\ Ahead(n) = "route"
    <3>1. "route" \in BeforeRow \ {"find", "compare"} /\ "route" # "visual"
      BY DEF BeforeRow
    <3> QED BY <1>1, <1>4, <2>1, <3>1, MovesOnTo
  <2>3. Made(n) = 1
    BY <2>2, MadeAt
  <2>4. Counts(t, n)
    BY <1>3, <1>4, <2>3 DEF Counts
  <2> QED BY <2>2, <2>4
<1>6. CASE ~rg.report
  <2>1. Emit(t, rg, "answer") /\ Reply(t)
    BY <1>4, <1>6 DEF Extracted
  <2>2. PICK n : n = After(rg, "answer")
    OBVIOUS
  <2>3. /\ n \in Reg /\ Ahead(n) = "answer" /\ n.pc \in {"answer", "yielded"}
        /\ n.pc = "yielded" => n.then = "answer"
        /\ n.r = rg.r /\ ~n.report /\ n.pending = FALSE
    <3>1. "answer" \in RegPcs /\ "answer" # "yielded"
      BY DEF RegPcs
    <3> QED BY <1>4, <1>6, <2>2, <3>1, AfterFields
  <2>4. RowFits(n, stored[n.r]) /\ StepFits(n)
    BY <1>2, <1>4, <2>3 DEF RowFits, StepFits, BeforeRow, WithAddress
  <2>5. reg' = [reg EXCEPT ![t] = n]
    BY <2>1, <2>2, EmitIsAfter
  <2>6. Moves(t, n)
    BY <1>1, <1>4, <2>3, <2>4, <2>5 DEF Moves
  <2>7. Made(reg[t]) + 1 <= Made(n)
    <3>1. Made(n) = 4 + MaxQueries + Photos(n) /\ Photos(n) \in Nat
      BY <2>3, MadeAt, PhotosAreFew
    <3> QED BY <1>3, <3>1, AgentConstants
  <2> QED BY <2>1, <2>3, <2>6, <2>7 DEF Counts
<1> QED BY <1>5, <1>6

LEMMA RouteMoves ==
    ASSUME TypeOK, AnswerInv, NEW t \in Threads, Route(t)
    PROVE  \E rg \in Reg : Moves(t, rg) /\ Counts(t, rg)
<1>1. /\ reg[t].pc = "route" /\ reg[t].pc \in BeforeRow /\ ~RegAt(t, "idle")
      /\ Ahead(reg[t]) = "route" /\ UNCHANGED <<lasting, mailingVars>>
      /\ UNCHANGED geminiVars \/ Reply(t) \/ NoReply(t)
  BY DEF Route, RegAt, BeforeRow, Ahead
<1>2. PICK rg : rg = [reg[t] EXCEPT !.place = FALSE]
  OBVIOUS
<1>3. rg \in Reg /\ rg.r = reg[t].r /\ rg.report = reg[t].report /\ rg.pending = reg[t].pending
  BY <1>1, <1>2, AtWork DEF Reg
<1>4. Emit(t, rg, "fanout")
  BY <1>2 DEF Route
<1>5. PICK n \in Reg : Moves(t, n) /\ Ahead(n) = "fanout"
  <2>1. "fanout" \in BeforeRow \ {"find", "compare"} /\ "fanout" # "visual"
    BY DEF BeforeRow
  <2> QED BY <1>1, <1>3, <1>4, <2>1, MovesOnTo
<1>6. Made(reg[t]) = 1 /\ Made(n) = 2
  BY <1>1, <1>5, MadeAt
<1>7. Counts(t, n)
  BY <1>1, <1>6 DEF Counts
<1> QED BY <1>5, <1>7

LEMMA FanoutMoves ==
    ASSUME TypeOK, AnswerInv, NEW t \in Threads, Fanout(t)
    PROVE  \E rg \in Reg : Moves(t, rg) /\ Counts(t, rg)
<1>1. /\ reg[t].pc = "fanout" /\ reg[t].pc \in BeforeRow /\ ~RegAt(t, "idle")
      /\ Ahead(reg[t]) = "fanout" /\ UNCHANGED <<lasting, mailingVars, geminiVars>>
      /\ Emit(t, reg[t], "search")
  BY DEF Fanout, RegAt, BeforeRow, Ahead
<1>2. reg[t] \in Reg /\ reg[t].queries \in 0..MaxQueries
  BY <1>1, AtWork DEF Reg
<1>3. PICK n \in Reg : Moves(t, n) /\ Ahead(n) = "search" /\ n.queries = reg[t].queries
  <2>1. "search" \in BeforeRow \ {"find", "compare"} /\ "search" # "visual"
    BY DEF BeforeRow
  <2> QED BY <1>1, <1>2, <2>1, MovesOnTo
<1>4. Made(reg[t]) = 2 /\ Made(n) = 2 + MaxQueries - n.queries
  BY <1>1, <1>3, MadeAt
<1>5. Made(reg[t]) <= Made(n)
  BY <1>2, <1>3, <1>4, AgentConstants
<1>6. Counts(t, n)
  BY <1>1, <1>5 DEF Counts
<1> QED BY <1>3, <1>6

LEMMA EmbedMoves ==
    ASSUME TypeOK, AnswerInv, NEW t \in Threads, Embed(t)
    PROVE  \E rg \in Reg : Moves(t, rg) /\ Counts(t, rg)
<1>1. /\ reg[t].pc = "search" /\ reg[t].pc \in BeforeRow /\ ~RegAt(t, "idle")
      /\ Ahead(reg[t]) = "search" /\ UNCHANGED <<lasting, mailingVars>>
      /\ reg[t].queries > 0
      /\ Reply(t) \/ NoReply(t)
      /\ reg' = [reg EXCEPT ![t] = [reg[t] EXCEPT !.pc = "find"]]
  BY DEF Embed, SearchCalls, RegAt, BeforeRow, Ahead, Go
<1>2. PICK rg : rg = [reg[t] EXCEPT !.pc = "find"]
  OBVIOUS
<1>3. /\ rg \in Reg /\ rg.r = reg[t].r /\ rg.report = reg[t].report /\ rg.pending = reg[t].pending
      /\ rg.pc = "find" /\ Ahead(rg) = "find" /\ rg.queries = reg[t].queries
      /\ rg.queries \in 0..MaxQueries
  BY <1>1, <1>2, AtWork DEF Reg, RegPcs, Ahead
<1>4. Moves(t, rg)
  <2>1. "find" \in BeforeRow /\ "find" \notin {"visual", "compare"}
    BY DEF BeforeRow
  <2> QED BY <1>1, <1>2, <1>3, <2>1, MovesOn
<1>5. /\ Made(reg[t]) = 2 + MaxQueries - rg.queries
      /\ Made(rg) = 3 + MaxQueries - rg.queries
  BY <1>1, <1>3, MadeAt
<1>6. Made(reg[t]) <= Made(rg) /\ Made(reg[t]) + 1 <= Made(rg)
  BY <1>3, <1>5, AgentConstants
<1>7. Counts(t, rg)
  BY <1>1, <1>6 DEF Counts
<1> QED BY <1>3, <1>4, <1>7

LEMMA FindMoves ==
    ASSUME TypeOK, AnswerInv, NEW t \in Threads, Find(t)
    PROVE  \E rg \in Reg : Moves(t, rg) /\ Counts(t, rg)
<1>1. /\ reg[t].pc = "find" /\ reg[t].pc \in BeforeRow /\ ~RegAt(t, "idle")
      /\ Ahead(reg[t]) = "find" /\ UNCHANGED <<lasting, mailingVars, geminiVars>>
  BY DEF Find, RegAt, BeforeRow, Ahead
<1>2. reg[t] \in Reg /\ reg[t].queries > 0 /\ reg[t].queries \in 0..MaxQueries
  BY <1>1, AtWork DEF StepFits, Reg
<1>3. PICK n \in {reg[t].matches, MaxMatches} :
         reg' = [reg EXCEPT ![t] = [reg[t] EXCEPT !.pc = "search", !.queries = @ - 1, !.matches = n]]
  BY DEF Find, Go
<1>4. PICK rg : rg = [reg[t] EXCEPT !.pc = "search", !.queries = @ - 1, !.matches = n]
  OBVIOUS
<1>5. /\ rg \in Reg /\ rg.r = reg[t].r /\ rg.report = reg[t].report /\ rg.pending = reg[t].pending
      /\ rg.pc = "search" /\ Ahead(rg) = "search" /\ rg.queries = reg[t].queries - 1
  <2>1. n \in 0..MaxMatches
    BY <1>2, AgentConstants DEF Reg
  <2>2. reg[t].queries - 1 \in 0..MaxQueries
    BY <1>2, AgentConstants
  <2> QED BY <1>2, <1>4, <2>1, <2>2 DEF Reg, RegPcs, Ahead
<1>6. Moves(t, rg)
  <2>1. "search" \in BeforeRow
    BY DEF BeforeRow
  <2> QED BY <1>1, <1>3, <1>4, <1>5, <2>1, MovesOn
<1>7. /\ Made(reg[t]) = 3 + MaxQueries - reg[t].queries
      /\ Made(rg) = 2 + MaxQueries - rg.queries
  BY <1>1, <1>5, MadeAt
<1>8. Made(reg[t]) <= Made(rg)
  BY <1>2, <1>5, <1>7, AgentConstants
<1>9. Counts(t, rg)
  BY <1>1, <1>8 DEF Counts
<1> QED BY <1>5, <1>6, <1>9

LEMMA SearchEndMoves ==
    ASSUME TypeOK, AnswerInv, NEW t \in Threads, SearchEnds(t)
    PROVE  \E rg \in Reg : Moves(t, rg) /\ Counts(t, rg)
<1>1. /\ reg[t].pc = "search" /\ reg[t].pc \in BeforeRow /\ ~RegAt(t, "idle")
      /\ Ahead(reg[t]) = "search" /\ UNCHANGED <<lasting, mailingVars, geminiVars>>
      /\ Emit(t, reg[t], "grade") /\ reg[t].queries = 0
  BY DEF SearchEnds, RegAt, BeforeRow, Ahead
<1>2. reg[t] \in Reg
  BY <1>1, AtWork
<1>3. PICK n \in Reg : Moves(t, n) /\ Ahead(n) = "grade"
  <2>1. "grade" \in BeforeRow \ {"find", "compare"} /\ "grade" # "visual"
    BY DEF BeforeRow
  <2> QED BY <1>1, <1>2, <2>1, MovesOnTo
<1>4. Made(reg[t]) = 2 + MaxQueries - reg[t].queries /\ Made(n) = 2 + MaxQueries
  BY <1>1, <1>3, MadeAt
<1>5. Made(reg[t]) <= Made(n)
  BY <1>1, <1>4, AgentConstants
<1>6. Counts(t, n)
  BY <1>1, <1>5 DEF Counts
<1> QED BY <1>3, <1>6

LEMMA GradeMoves ==
    ASSUME TypeOK, AnswerInv, NEW t \in Threads, Grade(t)
    PROVE  \E rg \in Reg : Moves(t, rg) /\ Counts(t, rg)
<1>1. /\ reg[t].pc = "grade" /\ reg[t].pc \in BeforeRow /\ ~RegAt(t, "idle")
      /\ Ahead(reg[t]) = "grade" /\ UNCHANGED <<lasting, mailingVars>>
      /\ UNCHANGED geminiVars \/ Reply(t) \/ NoReply(t)
  BY DEF Grade, RegAt, BeforeRow, Ahead
<1>2. PICK strong \in BOOLEAN :
         Emit(t, [reg[t] EXCEPT !.strong = strong], IF Photo(t) THEN "visual" ELSE "store")
  BY DEF Grade
<1>3. PICK rg, next : /\ rg = [reg[t] EXCEPT !.strong = strong]
                      /\ next = IF Photo(t) THEN "visual" ELSE "store"
  OBVIOUS
<1>4. /\ rg \in Reg /\ rg.r = reg[t].r /\ rg.report = reg[t].report /\ rg.pending = reg[t].pending
  BY <1>1, <1>3, AtWork DEF Reg
<1>5. PICK n \in Reg : /\ Moves(t, n) /\ Ahead(n) = next
                       /\ n.checked = rg.checked /\ n.r = rg.r
  <2>1. /\ next \in BeforeRow \ {"find", "compare"}
        /\ next = "visual" => Form[rg.r].photo
    BY <1>3, <1>4 DEF BeforeRow, Photo
  <2>2. Emit(t, rg, next)
    BY <1>2, <1>3
  <2> QED BY <1>1, <1>4, <2>1, <2>2, MovesOnTo
<1>6. Made(reg[t]) = 2 + MaxQueries
  BY <1>1, MadeAt
<1>7. Made(n) = 3 + MaxQueries + n.checked \/ Made(n) = 3 + MaxQueries + Photos(n)
  BY <1>3, <1>5, MadeAt
<1>8. n.checked \in 0..TopPhotos /\ Photos(n) \in Nat
  BY <1>5, PhotosAreFew DEF Reg
<1>9. Made(reg[t]) <= Made(n) /\ Made(reg[t]) + 1 <= Made(n)
  BY <1>6, <1>7, <1>8, AgentConstants
<1>a. Counts(t, n)
  BY <1>1, <1>9 DEF Counts
<1> QED BY <1>5, <1>a

LEMMA FetchMoves ==
    ASSUME TypeOK, AnswerInv, NEW t \in Threads, Fetch(t)
    PROVE  \E rg \in Reg : Moves(t, rg) /\ Counts(t, rg)
<1>1. /\ reg[t].pc = "visual" /\ reg[t].pc \in BeforeRow /\ ~RegAt(t, "idle")
      /\ Ahead(reg[t]) = "visual" /\ UNCHANGED <<lasting, mailingVars, geminiVars>>
      /\ reg[t].at < reg[t].matches /\ reg[t].checked < TopPhotos
  BY DEF Fetch, PhotosLeft, RegAt, BeforeRow, Ahead
<1>2. reg[t] \in Reg /\ Form[reg[t].r].photo
  BY <1>1, AtWork DEF StepFits
<1>3. PICK pc \in {"visual", "compare"} :
         reg' = [reg EXCEPT ![t] = [reg[t] EXCEPT !.pc = pc, !.at = @ + 1]]
  <2>1. [reg[t] EXCEPT !.at = @ + 1] = [reg[t] EXCEPT !.pc = "visual", !.at = @ + 1]
    BY <1>1, <1>2 DEF Reg
  <2>2. \/ reg' = [reg EXCEPT ![t] = [reg[t] EXCEPT !.pc = "compare", !.at = @ + 1]]
        \/ reg' = [reg EXCEPT ![t] = [reg[t] EXCEPT !.at = @ + 1]]
    BY DEF Fetch, Go
  <2> QED BY <2>1, <2>2
<1>4. PICK rg : rg = [reg[t] EXCEPT !.pc = pc, !.at = @ + 1]
  OBVIOUS
<1>5. /\ rg \in Reg /\ rg.r = reg[t].r /\ rg.report = reg[t].report /\ rg.pending = reg[t].pending
      /\ rg.pc = pc /\ Ahead(rg) = pc /\ rg.checked = reg[t].checked
  <2>1. reg[t].at + 1 \in 0..MaxMatches
    <3>1. reg[t].at \in 0..MaxMatches /\ reg[t].matches \in 0..MaxMatches
      BY <1>2 DEF Reg
    <3> QED BY <1>1, <3>1, AgentConstants
  <2> QED BY <1>2, <1>4, <2>1 DEF Reg, RegPcs, Ahead
<1>6. Moves(t, rg)
  <2>1. pc \in BeforeRow /\ pc # "find"
    BY DEF BeforeRow
  <2> QED BY <1>1, <1>2, <1>3, <1>4, <1>5, <2>1, MovesOn
<1>7. Made(reg[t]) = 3 + MaxQueries + rg.checked /\ Made(rg) = 3 + MaxQueries + rg.checked
  BY <1>1, <1>5, MadeAt
<1>8. rg.checked \in 0..TopPhotos
  BY <1>5 DEF Reg
<1>9. Made(reg[t]) <= Made(rg)
  BY <1>7, <1>8, AgentConstants
<1>a. Counts(t, rg)
  BY <1>1, <1>9 DEF Counts
<1> QED BY <1>5, <1>6, <1>a

LEMMA CompareMoves ==
    ASSUME TypeOK, AnswerInv, NEW t \in Threads, Compare(t)
    PROVE  \E rg \in Reg : Moves(t, rg) /\ Counts(t, rg)
<1>1. /\ reg[t].pc = "compare" /\ reg[t].pc \in BeforeRow /\ ~RegAt(t, "idle")
      /\ Ahead(reg[t]) = "compare" /\ UNCHANGED <<lasting, mailingVars>>
      /\ Reply(t) \/ NoReply(t)
  BY DEF Compare, RegAt, BeforeRow, Ahead
<1>2. reg[t] \in Reg /\ Form[reg[t].r].photo /\ reg[t].checked < TopPhotos
  BY <1>1, AtWork DEF StepFits
<1>3. PICK rg : rg = [reg[t] EXCEPT !.pc = "visual", !.checked = IF @ < TopPhotos THEN @ + 1 ELSE @]
  OBVIOUS
<1>4. reg' = [reg EXCEPT ![t] = rg]
  BY <1>3 DEF Compare, Go
<1>5. /\ rg \in Reg /\ rg.r = reg[t].r /\ rg.report = reg[t].report /\ rg.pending = reg[t].pending
      /\ rg.pc = "visual" /\ Ahead(rg) = "visual" /\ rg.checked = reg[t].checked + 1
      /\ rg.checked \in 0..TopPhotos
  <2>1. reg[t].checked + 1 \in 0..TopPhotos
    <3>1. reg[t].checked \in 0..TopPhotos
      BY <1>2 DEF Reg
    <3> QED BY <1>2, <3>1, AgentConstants
  <2> QED BY <1>2, <1>3, <2>1 DEF Reg, RegPcs, Ahead
<1>6. Moves(t, rg)
  <2>1. "visual" \in BeforeRow
    BY DEF BeforeRow
  <2> QED BY <1>1, <1>2, <1>4, <1>5, <2>1, MovesOn
<1>7. Made(reg[t]) = 3 + MaxQueries + reg[t].checked /\ Made(rg) = 3 + MaxQueries + rg.checked
  BY <1>1, <1>5, MadeAt
<1>8. reg[t].checked \in 0..TopPhotos
  BY <1>2 DEF Reg
<1>9. Made(reg[t]) <= Made(rg) /\ Made(reg[t]) + 1 <= Made(rg)
  BY <1>5, <1>7, <1>8, AgentConstants
<1>a. Counts(t, rg)
  BY <1>1, <1>9 DEF Counts
<1> QED BY <1>5, <1>6, <1>a

LEMMA VisualEndMoves ==
    ASSUME TypeOK, AnswerInv, NEW t \in Threads, VisualEnds(t)
    PROVE  \E rg \in Reg : Moves(t, rg) /\ Counts(t, rg)
<1>1. /\ reg[t].pc = "visual" /\ reg[t].pc \in BeforeRow /\ ~RegAt(t, "idle")
      /\ Ahead(reg[t]) = "visual" /\ UNCHANGED <<lasting, mailingVars, geminiVars>>
      /\ Emit(t, reg[t], "store")
  BY DEF VisualEnds, RegAt, BeforeRow, Ahead
<1>2. reg[t] \in Reg /\ Form[reg[t].r].photo /\ reg[t].checked \in 0..TopPhotos
  BY <1>1, AtWork DEF StepFits, Reg
<1>3. PICK n \in Reg : Moves(t, n) /\ Ahead(n) = "store" /\ n.r = reg[t].r
  <2>1. "store" \in BeforeRow \ {"find", "compare"} /\ "store" # "visual"
    BY DEF BeforeRow
  <2> QED BY <1>1, <1>2, <2>1, MovesOnTo
<1>4. Made(reg[t]) = 3 + MaxQueries + reg[t].checked /\ Made(n) = 3 + MaxQueries + Photos(n)
  BY <1>1, <1>3, MadeAt
<1>5. Photos(n) = TopPhotos
  BY <1>2, <1>3 DEF Photos
<1>6. Made(reg[t]) <= Made(n)
  BY <1>2, <1>4, <1>5, AgentConstants
<1>7. Counts(t, n)
  BY <1>1, <1>6 DEF Counts
<1> QED BY <1>3, <1>7

\* Every step of the agent is such a move.
LEMMA AgentMoves ==
    ASSUME TypeOK, AnswerInv, NEW t \in Threads, AgentStep(t)
    PROVE  \E rg \in Reg : Moves(t, rg) /\ Counts(t, rg)
BY ExtractMoves, RouteMoves, FanoutMoves, EmbedMoves, FindMoves, SearchEndMoves, GradeMoves,
   FetchMoves, CompareMoves, VisualEndMoves DEF AgentStep

\* So is going on after an event.
LEMMA ResumeMoves ==
    ASSUME TypeOK, AnswerInv, NEW t \in Threads, Resume(t), reg[t].r \notin gone
    PROVE  \E rg \in Reg : Moves(t, rg) /\ Counts(t, rg)
<1>1. /\ reg[t].pc = "yielded" /\ ~RegAt(t, "idle") /\ UNCHANGED <<lasting, mailingVars, geminiVars>>
  BY DEF Resume, RegAt
<1>2. /\ reg[t] \in Reg /\ StepFits(reg[t]) /\ RowFits(reg[t], stored[reg[t].r])
      /\ reg[t].then \in (BeforeRow \ {"find", "compare"}) \cup {"answer"}
      /\ Ahead(reg[t]) = reg[t].then
  BY <1>1, AtWork DEF StepFits, Ahead
<1>3. PICK rg : rg = [reg[t] EXCEPT !.pc = reg[t].then, !.then = "idle"]
  OBVIOUS
<1>4. reg' = [reg EXCEPT ![t] = rg]
  BY <1>3 DEF Resume, Go
<1>5. /\ rg \in Reg /\ rg.r = reg[t].r /\ rg.report = reg[t].report /\ rg.pending = reg[t].pending
      /\ rg.queries = reg[t].queries /\ rg.checked = reg[t].checked
      /\ rg.pc = reg[t].then /\ rg.pc # "yielded"
  BY <1>2, <1>3 DEF Reg, RegPcs, BeforeRow
<1>6. Ahead(rg) = Ahead(reg[t]) /\ rg.pc \notin {"find", "compare", "mail"}
      /\ rg.pc \in BeforeRow \cup {"answer"}
  BY <1>2, <1>5 DEF Ahead, BeforeRow
<1>7. StepFits(rg)
  BY <1>2, <1>5, <1>6 DEF StepFits
<1>8. RowFits(rg, stored[rg.r])
  BY <1>1, <1>2, <1>5, <1>6 DEF RowFits
<1>9. Made(rg) = Made(reg[t])
  BY <1>5, <1>6 DEF Made, Photos
<1>a. Moves(t, rg)
  BY <1>1, <1>4, <1>5, <1>6, <1>7, <1>8 DEF Moves
<1>b. Made(reg[t]) <= Made(rg)
  <2>1. Made(reg[t]) \in Int
    BY <1>2, MadeIsInt
  <2> QED BY <1>9, <2>1
<1>c. Counts(t, rg)
  BY <1>1, <1>b DEF Counts
<1> QED BY <1>5, <1>a, <1>c

-------------------------------------------------------------------------------
(***************************************************************************)
(* Types                                                                   *)
(***************************************************************************)
\* What a step of thread t may do to the count of its calls.
CallStep(t) == \/ UNCHANGED geminiVars
               \/ Reply(t) \/ NoReply(t) \/ Retry(t)
               \/ UNCHANGED <<tries, posts>> /\ Fault
               \/ Rest(t) /\ UNCHANGED faults
               \/ Rest(t) /\ Fault

LEMMA CallsTyped ==
    ASSUME GeminiTypeOK, NEW t \in Threads, CallStep(t)
    PROVE  GeminiTypeOK' /\ faults <= faults' /\ faults \in Nat
<1>1. /\ MaxRetry \in Nat /\ MaxRetry > 0 /\ MaxFaults \in Nat
      /\ tries \in [Threads -> 0..(MaxRetry - 1)] /\ posts \in [Threads -> Nat]
      /\ faults \in 0..MaxFaults /\ 0 \in 0..(MaxRetry - 1)
  BY GeminiAssumption DEF GeminiTypeOK
<1>2. faults' \in 0..MaxFaults /\ faults <= faults' /\ faults \in Nat
  <2>1. faults' = faults \/ (faults < MaxFaults /\ faults' = faults + 1)
    BY DEF CallStep, geminiVars, Reply, NoReply, Return, Retry, Fault
  <2> QED BY <1>1, <2>1
<1>3. posts' \in [Threads -> Nat]
  <2>1. \/ posts' = posts
        \/ posts' = [posts EXCEPT ![t] = @ + 1]
        \/ posts' = [posts EXCEPT ![t] = 0]
    BY DEF CallStep, geminiVars, Reply, NoReply, Return, Retry, Posted, Rest
  <2> QED BY <1>1, <2>1
<1>4. tries' \in [Threads -> 0..(MaxRetry - 1)]
  <2>1. \/ tries' = tries
        \/ tries' = [tries EXCEPT ![t] = 0]
        \/ tries[t] < MaxRetry - 1 /\ tries' = [tries EXCEPT ![t] = @ + 1]
    BY DEF CallStep, geminiVars, Reply, NoReply, Return, Retry, Rest
  <2>2. CASE tries[t] < MaxRetry - 1 /\ tries' = [tries EXCEPT ![t] = @ + 1]
    <3>1. tries[t] + 1 \in 0..(MaxRetry - 1)
      BY <1>1, <2>2
    <3> QED BY <1>1, <2>2, <3>1
  <2> QED BY <1>1, <2>1, <2>2
<1> QED BY <1>2, <1>3, <1>4 DEF GeminiTypeOK

LEMMA RegTyped ==
    ASSUME RegistrationTypeOK, NEW t \in Threads, NEW rg \in Reg,
           rg.pc # "idle" => rg.r # None,
           reg' = [reg EXCEPT ![t] = rg]
    PROVE  /\ reg' \in [Threads -> Reg]
           /\ \A u \in Threads : reg'[u].pc # "idle" => reg'[u].r # None
BY DEF RegistrationTypeOK

LEMMA RegIdleTyped == RegIdle \in Reg /\ RegIdle.pc = "idle" /\ RegIdle.r = None
BY RegistrationAssumption DEF RegIdle, Reg, RegPcs

LEMMA LettersTyped ==
    /\ NoLetter \in Letter /\ NoLetter.pc = "none"
    /\ \A table \in Tables, lang \in Langs : NewLetter(table, lang) \in Letter
    /\ \A m \in Letter, lang \in Langs : TableIn(m, lang) \in Letter
BY MailingAssumption DEF NoLetter, NewLetter, TableIn, Letter, MailPcs, Tables

LEMMA MailTyped ==
    ASSUME MailingTypeOK, NEW t \in Threads, MailStep(t) \/ (Post(t) /\ UNCHANGED ui)
    PROVE  MailingTypeOK'
<1>1. mail[t] \in Letter /\ ui \subseteq (Tables \X Langs) \X Langs
  BY DEF MailingTypeOK
<1>2. ui' \subseteq (Tables \X Langs) \X Langs
  <2>1. ui' = ui \/ ui' = ui \cup {<<Key(mail[t]), mail[t].try>>}
    BY DEF MailStep, TableKnown, TableTranslated, TableFails, Localize
  <2>2. <<Key(mail[t]), mail[t].try>> \in (Tables \X Langs) \X Langs
    BY <1>1 DEF Key, Letter
  <2> QED BY <1>1, <2>1, <2>2
<1>3. PICK m \in Letter : mail' = [mail EXCEPT ![t] = m]
  <2>1. CASE TableKnown(t)
    <3>1. PICK l \in AtHand(mail[t]) : mail' = [mail EXCEPT ![t] = TableIn(mail[t], l)]
      BY <2>1 DEF TableKnown
    <3> QED BY <1>1, <3>1, LettersTyped DEF AtHand
  <2>2. CASE TableTranslated(t)
    <3>1. mail' = [mail EXCEPT ![t] = TableIn(mail[t], mail[t].try)] /\ mail[t].try \in Langs
      BY <1>1, <2>2 DEF TableTranslated, Letter
    <3> QED BY <1>1, <3>1, LettersTyped
  <2>3. CASE TableFails(t)
    <3>1. PICK l \in Langs : l = IF mail[t].try = "en" THEN "ko" ELSE "en"
      BY MailingAssumption
    <3>2. [mail[t] EXCEPT !.hurt = TRUE, !.try = l] \in Letter
      BY <1>1 DEF Letter
    <3>3. mail' = [mail EXCEPT ![t] = [mail[t] EXCEPT !.hurt = TRUE, !.try = l]]
      BY <1>1, <2>3, <3>1 DEF TableFails, Letter
    <3> QED BY <3>2, <3>3
  <2>4. CASE Localize(t)
    <3>1. \/ mail' = [mail EXCEPT ![t] = [mail[t] EXCEPT !.pc = "send"]]
          \/ mail' = [mail EXCEPT ![t] = [mail[t] EXCEPT !.pc = "send", !.local = FALSE, !.hurt = TRUE]]
      BY <2>4 DEF Localize
    <3>2. /\ [mail[t] EXCEPT !.pc = "send"] \in Letter
          /\ [mail[t] EXCEPT !.pc = "send", !.local = FALSE, !.hurt = TRUE] \in Letter
      BY <1>1 DEF Letter, MailPcs
    <3> QED BY <3>1, <3>2
  <2>5. CASE Post(t)
    BY <2>5, LettersTyped DEF Post
  <2> QED BY <2>1, <2>2, <2>3, <2>4, <2>5 DEF MailStep
<1> QED BY <1>2, <1>3 DEF MailingTypeOK

LEMMA LookIdleTyped == LookIdle \in Look /\ LookIdle.pc = "idle" /\ LookIdle.paid = FALSE
BY BrowsingAssumption DEF LookIdle, Look, LookPcs

LEMMA BrowseTyped ==
    ASSUME BrowsingTypeOK, NEW t \in Threads,
           BrowseStep(t) \/ \E w \in Words : BrowseBegin(t, w)
    PROVE  BrowsingTypeOK'
<1>1. look[t] \in Look /\ look[t].word \in Words
  BY DEF BrowsingTypeOK, Look
<1>2. cache' \subseteq Words
  <2>1. cache' \in {cache, {}, cache \cup {look[t].word}}
    BY DEF BrowseStep, BrowseBegin, Need, Charge, Test, Read, Translate, Size, Clear, Put
  <2> QED BY <1>1, <2>1 DEF BrowsingTypeOK
<1>3. clears' \in Nat /\ late' \in Nat
  <2>1. clears' \in {clears, clears + 1} /\ late' \in {late, late + 1}
    BY DEF BrowseStep, BrowseBegin, Need, Charge, Test, Read, Translate, Size, Clear, Put
  <2> QED BY <2>1 DEF BrowsingTypeOK
<1>4. look' \in [Threads -> Look]
  <2>1. PICK l \in Look : look' = [look EXCEPT ![t] = l]
    <3>1. CASE \E w \in Words : BrowseBegin(t, w)
      <4>1. PICK w \in Words : look' = [look EXCEPT ![t] = [LookIdle EXCEPT !.pc = "need", !.word = w]]
        BY <3>1 DEF BrowseBegin
      <4>2. [LookIdle EXCEPT !.pc = "need", !.word = w] \in Look
        BY LookIdleTyped DEF Look, LookPcs
      <4> QED BY <4>1, <4>2
    <3>2. CASE BrowseStep(t)
      <4>1. \/ look' = [look EXCEPT ![t] = LookIdle]
            \/ \E pc \in LookPcs : look' = [look EXCEPT ![t] = [look[t] EXCEPT !.pc = pc]]
            \/ look' = [look EXCEPT ![t] = [look[t] EXCEPT !.pc = "test", !.paid = TRUE]]
        BY <3>2 DEF BrowseStep, Need, Charge, Test, Read, Translate, Size, Clear, Put,
                    LookOn, LookDone, LookPcs
      <4>2. /\ \A pc \in LookPcs : [look[t] EXCEPT !.pc = pc] \in Look
            /\ [look[t] EXCEPT !.pc = "test", !.paid = TRUE] \in Look
        BY <1>1 DEF Look, LookPcs
      <4> QED BY <4>1, <4>2, LookIdleTyped
    <3> QED BY <3>1, <3>2
  <2> QED BY <2>1 DEF BrowsingTypeOK
<1> QED BY <1>2, <1>3, <1>4 DEF BrowsingTypeOK

-------------------------------------------------------------------------------
(***************************************************************************)
(* Registrations and their answers                                         *)
(***************************************************************************)
RegInv == RegistrationTypeOK /\ AnswerInv

\* What is true of the answer to r and of its row, worked on or not.
Answers(r, row, answer, left) ==
    /\ answer # None /\ answer.kind = "result" => row # None /\ answer.pending = (row.pending # None)
    /\ answer # None /\ answer.kind = "invalid" => row = None
    /\ row # None /\ answer = None => left

\* A step that concerns the registration of t for request r, and leaves it at rg.
Concerns(t, r, rg) ==
    /\ reg[t].r \in {r, None} /\ \A u \in Threads \ {t} : reg[u].r # r
    /\ reg' = [reg EXCEPT ![t] = rg] /\ gone' = gone
    /\ rg.r \in {r, None} /\ (rg.r = None <=> rg.pc = "idle")
    /\ rg.r # None => told'[r] = None /\ StepFits(rg) /\ RowFits(rg, stored'[r])
    /\ \A q \in Requests \ {r} : stored'[q] = stored[q] /\ told'[q] = told[q]
    /\ Answers(r, stored'[r], told'[r], r \in gone \/ rg.r = r)
    /\ stored' \in [Requests -> Stored \cup {None}] /\ told' \in [Requests -> Told \cup {None}]

LEMMA AnswersFit ==
    ASSUME RegInv, NEW t \in Threads, NEW r \in Requests, NEW rg \in Reg, Concerns(t, r, rg)
    PROVE  RegInv'
<1> USE DEF Concerns
<1>1. reg' \in [Threads -> Reg] /\ \A u \in Threads : reg'[u].pc # "idle" => reg'[u].r # None
  BY RegTyped DEF RegInv
<1>2. RegistrationTypeOK'
  BY <1>1 DEF RegInv, RegistrationTypeOK
<1>3. /\ reg'[t] = rg /\ \A u \in Threads : u # t => reg'[u] = reg[u]
      /\ \A u \in Threads : reg[u].r \in Requests \cup {None}
      /\ None \notin Requests
  BY RegistrationAssumption DEF RegInv, RegistrationTypeOK, Reg
<1>4. \A u \in Threads : RegAt(u, "idle")' <=> ~Active(u)'
  BY <1>3 DEF RegInv, AnswerInv, RegAt, Active
<1>5. \A u, v \in Threads : u # v /\ Active(u)' => reg'[v].r # reg'[u].r
  <2> SUFFICES ASSUME NEW u \in Threads, NEW v \in Threads, u # v, Active(u)'
               PROVE  reg'[v].r # reg'[u].r
    OBVIOUS
  <2>1. CASE u = t
    BY <1>3, <2>1 DEF Active
  <2>2. CASE v = t
    BY <1>3, <2>2 DEF Active
  <2>3. CASE u # t /\ v # t
    BY <1>3, <2>3 DEF RegInv, AnswerInv, Active
  <2> QED BY <2>1, <2>2, <2>3
<1>6. ASSUME NEW u \in Threads, Active(u)'
      PROVE  /\ told'[reg'[u].r] = None
             /\ StepFits(reg'[u]) /\ RowFits(reg'[u], stored'[reg'[u].r])
  <2>1. CASE u = t
    BY <1>3, <1>6, <2>1 DEF Active
  <2>2. CASE u # t
    <3>1. reg'[u] = reg[u] /\ Active(u) /\ reg[u].r \in Requests \ {r}
      BY <1>3, <1>6, <2>2 DEF Active
    <3> QED BY <3>1 DEF RegInv, AnswerInv
  <2> QED BY <2>1, <2>2
<1>7. AnswerIsTrue'
  <2> SUFFICES ASSUME NEW q \in Requests
               PROVE  Answers(q, stored'[q], told'[q], q \in gone \/ \E u \in Threads : reg'[u].r = q)
    BY DEF AnswerIsTrue, Answers
  <2>1. CASE q = r
    BY <1>3, <2>1 DEF Answers
  <2>2. CASE q # r
    <3>1. Answers(q, stored[q], told[q], q \in gone \/ \E u \in Threads : reg[u].r = q)
      BY DEF RegInv, AnswerInv, AnswerIsTrue, Answers
    <3>2. (\E u \in Threads : reg[u].r = q) => \E u \in Threads : reg'[u].r = q
      BY <1>3, <2>2
    <3> QED BY <2>2, <3>1, <3>2 DEF Answers
  <2> QED BY <2>1, <2>2
<1> QED BY <1>2, <1>4, <1>5, <1>6, <1>7 DEF RegInv, AnswerInv

\* What a thread that works on a registration may rely on.
LEMMA AtRequest ==
    ASSUME TypeOK, AnswerInv, NEW t \in Threads, ~RegAt(t, "idle")
    PROVE  /\ RegInv
           /\ reg[t] \in Reg /\ reg[t].r \in Requests /\ reg[t].r # None
           /\ told[reg[t].r] = None
           /\ \A u \in Threads \ {t} : reg[u].r # reg[t].r
           /\ stored[reg[t].r] \in Stored \cup {None}
           /\ RowFits(reg[t], stored[reg[t].r])
           /\ stored \in [Requests -> Stored \cup {None}] /\ told \in [Requests -> Told \cup {None}]
           /\ None \notin Stored /\ None \notin Told /\ None \notin Emails
BY AtWork, RegistrationAssumption DEF RegInv, TypeOK, RegistrationTypeOK, AnswerInv, Active

LEMMA AtThatRequest ==
    ASSUME TypeOK, AnswerInv, NEW t \in Threads, ~RegAt(t, "idle")
    PROVE  \E r \in Requests :
              /\ r = reg[t].r /\ reg[t].r \in {r, None} /\ r # None
              /\ RegInv /\ reg[t] \in Reg /\ told[r] = None
              /\ \A u \in Threads \ {t} : reg[u].r # r
              /\ stored[r] \in Stored \cup {None} /\ RowFits(reg[t], stored[r])
BY AtRequest

LEMMA TypesAtWork ==
    ASSUME TypeOK
    PROVE  /\ stored \in [Requests -> Stored \cup {None}] /\ told \in [Requests -> Told \cup {None}]
           /\ None \notin Stored /\ None \notin Told /\ None \notin Emails
BY RegistrationAssumption DEF TypeOK, RegistrationTypeOK

LEMMA MovesAnswer ==
    ASSUME TypeOK, AnswerInv, NEW t \in Threads, NEW rg \in Reg, Moves(t, rg)
    PROVE  RegInv'
<1>1. ~RegAt(t, "idle") /\ rg.pc # "idle" /\ rg.r = reg[t].r
  BY DEF Moves, RegAt, BeforeRow
<1>2. /\ stored' = stored /\ told' = told /\ gone' = gone
      /\ StepFits(rg) /\ RowFits(rg, stored[rg.r]) /\ reg' = [reg EXCEPT ![t] = rg]
  BY DEF Moves, lasting
<1>3. PICK r \in Requests :
         /\ r = reg[t].r /\ reg[t].r \in {r, None} /\ r # None /\ RegInv /\ told[r] = None
         /\ \A u \in Threads \ {t} : reg[u].r # r
  BY <1>1, AtThatRequest
<1>4. Answers(r, stored[r], told[r], r \in gone \/ rg.r = r)
  BY <1>1, <1>3 DEF Answers
<1>5. Concerns(t, r, rg)
  BY <1>1, <1>2, <1>3, <1>4, TypesAtWork DEF Concerns
<1> QED BY <1>3, <1>5, AnswersFit

\* A registration ends, unanswered because its client has gone, or with a true answer.
LEMMA EndsAnswer ==
    ASSUME TypeOK, AnswerInv, NEW t \in Threads, ~RegAt(t, "idle"),
           reg' = [reg EXCEPT ![t] = RegIdle],
           UNCHANGED <<stored, gone>>,
           NEW answer \in Told,
           answer.kind = "result" => /\ stored[reg[t].r] # None
                                     /\ answer.pending = (stored[reg[t].r].pending # None),
           answer.kind = "invalid" => stored[reg[t].r] = None,
           told' = IF reg[t].r \in gone THEN told ELSE [told EXCEPT ![reg[t].r] = answer]
    PROVE  RegInv'
<1>1. PICK r \in Requests :
         /\ r = reg[t].r /\ reg[t].r \in {r, None} /\ r # None /\ RegInv /\ told[r] = None
         /\ \A u \in Threads \ {t} : reg[u].r # r
  BY AtThatRequest
<1>2. told' \in [Requests -> Told \cup {None}] /\ \A q \in Requests \ {r} : told'[q] = told[q]
  BY <1>1, TypesAtWork
<1>3. Answers(r, stored'[r], told'[r], r \in gone \/ RegIdle.r = r)
  <2>1. CASE r \in gone
    BY <1>1, <2>1 DEF Answers
  <2>2. CASE r \notin gone
    <3>1. told'[r] = answer /\ answer # None
      BY <1>1, <2>2, TypesAtWork
    <3> QED BY <1>1, <3>1 DEF Answers
  <2> QED BY <2>1, <2>2
<1>4. /\ stored' \in [Requests -> Stored \cup {None}]
      /\ \A q \in Requests \ {r} : stored'[q] = stored[q]
  BY TypesAtWork
<1>5. Concerns(t, r, RegIdle)
  BY <1>1, <1>2, <1>3, <1>4, RegIdleTyped DEF Concerns
<1> QED BY <1>1, <1>5, AnswersFit, RegIdleTyped

LEMMA StoreAnswers ==
    ASSUME TypeOK, AnswerInv, NEW t \in Threads, Store(t)
    PROVE  RegInv'
<1>1. reg[t].pc = "store" /\ ~RegAt(t, "idle")
  BY DEF Store, RegAt
<1>2. PICK r \in Requests :
         /\ r = reg[t].r /\ reg[t].r \in {r, None} /\ r # None /\ RegInv /\ told[r] = None
         /\ \A u \in Threads \ {t} : reg[u].r # r
  BY <1>1, AtThatRequest
<1>3. PICK row \in Stored : row.pending = None /\ stored' = [stored EXCEPT ![r] = row]
  <2>1. PICK row : row = [status |-> IF reg[t].strong THEN "candidate" ELSE "open", pending |-> None]
    OBVIOUS
  <2>2. row \in Stored /\ row.pending = None
    BY <2>1 DEF Stored
  <2>3. stored' = [stored EXCEPT ![r] = row]
    BY <1>2, <2>1 DEF Store
  <2> QED BY <2>2, <2>3
<1>4. PICK rg : rg = [RegIdle EXCEPT !.pc = IF Address(t) = None THEN "answer" ELSE "limit", !.r = r]
  OBVIOUS
<1>5. /\ rg \in Reg /\ rg.r = r /\ rg.report = TRUE /\ rg.pending = FALSE
      /\ rg.pc \in {"answer", "limit"} /\ (rg.pc = "limit" => Form[r].email # None)
  BY <1>2, <1>4, RegIdleTyped DEF Reg, RegPcs, RegIdle, Address
<1>6. reg' = [reg EXCEPT ![t] = rg]
  BY <1>2, <1>4 DEF Store, Go
<1>7. told' = told /\ stored'[r] = row /\ row # None
  BY <1>3, TypesAtWork DEF Store
<1>8. StepFits(rg) /\ RowFits(rg, row)
  BY <1>3, <1>5, <1>7 DEF StepFits, RowFits, Ahead, BeforeRow, WithAddress
<1>9. Answers(r, stored'[r], told'[r], r \in gone \/ rg.r = r)
  BY <1>2, <1>5, <1>7 DEF Answers
<1>a. /\ stored' \in [Requests -> Stored \cup {None}] /\ told' \in [Requests -> Told \cup {None}]
      /\ \A q \in Requests \ {r} : stored'[q] = stored[q] /\ told'[q] = told[q]
      /\ gone' = gone
  <2>1. UNCHANGED <<told, gone>>
    BY DEF Store
  <2>2. \A q \in Requests \ {r} : stored'[q] = stored[q]
    BY <1>3, TypesAtWork
  <2>3. stored' \in [Requests -> Stored \cup {None}]
    BY <1>3, TypesAtWork
  <2> QED BY <2>1, <2>2, <2>3, TypesAtWork
<1>b. told'[r] = None /\ rg.pc # "idle" /\ RowFits(rg, stored'[r])
  BY <1>2, <1>5, <1>7, <1>8
<1>c. /\ rg.r \in {r, None} /\ (rg.r = None <=> rg.pc = "idle")
      /\ rg.r # None => told'[r] = None /\ StepFits(rg) /\ RowFits(rg, stored'[r])
  BY <1>2, <1>5, <1>8, <1>b
<1>d. Concerns(t, r, rg)
  BY <1>2, <1>6, <1>9, <1>a, <1>c DEF Concerns
<1> QED BY <1>2, <1>5, <1>d, AnswersFit

\* At the address: the row is stored and the answer still open.
LEMMA AtAddress ==
    ASSUME TypeOK, AnswerInv, NEW t \in Threads, reg[t].pc \in WithAddress
    PROVE  /\ ~RegAt(t, "idle") /\ Ahead(reg[t]) = reg[t].pc /\ reg[t] \in Reg
           /\ reg[t].report = TRUE /\ reg[t].pending = FALSE
           /\ Address(t) \in Emails /\ Address(t) # None
           /\ stored[reg[t].r] \in Stored /\ stored[reg[t].r] # None
           /\ stored[reg[t].r].pending = IF reg[t].pc = "mail" THEN Address(t) ELSE None
<1>1. ~RegAt(t, "idle") /\ Ahead(reg[t]) = reg[t].pc
  BY DEF RegAt, WithAddress, Ahead
<1> QED BY <1>1, AtRequest, FormIs DEF RowFits, Address, Reg

\* The answer stays open while the address is seen to.
LEMMA AddressAnswers ==
    ASSUME TypeOK, AnswerInv, NEW t \in Threads, reg[t].pc \in WithAddress,
           NEW pc \in {"pending", "mail", "answer"}, NEW pending \in BOOLEAN, NEW row \in Stored,
           reg' = [reg EXCEPT ![t] = [reg[t] EXCEPT !.pc = pc, !.pending = pending]],
           stored' = [stored EXCEPT ![reg[t].r] = row],
           row.pending \in {Address(t), None},
           IF pc = "answer" THEN pending = (row.pending # None)
           ELSE ~pending /\ row.pending = IF pc = "mail" THEN Address(t) ELSE None,
           told' = told, gone' = gone
    PROVE  RegInv'
<1>1. /\ ~RegAt(t, "idle") /\ reg[t] \in Reg /\ reg[t].report = TRUE
      /\ Address(t) # None
  BY AtAddress
<1>2. PICK r \in Requests :
         /\ r = reg[t].r /\ reg[t].r \in {r, None} /\ r # None /\ RegInv /\ told[r] = None
         /\ \A u \in Threads \ {t} : reg[u].r # r
  BY <1>1, AtThatRequest
<1>3. PICK rg : rg = [reg[t] EXCEPT !.pc = pc, !.pending = pending]
  OBVIOUS
<1>4. /\ rg \in Reg /\ rg.r = r /\ rg.report = TRUE /\ rg.pending = pending /\ rg.pc = pc
      /\ reg' = [reg EXCEPT ![t] = rg]
  BY <1>1, <1>2, <1>3 DEF Reg, RegPcs
<1>5. row # None /\ stored'[r] = row
  BY <1>2, TypesAtWork
<1>6. Ahead(rg) = pc /\ rg.pc # "idle" /\ Address(t) = Form[rg.r].email
  BY <1>2, <1>4 DEF Ahead, Address
<1>7. StepFits(rg) /\ RowFits(rg, row)
  BY <1>1, <1>4, <1>5, <1>6 DEF StepFits, RowFits, BeforeRow, WithAddress
<1>8. Answers(r, stored'[r], told'[r], r \in gone \/ rg.r = r)
  BY <1>2, <1>4, <1>5 DEF Answers
<1>9. /\ stored' \in [Requests -> Stored \cup {None}] /\ told' \in [Requests -> Told \cup {None}]
      /\ gone' = gone
      /\ \A q \in Requests \ {r} : stored'[q] = stored[q] /\ told'[q] = told[q]
  BY <1>2, TypesAtWork
<1>a. told'[r] = None /\ RowFits(rg, stored'[r])
  BY <1>2, <1>5, <1>7
<1>c. /\ rg.r \in {r, None} /\ (rg.r = None <=> rg.pc = "idle")
      /\ rg.r # None => told'[r] = None /\ StepFits(rg) /\ RowFits(rg, stored'[r])
  BY <1>2, <1>4, <1>6, <1>7, <1>a
<1>d. Concerns(t, r, rg)
  BY <1>2, <1>4, <1>8, <1>9, <1>c DEF Concerns
<1> QED BY <1>2, <1>4, <1>d, AnswersFit

LEMMA CountMailAnswers ==
    ASSUME TypeOK, AnswerInv, NEW t \in Threads, CountMail(t)
    PROVE  RegInv'
<1>1. reg[t].pc = "limit" /\ reg[t].pc \in WithAddress
  BY DEF CountMail, RegAt, WithAddress
<1>2. /\ reg[t] \in Reg /\ reg[t].pending = FALSE /\ Address(t) \in Emails
      /\ stored[reg[t].r] \in Stored /\ stored[reg[t].r].pending = None
  BY <1>1, AtAddress
<1>3. PICK pc \in {"pending", "answer"} : reg' = [reg EXCEPT ![t] = [reg[t] EXCEPT !.pc = pc]]
  BY DEF CountMail, Go
<1>4. [reg[t] EXCEPT !.pc = pc] = [reg[t] EXCEPT !.pc = pc, !.pending = FALSE]
  BY <1>2 DEF Reg
<1>5. stored' = [stored EXCEPT ![reg[t].r] = stored[reg[t].r]]
  BY TypesAtWork DEF CountMail, lasting
<1>6. told' = told /\ gone' = gone
  BY DEF CountMail, lasting
<1>7. pc # "mail" /\ pc \in {"pending", "mail", "answer"}
  OBVIOUS
<1> QED BY <1>1, <1>2, <1>3, <1>4, <1>5, <1>6, <1>7, AddressAnswers

LEMMA SetPendingAnswers ==
    ASSUME TypeOK, AnswerInv, NEW t \in Threads, SetPending(t)
    PROVE  RegInv'
<1>1. reg[t].pc = "pending" /\ reg[t].pc \in WithAddress
  BY DEF SetPending, RegAt, WithAddress
<1>2. /\ reg[t] \in Reg /\ reg[t].pending = FALSE /\ Address(t) \in Emails
      /\ stored[reg[t].r] \in Stored
  BY <1>1, AtAddress
<1>3. PICK row : row = [stored[reg[t].r] EXCEPT !.pending = Address(t)]
  OBVIOUS
<1>4. row \in Stored /\ row.pending = Address(t)
  BY <1>2, <1>3 DEF Stored
<1>5. stored' = [stored EXCEPT ![reg[t].r] = row]
  BY <1>3 DEF SetPending
<1>6. /\ reg' = [reg EXCEPT ![t] = [reg[t] EXCEPT !.pc = "mail"]]
      /\ [reg[t] EXCEPT !.pc = "mail"] = [reg[t] EXCEPT !.pc = "mail", !.pending = FALSE]
  BY <1>2 DEF SetPending, Go, Reg
<1>7. told' = told /\ gone' = gone
  BY DEF SetPending
<1> QED BY <1>1, <1>2, <1>4, <1>5, <1>6, <1>7, AddressAnswers

LEMMA SendLinkAnswers ==
    ASSUME TypeOK, AnswerInv, NEW t \in Threads, SendLink(t)
    PROVE  RegInv'
<1>1. reg[t].pc = "mail" /\ reg[t].pc \in WithAddress
  BY DEF SendLink, RegAt, WithAddress
<1>2. /\ reg[t] \in Reg /\ Address(t) \in Emails /\ Address(t) # None
      /\ stored[reg[t].r] \in Stored /\ stored[reg[t].r].pending = Address(t)
  BY <1>1, AtAddress
<1>3. stored' = [stored EXCEPT ![reg[t].r] = stored[reg[t].r]]
  BY TypesAtWork DEF SendLink
<1>4. reg' = [reg EXCEPT ![t] = [reg[t] EXCEPT !.pc = "answer", !.pending = TRUE]]
  BY DEF SendLink, Go
<1>5. told' = told /\ gone' = gone
  BY DEF SendLink
<1> QED BY <1>1, <1>2, <1>3, <1>4, <1>5, AddressAnswers

LEMMA TellsTold ==
    /\ \A kind \in {"result", "invalid", "error"}, pending \in BOOLEAN :
          [kind |-> kind, pending |-> pending] \in Told
BY DEF Told

LEMMA AnswerAnswers ==
    ASSUME TypeOK, AnswerInv, NEW t \in Threads, Answer(t)
    PROVE  RegInv'
<1>1. reg[t].pc = "answer" /\ ~RegAt(t, "idle") /\ Ahead(reg[t]) = "answer"
  BY DEF Answer, RegAt, Ahead
<1>2. reg[t].pending \in BOOLEAN /\ reg[t].report \in BOOLEAN
  BY <1>1, AtRequest DEF Reg
<1>3. PICK answer : answer = [kind |-> IF reg[t].report THEN "result" ELSE "invalid",
                              pending |-> reg[t].pending]
  OBVIOUS
<1>4. /\ answer \in Told /\ answer.pending = reg[t].pending
      /\ answer.kind = IF reg[t].report THEN "result" ELSE "invalid"
  BY <1>2, <1>3, TellsTold
<1>5. IF reg[t].report THEN /\ stored[reg[t].r] # None
                            /\ reg[t].pending = (stored[reg[t].r].pending # None)
      ELSE stored[reg[t].r] = None
  BY <1>1, AtRequest DEF RowFits
<1>6. /\ answer.kind = "result" => /\ stored[reg[t].r] # None
                                   /\ answer.pending = (stored[reg[t].r].pending # None)
      /\ answer.kind = "invalid" => stored[reg[t].r] = None
  BY <1>4, <1>5
<1>7. told' = IF reg[t].r \in gone THEN told ELSE [told EXCEPT ![reg[t].r] = answer]
  BY <1>3 DEF Answer
<1> QED BY <1>1, <1>4, <1>6, <1>7, EndsAnswer DEF Answer, Go

LEMMA BreaksAnswer ==
    ASSUME TypeOK, AnswerInv, NEW t \in Threads, Breaks(t)
    PROVE  RegInv'
<1>1. ~RegAt(t, "idle")
  BY DEF Breaks, RegAt
<1>2. PICK answer : answer = [kind |-> "error", pending |-> FALSE]
  OBVIOUS
<1>3. answer \in Told /\ answer.kind = "error"
  BY <1>2, TellsTold
<1>4. told' = IF reg[t].r \in gone THEN told ELSE [told EXCEPT ![reg[t].r] = answer]
  BY <1>2 DEF Breaks
<1> QED BY <1>1, <1>3, <1>4, EndsAnswer DEF Breaks, Go

LEMMA ResumeAnswers ==
    ASSUME TypeOK, AnswerInv, NEW t \in Threads, Resume(t)
    PROVE  RegInv'
<1>1. CASE reg[t].r \notin gone
  BY <1>1, ResumeMoves, MovesAnswer
<1>2. CASE reg[t].r \in gone
  <2>1. /\ ~RegAt(t, "idle") /\ reg' = [reg EXCEPT ![t] = RegIdle]
        /\ UNCHANGED <<stored, told, gone>>
    BY <1>2 DEF Resume, RegAt, Go, lasting
  <2>2. PICK answer : answer = [kind |-> "error", pending |-> FALSE]
    OBVIOUS
  <2>3. answer \in Told /\ answer.kind = "error"
    BY <2>2, TellsTold
  <2> QED BY <1>2, <2>1, <2>3, EndsAnswer
<1> QED BY <1>1, <1>2

LEMMA BeginAnswers ==
    ASSUME TypeOK, AnswerInv, NEW t \in Threads, NEW r \in Requests, RegisterBegin(t, r)
    PROVE  RegInv'
<1>1. /\ RegAt(t, "idle") /\ told[r] = None /\ r \notin gone
      /\ \A u \in Threads : reg[u].r # r
      /\ UNCHANGED <<stored, told, gone>>
  BY DEF RegisterBegin, Fresh, lasting
<1>2. reg[t].r = None /\ RegInv
  BY <1>1 DEF RegInv, AnswerInv, Active, TypeOK
<1>3. stored[r] = None
  BY <1>1 DEF AnswerInv, AnswerIsTrue
<1>4. PICK rg : rg = [RegIdle EXCEPT !.pc = "extract", !.r = r]
  OBVIOUS
<1>5. /\ rg \in Reg /\ rg.r = r /\ r # None /\ rg.pc = "extract" /\ rg.report = TRUE /\ rg.pending = FALSE
      /\ reg' = [reg EXCEPT ![t] = rg]
  BY <1>4, RegIdleTyped, RegistrationAssumption DEF RegisterBegin, Go, Reg, RegPcs, RegIdle
<1>6. StepFits(rg) /\ RowFits(rg, stored[r])
  BY <1>3, <1>5 DEF StepFits, RowFits, Ahead, BeforeRow, WithAddress
<1>7. Answers(r, stored'[r], told'[r], r \in gone \/ rg.r = r)
  BY <1>1, <1>5 DEF Answers
<1>8. /\ stored' \in [Requests -> Stored \cup {None}] /\ told' \in [Requests -> Told \cup {None}]
      /\ \A q \in Requests \ {r} : stored'[q] = stored[q] /\ told'[q] = told[q]
      /\ gone' = gone
  BY <1>1, TypesAtWork
<1>c. /\ rg.r \in {r, None} /\ (rg.r = None <=> rg.pc = "idle")
      /\ rg.r # None => told'[r] = None /\ StepFits(rg) /\ RowFits(rg, stored'[r])
  BY <1>1, <1>5, <1>6
<1>d. reg[t].r \in {r, None} /\ \A u \in Threads \ {t} : reg[u].r # r
  BY <1>1, <1>2
<1>e. Concerns(t, r, rg)
  BY <1>5, <1>7, <1>8, <1>c, <1>d DEF Concerns
<1> QED BY <1>2, <1>5, <1>e, AnswersFit

\* A step that concerns no registration, but that a client may leave.
LEMMA QuietAnswers ==
    ASSUME RegInv, UNCHANGED <<reg, stored, told>>,
           gone \subseteq gone', gone' \subseteq Requests
    PROVE  RegInv'
<1>1. RegistrationTypeOK'
  BY DEF RegInv, RegistrationTypeOK
<1>2. AnswerIsTrue'
  BY DEF RegInv, AnswerInv, AnswerIsTrue
<1> QED BY <1>1, <1>2 DEF RegInv, AnswerInv, RegAt, Active

LEMMA RestartAnswers ==
    ASSUME RegInv, Restart
    PROVE  RegInv'
<1>1. gone' \subseteq Requests
  BY DEF Restart, RegInv, RegistrationTypeOK, Reg, RegAt
<1>2. reg' = [t \in Threads |-> RegIdle] /\ \A t \in Threads : reg'[t].pc = "idle" /\ reg'[t].r = None
  BY RegIdleTyped DEF Restart
<1>3. RegistrationTypeOK'
  <2>1. stored' = stored /\ told' = told
    BY DEF Restart
  <2>2. reg' \in [Threads -> Reg]
    BY <1>2, RegIdleTyped
  <2> QED BY <1>1, <1>2, <2>1, <2>2 DEF RegInv, RegistrationTypeOK
<1>4. AnswerIsTrue'
  <2> SUFFICES ASSUME NEW q \in Requests
               PROVE  Answers(q, stored'[q], told'[q], q \in gone' \/ \E u \in Threads : reg'[u].r = q)
    BY DEF AnswerIsTrue, Answers
  <2>1. Answers(q, stored[q], told[q], q \in gone \/ \E u \in Threads : reg[u].r = q)
    BY DEF RegInv, AnswerInv, AnswerIsTrue, Answers
  <2>2. ASSUME NEW u \in Threads, reg[u].r = q PROVE q \in gone'
    <3>1. ~RegAt(u, "idle")
      BY <2>2, RegistrationAssumption DEF RegInv, AnswerInv, Active
    <3> QED BY <2>2, <3>1 DEF Restart
  <2>3. stored' = stored /\ told' = told /\ gone \subseteq gone'
    BY DEF Restart
  <2> QED BY <2>1, <2>2, <2>3 DEF Answers
<1> QED BY <1>2, <1>3, <1>4 DEF RegInv, AnswerInv, RegAt, Active

LEMMA RegStepKept ==
    ASSUME TypeOK, AnswerInv, NEW t \in Threads, RegisterStep(t)
    PROVE  RegInv' /\ CallStep(t) /\ MailingTypeOK'
<1>0. MailingTypeOK
  BY DEF TypeOK
<1>1. CASE AgentStep(t)
  <2>1. PICK rg \in Reg : Moves(t, rg) /\ Counts(t, rg)
    BY <1>1, AgentMoves
  <2> QED BY <1>0, <2>1, MovesAnswer DEF Moves, Counts, CallStep, mailingVars, MailingTypeOK
<1>2. CASE Resume(t)
  <2>1. CallStep(t) /\ MailingTypeOK'
    BY <1>0, <1>2 DEF Resume, CallStep, mailingVars, MailingTypeOK
  <2> QED BY <1>2, <2>1, ResumeAnswers
<1>3. CASE Store(t)
  <2>1. CallStep(t) /\ MailingTypeOK'
    BY <1>0, <1>3 DEF Store, CallStep, mailingVars, MailingTypeOK
  <2> QED BY <1>3, <2>1, StoreAnswers
<1>4. CASE CountMail(t)
  <2>1. CallStep(t) /\ MailingTypeOK'
    BY <1>0, <1>4 DEF CountMail, CallStep, mailingVars, MailingTypeOK
  <2> QED BY <1>4, <2>1, CountMailAnswers
<1>5. CASE SetPending(t)
  <2>1. CallStep(t)
    BY <1>5 DEF SetPending, CallStep
  <2>2. NewLetter("verify", Form[reg[t].r].lang) \in Letter
    <3>1. reg[t].r \in Requests
      BY <1>5, AtRequest DEF SetPending, RegAt
    <3> QED BY <3>1, FormIs, LettersTyped DEF Tables
  <2>3. MailingTypeOK'
    BY <1>0, <1>5, <2>2 DEF SetPending, MailingTypeOK
  <2> QED BY <1>5, <2>1, <2>3, SetPendingAnswers
<1>6. CASE SendLink(t)
  <2>1. CallStep(t)
    BY <1>6 DEF SendLink, CallStep, geminiVars
  <2>2. MailingTypeOK'
    BY <1>0, <1>6, MailTyped DEF SendLink
  <2> QED BY <1>6, <2>1, <2>2, SendLinkAnswers
<1>7. CASE Answer(t)
  <2>1. CallStep(t) /\ MailingTypeOK'
    BY <1>0, <1>7 DEF Answer, CallStep, mailingVars, MailingTypeOK
  <2> QED BY <1>7, <2>1, AnswerAnswers
<1> QED BY <1>1, <1>2, <1>3, <1>4, <1>5, <1>6, <1>7 DEF RegisterStep, AgentStep

LEMMA LoadsTyped ==
    ASSUME load \in Load
    PROVE  /\ load.browses > 0 => [load EXCEPT !.browses = @ - 1] \in Load
           /\ \A r : [load EXCEPT !.registers = @ \ {r}] \in Load
           /\ load.results # <<>> => /\ [load EXCEPT !.results = Tail(@)] \in Load
                                     /\ Head(load.results) \in Langs
<1>1. /\ load.browses \in Nat /\ load.registers \in SUBSET Requests /\ load.results \in Seq(Langs)
  BY DEF Load
<1>2. load.browses > 0 => load.browses - 1 \in Nat
  BY <1>1
<1>3. \A n \in Nat : [load EXCEPT !.browses = n] \in Load
  BY DEF Load
<1>4. \A R \in SUBSET Requests : [load EXCEPT !.registers = R] \in Load
  BY DEF Load
<1>5. \A q \in Seq(Langs) : [load EXCEPT !.results = q] \in Load
  BY DEF Load
<1>6. load.results # <<>> => Tail(load.results) \in Seq(Langs) /\ Head(load.results) \in Langs
  BY <1>1
<1> QED BY <1>1, <1>2, <1>3, <1>4, <1>5, <1>6

\* The steps of the process, one by one.
LEMMA Steps ==
    ASSUME [Next]_vars
    PROVE  \/ UNCHANGED vars
           \/ Restart
           \/ \E t \in Threads :
                 \/ RegisterStep(t) /\ UNCHANGED <<browsingVars, load>>
                 \/ BrowseStep(t) /\ UNCHANGED <<mailingVars, registrationVars, load>>
                 \/ MailStep(t) /\ UNCHANGED <<browsingVars, registrationVars, load>>
                 \/ SendResult(t) /\ UNCHANGED <<browsingVars, registrationVars, load>>
                 \/ TryAgain(t)
                 \/ Breaks(t) /\ UNCHANGED <<browsingVars, load>>
                 \/ Arrive(t)
           \/ \E r \in Requests : Disconnect(r) /\ UNCHANGED <<browsingVars, load>>
BY DEF Next, Work

LEMMA TypesAndAnswersKept ==
    ASSUME TypeOK, AnswerInv, [Next]_vars
    PROVE  TypeOK' /\ AnswerInv'
<1>0. GeminiTypeOK /\ BrowsingTypeOK /\ MailingTypeOK /\ RegInv /\ load \in Load
  BY DEF TypeOK, RegInv
<1> SUFFICES GeminiTypeOK' /\ BrowsingTypeOK' /\ MailingTypeOK' /\ RegInv' /\ load' \in Load
  BY DEF TypeOK, RegInv
<1>q. UNCHANGED registrationVars => RegInv'
  <2>1. gone \subseteq Requests
    BY <1>0 DEF RegInv, RegistrationTypeOK
  <2> QED BY <1>0, <2>1, QuietAnswers DEF registrationVars
<1>m. UNCHANGED mailingVars => MailingTypeOK'
  BY <1>0 DEF mailingVars, MailingTypeOK
<1>b. UNCHANGED browsingVars => BrowsingTypeOK'
  BY <1>0 DEF browsingVars, BrowsingTypeOK
<1>g. UNCHANGED geminiVars => GeminiTypeOK'
  BY <1>0 DEF geminiVars, GeminiTypeOK
<1>1. CASE Restart
  <2>1. GeminiTypeOK'
    <3>1. 0 \in 0..(MaxRetry - 1) /\ MaxFaults \in Nat
      BY GeminiAssumption
    <3>2. faults' \in 0..MaxFaults
      BY <1>0, <1>1, <3>1 DEF Restart, Fault, GeminiTypeOK
    <3> QED BY <1>1, <3>1, <3>2 DEF Restart, GeminiTypeOK
  <2>2. BrowsingTypeOK'
    BY <1>1, LookIdleTyped DEF Restart, BrowsingTypeOK
  <2>3. MailingTypeOK'
    BY <1>1, LettersTyped DEF Restart, MailingTypeOK
  <2> QED BY <1>0, <1>1, <2>1, <2>2, <2>3, RestartAnswers DEF Restart
<1>2. ASSUME NEW t \in Threads, RegisterStep(t), UNCHANGED <<browsingVars, load>>
      PROVE  GeminiTypeOK' /\ BrowsingTypeOK' /\ MailingTypeOK' /\ RegInv' /\ load' \in Load
  BY <1>0, <1>b, <1>2, RegStepKept, CallsTyped
<1>3. ASSUME NEW t \in Threads, BrowseStep(t), UNCHANGED <<mailingVars, registrationVars, load>>
      PROVE  GeminiTypeOK' /\ BrowsingTypeOK' /\ MailingTypeOK' /\ RegInv' /\ load' \in Load
  <2>1. CallStep(t)
    BY <1>3 DEF BrowseStep, Need, Charge, Test, Read, Translate, Size, Clear, Put, CallStep
  <2> QED BY <1>0, <1>q, <1>m, <1>3, <2>1, CallsTyped, BrowseTyped
<1>4. ASSUME NEW t \in Threads, MailStep(t) \/ SendResult(t),
             UNCHANGED <<browsingVars, registrationVars, load>>
      PROVE  GeminiTypeOK' /\ BrowsingTypeOK' /\ MailingTypeOK' /\ RegInv' /\ load' \in Load
  <2>1. CallStep(t)
    BY <1>4 DEF MailStep, TableKnown, TableTranslated, TableFails, Localize, SendResult, CallStep
  <2>2. MailStep(t) \/ (Post(t) /\ UNCHANGED ui)
    BY <1>4 DEF SendResult
  <2> QED BY <1>0, <1>q, <1>b, <1>4, <2>1, <2>2, CallsTyped, MailTyped
<1>5. ASSUME NEW t \in Threads, TryAgain(t)
      PROVE  GeminiTypeOK' /\ BrowsingTypeOK' /\ MailingTypeOK' /\ RegInv' /\ load' \in Load
  <2>1. CallStep(t) /\ UNCHANGED <<browsingVars, mailingVars, registrationVars, load>>
    BY <1>5 DEF TryAgain, CallStep
  <2> QED BY <1>0, <1>q, <1>m, <1>b, <2>1, CallsTyped
<1>6. ASSUME NEW t \in Threads, Breaks(t), UNCHANGED <<browsingVars, load>>
      PROVE  GeminiTypeOK' /\ BrowsingTypeOK' /\ MailingTypeOK' /\ RegInv' /\ load' \in Load
  <2>1. CallStep(t)
    BY <1>6 DEF Breaks, CallStep
  <2>2. MailingTypeOK'
    BY <1>0, <1>6, LettersTyped DEF Breaks, MailingTypeOK
  <2> QED BY <1>0, <1>b, <1>6, <2>1, <2>2, CallsTyped, BreaksAnswer
<1>7. ASSUME NEW r \in Requests, Disconnect(r), UNCHANGED <<browsingVars, load>>
      PROVE  GeminiTypeOK' /\ BrowsingTypeOK' /\ MailingTypeOK' /\ RegInv' /\ load' \in Load
  <2>1. gone' \subseteq Requests /\ gone \subseteq gone'
    BY <1>0, <1>7 DEF Disconnect, RegInv, RegistrationTypeOK
  <2>2. RegInv'
    BY <1>0, <1>7, <2>1, QuietAnswers DEF Disconnect
  <2>3. UNCHANGED <<geminiVars, mailingVars>>
    BY <1>7 DEF Disconnect
  <2> QED BY <1>0, <1>g, <1>m, <1>b, <1>7, <2>2, <2>3
<1>8. ASSUME NEW t \in Threads, Arrive(t)
      PROVE  GeminiTypeOK' /\ BrowsingTypeOK' /\ MailingTypeOK' /\ RegInv' /\ load' \in Load
  <2>1. CASE \E r \in load.registers : /\ RegisterBegin(t, r)
                                       /\ load' = [load EXCEPT !.registers = @ \ {r}]
                                       /\ UNCHANGED browsingVars
    <3>1. PICK r \in load.registers : /\ RegisterBegin(t, r)
                                      /\ load' = [load EXCEPT !.registers = @ \ {r}]
                                      /\ UNCHANGED browsingVars
      BY <2>1
    <3>2. r \in Requests
      BY <1>0 DEF Load
    <3>3. RegInv'
      BY <3>1, <3>2, BeginAnswers
    <3>4. UNCHANGED <<geminiVars, mailingVars>>
      BY <3>1 DEF RegisterBegin
    <3> QED BY <1>0, <1>g, <1>m, <1>b, <3>1, <3>3, <3>4, LoadsTyped
  <2>2. CASE /\ load.browses > 0 /\ load' = [load EXCEPT !.browses = @ - 1]
             /\ \E w \in Words : BrowseBegin(t, w)
             /\ UNCHANGED <<mailingVars, registrationVars>>
    <3>1. UNCHANGED geminiVars
      BY <2>2 DEF BrowseBegin
    <3> QED BY <1>0, <1>g, <1>q, <1>m, <2>2, <3>1, BrowseTyped, LoadsTyped
  <2>3. CASE /\ load.results # <<>> /\ load' = [load EXCEPT !.results = Tail(@)]
             /\ mail' = [mail EXCEPT ![t] = NewLetter("alert", Head(load.results))]
             /\ UNCHANGED <<geminiVars, browsingVars, ui, registrationVars>>
    <3>1. NewLetter("alert", Head(load.results)) \in Letter
      BY <1>0, <2>3, LettersTyped, LoadsTyped DEF Tables
    <3>2. MailingTypeOK'
      BY <1>0, <2>3, <3>1 DEF MailingTypeOK
    <3> QED BY <1>0, <1>g, <1>q, <1>b, <2>3, <3>2, LoadsTyped
  <2> QED BY <1>8, <2>1, <2>2, <2>3 DEF Arrive
<1>9. CASE UNCHANGED vars
  BY <1>0, <1>g, <1>q, <1>m, <1>b, <1>9 DEF vars
<1> QED BY <1>1, <1>2, <1>3, <1>4, <1>5, <1>6, <1>7, <1>8, <1>9 DEF Next, Work

LEMMA TypesAndAnswersInitially == Init => TypeOK /\ AnswerInv
<1> SUFFICES ASSUME Init PROVE TypeOK /\ AnswerInv
  OBVIOUS
<1>1. GeminiTypeOK
  <2>1. 0 \in 0..(MaxRetry - 1) /\ 0 \in 0..MaxFaults
    BY GeminiAssumption
  <2> QED BY <2>1 DEF Init, GeminiInit, GeminiTypeOK
<1>2. BrowsingTypeOK
  BY LookIdleTyped DEF Init, BrowsingInit, BrowsingTypeOK
<1>3. MailingTypeOK
  BY LettersTyped DEF Init, MailingInit, MailingTypeOK
<1>4. RegistrationTypeOK
  BY RegIdleTyped, RegistrationAssumption DEF Init, RegistrationInit, RegistrationTypeOK
<1>5. AnswerInv
  BY RegIdleTyped DEF Init, RegistrationInit, AnswerInv, AnswerIsTrue, RegAt, Active
<1>6. load \in Load
  BY ServingAssumption DEF Init
<1> QED BY <1>1, <1>2, <1>3, <1>4, <1>5, <1>6 DEF TypeOK

\* THEOREM: every variable has its type: no registration counts down its queries below none, no
\* counter of mails passes its limit, no row is written that is not there.
THEOREM ServingTyped == Spec => []TypeOK
<1>1. Init => TypeOK /\ AnswerInv
  BY TypesAndAnswersInitially
<1>2. TypeOK /\ AnswerInv /\ [Next]_vars => TypeOK' /\ AnswerInv'
  BY TypesAndAnswersKept
<1> QED BY <1>1, <1>2, PTL DEF Spec

\* THEOREM: a registration and its row agree from step to step.
THEOREM AnswersAlways == Spec => []AnswerInv
<1>1. Init => TypeOK /\ AnswerInv
  BY TypesAndAnswersInitially
<1>2. TypeOK /\ AnswerInv /\ [Next]_vars => TypeOK' /\ AnswerInv'
  BY TypesAndAnswersKept
<1> QED BY <1>1, <1>2, PTL DEF Spec

\* THEOREM: what a client has been told is true of the database, however requests of several
\* threads interleave with failures, disconnections and restarts (_persist_and_respond,
\* _stream_match).
THEOREM AnswersAreTrue == Spec => []AnswerIsTrue
<1>1. AnswerInv => AnswerIsTrue
  BY DEF AnswerInv
<1> QED BY <1>1, AnswersAlways, PTL

-------------------------------------------------------------------------------
(***************************************************************************)
(* Mail texts                                                              *)
(***************************************************************************)
LEMMA OneLetter ==
    ASSUME MailingTypeOK, TablesInv, NEW t \in Threads, NEW m,
           mail' = [mail EXCEPT ![t] = m],
           m.pc # "none" => m.try = m.lang \/ m.hurt,
           \A x \in ui' : x[1][2] = x[2]
    PROVE  TablesInv'
BY DEF TablesInv, MailingTypeOK, MailAt

LEMMA LettersStart ==
    /\ NoLetter.pc = "none"
    /\ \A table, lang : NewLetter(table, lang).try = NewLetter(table, lang).lang
    /\ \A m \in Letter : \A lang : /\ TableIn(m, lang).lang = m.lang /\ TableIn(m, lang).try = lang
                                   /\ TableIn(m, lang).hurt = m.hurt
BY DEF NoLetter, NewLetter, TableIn, Letter

LEMMA MailStepKeepsTables ==
    ASSUME MailingTypeOK, TablesInv, NEW t \in Threads, MailStep(t)
    PROVE  TablesInv'
<1>1. mail[t] \in Letter /\ \A x \in ui : x[1][2] = x[2]
  BY DEF MailingTypeOK, TablesInv
<1>2. mail[t].pc # "none" => mail[t].try = mail[t].lang \/ mail[t].hurt
  BY DEF TablesInv, MailAt
<1>3. CASE TableKnown(t)
  <2>1. PICK l \in AtHand(mail[t]) : mail' = [mail EXCEPT ![t] = TableIn(mail[t], l)]
    BY <1>3 DEF TableKnown
  <2>2. mail[t].pc # "none"
    BY <1>3 DEF TableKnown, MailAt
  <2>3. l = mail[t].try
    <3>1. (l = "ko" /\ mail[t].try = "ko") \/ <<Key(mail[t]), l>> \in ui
      BY <2>1 DEF AtHand
    <3>2. CASE <<Key(mail[t]), l>> \in ui
      <4>1. PICK x \in ui : x = <<Key(mail[t]), l>>
        BY <3>2
      <4>2. x[1] = Key(mail[t]) /\ x[2] = l
        BY <4>1
      <4>3. x[1][2] = mail[t].try
        BY <4>2 DEF Key
      <4> QED BY <1>1, <4>1, <4>2, <4>3
    <3> QED BY <3>1, <3>2
  <2>4. /\ TableIn(mail[t], l).lang = mail[t].lang /\ TableIn(mail[t], l).try = mail[t].try
        /\ TableIn(mail[t], l).hurt = mail[t].hurt
    BY <1>1, <2>3, LettersStart
  <2>5. ui' = ui
    BY <1>3 DEF TableKnown
  <2> QED BY <1>1, <1>2, <2>1, <2>2, <2>4, <2>5, OneLetter
<1>4. CASE TableTranslated(t)
  <2>1. /\ mail' = [mail EXCEPT ![t] = TableIn(mail[t], mail[t].try)] /\ mail[t].pc # "none"
        /\ ui' = ui \cup {<<Key(mail[t]), mail[t].try>>}
    BY <1>4 DEF TableTranslated, TableCalls, MailAt
  <2>2. /\ TableIn(mail[t], mail[t].try).lang = mail[t].lang
        /\ TableIn(mail[t], mail[t].try).try = mail[t].try
        /\ TableIn(mail[t], mail[t].try).hurt = mail[t].hurt
    BY <1>1, LettersStart
  <2>3. \A x \in ui' : x[1][2] = x[2]
    <3>1. PICK x : x = <<Key(mail[t]), mail[t].try>>
      OBVIOUS
    <3>2. x[1][2] = x[2]
      BY <3>1 DEF Key
    <3> QED BY <1>1, <2>1, <3>1, <3>2
  <2> QED BY <1>2, <2>1, <2>2, <2>3, OneLetter
<1>5. CASE TableFails(t)
  <2>1. PICK l : l = IF mail[t].try = "en" THEN "ko" ELSE "en"
    OBVIOUS
  <2>2. PICK m : m = [mail[t] EXCEPT !.hurt = TRUE, !.try = l]
    OBVIOUS
  <2>3. mail' = [mail EXCEPT ![t] = m] /\ ui' = ui
    BY <1>1, <1>5, <2>1, <2>2 DEF TableFails, Letter
  <2>4. m.hurt
    BY <1>1, <2>2 DEF Letter
  <2> QED BY <1>1, <2>3, <2>4, OneLetter
<1>6. CASE Localize(t)
  <2>1. PICK m : /\ mail' = [mail EXCEPT ![t] = m]
                 /\ \/ m = [mail[t] EXCEPT !.pc = "send"]
                    \/ m = [mail[t] EXCEPT !.pc = "send", !.local = FALSE, !.hurt = TRUE]
    BY <1>6 DEF Localize
  <2>2. mail[t].pc # "none" /\ ui' = ui
    BY <1>6 DEF Localize, LocalizeCalls, MailAt
  <2>3. m.try = mail[t].try /\ m.lang = mail[t].lang /\ (m.hurt \/ m.hurt = mail[t].hurt)
    BY <1>1, <2>1 DEF Letter
  <2> QED BY <1>1, <1>2, <2>1, <2>2, <2>3, OneLetter
<1> QED BY <1>3, <1>4, <1>5, <1>6 DEF MailStep

LEMMA TablesKept ==
    ASSUME TypeOK, AnswerInv, TablesInv, [Next]_vars
    PROVE  TablesInv'
<1>0. MailingTypeOK /\ \A x \in ui : x[1][2] = x[2]
  BY DEF TypeOK, TablesInv
<1>1. UNCHANGED mailingVars => TablesInv'
  BY DEF mailingVars, TablesInv, MailAt
<1>2. ASSUME NEW t \in Threads, MailStep(t) PROVE TablesInv'
  BY <1>0, <1>2, MailStepKeepsTables
<1>3. ASSUME NEW t \in Threads, mail' = [mail EXCEPT ![t] = NoLetter], ui' = ui PROVE TablesInv'
  BY <1>0, <1>3, LettersStart, OneLetter
<1>4. ASSUME NEW t \in Threads, NEW table, NEW lang,
             mail' = [mail EXCEPT ![t] = NewLetter(table, lang)], ui' = ui
      PROVE  TablesInv'
  <2>1. PICK m : m = NewLetter(table, lang)
    OBVIOUS
  <2>2. m.try = m.lang
    BY <2>1, LettersStart
  <2> QED BY <1>0, <1>4, <2>1, <2>2, OneLetter
<1>5. CASE Restart
  <2>1. ui' = {} /\ mail' = [t \in Threads |-> NoLetter]
    BY <1>5 DEF Restart
  <2>2. \A t \in Threads : mail'[t].pc = "none"
    BY <2>1, LettersStart
  <2> QED BY <2>1, <2>2 DEF TablesInv, MailAt
<1>6. ASSUME NEW t \in Threads, RegisterStep(t) PROVE TablesInv'
  <2>1. CASE SetPending(t)
    BY <1>4, <2>1 DEF SetPending
  <2>2. CASE SendLink(t)
    BY <1>3, <2>2 DEF SendLink, Post
  <2>3. CASE ~SetPending(t) /\ ~SendLink(t)
    <3>1. UNCHANGED mailingVars
      BY <1>6, <2>3 DEF RegisterStep, Extract, Route, Fanout, Embed, Find, SearchEnds, Grade, Fetch,
                        Compare, VisualEnds, Resume, Store, CountMail, Answer, mailingVars
    <3> QED BY <1>1, <3>1
  <2> QED BY <2>1, <2>2, <2>3
<1>7. ASSUME NEW t \in Threads, SendResult(t) PROVE TablesInv'
  BY <1>3, <1>7 DEF SendResult, Post
<1>8. ASSUME NEW t \in Threads, Breaks(t) PROVE TablesInv'
  BY <1>3, <1>8 DEF Breaks
<1>9. ASSUME NEW t \in Threads, Arrive(t) PROVE TablesInv'
  <2>1. \/ UNCHANGED mailingVars
        \/ mail' = [mail EXCEPT ![t] = NewLetter("alert", Head(load.results))] /\ ui' = ui
    BY <1>9 DEF Arrive, RegisterBegin
  <2> QED BY <1>1, <1>4, <2>1
<1>a. ASSUME NEW t \in Threads, TryAgain(t) PROVE TablesInv'
  BY <1>1, <1>a DEF TryAgain
<1>b. ASSUME NEW r \in Requests, Disconnect(r) PROVE TablesInv'
  BY <1>1, <1>b DEF Disconnect
<1>c. ASSUME NEW t \in Threads, BrowseStep(t), UNCHANGED <<mailingVars, registrationVars, load>>
      PROVE  TablesInv'
  BY <1>1, <1>c
<1>d. CASE UNCHANGED vars
  BY <1>1, <1>d DEF vars
<1> QED BY <1>2, <1>5, <1>6, <1>7, <1>8, <1>9, <1>a, <1>b, <1>c, <1>d, Steps

\* THEOREM: a mail text in a fallback language is never kept for a later mail: whoever gets one,
\* a call for that very mail has failed (_table, _UI_CACHE).
THEOREM FallbackIsForgotten == Spec => []FallbackIsNotKept
<1>1. Init => TablesInv
  BY LettersTyped DEF Init, MailingInit, TablesInv, MailAt
<1>2. TypeOK /\ AnswerInv /\ TablesInv /\ [Next]_vars => TablesInv'
  BY TablesKept
<1>3. TablesInv => FallbackIsNotKept
  BY DEF TablesInv, FallbackIsNotKept, MailAt
<1> QED BY <1>1, <1>2, <1>3, ServingTyped, AnswersAlways, PTL DEF Spec

-------------------------------------------------------------------------------
(***************************************************************************)
(* Threads in numbers                                                      *)
(***************************************************************************)
LEMMA NoMore ==
    ASSUME NEW S, IsFiniteSet(S), NEW T \in SUBSET S
    PROVE  /\ IsFiniteSet(T) /\ Cardinality(T) \in Nat /\ Cardinality(S) \in Nat
           /\ Cardinality(T) <= Cardinality(S)
BY FS_Subset, FS_CardinalityType

LEMMA AtMostOneMore ==
    ASSUME NEW S, IsFiniteSet(S), NEW x, NEW T \in SUBSET (S \cup {x})
    PROVE  /\ IsFiniteSet(T) /\ Cardinality(T) \in Nat /\ Cardinality(S) \in Nat
           /\ Cardinality(T) <= Cardinality(S) + 1
<1>1. IsFiniteSet(S \cup {x}) /\ Cardinality(S) \in Nat
  BY FS_AddElement, FS_CardinalityType
<1>2. Cardinality(S \cup {x}) = IF x \in S THEN Cardinality(S) ELSE Cardinality(S) + 1
  BY FS_AddElement
<1>3. Cardinality(S \cup {x}) <= Cardinality(S) + 1
  BY <1>1, <1>2
<1> QED BY <1>1, <1>3, NoMore

LEMMA OneLess ==
    ASSUME NEW S, IsFiniteSet(S), NEW x \in S
    PROVE  /\ Cardinality(S \ {x}) \in Nat /\ Cardinality(S) \in Nat
           /\ Cardinality(S \ {x}) + 1 = Cardinality(S)
<1>1. Cardinality(S \ {x}) = Cardinality(S) - 1
  BY FS_RemoveElement
<1>2. Cardinality(S \ {x}) \in Nat /\ Cardinality(S) \in Nat
  BY FS_RemoveElement, FS_CardinalityType
<1> QED BY <1>1, <1>2

LEMMA SomeThreads ==
    ASSUME NEW S \in SUBSET Threads
    PROVE  /\ IsFiniteSet(S) /\ Cardinality(S) \in Nat
           /\ Late \in Nat /\ Cardinality(S) <= Late + 1
           /\ S # Threads => Cardinality(S) <= Late
<1>1. IsFiniteSet(Threads) /\ Cardinality(Threads) \in Nat /\ Cardinality(Threads) # 0
  BY GeminiAssumption, FS_CardinalityType, FS_EmptySet
<1>2. IsFiniteSet(S) /\ Cardinality(S) <= Cardinality(Threads)
      /\ (Cardinality(S) = Cardinality(Threads) => S = Threads)
  BY <1>1, FS_Subset
<1>3. Cardinality(S) \in Nat
  BY <1>2, FS_CardinalityType
<1> QED BY <1>1, <1>2, <1>3 DEF Late

-------------------------------------------------------------------------------
(***************************************************************************)
(* The keyword cache                                                       *)
(***************************************************************************)
LEMMA CacheTypes ==
    ASSUME TypeOK, CacheInv
    PROVE  /\ late \in Nat /\ clears \in Nat /\ Late \in Nat /\ CacheMax \in Nat /\ CacheMax > 0
           /\ look \in [Threads -> Look]
           /\ clears * Late \in Nat
           /\ IsFiniteSet(cache) /\ Cardinality(cache) \in Nat
           /\ Missing \in SUBSET Threads /\ Putting \in SUBSET Threads
           /\ IsFiniteSet(Missing) /\ Cardinality(Missing) \in Nat
           /\ IsFiniteSet(Putting) /\ Cardinality(Putting) \in Nat
           /\ late + Cardinality(Missing) <= clears * Late
           /\ Cardinality(cache) + Cardinality(Putting) <= CacheMax + Late
<1>1. late \in Nat /\ clears \in Nat /\ CacheMax \in Nat /\ CacheMax > 0 /\ look \in [Threads -> Look]
  BY BrowsingAssumption DEF TypeOK, BrowsingTypeOK
<1>2. Missing \in SUBSET Threads /\ Putting \in SUBSET Threads
  BY DEF Missing, Putting
<1>3. /\ Late \in Nat
      /\ IsFiniteSet(Missing) /\ Cardinality(Missing) \in Nat
      /\ IsFiniteSet(Putting) /\ Cardinality(Putting) \in Nat
  BY <1>2, SomeThreads
<1>4. clears * Late \in Nat
  BY <1>1, <1>3
<1>5. IsFiniteSet(cache) /\ Cardinality(cache) \in Nat
  BY FS_CardinalityType DEF CacheInv
<1> QED BY <1>1, <1>2, <1>3, <1>4, <1>5 DEF CacheInv

\* A thread looks on while the cache stays as it is or grows.
LEMMA LooksOn ==
    ASSUME TypeOK, NEW t \in Threads, NEW l, look' = [look EXCEPT ![t] = l], cache \subseteq cache'
    PROVE  /\ Missing' \in SUBSET (Missing \cup {t}) /\ Putting' \in SUBSET (Putting \cup {t})
           /\ l.pc \notin {"read", "test"} \/ (l.pc = "test" /\ l.paid) \/ l.word \in cache' =>
                 Missing' \in SUBSET (Missing \ {t})
           /\ l.pc # "put" => Putting' \in SUBSET (Putting \ {t})
<1>1. /\ \A u \in Threads \ {t} : look'[u] = look[u]
      /\ look'[t] = l
  BY DEF TypeOK, BrowsingTypeOK
<1> QED BY <1>1 DEF Missing, Putting, LookAt

\* A step after which the thread misses nothing and puts nothing.
LEMMA LooksOnQuietly ==
    ASSUME TypeOK, CacheInv, NEW t \in Threads, NEW l, look' = [look EXCEPT ![t] = l],
           UNCHANGED <<cache, clears, late>>, l.pc # "put",
           l.pc \notin {"read", "test"} \/ (l.pc = "test" /\ l.paid) \/ l.word \in cache
    PROVE  CacheInv'
<1>1. Missing' \in SUBSET Missing /\ Putting' \in SUBSET Putting
  BY LooksOn
<1>2. /\ Cardinality(Missing') \in Nat /\ Cardinality(Missing') <= Cardinality(Missing)
      /\ Cardinality(Putting') \in Nat /\ Cardinality(Putting') <= Cardinality(Putting)
  BY <1>1, CacheTypes, NoMore
<1>3. /\ late + Cardinality(Missing') <= clears * Late
      /\ Cardinality(cache) + Cardinality(Putting') <= CacheMax + Late
  BY <1>2, CacheTypes
<1> QED BY <1>3, CacheTypes DEF CacheInv, Late

\* One that finds the word gone: it has been missing it.
LEMMA LooksInVain ==
    ASSUME TypeOK, CacheInv, NEW t \in Threads, NEW l, look' = [look EXCEPT ![t] = l],
           UNCHANGED <<cache, clears>>, late' = late + 1, t \in Missing,
           l.pc \notin {"put", "read", "test"}
    PROVE  CacheInv'
<1>1. Missing' \in SUBSET (Missing \ {t}) /\ Putting' \in SUBSET Putting
  BY LooksOn
<1>2. /\ Cardinality(Missing \ {t}) \in Nat /\ IsFiniteSet(Missing \ {t})
      /\ Cardinality(Missing \ {t}) + 1 = Cardinality(Missing)
  BY CacheTypes, OneLess, NoMore
<1>3. /\ Cardinality(Missing') \in Nat /\ Cardinality(Missing') <= Cardinality(Missing \ {t})
      /\ Cardinality(Putting') \in Nat /\ Cardinality(Putting') <= Cardinality(Putting)
  BY <1>1, <1>2, CacheTypes, NoMore
<1>4. /\ (late + 1) + Cardinality(Missing') <= clears * Late
      /\ Cardinality(cache) + Cardinality(Putting') <= CacheMax + Late
  BY <1>2, <1>3, CacheTypes
<1> QED BY <1>4, CacheTypes DEF CacheInv, Late

LEMMA LookFields ==
    ASSUME TypeOK, NEW t \in Threads
    PROVE  /\ look[t] \in Look /\ look[t].word \in Words
           /\ \A pc \in LookPcs : LET l == [look[t] EXCEPT !.pc = pc]
                                  IN  l.pc = pc /\ l.word = look[t].word /\ l.paid = look[t].paid
           /\ [look[t] EXCEPT !.pc = "test", !.paid = TRUE].pc = "test"
           /\ [look[t] EXCEPT !.pc = "test", !.paid = TRUE].paid = TRUE
BY DEF TypeOK, BrowsingTypeOK, Look

LEMMA TestKeepsCache ==
    ASSUME TypeOK, CacheInv, NEW t \in Threads, Test(t)
    PROVE  CacheInv'
<1>1. UNCHANGED <<cache, clears>> /\ look[t].pc = "test"
  BY DEF Test, LookAt
<1>2. CASE look[t].word \in cache
  <2>1. PICK l : l = [look[t] EXCEPT !.pc = "read"]
    OBVIOUS
  <2>2. l.word \in cache /\ l.pc = "read"
    BY <1>2, <2>1, LookFields DEF LookPcs
  <2>3. look' = [look EXCEPT ![t] = l] /\ late' = late
    BY <1>2, <2>1 DEF Test, LookOn
  <2> QED BY <1>1, <2>2, <2>3, LooksOnQuietly
<1>3. CASE look[t].word \notin cache
  <2>1. PICK l : l = [look[t] EXCEPT !.pc = "call"]
    OBVIOUS
  <2>2. l.pc = "call"
    BY <2>1, LookFields DEF LookPcs
  <2>3. look' = [look EXCEPT ![t] = l] /\ late' = IF look[t].paid THEN late ELSE late + 1
    BY <1>3, <2>1 DEF Test, LookOn
  <2>4. CASE look[t].paid
    BY <1>1, <2>2, <2>3, <2>4, LooksOnQuietly
  <2>5. CASE ~look[t].paid
    <3>1. t \in Missing
      BY <1>1, <1>3, <2>5 DEF Missing, LookAt
    <3> QED BY <1>1, <2>2, <2>3, <2>5, <3>1, LooksInVain
  <2> QED BY <2>4, <2>5
<1> QED BY <1>2, <1>3

LEMMA ReadKeepsCache ==
    ASSUME TypeOK, CacheInv, NEW t \in Threads, Read(t)
    PROVE  CacheInv'
<1>1. /\ UNCHANGED <<cache, clears>> /\ look[t].pc = "read" /\ look' = [look EXCEPT ![t] = LookIdle]
      /\ late' = IF look[t].word \in cache THEN late ELSE late + 1
  BY DEF Read, LookAt, LookDone
<1>2. CASE look[t].word \in cache
  BY <1>1, <1>2, LookIdleTyped, LooksOnQuietly
<1>3. CASE look[t].word \notin cache
  <2>1. t \in Missing
    BY <1>1, <1>3 DEF Missing, LookAt
  <2> QED BY <1>1, <1>3, <2>1, LookIdleTyped, LooksInVain
<1> QED BY <1>2, <1>3

\* A thread that has found room comes to put its word; so may every other thread.
LEMMA SizeKeepsCache ==
    ASSUME TypeOK, CacheInv, NEW t \in Threads, Size(t)
    PROVE  CacheInv'
<1>1. PICK l : l = [look[t] EXCEPT !.pc = IF Cardinality(cache) >= CacheMax THEN "clear" ELSE "put"]
  OBVIOUS
<1>2. /\ UNCHANGED <<cache, clears, late>> /\ look' = [look EXCEPT ![t] = l]
      /\ l.pc = IF Cardinality(cache) >= CacheMax THEN "clear" ELSE "put"
  BY <1>1, LookFields DEF Size, LookOn, LookPcs
<1>3. CASE Cardinality(cache) >= CacheMax
  BY <1>2, <1>3, LooksOnQuietly
<1>4. CASE ~(Cardinality(cache) >= CacheMax)
  <2>1. Missing' \in SUBSET Missing
    BY <1>2, <1>4, LooksOn
  <2>2. Cardinality(Missing') \in Nat /\ Cardinality(Missing') <= Cardinality(Missing)
    BY <2>1, CacheTypes, NoMore
  <2>3. Putting' \in SUBSET Threads
    BY DEF Putting
  <2>4. Cardinality(Putting') \in Nat /\ Cardinality(Putting') <= Late + 1
    BY <2>3, SomeThreads
  <2>5. /\ late + Cardinality(Missing') <= clears * Late
        /\ Cardinality(cache) + Cardinality(Putting') <= CacheMax + Late
    BY <1>4, <2>2, <2>4, CacheTypes
  <2> QED BY <1>2, <2>5, CacheTypes DEF CacheInv, Late
<1> QED BY <1>3, <1>4

\* Whoever empties the cache makes every other thread miss its word, at most.
LEMMA ClearKeepsCache ==
    ASSUME TypeOK, CacheInv, NEW t \in Threads, Clear(t)
    PROVE  CacheInv'
<1>1. /\ cache' = {} /\ clears' = clears + 1 /\ late' = late
      /\ look' = [look EXCEPT ![t] = [look[t] EXCEPT !.pc = "put"]]
  BY DEF Clear, LookOn
<1>2. Missing' \in SUBSET Threads /\ Putting' \in SUBSET Threads /\ Missing' # Threads
  <2>1. look'[t].pc = "put"
    BY <1>1, LookFields DEF TypeOK, BrowsingTypeOK, LookPcs
  <2>2. t \notin Missing'
    BY <2>1 DEF Missing, LookAt
  <2> QED BY <2>2 DEF Missing, Putting
<1>3. /\ Cardinality(Missing') \in Nat /\ Cardinality(Missing') <= Late
      /\ Cardinality(Putting') \in Nat /\ Cardinality(Putting') <= Late + 1
  BY <1>2, SomeThreads
<1>4. (clears + 1) * Late = clears * Late + Late
  BY CacheTypes
<1>5. late + Cardinality(Missing') <= (clears + 1) * Late
  <2>1. late <= clears * Late
    BY CacheTypes
  <2> QED BY <1>3, <1>4, <2>1, CacheTypes
<1>6. IsFiniteSet({}) /\ Cardinality({}) = 0
  BY FS_EmptySet
<1>7. 0 + Cardinality(Putting') <= CacheMax + Late
  BY <1>3, CacheTypes
<1> QED BY <1>1, <1>5, <1>6, <1>7 DEF CacheInv, Late

LEMMA PutKeepsCache ==
    ASSUME TypeOK, CacheInv, NEW t \in Threads, Put(t)
    PROVE  CacheInv'
<1>1. /\ cache' = cache \cup {look[t].word} /\ UNCHANGED <<clears, late>> /\ t \in Putting
      /\ look' = [look EXCEPT ![t] = LookIdle]
  BY DEF Put, LookDone, Putting
<1>2. Missing' \in SUBSET Missing /\ Putting' \in SUBSET (Putting \ {t})
  BY <1>1, LookIdleTyped, LooksOn
<1>3. Cardinality(Missing') \in Nat /\ Cardinality(Missing') <= Cardinality(Missing)
  BY <1>2, CacheTypes, NoMore
<1>4. /\ Cardinality(Putting \ {t}) \in Nat /\ IsFiniteSet(Putting \ {t})
      /\ Cardinality(Putting \ {t}) + 1 = Cardinality(Putting)
  BY <1>1, CacheTypes, OneLess, NoMore
<1>5. Cardinality(Putting') \in Nat /\ Cardinality(Putting') <= Cardinality(Putting \ {t})
  BY <1>2, <1>4, NoMore
<1>6. /\ IsFiniteSet(cache') /\ Cardinality(cache') \in Nat
      /\ Cardinality(cache') <= Cardinality(cache) + 1
  BY <1>1, CacheTypes, AtMostOneMore
<1>7. /\ late + Cardinality(Missing') <= clears * Late
      /\ Cardinality(cache') + Cardinality(Putting') <= CacheMax + Late
  BY <1>3, <1>4, <1>5, <1>6, CacheTypes
<1> QED BY <1>1, <1>6, <1>7 DEF CacheInv, Late

LEMMA BrowseKeepsCache ==
    ASSUME TypeOK, CacheInv, NEW t \in Threads,
           BrowseStep(t) \/ \E w \in Words : BrowseBegin(t, w)
    PROVE  CacheInv'
<1>1. ASSUME NEW w \in Words, BrowseBegin(t, w) PROVE CacheInv'
  <2>1. PICK l : l = [LookIdle EXCEPT !.pc = "need", !.word = w]
    OBVIOUS
  <2>2. l.pc = "need" /\ look' = [look EXCEPT ![t] = l] /\ UNCHANGED <<cache, clears, late>>
    BY <1>1, <2>1 DEF BrowseBegin, LookIdle
  <2> QED BY <2>2, LooksOnQuietly
<1>2. CASE Need(t)
  <2>1. PICK l : l = [look[t] EXCEPT !.pc = IF look[t].word \in cache THEN "test" ELSE "charge"]
    OBVIOUS
  <2>2. /\ l.pc = IF look[t].word \in cache THEN "test" ELSE "charge"
        /\ l.word = look[t].word /\ look' = [look EXCEPT ![t] = l] /\ UNCHANGED <<cache, clears, late>>
    BY <1>2, <2>1, LookFields DEF Need, LookOn, LookPcs
  <2> QED BY <2>2, LooksOnQuietly
<1>3. CASE Charge(t)
  <2>1. PICK l : /\ look' = [look EXCEPT ![t] = l]
                 /\ l = LookIdle \/ l = [look[t] EXCEPT !.pc = "test", !.paid = TRUE]
    <3>1. \/ look' = [look EXCEPT ![t] = LookIdle]
          \/ look' = [look EXCEPT ![t] = [look[t] EXCEPT !.pc = "test", !.paid = TRUE]]
      BY <1>3 DEF Charge, LookDone
    <3> QED BY <3>1
  <2>2. UNCHANGED <<cache, clears, late>>
    BY <1>3 DEF Charge
  <2>3. l.pc = "idle" \/ (l.pc = "test" /\ l.paid)
    BY <2>1, LookIdleTyped, LookFields
  <2> QED BY <2>1, <2>2, <2>3, LooksOnQuietly
<1>4. CASE Translate(t)
  <2>1. PICK l : /\ look' = [look EXCEPT ![t] = l]
                 /\ l = LookIdle \/ l = [look[t] EXCEPT !.pc = "size"]
    BY <1>4 DEF Translate, LookDone, LookOn
  <2>2. UNCHANGED <<cache, clears, late>>
    BY <1>4 DEF Translate
  <2>3. [look[t] EXCEPT !.pc = "size"].pc = "size"
    BY LookFields DEF LookPcs
  <2>4. l.pc = "idle" \/ l.pc = "size"
    BY <2>1, <2>3, LookIdleTyped
  <2> QED BY <2>1, <2>2, <2>4, LooksOnQuietly
<1> QED BY <1>1, <1>2, <1>3, <1>4, TestKeepsCache, ReadKeepsCache, SizeKeepsCache, ClearKeepsCache,
           PutKeepsCache DEF BrowseStep

LEMMA CacheKept ==
    ASSUME TypeOK, CacheInv, [Next]_vars
    PROVE  CacheInv'
<1>1. UNCHANGED browsingVars => CacheInv'
  BY DEF browsingVars, CacheInv, Missing, Putting, LookAt, Late
<1>2. CASE Restart
  <2>1. /\ cache' = {} /\ late' = 0 /\ clears' = 0 /\ look' = [t \in Threads |-> LookIdle]
    BY <1>2 DEF Restart
  <2>2. Missing' = {} /\ Putting' = {}
    BY <2>1, LookIdleTyped DEF Missing, Putting, LookAt
  <2>3. IsFiniteSet({}) /\ Cardinality({}) = 0
    BY FS_EmptySet
  <2>4. 0 + 0 <= 0 * Late /\ 0 + 0 <= CacheMax + Late
    BY CacheTypes
  <2> QED BY <2>1, <2>2, <2>3, <2>4 DEF CacheInv, Late
<1>3. ASSUME NEW t \in Threads, Arrive(t) PROVE CacheInv'
  BY <1>1, <1>3, BrowseKeepsCache DEF Arrive
<1>4. ASSUME NEW t \in Threads, BrowseStep(t) PROVE CacheInv'
  BY <1>4, BrowseKeepsCache
<1>5. ASSUME NEW t \in Threads, TryAgain(t) PROVE CacheInv'
  BY <1>1, <1>5 DEF TryAgain
<1>6. CASE UNCHANGED vars
  BY <1>1, <1>6 DEF vars
<1> QED BY <1>1, <1>2, <1>3, <1>4, <1>5, <1>6, Steps

\* THEOREM: a client pays nothing for a word it was told is translated and that is gone, or meets
\* an error, only when the cache was emptied in between, and each emptying does so to each other
\* thread at most once; threads that find room together overfill the cache by a word each
\* (needs_translation, translate_keyword).
THEOREM CacheMissesAreBounded == Spec => []CacheMissesBounded
<1>1. Init => CacheInv
  <2> SUFFICES ASSUME Init PROVE CacheInv
    OBVIOUS
  <2>1. /\ cache = {} /\ late = 0 /\ clears = 0 /\ Missing = {} /\ Putting = {}
    BY LookIdleTyped DEF Init, BrowsingInit, Missing, Putting, LookAt
  <2>2. IsFiniteSet({}) /\ Cardinality({}) = 0
    BY FS_EmptySet
  <2>3. Late \in Nat
    BY SomeThreads
  <2>4. 0 + 0 <= 0 * Late /\ 0 + 0 <= CacheMax + Late
    BY <2>3, BrowsingAssumption
  <2> QED BY <2>1, <2>2, <2>4 DEF CacheInv
<1>2. TypeOK /\ CacheInv /\ [Next]_vars => CacheInv'
  BY CacheKept
<1>3. TypeOK /\ CacheInv => CacheMissesBounded
  <2> SUFFICES ASSUME TypeOK, CacheInv PROVE CacheMissesBounded
    OBVIOUS
  <2> QED BY CacheTypes DEF CacheMissesBounded
<1> QED BY <1>1, <1>2, <1>3, ServingTyped, PTL DEF Spec

-------------------------------------------------------------------------------
(***************************************************************************)
(* What a registration costs                                               *)
(***************************************************************************)
LEMMA WorkTypes ==
    ASSUME TypeOK, NEW t \in Threads
    PROVE  /\ posts[t] \in Nat /\ faults \in Nat /\ look[t] \in Look /\ mail[t] \in Letter
           /\ reg[t] \in Reg /\ Made(reg[t]) \in Int
<1>1. faults \in Nat
  BY GeminiAssumption DEF TypeOK, GeminiTypeOK
<1> QED BY <1>1, MadeIsInt DEF TypeOK, GeminiTypeOK, BrowsingTypeOK, MailingTypeOK, RegistrationTypeOK

\* Nothing happens to the other threads.
Elsewhere(t) == \A u \in Threads \ {t} :
    /\ look'[u] = look[u] /\ reg'[u] = reg[u] /\ mail'[u] = mail[u] /\ posts'[u] = posts[u]

LEMMA WorkNext ==
    ASSUME \A t \in Threads : Works(look'[t], reg'[t], mail'[t], posts'[t], faults')
    PROVE  WorkInv'
BY DEF WorkInv, Works, Made, Ahead, Photos

LEMMA OneWorks ==
    ASSUME TypeOK, WorkInv, NEW t \in Threads, Elsewhere(t), faults <= faults', faults' \in Nat,
           Works(look'[t], reg'[t], mail'[t], posts'[t], faults')
    PROVE  WorkInv'
<1> SUFFICES ASSUME NEW u \in Threads \ {t}
             PROVE  Works(look'[u], reg'[u], mail'[u], posts'[u], faults')
  BY WorkNext
<1>1. /\ look'[u] = look[u] /\ reg'[u] = reg[u] /\ mail'[u] = mail[u] /\ posts'[u] = posts[u]
  BY DEF Elsewhere
<1>2. Works(look[u], reg[u], mail[u], posts[u], faults)
  BY DEF WorkInv
<1>3. /\ posts[u] \in Nat /\ faults \in Nat /\ Made(reg[u]) \in Int
  BY WorkTypes
<1> QED BY <1>1, <1>2, <1>3 DEF Works

\* The calls of a thread touch no other thread's.
LEMMA CallsOfOne ==
    ASSUME TypeOK, NEW t \in Threads, CallStep(t)
    PROVE  /\ \A u \in Threads \ {t} : posts'[u] = posts[u]
           /\ faults <= faults' /\ faults' \in Nat /\ faults \in Nat
           /\ UNCHANGED geminiVars => posts'[t] = posts[t] /\ faults' = faults
           /\ Reply(t) => posts'[t] = posts[t] + 1 /\ faults' = faults
           /\ NoReply(t) \/ Retry(t) => posts'[t] = posts[t] + 1 /\ faults' = faults + 1
           /\ Rest(t) => posts'[t] = 0
<1>1. /\ \A u \in Threads \ {t} : posts'[u] = posts[u]
      /\ UNCHANGED geminiVars => posts'[t] = posts[t] /\ faults' = faults
      /\ Reply(t) => posts'[t] = posts[t] + 1 /\ faults' = faults
      /\ NoReply(t) \/ Retry(t) => posts'[t] = posts[t] + 1 /\ faults' = faults + 1
      /\ Rest(t) => posts'[t] = 0
  <2>1. posts \in [Threads -> Nat]
    BY DEF TypeOK, GeminiTypeOK
  <2> QED BY <2>1 DEF CallStep, geminiVars, Reply, NoReply, Retry, Return, Rest, Posted, Fault
<1>2. faults <= faults' /\ faults' \in 0..MaxFaults /\ faults \in Nat
  BY CallsTyped DEF TypeOK, GeminiTypeOK
<1>3. faults' \in Nat
  BY <1>2, GeminiAssumption
<1> QED BY <1>1, <1>2, <1>3

LEMMA MoveWorks ==
    ASSUME TypeOK, WorkInv, NEW t \in Threads, NEW rg \in Reg, Moves(t, rg), Counts(t, rg),
           UNCHANGED browsingVars
    PROVE  WorkInv'
<1>1. CallStep(t)
  BY DEF Counts, CallStep
<1>2. /\ look' = look /\ mail' = mail /\ reg' = [reg EXCEPT ![t] = rg] /\ reg'[t] = rg
      /\ reg[t].pc \notin {"idle", "mail"} /\ rg.pc \notin {"idle", "mail"}
      /\ \A u \in Threads \ {t} : reg'[u] = reg[u]
  BY DEF Moves, browsingVars, mailingVars, BeforeRow, TypeOK, RegistrationTypeOK
<1>3. Elsewhere(t)
  BY <1>1, <1>2, CallsOfOne DEF Elsewhere
<1>4. Works(look[t], reg[t], mail[t], posts[t], faults)
  BY DEF WorkInv
<1>5. look[t].pc = "idle" /\ mail[t].pc = "none" /\ posts[t] <= Made(reg[t]) + faults
  BY <1>2, <1>4, WorkTypes DEF Works
<1>6. posts'[t] <= Made(rg) + faults'
  BY <1>1, <1>5, WorkTypes, MadeIsInt, CallsOfOne DEF Counts
<1>7. Works(look'[t], reg'[t], mail'[t], posts'[t], faults')
  <2>1. Made(rg) \in Int /\ faults' \in Nat
    BY <1>1, MadeIsInt, CallsOfOne
  <2> QED BY <1>2, <1>5, <1>6, <2>1 DEF Works
<1> QED BY <1>1, <1>3, <1>7, CallsOfOne, OneWorks

\* A registration is over, and what it has cost is of no interest any more.
LEMMA RestWorks ==
    ASSUME TypeOK, WorkInv, NEW t \in Threads, Rest(t), UNCHANGED faults \/ Fault,
           reg' = [reg EXCEPT ![t] = RegIdle], UNCHANGED browsingVars, reg[t].pc # "idle",
           mail' = [mail EXCEPT ![t] = NoLetter] \/ (mail' = mail /\ reg[t].pc # "mail")
    PROVE  WorkInv'
<1>1. CallStep(t)
  BY DEF CallStep
<1>2. Works(look[t], reg[t], mail[t], posts[t], faults)
  BY DEF WorkInv
<1>3. /\ look' = look /\ reg'[t] = RegIdle
      /\ \A u \in Threads \ {t} : reg'[u] = reg[u] /\ mail'[u] = mail[u]
      /\ mail'[t].pc = "none"
  BY <1>2, LettersTyped DEF browsingVars, TypeOK, RegistrationTypeOK, MailingTypeOK, Works
<1>4. Elsewhere(t)
  BY <1>1, <1>3, CallsOfOne DEF Elsewhere
<1>5. Works(look'[t], reg'[t], mail'[t], posts'[t], faults')
  BY <1>1, <1>3, CallsOfOne, RegIdleTyped DEF Works
<1> QED BY <1>1, <1>4, <1>5, CallsOfOne, OneWorks

\* A step between the agent and the answer, with no call.
LEMMA StepWorks ==
    ASSUME TypeOK, WorkInv, NEW t \in Threads, NEW rg \in Reg, reg' = [reg EXCEPT ![t] = rg],
           UNCHANGED <<mailingVars, geminiVars, browsingVars>>,
           reg[t].pc \notin {"idle", "mail"}, rg.pc \notin {"idle", "mail"},
           Made(reg[t]) <= Made(rg)
    PROVE  WorkInv'
<1>1. CallStep(t)
  BY DEF CallStep
<1>2. Works(look[t], reg[t], mail[t], posts[t], faults)
  BY DEF WorkInv
<1>3. /\ look' = look /\ mail' = mail /\ posts' = posts /\ faults' = faults /\ reg'[t] = rg
      /\ \A u \in Threads \ {t} : reg'[u] = reg[u]
  BY DEF browsingVars, mailingVars, geminiVars, TypeOK, RegistrationTypeOK
<1>4. Elsewhere(t)
  BY <1>3 DEF Elsewhere
<1>5. Works(look'[t], reg'[t], mail'[t], posts'[t], faults')
  BY <1>2, <1>3, WorkTypes, MadeIsInt DEF Works
<1> QED BY <1>1, <1>4, <1>5, CallsOfOne, OneWorks

LEMMA StoreWorks ==
    ASSUME TypeOK, AnswerInv, WorkInv, NEW t \in Threads, Store(t), UNCHANGED browsingVars
    PROVE  WorkInv'
<1>1. /\ reg[t].pc = "store" /\ UNCHANGED <<mailingVars, geminiVars>>
  BY DEF Store, RegAt
<1>2. PICK rg : rg = [RegIdle EXCEPT !.pc = IF Address(t) = None THEN "answer" ELSE "limit",
                                     !.r = reg[t].r]
  OBVIOUS
<1>3. reg' = [reg EXCEPT ![t] = rg]
  BY <1>2 DEF Store, Go
<1>4. rg \in Reg /\ rg.r = reg[t].r /\ rg.pc \in {"answer", "limit"}
  BY <1>2, RegIdleTyped, WorkTypes DEF Reg, RegPcs
<1>5. /\ Ahead(reg[t]) = "store" /\ Ahead(rg) \in {"answer", "limit"} /\ Photos(rg) = Photos(reg[t])
  BY <1>1, <1>4 DEF Ahead, Photos
<1>6. /\ Made(reg[t]) = 3 + MaxQueries + Photos(reg[t])
      /\ Made(rg) = 3 + MaxQueries + Photos(reg[t]) \/ Made(rg) = 4 + MaxQueries + Photos(reg[t])
  BY <1>5, MadeAt
<1>7. Made(reg[t]) <= Made(rg)
  BY <1>6, AgentConstants, PhotosAreFew
<1> QED BY <1>1, <1>3, <1>4, <1>7, StepWorks

LEMMA CountMailWorks ==
    ASSUME TypeOK, WorkInv, NEW t \in Threads, CountMail(t), UNCHANGED browsingVars
    PROVE  WorkInv'
<1>1. /\ reg[t].pc = "limit" /\ UNCHANGED <<mailingVars, geminiVars>> /\ reg[t] \in Reg
  BY WorkTypes DEF CountMail, RegAt
<1>2. PICK pc \in {"pending", "answer"} : reg' = [reg EXCEPT ![t] = [reg[t] EXCEPT !.pc = pc]]
  BY DEF CountMail, Go
<1>3. PICK rg : rg = [reg[t] EXCEPT !.pc = pc]
  OBVIOUS
<1>4. rg \in Reg /\ rg.r = reg[t].r /\ rg.pc = pc
  BY <1>1, <1>3 DEF Reg, RegPcs
<1>5. /\ Ahead(reg[t]) = "limit" /\ Ahead(rg) \in {"pending", "answer"}
      /\ Photos(rg) = Photos(reg[t])
  BY <1>1, <1>4 DEF Ahead, Photos
<1>6. /\ Made(reg[t]) = 3 + MaxQueries + Photos(reg[t])
      /\ Made(rg) = 3 + MaxQueries + Photos(reg[t]) \/ Made(rg) = 4 + MaxQueries + Photos(reg[t])
  BY <1>5, MadeAt
<1>7. Made(reg[t]) <= Made(rg)
  BY <1>6, AgentConstants, PhotosAreFew
<1> QED BY <1>1, <1>2, <1>3, <1>4, <1>7, StepWorks

\* From now on the thread writes the mail; its table is the only call left.
LEMMA SetPendingWorks ==
    ASSUME TypeOK, WorkInv, NEW t \in Threads, SetPending(t), UNCHANGED browsingVars
    PROVE  WorkInv'
<1>1. /\ reg[t].pc = "pending" /\ UNCHANGED geminiVars /\ reg[t] \in Reg
      /\ mail' = [mail EXCEPT ![t] = NewLetter("verify", Form[reg[t].r].lang)]
      /\ reg' = [reg EXCEPT ![t] = [reg[t] EXCEPT !.pc = "mail"]]
  BY WorkTypes DEF SetPending, RegAt, Go
<1>2. PICK rg : rg = [reg[t] EXCEPT !.pc = "mail"]
  OBVIOUS
<1>3. rg \in Reg /\ rg.r = reg[t].r /\ rg.pc = "mail"
  BY <1>1, <1>2 DEF Reg, RegPcs
<1>4. /\ look' = look /\ posts' = posts /\ faults' = faults /\ reg'[t] = rg
      /\ \A u \in Threads \ {t} : reg'[u] = reg[u] /\ mail'[u] = mail[u]
      /\ mail'[t] = NewLetter("verify", Form[reg[t].r].lang)
  BY <1>1, <1>2 DEF browsingVars, geminiVars, TypeOK, RegistrationTypeOK, MailingTypeOK
<1>5. mail'[t].pc = "table" /\ mail'[t].table = "verify"
  BY <1>4 DEF NewLetter, NoLetter
<1>6. Elsewhere(t)
  BY <1>4 DEF Elsewhere
<1>7. Made(reg[t]) = Made(rg)
  <2>1. Ahead(reg[t]) = "pending" /\ Ahead(rg) = "mail" /\ Photos(rg) = Photos(reg[t])
    BY <1>1, <1>3 DEF Ahead, Photos
  <2> QED BY <2>1, MadeAt
<1>8. Works(look[t], reg[t], mail[t], posts[t], faults)
  BY DEF WorkInv
<1>9. look[t].pc = "idle" /\ posts[t] <= Made(rg) + faults
  BY <1>1, <1>7, <1>8, WorkTypes DEF Works
<1>a. Works(look'[t], reg'[t], mail'[t], posts'[t], faults')
  BY <1>3, <1>4, <1>5, <1>9, WorkTypes, MadeIsInt DEF Works
<1> QED BY <1>4, <1>6, <1>a, WorkTypes, OneWorks

LEMMA SendLinkWorks ==
    ASSUME TypeOK, WorkInv, NEW t \in Threads, SendLink(t), UNCHANGED browsingVars
    PROVE  WorkInv'
<1>1. /\ reg[t].pc = "mail" /\ UNCHANGED <<tries, posts>> /\ reg[t] \in Reg
      /\ UNCHANGED faults \/ Fault
      /\ mail' = [mail EXCEPT ![t] = NoLetter] /\ mail[t].pc = "send"
  BY WorkTypes DEF SendLink, RegAt, Post, MailAt
<1>2. PICK rg : rg = [reg[t] EXCEPT !.pc = "answer", !.pending = TRUE]
  OBVIOUS
<1>3. rg \in Reg /\ rg.r = reg[t].r /\ rg.pc = "answer"
  BY <1>1, <1>2 DEF Reg, RegPcs
<1>4. /\ look' = look /\ posts' = posts /\ reg'[t] = rg
      /\ \A u \in Threads \ {t} : reg'[u] = reg[u] /\ mail'[u] = mail[u]
      /\ mail'[t] = NoLetter
  BY <1>1, <1>2 DEF SendLink, Go, browsingVars, TypeOK, RegistrationTypeOK, MailingTypeOK
<1>5. CallStep(t)
  BY <1>1 DEF CallStep, geminiVars
<1>6. Elsewhere(t)
  BY <1>4 DEF Elsewhere
<1>7. Made(reg[t]) + 1 = Made(rg)
  <2>1. Ahead(reg[t]) = "mail" /\ Ahead(rg) = "answer" /\ Photos(rg) = Photos(reg[t])
    BY <1>1, <1>3 DEF Ahead, Photos
  <2>2. Made(reg[t]) = 3 + MaxQueries + Photos(rg) /\ Made(rg) = 4 + MaxQueries + Photos(rg)
    BY <2>1, MadeAt
  <2> QED BY <2>2, AgentConstants, PhotosAreFew
<1>8. Works(look[t], reg[t], mail[t], posts[t], faults)
  BY DEF WorkInv
<1>9. look[t].pc = "idle" /\ posts[t] <= Made(rg) + faults
  BY <1>1, <1>7, <1>8, WorkTypes, MadeIsInt, <1>3 DEF Works
<1>a. Works(look'[t], reg'[t], mail'[t], posts'[t], faults')
  <2>1. faults <= faults' /\ faults' \in Nat /\ faults \in Nat /\ posts[t] \in Nat /\ Made(rg) \in Int
    BY <1>3, <1>5, CallsOfOne, MadeIsInt, WorkTypes
  <2> QED BY <1>3, <1>4, <1>9, <2>1, LettersTyped DEF Works
<1> QED BY <1>5, <1>6, <1>a, CallsOfOne, OneWorks

LEMMA RegisterWorks ==
    ASSUME TypeOK, AnswerInv, WorkInv, NEW t \in Threads, RegisterStep(t), UNCHANGED browsingVars
    PROVE  WorkInv'
<1>1. CASE AgentStep(t) \/ (Resume(t) /\ reg[t].r \notin gone)
  BY <1>1, AgentMoves, ResumeMoves, MoveWorks
<1>2. CASE Resume(t) /\ reg[t].r \in gone
  BY <1>2, RestWorks DEF Resume, Go, RegAt, mailingVars
<1>3. CASE Answer(t)
  BY <1>3, RestWorks DEF Answer, Go, RegAt, mailingVars
<1> QED BY <1>1, <1>2, <1>3, StoreWorks, CountMailWorks, SetPendingWorks, SendLinkWorks
        DEF RegisterStep, AgentStep

\* The kinds of steps a mail can make: a call is counted, and the mail goes on or stays.
LEMMA MailMoves ==
    ASSUME TypeOK, NEW t \in Threads, MailStep(t)
    PROVE  /\ CallStep(t) /\ mail[t].pc \in {"table", "localize"}
           /\ \A u \in Threads \ {t} : mail'[u] = mail[u]
           /\ mail'[t].table = mail[t].table
           /\ \/ UNCHANGED geminiVars
              \/ Reply(t) /\ mail[t].pc = "table" /\ mail'[t].pc \in {"localize", "send"}
              \/ NoReply(t)
              \/ mail[t].pc = "localize"
           /\ mail'[t].pc \in {"table", "localize", "send"}
           /\ mail'[t].pc = "localize" => mail[t].table = "alert"
           /\ mail[t].pc = "localize" => mail'[t].pc = "send"
<1>1. mail \in [Threads -> Letter] /\ mail[t] \in Letter
  BY DEF TypeOK, MailingTypeOK
<1>2. \A lang : /\ TableIn(mail[t], lang).table = mail[t].table
                /\ TableIn(mail[t], lang).pc \in {"localize", "send"}
                /\ TableIn(mail[t], lang).pc = "localize" => mail[t].table = "alert"
  BY <1>1 DEF TableIn, Letter
<1>3. CASE TableKnown(t)
  <2>1. PICK l : mail' = [mail EXCEPT ![t] = TableIn(mail[t], l)]
    BY <1>3 DEF TableKnown
  <2>2. mail[t].pc = "table" /\ UNCHANGED geminiVars
    BY <1>3 DEF TableKnown, MailAt
  <2> QED BY <1>1, <1>2, <2>1, <2>2 DEF CallStep
<1>4. CASE TableTranslated(t)
  <2>1. /\ mail' = [mail EXCEPT ![t] = TableIn(mail[t], mail[t].try)]
        /\ mail[t].pc = "table" /\ Reply(t)
    BY <1>4 DEF TableTranslated, TableCalls, MailAt
  <2> QED BY <1>1, <1>2, <2>1 DEF CallStep
<1>5. CASE TableFails(t)
  <2>1. PICK l : l = IF mail[t].try = "en" THEN "ko" ELSE "en"
    OBVIOUS
  <2>2. /\ mail' = [mail EXCEPT ![t] = [mail[t] EXCEPT !.hurt = TRUE, !.try = l]]
        /\ mail[t].pc = "table" /\ NoReply(t)
    BY <1>1, <1>5, <2>1 DEF TableFails, TableCalls, MailAt, Letter
  <2>3. mail'[t].pc = "table" /\ mail'[t].table = mail[t].table
    BY <1>1, <2>2 DEF Letter
  <2> QED BY <1>1, <2>2, <2>3 DEF CallStep
<1>6. CASE Localize(t)
  <2>1. PICK m : /\ mail' = [mail EXCEPT ![t] = m]
                 /\ \/ m = [mail[t] EXCEPT !.pc = "send"]
                    \/ m = [mail[t] EXCEPT !.pc = "send", !.local = FALSE, !.hurt = TRUE]
    BY <1>6 DEF Localize
  <2>2. mail[t].pc = "localize" /\ (Reply(t) \/ NoReply(t))
    BY <1>6 DEF Localize, LocalizeCalls, MailAt
  <2>3. m.pc = "send" /\ m.table = mail[t].table
    BY <1>1, <2>1 DEF Letter
  <2> QED BY <1>1, <2>1, <2>2, <2>3 DEF CallStep
<1> QED BY <1>3, <1>4, <1>5, <1>6 DEF MailStep

LEMMA MailWorks ==
    ASSUME TypeOK, WorkInv, NEW t \in Threads, MailStep(t),
           UNCHANGED <<browsingVars, registrationVars>>
    PROVE  WorkInv'
<1>1. CallStep(t)
  BY MailMoves
<1>2. look' = look /\ reg' = reg
  BY DEF browsingVars, registrationVars
<1>3. Elsewhere(t)
  BY <1>1, <1>2, MailMoves, CallsOfOne DEF Elsewhere
<1>4. Works(look[t], reg[t], mail[t], posts[t], faults)
  BY DEF WorkInv
<1>5. /\ look[t].pc = "idle" /\ mail'[t].pc # "none"
      /\ reg[t].pc \in {"idle", "mail"}
  BY <1>4, MailMoves DEF Works
<1>6. Works(look'[t], reg'[t], mail'[t], posts'[t], faults')
  <2>1. CASE reg[t].pc = "idle"
    BY <1>2, <1>5, <2>1 DEF Works
  <2>2. CASE reg[t].pc = "mail"
    <3>1. /\ mail[t].table = "verify" /\ mail[t].pc = "table"
          /\ posts[t] <= Made(reg[t]) + faults
      BY <1>4, <2>2, MailMoves, WorkTypes DEF Works
    <3>2. /\ mail'[t].table = "verify" /\ mail'[t].pc \in {"table", "send"}
          /\ UNCHANGED geminiVars \/ (Reply(t) /\ mail'[t].pc = "send") \/ NoReply(t)
      BY <3>1, MailMoves
    <3>3. posts'[t] <= Made(reg[t]) + faults' + IF mail'[t].pc = "send" THEN 1 ELSE 0
      BY <1>1, <3>1, <3>2, WorkTypes, CallsOfOne
    <3> QED BY <1>2, <1>5, <2>2, <3>2, <3>3 DEF Works
  <2> QED BY <1>5, <2>1, <2>2
<1> QED BY <1>1, <1>3, <1>6, CallsOfOne, OneWorks

LEMMA BrowseWorks ==
    ASSUME TypeOK, WorkInv, NEW t \in Threads, UNCHANGED <<mailingVars, registrationVars>>,
           BrowseStep(t) \/ (Free(t) /\ \E w \in Words : BrowseBegin(t, w))
    PROVE  WorkInv'
<1>1. /\ mail' = mail /\ reg' = reg /\ look \in [Threads -> Look]
      /\ Works(look[t], reg[t], mail[t], posts[t], faults)
  BY DEF mailingVars, registrationVars, WorkInv, TypeOK, BrowsingTypeOK
<1>2. reg[t].pc = "idle" /\ mail[t].pc = "none"
  <2>1. CASE BrowseStep(t)
    <3>1. look[t].pc # "idle"
      BY <2>1 DEF BrowseStep, LookAt, Need, Charge, Test, Read, Translate, Size, Clear, Put
    <3> QED BY <1>1, <3>1 DEF Works
  <2>2. CASE Free(t)
    BY <2>2 DEF Free, RegAt, MailAt
  <2> QED BY <2>1, <2>2
<1>3. CallStep(t)
  <2>1. UNCHANGED geminiVars \/ Reply(t) \/ (Fault /\ Rest(t)) \/ (Rest(t) /\ UNCHANGED faults)
    BY DEF BrowseStep, BrowseBegin, Need, Charge, Test, Read, Translate, Size, Clear, Put
  <2> QED BY <2>1 DEF CallStep
<1>4. PICK l : look' = [look EXCEPT ![t] = l]
  BY DEF BrowseStep, BrowseBegin, Need, Charge, Test, Read, Translate, Size, Clear, Put,
         LookOn, LookDone
<1>5. look'[t] = l /\ \A u \in Threads \ {t} : look'[u] = look[u]
  BY <1>1, <1>4
<1>6. Elsewhere(t)
  BY <1>1, <1>3, <1>5, CallsOfOne DEF Elsewhere
<1>7. posts'[t] # 0 => look'[t].pc \in {"call", "size", "clear", "put"}
  <2>1. CASE look[t].pc \in {"idle", "need", "charge", "test", "read"} /\ UNCHANGED geminiVars
    <3>1. posts[t] = 0
      BY <1>1, <1>2, <2>1 DEF Works
    <3> QED BY <1>3, <2>1, <3>1, CallsOfOne
  <2>2. CASE Translate(t)
    <3>1. CASE look' = [look EXCEPT ![t] = [look[t] EXCEPT !.pc = "size"]]
      BY <1>1, <3>1 DEF Look
    <3>2. CASE Rest(t)
      BY <1>3, <3>2, CallsOfOne
    <3> QED BY <2>2, <3>1, <3>2 DEF Translate, LookOn
  <2>3. CASE Size(t) \/ Clear(t)
    <3>1. \E pc \in {"clear", "put"} : look' = [look EXCEPT ![t] = [look[t] EXCEPT !.pc = pc]]
      BY <2>3 DEF Size, Clear, LookOn
    <3> QED BY <1>1, <3>1 DEF Look
  <2>4. CASE Put(t)
    BY <1>3, <2>4, CallsOfOne DEF Put
  <2> QED BY <2>1, <2>2, <2>3, <2>4
          DEF BrowseStep, BrowseBegin, Need, Charge, Test, Read, LookAt
<1>8. Works(look'[t], reg'[t], mail'[t], posts'[t], faults')
  BY <1>1, <1>2, <1>7 DEF Works
<1> QED BY <1>3, <1>6, <1>8, CallsOfOne, OneWorks

LEMMA SendResultWorks ==
    ASSUME TypeOK, WorkInv, NEW t \in Threads, SendResult(t),
           UNCHANGED <<browsingVars, registrationVars>>
    PROVE  WorkInv'
<1>1. CallStep(t)
  BY DEF SendResult, CallStep
<1>2. /\ look' = look /\ reg' = reg /\ reg[t].pc = "idle" /\ mail[t].pc = "send"
      /\ mail' = [mail EXCEPT ![t] = NoLetter] /\ Rest(t)
  BY DEF SendResult, Post, RegAt, MailAt, browsingVars, registrationVars
<1>3. mail'[t].pc = "none" /\ \A u \in Threads \ {t} : mail'[u] = mail[u]
  BY <1>2, LettersTyped DEF TypeOK, MailingTypeOK
<1>4. Elsewhere(t)
  BY <1>1, <1>2, <1>3, CallsOfOne DEF Elsewhere
<1>5. Works(look'[t], reg'[t], mail'[t], posts'[t], faults')
  BY <1>1, <1>2, <1>3, CallsOfOne DEF Works
<1> QED BY <1>1, <1>4, <1>5, CallsOfOne, OneWorks

LEMMA TryAgainWorks ==
    ASSUME TypeOK, WorkInv, NEW t \in Threads, TryAgain(t)
    PROVE  WorkInv'
<1>1. CallStep(t) /\ Retry(t)
  BY DEF TryAgain, CallStep
<1>2. look' = look /\ reg' = reg /\ mail' = mail
  BY DEF TryAgain, browsingVars, mailingVars, registrationVars
<1>3. Elsewhere(t)
  BY <1>1, <1>2, CallsOfOne DEF Elsewhere
<1>4. Works(look[t], reg[t], mail[t], posts[t], faults)
  BY DEF WorkInv
<1>5. reg[t].pc # "idle" \/ look[t].pc = "call" \/ mail[t].pc # "none"
  BY DEF TryAgain, RegCalls, RouteCalls, SearchCalls, GradeCalls, BrowseCalls, MailCalls, TableCalls,
         LocalizeCalls, RegAt, LookAt, MailAt
<1>6. posts'[t] = posts[t] + 1 /\ faults' = faults + 1
  BY <1>1, CallsOfOne
<1>7. Works(look'[t], reg'[t], mail'[t], posts'[t], faults')
  BY <1>2, <1>4, <1>5, <1>6, WorkTypes DEF Works
<1> QED BY <1>1, <1>3, <1>7, CallsOfOne, OneWorks

\* A thread without work has sent nothing for it.
LEMMA ArriveWorks ==
    ASSUME TypeOK, WorkInv, NEW t \in Threads, Arrive(t)
    PROVE  WorkInv'
<1>1. look[t].pc = "idle" /\ reg[t].pc = "idle" /\ mail[t].pc = "none"
  BY DEF Arrive, Free, LookAt, RegAt, MailAt
<1>2. posts[t] = 0 /\ faults \in Nat
  BY <1>1, WorkTypes DEF WorkInv, Works
<1>3. ASSUME NEW r \in Requests, RegisterBegin(t, r), UNCHANGED browsingVars PROVE WorkInv'
  <2>1. PICK rg : rg = [RegIdle EXCEPT !.pc = "extract", !.r = r]
    OBVIOUS
  <2>2. rg.pc = "extract" /\ Ahead(rg) = "extract"
    BY <2>1 DEF RegIdle, Ahead
  <2>3. /\ look' = look /\ mail' = mail /\ posts' = posts /\ faults' = faults /\ reg'[t] = rg
        /\ \A u \in Threads \ {t} : reg'[u] = reg[u]
    BY <1>3, <2>1 DEF RegisterBegin, Go, browsingVars, mailingVars, geminiVars, TypeOK,
                      RegistrationTypeOK
  <2>4. Elsewhere(t)
    BY <2>3 DEF Elsewhere
  <2>5. Made(rg) = 0
    BY <2>2, MadeAt
  <2>6. Works(look'[t], reg'[t], mail'[t], posts'[t], faults')
    BY <1>1, <1>2, <2>2, <2>3, <2>5 DEF Works
  <2> QED BY <1>2, <2>3, <2>4, <2>6, OneWorks
<1>4. ASSUME mail' = [mail EXCEPT ![t] = NewLetter("alert", Head(load.results))],
             UNCHANGED <<geminiVars, browsingVars, registrationVars>>
      PROVE  WorkInv'
  <2>1. /\ look' = look /\ posts' = posts /\ faults' = faults /\ reg' = reg
        /\ \A u \in Threads \ {t} : mail'[u] = mail[u]
    BY <1>4 DEF browsingVars, registrationVars, geminiVars, TypeOK, MailingTypeOK
  <2>2. Elsewhere(t)
    BY <2>1 DEF Elsewhere
  <2>3. Works(look'[t], reg'[t], mail'[t], posts'[t], faults')
    BY <1>1, <1>2, <2>1 DEF Works
  <2> QED BY <1>2, <2>1, <2>2, <2>3, OneWorks
<1>5. load.registers \in SUBSET Requests
  BY DEF TypeOK, Load
<1>6. CASE \E r \in load.registers : RegisterBegin(t, r) /\ UNCHANGED browsingVars
  BY <1>3, <1>5, <1>6
<1>7. CASE (\E w \in Words : BrowseBegin(t, w)) /\ UNCHANGED <<mailingVars, registrationVars>>
  BY <1>7, BrowseWorks DEF Arrive
<1> QED BY <1>4, <1>6, <1>7 DEF Arrive

LEMMA WorkKept ==
    ASSUME TypeOK, AnswerInv, WorkInv, [Next]_vars
    PROVE  WorkInv'
<1>1. UNCHANGED <<look, reg, mail, posts, faults>> => WorkInv'
  <2> SUFFICES ASSUME UNCHANGED <<look, reg, mail, posts, faults>>, NEW t \in Threads
               PROVE  Works(look'[t], reg'[t], mail'[t], posts'[t], faults')
    BY WorkNext
  <2> QED BY DEF WorkInv
<1>2. CASE Restart
  <2>1. /\ look' = [t \in Threads |-> LookIdle] /\ reg' = [t \in Threads |-> RegIdle]
        /\ mail' = [t \in Threads |-> NoLetter] /\ posts' = [t \in Threads |-> 0]
    BY <1>2 DEF Restart
  <2>2. ASSUME NEW t \in Threads PROVE Works(look'[t], reg'[t], mail'[t], posts'[t], faults')
    BY <2>1, LookIdleTyped, RegIdleTyped, LettersTyped DEF Works
  <2> QED BY <2>2, WorkNext
<1>3. ASSUME NEW t \in Threads, Breaks(t), UNCHANGED browsingVars PROVE WorkInv'
  BY <1>3, RestWorks DEF Breaks, Go
<1>4. ASSUME NEW r \in Requests, Disconnect(r), UNCHANGED browsingVars PROVE WorkInv'
  BY <1>1, <1>4 DEF Disconnect, geminiVars, mailingVars, browsingVars
<1>5. CASE UNCHANGED vars
  BY <1>1, <1>5 DEF vars, geminiVars, mailingVars, browsingVars, registrationVars
<1> QED BY <1>2, <1>3, <1>4, <1>5, Steps, RegisterWorks, BrowseWorks, MailWorks, SendResultWorks,
           TryAgainWorks, ArriveWorks

\* A step's calls are among those a registration makes.
LEMMA MadeIsFew ==
    ASSUME TypeOK, AnswerInv, NEW t \in Threads, ~RegAt(t, "idle")
    PROVE  Made(reg[t]) + (IF reg[t].pc = "mail" THEN 1 ELSE 0) <= Calls(reg[t])
<1>1. /\ reg[t] \in Reg /\ StepFits(reg[t]) /\ reg[t].pc \in RegPcs \ {"idle"}
      /\ reg[t].queries \in 0..MaxQueries /\ reg[t].checked \in 0..TopPhotos
  BY AtWork DEF Reg, RegAt
<1>2. Ahead(reg[t]) \in RegPcs \ {"idle", "yielded"}
  BY <1>1 DEF StepFits, Ahead, RegPcs, BeforeRow
<1>3. Calls(reg[t]) = 4 + MaxQueries + Photos(reg[t]) /\ Photos(reg[t]) \in Nat
  BY PhotosAreFew DEF Calls, Photos
<1>4. Ahead(reg[t]) = "find" => reg[t].queries > 0
  BY <1>1 DEF StepFits, Ahead, BeforeRow
<1>5. Ahead(reg[t]) \in {"visual", "compare"} => Photos(reg[t]) = TopPhotos
  BY <1>1 DEF StepFits, Photos
<1>6. reg[t].pc = "mail" => Ahead(reg[t]) = "mail"
  BY DEF Ahead
<1>7. Made(reg[t]) <= 4 + MaxQueries + Photos(reg[t])
  BY <1>1, <1>2, <1>3, <1>4, <1>5, MadeAt, AgentConstants DEF RegPcs
<1>8. reg[t].pc = "mail" => Made(reg[t]) = 3 + MaxQueries + Photos(reg[t])
  BY <1>6, MadeAt
<1>9. Made(reg[t]) \in Int
  BY <1>1, MadeIsInt
<1> QED BY <1>3, <1>7, <1>8, <1>9, AgentConstants

\* THEOREM: a registration sends the LLM no more requests than its calls and the faults of the
\* process together: whatever the threads do meanwhile, a request that is made again has cost a
\* fault, and so has every picture or table that is asked for in vain (_post, _visual_compare,
\* _table).
THEOREM PostsAreBounded == Spec => []PostsBounded
<1>1. Init => WorkInv
  <2> SUFFICES ASSUME Init PROVE WorkInv
    OBVIOUS
  <2>1. /\ look = [t \in Threads |-> LookIdle] /\ reg = [t \in Threads |-> RegIdle]
        /\ mail = [t \in Threads |-> NoLetter] /\ posts = [t \in Threads |-> 0]
    BY DEF Init, BrowsingInit, RegistrationInit, MailingInit, GeminiInit
  <2> QED BY <2>1, LookIdleTyped, RegIdleTyped, LettersTyped DEF WorkInv, Works
<1>2. TypeOK /\ AnswerInv /\ WorkInv /\ [Next]_vars => WorkInv'
  BY WorkKept
<1>3. TypeOK /\ AnswerInv /\ WorkInv => PostsBounded
  <2> SUFFICES ASSUME TypeOK, AnswerInv, WorkInv, NEW t \in Threads, ~RegAt(t, "idle")
               PROVE  posts[t] <= Calls(reg[t]) + faults
    BY DEF PostsBounded
  <2>1. Works(look[t], reg[t], mail[t], posts[t], faults)
    BY DEF WorkInv
  <2>2. /\ posts[t] <= Made(reg[t]) + faults + IF mail[t].pc = "send" THEN 1 ELSE 0
        /\ mail[t].pc = "send" => reg[t].pc = "mail"
    BY <2>1 DEF Works, RegAt
  <2>3. Made(reg[t]) + (IF reg[t].pc = "mail" THEN 1 ELSE 0) <= Calls(reg[t])
    BY MadeIsFew
  <2>4. Calls(reg[t]) \in Int
    BY AgentConstants DEF Calls
  <2> QED BY <2>2, <2>3, <2>4, WorkTypes
<1> QED BY <1>1, <1>2, <1>3, ServingTyped, AnswersAlways, PTL DEF Spec
===============================================================================
