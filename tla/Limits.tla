-------------------------------- MODULE Limits --------------------------------
(***************************************************************************)
(* apps/api/limits.py: sliding-window counters and the daily AI budget,    *)
(* kept in the memory of the one API process, and _guard_report of         *)
(* main.py, which runs a request through them before the LLM is called.    *)
(*                                                                         *)
(* hit and spend read the clock first and take the lock afterwards, so a   *)
(* thread may act on a clock reading that another thread has overtaken.    *)
(*                                                                         *)
(* The counters are those of one client; the budget is shared.  Time is    *)
(* counted in ticks; DateOf says which day (KST) a tick belongs to.        *)
(***************************************************************************)
EXTENDS Integers, Sequences, FiniteSets

CONSTANTS
    Threads,       \* threads of the pool
    Keys,          \* the counters: rep10, repday, img10, ...
    Limit,         \* Limit[k]: calls allowed in a window
    Window,        \* Window[k]: length of the window, in ticks
    Requests,      \* kinds of request
    Checks,        \* Checks[q]: the counters that q runs through, in order
    Units,         \* Units[q]: what q takes from the budget
    Budget,        \* settings.daily_ai_budget
    MaxClock,      \* bound: last instant of the clock
    LastDay,       \* bound: the day of that instant
    DateOf,        \* DateOf[c]: the day of instant c
    MaxRequests    \* bound: requests made

ASSUME LimitsAssumption ==
    /\ IsFiniteSet(Threads) /\ Threads # {}
    /\ Limit \in [Keys -> Nat \ {0}] /\ Window \in [Keys -> Nat \ {0}]
    /\ Checks \in [Requests -> Seq(Keys)]
    /\ Units \in [Requests -> Nat \ {0}]
    /\ Budget \in Nat /\ MaxClock \in Nat /\ LastDay \in Nat /\ MaxRequests \in Nat
    /\ DateOf \in [0..MaxClock -> 0..LastDay]
    /\ \A c, d \in 0..MaxClock : c <= d => DateOf[c] <= DateOf[d]

VARIABLES
    clock,         \* the time
    hits,          \* hits[k]: the stamps of the calls admitted, in order of admission
    day,           \* _day, -1 for the empty string
    used,          \* _used
    thread,        \* what each thread is doing
    requests,      \* requests made so far
    admitted,      \* history: every stamp that was admitted since the last restart
    spent          \* history: units granted for each day since the last restart

vars == <<clock, hits, day, used, thread, requests, admitted, spent>>

Days == 0..LastDay

Pcs == {"idle", "hit", "lock", "spend", "charge"}

Thread == [pc    : Pcs,
           todo  : Seq(Keys),      \* counters still to pass
           units : Nat,            \* then this much of the budget
           read  : 0..MaxClock,    \* the clock reading it acts on
           today : Days]

Idle == [pc |-> "idle", todo |-> <<>>, units |-> 0, read |-> 0, today |-> 0]

TypeOK == /\ clock \in 0..MaxClock
          /\ hits \in [Keys -> Seq(0..MaxClock)]
          /\ day \in Days \cup {-1}
          /\ used \in Nat
          /\ thread \in [Threads -> Thread]
          /\ \A t \in Threads : thread[t].pc \in {"hit", "lock"} => thread[t].todo # <<>>
          /\ requests \in 0..MaxRequests
          /\ admitted \in [Keys -> Seq(0..MaxClock)]
          /\ spent \in [Days -> Nat]

Init == /\ clock = 0 /\ requests = 0
        /\ thread = [t \in Threads |-> Idle]
        /\ hits = [k \in Keys |-> <<>>] /\ day = -1 /\ used = 0
        /\ admitted = [k \in Keys |-> <<>>] /\ spent = [d \in Days |-> 0]

Go(t, th) == thread' = [thread EXCEPT ![t] = th]

\* Variant: another counter is read although none is left.
PassOn(th, todo) == [th EXCEPT !.todo = todo, !.pc = "hit"]

\* The step of a request that follows once the counters in todo are left.
Pass(th, todo) == [th EXCEPT !.todo = todo, !.pc = IF todo = <<>> THEN "spend" ELSE "hit"]

(***************************************************************************)
(* A request                                                               *)
(***************************************************************************)
Arrive(t, q) ==
    /\ thread[t].pc = "idle"
    /\ requests < MaxRequests /\ requests' = requests + 1
    /\ Go(t, Pass([Idle EXCEPT !.units = Units[q]], Checks[q]))
    /\ UNCHANGED <<clock, hits, day, used, admitted, spent>>

\* hit: time.monotonic() before the lock.
ReadClock(t) ==
    /\ thread[t].pc = "hit"
    /\ Go(t, [thread[t] EXCEPT !.pc = "lock", !.read = clock])
    /\ UNCHANGED <<clock, hits, day, used, requests, admitted, spent>>

\* Variants: a stamp is forgotten one tick too soon, or one too late.
PruneWithin(q, age) ==
    LET gone == {n \in 0..Len(q) : \A m \in 1..n : age[m]}
        most == CHOOSE n \in gone : \A m \in gone : m <= n
    IN  SubSeq(q, most + 1, Len(q))

PruneEarly(q, time, window) ==
    PruneWithin(q, [m \in 1..Len(q) |-> time - q[m] + 1 >= window])

PruneLate(q, time, window) ==
    PruneWithin(q, [m \in 1..Len(q) |-> time - q[m] > window])

\* hit: stamps leave at the head of the queue only.
Prune(q, time, window) ==
    LET gone == {n \in 0..Len(q) : \A m \in 1..n : time - q[m] >= window}
        most == CHOOSE n \in gone : \A m \in gone : m <= n
    IN  SubSeq(q, most + 1, Len(q))

Kept(t) == LET k == Head(thread[t].todo)
           IN  Prune(hits[k], thread[t].read, Window[k])

Admit(t) ==
    /\ thread[t].pc = "lock"
    /\ LET k == Head(thread[t].todo)
       IN  /\ Len(Kept(t)) < Limit[k]
           /\ hits' = [hits EXCEPT ![k] = Append(Kept(t), thread[t].read)]
           /\ admitted' = [admitted EXCEPT ![k] = Append(@, thread[t].read)]
    /\ Go(t, Pass(thread[t], Tail(thread[t].todo)))
    /\ UNCHANGED <<clock, day, used, requests, spent>>

\* 429: the counters passed before stay counted.
Refuse(t) ==
    /\ thread[t].pc = "lock"
    /\ LET k == Head(thread[t].todo)
       IN  /\ Len(Kept(t)) >= Limit[k]
           /\ hits' = [hits EXCEPT ![k] = Kept(t)]
    /\ Go(t, Idle)
    /\ UNCHANGED <<clock, day, used, requests, admitted, spent>>

\* spend: the date is read before the lock.
ReadDay(t) ==
    /\ thread[t].pc = "spend"
    /\ Go(t, [thread[t] EXCEPT !.pc = "charge", !.today = DateOf[clock]])
    /\ UNCHANGED <<clock, hits, day, used, requests, admitted, spent>>

\* Variant: the comparison of the days is the wrong way round.
UsedOnOther(today) == IF today = day THEN 0 ELSE used

UsedOn(today) == IF today = day THEN used ELSE 0

Charge(t) ==
    /\ thread[t].pc = "charge"
    /\ LET today == thread[t].today
           sum == UsedOn(today) + thread[t].units
       IN  /\ day' = today
           /\ IF sum > Budget THEN used' = UsedOn(today) /\ UNCHANGED spent
              ELSE used' = sum /\ spent' = [spent EXCEPT ![today] = @ + thread[t].units]
    /\ Go(t, Idle)
    /\ UNCHANGED <<clock, hits, requests, admitted>>

(***************************************************************************)
(* Around it                                                               *)
(***************************************************************************)
Tick == /\ clock < MaxClock /\ clock' = clock + 1
        /\ UNCHANGED <<hits, day, used, thread, requests, admitted, spent>>

\* A restart loses the counters and the requests in flight.
Restart ==
    /\ hits' = [k \in Keys |-> <<>>] /\ day' = -1 /\ used' = 0
    /\ admitted' = [k \in Keys |-> <<>>] /\ spent' = [d \in Days |-> 0]
    /\ thread' = [t \in Threads |-> Idle]
    /\ UNCHANGED <<clock, requests>>

Step(t) == ReadClock(t) \/ Admit(t) \/ Refuse(t) \/ ReadDay(t) \/ Charge(t)

Next == \/ Tick \/ Restart
        \/ \E t \in Threads : Step(t) \/ \E q \in Requests : Arrive(t, q)

Spec == Init /\ [][Next]_vars

-------------------------------------------------------------------------------
(***************************************************************************)
(* A reading that has been overtaken costs something.  Each property says  *)
(* how much: with one thread it is the rule the code is meant to keep, and *)
(* every further thread weakens it by what a late thread can do.           *)
(***************************************************************************)
Late == Cardinality(Threads) - 1

\* The stamps of k less than a window older than time; Within leaves out the younger ones.
Recent(k, time) == {n \in DOMAIN admitted[k] : time - admitted[k][n] < Window[k]}
Within(k, time) == {n \in Recent(k, time) : admitted[k][n] <= time}

\* In no window are more calls admitted than the limit allows and the late threads get in on
\* top, each at most once: stamps that a younger reading has dropped from the queue, and
\* stamps that enter behind a younger one, do not let the count drift (Limiter.hit).
WindowKept ==
    \A k \in Keys : \A n \in DOMAIN admitted[k] :
        Cardinality(Within(k, admitted[k][n])) <= Limit[k] + Late

\* Nobody is refused who has not used up a window, whatever was refused before and in
\* whatever order stamps were queued: only those of late threads can be kept too long.
RefusedOnlyWhenFull ==
    [][\A t \in Threads : Refuse(t) =>
           LET k == Head(thread[t].todo)
           IN  Cardinality(Recent(k, thread[t].read)) + Late >= Limit[k]]_vars

\* The units granted for one day stay within the budget, however requests of different weight
\* mix.  The counter forgets a day when another one is charged, and a late thread can bring
\* that about twice: while the day lasts, with a charge for an earlier one, and once it is over,
\* with a charge for it.  So each late thread can grant the day twice more (Limiter.spend).
BudgetKept == \A d \in Days : spent[d] <= Budget * (1 + 2 * Late)
===============================================================================
