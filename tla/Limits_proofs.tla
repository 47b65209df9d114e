----------------------------- MODULE Limits_proofs -----------------------------
(***************************************************************************)
(* Proofs about module Limits, for any number of threads, counters and     *)
(* days: what late threads can do to the sliding windows, to the refusals  *)
(* and to the daily budget.                                                *)
(***************************************************************************)
EXTENDS Limits, FiniteSetTheorems, SequenceTheorems, TLAPS

(***************************************************************************)
(* The inductive invariant                                                 *)
(***************************************************************************)
\* The stamps of k that are no longer in its queue: the queue is what is left of the stamps
\* admitted, in their order.
Dropped(k) == Len(admitted[k]) - Len(hits[k])

QueueIsTail(k) ==
    /\ Len(hits[k]) <= Limit[k]
    /\ Len(hits[k]) <= Len(admitted[k])
    /\ \A n \in 1..Len(hits[k]) : hits[k][n] = admitted[k][n + Dropped(k)]

\* No reading is ahead of the clock.
ReadingsArePast ==
    /\ \A t \in Threads : thread[t].pc = "lock" => thread[t].read <= clock
    /\ \A t \in Threads : thread[t].pc = "charge" => thread[t].today <= DateOf[clock]
    /\ \A k \in Keys : \A n \in DOMAIN admitted[k] : admitted[k][n] <= clock

\* The threads about to act on a reading no younger than time.
Held(time) == {t \in Threads : thread[t].pc = "lock" /\ thread[t].read <= time}

\* A window of which a stamp has been dropped is over, and what it has admitted leaves room
\* for the threads that still hold a reading in it.
DroppedIsOver(k) ==
    \A time \in 0..MaxClock :
        (\E n \in Within(k, time) : n <= Dropped(k)) =>
            /\ time < clock
            /\ Cardinality(Within(k, time)) + Cardinality(Held(time)) <= Limit[k] + Late

\* The stamps that were queued behind a younger one.
Behind(k, i) == {n \in DOMAIN admitted[k] : n > i /\ admitted[k][n] < admitted[k][i]}

\* They are at most as many as the threads that were late then, less those that still are.
FewBehind(k) ==
    \A i \in DOMAIN admitted[k] :
        Cardinality(Behind(k, i)) + Cardinality(Held(admitted[k][i] - 1)) <= Late

WindowsInv == /\ ReadingsArePast
              /\ \A k \in Keys : QueueIsTail(k) /\ DroppedIsOver(k) /\ FewBehind(k)

\* The threads about to charge day d, and those about to charge a day before it.
Charging(d) == {t \in Threads : thread[t].pc = "charge" /\ thread[t].today = d}
ChargingBefore(d) == {t \in Threads : thread[t].pc = "charge" /\ thread[t].today < d}

\* The threads that can still make d the day of the counter once it is over: if all of them are
\* about to charge it, one has to before another day can be charged in between.
Returning(d) == IF Charging(d) = Threads THEN Late ELSE Cardinality(Charging(d))

\* The budget, n times.
Share(n) == Budget * n

\* Before its day, during it and after it: what has been granted leaves room for the late
\* threads, and for what the counter still allows.
DayKept(d) ==
    \/ /\ d > DateOf[clock]
       /\ spent[d] = 0 /\ day # d /\ Charging(d) = {}
    \/ /\ d = DateOf[clock]
       /\ \/ day # d /\ spent[d] = 0
          \/ day # d /\ spent[d] <= Share(Late - Cardinality(ChargingBefore(d)))
          \/ day = d /\ spent[d] <= used + Share(Late - Cardinality(ChargingBefore(d)))
    \/ /\ d < DateOf[clock]
       /\ \/ day # d /\ spent[d] <= Share(1 + 2 * Late - Cardinality(Charging(d)))
          \/ day = d /\ spent[d] <= used + Share(2 * Late - Returning(d))

DaysKept == used <= Budget /\ \A d \in Days : DayKept(d)

LimitsInv == TypeOK /\ WindowsInv /\ DaysKept

-------------------------------------------------------------------------------
(***************************************************************************)
(* Pruning                                                                 *)
(***************************************************************************)
\* A set of indices up to a bound has a largest one.
LEMMA LargestExists ==
    ASSUME NEW N \in Nat, NEW S \in SUBSET (0..N), S # {}
    PROVE  \E m \in S : \A n \in S : n <= m
<1> DEFINE Above(n) == (n + 1)..N
           T == {Above(n) : n \in S}
<1>1. T \subseteq FiniteSubsetsOf(0..N)
  <2>1. ASSUME NEW n \in S PROVE IsFiniteSet(Above(n)) /\ Above(n) \subseteq 0..N
    BY <2>1, FS_Interval
  <2> QED BY <2>1 DEF FiniteSubsetsOf
<1>2. T # {}
  OBVIOUS
<1>3. PICK x \in T : \A y \in T : ~(<<y, x>> \in StrictSubsetOrdering(0..N))
  <2> HIDE DEF T
  <2> QED BY <1>1, <1>2, WFMin, FS_StrictSubsetOrderingWellFounded
<1>4. PICK m \in S : x = Above(m)
  BY <1>3
<1>5. ASSUME NEW n \in S, ~(n <= m) PROVE FALSE
  <2>1. Above(n) \subseteq Above(m) /\ Above(n) # Above(m)
    <3>1. m \in Int /\ n \in Int /\ m + 1 \in Above(m) /\ m + 1 \notin Above(n)
      BY <1>5
    <3> QED BY <3>1, <1>5
  <2>2. Above(n) \in SUBSET (0..N) /\ Above(m) \in SUBSET (0..N)
    OBVIOUS
  <2>3. <<Above(n), Above(m)>> \in StrictSubsetOrdering(0..N)
    <3> HIDE DEF Above
    <3> QED BY <2>1, <2>2 DEF StrictSubsetOrdering
  <2> QED BY <1>3, <1>4, <2>3
<1> QED BY <1>5

\* Prune takes a stretch of old stamps off the head, up to the first one that is not old.
LEMMA PruneCuts ==
    ASSUME NEW q \in Seq(0..MaxClock), NEW time \in Int, NEW window \in Int
    PROVE  \E m \in 0..Len(q) :
              /\ Prune(q, time, window) = SubSeq(q, m + 1, Len(q))
              /\ \A n \in 1..m : time - q[n] >= window
              /\ m < Len(q) => time - q[m + 1] < window
<1> DEFINE gone == {n \in 0..Len(q) : \A m \in 1..n : time - q[m] >= window}
           most == CHOOSE n \in gone : \A m \in gone : m <= n
<1>1. 0 \in gone
  OBVIOUS
<1>2. most \in gone /\ \A m \in gone : m <= most
  <2>1. \E n \in gone : \A m \in gone : m <= n
    <3>1. gone \in SUBSET (0..Len(q)) /\ Len(q) \in Nat
      OBVIOUS
    <3> HIDE DEF gone
    <3> QED BY <1>1, <3>1, LargestExists
  <2> HIDE DEF gone
  <2> QED BY <2>1
<1>3. Prune(q, time, window) = SubSeq(q, most + 1, Len(q))
  BY DEF Prune
<1> HIDE DEF most
<1>4. most \in 0..Len(q) /\ \A n \in 1..most : time - q[n] >= window
  BY <1>2
<1>5. ASSUME most < Len(q), time - q[most + 1] >= window PROVE FALSE
  <2>1. \A n \in 1..(most + 1) : time - q[n] >= window
    BY <1>4, <1>5
  <2>2. most + 1 \in 0..Len(q)
    BY <1>4, <1>5
  <2>3. most + 1 \in gone
    BY <2>1, <2>2
  <2> HIDE DEF gone
  <2> QED BY <1>2, <1>4, <2>3
<1>6. most < Len(q) => time - q[most + 1] < window
  <2> HAVE most < Len(q)
  <2>1. most + 1 \in 1..Len(q)
    BY <1>4
  <2>2. q[most + 1] \in Int
    BY <2>1, ElementOfSeq, LimitsAssumption
  <2> QED BY <1>5, <2>2
<1> QED BY <1>3, <1>4, <1>6

-------------------------------------------------------------------------------
(***************************************************************************)
(* Types                                                                   *)
(***************************************************************************)
\* What is kept of the queue a thread is about to join: all but the first m stamps.
LEMMA KeptIsTail ==
    ASSUME TypeOK, NEW t \in Threads, thread[t].pc = "lock"
    PROVE  LET k == Head(thread[t].todo)
           IN  /\ k \in Keys /\ Tail(thread[t].todo) \in Seq(Keys)
               /\ Kept(t) \in Seq(0..MaxClock)
               /\ \E m \in 0..Len(hits[k]) :
                     /\ Len(Kept(t)) = Len(hits[k]) - m
                     /\ \A n \in 1..Len(Kept(t)) : Kept(t)[n] = hits[k][n + m]
                     /\ \A n \in 1..m : thread[t].read - hits[k][n] >= Window[k]
                     /\ m < Len(hits[k]) => thread[t].read - hits[k][m + 1] < Window[k]
<1> DEFINE k == Head(thread[t].todo)
<1>1. k \in Keys /\ Tail(thread[t].todo) \in Seq(Keys)
  <2>1. thread[t].todo \in Seq(Keys) /\ thread[t].todo # <<>>
    BY DEF TypeOK, Thread
  <2> QED BY <2>1, HeadTailProperties
<1> HIDE DEF k
<1>2. thread[t].read \in Int /\ Window[k] \in Int
  <2>1. thread[t].read \in 0..MaxClock
    BY DEF TypeOK, Thread
  <2> QED BY <1>1, <2>1, LimitsAssumption
<1>3. hits[k] \in Seq(0..MaxClock)
  BY <1>1 DEF TypeOK
<1>4. PICK m \in 0..Len(hits[k]) :
         /\ Prune(hits[k], thread[t].read, Window[k]) = SubSeq(hits[k], m + 1, Len(hits[k]))
         /\ \A n \in 1..m : thread[t].read - hits[k][n] >= Window[k]
         /\ m < Len(hits[k]) => thread[t].read - hits[k][m + 1] < Window[k]
  BY <1>2, <1>3, PruneCuts
<1>5. Kept(t) = SubSeq(hits[k], m + 1, Len(hits[k]))
  BY <1>4 DEF Kept, k
<1>6. /\ Kept(t) \in Seq(0..MaxClock)
      /\ Len(Kept(t)) = Len(hits[k]) - m
      /\ \A n \in 1..Len(Kept(t)) : Kept(t)[n] = hits[k][n + m]
  <2> DEFINE q == hits[k]
  <2>1. q \in Seq(0..MaxClock) /\ m \in 0..Len(q) /\ Kept(t) = SubSeq(q, m + 1, Len(q))
    BY <1>3, <1>5
  <2> HIDE DEF q
  <2>2. \A i \in (m + 1)..Len(q) : q[i] \in 0..MaxClock
    <3> TAKE i \in (m + 1)..Len(q)
    <3>1. i \in 1..Len(q)
      BY <2>1
    <3> QED BY <2>1, <3>1, ElementOfSeq
  <2>3. /\ Kept(t) \in Seq(0..MaxClock)
        /\ Len(Kept(t)) = IF m + 1 <= Len(q) THEN Len(q) - (m + 1) + 1 ELSE 0
        /\ \A i \in 1..(Len(q) - (m + 1) + 1) : Kept(t)[i] = q[(m + 1) + i - 1]
    <3>1. m + 1 \in Int /\ Len(q) \in Int
      BY <2>1
    <3> QED BY <2>1, <2>2, <3>1, SubSeqProperties
  <2>4. Len(Kept(t)) = Len(q) - m
    BY <2>1, <2>3
  <2>5. \A n \in 1..Len(Kept(t)) : Kept(t)[n] = q[n + m]
    BY <2>1, <2>3, <2>4
  <2> QED BY <2>3, <2>4, <2>5 DEF q
<1> QED BY <1>1, <1>4, <1>6 DEF k

LEMMA PassIsThread ==
    ASSUME NEW th \in Thread, NEW todo \in Seq(Keys)
    PROVE  /\ Pass(th, todo) \in Thread
           /\ Pass(th, todo).pc = IF todo = <<>> THEN "spend" ELSE "hit"
           /\ Pass(th, todo).pc \in {"hit", "lock"} => Pass(th, todo).todo # <<>>
           /\ Pass(th, todo).todo = todo
           /\ Pass(th, todo).read = th.read /\ Pass(th, todo).today = th.today
BY DEF Pass, Thread, Pcs

LEMMA IdleIsThread == Idle \in Thread
<1>1. 0 \in 0..MaxClock /\ 0 \in Days /\ <<>> \in Seq(Keys)
  BY LimitsAssumption DEF Days
<1> QED BY <1>1 DEF Idle, Thread, Pcs

\* THEOREM: the state always has its type.
THEOREM LimitsTyped == Spec => []TypeOK
<1>1. Init => TypeOK
  BY IdleIsThread, LimitsAssumption DEF Init, TypeOK, Idle, Days
<1>2. TypeOK /\ [Next]_vars => TypeOK'
  <2> SUFFICES ASSUME TypeOK, [Next]_vars PROVE TypeOK'
    OBVIOUS
  <2> USE LimitsAssumption
  <2>1. ASSUME NEW t \in Threads, NEW q \in Requests, Arrive(t, q) PROVE TypeOK'
    <3> DEFINE th == Pass([Idle EXCEPT !.units = Units[q]], Checks[q])
    <3>1. [Idle EXCEPT !.units = Units[q]] \in Thread /\ Checks[q] \in Seq(Keys)
      BY IdleIsThread DEF Thread
    <3>2. th \in Thread /\ (th.pc \in {"hit", "lock"} => th.todo # <<>>)
      BY <3>1, PassIsThread
    <3>3. /\ requests' \in 0..MaxRequests /\ thread' = [thread EXCEPT ![t] = th]
          /\ UNCHANGED <<clock, hits, day, used, admitted, spent>>
      BY <2>1 DEF Arrive, Go, TypeOK
    <3> HIDE DEF th
    <3> QED BY <3>2, <3>3 DEF TypeOK
  <2>2. ASSUME NEW t \in Threads, ReadClock(t) PROVE TypeOK'
    <3>1. [thread[t] EXCEPT !.pc = "lock", !.read = clock] \in Thread
      BY DEF TypeOK, Thread, Pcs
    <3> QED BY <2>2, <3>1 DEF ReadClock, Go, TypeOK
  <2>3. ASSUME NEW t \in Threads, Admit(t) PROVE TypeOK'
    <3> DEFINE k == Head(thread[t].todo)
               left == Tail(thread[t].todo)
               th == Pass(thread[t], left)
    <3>1. k \in Keys /\ left \in Seq(Keys) /\ Kept(t) \in Seq(0..MaxClock)
      BY <2>3, KeptIsTail DEF Admit
    <3>2. thread[t] \in Thread /\ thread[t].read \in 0..MaxClock
      BY DEF TypeOK, Thread
    <3>3. th \in Thread /\ (th.pc \in {"hit", "lock"} => th.todo # <<>>)
      <4> HIDE DEF left
      <4> QED BY <3>1, <3>2, PassIsThread
    <3>4. /\ Append(Kept(t), thread[t].read) \in Seq(0..MaxClock)
          /\ Append(admitted[k], thread[t].read) \in Seq(0..MaxClock)
      BY <3>1, <3>2, SMTT(30) DEF TypeOK
    <3>5. /\ hits' = [hits EXCEPT ![k] = Append(Kept(t), thread[t].read)]
          /\ admitted' = [admitted EXCEPT ![k] = Append(@, thread[t].read)]
          /\ thread' = [thread EXCEPT ![t] = th]
          /\ UNCHANGED <<clock, day, used, requests, spent>>
      BY <2>3 DEF Admit, Go
    <3> HIDE DEF k, th
    <3> QED BY <3>1, <3>3, <3>4, <3>5 DEF TypeOK
  <2>4. ASSUME NEW t \in Threads, Refuse(t) PROVE TypeOK'
    <3> DEFINE k == Head(thread[t].todo)
    <3>1. k \in Keys /\ Kept(t) \in Seq(0..MaxClock)
      BY <2>4, KeptIsTail DEF Refuse
    <3>2. /\ hits' = [hits EXCEPT ![k] = Kept(t)] /\ thread' = [thread EXCEPT ![t] = Idle]
          /\ UNCHANGED <<clock, day, used, requests, admitted, spent>>
      BY <2>4 DEF Refuse, Go
    <3> HIDE DEF k
    <3>3. Idle \in Thread /\ Idle.pc = "idle"
      BY IdleIsThread DEF Idle
    <3> QED BY <3>1, <3>2, <3>3 DEF TypeOK
  <2>5. ASSUME NEW t \in Threads, ReadDay(t) PROVE TypeOK'
    <3>1. DateOf[clock] \in Days
      BY DEF TypeOK, Days
    <3>2. [thread[t] EXCEPT !.pc = "charge", !.today = DateOf[clock]] \in Thread
      BY <3>1 DEF TypeOK, Thread, Pcs
    <3> QED BY <2>5, <3>2 DEF ReadDay, Go, TypeOK
  <2>6. ASSUME NEW t \in Threads, Charge(t) PROVE TypeOK'
    <3>1. thread[t].today \in Days /\ thread[t].units \in Nat
      BY DEF TypeOK, Thread
    <3>2. UsedOn(thread[t].today) \in Nat
      BY DEF TypeOK, UsedOn
    <3>3. spent[thread[t].today] + thread[t].units \in Nat
      BY <3>1 DEF TypeOK
    <3>4. day' \in Days \cup {-1} /\ used' \in Nat /\ spent' \in [Days -> Nat]
      <4> DEFINE today == thread[t].today
                 sum == UsedOn(today) + thread[t].units
      <4>1. sum \in Nat
        BY <3>1, <3>2
      <4>2. /\ day' = today
            /\ \/ used' = UsedOn(today) /\ UNCHANGED spent
               \/ used' = sum /\ spent' = [spent EXCEPT ![today] = @ + thread[t].units]
        BY <2>6 DEF Charge
      <4> HIDE DEF today, sum
      <4>3. today \in Days /\ spent[today] + thread[t].units \in Nat /\ UsedOn(today) \in Nat
        BY <3>1, <3>2, <3>3 DEF today
      <4> QED BY <4>1, <4>2, <4>3 DEF TypeOK
    <3>5. Idle \in Thread /\ Idle.pc = "idle"
      BY IdleIsThread DEF Idle
    <3> QED BY <2>6, <3>4, <3>5 DEF Charge, Go, TypeOK
  <2>7. ASSUME Tick PROVE TypeOK'
    BY <2>7 DEF Tick, TypeOK
  <2>8. ASSUME Restart PROVE TypeOK'
    BY <2>8, IdleIsThread DEF Restart, TypeOK, Idle, Days
  <2>9. CASE UNCHANGED vars
    BY <2>9 DEF vars, TypeOK
  <2> QED BY <2>1, <2>2, <2>3, <2>4, <2>5, <2>6, <2>7, <2>8, <2>9 DEF Next, Step
<1> QED BY <1>1, <1>2, PTL DEF Spec

-------------------------------------------------------------------------------
(***************************************************************************)
(* The windows                                                             *)
(***************************************************************************)
LEMMA NoMore ==
    ASSUME NEW S, IsFiniteSet(S), NEW T \in SUBSET S
    PROVE  /\ IsFiniteSet(T) /\ Cardinality(T) \in Nat /\ Cardinality(S) \in Nat
           /\ Cardinality(T) <= Cardinality(S)
BY FS_Subset, FS_CardinalityType

LEMMA AtMostOneMore ==
    ASSUME NEW S, IsFiniteSet(S), NEW x, NEW T \in SUBSET (S \cup {x})
    PROVE  /\ IsFiniteSet(T) /\ Cardinality(T) \in Nat /\ Cardinality(S) \in Nat
           /\ Cardinality(T) <= Cardinality(S) + 1
<1>1. IsFiniteSet(S \cup {x}) /\ Cardinality(S) \in Nat
  BY FS_AddElement, FS_CardinalityType
<1>2. Cardinality(S \cup {x}) = IF x \in S THEN Cardinality(S) ELSE Cardinality(S) + 1
  BY FS_AddElement
<1>3. Cardinality(S \cup {x}) <= Cardinality(S) + 1
  BY <1>1, <1>2
<1> QED BY <1>1, <1>3, NoMore

LEMMA OneLess ==
    ASSUME NEW S, IsFiniteSet(S), NEW x \in S
    PROVE  /\ Cardinality(S \ {x}) \in Nat /\ Cardinality(S) \in Nat
           /\ Cardinality(S \ {x}) + 1 = Cardinality(S)
<1>1. Cardinality(S \ {x}) = Cardinality(S) - 1
  BY FS_RemoveElement
<1>2. Cardinality(S \ {x}) \in Nat /\ Cardinality(S) \in Nat
  BY FS_RemoveElement, FS_CardinalityType
<1> QED BY <1>1, <1>2

\* Some of the threads are at most all of them, and fewer if one is missing.
LEMMA SomeThreads ==
    ASSUME NEW S \in SUBSET Threads
    PROVE  /\ IsFiniteSet(S) /\ Cardinality(S) \in Nat
           /\ Late \in Nat /\ Cardinality(S) <= Late + 1
           /\ S # Threads => Cardinality(S) <= Late
<1>1. IsFiniteSet(Threads) /\ Cardinality(Threads) \in Nat /\ Cardinality(Threads) # 0
  BY LimitsAssumption, FS_CardinalityType, FS_EmptySet
<1>2. IsFiniteSet(S) /\ Cardinality(S) <= Cardinality(Threads)
      /\ (Cardinality(S) = Cardinality(Threads) => S = Threads)
  BY <1>1, FS_Subset
<1>3. Cardinality(S) \in Nat
  BY <1>2, FS_CardinalityType
<1> QED BY <1>1, <1>2, <1>3 DEF Late

LEMMA LateIsNat == Late \in Nat
BY SomeThreads, {} \in SUBSET Threads

LEMMA HeldAreThreads == \A time : Held(time) \in SUBSET Threads
BY DEF Held

\* The stamps in a window are finitely many.
LEMMA WithinFinite ==
    ASSUME TypeOK, NEW k \in Keys, NEW time
    PROVE  /\ Within(k, time) \subseteq 1..Len(admitted[k])
           /\ IsFiniteSet(Within(k, time)) /\ Cardinality(Within(k, time)) \in Nat
<1>1. Within(k, time) \subseteq 1..Len(admitted[k]) /\ Len(admitted[k]) \in Nat
  BY DEF Within, Recent, TypeOK
<1>2. IsFiniteSet(1..Len(admitted[k]))
  BY <1>1, FS_Interval
<1> QED BY <1>1, <1>2, FS_Subset, FS_CardinalityType

LEMMA BehindFinite ==
    ASSUME TypeOK, NEW k \in Keys, NEW i
    PROVE  /\ Behind(k, i) \subseteq 1..Len(admitted[k])
           /\ IsFiniteSet(Behind(k, i)) /\ Cardinality(Behind(k, i)) \in Nat
<1>1. Behind(k, i) \subseteq 1..Len(admitted[k]) /\ Len(admitted[k]) \in Nat
  BY DEF Behind, TypeOK
<1>2. IsFiniteSet(1..Len(admitted[k]))
  BY <1>1, FS_Interval
<1> QED BY <1>1, <1>2, FS_Subset, FS_CardinalityType

LEMMA StampsArePast ==
    ASSUME TypeOK, WindowsInv, NEW k \in Keys, NEW i \in DOMAIN admitted[k]
    PROVE  admitted[k][i] \in 0..MaxClock /\ admitted[k][i] \in Int /\ admitted[k][i] <= clock
<1>1. admitted[k] \in Seq(0..MaxClock) /\ i \in 1..Len(admitted[k])
  BY DEF TypeOK
<1>2. admitted[k][i] \in 0..MaxClock
  BY <1>1, ElementOfSeq
<1> QED BY <1>2, LimitsAssumption DEF WindowsInv, ReadingsArePast

\* While no stamp of a window has been dropped, all of them are in the queue.
LEMMA KeptWindowIsFull ==
    ASSUME TypeOK, NEW k \in Keys, QueueIsTail(k), NEW time,
           \A n \in Within(k, time) : ~(n <= Dropped(k))
    PROVE  Cardinality(Within(k, time)) <= Limit[k]
<1>1. /\ Len(hits[k]) \in Nat /\ Len(admitted[k]) \in Nat /\ Limit[k] \in Nat
      /\ Len(hits[k]) <= Limit[k] /\ Len(hits[k]) <= Len(admitted[k])
  BY LimitsAssumption DEF TypeOK, QueueIsTail
<1>2. Dropped(k) \in Nat /\ Len(admitted[k]) - Dropped(k) = Len(hits[k])
  BY <1>1 DEF Dropped
<1>3. Within(k, time) \in SUBSET ((Dropped(k) + 1)..Len(admitted[k]))
  <2>1. ASSUME NEW n \in Within(k, time) PROVE n \in (Dropped(k) + 1)..Len(admitted[k])
    <3>1. n \in 1..Len(admitted[k]) /\ ~(n <= Dropped(k))
      BY WithinFinite
    <3> QED BY <1>1, <1>2, <3>1
  <2> QED BY <2>1
<1>4. /\ IsFiniteSet((Dropped(k) + 1)..Len(admitted[k]))
      /\ Cardinality((Dropped(k) + 1)..Len(admitted[k])) = Len(hits[k])
  <2>1. Dropped(k) + 1 \in Int /\ Len(admitted[k]) \in Int
    BY <1>1, <1>2
  <2>2. Cardinality((Dropped(k) + 1)..Len(admitted[k])) =
           IF Dropped(k) + 1 > Len(admitted[k]) THEN 0
           ELSE Len(admitted[k]) - (Dropped(k) + 1) + 1
    BY <2>1, FS_Interval
  <2>3. IsFiniteSet((Dropped(k) + 1)..Len(admitted[k]))
    BY <2>1, FS_Interval
  <2>4. CASE Dropped(k) + 1 > Len(admitted[k])
    BY <1>1, <1>2, <2>2, <2>3, <2>4
  <2>5. CASE ~(Dropped(k) + 1 > Len(admitted[k]))
    BY <1>1, <1>2, <2>2, <2>3, <2>5
  <2> QED BY <2>4, <2>5
<1>5. Cardinality(Within(k, time)) <= Len(hits[k])
  BY <1>3, <1>4, FS_Subset
<1> QED BY <1>1, <1>5, WithinFinite

\* The stamps behind another one stay few if no thread comes to hold an older reading than the
\* clock.
LEMMA BehindAlone ==
    ASSUME TypeOK, TypeOK', WindowsInv,
           NEW k \in Keys, admitted'[k] = admitted[k],
           \A time \in Int : time < clock => Held(time)' \subseteq Held(time)
    PROVE  FewBehind(k)'
<1>0. clock \in Int /\ MaxClock \in Nat
  BY LimitsAssumption DEF TypeOK
<1> SUFFICES ASSUME NEW i \in DOMAIN admitted'[k]
             PROVE  Cardinality(Behind(k, i)') + Cardinality(Held(admitted[k][i] - 1)') <= Late
  BY DEF FewBehind, Late
<1>1. Behind(k, i)' = Behind(k, i) /\ i \in DOMAIN admitted[k] /\ admitted'[k][i] = admitted[k][i]
  BY DEF Behind
<1>2. Cardinality(Behind(k, i)) + Cardinality(Held(admitted[k][i] - 1)) <= Late
  BY <1>1 DEF WindowsInv, FewBehind
<1>3. admitted[k][i] \in Int /\ admitted[k][i] <= clock
  BY <1>1, StampsArePast
<1>4. PICK time \in Int : time = admitted[k][i] - 1
  BY <1>3
<1>5. Held(admitted[k][i] - 1)' = Held(time)' /\ Held(time)' \subseteq Held(time)
  <2>1. time < clock
    BY <1>0, <1>3, <1>4
  <2>2. Held(admitted[k][i] - 1)' = Held(time)'
    BY <1>1, <1>4 DEF Held
  <2> QED BY <2>1, <2>2
<1>6. Held(time) \in SUBSET Threads /\ IsFiniteSet(Held(time)) /\ Cardinality(Held(time)) \in Nat
  BY HeldAreThreads, SomeThreads
<1>7. Cardinality(Held(time)') <= Cardinality(Held(time)) /\ Cardinality(Held(time)') \in Nat
  BY <1>5, <1>6, FS_Subset, FS_CardinalityType
<1>8. Cardinality(Behind(k, i)) \in Nat /\ Late \in Int
  BY BehindFinite, LateIsNat
<1> QED BY <1>1, <1>2, <1>4, <1>5, <1>6, <1>7, <1>8

\* A step that lets a queue alone, and of which no thread comes out holding an older reading
\* than the clock, keeps what the windows of that counter need.
LEMMA QueueAlone ==
    ASSUME TypeOK, TypeOK', WindowsInv, clock <= clock',
           NEW k \in Keys, hits'[k] = hits[k], admitted'[k] = admitted[k],
           \A time \in Int : time < clock => Held(time)' \subseteq Held(time)
    PROVE  QueueIsTail(k)' /\ DroppedIsOver(k)' /\ FewBehind(k)'
<1>0. clock \in Int /\ clock' \in Int /\ MaxClock \in Nat
  BY LimitsAssumption DEF TypeOK
<1>1. QueueIsTail(k)'
  BY DEF WindowsInv, QueueIsTail, Dropped
<1>2. DroppedIsOver(k)'
  <2> SUFFICES ASSUME NEW time \in 0..MaxClock,
                      (\E n \in Within(k, time) : n <= Dropped(k))'
               PROVE  /\ time < clock'
                      /\ Cardinality(Within(k, time)') + Cardinality(Held(time)') <= Limit[k] + Late
    BY DEF DroppedIsOver, Late
  <2>1. Within(k, time)' = Within(k, time) /\ Dropped(k)' = Dropped(k)
    BY DEF Within, Recent, Dropped
  <2>2. /\ time < clock
        /\ Cardinality(Within(k, time)) + Cardinality(Held(time)) <= Limit[k] + Late
    BY <2>1 DEF WindowsInv, DroppedIsOver
  <2>3. Held(time)' \in SUBSET Held(time) /\ IsFiniteSet(Held(time)) /\ Cardinality(Held(time)) \in Nat
    BY <1>0, <2>2, HeldAreThreads, SomeThreads
  <2>4. Cardinality(Held(time)') <= Cardinality(Held(time)) /\ Cardinality(Held(time)') \in Nat
    BY <2>3, FS_Subset, FS_CardinalityType
  <2>5. Cardinality(Within(k, time)) \in Nat /\ Limit[k] \in Nat /\ Late \in Int
    BY WithinFinite, LimitsAssumption, LateIsNat
  <2> QED BY <1>0, <2>1, <2>2, <2>3, <2>4, <2>5
<1>3. FewBehind(k)'
  BY BehindAlone
<1> QED BY <1>1, <1>2, <1>3

\* What a thread about to act on its reading leaves in the queue: a window that loses a stamp
\* by that is over, and the thread itself takes no more than its own share of it.
LEMMA PruningIsDue ==
    ASSUME TypeOK, WindowsInv, NEW t \in Threads, thread[t].pc = "lock"
    PROVE  LET k == Head(thread[t].todo)
           IN  \E m \in Dropped(k)..Len(admitted[k]) :
                  /\ Len(Kept(t)) = Len(admitted[k]) - m
                  /\ \A n \in 1..Len(Kept(t)) : Kept(t)[n] = admitted[k][n + m]
                  /\ m < Len(admitted[k]) => thread[t].read - admitted[k][m + 1] < Window[k]
                  /\ \A time \in 0..MaxClock :
                        (\E n \in Within(k, time) : n <= m) =>
                            /\ time < clock
                            /\ Cardinality(Within(k, time)) + Cardinality(Held(time) \ {t})
                                  + (IF thread[t].read <= time THEN 1 ELSE 0) <= Limit[k] + Late
<1> DEFINE k == Head(thread[t].todo)
<1>1. /\ k \in Keys
      /\ \E m \in 0..Len(hits[k]) :
            /\ Len(Kept(t)) = Len(hits[k]) - m
            /\ \A n \in 1..Len(Kept(t)) : Kept(t)[n] = hits[k][n + m]
            /\ \A n \in 1..m : thread[t].read - hits[k][n] >= Window[k]
            /\ m < Len(hits[k]) => thread[t].read - hits[k][m + 1] < Window[k]
  BY KeptIsTail
<1> HIDE DEF k
<1>0. Len(hits[k]) \in Nat
  BY <1>1 DEF TypeOK
<1>2. PICK m0 \in Int :
            /\ 0 <= m0 /\ m0 <= Len(hits[k])
            /\ Len(Kept(t)) = Len(hits[k]) - m0
            /\ \A n \in 1..Len(Kept(t)) : Kept(t)[n] = hits[k][n + m0]
            /\ \A n \in 1..m0 : thread[t].read - hits[k][n] >= Window[k]
            /\ m0 < Len(hits[k]) => thread[t].read - hits[k][m0 + 1] < Window[k]
  <2>1. PICK x \in 0..Len(hits[k]) :
            /\ Len(Kept(t)) = Len(hits[k]) - x
            /\ \A n \in 1..Len(Kept(t)) : Kept(t)[n] = hits[k][n + x]
            /\ \A n \in 1..x : thread[t].read - hits[k][n] >= Window[k]
            /\ x < Len(hits[k]) => thread[t].read - hits[k][x + 1] < Window[k]
    BY <1>1
  <2>2. x \in Int /\ 0 <= x /\ x <= Len(hits[k])
    BY <1>0, <2>1
  <2> QED BY <2>1, <2>2
<1>3. /\ Len(hits[k]) \in Nat /\ Len(admitted[k]) \in Nat
      /\ Len(hits[k]) <= Len(admitted[k])
      /\ \A n \in 1..Len(hits[k]) : hits[k][n] = admitted[k][n + Dropped(k)]
  BY <1>1 DEF TypeOK, WindowsInv, QueueIsTail
<1>4. PICK d \in Nat : d = Dropped(k) /\ Len(hits[k]) + d = Len(admitted[k])
  <2> DEFINE d0 == Len(admitted[k]) - Len(hits[k])
  <2>1. d0 \in Nat /\ Len(hits[k]) + d0 = Len(admitted[k])
    BY <1>3
  <2>2. d0 = Dropped(k)
    BY DEF Dropped
  <2> HIDE DEF d0
  <2> QED BY <2>1, <2>2
<1>c. \A n \in 1..Len(hits[k]) : hits[k][n] = admitted[k][n + d]
  BY <1>3, <1>4
<1>d. /\ Len(hits[k]) + d = Len(admitted[k]) /\ Len(Kept(t)) + m0 = Len(hits[k]) /\ 0 <= m0 /\ m0 <= Len(hits[k])
      /\ Len(hits[k]) \in Nat /\ Len(admitted[k]) \in Nat /\ Len(hits[k]) <= Len(admitted[k])
  BY <1>2, <1>3, <1>4
<1>5. PICK m \in Int : m = d + m0
  OBVIOUS
<1>b. m \in d..Len(admitted[k]) /\ Len(Kept(t)) = Len(admitted[k]) - m
  <2>1. d <= m /\ m <= Len(admitted[k]) /\ Len(admitted[k]) \in Int
    BY <1>d, <1>5
  <2>2. Len(Kept(t)) = Len(admitted[k]) - m
    BY <1>d, <1>5
  <2> QED BY <2>1, <2>2
<1>6. \A n \in 1..Len(Kept(t)) : Kept(t)[n] = admitted[k][n + m]
  <2> TAKE n \in 1..Len(Kept(t))
  <2>0. n \in Nat /\ n >= 1 /\ n <= Len(hits[k]) - m0
    BY <1>d
  <2>1. n + m0 \in 1..Len(hits[k])
    <3>1. n + m0 \in Int /\ 1 <= n + m0 /\ n + m0 <= Len(hits[k]) /\ Len(hits[k]) \in Int
      BY <1>d, <2>0
    <3> QED BY <3>1
  <2>3. (n + m0) + d = n + m
    BY <1>5, <2>0
  <2>2. hits[k][n + m0] = admitted[k][(n + m0) + d]
    BY <1>c, <2>1
  <2> QED BY <1>2, <2>2, <2>3
<1>7. m < Len(admitted[k]) => thread[t].read - admitted[k][m + 1] < Window[k]
  <2> HAVE m < Len(admitted[k])
  <2>1. m0 + 1 \in 1..Len(hits[k]) /\ m0 < Len(hits[k])
    <3>1. 1 <= m0 + 1 /\ m0 < Len(hits[k]) /\ m0 + 1 <= Len(hits[k]) /\ Len(hits[k]) \in Int
      BY <1>d, <1>5
    <3> QED BY <3>1
  <2>3. (m0 + 1) + d = m + 1
    BY <1>5
  <2>2. hits[k][m0 + 1] = admitted[k][(m0 + 1) + d]
    BY <1>c, <2>1
  <2> QED BY <1>2, <2>1, <2>2, <2>3
<1>8. ASSUME NEW time \in 0..MaxClock, NEW n \in Within(k, time), n <= m
      PROVE  /\ time < clock
             /\ Cardinality(Within(k, time)) + Cardinality(Held(time) \ {t})
                   + (IF thread[t].read <= time THEN 1 ELSE 0) <= Limit[k] + Late
  <2>1. /\ thread[t].read \in Int /\ thread[t].read <= clock /\ clock \in Int /\ time \in Int
        /\ Window[k] \in Int /\ Limit[k] \in Int /\ Late \in Int
    <3>1. thread[t].read \in 0..MaxClock /\ clock \in 0..MaxClock
      BY DEF TypeOK, Thread
    <3>2. thread[t].read <= clock
      BY DEF WindowsInv, ReadingsArePast
    <3> QED BY <1>1, <3>1, <3>2, LimitsAssumption, LateIsNat
  <2>2. Cardinality(Within(k, time)) \in Nat /\ IsFiniteSet(Held(time)) /\ Cardinality(Held(time)) \in Nat
    BY <1>1, WithinFinite, HeldAreThreads, SomeThreads
  <2>3. Cardinality(Held(time) \ {t}) \in Nat /\ Cardinality(Held(time) \ {t}) <= Late
    <3>1. Held(time) \ {t} \in SUBSET Threads /\ Held(time) \ {t} # Threads
      BY HeldAreThreads
    <3> QED BY <3>1, SomeThreads
  <2>4. CASE \E i \in Within(k, time) : i <= d
    <3>1. /\ time < clock
          /\ Cardinality(Within(k, time)) + Cardinality(Held(time)) <= Limit[k] + Late
      BY <1>1, <1>4, <2>4 DEF WindowsInv, DroppedIsOver
    <3>2. t \in Held(time) <=> thread[t].read <= time
      BY DEF Held
    <3>3. Cardinality(Held(time) \ {t}) =
             IF t \in Held(time) THEN Cardinality(Held(time)) - 1 ELSE Cardinality(Held(time))
      BY <2>2, FS_RemoveElement
    <3> QED BY <2>1, <2>2, <2>3, <3>1, <3>2, <3>3
  <2>5. CASE ~(\E i \in Within(k, time) : i <= d)
    <3>1. Cardinality(Within(k, time)) <= Limit[k]
      BY <1>1, <1>4, <2>5, KeptWindowIsFull DEF WindowsInv
    <3>2. n \in 1..Len(admitted[k]) /\ ~(n <= d) /\ time - admitted[k][n] < Window[k]
      <4>1. n \in 1..Len(admitted[k])
        BY <1>1, WithinFinite
      <4> QED BY <2>5, <4>1, <1>8 DEF Within, Recent
    <3>3. admitted[k][n] \in Int
      <4>1. admitted[k] \in Seq(0..MaxClock)
        BY <1>1 DEF TypeOK
      <4>2. admitted[k][n] \in 0..MaxClock
        BY <3>2, <4>1, ElementOfSeq
      <4> QED BY <4>2, LimitsAssumption
    <3>4. n \in Int /\ 1 <= n - d /\ n - d <= m0
      BY <1>d, <1>5, <1>8, <3>2
    <3>5. thread[t].read - admitted[k][n] >= Window[k]
      <4>1. PICK j \in Int : j = n - d
        BY <3>4
      <4>2. 1 <= j /\ j <= m0 /\ j <= Len(hits[k]) /\ Len(hits[k]) \in Int
        BY <1>d, <3>4, <4>1
      <4>3. j \in 1..m0 /\ j \in 1..Len(hits[k])
        BY <4>2
      <4>4. j + d = n
        BY <3>4, <4>1
      <4> QED BY <1>2, <1>c, <4>3, <4>4
    <3>6. time < thread[t].read
      BY <2>1, <3>2, <3>3, <3>5
    <3> QED BY <2>1, <2>2, <2>3, <3>1, <3>6
  <2> QED BY <2>4, <2>5
<1> QED BY <1>4, <1>b, <1>6, <1>7, <1>8 DEF k

\* A thread that is not about to act on a reading any more is not among those that are.
LEMMA HeldWithout ==
    ASSUME TypeOK, NEW t \in Threads, NEW th, th.pc # "lock",
           thread' = [thread EXCEPT ![t] = th]
    PROVE  \A time : Held(time)' = Held(time) \ {t}
BY DEF Held, TypeOK

\* A call that is admitted keeps what the windows of its counter need.
LEMMA AdmitKeeps ==
    ASSUME TypeOK, TypeOK', WindowsInv, NEW t \in Threads, Admit(t)
    PROVE  \A k \in Keys : QueueIsTail(k)' /\ DroppedIsOver(k)' /\ FewBehind(k)'
<1>0. PICK k, r, L, th :
         /\ k = Head(thread[t].todo) /\ r = thread[t].read /\ L = Len(admitted[k])
         /\ th = Pass(thread[t], Tail(thread[t].todo))
  OBVIOUS
<1>1. /\ k \in Keys /\ thread[t].pc = "lock" /\ Len(Kept(t)) < Limit[k]
      /\ Kept(t) \in Seq(0..MaxClock)
      /\ hits' = [hits EXCEPT ![k] = Append(Kept(t), r)]
      /\ admitted' = [admitted EXCEPT ![k] = Append(admitted[k], r)]
      /\ thread' = [thread EXCEPT ![t] = th]
      /\ clock' = clock
  BY <1>0, KeptIsTail DEF Admit, Go
<1>2. \A time : Held(time)' = Held(time) \ {t}
  <2>1. th.pc # "lock"
    BY <1>0 DEF Pass, TypeOK, Thread
  <2> QED BY <1>1, <2>1, HeldWithout
<1>3. ASSUME NEW j \in Keys, j # k PROVE QueueIsTail(j)' /\ DroppedIsOver(j)' /\ FewBehind(j)'
  <2>1. hits'[j] = hits[j] /\ admitted'[j] = admitted[j]
    BY <1>1, <1>3
  <2>2. clock <= clock'
    BY <1>1, LimitsAssumption DEF TypeOK
  <2> QED BY <1>2, <2>1, <2>2, QueueAlone
<1>4. PICK m \in Dropped(k)..L :
         /\ Len(Kept(t)) = L - m
         /\ \A n \in 1..Len(Kept(t)) : Kept(t)[n] = admitted[k][n + m]
         /\ \A time \in 0..MaxClock :
               (\E n \in Within(k, time) : n <= m) =>
                   /\ time < clock
                   /\ Cardinality(Within(k, time)) + Cardinality(Held(time) \ {t})
                         + (IF r <= time THEN 1 ELSE 0) <= Limit[k] + Late
  BY <1>0, <1>1, PruningIsDue
<1>5. /\ r \in 0..MaxClock /\ r \in Int /\ admitted[k] \in Seq(0..MaxClock) /\ L \in Nat
      /\ L = Len(admitted[k])
      /\ hits[k] \in Seq(0..MaxClock) /\ Limit[k] \in Nat /\ Late \in Nat /\ Window[k] \in Int
  <2>1. r \in 0..MaxClock
    BY <1>0 DEF TypeOK, Thread
  <2>2. admitted[k] \in Seq(0..MaxClock) /\ hits[k] \in Seq(0..MaxClock)
    BY <1>1 DEF TypeOK
  <2> QED BY <1>0, <1>1, <2>1, <2>2, LimitsAssumption, LateIsNat
<1>6. /\ admitted'[k] = Append(admitted[k], r)
      /\ Len(admitted'[k]) = L + 1
      /\ \A n \in 1..L : admitted'[k][n] = admitted[k][n]
      /\ admitted'[k][L + 1] = r
  BY <1>1, <1>5, AppendProperties DEF TypeOK
<1>7. /\ Len(hits'[k]) = Len(Kept(t)) + 1
      /\ \A n \in 1..Len(Kept(t)) : hits'[k][n] = Kept(t)[n]
      /\ hits'[k][Len(Kept(t)) + 1] = r
  BY <1>1, <1>5, AppendProperties DEF TypeOK
<1>a. Dropped(k) \in Nat
  <2>1. Len(hits[k]) \in Nat /\ L \in Nat /\ Len(hits[k]) <= L
    BY <1>1, <1>5 DEF WindowsInv, QueueIsTail
  <2> QED BY <1>5, <2>1 DEF Dropped
<1>b. m \in Nat /\ m <= L /\ Len(Kept(t)) \in Nat /\ Len(Kept(t)) + m = L
  <2>1. m \in Nat /\ m <= L
    BY <1>5, <1>a
  <2>2. Len(Kept(t)) \in Nat
    BY <1>1
  <2> QED BY <1>4, <1>5, <2>1, <2>2
<1>c. Dropped(k)' = m
  <2>1. Dropped(k)' = (L + 1) - (Len(Kept(t)) + 1)
    BY <1>1, <1>6, <1>7 DEF Dropped
  <2>2. (L + 1) - (Len(Kept(t)) + 1) = m
    BY <1>5, <1>b
  <2> QED BY <2>1, <2>2
<1>8. QueueIsTail(k)'
  <2>1. Len(hits'[k]) <= Limit[k]
    BY <1>1, <1>5, <1>7, <1>b
  <2>2. Len(hits'[k]) <= Len(admitted'[k])
    BY <1>5, <1>6, <1>7, <1>b
  <2>3. ASSUME NEW n \in 1..Len(hits'[k]) PROVE hits'[k][n] = admitted'[k][n + m]
    <3>1. CASE n = Len(Kept(t)) + 1
      <4>1. n + m = L + 1
        BY <1>5, <1>b, <3>1, SMTT(30)
      <4> QED BY <1>6, <1>7, <3>1, <4>1
    <3>2. CASE n # Len(Kept(t)) + 1
      <4>1. n \in Int /\ 1 <= n /\ n <= Len(Kept(t))
        BY <1>7, <1>b, <3>2
      <4>2. n + m \in Int /\ 1 <= n + m /\ n + m <= L
        BY <1>5, <1>b, <4>1
      <4>3. n \in 1..Len(Kept(t)) /\ n + m \in 1..L
        BY <1>5, <1>b, <4>1, <4>2
      <4> QED BY <1>4, <1>6, <1>7, <4>3
    <3> QED BY <3>1, <3>2
  <2> QED BY <2>1, <2>2, <2>3, <1>c DEF QueueIsTail
<1>9. DroppedIsOver(k)'
  <2> SUFFICES ASSUME NEW time \in 0..MaxClock, NEW n \in Within(k, time)', n <= m
               PROVE  /\ time < clock'
                      /\ Cardinality(Within(k, time)') + Cardinality(Held(time)') <= Limit[k] + Late
    BY <1>c DEF DroppedIsOver, Late
  <2>0. time \in Int
    OBVIOUS
  <2>1. ASSUME NEW i \in Within(k, time)', i # L + 1 PROVE i \in Within(k, time)
    <3>1. i \in 1..Len(admitted'[k]) /\ time - admitted'[k][i] < Window[k] /\ admitted'[k][i] <= time
      <4>1. admitted'[k] \in Seq(0..MaxClock)
        BY <1>1 DEF TypeOK
      <4>2. DOMAIN admitted'[k] = 1..Len(admitted'[k])
        BY <4>1, LenProperties
      <4> QED BY <4>2 DEF Within, Recent
    <3>2. i \in 1..L
      BY <1>5, <1>6, <2>1, <3>1
    <3>3. admitted'[k][i] = admitted[k][i]
      BY <1>6, <3>2
    <3>4. i \in DOMAIN admitted[k]
      BY <1>5, <3>2
    <3> QED BY <3>1, <3>3, <3>4 DEF Within, Recent
  <2>2. L + 1 \in Within(k, time)' => r <= time
    BY <1>6 DEF Within
  <2>3. n \in Within(k, time)
    <3>1. n # L + 1
      BY <1>5, <1>b
    <3> QED BY <2>1, <3>1
  <2>4. /\ time < clock
        /\ Cardinality(Within(k, time)) + Cardinality(Held(time) \ {t})
              + (IF r <= time THEN 1 ELSE 0) <= Limit[k] + Late
    BY <1>4, <2>3
  <2>5. IsFiniteSet(Within(k, time)) /\ Cardinality(Within(k, time)) \in Nat
    BY <1>1, WithinFinite
  <2>6. /\ Cardinality(Within(k, time)') \in Nat
        /\ Cardinality(Within(k, time)') <=
              Cardinality(Within(k, time)) + (IF r <= time THEN 1 ELSE 0)
    <3>1. CASE r <= time
      <4>1. Within(k, time)' \in SUBSET (Within(k, time) \cup {L + 1})
        BY <2>1
      <4>2. /\ Cardinality(Within(k, time)') <= Cardinality(Within(k, time)) + 1
            /\ Cardinality(Within(k, time)') \in Nat
        BY <2>5, <4>1, AtMostOneMore
      <4> QED BY <2>5, <3>1, <4>2
    <3>2. CASE ~(r <= time)
      <4>1. Within(k, time)' \in SUBSET Within(k, time)
        BY <2>1, <2>2, <3>2
      <4>2. /\ Cardinality(Within(k, time)') <= Cardinality(Within(k, time))
            /\ Cardinality(Within(k, time)') \in Nat
        BY <2>5, <4>1, NoMore
      <4> QED BY <2>5, <3>2, <4>2
    <3> QED BY <3>1, <3>2
  <2>7. Held(time)' = Held(time) \ {t} /\ Cardinality(Held(time) \ {t}) \in Nat
    <3>1. Held(time) \ {t} \in SUBSET Threads
      BY HeldAreThreads
    <3> QED BY <1>2, <3>1, SomeThreads
  <2> QED BY <1>1, <1>5, <2>4, <2>5, <2>6, <2>7, SMTT(30)
<1>d. FewBehind(k)'
  <2> SUFFICES ASSUME NEW i \in 1..(L + 1)
               PROVE  Cardinality(Behind(k, i)') + Cardinality(Held(admitted[k][i] - 1)') <= Late
    <3>1. DOMAIN admitted'[k] = 1..(L + 1)
      BY <1>1, <1>6 DEF TypeOK
    <3> QED BY <3>1 DEF FewBehind, Late
  <2>1. CASE i = L + 1
    <3>1. Behind(k, i)' = {}
      <4>1. DOMAIN admitted'[k] = 1..(L + 1)
        BY <1>1, <1>6 DEF TypeOK
      <4>2. ASSUME NEW n \in Behind(k, i)' PROVE FALSE
        <5>1. n \in 1..(L + 1) /\ n > i
          BY <4>1 DEF Behind
        <5> QED BY <1>5, <2>1, <5>1
      <4> QED BY <4>2
    <3>2. Held(admitted[k][i] - 1)' \in SUBSET Threads /\ t \notin Held(admitted[k][i] - 1)'
      <4>1. Held(r - 1)' = Held(r - 1) \ {t}
        BY <1>2
      <4>2. Held(admitted[k][i] - 1)' = Held(r - 1)'
        BY <1>6, <2>1 DEF Held
      <4> QED BY <4>1, <4>2, HeldAreThreads
    <3>3. Cardinality(Held(admitted[k][i] - 1)') <= Late
      BY <3>2, SomeThreads
    <3>4. Cardinality(Held(admitted[k][i] - 1)') \in Nat
      BY <3>2, SomeThreads
    <3> QED BY <1>5, <3>1, <3>3, <3>4, FS_EmptySet
  <2>2. CASE i # L + 1
    <3>0. i \in 1..L /\ i \in DOMAIN admitted[k]
      BY <1>5, <2>2
    <3>1. admitted'[k][i] = admitted[k][i] /\ admitted[k][i] \in Int
      BY <1>1, <1>6, <3>0, StampsArePast
    <3>2. PICK time \in Int : time = admitted[k][i] - 1
      BY <3>1
    <3>3. Cardinality(Behind(k, i)) + Cardinality(Held(time)) <= Late
      BY <1>1, <3>0, <3>2 DEF WindowsInv, FewBehind
    <3>4. Held(admitted[k][i] - 1)' = Held(time) \ {t}
      <4>1. Held(admitted[k][i] - 1)' = Held(time)'
        BY <3>1, <3>2 DEF Held
      <4> QED BY <1>2, <4>1
    <3>5. ASSUME NEW n \in Behind(k, i)' PROVE n \in Behind(k, i) \/ (n = L + 1 /\ r <= time)
      <4>1. n \in 1..(L + 1) /\ n > i /\ admitted'[k][n] < admitted[k][i]
        BY <1>1, <1>6, <3>1 DEF Behind, TypeOK
      <4>2. CASE n = L + 1
        BY <1>5, <1>6, <3>1, <3>2, <4>1, <4>2
      <4>3. CASE n # L + 1
        <5>1. n \in 1..L
          BY <1>5, <4>1, <4>3
        <5>2. n \in DOMAIN admitted[k] /\ admitted'[k][n] = admitted[k][n]
          BY <1>5, <1>6, <5>1
        <5> QED BY <4>1, <5>2 DEF Behind
      <4> QED BY <4>2, <4>3
    <3>6. IsFiniteSet(Behind(k, i)) /\ Cardinality(Behind(k, i)) \in Nat
      BY <1>1, BehindFinite
    <3>7. IsFiniteSet(Held(time)) /\ Cardinality(Held(time)) \in Nat
      BY HeldAreThreads, SomeThreads
    <3>8. CASE r <= time
      <4>1. t \in Held(time)
        BY <1>0, <1>1, <3>8 DEF Held
      <4>2. Behind(k, i)' \in SUBSET (Behind(k, i) \cup {L + 1})
        BY <3>5
      <4>3. /\ Cardinality(Behind(k, i)') <= Cardinality(Behind(k, i)) + 1
            /\ Cardinality(Behind(k, i)') \in Nat
        BY <3>6, <4>2, AtMostOneMore
      <4>4. /\ Cardinality(Held(time) \ {t}) + 1 = Cardinality(Held(time))
            /\ Cardinality(Held(time) \ {t}) \in Nat
        BY <3>7, <4>1, OneLess
      <4>5. Cardinality(Behind(k, i)') + Cardinality(Held(time) \ {t}) <= Late
        BY <1>5, <3>3, <3>6, <3>7, <4>3, <4>4
      <4> QED BY <3>4, <4>5
    <3>9. CASE ~(r <= time)
      <4>1. Behind(k, i)' \in SUBSET Behind(k, i)
        BY <3>5, <3>9
      <4>2. Cardinality(Behind(k, i)') <= Cardinality(Behind(k, i)) /\ Cardinality(Behind(k, i)') \in Nat
        BY <3>6, <4>1, NoMore
      <4>3. /\ Cardinality(Held(time) \ {t}) <= Cardinality(Held(time))
            /\ Cardinality(Held(time) \ {t}) \in Nat
        BY <3>7, NoMore
      <4>4. Cardinality(Behind(k, i)') + Cardinality(Held(time) \ {t}) <= Late
        BY <1>5, <3>3, <3>6, <3>7, <4>2, <4>3
      <4> QED BY <3>4, <4>4
    <3> QED BY <3>8, <3>9
  <2> QED BY <2>1, <2>2
<1> QED BY <1>3, <1>8, <1>9, <1>d

\* A call that is refused prunes the queue, and keeps what the windows of its counter need.
LEMMA RefuseKeeps ==
    ASSUME TypeOK, TypeOK', WindowsInv, NEW t \in Threads, Refuse(t)
    PROVE  \A k \in Keys : QueueIsTail(k)' /\ DroppedIsOver(k)' /\ FewBehind(k)'
<1>0. PICK k, r : k = Head(thread[t].todo) /\ r = thread[t].read
  OBVIOUS
<1>1. /\ k \in Keys /\ thread[t].pc = "lock" /\ Kept(t) \in Seq(0..MaxClock)
      /\ hits' = [hits EXCEPT ![k] = Kept(t)] /\ admitted' = admitted
      /\ thread' = [thread EXCEPT ![t] = Idle]
      /\ clock' = clock
  BY <1>0, KeptIsTail DEF Refuse, Go
<1>2. \A time : Held(time)' = Held(time) \ {t}
  <2>1. Idle.pc # "lock"
    BY DEF Idle
  <2> QED BY <1>1, <2>1, HeldWithout
<1>3. clock <= clock'
  BY <1>1, LimitsAssumption DEF TypeOK
<1>4. ASSUME NEW j \in Keys, j # k PROVE QueueIsTail(j)' /\ DroppedIsOver(j)' /\ FewBehind(j)'
  <2>1. hits'[j] = hits[j] /\ admitted'[j] = admitted[j]
    BY <1>1, <1>4
  <2> QED BY <1>2, <1>3, <2>1, QueueAlone
<1>5. PICK m \in Dropped(k)..Len(admitted[k]) :
         /\ Len(Kept(t)) = Len(admitted[k]) - m
         /\ \A n \in 1..Len(Kept(t)) : Kept(t)[n] = admitted[k][n + m]
         /\ \A time \in 0..MaxClock :
               (\E n \in Within(k, time) : n <= m) =>
                   /\ time < clock
                   /\ Cardinality(Within(k, time)) + Cardinality(Held(time) \ {t})
                         + (IF r <= time THEN 1 ELSE 0) <= Limit[k] + Late
  BY <1>0, <1>1, PruningIsDue
<1>6. /\ Len(admitted[k]) \in Nat /\ Len(hits[k]) \in Nat /\ Len(hits[k]) <= Len(admitted[k])
      /\ Len(hits[k]) <= Limit[k] /\ Limit[k] \in Nat /\ Len(Kept(t)) \in Nat /\ Late \in Nat
  <2>1. admitted[k] \in Seq(0..MaxClock) /\ hits[k] \in Seq(0..MaxClock)
    BY <1>1 DEF TypeOK
  <2>2. Len(hits[k]) <= Len(admitted[k]) /\ Len(hits[k]) <= Limit[k]
    BY <1>1 DEF WindowsInv, QueueIsTail
  <2> QED BY <1>1, <2>1, <2>2, LimitsAssumption, LateIsNat
<1>7. Dropped(k) \in Nat /\ Len(hits[k]) + Dropped(k) = Len(admitted[k])
  <2>1. PICK d \in Nat : d = Dropped(k) /\ Len(hits[k]) + d = Len(admitted[k])
    <3> DEFINE d0 == Len(admitted[k]) - Len(hits[k])
    <3>1. d0 \in Nat /\ Len(hits[k]) + d0 = Len(admitted[k])
      BY <1>6
    <3>2. d0 = Dropped(k)
      BY DEF Dropped
    <3> HIDE DEF d0
    <3> QED BY <3>1, <3>2
  <2> QED BY <2>1
<1>8. /\ m \in Nat /\ m <= Len(admitted[k]) /\ Len(Kept(t)) + m = Len(admitted[k])
      /\ Len(Kept(t)) <= Len(hits[k])
  <2>1. m \in Nat /\ m <= Len(admitted[k]) /\ Dropped(k) <= m
    BY <1>6, <1>7
  <2>2. Len(Kept(t)) + m = Len(admitted[k])
    BY <1>5, <1>6, <2>1
  <2> QED BY <1>6, <1>7, <2>1, <2>2
<1>9. Dropped(k)' = m /\ hits'[k] = Kept(t)
  <2>1. hits'[k] = Kept(t)
    BY <1>1 DEF TypeOK
  <2>2. Dropped(k)' = Len(admitted[k]) - Len(Kept(t))
    BY <1>1, <2>1 DEF Dropped
  <2>3. Len(admitted[k]) - Len(Kept(t)) = m
    BY <1>6, <1>8
  <2> QED BY <2>1, <2>2, <2>3
<1>a. QueueIsTail(k)'
  <2>1. Len(Kept(t)) <= Limit[k] /\ Len(Kept(t)) <= Len(admitted[k])
    BY <1>6, <1>8
  <2> QED BY <1>1, <1>5, <1>9, <2>1 DEF QueueIsTail
<1>b. DroppedIsOver(k)'
  <2> SUFFICES ASSUME NEW time \in 0..MaxClock, NEW n \in Within(k, time)', n <= m
               PROVE  /\ time < clock'
                      /\ Cardinality(Within(k, time)') + Cardinality(Held(time)') <= Limit[k] + Late
    BY <1>9 DEF DroppedIsOver, Late
  <2>1. Within(k, time)' = Within(k, time)
    BY <1>1 DEF Within, Recent
  <2>2. /\ time < clock
        /\ Cardinality(Within(k, time)) + Cardinality(Held(time) \ {t})
              + (IF r <= time THEN 1 ELSE 0) <= Limit[k] + Late
    BY <1>5, <2>1
  <2>3. Cardinality(Within(k, time)) \in Nat /\ Cardinality(Held(time) \ {t}) \in Nat
    <3>1. Held(time) \ {t} \in SUBSET Threads
      BY HeldAreThreads
    <3> QED BY <1>1, <3>1, WithinFinite, SomeThreads
  <2>4. Cardinality(Within(k, time)) + Cardinality(Held(time) \ {t}) <= Limit[k] + Late
    BY <1>6, <2>2, <2>3
  <2> QED BY <1>1, <1>2, <2>1, <2>2, <2>4
<1>c. FewBehind(k)'
  BY <1>1, <1>2, BehindAlone
<1> QED BY <1>4, <1>a, <1>b, <1>c

\* No step brings a reading ahead of the clock.
LEMMA ReadingsStayPast ==
    ASSUME TypeOK, TypeOK', ReadingsArePast, [Next]_vars
    PROVE  ReadingsArePast'
<1> USE DEF ReadingsArePast
<1>0. /\ clock \in 0..MaxClock /\ MaxClock \in Nat
      /\ \A c, d \in 0..MaxClock : c <= d => DateOf[c] <= DateOf[d]
      /\ DateOf \in [0..MaxClock -> 0..LastDay] /\ LastDay \in Nat
  BY LimitsAssumption DEF TypeOK
<1>1. ASSUME NEW t \in Threads, NEW q \in Requests, Arrive(t, q) PROVE ReadingsArePast'
  <2>1. PICK th : th = Pass([Idle EXCEPT !.units = Units[q]], Checks[q])
    OBVIOUS
  <2>2. th.pc \notin {"lock", "charge"}
    BY <2>1 DEF Pass, Idle
  <2>3. thread' = [thread EXCEPT ![t] = th] /\ clock' = clock /\ admitted' = admitted
    BY <1>1, <2>1 DEF Arrive, Go
  <2> QED BY <2>2, <2>3 DEF TypeOK
<1>2. ASSUME NEW t \in Threads, ReadClock(t) PROVE ReadingsArePast'
  <2>1. PICK th : th = [thread[t] EXCEPT !.pc = "lock", !.read = clock]
    OBVIOUS
  <2>2. th.pc = "lock" /\ th.read = clock
    BY <2>1 DEF TypeOK, Thread
  <2>3. thread' = [thread EXCEPT ![t] = th] /\ clock' = clock /\ admitted' = admitted
    BY <1>2, <2>1 DEF ReadClock, Go
  <2>4. th.read <= clock
    BY <1>0, <2>2
  <2> QED BY <2>2, <2>3, <2>4 DEF TypeOK
<1>3. ASSUME NEW t \in Threads, Admit(t) PROVE ReadingsArePast'
  <2>1. PICK k, r, th : /\ k = Head(thread[t].todo) /\ r = thread[t].read
                        /\ th = Pass(thread[t], Tail(thread[t].todo))
    OBVIOUS
  <2>2. /\ k \in Keys /\ thread[t].pc = "lock" /\ r \in 0..MaxClock
        /\ admitted' = [admitted EXCEPT ![k] = Append(admitted[k], r)]
        /\ thread' = [thread EXCEPT ![t] = th] /\ clock' = clock
    BY <1>3, <2>1, KeptIsTail DEF Admit, Go, TypeOK, Thread
  <2>3. th.pc \notin {"lock", "charge"}
    BY <2>1 DEF Pass, TypeOK, Thread
  <2>4. r <= clock
    BY <2>1, <2>2
  <2>5. ASSUME NEW n \in DOMAIN admitted'[k] PROVE admitted'[k][n] <= clock
    <3>1. /\ admitted[k] \in Seq(0..MaxClock) /\ Len(admitted[k]) \in Nat
          /\ admitted'[k] = Append(admitted[k], r) /\ n \in 1..Len(admitted'[k])
      BY <2>2 DEF TypeOK
    <3>2. /\ Len(admitted'[k]) = Len(admitted[k]) + 1
          /\ \A i \in 1..Len(admitted[k]) : admitted'[k][i] = admitted[k][i]
          /\ admitted'[k][Len(admitted[k]) + 1] = r
      BY <2>2, <3>1, AppendProperties
    <3>3. CASE n = Len(admitted[k]) + 1
      BY <2>4, <3>2, <3>3
    <3>4. CASE n # Len(admitted[k]) + 1
      <4>1. n \in 1..Len(admitted[k]) /\ n \in DOMAIN admitted[k]
        BY <3>1, <3>2, <3>4
      <4> QED BY <2>2, <3>2, <4>1
    <3> QED BY <3>3, <3>4
  <2>6. \A j \in Keys : j # k => admitted'[j] = admitted[j]
    BY <2>2
  <2>7. \A u \in Threads : u # t => thread'[u] = thread[u]
    BY <2>2
  <2>8. thread'[t].pc \notin {"lock", "charge"}
    BY <2>2, <2>3 DEF TypeOK
  <2> QED BY <2>2, <2>5, <2>6, <2>7, <2>8
<1>4. ASSUME NEW t \in Threads, Refuse(t) PROVE ReadingsArePast'
  BY <1>4 DEF Refuse, Go, TypeOK, Idle
<1>5. ASSUME NEW t \in Threads, ReadDay(t) PROVE ReadingsArePast'
  <2>1. DateOf[clock] <= DateOf[clock]
    BY <1>0
  <2> QED BY <1>5, <2>1 DEF ReadDay, Go, TypeOK, Thread
<1>6. ASSUME NEW t \in Threads, Charge(t) PROVE ReadingsArePast'
  BY <1>6 DEF Charge, Go, TypeOK, Idle
<1>7. ASSUME Tick PROVE ReadingsArePast'
  <2>1. clock' = clock + 1 /\ clock' \in 0..MaxClock /\ DateOf[clock] <= DateOf[clock']
        /\ DateOf[clock] \in Int /\ DateOf[clock'] \in Int
    BY <1>0, <1>7 DEF Tick
  <2>2. ASSUME NEW t \in Threads, thread[t].pc = "lock" PROVE thread[t].read <= clock'
    <3>1. thread[t].read \in 0..MaxClock
      BY DEF TypeOK, Thread
    <3> QED BY <1>0, <2>1, <2>2, <3>1
  <2>3. ASSUME NEW t \in Threads, thread[t].pc = "charge" PROVE thread[t].today <= DateOf[clock']
    <3>1. thread[t].today \in 0..LastDay
      BY DEF TypeOK, Thread, Days
    <3> QED BY <1>0, <2>1, <2>3, <3>1
  <2>4. ASSUME NEW k \in Keys, NEW n \in DOMAIN admitted[k] PROVE admitted[k][n] <= clock'
    <3>1. admitted[k] \in Seq(0..MaxClock) /\ n \in 1..Len(admitted[k])
      BY DEF TypeOK
    <3>2. admitted[k][n] \in 0..MaxClock
      BY <3>1, ElementOfSeq
    <3> QED BY <1>0, <2>1, <3>2
  <2>5. thread' = thread /\ admitted' = admitted
    BY <1>7 DEF Tick
  <2> QED BY <2>2, <2>3, <2>4, <2>5
<1>8. ASSUME Restart PROVE ReadingsArePast'
  BY <1>8 DEF Restart, Idle
<1>9. CASE UNCHANGED vars
  BY <1>9 DEF vars
<1> QED BY <1>1, <1>2, <1>3, <1>4, <1>5, <1>6, <1>7, <1>8, <1>9 DEF Next, Step

LEMMA WindowsKept ==
    ASSUME TypeOK, TypeOK', WindowsInv, [Next]_vars
    PROVE  WindowsInv'
<1> SUFFICES \A k \in Keys : QueueIsTail(k)' /\ DroppedIsOver(k)' /\ FewBehind(k)'
  BY ReadingsStayPast DEF WindowsInv
<1>0. clock \in Nat
  BY LimitsAssumption DEF TypeOK
<1>1. ASSUME UNCHANGED <<hits, admitted>>, clock <= clock',
             \A time \in Int : time < clock => Held(time)' \subseteq Held(time)
      PROVE  \A k \in Keys : QueueIsTail(k)' /\ DroppedIsOver(k)' /\ FewBehind(k)'
  BY <1>1, QueueAlone
<1>2. ASSUME NEW t \in Threads, NEW th, th.pc # "lock", thread' = [thread EXCEPT ![t] = th],
             UNCHANGED <<hits, admitted, clock>>
      PROVE  \A k \in Keys : QueueIsTail(k)' /\ DroppedIsOver(k)' /\ FewBehind(k)'
  <2>1. \A time : Held(time)' \subseteq Held(time)
    BY <1>2, HeldWithout
  <2> QED BY <1>0, <1>1, <1>2, <2>1
<1>3. ASSUME NEW t \in Threads, NEW q \in Requests, Arrive(t, q)
      PROVE  \A k \in Keys : QueueIsTail(k)' /\ DroppedIsOver(k)' /\ FewBehind(k)'
  <2>1. PICK th : th = Pass([Idle EXCEPT !.units = Units[q]], Checks[q])
    OBVIOUS
  <2>2. th.pc # "lock"
    BY <2>1 DEF Pass, Idle
  <2>3. thread' = [thread EXCEPT ![t] = th] /\ UNCHANGED <<hits, admitted, clock>>
    BY <1>3, <2>1 DEF Arrive, Go
  <2> QED BY <1>2, <2>2, <2>3
<1>4. ASSUME NEW t \in Threads, ReadClock(t)
      PROVE  \A k \in Keys : QueueIsTail(k)' /\ DroppedIsOver(k)' /\ FewBehind(k)'
  <2>1. PICK th : th = [thread[t] EXCEPT !.pc = "lock", !.read = clock]
    OBVIOUS
  <2>2. th.read = clock
    BY <2>1 DEF TypeOK, Thread
  <2>3. thread' = [thread EXCEPT ![t] = th] /\ UNCHANGED <<hits, admitted, clock>>
    BY <1>4, <2>1 DEF ReadClock, Go
  <2>4. ASSUME NEW time \in Int, time < clock, NEW u \in Held(time)' PROVE u \in Held(time)
    <3>1. u \in Threads /\ thread'[u].pc = "lock" /\ thread'[u].read <= time
      BY DEF Held
    <3>2. u # t
      BY <1>0, <2>2, <2>3, <2>4, <3>1 DEF TypeOK
    <3> QED BY <2>3, <3>1, <3>2 DEF Held
  <2> QED BY <1>0, <1>1, <2>3, <2>4
<1>5. ASSUME NEW t \in Threads, ReadDay(t)
      PROVE  \A k \in Keys : QueueIsTail(k)' /\ DroppedIsOver(k)' /\ FewBehind(k)'
  <2>1. PICK th : th = [thread[t] EXCEPT !.pc = "charge", !.today = DateOf[clock]]
    OBVIOUS
  <2>2. th.pc # "lock"
    BY <2>1 DEF TypeOK, Thread
  <2>3. thread' = [thread EXCEPT ![t] = th] /\ UNCHANGED <<hits, admitted, clock>>
    BY <1>5, <2>1 DEF ReadDay, Go
  <2> QED BY <1>2, <2>2, <2>3
<1>6. ASSUME NEW t \in Threads, Charge(t)
      PROVE  \A k \in Keys : QueueIsTail(k)' /\ DroppedIsOver(k)' /\ FewBehind(k)'
  BY <1>2, <1>6 DEF Charge, Go, Idle
<1>7. ASSUME Tick
      PROVE  \A k \in Keys : QueueIsTail(k)' /\ DroppedIsOver(k)' /\ FewBehind(k)'
  <2>1. \A time : Held(time)' = Held(time)
    BY <1>7 DEF Tick, Held
  <2>2. UNCHANGED <<hits, admitted>> /\ clock <= clock'
    BY <1>0, <1>7 DEF Tick
  <2> QED BY <1>1, <2>1, <2>2
<1>8. ASSUME Restart
      PROVE  \A k \in Keys : QueueIsTail(k)' /\ DroppedIsOver(k)' /\ FewBehind(k)'
  <2> TAKE k \in Keys
  <2>1. hits'[k] = <<>> /\ admitted'[k] = <<>> /\ Limit[k] \in Nat
    BY <1>8, LimitsAssumption DEF Restart
  <2>2. Dropped(k)' = 0
    BY <2>1 DEF Dropped
  <2>3. \A time : Within(k, time)' = {}
    BY <2>1 DEF Within, Recent
  <2> QED BY <2>1, <2>2, <2>3 DEF QueueIsTail, DroppedIsOver, FewBehind
<1>9. CASE UNCHANGED vars
  <2>1. \A time : Held(time)' = Held(time)
    BY <1>9 DEF vars, Held
  <2> QED BY <1>0, <1>1, <1>9, <2>1 DEF vars
<1> QED BY <1>3, <1>4, <1>5, <1>6, <1>7, <1>8, <1>9, AdmitKeeps, RefuseKeeps DEF Next, Step

LEMMA WindowsInitially == Init => WindowsInv
<1> SUFFICES ASSUME Init PROVE WindowsInv
  OBVIOUS
<1>1. ReadingsArePast
  BY DEF Init, ReadingsArePast, Idle
<1>2. ASSUME NEW k \in Keys PROVE QueueIsTail(k) /\ DroppedIsOver(k) /\ FewBehind(k)
  <2>1. hits[k] = <<>> /\ admitted[k] = <<>> /\ Limit[k] \in Nat
    BY LimitsAssumption DEF Init
  <2>2. Dropped(k) = 0
    BY <2>1 DEF Dropped
  <2>3. \A time : Within(k, time) = {}
    BY <2>1 DEF Within, Recent
  <2> QED BY <2>1, <2>2, <2>3 DEF QueueIsTail, DroppedIsOver, FewBehind
<1> QED BY <1>1, <1>2 DEF WindowsInv

\* However late its threads are, a window has admitted no more calls than its limit and the
\* late threads.
LEMMA WindowsHold ==
    ASSUME TypeOK, WindowsInv
    PROVE  WindowKept
<1> SUFFICES ASSUME NEW k \in Keys, NEW n \in DOMAIN admitted[k]
             PROVE  Cardinality(Within(k, admitted[k][n])) <= Limit[k] + Late
  BY DEF WindowKept
<1>1. PICK time \in 0..MaxClock : time = admitted[k][n]
  BY StampsArePast
<1>2. Cardinality(Within(k, time)) \in Nat /\ Limit[k] \in Nat /\ Late \in Nat
  BY WithinFinite, LimitsAssumption, LateIsNat
<1>3. CASE \E i \in Within(k, time) : i <= Dropped(k)
  <2>1. Cardinality(Within(k, time)) + Cardinality(Held(time)) <= Limit[k] + Late
    BY <1>3 DEF WindowsInv, DroppedIsOver
  <2>2. Cardinality(Held(time)) \in Nat
    BY HeldAreThreads, SomeThreads
  <2> QED BY <1>1, <1>2, <2>1, <2>2
<1>4. CASE ~(\E i \in Within(k, time) : i <= Dropped(k))
  <2>1. Cardinality(Within(k, time)) <= Limit[k]
    BY <1>4, KeptWindowIsFull DEF WindowsInv
  <2> QED BY <1>1, <1>2, <2>1
<1> QED BY <1>3, <1>4

\* What a refusal meets: a queue at the limit, of which only stamps of late threads are older
\* than the window.
LEMMA RefusalsAreDue ==
    ASSUME TypeOK, WindowsInv, NEW t \in Threads, Refuse(t)
    PROVE  Cardinality(Recent(Head(thread[t].todo), thread[t].read)) + Late
              >= Limit[Head(thread[t].todo)]
<1>0. PICK k, r : k = Head(thread[t].todo) /\ r = thread[t].read
  OBVIOUS
<1>1. /\ k \in Keys /\ thread[t].pc = "lock" /\ Len(Kept(t)) >= Limit[k]
      /\ Kept(t) \in Seq(0..MaxClock)
  BY <1>0, KeptIsTail DEF Refuse
<1>2. PICK m \in Dropped(k)..Len(admitted[k]) :
         /\ Len(Kept(t)) = Len(admitted[k]) - m
         /\ m < Len(admitted[k]) => r - admitted[k][m + 1] < Window[k]
  BY <1>0, <1>1, PruningIsDue
<1>3. /\ admitted[k] \in Seq(0..MaxClock) /\ Len(admitted[k]) \in Nat /\ DOMAIN admitted[k] = 1..Len(admitted[k])
      /\ Limit[k] \in Nat /\ Limit[k] > 0 /\ Window[k] \in Int /\ Late \in Nat /\ Len(Kept(t)) \in Nat
  <2>1. admitted[k] \in Seq(0..MaxClock)
    BY <1>1 DEF TypeOK
  <2> QED BY <1>1, <2>1, LimitsAssumption, LateIsNat
<1>4. r \in Int
  <2>1. r \in 0..MaxClock
    BY <1>0 DEF TypeOK, Thread
  <2> QED BY <2>1
<1>5. Dropped(k) \in Nat
  <2>1. Len(hits[k]) \in Nat /\ Len(hits[k]) <= Len(admitted[k])
    BY <1>1 DEF TypeOK, WindowsInv, QueueIsTail
  <2> QED BY <1>3, <2>1 DEF Dropped
<1>6. /\ m \in Nat /\ Len(Kept(t)) + m = Len(admitted[k]) /\ m < Len(admitted[k])
  <2>1. m \in Nat /\ m <= Len(admitted[k])
    BY <1>3, <1>5
  <2>2. Len(Kept(t)) + m = Len(admitted[k])
    BY <1>2, <1>3, <2>1
  <2> QED BY <1>1, <1>3, <2>1, <2>2
<1>7. PICK i \in Int : i = m + 1 /\ i \in DOMAIN admitted[k] /\ i <= Len(admitted[k])
  <2>1. m + 1 \in Int /\ 1 <= m + 1 /\ m + 1 <= Len(admitted[k])
    BY <1>3, <1>6
  <2>2. m + 1 \in 1..Len(admitted[k])
    BY <1>3, <2>1
  <2> QED BY <1>3, <2>1, <2>2
<1>8. i..Len(admitted[k]) \in SUBSET (Recent(k, r) \cup Behind(k, i))
  <2>1. ASSUME NEW n \in i..Len(admitted[k]), n \notin Recent(k, r) PROVE n \in Behind(k, i)
    <3>1. n \in DOMAIN admitted[k] /\ n >= i
      BY <1>3, <1>7
    <3>2. admitted[k][n] \in Int /\ admitted[k][i] \in Int
      BY <1>1, <1>7, <3>1, StampsArePast
    <3>3. ~(r - admitted[k][n] < Window[k])
      BY <2>1, <3>1 DEF Recent
    <3>4. r - admitted[k][i] < Window[k]
      BY <1>2, <1>6, <1>7
    <3>5. admitted[k][n] < admitted[k][i]
      BY <1>3, <1>4, <3>2, <3>3, <3>4, SMTT(30)
    <3>6. n # i /\ n \in Int
      BY <1>3, <3>1, <3>2, <3>5
    <3> QED BY <3>1, <3>5, <3>6 DEF Behind
  <2> QED BY <2>1
<1>9. IsFiniteSet(Recent(k, r)) /\ IsFiniteSet(Behind(k, i))
  <2>1. Recent(k, r) \in SUBSET (1..Len(admitted[k]))
    BY <1>3 DEF Recent
  <2>2. IsFiniteSet(1..Len(admitted[k]))
    <3>1. 1 \in Int /\ Len(admitted[k]) \in Int
      BY <1>3
    <3> QED BY <3>1, FS_Interval
  <2> QED BY <1>1, <2>1, <2>2, NoMore, BehindFinite
<1>a. /\ Cardinality(Recent(k, r)) \in Nat /\ Cardinality(Behind(k, i)) \in Nat
      /\ Cardinality(i..Len(admitted[k])) <= Cardinality(Recent(k, r)) + Cardinality(Behind(k, i))
  <2>1. /\ IsFiniteSet(Recent(k, r) \cup Behind(k, i))
        /\ Cardinality(Recent(k, r) \cup Behind(k, i)) = Cardinality(Recent(k, r))
              + Cardinality(Behind(k, i)) - Cardinality(Recent(k, r) \cap Behind(k, i))
    BY <1>9, FS_Union
  <2>2. /\ Cardinality(Recent(k, r)) \in Nat /\ Cardinality(Behind(k, i)) \in Nat
        /\ Cardinality(Recent(k, r) \cap Behind(k, i)) \in Nat
    BY <1>9, FS_Intersection, FS_CardinalityType
  <2>3. /\ Cardinality(i..Len(admitted[k])) <= Cardinality(Recent(k, r) \cup Behind(k, i))
        /\ Cardinality(i..Len(admitted[k])) \in Nat
    BY <1>8, <2>1, NoMore
  <2> QED BY <2>1, <2>2, <2>3
<1>b. Cardinality(i..Len(admitted[k])) = Len(Kept(t))
  <2>1. Cardinality(i..Len(admitted[k])) = Len(admitted[k]) - i + 1
    <3>1. Len(admitted[k]) \in Int /\ ~(i > Len(admitted[k]))
      BY <1>3, <1>7
    <3>2. Cardinality(i..Len(admitted[k])) =
             IF i > Len(admitted[k]) THEN 0 ELSE Len(admitted[k]) - i + 1
      BY <3>1, FS_Interval
    <3> QED BY <3>1, <3>2
  <2>2. Len(admitted[k]) - i + 1 = Len(Kept(t))
    BY <1>3, <1>6, <1>7
  <2> QED BY <2>1, <2>2
<1>c. Cardinality(Behind(k, i)) <= Late
  <2>1. Cardinality(Behind(k, i)) + Cardinality(Held(admitted[k][i] - 1)) <= Late
    BY <1>1, <1>7 DEF WindowsInv, FewBehind
  <2>2. Cardinality(Held(admitted[k][i] - 1)) \in Nat
    BY HeldAreThreads, SomeThreads
  <2> QED BY <1>3, <1>a, <2>1, <2>2
<1>d. Cardinality(Recent(k, r)) + Late >= Limit[k]
  BY <1>1, <1>3, <1>a, <1>b, <1>c
<1> QED BY <1>0, <1>d

\* THEOREM: the windows' inductive invariant.
THEOREM WindowsAlways == Spec => []WindowsInv
<1>1. Init => WindowsInv
  BY WindowsInitially
<1>2. TypeOK /\ TypeOK' /\ WindowsInv /\ [Next]_vars => WindowsInv'
  BY WindowsKept
<1> QED BY <1>1, <1>2, LimitsTyped, PTL DEF Spec

\* THEOREM: in no window are more calls admitted than the limit allows and the late threads
\* get in on top, for any number of threads, counters and limits (Limiter.hit).
THEOREM WindowIsKept == Spec => []WindowKept
<1>1. TypeOK /\ WindowsInv => WindowKept
  BY WindowsHold
<1> QED BY <1>1, LimitsTyped, WindowsAlways, PTL

\* THEOREM: nobody is refused who has not used up a window but for what late threads have queued
\* out of order (Limiter.hit).
THEOREM RefusalsAreEarned == Spec => RefusedOnlyWhenFull
<1>1. TypeOK /\ WindowsInv =>
         [\A t \in Threads : Refuse(t) =>
             LET k == Head(thread[t].todo)
             IN  Cardinality(Recent(k, thread[t].read)) + Late >= Limit[k]]_vars
  BY RefusalsAreDue
<1> QED BY <1>1, LimitsTyped, WindowsAlways, PTL DEF RefusedOnlyWhenFull

-------------------------------------------------------------------------------
(***************************************************************************)
(* The budget                                                              *)
(***************************************************************************)
LEMMA Shares ==
    /\ \A n \in Int : Share(n) \in Int /\ Share(n + 1) = Share(n) + Budget
    /\ \A m, n \in Int : m <= n => Share(m) <= Share(n)
    /\ Share(0) = 0 /\ Budget \in Nat
<1>0. Budget \in Nat
  BY LimitsAssumption
<1>1. \A n \in Int : Share(n) \in Int /\ Share(n + 1) = Share(n) + Budget
  BY <1>0 DEF Share
<1>2. ASSUME NEW m \in Int, NEW n \in Int, m <= n PROVE Share(m) <= Share(n)
  <2>1. n - m \in Nat /\ Budget * n = Budget * m + Budget * (n - m)
    BY <1>0, <1>2
  <2>2. Budget * (n - m) >= 0 /\ Budget * (n - m) \in Int /\ Budget * m \in Int
    BY <1>0, <2>1
  <2> QED BY <2>1, <2>2 DEF Share
<1>3. Share(0) = 0
  BY <1>0 DEF Share
<1> QED BY <1>0, <1>1, <1>2, <1>3

LEMMA Chargers ==
    ASSUME NEW d
    PROVE  /\ Charging(d) \in SUBSET Threads /\ ChargingBefore(d) \in SUBSET Threads
           /\ Cardinality(Charging(d)) \in Nat /\ Cardinality(Charging(d)) <= Late + 1
           /\ Cardinality(ChargingBefore(d)) \in Nat
           /\ Returning(d) \in Nat /\ Returning(d) <= Late
           /\ Charging(d) # Threads => Returning(d) = Cardinality(Charging(d))
           /\ Cardinality(Charging(d)) <= Returning(d) + 1
           /\ Late \in Nat
<1>1. Charging(d) \in SUBSET Threads /\ ChargingBefore(d) \in SUBSET Threads
  BY DEF Charging, ChargingBefore
<1>2. /\ Cardinality(Charging(d)) \in Nat /\ Cardinality(Charging(d)) <= Late + 1
      /\ Cardinality(ChargingBefore(d)) \in Nat /\ Late \in Nat
      /\ Charging(d) # Threads => Cardinality(Charging(d)) <= Late
  BY <1>1, SomeThreads
<1> QED BY <1>1, <1>2 DEF Returning

LEMMA DatesAreNumbers ==
    ASSUME TypeOK
    PROVE  /\ DateOf[clock] \in Int /\ DateOf[clock] \in Days
           /\ \A d \in Days : d \in Int /\ spent[d] \in Nat
           /\ \A t \in Threads : thread[t].today \in Days /\ thread[t].units \in Nat
           /\ used \in Nat /\ Budget \in Nat
<1>1. DateOf[clock] \in Days /\ LastDay \in Nat
  BY LimitsAssumption DEF TypeOK, Days
<1>2. \A t \in Threads : thread[t].today \in Days /\ thread[t].units \in Nat
  BY DEF TypeOK, Thread
<1> QED BY <1>1, <1>2, LimitsAssumption DEF TypeOK, Days

\* A step after which as many threads can still disturb the day as before.
LEMMA DayAlone ==
    ASSUME TypeOK, UNCHANGED <<clock, day, used, spent>>, NEW d \in Days, DayKept(d),
           d # DateOf[clock] => Charging(d)' = Charging(d),
           d = DateOf[clock] => ChargingBefore(d)' = ChargingBefore(d)
    PROVE  DayKept(d)'
<1>1. d \in Int /\ DateOf[clock] \in Int
  BY DatesAreNumbers
<1>2. /\ DateOf[clock'] = DateOf[clock] /\ day' = day /\ used' = used /\ spent' = spent
      /\ d # DateOf[clock] => Charging(d)' = Charging(d) /\ Returning(d)' = Returning(d)
      /\ d = DateOf[clock] => ChargingBefore(d)' = ChargingBefore(d)
  BY DEF Returning, Late
<1>3. CASE d > DateOf[clock]
  BY <1>1, <1>2, <1>3 DEF DayKept, Late
<1>4. CASE d < DateOf[clock]
  BY <1>1, <1>2, <1>4 DEF DayKept, Late
<1>5. CASE d = DateOf[clock]
  BY <1>1, <1>2, <1>5 DEF DayKept, Late
<1> QED BY <1>1, <1>3, <1>4, <1>5

LEMMA TickKeepsDays ==
    ASSUME TypeOK, TypeOK', DaysKept, Tick, NEW d \in Days
    PROVE  DayKept(d)'
<1>0. PICK c \in Int, e \in Int : c = DateOf[clock] /\ e = DateOf[clock'] /\ c <= e
  <2>1. /\ clock \in 0..MaxClock /\ clock' \in 0..MaxClock /\ clock <= clock'
        /\ DateOf \in [0..MaxClock -> 0..LastDay] /\ LastDay \in Nat
    BY LimitsAssumption DEF Tick, TypeOK
  <2>2. DateOf[clock] <= DateOf[clock']
    BY <2>1, LimitsAssumption
  <2> QED BY <2>1, <2>2
<1>1. /\ day' = day /\ used' = used /\ spent' = spent /\ thread' = thread
      /\ Charging(d)' = Charging(d) /\ ChargingBefore(d)' = ChargingBefore(d)
      /\ Returning(d)' = Returning(d)
  BY DEF Tick, Charging, ChargingBefore, Returning, Late
<1>2. d \in Int /\ spent[d] \in Nat /\ used \in Nat
  BY LimitsAssumption DEF TypeOK, Days
<1>3. /\ Cardinality(Charging(d)) \in Nat /\ Cardinality(Charging(d)) <= Late + 1
      /\ Cardinality(ChargingBefore(d)) \in Nat
      /\ Returning(d) \in Nat /\ Returning(d) <= Late /\ Late \in Nat
  BY Chargers
<1>4. CASE d > c
  <2>1. spent[d] = 0 /\ day # d /\ Charging(d) = {}
    BY <1>0, <1>2, <1>4 DEF DaysKept, DayKept
  <2>2. 0 <= Share(1 + 2 * Late - Cardinality(Charging(d)))
    <3>1. 1 + 2 * Late - Cardinality(Charging(d)) \in Int /\ 0 <= 1 + 2 * Late - Cardinality(Charging(d))
      BY <1>3
    <3> QED BY <3>1, Shares
  <2>3. d > e \/ d = e \/ d < e
    BY <1>0, <1>2
  <2> QED BY <1>0, <1>1, <2>1, <2>2, <2>3 DEF DayKept, Late
<1>5. CASE d = c
  <2>1. \/ day # d /\ spent[d] = 0
        \/ day # d /\ spent[d] <= Share(Late - Cardinality(ChargingBefore(d)))
        \/ day = d /\ spent[d] <= used + Share(Late - Cardinality(ChargingBefore(d)))
    BY <1>0, <1>2, <1>5 DEF DaysKept, DayKept
  <2>2. CASE d = e
    BY <1>0, <1>1, <2>1, <2>2 DEF DayKept, Late
  <2>3. CASE d < e
    <3>1. PICK a \in Int, n \in Int, m \in Int :
             /\ a = Late - Cardinality(ChargingBefore(d))
             /\ n = 1 + 2 * Late - Cardinality(Charging(d))
             /\ m = 2 * Late - Returning(d)
      BY <1>3
    <3>2. a <= n /\ a <= m /\ 0 <= n
      BY <1>3, <3>1
    <3>3. /\ Share(a) \in Int /\ Share(n) \in Int /\ Share(m) \in Int
          /\ Share(a) <= Share(n) /\ Share(a) <= Share(m) /\ 0 <= Share(n)
      <4>1. Share(a) \in Int /\ Share(n) \in Int /\ Share(m) \in Int
        BY Shares
      <4>2. Share(a) <= Share(n) /\ Share(a) <= Share(m)
        BY <3>2, Shares
      <4>3. Share(0) = 0 /\ Share(0) <= Share(n)
        BY <3>2, Shares
      <4> QED BY <4>1, <4>2, <4>3
    <3>4. \/ day # d /\ spent[d] <= Share(n)
          \/ day = d /\ spent[d] <= used + Share(m)
      <4>1. \/ day # d /\ spent[d] = 0
            \/ day # d /\ spent[d] <= Share(a)
            \/ day = d /\ spent[d] <= used + Share(a)
        BY <2>1, <3>1
      <4> QED BY <1>2, <3>3, <4>1
    <3>5. \/ day # d /\ spent[d] <= Share(1 + 2 * Late - Cardinality(Charging(d)))
          \/ day = d /\ spent[d] <= used + Share(2 * Late - Returning(d))
      BY <3>1, <3>4
    <3> QED BY <1>0, <1>1, <2>3, <3>5 DEF DayKept, Late
  <2> QED BY <1>0, <1>2, <1>5, <2>2, <2>3
<1>6. CASE d < c
  <2>1. d < e
    BY <1>0, <1>2, <1>6
  <2>2. \/ day # d /\ spent[d] <= Share(1 + 2 * Late - Cardinality(Charging(d)))
        \/ day = d /\ spent[d] <= used + Share(2 * Late - Returning(d))
    BY <1>0, <1>2, <1>6 DEF DaysKept, DayKept
  <2> QED BY <1>0, <1>1, <2>1, <2>2 DEF DayKept, Late
<1> QED BY <1>0, <1>2, <1>4, <1>5, <1>6

LEMMA QuietKeepsDays ==
    ASSUME TypeOK, DaysKept, NEW d \in Days, UNCHANGED <<clock, day, used, spent>>,
           NEW t \in Threads, NEW th, thread' = [thread EXCEPT ![t] = th],
           thread[t].pc # "charge",
           th.pc # "charge" \/ (th.pc = "charge" /\ th.today = DateOf[clock])
    PROVE  DayKept(d)'
<1>1. /\ d \in Int /\ DateOf[clock] \in Int /\ thread'[t] = th
      /\ \A s \in Threads : s # t => thread'[s] = thread[s]
  BY DatesAreNumbers DEF TypeOK
<1>2. d # DateOf[clock] => Charging(d)' = Charging(d)
  BY <1>1 DEF Charging
<1>3. d = DateOf[clock] => ChargingBefore(d)' = ChargingBefore(d)
  <2>1. d = DateOf[clock] => ~(DateOf[clock] < d)
    BY <1>1
  <2> QED BY <1>1, <2>1 DEF ChargingBefore
<1> QED BY <1>2, <1>3, DayAlone DEF DaysKept

LEMMA ChargeKeepsDays ==
    ASSUME TypeOK, DaysKept, NEW t \in Threads, Charge(t), NEW d \in Days
    PROVE  used' <= Budget /\ DayKept(d)'
<1>a. /\ DateOf[clock] \in Int /\ thread[t].today \in Days /\ thread[t].units \in Nat
      /\ used \in Nat /\ used <= Budget /\ Budget \in Nat
      /\ spent \in [Days -> Nat] /\ spent[thread[t].today] \in Nat
  BY DatesAreNumbers DEF DaysKept, TypeOK
<1>b. PICK c \in Int, b \in Days, u \in Nat, w \in Nat :
         /\ c = DateOf[clock] /\ b = thread[t].today
         /\ u = UsedOn(b) /\ w = thread[t].units /\ u <= Budget
  <2>1. UsedOn(thread[t].today) \in Nat /\ UsedOn(thread[t].today) <= Budget
    BY <1>a DEF UsedOn
  <2> QED BY <1>a, <2>1
<1>c. PICK v \in Int : /\ v = used' /\ u <= v /\ v <= Budget /\ day' = b
                       /\ spent' = [spent EXCEPT ![b] = spent[b] + (v - u)]
  <2>1. CASE u + w > Budget
    <3>1. used' = u /\ spent' = spent /\ day' = b
      BY <1>b, <2>1 DEF Charge
    <3>2. PICK v \in Int : v = u /\ u <= v /\ v <= Budget /\ spent[b] + (v - u) = spent[b]
      BY <1>a, <1>b
    <3>3. spent' = [spent EXCEPT ![b] = spent[b] + (v - u)]
      BY <1>a, <3>1, <3>2
    <3> QED BY <3>1, <3>2, <3>3
  <2>2. CASE ~(u + w > Budget)
    <3>1. used' = u + w /\ spent' = [spent EXCEPT ![b] = spent[b] + w] /\ day' = b
      BY <1>b, <2>2 DEF Charge
    <3>2. PICK v \in Int : v = u + w /\ u <= v /\ v <= Budget /\ v - u = w
      BY <1>a, <1>b, <2>2
    <3>3. spent' = [spent EXCEPT ![b] = spent[b] + (v - u)]
      BY <3>1, <3>2
    <3> QED BY <3>1, <3>2, <3>3
  <2> QED BY <2>1, <2>2
<1>0. /\ c = DateOf[clock] /\ b = thread[t].today /\ u = UsedOn(b) /\ v = used'
      /\ day' = b /\ u <= v /\ v <= Budget /\ 0 <= u
      /\ spent' = [spent EXCEPT ![b] = spent[b] + (v - u)]
  BY <1>b, <1>c
<1>1. /\ d \in Int /\ b \in Int /\ Budget \in Nat /\ used \in Nat /\ used <= Budget
      /\ spent[d] \in Nat /\ spent[b] \in Nat
      /\ DateOf[clock'] = c /\ (b = day => u = used) /\ (b # day => u = 0)
  BY <1>0, DatesAreNumbers DEF Charge, UsedOn, DaysKept
<1>2. /\ d = b => spent'[d] = spent[d] + (v - u)
      /\ d # b => spent'[d] = spent[d]
  BY <1>0 DEF TypeOK
<1>3. /\ Charging(d)' = Charging(d) \ {t} /\ ChargingBefore(d)' = ChargingBefore(d) \ {t}
      /\ (t \in Charging(d) <=> d = b) /\ (t \in ChargingBefore(d) <=> b < d)
  <2>1. /\ thread[t].pc = "charge" /\ Idle.pc # "charge"
        /\ thread' = [thread EXCEPT ![t] = Idle] /\ thread \in [Threads -> Thread]
    BY DEF Charge, Go, Idle, TypeOK
  <2>2. thread'[t] = Idle /\ \A s \in Threads : s # t => thread'[s] = thread[s]
    BY <2>1
  <2> QED BY <1>0, <2>1, <2>2 DEF Charging, ChargingBefore
<1>4. /\ Cardinality(Charging(d)) \in Nat /\ Cardinality(Charging(d)) <= Returning(d) + 1
      /\ Cardinality(ChargingBefore(d)) \in Nat /\ Late \in Nat
      /\ Returning(d) \in Nat /\ Returning(d) <= Late
      /\ Charging(d) \in SUBSET Threads /\ ChargingBefore(d) \in SUBSET Threads
      /\ Charging(d) # Threads => Returning(d) = Cardinality(Charging(d))
  BY Chargers
<1>5. b <= c
  <2>1. t \in Charging(b) /\ DayKept(b)
    BY <1>0 DEF Charge, Charging, DaysKept
  <2>2. ~(b > DateOf[clock])
    BY <1>0, <1>1, <2>1 DEF DayKept
  <2> QED BY <1>0, <1>1, <2>2
<1>6. CASE d > c
  <2>1. spent[d] = 0 /\ Charging(d) = {} /\ d # b
    BY <1>0, <1>1, <1>5, <1>6 DEF DaysKept, DayKept
  <2> QED BY <1>0, <1>1, <1>2, <1>3, <1>6, <2>1 DEF DayKept
<1>7. CASE d = c
  <2>1. \/ day # d /\ spent[d] = 0
        \/ day # d /\ spent[d] <= Share(Late - Cardinality(ChargingBefore(d)))
        \/ day = d /\ spent[d] <= used + Share(Late - Cardinality(ChargingBefore(d)))
    BY <1>0, <1>1, <1>7 DEF DaysKept, DayKept
  <2>2. CASE b = d
    <3>1. ChargingBefore(d)' = ChargingBefore(d) /\ t \notin ChargingBefore(d)
      BY <1>1, <1>3, <2>2
    <3>2. Cardinality(ChargingBefore(d)) <= Late
      BY <1>4, <3>1, SomeThreads
    <3>3. PICK a \in Int : a = Late - Cardinality(ChargingBefore(d)) /\ 0 <= a
      BY <1>4, <3>2
    <3>4. Share(a) \in Int /\ 0 <= Share(a)
      BY <3>3, Shares
    <3>5. spent'[d] <= v + Share(a)
      <4>1. \/ day # d /\ spent[d] = 0
            \/ day # d /\ spent[d] <= Share(a)
            \/ day = d /\ spent[d] <= used + Share(a)
        BY <2>1, <3>3
      <4>2. spent'[d] = spent[d] + (v - u)
        BY <1>2, <2>2
      <4> QED BY <1>0, <1>1, <2>2, <3>4, <4>1, <4>2
    <3>6. spent'[d] <= used' + Share(Late - Cardinality(ChargingBefore(d)'))
      BY <1>0, <3>1, <3>3, <3>5
    <3> QED BY <1>0, <1>1, <1>7, <2>2, <3>6 DEF DayKept, Late
  <2>3. CASE b < d
    <3>1. PICK a \in Int, e \in Int :
             /\ a = Late - Cardinality(ChargingBefore(d))
             /\ e = Late - Cardinality(ChargingBefore(d)') /\ e = a + 1 /\ 0 <= e
      <4>1. t \in ChargingBefore(d) /\ IsFiniteSet(ChargingBefore(d))
        BY <1>3, <1>4, <2>3, SomeThreads
      <4>2. /\ Cardinality(ChargingBefore(d)') \in Nat
            /\ Cardinality(ChargingBefore(d)') + 1 = Cardinality(ChargingBefore(d))
        BY <1>3, <4>1, OneLess
      <4>3. Cardinality(ChargingBefore(d)) <= Late + 1
        BY <1>4, SomeThreads
      <4> QED BY <1>4, <4>2, <4>3
    <3>2. Share(a) \in Int /\ Share(e) \in Int /\ Share(e) = Share(a) + Budget
      BY <3>1, Shares
    <3>3. 0 <= Share(e)
      BY <3>1, Shares
    <3>4. spent[d] <= Share(e)
      <4>1. \/ spent[d] = 0
            \/ spent[d] <= Share(a)
            \/ spent[d] <= used + Share(a)
        BY <2>1, <3>1
      <4> QED BY <1>1, <3>2, <3>3, <4>1
    <3>5. spent'[d] <= Share(Late - Cardinality(ChargingBefore(d)'))
      BY <1>1, <1>2, <2>3, <3>1, <3>4
    <3> QED BY <1>0, <1>1, <1>7, <2>3, <3>5 DEF DayKept, Late
  <2> QED BY <1>1, <1>5, <1>7, <2>2, <2>3
<1>8. CASE d < c
  <2>1. \/ day # d /\ spent[d] <= Share(1 + 2 * Late - Cardinality(Charging(d)))
        \/ day = d /\ spent[d] <= used + Share(2 * Late - Returning(d))
    BY <1>0, <1>1, <1>8 DEF DaysKept, DayKept
  <2>2. CASE b = d
    <3>1. t \in Charging(d) /\ IsFiniteSet(Charging(d))
      BY <1>3, <1>4, <2>2, SomeThreads
    <3>2. /\ Cardinality(Charging(d)') \in Nat
          /\ Cardinality(Charging(d)') + 1 = Cardinality(Charging(d))
          /\ Returning(d)' = Cardinality(Charging(d)')
      <4>1. Charging(d)' # Threads
        BY <1>3
      <4>2. Returning(d)' = Cardinality(Charging(d)')
        BY <4>1 DEF Returning
      <4> QED BY <1>3, <3>1, <4>2, OneLess
    <3>3. PICK n \in Int, m \in Int, z \in Int :
             /\ n = 1 + 2 * Late - Cardinality(Charging(d)) /\ m = 2 * Late - Returning(d)
             /\ z = 2 * Late - Returning(d)' /\ n = z /\ m <= z
      BY <1>4, <3>2
    <3>4. Share(n) = Share(z) /\ Share(m) <= Share(z)
      BY <3>3, Shares
    <3>5. Share(m) \in Int /\ Share(z) \in Int
      BY <3>3, Shares
    <3>6. spent'[d] <= v + Share(z)
      <4>1. \/ day # d /\ spent[d] <= Share(n)
            \/ day = d /\ spent[d] <= used + Share(m)
        BY <2>1, <3>3
      <4>2. spent'[d] = spent[d] + (v - u)
        BY <1>2, <2>2
      <4> QED BY <1>0, <1>1, <2>2, <3>4, <3>5, <4>1, <4>2
    <3>7. spent'[d] <= used' + Share(2 * Late - Returning(d)')
      BY <1>0, <3>3, <3>6
    <3> QED BY <1>0, <1>1, <1>8, <2>2, <3>7 DEF DayKept, Late
  <2>3. CASE b # d
    <3>1. /\ Charging(d)' = Charging(d) /\ Returning(d) = Cardinality(Charging(d))
      <4>1. t \notin Charging(d)
        BY <1>3, <2>3
      <4> QED BY <1>3, <1>4, <4>1
    <3>2. PICK n \in Int, m \in Int :
             /\ n = 1 + 2 * Late - Cardinality(Charging(d)) /\ m = 2 * Late - Returning(d)
             /\ n = m + 1
      BY <1>4, <3>1
    <3>3. Share(m) \in Int /\ Share(n) = Share(m) + Budget
      BY <3>2, Shares
    <3>4. spent[d] <= Share(n)
      <4>1. \/ spent[d] <= Share(n)
            \/ spent[d] <= used + Share(m)
        BY <2>1, <3>2
      <4> QED BY <1>1, <3>3, <4>1
    <3>5. spent'[d] <= Share(1 + 2 * Late - Cardinality(Charging(d)'))
      BY <1>2, <2>3, <3>1, <3>2, <3>4
    <3> QED BY <1>0, <1>1, <1>8, <2>3, <3>5 DEF DayKept, Late
  <2> QED BY <2>2, <2>3
<1>9. used' <= Budget
  BY <1>0
<1> QED BY <1>0, <1>1, <1>6, <1>7, <1>8, <1>9

\* Nothing granted, nobody about to charge.
FreshDay == /\ TypeOK /\ used = 0 /\ day = -1
            /\ spent = [d \in Days |-> 0] /\ thread = [t \in Threads |-> Idle]

LEMMA FreshDays == FreshDay => DaysKept
<1> SUFFICES ASSUME FreshDay PROVE DaysKept
  OBVIOUS
<1> USE DEF FreshDay
<1>1. used <= Budget
  BY LimitsAssumption
<1>2. ASSUME NEW d \in Days PROVE DayKept(d)
  <2>1. /\ d \in Int /\ d # -1 /\ DateOf[clock] \in Int /\ spent[d] = 0 /\ Charging(d) = {}
    BY LimitsAssumption, DatesAreNumbers DEF Days, Charging, Idle
  <2>2. Cardinality(Charging(d)) = 0
    BY <2>1, FS_EmptySet
  <2>3. 0 <= Share(1 + 2 * Late - Cardinality(Charging(d)))
    <3>1. /\ 1 + 2 * Late - Cardinality(Charging(d)) \in Int
          /\ 0 <= 1 + 2 * Late - Cardinality(Charging(d))
      BY <2>2, LateIsNat
    <3> QED BY <3>1, Shares
  <2>4. d > DateOf[clock] \/ d = DateOf[clock] \/ d < DateOf[clock]
    BY <2>1
  <2> QED BY <2>1, <2>3, <2>4 DEF DayKept
<1> QED BY <1>1, <1>2 DEF DaysKept

LEMMA DaysStayKept ==
    ASSUME TypeOK, TypeOK', DaysKept, [Next]_vars
    PROVE  DaysKept'
<1>1. CASE Tick
  BY <1>1, TickKeepsDays DEF DaysKept, Tick
<1>2. CASE Restart
  <2>1. FreshDay'
    BY <1>2 DEF Restart, FreshDay
  <2>2. FreshDay' => DaysKept'
    BY FreshDays, PTL
  <2> QED BY <2>1, <2>2
<1>3. CASE UNCHANGED vars
  <2>1. \A d \in Days : DayKept(d)'
    BY <1>3, DayAlone DEF vars, Charging, ChargingBefore, DaysKept
  <2> QED BY <1>3, <2>1 DEF vars, DaysKept
<1>4. ASSUME NEW t \in Threads, Charge(t) PROVE DaysKept'
  <2>1. \A d \in Days : used' <= Budget /\ DayKept(d)'
    BY <1>4, ChargeKeepsDays
  <2>2. used' <= Budget
    BY <2>1, DatesAreNumbers
  <2> QED BY <2>1, <2>2 DEF DaysKept
<1>5. ASSUME NEW t \in Threads, NEW q \in Requests, Arrive(t, q) PROVE DaysKept'
  <2>1. PICK th : th = Pass([Idle EXCEPT !.units = Units[q]], Checks[q])
    OBVIOUS
  <2>2. /\ UNCHANGED <<clock, day, used, spent>> /\ thread' = [thread EXCEPT ![t] = th]
        /\ thread[t].pc # "charge" /\ th.pc # "charge"
    BY <1>5, <2>1 DEF Arrive, Go, Pass, Idle
  <2>3. \A d \in Days : DayKept(d)'
    BY <2>2, QuietKeepsDays
  <2> QED BY <2>2, <2>3 DEF DaysKept
<1>6. ASSUME NEW t \in Threads, ReadClock(t) PROVE DaysKept'
  <2>1. PICK th : th = [thread[t] EXCEPT !.pc = "lock", !.read = clock]
    OBVIOUS
  <2>2. /\ UNCHANGED <<clock, day, used, spent>> /\ thread' = [thread EXCEPT ![t] = th]
        /\ thread[t].pc # "charge" /\ th.pc # "charge"
    BY <1>6, <2>1 DEF ReadClock, Go, TypeOK, Thread
  <2>3. \A d \in Days : DayKept(d)'
    BY <2>2, QuietKeepsDays
  <2> QED BY <2>2, <2>3 DEF DaysKept
<1>7. ASSUME NEW t \in Threads, Admit(t) PROVE DaysKept'
  <2>1. PICK th : th = Pass(thread[t], Tail(thread[t].todo))
    OBVIOUS
  <2>2. /\ UNCHANGED <<clock, day, used, spent>> /\ thread' = [thread EXCEPT ![t] = th]
        /\ thread[t].pc # "charge"
    BY <1>7, <2>1 DEF Admit, Go
  <2>3. th.pc # "charge"
    BY <2>1 DEF Pass, TypeOK, Thread
  <2>4. \A d \in Days : DayKept(d)'
    BY <2>2, <2>3, QuietKeepsDays
  <2> QED BY <2>2, <2>4 DEF DaysKept
<1>8. ASSUME NEW t \in Threads, Refuse(t) PROVE DaysKept'
  <2>1. /\ UNCHANGED <<clock, day, used, spent>> /\ thread' = [thread EXCEPT ![t] = Idle]
        /\ thread[t].pc # "charge" /\ Idle.pc # "charge"
    BY <1>8 DEF Refuse, Go, Idle
  <2>2. \A d \in Days : DayKept(d)'
    BY <2>1, QuietKeepsDays
  <2> QED BY <2>1, <2>2 DEF DaysKept
<1>9. ASSUME NEW t \in Threads, ReadDay(t) PROVE DaysKept'
  <2>1. PICK th : th = [thread[t] EXCEPT !.pc = "charge", !.today = DateOf[clock]]
    OBVIOUS
  <2>2. /\ UNCHANGED <<clock, day, used, spent>> /\ thread' = [thread EXCEPT ![t] = th]
        /\ thread[t].pc # "charge"
    BY <1>9, <2>1 DEF ReadDay, Go
  <2>3. th.pc = "charge" /\ th.today = DateOf[clock]
    BY <2>1 DEF TypeOK, Thread
  <2>4. \A d \in Days : DayKept(d)'
    BY <2>2, <2>3, QuietKeepsDays
  <2> QED BY <2>2, <2>4 DEF DaysKept
<1>a. \/ Tick \/ Restart \/ UNCHANGED vars
      \/ \E t \in Threads : \/ Charge(t) \/ ReadClock(t) \/ Admit(t) \/ Refuse(t) \/ ReadDay(t)
                            \/ \E q \in Requests : Arrive(t, q)
  BY DEF Next, Step
<1> QED BY <1>1, <1>2, <1>3, <1>4, <1>5, <1>6, <1>7, <1>8, <1>9, <1>a

LEMMA DaysHold ==
    ASSUME TypeOK, DaysKept
    PROVE  BudgetKept
<1> SUFFICES ASSUME NEW d \in Days PROVE spent[d] <= Budget * (1 + 2 * Late)
  BY DEF BudgetKept
<1>1. /\ d \in Int /\ DateOf[clock] \in Int /\ spent[d] \in Nat /\ used \in Nat
      /\ used <= Budget /\ Budget \in Nat
  BY DatesAreNumbers DEF DaysKept
<1>2. /\ Cardinality(Charging(d)) \in Nat /\ Cardinality(ChargingBefore(d)) \in Nat
      /\ Returning(d) \in Nat /\ Late \in Nat
  BY Chargers
<1>3. PICK a \in Int, n \in Int, m \in Int, w \in Int :
         /\ a = Late - Cardinality(ChargingBefore(d))
         /\ n = 1 + 2 * Late - Cardinality(Charging(d))
         /\ m = 2 * Late - Returning(d)
         /\ w = 1 + 2 * Late /\ 0 <= w
         /\ n <= w /\ a + 1 <= w /\ m + 1 <= w
  BY <1>2
<1>4. /\ Share(a) \in Int /\ Share(n) \in Int /\ Share(m) \in Int /\ Share(w) \in Int
      /\ Share(a + 1) = Share(a) + Budget /\ Share(m + 1) = Share(m) + Budget
  BY <1>3, Shares
<1>5. Share(n) <= Share(w) /\ Share(a + 1) <= Share(w) /\ Share(m + 1) <= Share(w)
      /\ Share(0) <= Share(w) /\ Share(0) = 0
  BY <1>3, Shares
<1>6. \/ spent[d] = 0 \/ spent[d] <= Share(n)
      \/ spent[d] <= Share(a) \/ spent[d] <= used + Share(a)
      \/ spent[d] <= used + Share(m)
  BY <1>1, <1>3 DEF DaysKept, DayKept
<1>7. spent[d] <= Share(w)
  BY <1>1, <1>4, <1>5, <1>6
<1> QED BY <1>3, <1>7 DEF Share

\* THEOREM: the budget's inductive invariant.
THEOREM DaysAlways == Spec => []DaysKept
<1>1. Init /\ TypeOK => DaysKept
  BY FreshDays DEF Init, FreshDay
<1>2. TypeOK /\ TypeOK' /\ DaysKept /\ [Next]_vars => DaysKept'
  BY DaysStayKept
<1> QED BY <1>1, <1>2, LimitsTyped, PTL DEF Spec

\* THEOREM: the units granted for one day stay within the budget but for what each late thread
\* grants on top, at most twice, for any number of threads, days, weights and requests
\* (Limiter.spend).
THEOREM BudgetIsKept == Spec => []BudgetKept
<1>1. TypeOK /\ DaysKept => BudgetKept
  BY DaysHold
<1> QED BY <1>1, LimitsTyped, DaysAlways, PTL
===============================================================================
