--------------------------------- MODULE Lists ---------------------------------
(***************************************************************************)
(* What the code does with lists in more than one place: counting, keeping *)
(* some of the elements (a list comprehension with an if), the stable sort *)
(* of Python, and the first n of a list (a slice).                         *)
(***************************************************************************)
EXTENDS Integers, Sequences, FiniteSets

\* The places of x among the first m of q, and how often q has x.
Spots(q, x, m) == {n \in 1..m : q[n] = x}

Times(q, x) == Cardinality(Spots(q, x, Len(q)))

\* The elements of q that lie in S, in their order and as often as they come.
Among(q, S) ==
    LET upTo[n \in 0..Len(q)] == IF n = 0 THEN <<>>
                                 ELSE IF q[n] \in S THEN Append(upTo[n - 1], q[n])
                                 ELSE upTo[n - 1]
    IN  upTo[Len(q)]

\* The order of a list with these keys, larger ones first and equal ones as they came: the
\* places that come before place n, and the place that becomes the k-th.
Preceding(key, n) == {m \in DOMAIN key : key[m] > key[n] \/ (key[m] = key[n] /\ m < n)}

Place(key, k) == CHOOSE n \in DOMAIN key : 1 + Cardinality(Preceding(key, n)) = k

Sorted(s, key) == [k \in DOMAIN s |-> s[Place(key, k)]]

First(s, n) == SubSeq(s, 1, IF Len(s) < n THEN Len(s) ELSE n)
===============================================================================
