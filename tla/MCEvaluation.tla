----------------------------- MODULE MCEvaluation -----------------------------
(***************************************************************************)
(* Four items, two of them parts of one find; two golden queries, and two  *)
(* hard cases with the same text.                                          *)
(***************************************************************************)
EXTENDS Evaluation

MCKeyOf == [i \in {"a1", "a2", "b1", "c1"} |->
               CASE i \in {"a1", "a2"} -> "a" [] i = "b1" -> "b" [] OTHER -> "c"]

MCCorpus == <<"a1", "b1", "a2", "c1">>

MCExpected == [q \in {"q1", "q2"} |-> IF q = "q1" THEN "b" ELSE "c"]

MCOrder == [q \in {"q1", "q2"} |-> IF q = "q1" THEN <<"a1", "a2", "b1", "c1">>
                                   ELSE <<"c1", "b1", "a1", "a2">>]

MCGolden == <<"q1", "q2">>

MCHard == <<"h1", "h1">>
===============================================================================
