------------------------------ MODULE MCMatching ------------------------------
(***************************************************************************)
(* Three documents, of which the index answers any, search returns two and *)
(* the graph judges two.                                                   *)
(***************************************************************************)
EXTENDS Matching, TLC

\* Below, at the lower end of, within and above the range of a verdict.
MCSaid == {-5, 0, 60, 120}

Symmetry == Permutations(Items)
===============================================================================
