------------------------------- MODULE MCFindIt -------------------------------
(***************************************************************************)
(* Small instances of FindIt for TLC: each configuration picks the kinds   *)
(* of request its question is about.                                       *)
(***************************************************************************)
EXTENDS FindIt, TLC

\* Addresses and tokens are interchangeable (safety runs only).
Symmetry == Permutations(Emails) \cup Permutations(Tokens) \cup Permutations(Threads)
===============================================================================
