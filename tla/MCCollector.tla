------------------------------ MODULE MCCollector ------------------------------
(***************************************************************************)
(* Two sources, one with enough items for two pages and two batches.       *)
(***************************************************************************)
EXTENDS Collector

MCSources == <<"police", "portal">>

MCSourceOf == [i \in Items |-> IF i = 1 THEN "portal" ELSE "police"]
===============================================================================
