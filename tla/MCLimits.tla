------------------------------- MODULE MCLimits -------------------------------
(***************************************************************************)
(* One client of the API: text and photo reports, a short and a day-long   *)
(* window each, and a budget that a few of them use up.  A day has two     *)
(* ticks; the clock starts at the last one of the first day.               *)
(***************************************************************************)
EXTENDS Limits, TLC

MCKeys == {"rep10", "repday", "img10"}

MCLimit == [k \in MCKeys |-> IF k = "repday" THEN 3 ELSE 2]

MCWindow == [k \in MCKeys |-> IF k = "repday" THEN 3 ELSE 2]

MCChecks == [q \in {"text", "image"} |->
                IF q = "text" THEN <<"rep10", "repday">> ELSE <<"img10">>]

MCUnits == [q \in {"text", "image"} |-> IF q = "text" THEN 1 ELSE 3]

Symmetry == Permutations(Threads)

MCDateOf == [c \in 0..MaxClock |-> (c + 1) \div 2]
===============================================================================
