------------------------------- MODULE Browsing -------------------------------
(***************************************************************************)
(* GET /found-items/browse: the index is Korean, so a keyword in another   *)
(* language is translated by the LLM, once: apps/api/search.py keeps the   *)
(* translations in a dictionary that all threads share without a lock.     *)
(* The endpoint asks needs_translation first, because a translation counts *)
(* against the client and the budget; browse then looks the word up again. *)
(* One operation on the dictionary is atomic, two are not.                 *)
(***************************************************************************)
EXTENDS Gemini

CONSTANTS
    Words,         \* keywords without a Korean letter, by their key
    CacheMax       \* _KW_CACHE_MAX

ASSUME BrowsingAssumption == Words # {} /\ CacheMax \in Nat \ {0}

VARIABLES
    cache,         \* _KW_CACHE: the words that have a translation
    look,          \* what each thread does for a browse request
    clears,        \* history: how often the cache was emptied
    late           \* history: requests that met a cache emptied since they looked

browsingVars == <<cache, look, clears, late>>

LookPcs == {"idle", "need", "charge", "test", "read", "call", "size", "clear", "put"}

Look == [pc : LookPcs, word : Words, paid : BOOLEAN]

LookIdle == [pc |-> "idle", word |-> CHOOSE w \in Words : TRUE, paid |-> FALSE]

BrowsingTypeOK == /\ cache \subseteq Words
                  /\ look \in [Threads -> Look]
                  /\ clears \in Nat /\ late \in Nat

BrowsingInit == /\ cache = {} /\ clears = 0 /\ late = 0
                /\ look = [t \in Threads |-> LookIdle]

LookAt(t, pc) == look[t].pc = pc

LookOn(t, pc) == look' = [look EXCEPT ![t].pc = pc]

LookDone(t) == look' = [look EXCEPT ![t] = LookIdle]

(***************************************************************************)
(* browse_found_items                                                      *)
(***************************************************************************)
BrowseBegin(t, w) ==
    /\ LookAt(t, "idle")
    /\ look' = [look EXCEPT ![t] = [LookIdle EXCEPT !.pc = "need", !.word = w]]
    /\ UNCHANGED <<geminiVars, cache, clears, late>>

\* Variant: the endpoint leaves it to browse.
NeedNever(t) ==
    /\ LookAt(t, "need")
    /\ LookOn(t, "test")
    /\ UNCHANGED <<geminiVars, cache, clears, late>>

\* needs_translation.
Need(t) ==
    /\ LookAt(t, "need")
    /\ LookOn(t, IF look[t].word \in cache THEN "test" ELSE "charge")
    /\ UNCHANGED <<geminiVars, cache, clears, late>>

\* The translation is charged for, or refused: module Limits.
Charge(t) ==
    /\ LookAt(t, "charge")
    /\ \/ look' = [look EXCEPT ![t].pc = "test", ![t].paid = TRUE]
       \/ LookDone(t)
    /\ UNCHANGED <<geminiVars, cache, clears, late>>

(***************************************************************************)
(* translate_keyword                                                       *)
(***************************************************************************)
Test(t) ==
    /\ LookAt(t, "test")
    /\ IF look[t].word \in cache THEN LookOn(t, "read") /\ UNCHANGED late
       ELSE LookOn(t, "call") /\ late' = IF look[t].paid THEN late ELSE late + 1
    /\ UNCHANGED <<geminiVars, cache, clears>>

\* The word may be gone by now: KeyError, and the answer is an error.
Read(t) ==
    /\ LookAt(t, "read")
    /\ LookDone(t)
    /\ late' = IF look[t].word \in cache THEN late ELSE late + 1
    /\ UNCHANGED <<geminiVars, cache, clears>>

\* Without an answer the search goes on with the word as it is, and nothing is kept.
Translate(t) ==
    /\ LookAt(t, "call")
    /\ \/ Reply(t) /\ LookOn(t, "size")
       \/ Fault /\ Rest(t) /\ LookDone(t)
    /\ UNCHANGED <<cache, clears, late>>

Size(t) ==
    /\ LookAt(t, "size")
    /\ LookOn(t, IF Cardinality(cache) >= CacheMax THEN "clear" ELSE "put")
    /\ UNCHANGED <<geminiVars, cache, clears, late>>

Clear(t) ==
    /\ LookAt(t, "clear")
    /\ cache' = {} /\ clears' = clears + 1
    /\ LookOn(t, "put")
    /\ UNCHANGED <<geminiVars, late>>

Put(t) ==
    /\ LookAt(t, "put")
    /\ cache' = cache \cup {look[t].word}
    /\ LookDone(t) /\ Rest(t)
    /\ UNCHANGED <<faults, clears, late>>

BrowseStep(t) ==
    Need(t) \/ Charge(t) \/ Test(t) \/ Read(t) \/ Translate(t) \/ Size(t) \/ Clear(t) \/ Put(t)

BrowseCalls(t) == LookAt(t, "call")
==============================================================================
