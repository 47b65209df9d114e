-------------------------------- MODULE Gemini --------------------------------
(***************************************************************************)
(* apps/api/gemini.py as the threads of the API use it.  A call posts its  *)
(* request up to MaxRetry times: a busy server and a broken connection are *)
(* worth another attempt, any other error is not.  Of a call that fails    *)
(* for good, and of one whose answer is not what was asked for, the caller *)
(* learns only that there is no answer.                                    *)
(***************************************************************************)
EXTENDS Integers, FiniteSets

CONSTANTS
    Threads,       \* threads of the pool
    MaxRetry,      \* max_retry of _post
    MaxFaults      \* bound: failed attempts, useless answers, exceptions, restarts, in all

ASSUME GeminiAssumption == /\ IsFiniteSet(Threads) /\ Threads # {}
                           /\ MaxRetry \in Nat \ {0} /\ MaxFaults \in Nat

VARIABLES
    tries,         \* tries[t]: attempts the call of thread t has failed so far
    posts,         \* history: posts[t]: requests thread t has sent for the work it is doing
    faults         \* how many faults have happened

geminiVars == <<tries, posts, faults>>

GeminiTypeOK == /\ tries \in [Threads -> 0..(MaxRetry - 1)]
                /\ posts \in [Threads -> Nat]
                /\ faults \in 0..MaxFaults

GeminiInit == /\ tries = [t \in Threads |-> 0]
              /\ posts = [t \in Threads |-> 0]
              /\ faults = 0

Fault == faults < MaxFaults /\ faults' = faults + 1

Posted(t) == posts' = [posts EXCEPT ![t] = @ + 1]

\* _post: the attempt fails and another one follows.
Retry(t) == /\ tries[t] < MaxRetry - 1
            /\ Fault
            /\ tries' = [tries EXCEPT ![t] = @ + 1]
            /\ Posted(t)

Return(t) == tries' = [tries EXCEPT ![t] = 0] /\ Posted(t)

\* The call has an answer.
Reply(t) == Return(t) /\ UNCHANGED faults

\* generate_json, grade, compare_images, translate_strings: None or an empty list.
NoReply(t) == Return(t) /\ Fault

\* The work the calls were made for is over.
Rest(t) == /\ tries' = [tries EXCEPT ![t] = 0]
           /\ posts' = [posts EXCEPT ![t] = 0]
==============================================================================
