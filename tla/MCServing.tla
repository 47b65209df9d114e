------------------------------- MODULE MCServing -------------------------------
(***************************************************************************)
(* Two threads.  They register two texts for the same address and          *)
(* language, one of them streamed, or a photo while somebody browses, or   *)
(* browse for three words with room for one of them, or mail results.        *)
(***************************************************************************)
EXTENDS Serving

MCRequests == {"photo", "text", "plain"}

MCForm == [r \in MCRequests |->
              [photo |-> r = "photo", stream |-> r # "plain", email |-> "a",
               lang |-> IF r = "photo" THEN "en" ELSE "fr"]]

MCLoads == {[browses |-> 0, registers |-> {"plain", "text"}, results |-> <<>>],
            [browses |-> 1, registers |-> {"photo"}, results |-> <<>>],
            [browses |-> 3, registers |-> {}, results |-> <<>>],
            [browses |-> 0, registers |-> {}, results |-> <<"fr", "en", "fr", "ko">>]}
===============================================================================
