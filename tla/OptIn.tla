-------------------------------- MODULE OptIn --------------------------------
(***************************************************************************)
(* What the owner of an e-mail address is promised, without the job, the   *)
(* threads and their rows: reports are opened without an address; an       *)
(* address that is asked for is unconfirmed until a link of the report is  *)
(* opened; and a result is mailed only to an address whose own link was    *)
(* opened.  Opening a link takes time, and the promise does not cover an   *)
(* address that is named for the report meanwhile: it may be confirmed in  *)
(* place of the one the link was sent to.                                  *)
(***************************************************************************)
CONSTANTS Reports, Emails, Tokens, None

VARIABLES
    contact,       \* the address of each report: email, verified, link; None without a report
    links,         \* where each link went: r and email; None before it is sent
    known,         \* the addresses confirmed for each report
    opening,       \* links whose opening is being processed
    exposed,       \* the addresses named for each report during such an opening
    letter,        \* the result mail of the last step: <<report, address>>
    met            \* reports that were ever opened

optVars == <<contact, links, known, opening, exposed, letter, met>>

NoAddress == [email |-> None, verified |-> FALSE, link |-> None]

Confirmed(e) == [email |-> e, verified |-> TRUE, link |-> None]

Init == /\ contact \in [Reports -> {None} \cup {Confirmed(e) : e \in Emails}]
        /\ links = [k \in Tokens |-> None]
        /\ known = [r \in Reports |-> IF contact[r] = None THEN {} ELSE {contact[r].email}]
        /\ opening = {}
        /\ exposed = [r \in Reports |-> {}]
        /\ letter = None
        /\ met = {r \in Reports : contact[r] # None}

Put(r, c) == contact' = IF contact[r] = None THEN contact ELSE [contact EXCEPT ![r] = c]

\* The work of the service: reports may go.
Drop(gone) == /\ contact' = [r \in Reports |-> IF r \in gone THEN None ELSE contact[r]]
              /\ letter' = None /\ UNCHANGED <<links, known, opening, exposed, met>>

Open(r) == /\ r \notin met /\ met' = met \cup {r}
           /\ contact' = [contact EXCEPT ![r] = NoAddress]
           /\ letter' = None /\ UNCHANGED <<links, known, opening, exposed>>

\* The owner of the report names an address; a new link goes to it.
Ask(r, e, k) == /\ links[k] = None
                /\ links' = [links EXCEPT ![k] = [r |-> r, email |-> e]]
                /\ Put(r, [email |-> e, verified |-> FALSE, link |-> k])
                /\ exposed' = IF \E o \in opening : links[o].r = r
                              THEN [exposed EXCEPT ![r] = @ \cup {e}] ELSE exposed
                /\ letter' = None /\ UNCHANGED <<known, opening, met>>

Withdraw(r) == /\ Put(r, NoAddress)
               /\ letter' = None /\ UNCHANGED <<links, known, opening, exposed, met>>

\* The owner of the address opens a link, which must be the pending one of the report.
Follow(k) == /\ links[k] # None
             /\ contact[links[k].r] # None /\ contact[links[k].r].link = k
             /\ opening' = opening \cup {k}
             /\ letter' = None /\ UNCHANGED <<contact, links, known, exposed, met>>

\* Whatever address the report then has is confirmed, and no link is pending any more.
Confirm(k) == /\ k \in opening
              /\ LET r == links[k].r
                 IN  /\ Put(r, Confirmed(contact[r].email))
                     /\ known' = [known EXCEPT ![r] = @ \cup {links[k].email}]
              /\ letter' = None /\ UNCHANGED <<links, opening, exposed, met>>

Finish(done) == /\ opening' = opening \ done
                /\ letter' = None /\ UNCHANGED <<contact, links, known, exposed, met>>

Send(r, e) == /\ e \in known[r] \cup exposed[r]
              /\ letter' = <<r, e>>
              /\ UNCHANGED <<contact, links, known, opening, exposed, met>>

Next == \/ \E gone \in SUBSET Reports : Drop(gone)
        \/ \E r \in Reports : \/ Open(r) \/ Withdraw(r)
                              \/ \E e \in Emails : Send(r, e) \/ \E k \in Tokens : Ask(r, e, k)
        \/ \E k \in Tokens : Follow(k) \/ Confirm(k)
        \/ \E done \in SUBSET Tokens : Finish(done)

Spec == Init /\ [][Next]_optVars
==============================================================================
