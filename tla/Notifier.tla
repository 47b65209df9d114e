------------------------------- MODULE Notifier -------------------------------
(***************************************************************************)
(* apps/notifier.py as the rest of the program sees it: result mails and   *)
(* confirmation mails, sent at most once.  A delivery failure is logged    *)
(* and swallowed.  mail is the result mail the last step delivered;        *)
(* issued[k] says where the link with token k went.                        *)
(*                                                                         *)
(* The rest is history, which the properties look at and no action: for a  *)
(* report r                                                                *)
(*   consent[r]  the addresses whose owner has opened a link for r,        *)
(*   raced[r]    the addresses saved for r while a confirmation of r was   *)
(*               being processed,                                          *)
(*   told[r]     the alerts the job has decided and tried to send since    *)
(*               the owner's last change of r,                             *)
(*   judged[r]   the items the LLM has given a verdict on for r;           *)
(*   touched     reports changed by a request since the job's snapshot,    *)
(*   undone      reports whose last reset of graded_ids the job may have   *)
(*               written over, or whose record of alerts a request has.    *)
(***************************************************************************)
EXTENDS Store

VARIABLES mail, issued, consent, raced, told, judged, touched, undone

mailVars == <<mail, issued>>
historyVars == <<consent, raced, told, judged, touched, undone>>

Kinds == {"strong", "weak"}

Mail == [r : Reports, to : Emails, kind : Kinds, item : Items, by : {"job", "verify"}]

Link == [r : Reports, email : Emails, delivered : BOOLEAN, accepted : BOOLEAN]

ASSUME NullIsNoLink == None \notin Link

NotifierTypeOK == /\ mail \in Mail \cup {None}
                  /\ issued \in [Tokens -> Link \cup {None}]
                  /\ consent \in [Reports -> SUBSET Emails]
                  /\ raced \in [Reports -> SUBSET Emails]
                  /\ told \in [Reports -> SUBSET (Items \X Kinds)]
                  /\ judged \in [Reports -> SUBSET Items]
                  /\ touched \subseteq Reports
                  /\ undone \subseteq Reports

NotifierInit == /\ mail = None
                /\ issued = [k \in Tokens |-> None]
                /\ consent = [r \in Reports |-> IF r \in Seeded THEN {db[r].email} ELSE {}]
                /\ raced = [r \in Reports |-> {}]
                /\ told = [r \in Reports |-> {}]
                /\ judged = [r \in Reports |-> {}]
                /\ touched = {}
                /\ undone = {}

Quiet == mail' = None

\* EmailNotifier.notify: nothing is sent without a recipient or without candidates.
Notify(r, row, ms, kind, sender) ==
    IF row.email = None \/ ms = {} THEN Quiet /\ UNCHANGED faults
    ELSE \/ /\ mail' = [r |-> r, to |-> row.email, kind |-> kind,
                        item |-> Top(ms).item, by |-> sender]
            /\ UNCHANGED faults
         \/ Quiet /\ Fault

\* EmailNotifier.verify: the link reaches the mailbox, or is lost.
SendLinkTo(r, email, token) ==
    \E delivered \in BOOLEAN :
        /\ issued' = [issued EXCEPT ![token] = [r |-> r, email |-> email,
                                 delivered |-> delivered, accepted |-> FALSE]]
        /\ IF delivered THEN UNCHANGED faults ELSE Fault
==============================================================================
