-------------------------------- MODULE Mailing --------------------------------
(***************************************************************************)
(* apps/notifier.py from the inside: how a mail comes to be written in the *)
(* language of its reader.  The fixed texts are tables (one for result     *)
(* mails, one for confirmation mails) that the LLM translates once for     *)
(* each language; if it cannot, the English table will do, and then the    *)
(* Korean one.  What a result mail says about the items is translated      *)
(* mail by mail.  Then the mail goes out over SMTP, or is lost.            *)
(*                                                                         *)
(* A mail that a thread has been given goes through these steps while the  *)
(* request it belongs to waits for it.                                     *)
(***************************************************************************)
EXTENDS Gemini

CONSTANT Langs   \* languages of the users, "en" and "ko" among them

ASSUME MailingAssumption == {"en", "ko"} \subseteq Langs

VARIABLES
    ui,            \* _UI_CACHE: <<key, language>> of the texts it holds
    mail           \* the mail each thread is writing

mailingVars == <<ui, mail>>

Tables == {"alert", "verify"}

MailPcs == {"none", "table", "localize", "send"}

Letter == [pc    : MailPcs,
           table : Tables,
           lang  : Langs,      \* language of the reader
           try   : Langs,      \* language the table is looked for in
           local : BOOLEAN,    \* the items are in the language of the reader
           hurt  : BOOLEAN]    \* history: a call for this mail has failed

NoLetter == [pc |-> "none", table |-> "alert", lang |-> "ko", try |-> "ko",
             local |-> TRUE, hurt |-> FALSE]

MailingTypeOK == /\ ui \subseteq (Tables \X Langs) \X Langs
                 /\ mail \in [Threads -> Letter]

MailingInit == /\ ui = {}
               /\ mail = [t \in Threads |-> NoLetter]

MailAt(t, pc) == mail[t].pc = pc

\* notify and verify: the table comes first.
NewLetter(table, lang) ==
    [NoLetter EXCEPT !.pc = "table", !.table = table, !.lang = lang, !.try = lang]

\* The step after the table: a result mail in another language has its items translated.
TableIn(m, lang) ==
    [m EXCEPT !.try = lang,
              !.pc = IF m.table = "alert" /\ m.lang # "ko" THEN "localize" ELSE "send"]

\* Variant: a table is cached for the language that was asked for first.
KeyOfReader(m) == <<m.table, m.lang>>

Key(m) == <<m.table, m.try>>

\* The languages a table can be had in without a call: Korean needs no translation, and one
\* that was made before is used again.
AtHand(m) == {l \in Langs : (l = "ko" /\ m.try = "ko") \/ <<Key(m), l>> \in ui}

TableKnown(t) ==
    /\ MailAt(t, "table")
    /\ \E l \in AtHand(mail[t]) : mail' = [mail EXCEPT ![t] = TableIn(@, l)]
    /\ UNCHANGED <<geminiVars, ui>>

TableCalls(t) == MailAt(t, "table") /\ AtHand(mail[t]) = {}

\* A whole table, placeholders included: it is kept.
TableTranslated(t) ==
    /\ TableCalls(t)
    /\ Reply(t)
    /\ ui' = ui \cup {<<Key(mail[t]), mail[t].try>>}
    /\ mail' = [mail EXCEPT ![t] = TableIn(@, mail[t].try)]

\* No answer, a text or a placeholder is missing: English, then Korean.
TableFails(t) ==
    /\ TableCalls(t)
    /\ NoReply(t)
    /\ mail' = [mail EXCEPT ![t].hurt = TRUE,
                            ![t].try = IF @ = "en" THEN "ko" ELSE "en"]
    /\ UNCHANGED ui

LocalizeCalls(t) == MailAt(t, "localize")

\* _localize: one call for all items; without an answer they stay as they are.
Localize(t) ==
    /\ LocalizeCalls(t)
    /\ \/ /\ Reply(t)
          /\ mail' = [mail EXCEPT ![t].pc = "send"]
       \/ /\ NoReply(t)
          /\ mail' = [mail EXCEPT ![t] = [@ EXCEPT !.pc = "send", !.local = FALSE,
                                                   !.hurt = TRUE]]
    /\ UNCHANGED ui

MailCalls(t) == TableCalls(t) \/ LocalizeCalls(t)

MailStep(t) == TableKnown(t) \/ TableTranslated(t) \/ TableFails(t) \/ Localize(t)

\* The mail leaves the thread, delivered or lost; nobody waits for SMTP twice.
Post(t) == MailAt(t, "send") /\ mail' = [mail EXCEPT ![t] = NoLetter]
==============================================================================
