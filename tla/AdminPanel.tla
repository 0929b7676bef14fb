----------------------------- MODULE AdminPanel -----------------------------
(***************************************************************************)
(* The dialogs of the admins: a button asks for something, the next text   *)
(* in that conversation is taken for the answer.  Which dialog a           *)
(* conversation is in is kept in Redis and outlives the rights of whoever  *)
(* began it; the rights are looked at again when the text arrives.  A      *)
(* broadcast is an answer that takes long: a message to everyone chosen,   *)
(* one after the other.  The contact form shares the conversations.  Only  *)
(* the conversation in the private chat is modelled.                       *)
(***************************************************************************)
EXTENDS Records, Integers, FiniteSets

CONSTANTS Keys,      \* settings that an admin may set to a valid text
          Everyone   \* the audience of a broadcast that is no role

ASSUME PanelAssumption == Everyone \notin Roles \cup {NoRole} /\ IsFiniteSet(Members)

AdminDialogs == {"review", "broadcast", "channel", "role_price"} \cup Keys
Dialogs      == AdminDialogs \cup {"none", "contact"}

VARIABLES dialog,    \* each person's conversation: its state and the data kept with it
          settings,  \* how often each setting was changed, modulo 2
          mailing,   \* the broadcast each admin has under way
          unheard    \* people who were told that their message has reached an admin,
                     \* and it has reached none

panelVars == <<dialog, settings, mailing, unheard>>

Audiences == Roles \cup {Everyone}

Quiet == [state |-> "none", audience |-> Everyone, role |-> NoRole]

\* rest: recipients still to come; again: the one that is tried again after flood
\* control; copies: what has arrived, whatever the loop makes of it.
Mailing == [on : BOOLEAN, to : SUBSET Members, rest : SUBSET Members, again : SUBSET Members,
            sent : Nat, failed : Nat, copies : [Members -> Nat]]

NoMailing == [on |-> FALSE, to |-> {}, rest |-> {}, again |-> {}, sent |-> 0, failed |-> 0,
              copies |-> [u \in Members |-> 0]]

PanelTypeOK ==
    /\ dialog \in [Members -> [state : Dialogs, audience : Audiences, role : Roles \cup {NoRole}]]
    /\ settings \in [Keys \cup {"channel", "role_price"} -> 0..1]
    /\ mailing \in [Members -> Mailing]
    /\ unheard \subseteq Members

PanelInit ==
    /\ dialog = [p \in Members |-> Quiet]
    /\ settings = [k \in Keys \cup {"channel", "role_price"} |-> 0]
    /\ mailing = [p \in Members |-> NoMailing]
    /\ unheard = {}

-----------------------------------------------------------------------------
(***************************************************************************)
(* Conversations.                                                          *)
(***************************************************************************)

\* state.set_state; the data kept with the state stays.
Ask(p, state) == dialog' = [dialog EXCEPT ![p].state = state]

\* state.clear
Clear(p) == dialog' = [dialog EXCEPT ![p] = Quiet]

\* Buttons that ask for a setting, the comment of a review, or a new channel.
AskFor(p, state) ==
    /\ IsAdmin(p) /\ state \in AdminDialogs \ {"broadcast", "role_price"}
    /\ Ask(p, state)
    /\ UNCHANGED <<settings, mailing, unheard>>

\* State and data are two writes to Redis; the second one may fail.
SelectRolePrice(p, r) ==
    /\ IsAdmin(p)
    /\ \E chosen \in {r, dialog[p].role} :
          dialog' = [dialog EXCEPT ![p].state = "role_price", ![p].role = chosen]
    /\ UNCHANGED <<settings, mailing, unheard>>

SelectAudience(p, a) ==
    /\ IsAdmin(p)
    /\ \E chosen \in {a, dialog[p].audience} :
          dialog' = [dialog EXCEPT ![p].state = "broadcast", ![p].audience = chosen]
    /\ UNCHANGED <<settings, mailing, unheard>>

AskContact(p) ==
    /\ Ask(p, "contact")
    /\ UNCHANGED <<settings, mailing, unheard>>

\* on_back_to_start.
Back(p) ==
    /\ dialog[p] # Quiet /\ Clear(p)
    /\ UNCHANGED <<settings, mailing, unheard>>

\* /start.  The routers of the admins come first, and their dialogs take any text,
\* commands of later routers included.
Start(p) ==
    /\ dialog[p].state \notin AdminDialogs /\ dialog[p] # Quiet
    /\ Clear(p)
    /\ UNCHANGED <<settings, mailing, unheard>>

\* AdminOnlyMiddleware on callback queries only.
Faulty_MayAnswer(p) == TRUE

\* AdminOnlyMiddleware on the messages of the admins' routers.
MayAnswer(p) == IsAdmin(p)

\* The setting is written, the conversation cleared, and when the confirmation cannot
\* be sent, what was written is rolled back.
Set(p, key) ==
    /\ settings' \in {settings, [settings EXCEPT ![key] = 1 - @]}
    /\ Clear(p)
    /\ UNCHANGED <<mailing, unheard>>

\* A text that is no valid answer leaves everything as it is.
Answer(p) ==
    /\ dialog[p].state \in Keys /\ MayAnswer(p)
    /\ Set(p, dialog[p].state)

\* The role whose price is set is the one in the data; without one nothing is set.
AnswerRolePrice(p) ==
    /\ dialog[p].state = "role_price" /\ MayAnswer(p)
    /\ Set(p, "role_price")
    /\ dialog[p].role = NoRole => settings' = settings

\* change_community_channel, once Telegram has confirmed the chat.  connected' is
\* left to the module that puts the panel together with the chat.
AnswerChannel(p) ==
    /\ dialog[p].state = "channel" /\ MayAnswer(p)
    /\ Set(p, "channel")

\* The comment of a review; what it does to the application is in Applications.
Comment(p) ==
    /\ dialog[p].state = "review" /\ MayAnswer(p)
    /\ Clear(p)
    /\ UNCHANGED <<settings, mailing, unheard>>

\* on_contact_admin_message: cleared first; sending may fail for each admin.
Contact(p) ==
    /\ dialog[p].state = "contact" /\ Clear(p)
    /\ \E reached \in SUBSET (SuperAdmins \cup admins) :
          unheard' \in {unheard, IF reached = {} THEN unheard \cup {p} ELSE unheard}
    /\ UNCHANGED <<settings, mailing>>

-----------------------------------------------------------------------------
(***************************************************************************)
(* BroadcastService.send_to_role.                                          *)
(***************************************************************************)

Recipients(a) == {u \in Members \ banned : a \in {Everyone, role[u]}}

\* on_broadcast_message takes any text; the conversation is cleared first.  (Bound:
\* one broadcast of an admin at a time.)
BeginMailing(p) ==
    /\ dialog[p].state = "broadcast" /\ MayAnswer(p) /\ ~ mailing[p].on
    /\ LET to == Recipients(dialog[p].audience)
       IN mailing' = [mailing EXCEPT ![p] = [NoMailing EXCEPT !.on = TRUE, !.to = to, !.rest = to]]
    /\ Clear(p)
    /\ UNCHANGED <<settings, unheard>>

\* The recipient it is at: the one to be tried again, or else any other.
Turn(r) == IF r.again # {} THEN r.again ELSE r.rest

Mail(p, r) ==
    /\ mailing' = [mailing EXCEPT ![p] = r]
    /\ UNCHANGED <<dialog, settings, unheard>>

Faulty_Delivered(p, u) ==
    /\ mailing[p].on /\ u \in Turn(mailing[p])
    /\ Mail(p, [mailing[p] EXCEPT !.sent = @ + 1, !.copies[u] = @ + 1, !.again = {},
                                  !.rest = IF mailing[p].again # {} THEN @ ELSE @ \ {u}])

Delivered(p, u) ==
    /\ mailing[p].on /\ u \in Turn(mailing[p])
    /\ Mail(p, [mailing[p] EXCEPT !.sent = @ + 1, !.copies[u] = @ + 1, !.again = {},
                                  !.rest = @ \ {u}])

\* The recipient has blocked the bot or is unknown.
NotDelivered(p, u) ==
    /\ mailing[p].on /\ u \in Turn(mailing[p])
    /\ Mail(p, [mailing[p] EXCEPT !.failed = @ + 1, !.again = {}, !.rest = @ \ {u}])

\* Flood control: the same recipient again, after a pause.
FloodControl(p, u) ==
    /\ mailing[p].on /\ mailing[p].again = {} /\ u \in mailing[p].rest
    /\ Mail(p, [mailing[p] EXCEPT !.again = {u}])

\* on_broadcast_message: the counts are logged and told.
EndMailing(p) ==
    /\ mailing[p].on /\ mailing[p].rest = {}
    /\ Mail(p, NoMailing)

\* Flood control a second time, or the network: nobody else gets anything, nothing
\* is logged.
AbortMailing(p) ==
    /\ mailing[p].on
    /\ Mail(p, NoMailing)

\* The process stops; Redis keeps the conversations.
StopMailings ==
    /\ mailing' = [p \in Members |-> NoMailing]
    /\ UNCHANGED <<dialog, settings, unheard>>

MailingStep(p) ==
    \/ \E u \in Members : Delivered(p, u) \/ NotDelivered(p, u) \/ FloodControl(p, u)
    \/ EndMailing(p) \/ AbortMailing(p)

-----------------------------------------------------------------------------
(***************************************************************************)
(* Rights.                                                                 *)
(***************************************************************************)

\* on_make_admin, on_remove_admin
SetAdmin(p, u) ==
    /\ IsAdmin(p)
    /\ \E given \in BOOLEAN : admins' = IF given THEN admins \cup {u} ELSE admins \ {u}
    /\ UNCHANGED <<role, banned, connected>>

\* on_ban_user, on_unban_user
SetBanned(p, u) ==
    /\ IsAdmin(p)
    /\ \E given \in BOOLEAN : banned' = IF given THEN banned \cup {u} ELSE banned \ {u}
    /\ UNCHANGED <<role, admins, connected>>

-----------------------------------------------------------------------------
(***************************************************************************)
(* Properties                                                              *)
(***************************************************************************)

\* A dialog is of no use to somebody who has lost the rights it was begun with: only
\* who is an admin when the answer arrives changes a setting or sends a broadcast
\* (admin_only.py:27).
OnlyAdminsAct ==
    [][\A p \in Members : ~ IsAdmin(p) =>
          /\ mailing'[p].on => mailing[p].on
          /\ dialog'[p] # dialog[p] => settings' = settings]_panelVars

\* What the admin is told at the end is what has happened: everyone counted as sent
\* has exactly one copy, nobody else any, and the counts add up to the audience
\* (broadcast_service.py:22).
ReportIsTrue ==
    \A p \in Members : mailing[p].on =>
        LET r == mailing[p]
        IN /\ \A u \in Members : r.copies[u] <= 1 /\ (r.copies[u] = 1 => u \in r.to)
           /\ r.sent = Cardinality({u \in Members : r.copies[u] = 1})
           /\ r.sent + r.failed + Cardinality(r.rest) = Cardinality(r.to)

\* common.py:70 "your message was sent to the administrator".
ContactIsHeard == unheard = {}
=============================================================================
