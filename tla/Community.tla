----------------------------- MODULE Community -----------------------------
(***************************************************************************)
(* The community's chat and its administration together: who joins is      *)
(* announced, tagged and moderated; only a message that moderation has     *)
(* handed on can change its author's karma, and with it the tag; roles,    *)
(* tags and the chat itself are changed from the panel; the process can    *)
(* stop at any time and takes all that is under way with it.               *)
(***************************************************************************)
EXTENDS MemberTags, Moderation, AdminPanel

CONSTANT Budgets   \* bounds: events of each kind that may occur

VARIABLE left      \* events that may still occur

vars == <<recordVars, tagVars, moderationVars, panelVars, left>>

Kinds == {"chat", "tags", "panel", "stop"}

ASSUME CommunityAssumption == Budgets \subseteq [Kinds -> Nat]

Init ==
    /\ RecordsInit /\ TagsInit /\ ModerationInit /\ PanelInit
    /\ left \in Budgets

Spend(kind) == left[kind] > 0 /\ left' = [left EXCEPT ![kind] = @ - 1]

-----------------------------------------------------------------------------

\* Members write and react, join and leave, and apply for a role.
SendMessage(m) ==
    /\ Spend("chat") /\ m \notin Notices /\ Author[m] \in inChat /\ Send(m)
    /\ UNCHANGED <<recordVars, tagVars, panelVars>>

JoinChat(m) ==
    /\ Spend("chat") /\ m \in Notices /\ Join(Author[m]) /\ Send(m)
    /\ UNCHANGED <<recordVars, panelVars>>

Leave(u) ==
    /\ Spend("chat") /\ LeaveChat(u)
    /\ UNCHANGED <<recordVars, moderationVars, panelVars>>

\* A reaction counts if the message is tracked.
React(h, m, d) ==
    /\ Spend("tags") /\ m \in tracked /\ BeginReaction(h, Author[m], d)
    /\ UNCHANGED <<recordVars, moderationVars, panelVars>>

Apply(u, r) ==
    /\ Spend("tags") /\ ApplyAs(u, r)
    /\ UNCHANGED <<admins, banned, connected, moderationVars, panelVars>>

\* Admins change roles and tags; /sync_tags can be sent in the chat itself, where no
\* dialog is open.
ChangeRole(h, p, u, r) ==
    /\ Spend("tags") /\ IsAdmin(p) /\ BeginRoleChange(h, u, r)
    /\ UNCHANGED <<recordVars, moderationVars, panelVars>>

SyncTags(h, p) ==
    /\ Spend("tags") /\ IsAdmin(p) /\ BeginSync(h)
    /\ UNCHANGED <<recordVars, moderationVars, panelVars>>

\* A handler goes on.
HandlerStep(h) ==
    /\ \/ /\ \/ \E u \in Members : BeginJoin(h, u) \/ DropJoin(u)
             \/ WriteKarma(h) \/ SyncNext(h)
             \/ TagApplied(h) \/ TagAgain(h) \/ TagRefused(h) \/ Abort(h)
          /\ UNCHANGED role
       \/ End(h)
    /\ UNCHANGED <<admins, banned, connected, moderationVars, panelVars, left>>

ModerationStep(m) ==
    /\ Moderate(m)
    /\ UNCHANGED <<recordVars, tagVars, panelVars, left>>

\* The panel: buttons and rights are events,
Press(p) ==
    /\ Spend("panel")
    /\ \/ /\ \/ \E state \in AdminDialogs : AskFor(p, state)
             \/ \E r \in Roles : SelectRolePrice(p, r)
             \/ \E a \in Audiences : SelectAudience(p, a)
             \/ AskContact(p)
          /\ UNCHANGED recordVars
       \/ \E u \in Members : (SetAdmin(p, u) \/ SetBanned(p, u)) /\ UNCHANGED panelVars
    /\ UNCHANGED <<tagVars, moderationVars>>

\* and what comes after them.
PanelStep(p) ==
    /\ \/ /\ \/ Back(p) \/ Start(p) \/ Answer(p) \/ AnswerRolePrice(p) \/ Comment(p)
             \/ Contact(p) \/ BeginMailing(p) \/ MailingStep(p)
          /\ UNCHANGED recordVars
       \/ /\ AnswerChannel(p)   \* any chat of which the bot is an administrator
          /\ connected' \in IF settings' # settings THEN BOOLEAN ELSE {connected}
          /\ UNCHANGED <<role, admins, banned>>
    /\ UNCHANGED <<tagVars, moderationVars, left>>

Restart ==
    /\ Spend("stop") /\ Stop /\ StopHandlers /\ StopMailings
    /\ UNCHANGED recordVars

Next ==
    \/ \E m \in Messages : SendMessage(m) \/ JoinChat(m) \/ ModerationStep(m)
    \/ \E u \in Members : Leave(u) \/ Press(u) \/ PanelStep(u)
    \/ \E u \in Members, r \in Roles : Apply(u, r)
    \/ \E h \in Handlers :
          \/ HandlerStep(h)
          \/ \E m \in Messages, d \in {-1, 1} : React(h, m, d)
          \/ \E p \in Members : SyncTags(h, p)
          \/ \E p, u \in Members, r \in Roles : ChangeRole(h, p, u, r)
    \/ Restart

Spec == Init /\ [][Next]_vars

TypeOK == RecordsTypeOK /\ TagsTypeOK /\ ModerationTypeOK /\ PanelTypeOK /\ left \in [Kinds -> Nat]
=============================================================================
