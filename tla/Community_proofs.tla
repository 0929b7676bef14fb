-------------------------- MODULE Community_proofs --------------------------
(***************************************************************************)
(* What holds of the chat and its administration together, for any members,*)
(* roles, messages, handlers under way, settings and budgets of events.    *)
(* The lemmas about single steps are those of the modules that Community   *)
(* puts together; here they make an inductive invariant, and the theorems. *)
(***************************************************************************)
EXTENDS Community, Moderation_proofs, AdminPanel_proofs, MemberTags_proofs

\* The inductive invariant.  Its parts rest on each other for the types alone: a tag
\* is a role of a member, and a dialog is typed by the roles there are.
CommunityInv ==
    /\ RecordsTypeOK /\ TagsInv /\ ModerationInv /\ PanelInv
    /\ left \in [Kinds -> Nat]

\* It holds at first.
LEMMA CommunityInvInit == Init => CommunityInv
<1> SUFFICES ASSUME Init PROVE CommunityInv
  OBVIOUS
<1>1. RecordsTypeOK
  BY DEF Init, RecordsInit, RecordsTypeOK
<1>2. left \in [Kinds -> Nat]
  BY CommunityAssumption DEF Init
<1> QED
  BY <1>1, <1>2, TagsInvInit, ModerationInvInit, PanelInvInit DEF Init, CommunityInv

\* Spending an event leaves a number of them.
LEMMA SpendType ==
    ASSUME left \in [Kinds -> Nat], NEW kind \in Kinds, Spend(kind)
    PROVE  left' \in [Kinds -> Nat]
BY DEF Spend

-----------------------------------------------------------------------------
(***************************************************************************)
(* The steps, sorted by whose variables they change.                       *)
(***************************************************************************)

\* Members write, join and leave (SendMessage, JoinChat, Leave).
LEMMA ChatKeepsInv ==
    ASSUME CommunityInv,
           \/ \E m \in Messages : SendMessage(m) \/ JoinChat(m)
           \/ \E u \in Members : Leave(u)
    PROVE  CommunityInv'
<1> USE DEF CommunityInv
<1>1. RecordsTypeOK' /\ PanelInv' /\ UNCHANGED role
  <2>1. UNCHANGED <<recordVars, panelVars>>
    BY DEF SendMessage, JoinChat, Leave
  <2> QED
    BY <2>1, IdleKeepsPanel DEF RecordsTypeOK, recordVars
<1>2. left' \in [Kinds -> Nat]
  BY SpendType DEF SendMessage, JoinChat, Leave, Kinds
<1>3. CASE \E m \in Messages : SendMessage(m)
  BY <1>1, <1>2, <1>3, ModerateKeepsInv, IdleKeepsTags DEF SendMessage
<1>4. CASE \E m \in Messages : JoinChat(m)
  <2>1. PICK m \in Messages : JoinChat(m)
    BY <1>4
  <2>2. Author[m] \in Members
    BY ModerationAssumption
  <2> QED
    BY <1>1, <1>2, <2>1, <2>2, ModerateKeepsInv, EventFits DEF JoinChat
<1>5. CASE \E u \in Members : Leave(u)
  BY <1>1, <1>2, <1>5, IdleKeepsModeration, EventFits DEF Leave
<1> QED
  BY <1>3, <1>4, <1>5

\* Handlers that set tags begin (React, ChangeRole, SyncTags).
LEMMA TagEventKeepsInv ==
    ASSUME CommunityInv, NEW h \in Handlers,
           \/ \E m \in Messages, d \in {-1, 1} : React(h, m, d)
           \/ \E p \in Members : SyncTags(h, p)
           \/ \E p, u \in Members, r \in Roles : ChangeRole(h, p, u, r)
    PROVE  CommunityInv'
<1> USE DEF CommunityInv
<1>1. RecordsTypeOK' /\ PanelInv' /\ ModerationInv' /\ UNCHANGED role
  <2>1. UNCHANGED <<recordVars, moderationVars, panelVars>>
    BY DEF React, ChangeRole, SyncTags
  <2> QED
    BY <2>1, IdleKeepsPanel, IdleKeepsModeration DEF RecordsTypeOK, recordVars
<1>2. left' \in [Kinds -> Nat]
  BY SpendType DEF React, ChangeRole, SyncTags, Kinds
<1>3. ASSUME NEW m \in Messages, NEW d \in {-1, 1}, React(h, m, d) PROVE TagsInv'
  <2>1. Author[m] \in Members /\ d \in Int
    BY ModerationAssumption
  <2> QED
    BY <1>1, <1>3, <2>1, ReactionBegins DEF React
<1>4. ASSUME NEW p \in Members, SyncTags(h, p) PROVE TagsInv'
  BY <1>1, <1>4, SyncBegins DEF SyncTags
<1>5. ASSUME NEW u \in Members, NEW p \in Members, NEW r \in Roles, ChangeRole(h, p, u, r)
      PROVE  TagsInv'
  BY <1>1, <1>5, RoleChangeBegins DEF ChangeRole
<1> QED
  BY <1>1, <1>2, <1>3, <1>4, <1>5

\* A new application (Apply).
LEMMA ApplyKeepsInv ==
    ASSUME CommunityInv, NEW u \in Members, NEW r \in Roles, Apply(u, r)
    PROVE  CommunityInv'
<1> USE DEF CommunityInv
<1>1. ApplyAs(u, r) /\ UNCHANGED <<admins, banned, connected, moderationVars, panelVars>>
  BY DEF Apply
<1>2. RecordsTypeOK'
  BY <1>1 DEF ApplyAs, RecordsTypeOK
<1>3. PanelInv' /\ ModerationInv'
  BY <1>1, IdleKeepsPanel, IdleKeepsModeration
<1>4. left' \in [Kinds -> Nat]
  BY SpendType DEF Apply, Kinds
<1>5. TagsInv'
  BY <1>1, EventFits
<1> QED
  BY <1>2, <1>3, <1>4, <1>5

\* A handler goes on (HandlerStep).
LEMMA HandlerKeepsInv ==
    ASSUME CommunityInv, NEW h \in Handlers, HandlerStep(h)
    PROVE  CommunityInv'
<1> USE DEF CommunityInv
<1>1. UNCHANGED <<admins, banned, connected, moderationVars, panelVars, left>>
  BY DEF HandlerStep
<1>2. RecordsTypeOK'
  <2>1. CASE UNCHANGED role
    BY <1>1, <2>1 DEF RecordsTypeOK
  <2>2. CASE End(h)
    <3>1. handler[h].roles \in [Members -> Roles \cup {NoRole}] /\ handler[h].of \in Members
      BY DEF TagsInv, TagsTypeOK, Handler
    <3> QED
      BY <1>1, <2>2, <3>1 DEF RecordsTypeOK, End
  <2> QED
    BY <2>1, <2>2 DEF HandlerStep
<1>3. PanelInv' /\ ModerationInv' /\ left' \in [Kinds -> Nat]
  BY <1>1, IdleKeepsPanel, IdleKeepsModeration
<1>4. TagsInv'
  <2>1. CASE UNCHANGED role /\ \E u \in Members : BeginJoin(h, u) \/ DropJoin(u)
    BY <2>1, JoinBegins, DropFits
  <2>2. CASE UNCHANGED role /\ (WriteKarma(h) \/ SyncNext(h))
    BY <2>2, KarmaWritten, SyncGoesOn
  <2>3. CASE UNCHANGED role /\ (TagApplied(h) \/ TagAgain(h) \/ TagRefused(h) \/ Abort(h))
    BY <2>3, CallSucceeds, CallFails, AbortFits
  <2>4. CASE End(h)
    BY <2>4, EndFits
  <2> QED
    BY <2>1, <2>2, <2>3, <2>4 DEF HandlerStep
<1> QED
  BY <1>1, <1>2, <1>3, <1>4

\* A message is moderated (ModerationStep).
LEMMA ModerationStepKeepsInv ==
    ASSUME CommunityInv, NEW m \in Messages, ModerationStep(m)
    PROVE  CommunityInv'
<1>1. /\ Moderate(m) /\ UNCHANGED <<recordVars, tagVars, panelVars, left>>
  BY DEF ModerationStep
<1>2. RecordsTypeOK' /\ UNCHANGED role /\ left' = left
  BY <1>1 DEF CommunityInv, RecordsTypeOK, recordVars
<1> QED
  BY <1>1, <1>2, ModerateKeepsInv, IdleKeepsTags, IdleKeepsPanel DEF CommunityInv

\* The panel (Press, PanelStep).
LEMMA PressKeepsInv ==
    ASSUME CommunityInv, NEW p \in Members, Press(p)
    PROVE  CommunityInv'
<1> USE DEF CommunityInv
<1>1. UNCHANGED <<tagVars, moderationVars>> /\ UNCHANGED role
  BY DEF Press, recordVars, SetAdmin, SetBanned
<1>2. TagsInv' /\ ModerationInv' /\ left' \in [Kinds -> Nat]
  BY <1>1, IdleKeepsTags, IdleKeepsModeration, SpendType DEF Press, Kinds
<1>3. CASE Conversation(p) /\ UNCHANGED recordVars
  BY <1>2, <1>3, ConversationKeepsInv DEF recordVars, RecordsTypeOK
<1>4. CASE \E u \in Members : (SetAdmin(p, u) \/ SetBanned(p, u)) /\ UNCHANGED panelVars
  <2>1. RecordsTypeOK'
    BY <1>4 DEF SetAdmin, SetBanned, RecordsTypeOK
  <2> QED
    BY <1>2, <1>4, <2>1, IdleKeepsPanel
<1> QED
  BY <1>3, <1>4 DEF Press, Conversation

\* What comes after the buttons (PanelStep).
LEMMA PanelStepKeepsInv ==
    ASSUME CommunityInv, NEW p \in Members, PanelStep(p)
    PROVE  CommunityInv'
<1> USE DEF CommunityInv
<1>1. UNCHANGED <<tagVars, moderationVars, left>> /\ UNCHANGED role
  BY DEF PanelStep, recordVars
<1>2. TagsInv' /\ ModerationInv' /\ left' \in [Kinds -> Nat]
  BY <1>1, IdleKeepsTags, IdleKeepsModeration
<1>3. RecordsTypeOK'
  <2>1. CASE UNCHANGED recordVars
    BY <2>1 DEF recordVars, RecordsTypeOK
  <2>2. CASE /\ connected' \in IF settings' # settings THEN BOOLEAN ELSE {connected}
             /\ UNCHANGED <<role, admins, banned>>
    <3>1. connected' \in BOOLEAN
      BY <2>2 DEF RecordsTypeOK
    <3> QED
      BY <2>2, <3>1 DEF RecordsTypeOK
  <2> QED
    BY <2>1, <2>2 DEF PanelStep
<1>4. PanelInv'
  <2>1. CASE Conversation(p)
    BY <2>1, ConversationKeepsInv
  <2>2. CASE BeginMailing(p) \/ MailingStep(p)
    BY <2>2, MailingKeepsInv
  <2> QED
    BY <2>1, <2>2 DEF PanelStep, Conversation
<1> QED
  BY <1>2, <1>3, <1>4

\* The process stops and starts again (Restart).
LEMMA RestartKeepsInv ==
    ASSUME CommunityInv, Restart PROVE CommunityInv'
<1>1. Stop /\ StopHandlers /\ StopMailings /\ UNCHANGED recordVars /\ left' \in [Kinds -> Nat]
  BY SpendType DEF Restart, CommunityInv, Kinds
<1>2. RecordsTypeOK' /\ UNCHANGED role
  BY <1>1 DEF CommunityInv, RecordsTypeOK, recordVars
<1> QED
  BY <1>1, <1>2, StopKeepsInv, StopFits, StopKeepsPanelInv DEF CommunityInv

\* No step breaks the invariant.
LEMMA NextKeepsInv ==
    ASSUME CommunityInv, [Next]_vars PROVE CommunityInv'
<1>1. CASE \/ \E m \in Messages : SendMessage(m) \/ JoinChat(m)
           \/ \E u \in Members : Leave(u)
  BY <1>1, ChatKeepsInv
<1>2. CASE \E m \in Messages : ModerationStep(m)
  BY <1>2, ModerationStepKeepsInv
<1>3. CASE \E u \in Members : Press(u) \/ PanelStep(u)
  BY <1>3, PressKeepsInv, PanelStepKeepsInv
<1>4. CASE \E u \in Members, r \in Roles : Apply(u, r)
  BY <1>4, ApplyKeepsInv
<1>5. ASSUME NEW h \in Handlers, HandlerStep(h) PROVE CommunityInv'
  BY <1>5, HandlerKeepsInv
<1>6. ASSUME NEW h \in Handlers,
             \/ \E m \in Messages, d \in {-1, 1} : React(h, m, d)
             \/ \E p \in Members : SyncTags(h, p)
             \/ \E p, u \in Members, r \in Roles : ChangeRole(h, p, u, r)
      PROVE  CommunityInv'
  BY <1>6, TagEventKeepsInv
<1>7. CASE Restart
  BY <1>7, RestartKeepsInv
<1>8. CASE UNCHANGED vars
  <2>1. UNCHANGED <<recordVars, tagVars, moderationVars, panelVars, left>>
    BY <1>8 DEF vars
  <2>2. RecordsTypeOK' /\ UNCHANGED role
    BY <2>1 DEF recordVars, RecordsTypeOK, CommunityInv
  <2> QED
    BY <2>1, <2>2, IdleKeepsTags, IdleKeepsModeration, IdleKeepsPanel DEF CommunityInv
<1> QED
  BY <1>1, <1>2, <1>3, <1>4, <1>5, <1>6, <1>7, <1>8 DEF Next

\* The inductive invariant holds throughout.
THEOREM CommunityInvariant == Spec => []CommunityInv
<1>1. Init => CommunityInv
  BY CommunityInvInit
<1>2. CommunityInv /\ [Next]_vars => CommunityInv'
  BY NextKeepsInv
<1> QED
  BY <1>1, <1>2, PTL DEF Spec

-----------------------------------------------------------------------------
(***************************************************************************)
(* The theorems.                                                           *)
(***************************************************************************)

\* Every variable stays of its type.
THEOREM TypeCorrect == Spec => []TypeOK
<1>1. CommunityInv => TypeOK
  BY DEF CommunityInv, TypeOK, TagsInv, ModerationInv, PanelInv
<1> QED
  BY <1>1, CommunityInvariant, PTL

\* A message handled without trouble is shown if and only if it may be: it is no notice,
\* and has no link, or is an administrator's, in the name of a channel, or for an earlier
\* router (link_moderation.py:81, 100; router.py:12).
THEOREM LinksRemovedHolds == Spec => []LinksRemoved
<1>1. CommunityInv => LinksRemoved
  BY DEF CommunityInv, ModerationInv
<1> QED
  BY <1>1, CommunityInvariant, PTL

\* What link_moderation removed gets no row that karma could be counted by.
THEOREM RemovedNotTrackedHolds == Spec => []RemovedNotTracked
<1>1. CommunityInv => RemovedNotTracked
  BY DEF CommunityInv, ModerationInv
<1> QED
  BY <1>1, CommunityInvariant, PTL

\* A warning is shown only while its removal is pending, or after that failed or was
\* lost with the process (_cleanup_warning).
THEOREM WarningsPassHolds == Spec => []WarningsPass
<1>1. CommunityInv => WarningsPass
  BY DEF CommunityInv, ModerationInv
<1> QED
  BY <1>1, CommunityInvariant, PTL

\* The counts of a broadcast are those of the copies that have arrived, one each
\* (BroadcastService.send_to_role).
THEOREM ReportIsTrueHolds == Spec => []ReportIsTrue
<1>1. CommunityInv => ReportIsTrue
  BY InvReportIsTrue DEF CommunityInv
<1> QED
  BY <1>1, CommunityInvariant, PTL

\* Nobody who is no admin when the answer arrives changes a setting or starts a
\* broadcast, whatever dialog was begun before (AdminOnlyMiddleware).
THEOREM OnlyAdminsActHolds == Spec => OnlyAdminsAct
<1>1. ASSUME CommunityInv, [Next]_vars
      PROVE  [\A p \in Members : NothingBy(p)]_panelVars
  <2>1. PanelTypeOK
    BY <1>1 DEF CommunityInv, PanelInv
  <2>2. CASE UNCHANGED panelVars
    BY <2>2
  <2>3. CASE \E q \in Members : Conversation(q) \/ BeginMailing(q) \/ MailingStep(q)
    BY <2>1, <2>3, ConversationNeedsRights, MailingNeedsRights
  <2>4. CASE StopMailings
    BY <2>1, <2>4, StopNeedsNoRights
  <2>5. \/ UNCHANGED panelVars \/ StopMailings
        \/ \E q \in Members : Conversation(q) \/ BeginMailing(q) \/ MailingStep(q)
    <3>1. ASSUME NEW m \in Messages, SendMessage(m) \/ JoinChat(m) \/ ModerationStep(m)
          PROVE  UNCHANGED panelVars
      BY <3>1 DEF SendMessage, JoinChat, ModerationStep
    <3>2. ASSUME NEW u \in Members, Leave(u) PROVE UNCHANGED panelVars
      BY <3>2 DEF Leave
    <3>3. ASSUME NEW q \in Members, Press(q) \/ PanelStep(q)
          PROVE  \/ UNCHANGED panelVars
                 \/ Conversation(q) \/ BeginMailing(q) \/ MailingStep(q)
      BY <3>3 DEF Press, PanelStep, Conversation
    <3>4. ASSUME NEW u \in Members, NEW r \in Roles, Apply(u, r) PROVE UNCHANGED panelVars
      BY <3>4 DEF Apply
    <3>5. ASSUME NEW h \in Handlers, HandlerStep(h) PROVE UNCHANGED panelVars
      BY <3>5 DEF HandlerStep
    <3>6. ASSUME NEW h \in Handlers,
                 \/ \E m \in Messages, d \in {-1, 1} : React(h, m, d)
                 \/ \E p \in Members : SyncTags(h, p)
                 \/ \E p, u \in Members, r \in Roles : ChangeRole(h, p, u, r)
          PROVE  UNCHANGED panelVars
      BY <3>6 DEF React, SyncTags, ChangeRole
    <3>7. CASE Restart
      BY <3>7 DEF Restart
    <3>8. CASE UNCHANGED vars
      BY <3>8 DEF vars
    <3> QED
      BY <1>1, <3>1, <3>2, <3>3, <3>4, <3>5, <3>6, <3>7, <3>8 DEF Next
  <2> QED
    BY <2>2, <2>3, <2>4, <2>5
<1>2. [\A p \in Members : NothingBy(p)]_panelVars
      => [\A p \in Members : ~ IsAdmin(p) =>
            /\ mailing'[p].on => mailing[p].on
            /\ dialog'[p] # dialog[p] => settings' = settings]_panelVars
  BY DEF NothingBy
<1> QED
  BY <1>1, <1>2, CommunityInvariant, PTL DEF Spec, OnlyAdminsAct

\* A handler that commits leaves the tags on record of all whom it tagged while
\* nothing but other reactions had to do with them (karma.py:173).
THEOREM TagOnRecordHolds == Spec => TagOnRecord
<1>1. CommunityInv => [\A h \in Handlers : handler[h] # Idle /\ handler'[h] = Idle /\ End(h) =>
          \A u \in handler[h].shown \cap handler[h].alone :
              tag'[u] = <<role'[u], karma'[u]>>]_<<tagVars, recordVars>>
  BY EndShowsRecord DEF CommunityInv
<1> QED
  BY <1>1, CommunityInvariant, PTL DEF Spec, TagOnRecord
=============================================================================
