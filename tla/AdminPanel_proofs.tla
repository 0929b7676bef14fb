------------------------- MODULE AdminPanel_proofs -------------------------
(***************************************************************************)
(* What no step of the panel breaks, for any number of people, of admins   *)
(* with a dialog or a broadcast under way, and of settings.                *)
(* Community_proofs puts these lemmas together with those of the other     *)
(* modules.                                                                *)
(***************************************************************************)
EXTENDS AdminPanel, FiniteSetTheorems, TLAPS

\* The steps of the conversation of p, and the buttons that begin it.
Conversation(p) ==
    \/ \E state \in AdminDialogs : AskFor(p, state)
    \/ \E r \in Roles : SelectRolePrice(p, r)
    \/ \E a \in Audiences : SelectAudience(p, a)
    \/ AskContact(p) \/ Back(p) \/ Start(p) \/ Answer(p) \/ AnswerRolePrice(p)
    \/ AnswerChannel(p) \/ Comment(p) \/ Contact(p)

\* Who has a copy of the broadcast.
Served(r) == {u \in Members : r.copies[u] = 1}

(***************************************************************************)
(* The inductive invariant of a broadcast: those who have a copy and those *)
(* still to come are disjoint parts of the audience, and the recipient     *)
(* that is tried again is still to come.                                   *)
(***************************************************************************)
Counted(r) == r.on =>
    /\ r.rest \subseteq r.to /\ r.again \subseteq r.rest
    /\ \A u \in Members : r.copies[u] <= 1 /\ (r.copies[u] = 1 => u \in r.to \ r.rest)
    /\ r.sent = Cardinality(Served(r))
    /\ r.sent + r.failed + Cardinality(r.rest) = Cardinality(r.to)

PanelInv == PanelTypeOK /\ \A p \in Members : Counted(mailing[p])

-----------------------------------------------------------------------------
(***************************************************************************)
(* Broadcasts.                                                             *)
(***************************************************************************)

\* The sets that are counted are finite.
LEMMA Finite == ASSUME NEW S, S \subseteq Members PROVE IsFiniteSet(S)
BY PanelAssumption, FS_Subset

\* No broadcast (NoMailing).
LEMMA NoMailingCounted == NoMailing \in Mailing /\ ~ NoMailing.on /\ Counted(NoMailing)
<1>1. NoMailing.on = FALSE
  BY Zenon DEF NoMailing
<1>2. NoMailing.on \in BOOLEAN
  BY <1>1, Zenon
<1>3. NoMailing \in Mailing
  BY <1>2, Zenon DEF NoMailing, Mailing
<1> QED
  BY <1>1, <1>3, Zenon DEF Counted

\* A record with the fields of a broadcast.
LEMMA IsMailing ==
    ASSUME NEW on \in BOOLEAN, NEW to \in SUBSET Members, NEW rest \in SUBSET Members,
           NEW again \in SUBSET Members, NEW sent \in Nat, NEW failed \in Nat,
           NEW copies \in [Members -> Nat]
    PROVE  [on |-> on, to |-> to, rest |-> rest, again |-> again, sent |-> sent,
            failed |-> failed, copies |-> copies] \in Mailing
BY Zenon DEF Mailing

\* What a broadcast that is counted right consists of.
LEMMA MailingFields ==
    ASSUME NEW r \in Mailing, r.on, Counted(r), NEW u \in Turn(r)
    PROVE  /\ r.rest \subseteq Members /\ r.to \subseteq Members
           /\ r.sent \in Nat /\ r.failed \in Nat /\ r.copies \in [Members -> Nat]
           /\ u \in r.rest /\ u \in Members /\ u \notin Served(r)
           /\ IsFiniteSet(r.rest) /\ IsFiniteSet(Served(r))
           /\ Cardinality(r.rest \ {u}) = Cardinality(r.rest) - 1
           /\ Cardinality(r.rest) \in Nat
<1>1. /\ r.rest \subseteq Members /\ r.to \subseteq Members
      /\ r.sent \in Nat /\ r.failed \in Nat /\ r.copies \in [Members -> Nat]
  BY DEF Mailing
<1>2. u \in r.rest
  BY DEF Turn, Counted
<1>3. u \notin Served(r)
  BY <1>2 DEF Served, Counted
<1>4. IsFiniteSet(r.rest) /\ IsFiniteSet(Served(r))
  BY <1>1, Finite DEF Served
<1>5. Cardinality(r.rest \ {u}) = Cardinality(r.rest) - 1
  BY <1>2, <1>4, FS_RemoveElement
<1>6. Cardinality(r.rest) \in Nat
  BY <1>4, FS_CardinalityType
<1> QED
  BY <1>1, <1>2, <1>3, <1>4, <1>5, <1>6

\* One more has a copy, and is counted as sent (Delivered).
LEMMA DeliveredCounted ==
    ASSUME NEW r \in Mailing, r.on, Counted(r), NEW u \in Turn(r),
           NEW q, q = [r EXCEPT !.sent = @ + 1, !.copies[u] = @ + 1, !.again = {},
                                !.rest = @ \ {u}]
    PROVE  q \in Mailing /\ q.on /\ Counted(q)
<1>1. /\ q.to = r.to /\ q.rest = r.rest \ {u} /\ q.again = {}
      /\ q.sent = r.sent + 1 /\ q.failed = r.failed
      /\ q.copies = [r.copies EXCEPT ![u] = r.copies[u] + 1]
  BY DEF Mailing
<1>2. q.on = r.on
  BY Zenon DEF Mailing
<1>3. /\ r.rest \subseteq Members /\ r.to \subseteq Members
      /\ r.sent \in Nat /\ r.failed \in Nat /\ r.copies \in [Members -> Nat]
      /\ u \in r.rest /\ u \in Members /\ u \notin Served(r)
      /\ IsFiniteSet(r.rest) /\ IsFiniteSet(Served(r))
      /\ Cardinality(r.rest \ {u}) = Cardinality(r.rest) - 1
      /\ Cardinality(r.rest) \in Nat
  BY MailingFields
<1>4. q \in Mailing
  <2>1. r.on \in BOOLEAN
    BY Zenon DEF Mailing
  <2>2. /\ r.to \in SUBSET Members /\ r.rest \ {u} \in SUBSET Members
        /\ {} \in SUBSET Members /\ r.sent + 1 \in Nat
        /\ [r.copies EXCEPT ![u] = r.copies[u] + 1] \in [Members -> Nat]
    BY <1>3
  <2>3. [on |-> r.on, to |-> r.to, rest |-> r.rest \ {u}, again |-> {}, sent |-> r.sent + 1,
         failed |-> r.failed, copies |-> [r.copies EXCEPT ![u] = r.copies[u] + 1]] \in Mailing
    BY <1>3, <2>1, <2>2, IsMailing, Zenon
  <2>4. q = [on |-> r.on, to |-> r.to, rest |-> r.rest \ {u}, again |-> {}, sent |-> r.sent + 1,
             failed |-> r.failed, copies |-> [r.copies EXCEPT ![u] = r.copies[u] + 1]]
    BY Zenon DEF Mailing
  <2> QED
    BY <2>3, <2>4, Zenon
<1>5. r.copies[u] = 0
  BY <1>3 DEF Served, Counted
<1>6. /\ q.rest \subseteq q.to /\ q.again \subseteq q.rest
      /\ \A v \in Members : q.copies[v] <= 1 /\ (q.copies[v] = 1 => v \in q.to \ q.rest)
  BY <1>1, <1>3, <1>5 DEF Counted
<1>7. Served(q) = Served(r) \cup {u}
  BY <1>1, <1>3, <1>5 DEF Served
<1>8. Cardinality(Served(q)) = Cardinality(Served(r)) + 1
  BY <1>3, <1>7, FS_AddElement
<1>9. q.sent = Cardinality(Served(q))
  BY <1>1, <1>3, <1>8 DEF Counted
<1>10. q.sent + q.failed + Cardinality(q.rest) = Cardinality(q.to)
  BY <1>1, <1>3 DEF Counted
<1>11. Counted(q)
  BY <1>6, <1>9, <1>10, Zenon DEF Counted
<1> QED
  BY <1>2, <1>4, <1>11, Zenon

\* One has none, and is counted as failed (NotDelivered).
LEMMA NotDeliveredCounted ==
    ASSUME NEW r \in Mailing, r.on, Counted(r), NEW u \in Turn(r),
           NEW q, q = [r EXCEPT !.failed = @ + 1, !.again = {}, !.rest = @ \ {u}]
    PROVE  q \in Mailing /\ q.on /\ Counted(q)
<1>1. /\ q.to = r.to /\ q.rest = r.rest \ {u} /\ q.again = {}
      /\ q.sent = r.sent /\ q.failed = r.failed + 1 /\ q.copies = r.copies
  BY DEF Mailing
<1>2. q.on = r.on
  BY Zenon DEF Mailing
<1>3. /\ r.rest \subseteq Members /\ r.sent \in Nat /\ r.failed \in Nat
      /\ Cardinality(r.rest \ {u}) = Cardinality(r.rest) - 1
      /\ Cardinality(r.rest) \in Nat
  BY MailingFields
<1>4. q \in Mailing
  <2>1. r.on \in BOOLEAN
    BY Zenon DEF Mailing
  <2>2. /\ r.to \in SUBSET Members /\ r.rest \ {u} \in SUBSET Members
        /\ {} \in SUBSET Members /\ r.failed + 1 \in Nat /\ r.copies \in [Members -> Nat]
    BY <1>3 DEF Mailing
  <2>3. [on |-> r.on, to |-> r.to, rest |-> r.rest \ {u}, again |-> {}, sent |-> r.sent,
         failed |-> r.failed + 1, copies |-> r.copies] \in Mailing
    BY <1>3, <2>1, <2>2, IsMailing, Zenon
  <2>4. q = [on |-> r.on, to |-> r.to, rest |-> r.rest \ {u}, again |-> {}, sent |-> r.sent,
             failed |-> r.failed + 1, copies |-> r.copies]
    BY Zenon DEF Mailing
  <2> QED
    BY <2>3, <2>4, Zenon
<1>5. /\ q.rest \subseteq q.to /\ q.again \subseteq q.rest
      /\ \A v \in Members : q.copies[v] <= 1 /\ (q.copies[v] = 1 => v \in q.to \ q.rest)
  BY <1>1 DEF Counted
<1>6. q.sent = Cardinality(Served(q))
  BY <1>1 DEF Counted, Served
<1>7. q.sent + q.failed + Cardinality(q.rest) = Cardinality(q.to)
  BY <1>1, <1>3 DEF Counted
<1>8. Counted(q)
  BY <1>5, <1>6, <1>7, Zenon DEF Counted
<1> QED
  BY <1>2, <1>4, <1>8, Zenon

\* One is to be tried again (FloodControl).
LEMMA FloodControlCounted ==
    ASSUME NEW r \in Mailing, r.on, Counted(r), NEW u \in r.rest,
           NEW q, q = [r EXCEPT !.again = {u}]
    PROVE  q \in Mailing /\ q.on /\ Counted(q)
<1>1. /\ q.to = r.to /\ q.rest = r.rest /\ q.again = {u}
      /\ q.sent = r.sent /\ q.failed = r.failed /\ q.copies = r.copies
  BY DEF Mailing
<1>2. q.on = r.on
  BY Zenon DEF Mailing
<1>3. q \in Mailing
  BY DEF Mailing
<1>4. Counted(q)
  BY <1>1 DEF Counted, Served
<1> QED
  BY <1>2, <1>3, <1>4, Zenon

\* A broadcast begins: everyone is still to come (BeginMailing).
LEMMA BeginningCounted ==
    ASSUME NEW to \in SUBSET Members,
           NEW q, q = [NoMailing EXCEPT !.on = TRUE, !.to = to, !.rest = to]
    PROVE  q \in Mailing /\ Counted(q)
<1>1. /\ q.to = to /\ q.rest = to /\ q.again = {} /\ q.sent = 0 /\ q.failed = 0
      /\ q.copies = [u \in Members |-> 0]
  BY DEF NoMailing
<1>2. q.on = TRUE
  BY Zenon DEF NoMailing
<1>3. q.on \in BOOLEAN
  BY <1>2, Zenon
<1>4. q = [on |-> TRUE, to |-> to, rest |-> to, again |-> {}, sent |-> 0, failed |-> 0,
           copies |-> [u \in Members |-> 0]]
  BY Zenon DEF NoMailing
<1>5. q \in Mailing
  <2>1. /\ {} \in SUBSET Members /\ 0 \in Nat
        /\ [u \in Members |-> 0] \in [Members -> Nat]
    OBVIOUS
  <2>2. TRUE \in BOOLEAN
    BY <1>2, <1>3, Zenon
  <2>3. [on |-> TRUE, to |-> to, rest |-> to, again |-> {}, sent |-> 0, failed |-> 0,
         copies |-> [u \in Members |-> 0]] \in Mailing
    BY <2>1, <2>2, IsMailing, Zenon
  <2> QED
    BY <1>4, <2>3, Zenon
<1>6. Served(q) = {}
  BY <1>1 DEF Served
<1>7. Cardinality(Served(q)) = 0 /\ Cardinality(to) \in Nat
  BY <1>6, Finite, FS_EmptySet, FS_CardinalityType
<1>8. Counted(q)
  BY <1>1, <1>7 DEF Counted
<1> QED
  BY <1>5, <1>8

-----------------------------------------------------------------------------
(***************************************************************************)
(* The steps of the panel.                                                 *)
(***************************************************************************)

\* No dialogs and no broadcasts at first (PanelInit).
LEMMA PanelInvInit == PanelInit => PanelInv
<1> SUFFICES ASSUME PanelInit PROVE PanelInv
  OBVIOUS
<1>1. dialog \in [Members -> [state : Dialogs, audience : Audiences, role : Roles \cup {NoRole}]]
  BY DEF PanelInit, Quiet, Dialogs, Audiences
<1>2. mailing \in [Members -> Mailing] /\ \A p \in Members : Counted(mailing[p])
  BY NoMailingCounted DEF PanelInit
<1>3. settings \in [Keys \cup {"channel", "role_price"} -> 0..1] /\ unheard \subseteq Members
  BY DEF PanelInit
<1> QED
  BY <1>1, <1>2, <1>3 DEF PanelInv, PanelTypeOK

\* What a dialog does to the dialogs and settings, and that it leaves the broadcasts.
LEMMA ConversationTypes ==
    ASSUME PanelTypeOK, RecordsTypeOK, NEW p \in Members, Conversation(p)
    PROVE  PanelTypeOK' /\ mailing' = mailing
<1> USE DEF PanelTypeOK, Ask, Clear
<1>1. Quiet \in [state : Dialogs, audience : Audiences, role : Roles \cup {NoRole}]
  BY DEF Quiet, Dialogs, Audiences
<1>2. CASE \E state \in AdminDialogs : AskFor(p, state)
  BY <1>2 DEF AskFor, Dialogs
<1>3. CASE \E r \in Roles : SelectRolePrice(p, r)
  <2>1. PICK chosen \in Roles \cup {NoRole} :
            dialog' = [dialog EXCEPT ![p].state = "role_price", ![p].role = chosen]
    BY <1>3 DEF SelectRolePrice
  <2>2. "role_price" \in Dialogs
    BY DEF Dialogs, AdminDialogs
  <2>3. dialog' = [dialog EXCEPT ![p] = [dialog[p] EXCEPT !.state = "role_price", !.role = chosen]]
    BY <2>1
  <2>4. UNCHANGED <<settings, mailing, unheard>>
    BY <1>3 DEF SelectRolePrice
  <2> QED
    BY <2>2, <2>3, <2>4
<1>4. CASE \E a \in Audiences : SelectAudience(p, a)
  <2>1. PICK chosen \in Audiences :
            dialog' = [dialog EXCEPT ![p].state = "broadcast", ![p].audience = chosen]
    BY <1>4 DEF SelectAudience
  <2>2. "broadcast" \in Dialogs
    BY DEF Dialogs, AdminDialogs
  <2>3. dialog' = [dialog EXCEPT ![p] = [dialog[p] EXCEPT !.state = "broadcast", !.audience = chosen]]
    BY <2>1
  <2>4. UNCHANGED <<settings, mailing, unheard>>
    BY <1>4 DEF SelectAudience
  <2> QED
    BY <2>2, <2>3, <2>4
<1>5. CASE AskContact(p)
  BY <1>5 DEF AskContact, Dialogs
<1>6. CASE Back(p) \/ Start(p) \/ Comment(p)
  BY <1>1, <1>6 DEF Back, Start, Comment
<1>7. CASE Answer(p) \/ AnswerRolePrice(p) \/ AnswerChannel(p)
  <2>1. PICK key \in Keys \cup {"channel", "role_price"} : Set(p, key)
    BY <1>7 DEF Answer, AnswerRolePrice, AnswerChannel
  <2> QED
    BY <1>1, <2>1 DEF Set
<1>8. CASE Contact(p)
  BY <1>1, <1>8 DEF Contact
<1> QED
  BY <1>2, <1>3, <1>4, <1>5, <1>6, <1>7, <1>8 DEF Conversation

\* Nor does a dialog break the invariant.
LEMMA ConversationKeepsInv ==
    ASSUME PanelInv, RecordsTypeOK, NEW p \in Members, Conversation(p)
    PROVE  PanelInv'
BY ConversationTypes DEF PanelInv

\* A broadcast begins, goes on or ends; the others go on as they were.
LEMMA MailingKeepsInv ==
    ASSUME PanelInv, RecordsTypeOK, NEW p \in Members, BeginMailing(p) \/ MailingStep(p)
    PROVE  PanelInv'
<1>1. mailing[p] \in Mailing /\ Counted(mailing[p])
  BY DEF PanelInv, PanelTypeOK
<1>2. \E q \in Mailing : Counted(q) /\ mailing' = [mailing EXCEPT ![p] = q]
  <2>1. CASE BeginMailing(p)
    <3>1. Recipients(dialog[p].audience) \in SUBSET Members
      BY DEF Recipients
    <3> DEFINE to == Recipients(dialog[p].audience)
               q  == [NoMailing EXCEPT !.on = TRUE, !.to = to, !.rest = to]
    <3>2. q \in Mailing /\ Counted(q)
      BY <3>1, BeginningCounted
    <3>3. mailing' = [mailing EXCEPT ![p] = q]
      BY <2>1, Zenon DEF BeginMailing
    <3> QED
      BY <3>2, <3>3, Zenon
  <2>2. ASSUME NEW u \in Members, Delivered(p, u)
        PROVE  \E q \in Mailing : Counted(q) /\ mailing' = [mailing EXCEPT ![p] = q]
    <3> DEFINE q == [mailing[p] EXCEPT !.sent = @ + 1, !.copies[u] = @ + 1, !.again = {},
                                       !.rest = @ \ {u}]
    <3>1. mailing[p].on /\ u \in Turn(mailing[p]) /\ mailing' = [mailing EXCEPT ![p] = q]
      BY <2>2, Zenon DEF Delivered, Mail
    <3>2. q \in Mailing /\ Counted(q)
      BY <1>1, <3>1, DeliveredCounted, Zenon
    <3> QED
      BY <3>1, <3>2, Zenon
  <2>3. ASSUME NEW u \in Members, NotDelivered(p, u)
        PROVE  \E q \in Mailing : Counted(q) /\ mailing' = [mailing EXCEPT ![p] = q]
    <3> DEFINE q == [mailing[p] EXCEPT !.failed = @ + 1, !.again = {}, !.rest = @ \ {u}]
    <3>1. mailing[p].on /\ u \in Turn(mailing[p]) /\ mailing' = [mailing EXCEPT ![p] = q]
      BY <2>3, Zenon DEF NotDelivered, Mail
    <3>2. q \in Mailing /\ Counted(q)
      BY <1>1, <3>1, NotDeliveredCounted, Zenon
    <3> QED
      BY <3>1, <3>2, Zenon
  <2>4. ASSUME NEW u \in Members, FloodControl(p, u)
        PROVE  \E q \in Mailing : Counted(q) /\ mailing' = [mailing EXCEPT ![p] = q]
    <3> DEFINE q == [mailing[p] EXCEPT !.again = {u}]
    <3>1. mailing[p].on /\ u \in mailing[p].rest /\ mailing' = [mailing EXCEPT ![p] = q]
      BY <2>4, Zenon DEF FloodControl, Mail
    <3>2. q \in Mailing /\ Counted(q)
      BY <1>1, <3>1, FloodControlCounted, Zenon
    <3> QED
      BY <3>1, <3>2, Zenon
  <2>5. CASE EndMailing(p) \/ AbortMailing(p)
    BY <2>5, NoMailingCounted, Zenon DEF EndMailing, AbortMailing, Mail
  <2> QED
    BY <2>1, <2>2, <2>3, <2>4, <2>5, Zenon DEF MailingStep
<1>3. mailing' \in [Members -> Mailing] /\ \A s \in Members : Counted(mailing'[s])
  BY <1>2 DEF PanelInv, PanelTypeOK
<1>4. /\ dialog' \in [Members -> [state : Dialogs, audience : Audiences, role : Roles \cup {NoRole}]]
      /\ settings' = settings /\ unheard' = unheard
  <2>1. (Clear(p) \/ dialog' = dialog) /\ settings' = settings /\ unheard' = unheard
    BY DEF BeginMailing, MailingStep, Delivered, NotDelivered, FloodControl, EndMailing,
           AbortMailing, Mail
  <2> QED
    BY <2>1 DEF PanelInv, PanelTypeOK, Clear, Quiet, Dialogs, Audiences
<1> QED
  BY <1>3, <1>4 DEF PanelInv, PanelTypeOK, Counted, Served

\* The process stops: every broadcast is gone (StopMailings).
LEMMA StopKeepsPanelInv ==
    ASSUME PanelInv, StopMailings PROVE PanelInv'
BY NoMailingCounted DEF PanelInv, PanelTypeOK, StopMailings, Counted, Served

\* A step of the other modules.
LEMMA IdleKeepsPanel ==
    ASSUME PanelInv, UNCHANGED panelVars PROVE PanelInv'
BY DEF PanelInv, PanelTypeOK, panelVars, Counted, Served

\* The counts that are told at the end (ReportIsTrue).
LEMMA InvReportIsTrue == PanelInv => ReportIsTrue
BY DEF PanelInv, PanelTypeOK, Counted, Served, ReportIsTrue

-----------------------------------------------------------------------------
(***************************************************************************)
(* Rights.                                                                 *)
(***************************************************************************)

\* Nothing that needs rights is done by whoever has none.
NothingBy(p) == ~ IsAdmin(p) =>
    /\ mailing'[p].on => mailing[p].on
    /\ dialog'[p] # dialog[p] => settings' = settings

\* A dialog, which clears or asks at most the person's own conversation.
LEMMA ConversationNeedsRights ==
    ASSUME PanelTypeOK, NEW q \in Members, Conversation(q), NEW p \in Members
    PROVE  NothingBy(p)
<1>1. mailing' = mailing
  BY DEF Conversation, AskFor, SelectRolePrice, SelectAudience, AskContact, Back, Start, Answer,
         AnswerRolePrice, AnswerChannel, Comment, Contact, Set
<1>2. CASE p # q
  <2>1. dialog'[p] = dialog[p]
    BY <1>2 DEF PanelTypeOK, Ask, Clear, Conversation, AskFor, SelectRolePrice, SelectAudience,
           AskContact, Back, Start, Answer, AnswerRolePrice, AnswerChannel, Comment, Contact, Set
  <2> QED
    BY <1>1, <2>1, Zenon DEF NothingBy
<1>3. CASE p = q /\ ~ IsAdmin(p)
  <2>1. settings' = settings
    BY <1>3 DEF Conversation, AskFor, SelectRolePrice, SelectAudience, AskContact, Back, Start,
           Answer, AnswerRolePrice, AnswerChannel, Comment, Contact, MayAnswer
  <2> QED
    BY <1>1, <2>1, Zenon DEF NothingBy
<1> QED
  BY <1>2, <1>3 DEF NothingBy

\* A broadcast, which only an admin begins.
LEMMA MailingNeedsRights ==
    ASSUME PanelTypeOK, NEW q \in Members, BeginMailing(q) \/ MailingStep(q), NEW p \in Members
    PROVE  NothingBy(p)
<1>1. settings' = settings
  BY DEF BeginMailing, MailingStep, Delivered, NotDelivered, FloodControl, EndMailing,
         AbortMailing, Mail
<1>2. CASE p # q
  <2>1. mailing'[p] = mailing[p]
    BY <1>2 DEF PanelTypeOK, BeginMailing, MailingStep, Delivered, NotDelivered, FloodControl,
           EndMailing, AbortMailing, Mail
  <2> QED
    BY <1>1, <2>1, Zenon DEF NothingBy
<1>3. CASE p = q /\ MailingStep(q)
  <2>1. mailing[p].on
    BY <1>3, Zenon DEF MailingStep, Delivered, NotDelivered, FloodControl, EndMailing, AbortMailing
  <2> QED
    BY <1>1, <2>1, Zenon DEF NothingBy
<1>4. CASE p = q /\ BeginMailing(q)
  BY <1>4, Zenon DEF BeginMailing, MayAnswer, NothingBy
<1> QED
  BY <1>2, <1>3, <1>4

\* The end of the process starts no broadcast and answers no dialog.
LEMMA StopNeedsNoRights ==
    ASSUME PanelTypeOK, StopMailings, NEW p \in Members PROVE NothingBy(p)
<1>1. mailing'[p] = NoMailing
  BY DEF StopMailings
<1>2. ~ mailing'[p].on
  BY <1>1, NoMailingCounted, Zenon
<1> QED
  BY <1>2, Zenon DEF StopMailings, NothingBy
=============================================================================
