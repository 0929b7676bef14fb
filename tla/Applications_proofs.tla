------------------------ MODULE Applications_proofs ------------------------
(***************************************************************************)
(* Theorems about Applications, for every number of people, admins and     *)
(* applications.                                                           *)
(***************************************************************************)
EXTENDS Applications, TLAPS

(***************************************************************************)
(* Small facts about the operators.                                        *)
(***************************************************************************)

\* A capped count stays a count, and is positive once something was counted.
LEMMA CappedFacts ==
    ASSUME NEW max \in Nat \ {0}, NEW n \in 0..max
    PROVE  Capped(n, max) \in 0..max /\ Capped(n, max) > 0
BY DEF Capped

\* Telling a decision only adds: what had been told stays told
\* (the messages of applications.py cannot be taken back).
LEMMA TellFacts ==
    ASSUME TypeOK, NEW i, NEW d \in Decision, Tell(i, d)
    PROVE  /\ told' \in [Id -> [Decision -> 0..MaxTold]]
           /\ \A j \in Id, e \in Decision : told[j][e] > 0 => told'[j][e] > 0
           /\ i \in Id => told'[i][d] > 0
<1>1. \A n \in 0..MaxTold : Capped(n, MaxTold) \in 0..MaxTold /\ Capped(n, MaxTold) > 0
  BY CappedFacts, ApplicationsAssumption DEF ApplicationsAssumption
<1>2. told \in [Id -> [Decision -> 0..MaxTold]]
  BY DEF TypeOK
<1>3. told' = [told EXCEPT ![i][d] = Capped(@, MaxTold)]
  BY DEF Tell
<1> HIDE DEF Id, Decision
<1>4. \A j \in Id, e \in Decision :
        told'[j][e] = IF j = i /\ e = d THEN Capped(told[j][e], MaxTold) ELSE told[j][e]
  BY <1>2, <1>3
<1>5. told' \in [Id -> [Decision -> 0..MaxTold]]
  BY <1>1, <1>2, <1>3
<1> QED
  BY <1>1, <1>2, <1>4, <1>5

\* Letting the owner in tells nobody or the approval (on_approve).
LEMMA LetInFacts ==
    ASSUME TypeOK, NEW i, LetIn(i)
    PROVE  /\ told' \in [Id -> [Decision -> 0..MaxTold]]
           /\ \A j \in Id, e \in Decision : told[j][e] > 0 => told'[j][e] > 0
           /\ ChannelSet /\ i \in Id => told'[i]["APPROVED"] > 0
<1>1. "APPROVED" \in Decision
  BY DEF Decision
<1>2. CASE Tell(i, "APPROVED")
  BY <1>1, <1>2, TellFacts
<1>3. CASE ~ ChannelSet /\ UNCHANGED told
  BY <1>3 DEF TypeOK
<1> QED
  BY <1>2, <1>3 DEF LetIn

\* What the sends of a step leave of cards keeps its type.
LEMMA CardFacts ==
    ASSUME TypeOK, NEW i,
           \/ \E reached \in SUBSET Admins : NotifyAdmins(i, reached)
           \/ \E a \in Admins : TakeButtons(a, i)
    PROVE  cards' \in [Admins -> [Id -> 0..MaxCards]]
<1>1. \A n \in 0..MaxCards : Capped(n, MaxCards) \in 0..MaxCards
  BY CappedFacts, ApplicationsAssumption DEF ApplicationsAssumption
<1>2. cards \in [Admins -> [Id -> 0..MaxCards]]
  BY DEF TypeOK
<1>3. \A n \in 0..MaxCards : (IF n > 0 THEN n - 1 ELSE 0) \in 0..MaxCards
  BY ApplicationsAssumption DEF ApplicationsAssumption
<1> HIDE DEF Id
<1>4. CASE \E reached \in SUBSET Admins : NotifyAdmins(i, reached)
  <2>1. PICK reached \in SUBSET Admins :
          cards' = [a \in Admins |-> [cards[a] EXCEPT ![i] =
                      IF a \in reached THEN Capped(@, MaxCards) ELSE @]]
    BY <1>4 DEF NotifyAdmins
  <2>2. ASSUME NEW a \in Admins PROVE cards'[a] \in [Id -> 0..MaxCards]
    <3>1. cards[a] \in [Id -> 0..MaxCards]
      BY <1>2
    <3>2. cards'[a] = [cards[a] EXCEPT ![i] =
                         IF a \in reached THEN Capped(cards[a][i], MaxCards) ELSE cards[a][i]]
      BY <2>1
    <3> QED
      BY <1>1, <3>1, <3>2
  <2>3. cards' = [a \in Admins |-> cards'[a]]
    BY <2>1
  <2> DEFINE Held == [Id -> 0..MaxCards]
  <2>4. \A a \in Admins : cards'[a] \in Held
    BY <2>2
  <2> HIDE DEF Held
  <2>5. cards' \in [Admins -> Held]
    BY <2>3, <2>4
  <2> QED
    BY <2>5 DEF Held
<1>5. CASE \E a \in Admins : TakeButtons(a, i)
  <2>1. PICK a \in Admins :
          cards' = [cards EXCEPT ![a][i] = IF @ > 0 THEN @ - 1 ELSE 0]
    BY <1>5 DEF TakeButtons
  <2>2. cards[a] \in [Id -> 0..MaxCards]
    BY <1>2
  <2> DEFINE row == [cards[a] EXCEPT ![i] = IF cards[a][i] > 0 THEN cards[a][i] - 1 ELSE 0]
  <2>3. row \in [Id -> 0..MaxCards]
    BY <1>3, <2>2
  <2>4. cards' = [cards EXCEPT ![a] = row]
    BY <2>1
  <2> HIDE DEF row
  <2> QED
    BY <1>2, <2>3, <2>4
<1> QED
  BY <1>4, <1>5

-----------------------------------------------------------------------------
(***************************************************************************)
(* Types and ownership.  That documents go to their own application rests  *)
(* on ids being real while a conversation names them, and on a free id     *)
(* having no owner; it types Upload in turn.                               *)
(***************************************************************************)

\* A conversation that takes documents names an application, an id that is free
\* has no owner.
IdsNamed ==
    /\ \A p \in People : fsm[p].state = "uploading" => fsm[p].app \in Id
    /\ \A i \in Id : apps[i].status = "absent" => apps[i].owner = Nobody

OwnInv == TypeOK /\ IdsNamed /\ UploadsToOwn

\* Nothing is open and no application exists at first.
LEMMA OwnInvInit == Init => OwnInv
<1> SUFFICES ASSUME Init PROVE OwnInv
  OBVIOUS
<1> USE DEF Init, Idle, NoHandler
<1>1. apps \in [Id -> Application] /\ fsm \in [People -> Conversation]
      /\ open \in [People -> Handler]
  BY ApplicationsAssumption DEF ApplicationsAssumption, Application, Conversation, Handler
<1>2. cards \in [Admins -> [Id -> 0..MaxCards]] /\ told \in [Id -> [Decision -> 0..MaxTold]]
  BY ApplicationsAssumption DEF ApplicationsAssumption
<1> QED
  BY <1>1, <1>2 DEF OwnInv, TypeOK, IdsNamed, UploadsToOwn

\* Steps that only write p's conversation, to a state that takes documents only
\* for an application of p.
LEMMA TalkKeepsOwn ==
    ASSUME OwnInv, NEW p \in People, NEW c \in Conversation,
           fsm' = [fsm EXCEPT ![p] = c],
           c.state = "uploading" => c.app \in Id /\ apps[c.app].owner = p,
           UNCHANGED apps
    PROVE  fsm' \in [People -> Conversation] /\ IdsNamed' /\ UploadsToOwn'
<1>1. fsm \in [People -> Conversation]
  BY DEF OwnInv, TypeOK
<1>2. \A q \in People : fsm'[q] = IF q = p THEN c ELSE fsm[q]
  BY <1>1
<1> QED
  BY <1>1, <1>2 DEF OwnInv, IdsNamed, UploadsToOwn, Id

\* A new status leaves the owner as it is, and takes no id
\* (ApplicationRepository.update_status).
LEMMA StatusFacts ==
    ASSUME TypeOK, NEW i, NEW s \in Status, SetStatus(i, s)
    PROVE  /\ apps' \in [Id -> Application]
           /\ \A j \in Id : /\ apps'[j].owner = apps[j].owner
                            /\ apps'[j].status = IF j = i THEN s ELSE apps[j].status
                            /\ apps'[j].status = "absent" => apps[j].status = "absent"
<1>1. apps \in [Id -> Application]
  BY DEF TypeOK
<1>2. \A j \in Id : apps'[j] = IF j = i THEN [apps[j] EXCEPT !.status = s] ELSE apps[j]
  BY <1>1 DEF SetStatus
<1>3. \A j \in Id : /\ apps'[j].owner = apps[j].owner
                    /\ apps'[j].status = IF j = i THEN s ELSE apps[j].status
  BY <1>1, <1>2 DEF Application
<1>4. s # "absent"
  BY DEF Status, Decision
<1>5. apps' \in [Id -> Application]
  BY <1>1 DEF SetStatus, Application
<1> QED
  BY <1>3, <1>4, <1>5

\* So documents still go where they belong.
LEMMA StatusKeepsOwn ==
    ASSUME OwnInv, NEW i, NEW s \in Status, SetStatus(i, s), UNCHANGED fsm
    PROVE  apps' \in [Id -> Application] /\ IdsNamed' /\ UploadsToOwn'
BY StatusFacts DEF OwnInv, IdsNamed, UploadsToOwn

\* Ending a handler keeps the types.
LEMMA EndFacts ==
    ASSUME TypeOK, NEW p \in People, End(p)
    PROVE  open' \in [People -> Handler]
BY ApplicationsAssumption DEF TypeOK, End, NoHandler, Handler, ApplicationsAssumption
\* Opening a handler of p on application i keeps the types.
LEMMA OpenFacts ==
    ASSUME TypeOK, NEW p \in People, NEW i \in 0..MaxApp,
           NEW step \in {"approving", "requesting", "done", "answered"}, NEW b \in BOOLEAN,
           open' = [open EXCEPT ![p] = [step |-> step, app |-> i, resubmits |-> b]]
    PROVE  open' \in [People -> Handler]
BY DEF TypeOK, Handler

\* The steps of an applicant.
LEMMA OwnInvApplicant ==
    ASSUME OwnInv, NEW p \in Applicants, ApplicantStep(p)
    PROVE  OwnInv'
<1>1. p \in People /\ TypeOK
  BY ApplicationsAssumption DEF ApplicationsAssumption, OwnInv
<1>2. fsm[p] \in Conversation /\ open[p] \in Handler
  BY <1>1 DEF TypeOK
<1>3. Idle \in Conversation /\ Idle.state # "uploading"
  BY ApplicationsAssumption DEF ApplicationsAssumption, Idle, Conversation
<1>4. Id \subseteq 0..MaxApp
  BY DEF Id
<1>5. CASE Verify(p)
  <2>1. PICK c \in Conversation :
          /\ fsm' = [fsm EXCEPT ![p] = c]
          /\ c.state = "uploading" => c.app \in Id /\ apps[c.app].owner = p
    <3>1. CASE \E i \in Id : /\ IsLatest(i, p)
                            /\ fsm' = [fsm EXCEPT ![p] = [state |-> "uploading", app |-> i]]
      <4>1. PICK i \in Id : /\ IsLatest(i, p)
                           /\ fsm' = [fsm EXCEPT ![p] = [state |-> "uploading", app |-> i]]
        BY <3>1
      <4>2. [state |-> "uploading", app |-> i] \in Conversation
        BY <1>4 DEF Conversation
      <4> QED
        BY <4>1, <4>2 DEF IsLatest
    <3>2. CASE fsm' = [fsm EXCEPT ![p] = [state |-> "role", app |-> 0]]
      <4>1. [state |-> "role", app |-> 0] \in Conversation
        BY ApplicationsAssumption DEF Conversation, ApplicationsAssumption
      <4> QED
        BY <3>2, <4>1
    <3> QED
      BY <1>5, <3>1, <3>2 DEF Verify
  <2>2. UNCHANGED <<apps, open, cards, told>>
    BY <1>5 DEF Verify
  <2> QED
    BY <1>1, <2>1, <2>2, TalkKeepsOwn DEF OwnInv, TypeOK
<1>6. CASE ChooseRole(p)
  <2> DEFINE c == [fsm[p] EXCEPT !.state = "form"]
  <2>1. fsm' = [fsm EXCEPT ![p] = c] /\ UNCHANGED <<apps, open, cards, told>>
    BY <1>6 DEF ChooseRole
  <2>2. c \in Conversation /\ c.state = "form"
    BY <1>2 DEF Conversation
  <2> QED
    BY <1>1, <2>1, <2>2, TalkKeepsOwn DEF OwnInv, TypeOK
<1>7. CASE SubmitForm(p)
  <2>1. PICK i \in Id, s \in {"PENDING", "lost"} :
          /\ apps[i].status = "absent"
          /\ apps' = [apps EXCEPT ![i] = [owner |-> p, status |-> s, docs |-> FALSE]]
          /\ fsm' = [fsm EXCEPT ![p] = [state |-> "uploading", app |-> i]]
    BY <1>7 DEF SubmitForm
  <2>2. UNCHANGED <<open, cards, told>>
    BY <1>7 DEF SubmitForm
  <2>3. apps' \in [Id -> Application]
    BY <1>1, <2>1 DEF TypeOK, Application, Status
  <2>4. fsm' \in [People -> Conversation]
    BY <1>1, <1>4, <2>1 DEF TypeOK, Conversation
  <2>5. \A q \in People : fsm[q].state = "uploading" => fsm[q].app # i
    BY <2>1, ApplicationsAssumption
    DEF OwnInv, IdsNamed, UploadsToOwn, ApplicationsAssumption
  <2>6. \A q \in People \ {p} : fsm'[q] = fsm[q]
    BY <1>1, <2>1 DEF TypeOK
  <2>7. fsm'[p] = [state |-> "uploading", app |-> i]
    BY <1>1, <2>1 DEF TypeOK
  <2>8. \A j \in Id \ {i} : apps'[j] = apps[j]
    BY <1>1, <2>1 DEF TypeOK
  <2>9. apps'[i].owner = p /\ apps'[i].status = s
    BY <1>1, <2>1 DEF TypeOK
  <2>10. IdsNamed'
    BY <2>1, <2>6, <2>7, <2>8, <2>9 DEF OwnInv, IdsNamed
  <2>11. UploadsToOwn'
    BY <2>5, <2>6, <2>7, <2>8, <2>9 DEF OwnInv, IdsNamed, UploadsToOwn
  <2> QED
    BY <1>1, <2>2, <2>3, <2>4, <2>10, <2>11 DEF OwnInv, TypeOK
<1>8. CASE Upload(p)
  <2>1. apps' = [apps EXCEPT ![fsm[p].app].docs = TRUE]
        /\ UNCHANGED <<fsm, open, cards, told>>
    BY <1>8 DEF Upload
  <2>2. apps' \in [Id -> Application]
    BY <1>1, <2>1 DEF TypeOK, Application
  <2>3. \A j \in Id : apps'[j].owner = apps[j].owner /\ apps'[j].status = apps[j].status
    BY <1>1, <2>1 DEF TypeOK, Application
  <2> QED
    BY <1>1, <2>1, <2>2, <2>3 DEF OwnInv, TypeOK, IdsNamed, UploadsToOwn
<1>9. CASE Done(p)
  <2>1. UNCHANGED <<apps, fsm, cards, told>>
    BY <1>9 DEF Done
  <2>2. open' \in [People -> Handler]
    BY <1>1, <1>4, <1>9, OpenFacts DEF Done, Exists
  <2> QED
    BY <1>1, <2>1, <2>2 DEF OwnInv, TypeOK, IdsNamed, UploadsToOwn
<1>10. CASE AnswerDone(p)
  <2>1. fsm' = [fsm EXCEPT ![p] = Idle] /\ UNCHANGED <<apps, told>>
    BY <1>10 DEF AnswerDone
  <2>2. cards' \in [Admins -> [Id -> 0..MaxCards]]
    BY <1>1, <1>10, CardFacts DEF AnswerDone
  <2>3. open' \in [People -> Handler]
    BY <1>1, <1>10 DEF AnswerDone, TypeOK, Handler
  <2> QED
    BY <1>1, <1>3, <2>1, <2>2, <2>3, TalkKeepsOwn DEF OwnInv, TypeOK
<1>11. CASE EndDone(p)
  <2>1. open' \in [People -> Handler] /\ UNCHANGED <<fsm, cards, told>>
    BY <1>1, <1>11, EndFacts DEF EndDone
  <2>2. SetStatus(open[p].app, "PENDING") \/ UNCHANGED apps
    BY <1>11 DEF EndDone
  <2>3. apps' \in [Id -> Application] /\ IdsNamed' /\ UploadsToOwn'
    <3>1. CASE SetStatus(open[p].app, "PENDING")
      BY <2>1, <3>1, StatusKeepsOwn DEF Status
    <3>2. CASE UNCHANGED apps
      BY <2>1, <3>2 DEF OwnInv, TypeOK, IdsNamed, UploadsToOwn
    <3> QED
      BY <2>2, <3>1, <3>2
  <2> QED
    BY <1>1, <2>1, <2>3 DEF OwnInv, TypeOK
<1>12. CASE DoneRollsBack(p)
  <2>1. open' \in [People -> Handler] /\ UNCHANGED <<apps, fsm, cards, told>>
    BY <1>1, <1>12, EndFacts DEF DoneRollsBack
  <2> QED
    BY <1>1, <2>1 DEF OwnInv, TypeOK, IdsNamed, UploadsToOwn
<1> QED
  BY <1>5, <1>6, <1>7, <1>8, <1>9, <1>10, <1>11, <1>12 DEF ApplicantStep
\* The steps of an admin, who writes the conversation of the owner in one.
LEMMA OwnInvAdmin ==
    ASSUME OwnInv, NEW a \in Admins, AdminStep(a)
    PROVE  OwnInv'
<1>1. a \in People /\ TypeOK
  BY ApplicationsAssumption DEF ApplicationsAssumption, OwnInv
<1>2. fsm[a] \in Conversation /\ open[a] \in Handler
  BY <1>1 DEF TypeOK
<1>3. Idle \in Conversation /\ Idle.state # "uploading"
  BY ApplicationsAssumption DEF ApplicationsAssumption, Idle, Conversation
<1>4. Id \subseteq 0..MaxApp
  BY DEF Id
<1>5. CASE ListPending(a)
  <2>1. UNCHANGED <<apps, fsm, open, told>>
    BY <1>5 DEF ListPending
  <2>2. \A n \in 0..MaxCards : Capped(n, MaxCards) \in 0..MaxCards
    BY CappedFacts, ApplicationsAssumption DEF ApplicationsAssumption
  <2> DEFINE row == [i \in Id |-> IF apps[i].status = "PENDING"
                                  THEN Capped(cards[a][i], MaxCards) ELSE cards[a][i]]
  <2>3. row \in [Id -> 0..MaxCards]
    BY <1>1, <2>2 DEF TypeOK
  <2>4. cards' = [cards EXCEPT ![a] = row]
    BY <1>5 DEF ListPending
  <2> HIDE DEF row
  <2>5. cards' \in [Admins -> [Id -> 0..MaxCards]]
    BY <1>1, <2>3, <2>4 DEF TypeOK
  <2> QED
    BY <1>1, <2>1, <2>5 DEF OwnInv, TypeOK, IdsNamed, UploadsToOwn
<1>6. CASE \E i \in Id : Approve(a, i)
  <2>1. PICK i \in Id : Approve(a, i)
    BY <1>6
  <2>2. UNCHANGED <<apps, fsm, cards, told>>
    BY <2>1 DEF Approve
  <2>3. open' \in [People -> Handler]
    BY <1>1, <1>4, <2>1 DEF Approve, TypeOK, Handler, NoHandler
  <2> QED
    BY <1>1, <2>2, <2>3 DEF OwnInv, TypeOK, IdsNamed, UploadsToOwn
<1>7. CASE \E i \in Id, state \in AdminState : AskComment(a, i, state)
  <2>1. PICK i \in Id, state \in AdminState : AskComment(a, i, state)
    BY <1>7
  <2> DEFINE c == [state |-> state, app |-> i]
  <2>2. fsm' = [fsm EXCEPT ![a] = c] /\ UNCHANGED <<apps, open, cards, told>>
    BY <2>1 DEF AskComment
  <2>3. c \in Conversation /\ c.state # "uploading"
    BY <1>4 DEF Conversation, AdminState
  <2> QED
    BY <1>1, <2>2, <2>3, TalkKeepsOwn DEF OwnInv, TypeOK
<1>8. CASE EndApprove(a)
  <2>1. SetStatus(open[a].app, "APPROVED") /\ UNCHANGED fsm
        /\ LetIn(open[a].app) /\ TakeButtons(a, open[a].app) /\ End(a)
    BY <1>8 DEF EndApprove
  <2>2. apps' \in [Id -> Application] /\ IdsNamed' /\ UploadsToOwn'
    BY <2>1, StatusKeepsOwn DEF Status, Decision
  <2>3. told' \in [Id -> [Decision -> 0..MaxTold]]
    BY <1>1, <2>1, LetInFacts
  <2>4. cards' \in [Admins -> [Id -> 0..MaxCards]]
    BY <1>1, <2>1, CardFacts
  <2>5. open' \in [People -> Handler]
    BY <1>1, <2>1, EndFacts
  <2> QED
    BY <1>1, <2>1, <2>2, <2>3, <2>4, <2>5 DEF OwnInv, TypeOK
<1>9. CASE ApproveRollsBack(a)
  <2>1. End(a) /\ UNCHANGED <<apps, fsm>>
    BY <1>9 DEF ApproveRollsBack
  <2>2. LetIn(open[a].app) \/ UNCHANGED told
    BY <1>9 DEF ApproveRollsBack
  <2>3. TakeButtons(a, open[a].app) \/ UNCHANGED cards
    BY <1>9 DEF ApproveRollsBack
  <2>4. told' \in [Id -> [Decision -> 0..MaxTold]]
    BY <1>1, <2>2, LetInFacts DEF TypeOK
  <2>5. cards' \in [Admins -> [Id -> 0..MaxCards]]
    BY <1>1, <2>3, CardFacts DEF TypeOK
  <2>6. open' \in [People -> Handler]
    BY <1>1, <2>1, EndFacts
  <2> QED
    BY <1>1, <2>1, <2>4, <2>5, <2>6 DEF OwnInv, TypeOK, IdsNamed, UploadsToOwn
<1>10. CASE Reject(a) \/ RejectRollsBack(a)
  <2>1. fsm' = [fsm EXCEPT ![a] = Idle] /\ UNCHANGED <<open, cards>>
    BY <1>10 DEF Reject, RejectRollsBack
  <2>2. Tell(fsm[a].app, "REJECTED") \/ UNCHANGED told
    BY <1>10 DEF Reject, RejectRollsBack
  <2>3. told' \in [Id -> [Decision -> 0..MaxTold]]
    BY <1>1, <2>2, TellFacts DEF TypeOK, Decision
  <2>4. SetStatus(fsm[a].app, "REJECTED") \/ UNCHANGED apps
    BY <1>10 DEF Reject, RejectRollsBack
  <2>5. apps' \in [Id -> Application]
    BY <1>1, <2>4, StatusFacts DEF TypeOK, Status, Decision
  <2>6. \A j \in Id : /\ apps'[j].owner = apps[j].owner
                      /\ apps'[j].status = "absent" => apps[j].status = "absent"
    BY <1>1, <2>4, StatusFacts DEF Status, Decision
  <2>7. fsm' \in [People -> Conversation]
    BY <1>1, <1>3, <2>1 DEF TypeOK
  <2>8. \A q \in People : fsm'[q] = fsm[q] \/ fsm'[q] = Idle
    BY <1>1, <2>1 DEF TypeOK
  <2>9. IdsNamed' /\ UploadsToOwn'
    BY <1>3, <2>6, <2>8 DEF OwnInv, IdsNamed, UploadsToOwn
  <2> QED
    BY <1>1, <2>1, <2>3, <2>5, <2>7, <2>9 DEF OwnInv, TypeOK
<1>11. CASE RequestDocs(a)
  <2> DEFINE i == fsm[a].app  c == [state |-> "uploading", app |-> i]
  <2>1. /\ i \in Id
        /\ fsm' = [fsm EXCEPT ![a] = Idle, ![apps[i].owner] = c]
        /\ UNCHANGED <<apps, cards, told>>
    BY <1>11 DEF RequestDocs, Exists
  <2>2. c \in Conversation
    BY <1>4, <2>1 DEF Conversation
  <2>3. open' \in [People -> Handler]
    BY <1>1, <1>4, <1>11, <2>1 DEF RequestDocs, TypeOK, Handler, NoHandler
  <2> HIDE DEF c, i
  <2>4. fsm' \in [People -> Conversation]
    BY <1>1, <1>3, <2>1, <2>2 DEF TypeOK
  <2>5. \A q \in People : \/ fsm'[q] = fsm[q] \/ fsm'[q] = Idle
                          \/ fsm'[q] = c /\ q = apps[i].owner
    BY <1>1, <2>1 DEF TypeOK
  <2>6. c.app = i /\ apps' = apps
    BY <2>1 DEF c
  <2>7. IdsNamed'
    BY <1>3, <2>1, <2>5, <2>6 DEF OwnInv, IdsNamed
  <2>8. ASSUME NEW q \in People, fsm'[q].state = "uploading"
        PROVE  apps'[fsm'[q].app].owner = q
    <3>1. CASE fsm'[q] = c /\ q = apps[i].owner
      BY <2>6, <3>1
    <3>2. CASE fsm'[q] = fsm[q]
      BY <2>6, <2>8, <3>2 DEF OwnInv, UploadsToOwn
    <3> QED
      BY <1>3, <2>5, <2>8, <3>1, <3>2
  <2>9. UploadsToOwn'
    BY <2>8 DEF UploadsToOwn
  <2> QED
    BY <1>1, <2>1, <2>3, <2>4, <2>7, <2>9 DEF OwnInv, TypeOK
<1>12. CASE EndRequest(a)
  <2>1. /\ SetStatus(open[a].app, "NEED_MORE_DOCS") /\ Tell(open[a].app, "NEED_MORE_DOCS")
        /\ End(a) /\ UNCHANGED <<fsm, cards>>
    BY <1>12 DEF EndRequest
  <2>2. apps' \in [Id -> Application] /\ IdsNamed' /\ UploadsToOwn'
    BY <2>1, StatusKeepsOwn DEF Status, Decision
  <2>3. told' \in [Id -> [Decision -> 0..MaxTold]]
    BY <1>1, <2>1, TellFacts DEF Decision
  <2>4. open' \in [People -> Handler]
    BY <1>1, <2>1, EndFacts
  <2> QED
    BY <1>1, <2>1, <2>2, <2>3, <2>4 DEF OwnInv, TypeOK
<1>13. CASE RequestRollsBack(a)
  <2>1. End(a) /\ UNCHANGED <<apps, fsm, cards>>
    BY <1>13 DEF RequestRollsBack
  <2>2. Tell(open[a].app, "NEED_MORE_DOCS") \/ UNCHANGED told
    BY <1>13 DEF RequestRollsBack
  <2>3. told' \in [Id -> [Decision -> 0..MaxTold]]
    BY <1>1, <2>2, TellFacts DEF TypeOK, Decision
  <2>4. open' \in [People -> Handler]
    BY <1>1, <2>1, EndFacts
  <2> QED
    BY <1>1, <2>1, <2>3, <2>4 DEF OwnInv, TypeOK, IdsNamed, UploadsToOwn
<1> QED
  BY <1>5, <1>6, <1>7, <1>8, <1>9, <1>10, <1>11, <1>12, <1>13 DEF AdminStep
\* Every step keeps types and owners.
LEMMA OwnInvNext == OwnInv /\ [Next]_vars => OwnInv'
<1> SUFFICES ASSUME OwnInv, [Next]_vars PROVE OwnInv'
  OBVIOUS
<1>1. CASE \E p \in People : Leave(p)
  <2>1. PICK p \in People : Leave(p)
    BY <1>1
  <2>2. Idle \in Conversation /\ Idle.state # "uploading"
    BY ApplicationsAssumption DEF ApplicationsAssumption, Idle, Conversation
  <2>3. fsm' = [fsm EXCEPT ![p] = Idle] /\ UNCHANGED <<apps, open, cards, told>>
    BY <2>1 DEF Leave
  <2> QED
    BY <2>2, <2>3, TalkKeepsOwn DEF OwnInv, TypeOK
<1>2. CASE \E p \in Applicants : ApplicantStep(p)
  BY <1>2, OwnInvApplicant
<1>3. CASE \E a \in Admins : AdminStep(a)
  BY <1>3, OwnInvAdmin
<1>4. CASE UNCHANGED vars
  BY <1>4 DEF vars, OwnInv, TypeOK, IdsNamed, UploadsToOwn
<1> QED
  BY <1>1, <1>2, <1>3, <1>4 DEF Next

\* Every reachable state is well typed.
THEOREM TypeCorrect == Spec => []TypeOK
<1>1. OwnInv => TypeOK
  BY DEF OwnInv
<1> QED
  BY <1>1, OwnInvInit, OwnInvNext, PTL DEF Spec

\* Documents a person sends go to an application of that person, whatever admins
\* write into conversations (documents.py:44, applications.py:273).
THEOREM UploadsToOwnHolds == Spec => []UploadsToOwn
<1>1. OwnInv => UploadsToOwn
  BY DEF OwnInv
<1> QED
  BY <1>1, OwnInvInit, OwnInvNext, PTL DEF Spec

-----------------------------------------------------------------------------
(***************************************************************************)
(* What was told.  A step is described by what it does to one application: *)
(* it is kept, created, sent back to the admins, or decided and told.      *)
(***************************************************************************)

Kept(j)    == apps'[j].status = apps[j].status
Created(j) == apps[j].status = "absent" /\ apps'[j].status \in {"PENDING", "lost"}
Resubmitted(j) ==
    /\ apps'[j].status = "PENDING"
    /\ \E p \in People : /\ open[p].step = "answered" /\ open[p].resubmits
                         /\ open[p].app = j
Decided(j) ==
    /\ apps'[j].status \in Decision
    /\ \/ told'[j][apps'[j].status] > 0
       \/ apps'[j].status = "APPROVED" /\ ~ ChannelSet

\* What is told stays told.
Remembers ==
    \A j \in Id, d \in Decision : told[j][d] > 0 => told'[j][d] > 0

LEMMA ApplicantKinds ==
    ASSUME OwnInv, NEW p \in Applicants, ApplicantStep(p)
    PROVE  /\ Remembers
           /\ \A j \in Id : Kept(j) \/ Created(j) \/ Resubmitted(j)
<1>1. p \in People /\ TypeOK
  BY ApplicationsAssumption DEF ApplicationsAssumption, OwnInv
<1>2. Remembers
  BY DEF Remembers, ApplicantStep, Verify, ChooseRole, SubmitForm, Upload, Done, AnswerDone,
         EndDone, DoneRollsBack
<1>3. CASE UNCHANGED apps
  BY <1>2, <1>3 DEF Kept
<1>4. CASE SubmitForm(p)
  <2>1. PICK i \in Id, s \in {"PENDING", "lost"} :
          /\ apps[i].status = "absent"
          /\ apps' = [apps EXCEPT ![i] = [owner |-> p, status |-> s, docs |-> FALSE]]
    BY <1>4 DEF SubmitForm
  <2> QED
    BY <1>1, <1>2, <2>1 DEF TypeOK, Kept, Created
<1>5. CASE Upload(p)
  <2>1. apps' = [apps EXCEPT ![fsm[p].app].docs = TRUE]
    BY <1>5 DEF Upload
  <2> QED
    BY <1>1, <1>2, <2>1 DEF TypeOK, Application, Kept
<1>6. CASE EndDone(p)
  <2>1. CASE open[p].resubmits
    <3>1. SetStatus(open[p].app, "PENDING") /\ open[p].step = "answered"
      BY <1>6, <2>1 DEF EndDone
    <3>2. \A j \in Id : j = open[p].app \/ Kept(j)
      BY <1>1, <3>1, StatusFacts DEF Status, Kept
    <3>3. \A j \in Id : j = open[p].app => apps'[j].status = "PENDING"
      BY <1>1, <3>1, StatusFacts DEF Status
    <3> QED
      BY <1>1, <1>2, <2>1, <3>1, <3>2, <3>3 DEF Resubmitted
  <2>2. CASE ~ open[p].resubmits
    BY <1>3, <1>6, <2>2 DEF EndDone
  <2> QED
    BY <2>1, <2>2
<1>7. CASE Verify(p) \/ ChooseRole(p) \/ Done(p) \/ AnswerDone(p) \/ DoneRollsBack(p)
  BY <1>3, <1>7 DEF Verify, ChooseRole, Done, AnswerDone, DoneRollsBack
<1> QED
  BY <1>4, <1>5, <1>6, <1>7 DEF ApplicantStep

LEMMA AdminKinds ==
    ASSUME OwnInv, NEW a \in Admins, AdminStep(a)
    PROVE  /\ Remembers
           /\ \A j \in Id : Kept(j) \/ Decided(j)
<1>1. TypeOK
  BY DEF OwnInv
<1>2. ASSUME NEW i, NEW d \in Decision, SetStatus(i, d), Tell(i, d)
      PROVE  Remembers /\ \A j \in Id : Kept(j) \/ Decided(j)
  BY <1>1, <1>2, StatusFacts, TellFacts DEF Remembers, Kept, Decided, Status
<1>3. ASSUME NEW i, LetIn(i)
      PROVE  Remembers
  BY <1>1, <1>3, LetInFacts DEF Remembers
<1>4. CASE EndApprove(a)
  <2>1. SetStatus(open[a].app, "APPROVED") /\ LetIn(open[a].app)
    BY <1>4 DEF EndApprove
  <2>2. "APPROVED" \in Decision /\ "APPROVED" \in Status
    BY DEF Decision, Status
  <2>3. \A j \in Id : apps'[j].status = IF j = open[a].app THEN "APPROVED" ELSE apps[j].status
    BY <1>1, <2>1, <2>2, StatusFacts
  <2>4. ChannelSet /\ open[a].app \in Id => told'[open[a].app]["APPROVED"] > 0
    BY <1>1, <2>1, LetInFacts
  <2> QED
    BY <1>3, <2>1, <2>2, <2>3, <2>4 DEF Kept, Decided
<1>5. CASE ApproveRollsBack(a)
  <2>1. UNCHANGED apps /\ (LetIn(open[a].app) \/ UNCHANGED told)
    BY <1>5 DEF ApproveRollsBack
  <2> QED
    BY <1>3, <2>1 DEF Kept, Remembers
<1>6. CASE Reject(a)
  BY <1>2, <1>6 DEF Reject, Decision
<1>7. CASE EndRequest(a)
  BY <1>2, <1>7 DEF EndRequest, Decision
<1>8. CASE RejectRollsBack(a) \/ RequestRollsBack(a)
  <2>1. UNCHANGED apps
    BY <1>8 DEF RejectRollsBack, RequestRollsBack
  <2>2. \/ Tell(fsm[a].app, "REJECTED")
        \/ Tell(open[a].app, "NEED_MORE_DOCS")
        \/ UNCHANGED told
    BY <1>8 DEF RejectRollsBack, RequestRollsBack
  <2>3. Remembers
    BY <1>1, <2>2, TellFacts DEF Remembers, Decision
  <2> QED
    BY <2>1, <2>3 DEF Kept
<1>9. CASE \/ ListPending(a) \/ RequestDocs(a)
           \/ \E i \in Id : Approve(a, i) \/ \E state \in AdminState : AskComment(a, i, state)
  BY <1>9 DEF ListPending, RequestDocs, Approve, AskComment, Kept, Remembers
<1> QED
  BY <1>4, <1>5, <1>6, <1>7, <1>8, <1>9 DEF AdminStep
\* One of the descriptions fits every step.
LEMMA StepKinds ==
    ASSUME OwnInv, [Next]_vars
    PROVE  /\ Remembers
           /\ \A j \in Id : Kept(j) \/ Created(j) \/ Resubmitted(j) \/ Decided(j)
<1>1. CASE \E p \in People : Leave(p)
  BY <1>1 DEF Leave, Remembers, Kept
<1>2. CASE UNCHANGED vars
  BY <1>2 DEF vars, Remembers, Kept
<1>3. CASE \E p \in Applicants : ApplicantStep(p)
  BY <1>3, ApplicantKinds
<1>4. CASE \E a \in Admins : AdminStep(a)
  BY <1>4, AdminKinds
<1> QED
  BY <1>1, <1>2, <1>3, <1>4 DEF Next

-----------------------------------------------------------------------------
(***************************************************************************)
(* Decisions on record have been told.                                     *)
(***************************************************************************)

\* With the channel configured every decision has reached the owner before it is
\* committed, whichever handler failed or was overtaken (documents.py:93-96).
THEOREM DecisionToldHolds ==
    ASSUME ChannelSet
    PROVE  Spec => []DecisionTold
<1>1. Init => DecisionTold
  BY DEF Init, DecisionTold, Decision
<1>2. OwnInv /\ DecisionTold /\ [Next]_vars => DecisionTold'
  <2> SUFFICES ASSUME OwnInv, DecisionTold, [Next]_vars,
                      NEW j \in Id, apps'[j].status \in Decision
               PROVE  told'[j][apps'[j].status] > 0
    BY DEF DecisionTold
  <2>1. Remembers /\ (Kept(j) \/ Created(j) \/ Resubmitted(j) \/ Decided(j))
    BY StepKinds
  <2>2. "PENDING" \notin Decision /\ "lost" \notin Decision
    BY DEF Decision
  <2>3. Kept(j) \/ Decided(j)
    BY <2>1, <2>2 DEF Created, Resubmitted
  <2> QED
    BY <2>1, <2>3 DEF Kept, Decided, Remembers, DecisionTold
<1> QED
  BY <1>1, <1>2, OwnInvInit, OwnInvNext, PTL DEF Spec

-----------------------------------------------------------------------------
(***************************************************************************)
(* Decided applications come back on request only.  A resubmission writes  *)
(* what it decided on when it read the status, so the invariant has to     *)
(* carry the request from that moment to the commit.                       *)
(***************************************************************************)

\* A request for documents on record was told, and so was the one a handler that
\* resubmits has seen.
RequestsTold ==
    /\ \A i \in Id : apps[i].status = "NEED_MORE_DOCS" => told[i]["NEED_MORE_DOCS"] > 0
    /\ \A p \in People :
          open[p].step \in {"done", "answered"} /\ open[p].resubmits =>
              open[p].app \in Id /\ told[open[p].app]["NEED_MORE_DOCS"] > 0

\* A step leaves a resubmitting handler alone, moves it on, or opens it on a
\* request it has read.
LEMMA HandlerKinds ==
    ASSUME OwnInv, [Next]_vars, NEW q \in People,
           open'[q].step \in {"done", "answered"}, open'[q].resubmits
    PROVE  \/ /\ open[q].step \in {"done", "answered"} /\ open[q].resubmits
              /\ open'[q].app = open[q].app
           \/ open'[q].app \in Id /\ apps[open'[q].app].status = "NEED_MORE_DOCS"
<1>1. open \in [People -> Handler] /\ Applicants \subseteq People /\ Admins \subseteq People
  BY ApplicationsAssumption DEF ApplicationsAssumption, OwnInv, TypeOK
<1>2. CASE UNCHANGED open
  BY <1>2
<1>3. ASSUME NEW p \in People, open' = [open EXCEPT ![p] = NoHandler]
      PROVE  open'[q] = open[q]
  BY <1>1, <1>3 DEF NoHandler
<1>4. CASE \E p \in Applicants : Done(p)
  <2>1. PICK p \in Applicants :
          /\ Exists(fsm[p].app)
          /\ open' = [open EXCEPT ![p] = [step |-> "done", app |-> fsm[p].app,
                        resubmits |-> apps[fsm[p].app].status = "NEED_MORE_DOCS"]]
    BY <1>4 DEF Done
  <2> DEFINE i == fsm[p].app  asked == apps[i].status = "NEED_MORE_DOCS"
             handler == [step |-> "done", app |-> i, resubmits |-> asked]
  <2>2. CASE q = p
    <3>1. open'[q] = handler
      BY <1>1, <2>1, <2>2
    <3>2. handler.app = i /\ handler.resubmits = asked
      OBVIOUS
    <3> HIDE DEF handler, asked
    <3>3. asked /\ open'[q].app = i
      BY <3>1, <3>2, Zenon
    <3> QED
      BY <2>1, <3>3 DEF asked, Exists
  <2>3. CASE q # p
    <3>1. open'[q] = open[q]
      BY <2>1, <2>3, <1>1
    <3> QED
      BY <3>1
  <2> QED
    BY <2>2, <2>3
<1>5. CASE \E p \in Applicants : AnswerDone(p)
  <2>1. PICK p \in Applicants : open[p].step = "done" /\ open' = [open EXCEPT ![p].step = "answered"]
    BY <1>5 DEF AnswerDone
  <2> QED
    BY <1>1, <2>1 DEF Handler
<1>6. CASE \E p \in Applicants : EndDone(p) \/ DoneRollsBack(p)
  BY <1>1, <1>3, <1>6 DEF EndDone, DoneRollsBack, End
<1>7. CASE \E p \in Applicants : Verify(p) \/ ChooseRole(p) \/ SubmitForm(p) \/ Upload(p)
  BY <1>2, <1>7 DEF Verify, ChooseRole, SubmitForm, Upload
<1>8. CASE \E a \in Admins : \/ EndApprove(a) \/ ApproveRollsBack(a)
                             \/ EndRequest(a) \/ RequestRollsBack(a)
  BY <1>1, <1>3, <1>8 DEF EndApprove, ApproveRollsBack, EndRequest, RequestRollsBack, End
<1>9. CASE \E a \in Admins, i \in Id : Approve(a, i)
  BY <1>1, <1>9 DEF Approve, NoHandler
<1>10. CASE \E a \in Admins : RequestDocs(a)
  BY <1>1, <1>10 DEF RequestDocs, NoHandler
<1>11. CASE \E a \in Admins : \/ ListPending(a) \/ Reject(a) \/ RejectRollsBack(a)
                              \/ \E i \in Id, state \in AdminState : AskComment(a, i, state)
  BY <1>2, <1>11 DEF ListPending, Reject, RejectRollsBack, AskComment
<1>12. CASE \E p \in People : Leave(p)
  BY <1>2, <1>12 DEF Leave
<1>13. CASE UNCHANGED vars
  BY <1>2, <1>13 DEF vars
<1> QED
  BY <1>4, <1>5, <1>6, <1>7, <1>8, <1>9, <1>10, <1>11, <1>12, <1>13
  DEF Next, ApplicantStep, AdminStep

LEMMA RequestsToldInit == Init => RequestsTold
BY DEF Init, RequestsTold, NoHandler

LEMMA RequestsToldNext == OwnInv /\ RequestsTold /\ [Next]_vars => RequestsTold'
<1> SUFFICES ASSUME OwnInv, RequestsTold, [Next]_vars PROVE RequestsTold'
  OBVIOUS
<1>1. Remembers /\ "NEED_MORE_DOCS" \in Decision
  BY StepKinds DEF Decision
<1>2. ASSUME NEW i \in Id, apps'[i].status = "NEED_MORE_DOCS"
      PROVE  told'[i]["NEED_MORE_DOCS"] > 0
  <2>1. Kept(i) \/ Decided(i)
    BY <1>2, StepKinds DEF Created, Resubmitted
  <2> QED
    BY <1>1, <1>2, <2>1 DEF Kept, Decided, Remembers, RequestsTold
<1>3. ASSUME NEW p \in People, open'[p].step \in {"done", "answered"}, open'[p].resubmits
      PROVE  open'[p].app \in Id /\ told'[open'[p].app]["NEED_MORE_DOCS"] > 0
  BY <1>1, <1>3, HandlerKinds DEF RequestsTold, Remembers
<1> QED
  BY <1>2, <1>3 DEF RequestsTold

\* A decided application goes back to the admins only if documents were asked of
\* its owner (documents.py:79-90).
THEOREM ReopenedOnRequestHolds == Spec => ReopenedOnRequest
<1>1. OwnInv /\ RequestsTold /\ [Next]_vars =>
        [\A i \in Id : apps[i].status \in Decision /\ apps'[i].status = "PENDING"
                          => told[i]["NEED_MORE_DOCS"] > 0]_vars
  <2> SUFFICES ASSUME OwnInv, RequestsTold, [Next]_vars, NEW i \in Id,
                      apps[i].status \in Decision, apps'[i].status = "PENDING"
               PROVE  told[i]["NEED_MORE_DOCS"] > 0
    OBVIOUS
  <2>1. "PENDING" \notin Decision /\ "absent" \notin Decision
    BY DEF Decision
  <2>2. Resubmitted(i)
    BY <2>1, StepKinds DEF Kept, Created, Decided
  <2> QED
    BY <2>2 DEF Resubmitted, RequestsTold
<1> QED
  BY <1>1, OwnInvInit, OwnInvNext, RequestsToldInit, RequestsToldNext, PTL
  DEF Spec, ReopenedOnRequest
=============================================================================
