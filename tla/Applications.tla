---------------------------- MODULE Applications ----------------------------
(***************************************************************************)
(* Applying for membership and reviewing applications.  The conversation   *)
(* state lives in Redis, the applications in the database, and the         *)
(* decisions reach people as messages: only the second is undone when a    *)
(* handler raises.  Handlers overlap, so each one that reads the database  *)
(* and acts on it, or that acts outside before it commits, is opened up    *)
(* into steps; what it would write becomes visible when it commits.        *)
(***************************************************************************)
EXTENDS Naturals

CONSTANTS People,      \* everybody who talks to the bot
          Admins,      \* those AdminOnlyMiddleware lets through
          Applicants,  \* those who press the verification buttons
          Nobody,      \* owner of an application not yet created
          ChannelSet,  \* settings.community_chat_id is not NULL
          MaxApp,      \* bound: applications.id
          MaxCards,    \* bound: review messages an admin holds per application
          MaxTold      \* bound: how often one decision is counted as told

ASSUME ApplicationsAssumption ==
    /\ Admins \subseteq People /\ Applicants \subseteq People /\ Nobody \notin People
    /\ ChannelSet \in BOOLEAN
    /\ MaxApp \in Nat /\ MaxCards \in Nat \ {0} /\ MaxTold \in Nat \ {0}

Id       == 1..MaxApp
Decision == {"APPROVED", "REJECTED", "NEED_MORE_DOCS"}
Status   == Decision \cup {"PENDING"}

\* absent: the id is not taken; lost: it was, and the insert was rolled back.
Application == [owner : People \cup {Nobody}, status : Status \cup {"absent", "lost"},
                docs : BOOLEAN]

\* The conversation of a person, one for the admin and the applicant in them,
\* with application_id (0: not set).  none: any state no handler here asks for.
\* reject stands for reject_reason and wrong_status_comment, whose handlers do
\* the same to everything but the wording; form for the questions up to the city.
AdminState == {"reject", "more_docs"}
Conversation == [state : {"none", "role", "form", "uploading"} \cup AdminState,
                 app : 0..MaxApp]
Idle == [state |-> "none", app |-> 0]

\* A handler of a person that has read the database and not yet ended.
\* resubmits: it saw NEED_MORE_DOCS.
Handler == [step : {"none", "approving", "requesting", "done", "answered"},
            app : 0..MaxApp, resubmits : BOOLEAN]
NoHandler == [step |-> "none", app |-> 0, resubmits |-> FALSE]

VARIABLES apps,  \* the applications table
          fsm,   \* the conversation of each person
          open,  \* the handler a person has under way; ThrottlingMiddleware
                 \* drops what the person sends within 700 ms of the last update
          cards, \* review messages with buttons in the chat of each admin
          told   \* how often the owner was told each decision

vars == <<apps, fsm, open, cards, told>>

TypeOK ==
    /\ apps \in [Id -> Application]
    /\ fsm \in [People -> Conversation]
    /\ open \in [People -> Handler]
    /\ cards \in [Admins -> [Id -> 0..MaxCards]]
    /\ told \in [Id -> [Decision -> 0..MaxTold]]

Init ==
    /\ apps = [i \in Id |-> [owner |-> Nobody, status |-> "absent", docs |-> FALSE]]
    /\ fsm = [p \in People |-> Idle]
    /\ open = [p \in People |-> NoHandler]
    /\ cards = [a \in Admins |-> [i \in Id |-> 0]]
    /\ told = [i \in Id |-> [d \in Decision |-> 0]]

-----------------------------------------------------------------------------
(***************************************************************************)
(* Queries and the writes several handlers share.                          *)
(***************************************************************************)

Exists(i) == i \in Id /\ apps[i].status \in Status

\* get_latest_by_user_id: ids grow with created_at.
IsLatest(i, p) ==
    /\ Exists(i) /\ apps[i].owner = p
    /\ \A j \in Id : Exists(j) /\ apps[j].owner = p => j <= i

LatestHas(p, status) == \E i \in Id : IsLatest(i, p) /\ apps[i].status = status

Capped(n, max) == IF n < max THEN n + 1 ELSE max

\* update_status, as the commit makes it visible.
SetStatus(i, status) == apps' = [apps EXCEPT ![i].status = status]

\* notify_admins_new_application: an admin who cannot be reached is skipped.
NotifyAdmins(i, reached) ==
    cards' = [a \in Admins |-> [cards[a] EXCEPT ![i] =
                                  IF a \in reached THEN Capped(@, MaxCards) ELSE @]]

Tell(i, decision) == told' = [told EXCEPT ![i][decision] = Capped(@, MaxTold)]

End(p) == open' = [open EXCEPT ![p] = NoHandler]

Free(p) == open[p].step = "none"

-----------------------------------------------------------------------------
(***************************************************************************)
(* The applicant.                                                          *)
(***************************************************************************)

\* /start, back to the start, the contact form and the admins' other dialogs
\* drop the conversation.
Leave(p) ==
    /\ Free(p)
    /\ fsm' = [fsm EXCEPT ![p] = Idle]
    /\ UNCHANGED <<apps, open, cards, told>>

Faulty_Verify(p) ==
    /\ Free(p)
    /\ ~ \E i \in Id : IsLatest(i, p) /\ apps[i].status # "REJECTED"
    /\ fsm' = [fsm EXCEPT ![p] = [state |-> "role", app |-> 0]]
    /\ UNCHANGED <<apps, open, cards, told>>

\* on_start_verification.  With a pending or an approved application it only
\* answers.
Verify(p) ==
    /\ Free(p)
    /\ ~ LatestHas(p, "PENDING") /\ ~ LatestHas(p, "APPROVED")
    /\ \/ \E i \in Id :
             /\ IsLatest(i, p) /\ apps[i].status = "NEED_MORE_DOCS"
             /\ fsm' = [fsm EXCEPT ![p] = [state |-> "uploading", app |-> i]]
       \/ /\ ~ LatestHas(p, "NEED_MORE_DOCS")
          /\ fsm' = [fsm EXCEPT ![p] = [state |-> "role", app |-> 0]]
    /\ UNCHANGED <<apps, open, cards, told>>

ChooseRole(p) ==
    /\ Free(p) /\ fsm[p].state = "role"
    /\ fsm' = [fsm EXCEPT ![p].state = "form"]
    /\ UNCHANGED <<apps, open, cards, told>>

\* Counts on the next id instead of reading the one the insert returns.
Faulty_SubmitForm(p) ==
    /\ Free(p) /\ fsm[p].state = "form"
    /\ \E i \in Id :
          /\ apps[i].status = "absent" /\ \A j \in 1..(i - 1) : apps[j].status # "absent"
          /\ apps' = [apps EXCEPT ![i] = [owner |-> p, status |-> "PENDING", docs |-> FALSE]]
          /\ fsm' = [fsm EXCEPT ![p] = [state |-> "uploading", app |-> i + 1]]
    /\ UNCHANGED <<open, cards, told>>

\* on_city: the application is inserted and the conversation moves on to the
\* documents.  When the answer cannot be sent the insert is undone, not the move.
SubmitForm(p) ==
    /\ Free(p) /\ fsm[p].state = "form"
    /\ \E i \in Id, status \in {"PENDING", "lost"} :
          /\ apps[i].status = "absent" /\ \A j \in 1..(i - 1) : apps[j].status # "absent"
          /\ apps' = [apps EXCEPT ![i] = [owner |-> p, status |-> status, docs |-> FALSE]]
          /\ fsm' = [fsm EXCEPT ![p] = [state |-> "uploading", app |-> i]]
    /\ UNCHANGED <<open, cards, told>>

\* on_document_uploaded, whatever has been decided meanwhile.  For an insert
\* that was lost the foreign key fails and nothing changes.
Upload(p) ==
    /\ Free(p) /\ fsm[p].state = "uploading" /\ Exists(fsm[p].app)
    /\ apps' = [apps EXCEPT ![fsm[p].app].docs = TRUE]
    /\ UNCHANGED <<fsm, open, cards, told>>

\* Without the test of the status.
Faulty_Done(p) ==
    LET i == fsm[p].app
    IN /\ Free(p) /\ fsm[p].state = "uploading" /\ Exists(i) /\ apps[i].docs
       /\ open' = [open EXCEPT ![p] = [step |-> "done", app |-> i, resubmits |-> TRUE]]
       /\ UNCHANGED <<apps, fsm, cards, told>>

\* on_documents_done.  It reads the application,
Done(p) ==
    LET i == fsm[p].app
    IN /\ Free(p) /\ fsm[p].state = "uploading" /\ Exists(i) /\ apps[i].docs
       /\ open' = [open EXCEPT ![p] =
             [step |-> "done", app |-> i, resubmits |-> apps[i].status = "NEED_MORE_DOCS"]]
       /\ UNCHANGED <<apps, fsm, cards, told>>

\* clears the conversation, says that the documents are under review and sends
\* the admins their buttons,
AnswerDone(p) ==
    /\ open[p].step = "done"
    /\ fsm' = [fsm EXCEPT ![p] = Idle]
    /\ \E reached \in SUBSET Admins : NotifyAdmins(open[p].app, reached)
    /\ open' = [open EXCEPT ![p].step = "answered"]
    /\ UNCHANGED <<apps, told>>

\* and commits,
EndDone(p) ==
    /\ open[p].step = "answered"
    /\ IF open[p].resubmits THEN SetStatus(open[p].app, "PENDING") ELSE UNCHANGED apps
    /\ End(p)
    /\ UNCHANGED <<fsm, cards, told>>

\* unless one of the sends, or the commit, fails.
DoneRollsBack(p) ==
    /\ open[p].step = "answered"
    /\ End(p)
    /\ UNCHANGED <<apps, fsm, cards, told>>

-----------------------------------------------------------------------------
(***************************************************************************)
(* The admin.                                                              *)
(***************************************************************************)

\* on_applications_list.
ListPending(a) ==
    /\ Free(a)
    /\ cards' = [cards EXCEPT ![a] = [i \in Id |->
                    IF apps[i].status = "PENDING" THEN Capped(@[i], MaxCards) ELSE @[i]]]
    /\ UNCHANGED <<apps, fsm, open, told>>

\* on_approve reads the application,
Approve(a, i) ==
    /\ Free(a) /\ cards[a][i] > 0 /\ Exists(i) /\ apps[i].status # "APPROVED"
    /\ open' = [open EXCEPT ![a] = [NoHandler EXCEPT !.step = "approving", !.app = i]]
    /\ UNCHANGED <<apps, fsm, cards, told>>

\* A blocked bot is logged instead of raised.
Faulty_LetIn(i) == Tell(i, "APPROVED") \/ UNCHANGED told

\* lets the owner in or asks for payment (without a channel nothing reaches an
\* owner who need not pay), takes the buttons off the message
LetIn(i) == Tell(i, "APPROVED") \/ (~ ChannelSet /\ UNCHANGED told)

TakeButtons(a, i) == cards' = [cards EXCEPT ![a][i] = IF @ > 0 THEN @ - 1 ELSE 0]

\* and commits,
EndApprove(a) ==
    /\ open[a].step = "approving"
    /\ LetIn(open[a].app) /\ TakeButtons(a, open[a].app)
    /\ SetStatus(open[a].app, "APPROVED")
    /\ End(a)
    /\ UNCHANGED fsm

\* unless one of these calls raises, or the commit does.
ApproveRollsBack(a) ==
    /\ open[a].step = "approving"
    /\ \/ UNCHANGED <<told, cards>>
       \/ LetIn(open[a].app) /\ (TakeButtons(a, open[a].app) \/ UNCHANGED cards)
    /\ End(a)
    /\ UNCHANGED <<apps, fsm>>

\* on_reject_start, on_wrong_status_start, on_request_docs_start: the buttons
\* of any message, whatever the status, and the admin is asked for a comment.
AskComment(a, i, state) ==
    /\ Free(a) /\ cards[a][i] > 0
    /\ fsm' = [fsm EXCEPT ![a] = [state |-> state, app |-> i]]
    /\ UNCHANGED <<apps, open, cards, told>>

\* on_reject_reason, on_wrong_status_comment.
Reject(a) ==
    LET i == fsm[a].app
    IN /\ Free(a) /\ fsm[a].state = "reject" /\ Exists(i)
       /\ fsm' = [fsm EXCEPT ![a] = Idle]
       /\ SetStatus(i, "REJECTED") /\ Tell(i, "REJECTED")
       /\ UNCHANGED <<open, cards>>

RejectRollsBack(a) ==
    LET i == fsm[a].app
    IN /\ Free(a) /\ fsm[a].state = "reject" /\ Exists(i)
       /\ fsm' = [fsm EXCEPT ![a] = Idle]
       /\ Tell(i, "REJECTED") \/ UNCHANGED told
       /\ UNCHANGED <<apps, open, cards>>

\* Writes the admin's own conversation.
Faulty_RequestDocs(a) ==
    LET i == fsm[a].app
    IN /\ Free(a) /\ fsm[a].state = "more_docs" /\ Exists(i)
       /\ fsm' = [fsm EXCEPT ![a] = [state |-> "uploading", app |-> i]]
       /\ open' = [open EXCEPT ![a] = [NoHandler EXCEPT !.step = "requesting", !.app = i]]
       /\ UNCHANGED <<apps, cards, told>>

\* on_request_docs_comment moves the owner's conversation to the documents,
RequestDocs(a) ==
    LET i == fsm[a].app
    IN /\ Free(a) /\ fsm[a].state = "more_docs" /\ Exists(i)
       /\ fsm' = [fsm EXCEPT ![a] = Idle,
                             ![apps[i].owner] = [state |-> "uploading", app |-> i]]
       /\ open' = [open EXCEPT ![a] = [NoHandler EXCEPT !.step = "requesting", !.app = i]]
       /\ UNCHANGED <<apps, cards, told>>

\* tells the owner, and commits,
EndRequest(a) ==
    LET i == open[a].app
    IN /\ open[a].step = "requesting"
       /\ SetStatus(i, "NEED_MORE_DOCS") /\ Tell(i, "NEED_MORE_DOCS")
       /\ End(a)
       /\ UNCHANGED <<fsm, cards>>

\* or fails to, and leaves the conversation where it put it.
RequestRollsBack(a) ==
    LET i == open[a].app
    IN /\ open[a].step = "requesting"
       /\ Tell(i, "NEED_MORE_DOCS") \/ UNCHANGED told
       /\ End(a)
       /\ UNCHANGED <<apps, fsm, cards>>

-----------------------------------------------------------------------------
ApplicantStep(p) ==
    \/ Verify(p) \/ ChooseRole(p) \/ SubmitForm(p)
    \/ Upload(p) \/ Done(p) \/ AnswerDone(p) \/ EndDone(p) \/ DoneRollsBack(p)

AdminStep(a) ==
    \/ ListPending(a)
    \/ \E i \in Id : Approve(a, i) \/ \E state \in AdminState : AskComment(a, i, state)
    \/ EndApprove(a) \/ ApproveRollsBack(a)
    \/ Reject(a) \/ RejectRollsBack(a)
    \/ RequestDocs(a) \/ EndRequest(a) \/ RequestRollsBack(a)

Next ==
    \/ \E p \in People : Leave(p)
    \/ \E p \in Applicants : ApplicantStep(p)
    \/ \E a \in Admins : AdminStep(a)

Spec == Init /\ [][Next]_vars

\* A handler that is under way ends, and not every resubmission of an
\* application fails to commit.
HandlersEnd ==
    /\ \A p \in People :
          /\ WF_vars(AnswerDone(p)) /\ WF_vars(EndDone(p) \/ DoneRollsBack(p))
          /\ \A i \in Id : SF_vars(open[p].app = i /\ open[p].resubmits /\ EndDone(p))
    /\ \A a \in Admins : WF_vars(EndApprove(a) \/ ApproveRollsBack(a))
                         /\ WF_vars(EndRequest(a) \/ RequestRollsBack(a))

\* An applicant who keeps trying: presses the verification button, sends a
\* document and presses Done for an application whenever that is possible
\* often enough.
Persistent(p) ==
    /\ SF_vars(Verify(p))
    /\ \A i \in Id : SF_vars(fsm[p].app = i /\ Upload(p)) /\ SF_vars(fsm[p].app = i /\ Done(p))

FairSpec == Spec /\ HandlersEnd /\ \A p \in Applicants : Persistent(p)

-----------------------------------------------------------------------------
(***************************************************************************)
(* Properties.                                                             *)
(***************************************************************************)

\* Documents a person sends go to an application of that person, although admins
\* write the conversations of others, ids are reused by nobody, and one person
\* can be an admin and an applicant (documents.py:44, applications.py:273).
UploadsToOwn ==
    \A p \in People : fsm[p].state = "uploading" => apps[fsm[p].app].owner = p

\* documents.py:93-96 promises word as soon as a decision is made: every decision
\* on record has reached the owner, since the message goes out before the commit.
DecisionTold ==
    \A i \in Id : apps[i].status \in Decision => told[i][apps[i].status] > 0

\* A decided application goes back to the admins only if documents were asked of
\* its owner, although a conversation about it outlives the decision and the
\* decision can change between reading it and writing (documents.py:79-90).
ReopenedOnRequest ==
    [][\A i \in Id : apps[i].status \in Decision /\ apps'[i].status = "PENDING"
                         => told[i]["NEED_MORE_DOCS"] > 0]_vars

\* No dead end: an applicant who keeps trying answers a request for documents,
\* whatever /start, a failed handler or a second admin did to the conversation
\* (on_start_verification exists to get back to it, questionnaire.py:69-80).
RequestsAnswered ==
    \A p \in Applicants, i \in Id :
        (IsLatest(i, p) /\ apps[i].status = "NEED_MORE_DOCS")
            ~> (IsLatest(i, p) => apps[i].status # "NEED_MORE_DOCS")

\* What "your documents are under review" says (documents.py:93-96).
DoneMeansUnderReview ==
    [][\A p \in People :
          EndDone(p) => apps'[open[p].app].status = "PENDING"]_vars

\* What "already approved" guards (applications.py:130-132): the owner is let in,
\* or asked to pay, once per application.
ApprovedOnce == \A i \in Id : told[i]["APPROVED"] <= 1

\* What "already submitted and under review" says (questionnaire.py:58-63): a
\* pending application of someone who cannot upload any more has documents.
UnderReviewHasDocuments ==
    \A p \in People, i \in Id :
        IsLatest(i, p) /\ apps[i].status = "PENDING" /\ fsm[p].state # "uploading"
            => apps[i].docs
=============================================================================
