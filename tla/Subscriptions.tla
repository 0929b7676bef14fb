---------------------------- MODULE Subscriptions ----------------------------
(***************************************************************************)
(* Billing and chat access of the subscribers.  Every Telegram update, bank *)
(* webhook and phase of the daily job runs in one database transaction     *)
(* (middlewares/database.py, engine.session_scope).  A transaction that    *)
(* writes a subscription is several steps here: it reads, the bank and     *)
(* Telegram answer, it commits or is rolled back, and others commit in     *)
(* between.  No lock is kept, so every order the locks allow is one of     *)
(* these, and some more.  A rollback undoes the rows, never what the bank  *)
(* or Telegram did: those are variables of their own.                      *)
(* BillingTxn opens the transactions of one user up further, statement by  *)
(* statement and with their locks.                                         *)
(***************************************************************************)
EXTENDS SubscriptionRows, FiniteSets

CONSTANTS Users,            \* people the bot knows
          Nobody,           \* owner of an invoice not yet opened, user of a handler at rest
          Invoices,         \* card verification invoices that can be opened
          Handlers,         \* updates and webhooks that can be in progress at once
          Roles,            \* classes of role that users have or are given
          Durations,        \* subscription_duration_days an admin may set, in ticks
          TrialEnds,        \* trial_end of the legacy trials in the database
          PaymentRequired,  \* settings.payment_required (PAYMENT_REQUIRED)
          MaxDay,           \* bound: days that pass
          MaxFaults,        \* bound: job runs that are missed or abandoned
          MaxDeliveries     \* bound: times the bank delivers one callback

ASSUME BillingAssumption ==
    /\ Nobody \notin Users
    /\ Roles \subseteq {"priced", "free"}
    /\ Durations \subseteq Nat \ {0}
    /\ TrialEnds \subseteq Nat
    /\ PaymentRequired \in BOOLEAN
    /\ MaxDay \in Nat /\ MaxFaults \in Nat /\ MaxDeliveries \in Nat

Role     == {"priced", "free"}     \* does Role.price_uah have a value
Phase    == {"idle", "charge", "charging", "expire", "expiring"}
PayState == {"unused", "lost", "kept"}  \* lost: opened, but its payments row is not kept
Callback == {"success", "final"}    \* "final": is_final_failure; others change nothing
BankView == {"open", "verified", "tokenless", "failed", "reversed"}

\* usable: the user was sent an invite link that Telegram may still honour (a link
\* is single-use; which of them the row names is left out); member: the user is
\* in the community chat; banned: Telegram lets the user in through no link.
Door == [usable : BOOLEAN, member : BOOLEAN, banned : BOOLEAN]

\* A charge the bank confirmed, one it did not make, and one it made although
\* no success answer arrived (a timed-out request, status "processing").  The
\* client repeats a request whose answer is lost, so a charge that is made may
\* be made up to _MAX_ATTEMPTS times: taken counts it as one.
ChargeResult == {"paid", "refused", "unconfirmed"}

\* What the code makes of the result.
Outcome(result) == IF result = "paid" THEN "paid" ELSE "failed"

Progress == {"none", "listed", "paid", "failed"}

\* The job's open transaction: the settings and the rows it loaded, how far it
\* is with each user, and the users whose outcome still has to be followed up.
Run == [chat : BOOLEAN, duration : Nat, read : [Users -> Row],
        progress : [Users -> Progress], calls : SUBSET Users]

Kind == {"webhook", "cancel", "approval", "promotion"}

\* A handler's open transaction: the row it loaded, the clock it read, the period
\* length and the answer of the bank it goes by, what its commit does to the
\* user's cards, and the step it is at.
Handling == [at : {"idle", "bank", "link", "end"}, kind : Kind, user : Users \cup {Nobody},
             since : Time, read : Row, duration : Nat, outcome : {"paid", "failed"},
             cards : {"keep", "drop", "file"}]

NoRun == [chat |-> FALSE, duration |-> 0, read |-> [u \in Users |-> NoRow],
          progress |-> [u \in Users |-> "none"], calls |-> {}]

AtRest == [at |-> "idle", kind |-> "cancel", user |-> Nobody, since |-> None, read |-> NoRow,
           duration |-> 0, outcome |-> "failed", cards |-> "keep"]

VARIABLES day, job, faults,             \* the calendar and today's job run
          chat, duration,               \* settings: channel configured; period length
          rows, card,                   \* subscriptions; an active payment token exists
          role,                         \* the user's role
          prompted, cancelPrompt,       \* users holding a pay / confirm-cancel button
          door,                         \* chat access
          invoice, bank, left,          \* AUTHORIZATION payments; the bank; undelivered
          taken,                        \* steps that took the user's money, modulo 2
          recorded,                     \* latest charge that payments records as SUCCESS
          run, txn,                     \* the open transactions: the job's, the handlers'
          crossed   \* history: users of whom one transaction missed another's commit

calendar == <<day, job, faults>>
settings == <<chat, duration>>
people   == <<role, prompted, cancelPrompt>>
bankside == <<invoice, bank, left>>
money    == <<taken, recorded>>
work     == <<run, txn, crossed>>
vars     == <<calendar, settings, rows, card, people, door, bankside, money, work>>

Here == RestOfDay(day)

TypeOK ==
    /\ day \in 0..MaxDay /\ job \in Phase /\ faults \in 0..MaxFaults
    /\ chat \in BOOLEAN /\ duration \in Durations
    /\ rows \in [Users -> Row] /\ card \in [Users -> BOOLEAN]
    /\ role \in [Users -> Role]
    /\ prompted \subseteq Users /\ cancelPrompt \subseteq Users
    /\ door \in [Users -> Door]
    /\ invoice \in [Invoices -> [user : Users \cup {Nobody}, status : PayState]]
    /\ bank \in [Invoices -> BankView]
    /\ left \in [Invoices -> [Callback -> 0..MaxDeliveries]]
    /\ taken \in [Users -> 0..1] /\ recorded \in [Users -> Time]
    /\ run \in Run /\ txn \in [Handlers -> Handling] /\ crossed \subseteq Users

Init ==
    /\ day = 0 /\ job = "idle" /\ faults = 0
    /\ chat \in BOOLEAN /\ duration \in Durations
    /\ rows \in [Users -> {NoRow} \cup {LegacyTrial(t) : t \in TrialEnds}]
    /\ card = [u \in Users |-> rows[u].status = "TRIAL"]
    /\ role \in [Users -> Roles] /\ \A u \in Users : card[u] => role[u] = "priced"
    /\ prompted = {u \in Users : card[u]} /\ cancelPrompt = {}
    /\ door = [u \in Users |-> [usable |-> FALSE, member |-> card[u], banned |-> FALSE]]
    /\ prompted # {} => chat
    /\ invoice = [i \in Invoices |-> [user |-> Nobody, status |-> "unused"]]
    /\ bank = [i \in Invoices |-> "open"]
    /\ left = [i \in Invoices |-> [c \in Callback |-> 0]]
    /\ taken = [u \in Users |-> 0] /\ recorded = [u \in Users |-> None]
    /\ run = NoRun /\ txn = [h \in Handlers |-> AtRest] /\ crossed = {}

-----------------------------------------------------------------------------
(***************************************************************************)
(* Chat access (AccessService).                                            *)
(***************************************************************************)

SendLink(d) == [d EXCEPT !.usable = TRUE]

\* kick_user: a ban that is lifted at once.  A BadRequest to either call is only
\* logged, so the user may stay in the chat, or stay banned.
Kick(d) ==
    {d} \cup {[d EXCEPT !.member = FALSE, !.banned = b] : b \in BOOLEAN}

\* The link on record is revoked, which may fail too; another one may be left.
RevokeStored(d) == {d, [d EXCEPT !.usable = FALSE]}

Expelled(d) == UNION {RevokeStored(k) : k \in Kick(d)}

\* External: more links may be left than the one that is used up.
Join(u) ==
    /\ ~ door[u].member /\ ~ door[u].banned /\ door[u].usable
    /\ \E more \in BOOLEAN :
          door' = [door EXCEPT ![u] = [usable |-> more, member |-> TRUE, banned |-> FALSE]]
    /\ UNCHANGED <<calendar, settings, rows, card, people, bankside, money, work>>

-----------------------------------------------------------------------------
(***************************************************************************)
(* The transaction of a handler, from the row it loads to its end.         *)
(***************************************************************************)

\* h can start on u.  A transaction that finds no row inserts one, early; a
\* second one waits there for its end and then fails or goes on (BillingTxn).
Free(h, u) ==
    /\ txn[h].at = "idle"
    /\ rows[u].status = Absent => \A g \in Handlers : txn[g].user # u

\* The row is loaded; a webhook and an approval load it again, for the update.
Start(h, kind, u, at, cards) ==
    txn' = [txn EXCEPT ![h] =
        [at |-> at, kind |-> kind, user |-> u, since |-> Here, read |-> rows[u],
         duration |-> 0, outcome |-> "failed", cards |-> cards]]

\* The row as the handler means to leave it.
Wanted(t) ==
    CASE t.kind = "webhook" /\ t.outcome = "paid" ->
            MarkActive(GetOrCreate(t.read), t.since, t.duration)
      [] t.kind = "webhook" /\ t.outcome = "failed" ->
            FirstChargeFailed(GetOrCreate(t.read), t.since)
      [] t.kind = "cancel" -> CancelRow(t.read)
      [] t.kind = "promotion" /\ IsPermanent(t.read) -> t.read
      [] OTHER -> GrantPermanent(t.read, t.since)

Stamped(t) == CASE t.kind = "webhook" -> StampedBy(t.outcome)
                [] t.kind = "cancel" -> {}
                [] t.kind = "promotion" /\ IsPermanent(t.read) -> {}
                [] OTHER -> {"start"}

\* create_invite_link, and the message with it: before the commit.
GiveLink(h) ==
    LET t == txn[h]
    IN /\ t.at = "link"
       /\ txn' = [txn EXCEPT ![h] =
             [t EXCEPT !.at = "end",
                       !.read = IF t.kind = "approval" THEN rows[t.user] ELSE t.read]]
       /\ door' = [door EXCEPT ![t.user] = SendLink(@)]
    /\ UNCHANGED <<calendar, settings, rows, card, people, bankside, money, run, crossed>>

\* The others that have user u in hand, when h commits.
Overtaken(h, u) == run.progress[u] # "none" \/ \E g \in Handlers \ {h} : txn[g].user = u

\* The columns that differ are written; the cards the handler saw are dropped or
\* replaced, one that was filed since stays; a recorded charge becomes visible.
Commit(h) ==
    LET t == txn[h] u == t.user
    IN /\ t.at = "end"
       /\ rows' = [rows EXCEPT ![u] = Merge(@, t.read, Wanted(t), Stamped(t))]
       /\ card' = [card EXCEPT ![u] = IF t.cards = "keep" THEN @ ELSE t.cards = "file"]
       /\ IF t.kind = "promotion" THEN \E r \in Roles : role' = [role EXCEPT ![u] = r]
          ELSE UNCHANGED role
       /\ recorded' = IF t.outcome = "paid" THEN [recorded EXCEPT ![u] = t.since]
                      ELSE recorded
       /\ txn' = [g \in Handlers |->
             IF g = h THEN AtRest
             ELSE IF txn[g].user = u /\ t.cards = "file" /\ txn[g].cards = "drop"
                  THEN [txn[g] EXCEPT !.cards = "keep"]
                  ELSE txn[g]]
       /\ crossed' = IF Overtaken(h, u) THEN crossed \cup {u} ELSE crossed
    /\ UNCHANGED <<calendar, settings, prompted, cancelPrompt, door, bankside, taken, run>>

\* A call or a statement raises, or the process dies.
RollBack(h) ==
    /\ txn[h].at # "idle"
    /\ txn' = [txn EXCEPT ![h] = AtRest]
    /\ UNCHANGED <<calendar, settings, rows, card, people, door, bankside, money, run, crossed>>

-----------------------------------------------------------------------------
(***************************************************************************)
(* Admin handlers.                                                         *)
(***************************************************************************)

\* on_approve of an application of u for the role applied, which need not be the
\* role u has by now (Applications says when one can be approved).  When that
\* role has no price, and always while payment is not required, u is let in for
\* good, provided the channel is configured; otherwise u is asked to pay, and
\* keeps the button when the transaction is rolled back.
Approve(h, u, applied) ==
    /\ \/ /\ PaymentRequired /\ applied = "priced"
          /\ prompted' = prompted \cup {u} /\ UNCHANGED txn
       \/ /\ ~ (PaymentRequired /\ applied = "priced")
          /\ chat /\ Free(h, u) /\ Start(h, "approval", u, "link", "keep")
          /\ UNCHANGED prompted
    /\ UNCHANGED <<calendar, settings, rows, card, role, cancelPrompt, door, bankside,
                   money, run, crossed>>

\* on_change_role_apply.  Promotion to supervisor grants permanent access unless
\* the user has it, once the channel is configured; any other change of role
\* leaves the subscription alone.  An application that is sent in (on_city), or
\* a new price of the role, moves the user between the two classes in the same way.
ChangeRole(u, newRole) ==
    /\ role' = [role EXCEPT ![u] = newRole]
    /\ UNCHANGED <<calendar, settings, rows, card, prompted, cancelPrompt, door,
                   bankside, money, work>>

PromoteToSupervisor(h, u) ==
    /\ chat /\ Free(h, u)
    /\ Start(h, "promotion", u, IF IsPermanent(rows[u]) THEN "end" ELSE "link", "keep")
    /\ UNCHANGED <<calendar, settings, rows, card, people, door, bankside, money,
                   run, crossed>>

SetChannel ==
    /\ chat' = TRUE
    /\ UNCHANGED <<calendar, duration, rows, card, people, door, bankside, money, work>>

SetDuration(ticks) ==
    /\ duration' = ticks
    /\ UNCHANGED <<calendar, chat, rows, card, people, door, bankside, money, work>>

-----------------------------------------------------------------------------
(***************************************************************************)
(* User handlers.                                                          *)
(***************************************************************************)

\* on_confirm_payment_method: any press of the pay button opens an invoice,
\* whatever the subscription looks like.
ConfirmPaymentMethod(u, i) ==
    /\ u \in prompted /\ invoice[i].status = "unused"
    /\ invoice' = [invoice EXCEPT ![i] = [user |-> u, status |-> "kept"]]
    /\ UNCHANGED <<calendar, settings, rows, card, people, door, bank, left, money, work>>

\* The page was shown, then answering Telegram failed: the payments row is
\* rolled back, the customer can still complete the invoice.
ConfirmRollsBack(u, i) ==
    /\ u \in prompted /\ invoice[i].status = "unused"
    /\ invoice' = [invoice EXCEPT ![i].status = "lost"]
    /\ UNCHANGED <<calendar, settings, rows, card, people, door, bank, left, money, work>>

CancelStart(u) ==
    /\ rows[u].status \in {"TRIAL", "ACTIVE"}
    /\ cancelPrompt' = cancelPrompt \cup {u}
    /\ UNCHANGED <<calendar, settings, rows, card, role, prompted, door,
                   bankside, money, work>>

\* The button stays usable until it is pressed, and is not checked again; the
\* user may hold another one.
CancelConfirm(h, u) ==
    /\ u \in cancelPrompt /\ Free(h, u)
    /\ Start(h, "cancel", u, "end", "drop")
    /\ UNCHANGED <<calendar, settings, rows, card, people, door, bankside, money, run, crossed>>

\* _resend_invite_if_active: the link is sent, the row keeps the old one.
ResendInvite(u) ==
    /\ rows[u].status \in {"ACTIVE", "TRIAL"} /\ chat
    /\ door' = [door EXCEPT ![u] = SendLink(@)]
    /\ UNCHANGED <<calendar, settings, rows, card, people, bankside, money, work>>

-----------------------------------------------------------------------------
(***************************************************************************)
(* The bank and its webhook.                                               *)
(***************************************************************************)

\* External: the customer completes the verification (which saves the card, or
\* exceptionally not), it fails or expires, or a completed one is reversed.
\* Each outcome is announced by a callback that may be delivered several times,
\* late, after a newer one, or never.
BankResolves(i) ==
    /\ invoice[i].status # "unused"
    /\ \/ /\ bank[i] = "open"
          /\ \E view \in {"verified", "tokenless"} : bank' = [bank EXCEPT ![i] = view]
          /\ left' = [left EXCEPT ![i]["success"] = MaxDeliveries]
       \/ /\ bank[i] \in {"open", "verified"}
          /\ bank' = [bank EXCEPT ![i] = IF @ = "open" THEN "failed" ELSE "reversed"]
          /\ left' = [left EXCEPT ![i]["final"] = MaxDeliveries]
    /\ UNCHANGED <<calendar, settings, rows, card, people, door, invoice, money, work>>

Deliver(i, c) ==
    /\ left[i][c] > 0
    /\ left' = [left EXCEPT ![i][c] = @ - 1]
    /\ UNCHANGED bank

Known(i) == invoice[i].status \notin {"unused", "lost"}

\* An invoice without a payments row: logged, answered 200, nothing done.
WebhookUnknown(i) ==
    /\ ~ Known(i) /\ \E c \in Callback : Deliver(i, c)
    /\ UNCHANGED <<calendar, settings, rows, card, people, door, invoice, money, work>>

\* The payment status that a callback leaves is never read, and is left out: a
\* callback of final failure changes nothing else.
WebhookFinal(i) ==
    /\ Known(i) /\ Deliver(i, "final")
    /\ UNCHANGED <<calendar, settings, rows, card, people, door, invoice, money, work>>

Faulty_CarriesToken(i) == bank[i] # "open"

\* walletData.cardToken is present in the success callbacks of invoice i.
CarriesToken(i) == bank[i] \in {"verified", "reversed"}

\* Verified, but without a card token there is nothing to charge.
WebhookNoToken(i) ==
    /\ Known(i) /\ Deliver(i, "success") /\ ~ CarriesToken(i)
    /\ UNCHANGED <<calendar, settings, rows, card, people, door, invoice, money, work>>

\* The bank takes u's money, unless it refuses.
Charge(u, result) ==
    taken' = [taken EXCEPT ![u] = IF result = "refused" THEN @ ELSE (@ + 1) % 2]

\* Verified: the card is to replace the one on file, and is to be charged at once.
WebhookCharges(h, i) ==
    LET u == invoice[i].user
    IN /\ Known(i) /\ Deliver(i, "success") /\ CarriesToken(i)
       /\ Free(h, u) /\ Start(h, "webhook", u, "bank", "file")
    /\ UNCHANGED <<calendar, settings, rows, card, people, door, invoice, money, run, crossed>>

\* The bank answers: the subscription is to start and its owner to be let in, or
\* it is to be marked failed.
BankAnswers(h) ==
    /\ txn[h].at = "bank"
    /\ \E result \in ChargeResult :
          /\ Charge(txn[h].user, result)
          /\ txn' = [txn EXCEPT ![h] =
                [@ EXCEPT !.at = IF result = "paid" /\ chat THEN "link" ELSE "end",
                          !.read = rows[txn[h].user], !.outcome = Outcome(result),
                          !.duration = duration]]
    /\ UNCHANGED <<calendar, settings, rows, card, people, door, bankside, recorded, run, crossed>>

-----------------------------------------------------------------------------
(***************************************************************************)
(* The daily maintenance job (scheduler/jobs.py): two transactions that    *)
(* write, then reminders, which change nothing kept here.  Users are gone  *)
(* through in any order.                                                   *)
(***************************************************************************)

\* Bound: a handler is over within a day (the calls of the bank's client and
\* of Telegram's time out), so it sees at most one job run begin.
NothingLingers == \A h \in Handlers : txn[h].at # "idle" => txn[h].since > JobInstant(day)

NewDay ==
    /\ job = "idle" /\ day < MaxDay /\ NothingLingers
    /\ day' = day + 1 /\ job' = "charge"
    /\ UNCHANGED <<faults, settings, rows, card, people, door, bankside, money, work>>

\* The process is down at 04:00; the run is not made up for.
MissedRun ==
    /\ job = "idle" /\ day < MaxDay /\ faults < MaxFaults /\ NothingLingers
    /\ day' = day + 1 /\ faults' = faults + 1
    /\ UNCHANGED <<job, settings, rows, card, people, door, bankside, money, work>>

\* What a phase loads at its start: the settings and the rows of the users in U.
Listing(U) ==
    [chat |-> chat, duration |-> duration,
     read |-> [u \in Users |-> IF u \in U THEN rows[u] ELSE NoRow],
     progress |-> [u \in Users |-> IF u \in U THEN "listed" ELSE "none"],
     calls |-> {}]

AllPast == \A u \in Users : run.progress[u] # "listed"

DueUsers == {u \in Users : Due(rows[u], JobInstant(day))}

ListDue ==
    /\ job = "charge" /\ job' = "charging"
    /\ run' = Listing(DueUsers)
    /\ UNCHANGED <<day, faults, settings, rows, card, people, door, bankside, money, txn,
                   crossed>>

\* Without an active token charge_subscription raises before calling the bank.
PossibleResults(u) == IF card[u] THEN ChargeResult ELSE {"refused"}

\* process_due_charge: the card is picked up and charged.
ChargeDue(u) ==
    /\ job = "charging" /\ run.progress[u] = "listed"
    /\ \E result \in PossibleResults(u) :
          /\ Charge(u, result)
          /\ run' = [run EXCEPT !.progress[u] = Outcome(result), !.calls = @ \cup {u}]
    /\ UNCHANGED <<calendar, settings, rows, card, people, door, bankside, recorded, txn,
                   crossed>>

\* A user who had failed before is sent a new link; a user whose charge fails is
\* put out, and asked to pay.
DoorsAfter(u) ==
    CASE run.chat /\ run.progress[u] = "failed" -> Expelled(door[u])
      [] run.chat /\ run.progress[u] = "paid" /\ run.read[u].status = "FAILED"
            -> {SendLink(door[u])}
      [] OTHER -> {door[u]}

FollowUp(u) ==
    /\ job = "charging" /\ u \in run.calls
    /\ run' = [run EXCEPT !.calls = @ \ {u}]
    /\ \E d \in DoorsAfter(u) : door' = [door EXCEPT ![u] = d]
    /\ prompted' = IF run.progress[u] = "failed" THEN prompted \cup {u} ELSE prompted
    /\ UNCHANGED <<calendar, settings, rows, card, role, cancelPrompt, bankside, money,
                   txn, crossed>>

\* _mark_active and _mark_failed, over the row as it was listed.
Marked(u) == IF run.progress[u] = "paid" THEN MarkActive(run.read[u], Here, run.duration)
             ELSE MarkFailed(run.read[u], Here)

Processed == {u \in Users : run.progress[u] \in {"paid", "failed"}}

CommitCharges ==
    /\ job = "charging" /\ AllPast /\ run.calls = {}
    /\ job' = "expire" /\ run' = NoRun
    /\ rows' = [u \in Users |->
          IF u \in Processed
          THEN Merge(rows[u], run.read[u], Marked(u), StampedBy(run.progress[u]))
          ELSE rows[u]]
    /\ recorded' = [u \in Users |-> IF run.progress[u] = "paid" THEN Here ELSE recorded[u]]
    /\ crossed' = crossed \cup {u \in Processed : \E h \in Handlers : txn[h].user = u}
    /\ UNCHANGED <<day, faults, settings, card, people, door, bankside, taken, txn>>

ExpiredUsers(before) == {u \in Users : CancelledExpired(rows[u], before)}

\* _process_cancelled_expirations.  Its clock is read when the phase starts:
\* some of the instants of the day may already be past.
ListExpired ==
    /\ job = "expire" /\ job' = "expiring"
    /\ \E before \in {JobInstant(day), Here} : run' = Listing(ExpiredUsers(before))
    /\ UNCHANGED <<day, faults, settings, rows, card, people, door, bankside, money, txn,
                   crossed>>

ExpireCancelled(u) ==
    /\ job = "expiring" /\ run.progress[u] = "listed"
    /\ run' = [run EXCEPT !.progress[u] = "none"]
    /\ \E d \in IF run.chat THEN Expelled(door[u]) ELSE {door[u]} :
          door' = [door EXCEPT ![u] = d]
    /\ UNCHANGED <<calendar, settings, rows, card, people, bankside, money, txn, crossed>>

\* Only invite_link is written.
CommitExpired ==
    /\ job = "expiring" /\ AllPast
    /\ job' = "idle" /\ run' = NoRun
    /\ UNCHANGED <<day, faults, settings, rows, card, people, door, bankside, money, txn,
                   crossed>>

\* An exception, or the process dies: all rows go back, what the bank and Telegram
\* did stays, and the run's later phases are lost.
RunAborts ==
    /\ job \in {"charging", "expiring"} /\ job' = "idle" /\ run' = NoRun
    /\ faults < MaxFaults /\ faults' = faults + 1
    /\ UNCHANGED <<day, settings, rows, card, people, door, bankside, money, txn, crossed>>

-----------------------------------------------------------------------------

UserStep(u) ==
    \/ \E r \in Roles : ChangeRole(u, r)
    \/ \E i \in Invoices : ConfirmPaymentMethod(u, i) \/ ConfirmRollsBack(u, i)
    \/ CancelStart(u) \/ ResendInvite(u) \/ Join(u)

HandlerStep(h) ==
    \/ \E u \in Users : \/ \E r \in Role : Approve(h, u, r)
                        \/ PromoteToSupervisor(h, u) \/ CancelConfirm(h, u)
    \/ \E i \in Invoices : WebhookCharges(h, i)
    \/ BankAnswers(h) \/ GiveLink(h) \/ Commit(h) \/ RollBack(h)

BankStep(i) ==
    BankResolves(i) \/ WebhookUnknown(i) \/ WebhookFinal(i) \/ WebhookNoToken(i)

JobStep == \/ ListDue \/ (\E u \in Users : ChargeDue(u) \/ FollowUp(u)) \/ CommitCharges
           \/ ListExpired \/ (\E u \in Users : ExpireCancelled(u)) \/ CommitExpired
           \/ RunAborts

Next == \/ \E u \in Users : UserStep(u)
        \/ \E h \in Handlers : HandlerStep(h)
        \/ \E i \in Invoices : BankStep(i)
        \/ SetChannel \/ \E d \in Durations : SetDuration(d)
        \/ NewDay \/ MissedRun \/ JobStep

Spec == Init /\ [][Next]_vars

\* Days pass and a run that was started, and every handler, is carried through;
\* nobody has to press a button and the bank has to deliver nothing.
Fairness ==
    /\ WF_vars(NewDay) /\ WF_vars(ListDue) /\ WF_vars(CommitCharges)
    /\ WF_vars(ListExpired) /\ WF_vars(CommitExpired)
    /\ \A u \in Users :
          WF_vars(ChargeDue(u)) /\ WF_vars(FollowUp(u)) /\ WF_vars(ExpireCancelled(u))
    /\ \A h \in Handlers : WF_vars(BankAnswers(h) \/ GiveLink(h) \/ Commit(h))

FairSpec == Spec /\ Fairness

-----------------------------------------------------------------------------
(***************************************************************************)
(* Properties.  Those about the rows speak of the users whose transactions *)
(* took effect one after the other: as soon as one of them commits while   *)
(* another has the user in hand, there are counterexamples (further down). *)
(***************************************************************************)

\* A subscription that is cancelled, or never started, cannot cost anything: no
\* card is on file for it and no charge is scheduled (SubscriptionService.cancel
\* and every path that stores a card).
InertWithoutSubscription ==
    \A u \in Users \ crossed : rows[u].status \in {"CANCELLED", "WAITING", Absent} =>
        ~ card[u] /\ rows[u].next = None

\* An ACTIVE subscription with an end date starts with the latest payment on
\* record, is renewed exactly when it ends, and its count of failures is cleared
\* (both places that mark it ACTIVE after a charge).
PaidPeriodOnRecord ==
    \A u \in Users \ crossed : rows[u].status = "ACTIVE" /\ rows[u].end # None =>
        /\ rows[u].start = recorded[u]
        /\ rows[u].next = rows[u].end /\ rows[u].end > rows[u].start
        /\ rows[u].retry = 0

\* The job never loses a subscriber it still has to charge: a failed one has a
\* next attempt at most one interval ahead, a trial has its date.
RetryScheduled ==
    \A u \in Users \ crossed :
        /\ rows[u].status = "FAILED" =>
              rows[u].next # None /\ rows[u].next <= Here + RetryTicks
        /\ rows[u].status = "TRIAL" => rows[u].next # None

\* The job puts nobody out of the chat who is paid up: neither inside a paid
\* period nor, when nothing is left scheduled, in permanent access.
PaidUp(u) ==
    /\ rows[u].status = "ACTIVE"
    /\ rows[u].next = None \/ rows[u].end > JobInstant(day)

PaidUpNeverExpelled ==
    [][\A u \in Users \ crossed : PaidUp(u) /\ door[u].member => door'[u].member]_vars

\* Money is only taken through a card on file or a confirmed authorisation that
\* the bank presents, and only the latter puts a card on file.
Confirmed ==
    [u \in Users |-> \/ rows[u].trialEnd # None
                    \/ \E i \in Invoices : /\ invoice[i].user = u
                                          /\ bank[i] \in {"verified", "reversed"}]

Mandate == INSTANCE CardMandate WITH mandate <- card, confirmed <- Confirmed

ChargesFollowMandate == Mandate!Spec

\* As long as enough runs are left to outlast the faulty ones, a subscription
\* that is due gets its attempt (or stops being due another way), whatever
\* commits while the job works on it.
RunsLeft == MaxDay - day + (IF job = "charge" THEN 1 ELSE 0)

DueIsTried ==
    \A u \in Users :
        (u \in DueUsers /\ RunsLeft > MaxFaults - faults) ~> u \notin DueUsers

-----------------------------------------------------------------------------
(***************************************************************************)
(* What the repository says of the program and the program does not do.    *)
(***************************************************************************)

\* role.py:15 "NULL = this role always gets free access".
FreeRoleNeverCharged ==
    [][\A u \in Users : taken'[u] # taken[u] => role[u] = "priced"]_vars

\* users.py:167 "free, permanent community access": the job leaves it alone, whatever
\* was scheduled before it was given.
PermanentAccessStays ==
    [][\A u \in Users : IsPermanent(rows[u]) /\ door[u].member => door'[u].member]_vars

\* webhook_handler.py:83 "Підписка діє до {end_text}" (the subscription is valid
\* until): whoever has paid stays in until then, whatever the job had listed.
PaidMemberStays ==
    [][\A u \in Users :
          rows[u].status = "ACTIVE" /\ rows[u].end > JobInstant(day) /\ door[u].member
             => door'[u].member]_vars

\* subscription_service.py:101 "Access continues until whatever period was
\* already paid for".
CancelledKeepsPaidPeriod ==
    [][\A u \in Users :
          rows[u].status = "CANCELLED" /\ rows[u].end > Here /\ door[u].member
             => door'[u].member]_vars

\* payment_service.py:154 "the existing daily retry job keeps trying": a user
\* the job has failed to charge is tried by the next day's run.
RetriedDaily ==
    job = "charge" => \A u \in Users :
        rows[u].status = "FAILED" /\ rows[u].retry > 1 => u \in DueUsers

\* applications.py:183 one confirmation of the card is one charge: once a charge is
\* on record, a callback delivered again sets off no other.
OneChargePerConfirmation ==
    [][\A h \in Handlers, i \in Invoices :
          left[i]["success"] < MaxDeliveries /\ WebhookCharges(h, i)
             => recorded[invoice[i].user] = None]_vars

\* access_service.py:44 "Generate a fresh single-use invite link to let the user
\* rejoin": a link that is created for a user lets that user in.
FreshLinkAdmits ==
    [][\A u \in Users : ~ door[u].usable /\ door'[u].usable => ~ door'[u].banned]_vars

\* jobs.py:76 "access to the community is suspended": whoever was put out
\* for a failed payment stays out until paying.
SuspendedStaysOut ==
    [][\A u \in Users : rows[u].status = "FAILED" /\ door'[u].member => door[u].member]_vars
=============================================================================
