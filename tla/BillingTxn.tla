----------------------------- MODULE BillingTxn -----------------------------
(***************************************************************************)
(* The transactions that write one user's subscription and cards, opened   *)
(* up into their statements and the calls between them: the charge of the  *)
(* daily job, the webhook of a verified card, the cancellation, and the    *)
(* grant of free access (Subscriptions takes each in a few steps).         *)
(* They run under READ COMMITTED: a statement sees what is committed and   *)
(* what its own transaction wrote, a row that is written stays locked to   *)
(* the others until the end, and the ORM writes only the columns that      *)
(* differ from the row as it was loaded.  What a transaction writes is     *)
(* kept aside here and applied when it commits; what the bank took and     *)
(* what the user was told stays when it does not.  A tick of the clock is  *)
(* some time that passes; no two readings of it are the same.              *)
(***************************************************************************)
EXTENDS SubscriptionRows

CONSTANTS Jobs,      \* runs of the job that find the user due
          Webhooks,  \* success callbacks of verified cards, each with its card
          Cancels,   \* confirmations of the cancel button
          Grants,    \* approvals and promotions that give free access
          OldCard,   \* the card on file to begin with, if there is one
          Rows,      \* rows the user may have to begin with
          Duration,  \* subscription_duration_days
          Attempts   \* _MAX_ATTEMPTS of the bank's client

ASSUME BillingTxnAssumption ==
    /\ Rows \subseteq Row /\ Duration \in Nat \ {0} /\ Attempts \in Nat \ {0}
    /\ OldCard \notin Webhooks
    /\ Jobs \cap Webhooks = {} /\ Jobs \cap Cancels = {} /\ Jobs \cap Grants = {}
    /\ Webhooks \cap Cancels = {} /\ Webhooks \cap Grants = {} /\ Cancels \cap Grants = {}

Txns  == Jobs \cup Webhooks \cup Cancels \cup Grants
Cards == Webhooks \cup {OldCard}

Step    == {"begin", "card", "tokens", "row", "insert", "bank", "mark", "write",
            "tell", "end", "ended"}
Outcome == {"none", "paid", "refused"}

\* at: what the transaction does next; loaded, wanted: the row as the ORM loaded
\* it and as the transaction leaves it; drops: the cards it deactivates; left:
\* requests to the bank it may still send; made: it has inserted the row; locks:
\* what it has written.
Transaction == [at : Step, now : Time, loaded : Row, wanted : Row,
                drops : SUBSET Cards, left : 0..Attempts, outcome : Outcome,
                made : BOOLEAN, locks : SUBSET {"row", "tokens"}]

Blank == [at |-> "begin", now |-> None, loaded |-> NoRow, wanted |-> NoRow,
          drops |-> {}, left |-> Attempts, outcome |-> "none", made |-> FALSE, locks |-> {}]

VARIABLES clock,   \* the time
          row,     \* the user's row of subscriptions, as committed
          active,  \* the user's active payment tokens, as committed
          txn,     \* where each transaction stands
          taken,   \* charges the bank has made, modulo 2
          told     \* cancellations the user was told about

vars == <<clock, row, active, txn, taken, told>>

Open(t) == txn[t].at \notin {"begin", "ended"}

TypeOK ==
    /\ clock \in Nat /\ row \in Row /\ active \subseteq Cards
    /\ txn \in [Txns -> Transaction]
    /\ taken \in 0..1 /\ told \subseteq Cancels

\* A subscription that is to be charged has its card on file.
Init ==
    /\ clock = 1
    /\ row \in Rows
    /\ active = IF row.next = None THEN {} ELSE {OldCard}
    /\ txn = [t \in Txns |-> Blank]
    /\ taken = 0 /\ told = {}

-----------------------------------------------------------------------------
(***************************************************************************)
(* What the transactions have in common.                                   *)
(***************************************************************************)

\* A cancellation that writes the row first and the cards last.
Faulty_AfterRowFirst(t, step) ==
    CASE step = "begin" -> IF t \in Jobs THEN "card" ELSE IF t \in Webhooks THEN "tokens"
                           ELSE IF t \in Cancels THEN "mark" ELSE "row"
      [] step = "card"   -> "bank"
      [] step = "tokens" -> IF t \in Cancels THEN "tell" ELSE "row"
      [] step = "row"    -> "insert"
      [] step = "insert" -> IF t \in Webhooks THEN "bank" ELSE "mark"
      [] step = "bank"   -> "mark"
      [] step = "mark"   -> "write"
      [] step = "write"  -> IF t \in Cancels THEN "tokens" ELSE "end"
      [] OTHER           -> "end"

\* A webhook that charges before it makes sure of the row.
Faulty_AfterChargesFirst(t, step) ==
    CASE step = "begin" -> IF t \in Jobs THEN "card" ELSE IF t \in Grants THEN "row"
                           ELSE "tokens"
      [] step = "card"   -> "bank"
      [] step = "tokens" -> IF t \in Cancels THEN "mark" ELSE "bank"
      [] step = "row"    -> "insert"
      [] step = "insert" -> "mark"
      [] step = "bank"   -> IF t \in Webhooks THEN "row" ELSE "mark"
      [] step = "mark"   -> "write"
      [] step = "write"  -> IF t \in Cancels THEN "tell" ELSE "end"
      [] OTHER           -> "end"

\* The order of the statements of process_due_charge, handle_authorization_result,
\* cancel, and the two grants.
After(t, step) ==
    CASE step = "begin" -> IF t \in Jobs THEN "card" ELSE IF t \in Grants THEN "row"
                           ELSE "tokens"
      [] step = "card"   -> "bank"
      [] step = "tokens" -> IF t \in Cancels THEN "mark" ELSE "row"
      [] step = "row"    -> "insert"
      [] step = "insert" -> IF t \in Webhooks THEN "bank" ELSE "mark"
      [] step = "bank"   -> "mark"
      [] step = "mark"   -> "write"
      [] step = "write"  -> IF t \in Cancels THEN "tell" ELSE "end"
      [] OTHER           -> "end"

\* t goes on to its next step with its record changed to r.
Advance(t, r) == txn' = [txn EXCEPT ![t] = [r EXCEPT !.at = After(t, txn[t].at)]]

Finish(t) == txn' = [txn EXCEPT ![t] = [Blank EXCEPT !.at = "ended"]]

\* A row that is not committed is seen by the transaction that made it.
Seen(t) == IF txn[t].made THEN GetOrCreate(NoRow) ELSE row

RowFree(t) == \A s \in Txns \ {t} : "row" \notin txn[s].locks

TokensFree(t) ==
    \A s \in Txns \ {t} : "tokens" \in txn[s].locks => txn[s].drops \cap txn[t].drops = {}

Changes(t) == txn[t].wanted # txn[t].loaded

\* deactivate_all_for_user.  A token that another transaction has deactivated
\* is waited for, and deactivated again.
DropCards(t) ==
    /\ txn[t].at = "tokens" /\ TokensFree(t)
    /\ Advance(t, [txn[t] EXCEPT !.locks = @ \cup {"tokens"}])
    /\ UNCHANGED <<clock, row, active, taken, told>>

\* SubscriptionRepository.get_or_create looks for the row,
LoadRow(t) ==
    /\ txn[t].at = "row"
    /\ Advance(t, [txn[t] EXCEPT !.loaded = row])
    /\ UNCHANGED <<clock, row, active, taken, told>>

\* and inserts it where it found none, after any other insert has ended,
InsertRow(t) ==
    /\ txn[t].at = "insert"
    /\ \/ /\ txn[t].loaded.status # Absent
          /\ Advance(t, txn[t])
       \/ /\ txn[t].loaded.status = Absent /\ row.status = Absent /\ RowFree(t)
          /\ Advance(t, [txn[t] EXCEPT !.made = TRUE, !.loaded = GetOrCreate(NoRow),
                                       !.locks = @ \cup {"row"}])
    /\ UNCHANGED <<clock, row, active, taken, told>>

\* and when that one was committed, the insert violates the unique user_id and
\* everything is rolled back.
InsertFails(t) ==
    /\ txn[t].at = "insert" /\ RowFree(t)
    /\ txn[t].loaded.status = Absent /\ row.status # Absent
    /\ Finish(t)
    /\ UNCHANGED <<clock, row, active, taken, told>>

\* The request of charge_subscription is answered.  A charge that is not confirmed
\* may have been made all the same.
BankAnswers(t) ==
    /\ txn[t].at = "bank"
    /\ \E outcome \in {"paid", "refused"} :
          /\ taken' \in IF outcome = "paid" THEN {1 - taken} ELSE 0..1
          /\ Advance(t, [txn[t] EXCEPT !.outcome = outcome])
    /\ UNCHANGED <<clock, row, active, told>>

\* Gives up when the last attempt has been made and its answer lost, and one later.
Faulty_AnswerLost(t) ==
    /\ txn[t].at = "bank" /\ taken' \in 0..1
    /\ \/ /\ txn[t].left > 0
          /\ txn' = [txn EXCEPT ![t].left = @ - 1]
       \/ /\ txn[t].left = 0
          /\ Advance(t, [txn[t] EXCEPT !.left = @ - 1, !.outcome = "refused"])
    /\ UNCHANGED <<clock, row, active, told>>

\* The answer is lost, or an HTTP error: sent again after a pause, until the last
\* attempt has been made.
AnswerLost(t) ==
    /\ txn[t].at = "bank" /\ taken' \in 0..1
    /\ \/ /\ txn[t].left > 1
          /\ txn' = [txn EXCEPT ![t].left = @ - 1]
       \/ /\ txn[t].left = 1
          /\ Advance(t, [txn[t] EXCEPT !.left = 0, !.outcome = "refused"])
    /\ UNCHANGED <<clock, row, active, told>>

CallBank(t) == BankAnswers(t) \/ AnswerLost(t)

\* The UPDATE waits until nobody else has written the row; when no column differs
\* there is none.
WriteRow(t) ==
    /\ txn[t].at = "write" /\ (Changes(t) => RowFree(t))
    /\ Advance(t, [txn[t] EXCEPT !.locks = IF Changes(t) THEN @ \cup {"row"} ELSE @])
    /\ UNCHANGED <<clock, row, active, taken, told>>

\* What t wrote becomes visible.
Commit(t) ==
    /\ txn[t].at = "end"
    /\ row' = IF txn[t].made THEN txn[t].wanted
              ELSE IF "row" \in txn[t].locks THEN Merge(row, txn[t].loaded, txn[t].wanted, {})
              ELSE row
    /\ active' = (active \ txn[t].drops) \cup ({t} \cap Webhooks)
    /\ Finish(t)
    /\ UNCHANGED <<clock, taken, told>>

\* A call to Telegram or a statement raises, or the process dies.
RollBack(t) ==
    /\ Open(t) /\ Finish(t)
    /\ UNCHANGED <<clock, row, active, taken, told>>

-----------------------------------------------------------------------------
(***************************************************************************)
(* The daily job: one run at a time, on a day on which the user is due.    *)
(* The row is loaded once, by the query for what is due, and kept.         *)
(***************************************************************************)

BeginJob(t) ==
    /\ txn[t].at = "begin" /\ \A s \in Jobs : ~ Open(s)
    /\ clock' = IF row.next > clock THEN row.next ELSE clock
    /\ Due(row, clock')
    /\ Advance(t, [txn[t] EXCEPT !.loaded = row])
    /\ UNCHANGED <<row, active, taken, told>>

\* Takes the card of a deactivated token as well.
Faulty_PickCard(t) ==
    /\ txn[t].at = "card"
    /\ Advance(t, txn[t])
    /\ UNCHANGED <<clock, row, active, taken, told>>

\* get_active_by_user.  Without a card charge_subscription raises, and nothing
\* goes to the bank.
PickCard(t) ==
    /\ txn[t].at = "card"
    /\ \/ active # {} /\ Advance(t, txn[t])
       \/ active = {} /\ txn' = [txn EXCEPT ![t].at = "mark", ![t].outcome = "refused"]
    /\ UNCHANGED <<clock, row, active, taken, told>>

MarkCharged(t) ==
    /\ txn[t].at = "mark"
    /\ Advance(t, [txn[t] EXCEPT
          !.now = clock,
          !.wanted = IF txn[t].outcome = "paid" THEN MarkActive(txn[t].loaded, clock, Duration)
                     ELSE MarkFailed(txn[t].loaded, clock)])
    /\ clock' = clock + 1
    /\ UNCHANGED <<row, active, taken, told>>

Job(t) == BeginJob(t) \/ PickCard(t) \/ CallBank(t) \/ MarkCharged(t) \/ WriteRow(t) \/ Commit(t)

-----------------------------------------------------------------------------
(***************************************************************************)
(* The webhook: the clock is read first; the row is loaded again for the   *)
(* update, since nothing keeps the object that get_or_create returned.     *)
(***************************************************************************)

BeginWebhook(t) ==
    /\ txn[t].at = "begin"
    /\ Advance(t, [txn[t] EXCEPT !.now = clock, !.drops = active])
    /\ clock' = clock + 1
    /\ UNCHANGED <<row, active, taken, told>>

MarkVerified(t) ==
    /\ txn[t].at = "mark"
    /\ Advance(t, [txn[t] EXCEPT
          !.loaded = Seen(t),
          !.wanted = IF txn[t].outcome = "paid" THEN MarkActive(Seen(t), txn[t].now, Duration)
                     ELSE FirstChargeFailed(Seen(t), txn[t].now)])
    /\ UNCHANGED <<clock, row, active, taken, told>>

Webhook(t) ==
    \/ BeginWebhook(t) \/ DropCards(t) \/ LoadRow(t) \/ InsertRow(t) \/ InsertFails(t)
    \/ CallBank(t) \/ MarkVerified(t) \/ WriteRow(t) \/ Commit(t)

-----------------------------------------------------------------------------
(***************************************************************************)
(* The cancellation.                                                       *)
(***************************************************************************)

BeginCancel(t) ==
    /\ txn[t].at = "begin"
    /\ Advance(t, [txn[t] EXCEPT !.drops = active])
    /\ UNCHANGED <<clock, row, active, taken, told>>

\* Without a row only the cards are written.
MarkCancelled(t) ==
    /\ txn[t].at = "mark"
    /\ \/ /\ row.status # Absent
          /\ Advance(t, [txn[t] EXCEPT !.loaded = row, !.wanted = CancelRow(row)])
       \/ /\ row.status = Absent
          /\ txn' = [txn EXCEPT ![t].at = "end"]
    /\ UNCHANGED <<clock, row, active, taken, told>>

\* on_cancel_subscription_confirm: told before the commit.
Tell(t) ==
    /\ txn[t].at = "tell"
    /\ told' = told \cup {t}
    /\ Advance(t, txn[t])
    /\ UNCHANGED <<clock, row, active, taken>>

Cancel(t) ==
    BeginCancel(t) \/ DropCards(t) \/ MarkCancelled(t) \/ WriteRow(t) \/ Tell(t) \/ Commit(t)

-----------------------------------------------------------------------------
(***************************************************************************)
(* The grants of permanent access.                                         *)
(***************************************************************************)

BeginGrant(t) ==
    /\ txn[t].at = "begin"
    /\ Advance(t, txn[t])
    /\ UNCHANGED <<clock, row, active, taken, told>>

\* A promotion writes to the row it loaded before it called Telegram, and leaves
\* permanent access alone; an approval loads the row again.
MarkGranted(t) ==
    /\ txn[t].at = "mark"
    /\ \/ /\ IsPermanent(txn[t].loaded)
          /\ txn' = [txn EXCEPT ![t].at = "end"]
          /\ UNCHANGED clock
       \/ /\ \E loaded \in {txn[t].loaded, Seen(t)} :
                Advance(t, [txn[t] EXCEPT !.loaded = loaded,
                                          !.wanted = GrantPermanent(loaded, clock)])
          /\ clock' = clock + 1
    /\ UNCHANGED <<row, active, taken, told>>

Grant(t) ==
    \/ BeginGrant(t) \/ LoadRow(t) \/ InsertRow(t) \/ InsertFails(t) \/ MarkGranted(t)
    \/ WriteRow(t) \/ Commit(t)

-----------------------------------------------------------------------------

Next ==
    \/ \E t \in Jobs : Job(t)
    \/ \E t \in Webhooks : Webhook(t)
    \/ \E t \in Cancels : Cancel(t)
    \/ \E t \in Grants : Grant(t)
    \/ \E t \in Txns : RollBack(t)

Spec == Init /\ [][Next]_vars

-----------------------------------------------------------------------------
(***************************************************************************)
(* Properties                                                              *)
(***************************************************************************)

\* Whoever is charged gets the period: when the transaction of a confirmed charge
\* commits, the period starts at its mark and is renewed at its end, whatever has
\* been committed since it loaded the row (_mark_active, subscription_service.py:67).
ChargeBuysPeriod ==
    [][\A t \in Jobs \cup Webhooks : txn[t].outcome = "paid" /\ Commit(t) =>
          /\ row'.start = txn[t].now
          /\ row'.end = txn[t].now + Duration
          /\ row'.next = row'.end]_vars

\* The database never refuses what was charged for: the insert that can violate
\* the unique user_id is over before the bank is called (payment_service.py:127).
ChargedIsNotRefused ==
    [][\A t \in Txns : InsertFails(t) => txn[t].outcome = "none"]_vars

\* No circle of transactions that wait for each other's rows and cards, although
\* locks are held through calls to the bank and to Telegram: while any are open,
\* one of them need not wait.  Each has finitely many steps, so all of them end.
Waits(t) ==
    \/ txn[t].at = "tokens" /\ ~ TokensFree(t)
    \/ txn[t].at = "insert" /\ txn[t].loaded.status = Absent /\ ~ RowFree(t)
    \/ txn[t].at = "write" /\ Changes(t) /\ ~ RowFree(t)

NoDeadlock == (\E t \in Txns : Open(t)) => \E t \in Txns : Open(t) /\ ~ Waits(t)

\* A withdrawn card costs its owner at most the requests that a job sends for the
\* charge it had begun, as many as the client has attempts; so does a card that is
\* presented, whatever becomes of its transaction (monobank_client.py:105).
Requests(t) == CASE txn[t].at \in {"begin", "tokens", "row", "insert"} -> Attempts
                 [] txn[t].at = "bank" -> txn[t].left
                 [] OTHER -> 0

Mandate == INSTANCE PickedMandate WITH
    Collectors <- Jobs, Presenters <- Webhooks,
    onFile <- active # {},
    picked <- [t \in Jobs |-> IF txn[t].at = "bank" THEN txn[t].left ELSE 0],
    due    <- [t \in Webhooks |-> Requests(t)],
    filing <- {t \in Webhooks : txn[t].at # "ended"},
    taken  <- taken

ChargesPickMandate == Mandate!Spec

-----------------------------------------------------------------------------
(***************************************************************************)
(* What the repository says of the program and the program does not do.    *)
(***************************************************************************)

\* payment_flow.py:112 "no new automatic charge will be made": once the user was
\* told and no card is on file, the job takes nothing.
CancelledIsNotCharged ==
    [][\A t \in Jobs : told # {} /\ active = {} /\ CallBank(t) => taken' = taken]_vars

\* subscription_service.py:104 "Deactivating the card token is what actually prevents
\* any further charge": no card stays active when a cancellation that found the
\* subscription, and that the user was told about, commits.
CancelWithdrawsCards ==
    [][\A t \in Cancels : t \in told /\ Commit(t) => active' = {}]_vars

\* subscription_service.py:100 "Stop future auto-renewal": a cancellation the user
\* was told about leaves the subscription cancelled when it commits.
CancelCancels ==
    [][\A t \in Cancels : t \in told /\ Commit(t) => row'.status = "CANCELLED"]_vars

\* users.py:167 "free, permanent community access": what a committed grant leaves.
GrantIsPermanent ==
    [][\A t \in Grants : Commit(t) => IsPermanent(row')]_vars
=============================================================================
