# Psychologists Club bot: a TLA+ model

The repository is a Telegram bot that admits people to a closed community chat. An applicant fills
in a questionnaire and uploads documents, an admin reviews them, the applicant confirms a card with
Monobank and is charged, and a daily job renews, retries, suspends and expires subscriptions. In
the chat the bot counts 👍/👎 reactions as karma, shows it in a tag next to the member's name, and
removes links. Admins run all of it from dialogs in the bot. This directory models it in TLA+. TLC checks the
models on small instances, and TLAPS proves the main results for every value of the constants.

Paths below are relative to `src/app/`.

## 1. Inventory

| Part | State | Operations | What is hard about it |
|---|---|---|---|
| Billing (`services/subscription_service.py`, `payments/payment_service.py`) | `subscriptions`, `payment_tokens`, `payments` | confirm card, charge, mark active / failed, cancel, grant permanent access | two clocks in one run, rows left half-updated by a grant, charges the database forgets |
| Webhook (`payments/webhook_handler.py`) | none of its own | one handler for every callback | repeated, late and reordered delivery; failure after the charge |
| Daily job (`scheduler/`) | none (in-memory schedule) | charge due, expire cancelled, remind | one transaction over all users, listed before any of them is charged; missed and abandoned runs |
| Chat access (`services/access_service.py`) | Telegram's: links, membership, bans | create / revoke link, kick, tag | two-call kick, links not on record, errors that are only logged |
| Review (`admin/handlers/applications.py`) | `applications`; admin FSM in Redis | approve, reject, request documents, wrong status | two admins on one application; a comment typed after the decision was overtaken |
| Onboarding (`handlers/questionnaire.py`, `documents.py`, `start.py`) | `users`, `applications`, `documents`; applicant FSM in Redis | start, verify, questionnaire, upload, done | FSM and database are not one transaction; `/start` forgets the conversation |
| Karma (`handlers/karma.py`, `services/karma_service.py`) | `karma_votes`, `karma_statistics`, `message_feedback` | track message, apply reaction change | handlers overlap, read-modify-write without locks, dropped updates |
| Sessions (`middlewares/database.py`, `database/engine.py`) | one transaction per update | commit, rollback | READ COMMITTED, stale ORM objects, row locks held across network calls |
| Monobank client (`payments/monobank_client.py`) | cached public key | request with retries | a retried charge is not idempotent |
| Throttling (`middlewares/throttling.py`) | Redis keys | drop or pass an update | it drops reactions, messages with links, joins and button presses |
| Member tags (`services/access_service.py`, `handlers/chat_member.py`, `/sync_tags`) | Telegram's: the tags shown | set a tag for a reaction, a change of role, a join, everybody | a copy of two columns, written before the commit, after pauses, by overlapping handlers |
| Moderation (`handlers/link_moderation.py`) | tasks in memory | remove a message, warn, take the warning away, hand the message on | four calls that can fail; routers before it take messages; a restart loses the tasks |
| Admin panel (`admin/handlers/settings.py`, `users.py`, `broadcast.py`, `handlers/common.py`) | admin FSM in Redis; `settings`, `users.is_admin`, `is_banned` | dialogs, rights, bans, broadcast, contact form | a dialog outlives the rights it was begun with; a broadcast runs for minutes |
| Notifications, reminders, admin views | little or none | send, show | sequential loops with per-item error handling |

How they interact: Telegram updates and Monobank callbacks arrive concurrently in one asyncio
process. Each opens its own database session. The job runs in the same process. They share the
tables, the Redis FSM (an admin's handler writes the applicant's conversation), the bank, and the
chat. A message in the chat passes the throttle, then the routers in turn: commands and dialogs, moderation,
karma; a reaction to it
changes its author's karma and tag; the role in the tag comes from the questionnaire and from the
panel, and the panel also says which chat all this is about.

What makes each part correct:

* billing: nobody is charged without a card that is on file or that the bank has just confirmed; a
  subscription that is cancelled costs nothing; one that must be charged is never lost; whoever is
  paid up is not put out;
* review: a decision on record was told to its owner; a decided application comes back only on
  request; documents reach their own application; a request for documents can always be answered;
* karma: votes mirror the reactions shown in the chat, totals count the votes, a badly received
  message is reported;
* sessions: concurrent transactions finish; whoever pays has the period on record whatever else
  committed meanwhile; a card that is withdrawn costs no more than the charge that had begun;
* tags: what a handler leaves in the chat is what the database says when it commits;
* moderation: of what it gets to see, what breaks the rules is removed and nothing else is, and what is
  removed is not voted on;
* panel: rights are looked at when something is done, not when it was begun; a broadcast reports
  what has happened.

## 2. Modules

| Module | Models |
|---|---|
| `SubscriptionRows` | the row of `subscriptions` and the pure updates and queries on it; the clock |
| `CardMandate` | abstract specification: when money may be taken from a card holder |
| `Subscriptions` | the core: handlers, webhook, job and chat access, as transactions that stay open while the bank and Telegram answer |
| `Subscriptions_proofs` | the theorems about it |
| `Applications` | onboarding and review: conversations, applications, overlapping handlers |
| `Applications_proofs` | the theorems about it |
| `Karma` | reaction handlers as overlapping transactions, and the tables they keep |
| `Karma_proofs` | the theorems about it |
| `PickedMandate` | abstract specification: `CardMandate` when collecting takes time |
| `BillingTxn` | the job, the webhook, the cancellation and the grants of one user, statement by statement, overlapping |
| `BillingTxn_proofs` | the theorems about it |
| `Records` | the columns of `users` and `settings` that the next three modules share |
| `MemberTags` | the tags in the chat and the handlers that set them |
| `Moderation` | what becomes of a message in the chat |
| `AdminPanel` | the admins' dialogs, rights, broadcasts, and the contact form |
| `MemberTags_proofs`, `Moderation_proofs`, `AdminPanel_proofs` | lemmas: what each part's steps keep true, whatever the others do in between |
| `Community` | the composition of `MemberTags`, `Moderation` and `AdminPanel`, with restarts |
| `Community_proofs` | the theorems about it and its parts |
| `MCSubscriptions`, `MCApplications`, `MCKarma`, `MCBillingTxn`, `MCCommunity` | instances for TLC |

`Subscriptions` refines `CardMandate`, and `BillingTxn`, which uses the same updates of the row from
`SubscriptionRows`, refines `PickedMandate`. `Applications` and `Subscriptions` meet in one action: `Approve`
of the former says when an application can be approved, `Approve` of the latter what that does to the
subscription. `Karma` reads only whether a member is verified, which it lets change at any time; what
a vote does to the karma is its matter, and `MemberTags` takes it as a change by one.

### 2.1 The core, `Subscriptions`

A transaction that writes a subscription is several steps: a Telegram handler under
`DatabaseMiddleware`, a webhook request, or a phase of the job under `session_scope` loads rows, waits for
the bank and for Telegram, and commits or is rolled back; others commit in between. (A handler that writes
no subscription is one step.) What a step has read is what its commit goes by: the commit writes the
columns that differ from the row as it was loaded (`Merge`), as the ORM does. What the bank or Telegram
did is not undone by a rollback (`RollBack`, `RunAborts`, `ConfirmRollsBack`).

| Variable | Code |
|---|---|
| `rows` | `subscriptions` without `invite_link` (status, trial_end, start, end, next_charge_at, retry_count), as committed |
| `card` | the user has an active row in `payment_tokens` |
| `door` | `invite_link` and Telegram's view: whether the link works, other links sent, membership, ban |
| `invoice` | AUTHORIZATION rows of `payments`; `lost` when the row was rolled back after the page was shown |
| `bank`, `left` | the bank's view of each invoice; callbacks still to be delivered |
| `taken`, `recorded` | money taken (parity of steps); time of the last charge recorded as SUCCESS |
| `role`, `prompted`, `cancelPrompt` | whether the role has a price; who holds a pay or cancel button |
| `day`, `job`, `faults` | calendar, phase of today's run, runs lost so far |
| `chat`, `duration` | `community_chat_id` set; `subscription_duration_days` |
| `run` | the job's open transaction: settings and rows as it loaded them, how far it is with each user |
| `txn[h]` | the open transaction of a webhook, cancellation, approval or promotion: row and clock as it has them, the bank's answer, what it will do to the cards, its next step |
| `crossed` | history: the users whom one transaction had in hand while another one committed them |

The job is `ListDue` (jobs.py:35: the users and their rows, once), `ChargeDue` and `FollowUp` for each of them,
in any order, and `CommitCharges`; then `ListExpired`, `ExpireCancelled` for each, and `CommitExpired`. A
webhook is `WebhookCharges` (which stores the card), `BankAnswers` (after which the row is loaded),
`GiveLink`, `Commit`; a cancellation, an approval and a promotion start likewise, without the bank. The
locks of the database are not modelled here: every order they allow is a behaviour, and some more are
(two transactions that both write one row may commit in either order, where the second would have waited).
`BillingTxn` has the locks.

Time counts two ticks per day: the instant at which the job reads its clock, and the rest of the
day. A mark the job writes is later than the clock it reads, which decides when the retry happens.

Abstracted: amounts, texts, card numbers, several tokens per user (only whether one is active
matters to `get_active_by_user`), reminders, notifications rows, and the number of times the
client's retries take a charge within one step (`BillingTxn` has them one by one).

Properties:

* `InertWithoutSubscription`, `PaidPeriodOnRecord`, `RetryScheduled` relate the row to the card, to
  the money on record, and to the clock, after any sequence of handlers, for every user outside `crossed`.
* `PaidUpNeverExpelled` (action property): the job removes no member outside `crossed` who is inside a
  paid period, or in permanent access with no charge date left over, however long ago it made its list.
* `ChargesFollowMandate` is `CardMandate!Spec` under `mandate <- card`, `confirmed <- Confirmed`, for everybody.
* `DueIsTried` (liveness): a subscription that is due is tried, or stops being due, if enough days are
  left to outlast the lost runs.

Why `crossed`: the code lets the job, a webhook and a cancellation of one user overlap, and then the first
four properties are false of it. TLC finds, when `crossed` is taken out of them:

* `InertWithoutSubscription`: a cancellation commits CANCELLED and no charge date while the job waits for the
  bank; the job's UPDATE leaves the unchanged status out and adds a date. Or a cancellation that started
  before a webhook stored its card leaves that card active (`CancelWithdrawsCards` in section 5).
* `PaidPeriodOnRecord`: a grant that loaded the row before the job charged it writes its start over the
  start of the period, but not its missing end, which has not changed since the row was loaded.
* `RetryScheduled`: two cancellations and two webhooks later (a CANCELLED row with a date, charged in vain
  on the same day, while it is cancelled once more), a row is FAILED without a date.
* `PaidUpNeverExpelled`: a member who has paid since the list was made is put out by it (the run
  `subs_overtaken`), and so is a former subscriber who was granted access since.

So these properties say that nothing but an overlap on the same user breaks the rows: not the
overlap of different users in one run, no sequence, repetition, delay, rollback or lost run. What
the code does guarantee under overlap is in `BillingTxn`.

### 2.2 `Applications`

The conversation (`fsm`) is in Redis, the `applications` table in the database, and decisions go out
as messages. A rollback undoes only the second. Handlers that read the database and act on it later,
or act outside before they commit, are therefore several steps; `open` is the handler a person has
under way. There is one each: `ThrottlingMiddleware` drops what a person sends within 700 ms of the
last update. A handler that takes longer than that and overlaps with the same person's next one is
not modelled. Row locks are not modelled either: they order the commits of two handlers of one
application, and the steps here allow every order.

| Variable | Code |
|---|---|
| `apps` | owner, status and "has documents" of each row of `applications`; `lost` for an id whose insert was rolled back |
| `fsm` | state and `application_id` of each conversation; one per person, shared by the admin and the applicant in them |
| `open` | what `on_documents_done`, `on_approve` and `on_request_docs_comment` have read and not yet committed |
| `cards` | review messages with buttons an admin holds (capped: any of them can be pressed later) |
| `told` | how often the owner was told each decision |

Done is `Done` (reads the status), `AnswerDone` (clears the conversation, answers, sends cards) and
`EndDone` or `DoneRollsBack`; approval is `Approve` and `EndApprove` or `ApproveRollsBack`; a request for
documents is `RequestDocs` (writes the owner's conversation) and `EndRequest` or `RequestRollsBack`.

Properties: `UploadsToOwn` (documents never go to someone else's application), `DecisionTold`,
`ReopenedOnRequest` (action property) and `RequestsAnswered` (liveness: no dead end after a request for
documents). Abstracted: the content of the questionnaire and of the documents, the wording of the
four decisions (`reject_reason` and `wrong_status_comment` do the same to the state).

### 2.3 `Karma`

A handler of a reaction update is one transaction under READ COMMITTED, opened into the statements
that matter: the vote, the read of the author's statistics, the two writes, and the commit. What it
writes is a value computed from rows it loaded before (`expire_on_commit=False`, and a row held by the
session is not loaded again); a row it wrote stays locked until it ends, after its Telegram calls.

| Variable | Code |
|---|---|
| `reaction`, `updates` | Telegram: the reactions shown, the updates not yet handled |
| `verified`, `tracked` | who has an approved application; messages with a `message_feedback` row |
| `votes`, `stats`, `feedback` | the three tables as committed |
| `alerted` | messages the admins were alerted about |
| `open` | handlers under way: the steps still to do, the rows as loaded, the rows locked |
| `lost` | the votes (message and voter) of which an update was dropped, ignored or rolled back |
| `together` | the pairs of votes that had handlers under way at the same time |

Nothing keeps handlers apart, so the properties hold of everything but what a second handler has touched:

* `KarmaIsSum`: a member's karma is the sum over the member's messages, whatever is lost or fails and
  whatever else overlaps, until two handlers for those messages have overlapped (`Apart`).
* `TotalsMirror`, `AlertedAbove`: the totals of a message count its votes, and one above the threshold was
  reported, until one of its updates is lost or two of its handlers have overlapped (`Intact`).
* `VotesMirror`: a settled vote is the reaction the chat shows, however handlers of other votes, on the same
  message and author too, overlap or are lost, unless its own updates were lost or overlapped.
* `HandlersEnd` (liveness): handlers never wait for each other in a circle.
* `AlwaysMirror` and `RunningTotals` are the same without the exceptions, as the models' docstrings say, and
  are violated (section 5).

The tag next to the author's name is in `MemberTags`.

### 2.4 `BillingTxn`

Everything that writes one user's row of `subscriptions` or cards, opened up: `Jobs` are runs of the
daily job that find the user due, `Webhooks` success callbacks (each with the card it brings),
`Cancels` confirmations of the cancel button, `Grants` approvals and promotions. `After` is the order
of the statements of each. READ COMMITTED means: a statement sees what is committed and what its own
transaction wrote; a row that is written is locked to the others until the end; and the ORM writes
only the columns that differ from the row as loaded (`Merge`), which may be long out of date.

| Variable | Code |
|---|---|
| `row`, `active` | the user's row of `subscriptions` and active rows of `payment_tokens`, as committed |
| `txn[t].at` | the next statement of a transaction, or `"ended"` |
| `txn[t].loaded`, `wanted`, `made` | the ORM's row as loaded and as changed; whether this transaction inserted it |
| `txn[t].drops`, `locks` | tokens it deactivates; what it has written and therefore locked |
| `txn[t].left`, `outcome` | attempts of `_request` that remain; what the bank answered |
| `taken`, `told` | charges the bank has made (parity); cancellations the user was told about |
| `clock` | no two readings of it are the same, as timestamps have microseconds; `Retrying`, one of the rows to begin with, has a first charge that was refused at time 0, as the run has too few transactions to get there itself |

A webhook that is rolled back and delivered again is a second member of `Webhooks`; a job run that is
abandoned and repeated, a second member of `Jobs`.

Properties: `ChargeBuysPeriod` (the commit of a confirmed charge leaves its period and renewal date,
whatever has been committed since its row was loaded), `ChargedIsNotRefused` (the unique key never
rejects a transaction that has charged), `NoDeadlock`, and `ChargesPickMandate`, which is
`PickedMandate!Spec`: a job may charge only what it picked up while a card was on file, at most
`Attempts` times, and a card that is withdrawn costs nothing beyond that. `PickedMandate` lets a webhook file a
card after a cancellation; that a cancellation leaves no card is `CancelWithdrawsCards`, which is violated.

### 2.5 The community: `MemberTags`, `Moderation`, `AdminPanel`, `Community`

`MemberTags`: the tag is `<role> <karma>`; a handler reads both, may have to wait for Telegram, sets
the tag, and commits after that. Reactions to one author are ordered by the lock on the author's
statistics, which is held through the call; that is what `TagOnRecord` is about. A role that is
"changed" to the one the user has writes nothing and waits for nobody. `handler[h]` is what
the event loop has under way: its kind, its step, the rows as loaded, and two history fields that the
property needs (`shown`: whose tag it set; `alone`: with whom nobody but reactions interfered). The 16
characters of a tag hold every role with a karma of four characters; longer ones are left out.

`Moderation`: a message is dropped by the throttle, taken by a router that comes before moderation (`Take`:
commands, whoever sends them, and answers in a dialog that was opened in the chat), or looked at by
`CheckLinks`, which hands on what is sent in the name of a channel or by a bot before it looks for links. `at[m]`
is how far the handling of a message is; `visible`, `warnings` are Telegram's,
`tracked` is `message_feedback`, `cleanups` are the tasks that take warnings away, and `troubled`
remembers that a call for a message failed or an update was dropped. Which messages contain links
(`_find_link`), which are commands or in the name of a channel, and who is an administrator are constants.

`AdminPanel`: `dialog` is the FSM in Redis, whose state and data are two writes; `settings` says which
setting was changed; `mailing` is the loop of a broadcast. The rights are read when an update arrives
(`MayAnswer`). Conversations are those in the private chat.

`Community` puts them together: who joins is announced (a message to remove) and tagged; a message
that moderation handed on can be reacted to; the panel changes roles and says which chat is the
community's, which may become or stop being this one; `Restart` loses handlers, waiting updates, tasks
and broadcasts, and keeps the database and the dialogs.

Properties: `TagOnRecord`, `LinksRemoved` (with nothing in trouble, a message is in the chat if and
only if it is no notice, and has no link or is an administrator's, a channel's, or an earlier router's),
`RemovedNotTracked`, `WarningsPass`, `OnlyAdminsAct` (without rights nobody changes a setting or starts a
broadcast, whatever dialog is open), `ReportIsTrue` (each recipient gets one copy, and the counts add up
to the audience, through flood control and refusals).

## 3. Runs

| Run | Instance | Shows |
|---|---|---|
| `subs_one` | 1 new subscriber, 1 invoice, 1 handler beside the job, period of 1 day, 3 days, 1 lost run, fair | every property of the core |
| `subs_twice` | 1 subscriber, possibly in a legacy trial, 1 invoice, 1 handler beside the job, every callback delivered up to twice, 2 days | repeated and reordered callbacks; the life of a trial |
| `apps_review` | 2 admins, 1 applicant, 1 application, channel set, fair | every property of `Applications` |
| `apps_again` | an admin who also applies and a user, 2 applications, no channel | ids, owners and conversations are not mixed up |
| `karma_serial` | 3 members, 2 messages, 3 reactions, 1 handler at a time; anything can be lost | totals, karma and alerts, when updates are lost |
| `karma_overlap` | 3 members, 2 messages, 3 reactions, any 2 handlers at a time, fair | votes, totals, karma and alerts under overlap; no circular waiting |
| `billing_overlap` | 1 job run, 1 webhook, 1 cancellation, 1 grant, 3 attempts; no row, a subscriber, one whose new card was refused, or one who has cancelled | every property of `BillingTxn` |
| `community` | 2 members, one of them an admin, 2 roles, 6 messages, 2 handlers, five scenes | every property of the community's modules |
| `subs_overtaken`, `apps_forgotten`, `karma_first`, `billing_told` | the smallest instance that shows it | one disagreement each, section 5 |

Bounds:

* `MaxDay` ends the calendar, `MaxFaults` bounds lost runs, `MaxDeliveries` bounds deliveries of one
  callback. Three days are a trial that ends, its charge, a retry or a renewal, and an expiry;
  nothing in the code looks further back than one period. Rows, cards and doors of different users meet
  only in the job's run, which handles them one by one: one user is enough to see every overlap of the job
  with a handler, and the theorems are for every set of users.
  `Handlers` bounds the handlers under way beside the job: one in the runs, any number in the theorems;
  `BillingTxn` checks four transactions on one user. A handler is over within a day
  (`NothingLingers`; the calls to the bank and to Telegram time out), so it sees one run of the job begin at most.
  Liveness with several users, one of whom always fails, is neither checked nor proved.
* `MaxApp` bounds ids, `MaxCards` and `MaxTold` cap counts of which only "some" matters to the checked
  properties. One application and two admins are every conflict of decisions; a second application is
  needed only to mix up owners and "latest", which `apps_again` allows.
* `MaxReacts` bounds changes of reactions: three are a vote, a change of mind and its withdrawal, or
  two voters who go above the threshold of one, and one of them again. Two handlers are every pair: of
  the same vote, message or author, or of none of these.
* `billing_overlap` has one transaction of each kind: every pair of kinds overlaps in every order, and
  a third and a fourth can commit in between. `Attempts` is the code's. Two cards (the old one and the
  webhook's) are enough for "withdraws one, misses the other".
* `community`: `Budgets` bounds the events from outside (messages and joins, changes that set tags,
  buttons, restarts); what they set off is not bounded. A scene has most of its events in one part: two
  overlapping changes of tags with a message to react to, a member who joins and writes with one
  handler, three messages and a restart, three buttons and a restart (grant rights, open a dialog, take
  them away), and one event of each. A broadcast of an admin at a time. The messages are one without a
  link and one with a link of a member, a command with a link and a link in the name of a channel, a link
  of an administrator, and an announcement.

Deadlock is checked, except where everything is over at some point and TLC would report that: in
`Karma` once `MaxReacts` reactions are
handled, in `BillingTxn` once every transaction has ended, in `Community` once the budget is spent. `HandlersEnd` and `NoDeadlock` say that nothing is stuck before; a
transaction of `BillingTxn` has finitely many steps, so one that need not wait means that all end.

Fairness:

* `Subscriptions`: weak fairness of `NewDay`, of each step of the job (`ListDue`, `CommitCharges`,
  `ListExpired`, `CommitExpired`, and `ChargeDue`, `FollowUp`, `ExpireCancelled` for each user) and of what a
  handler under way does next (`BankAnswers`, `GiveLink` or `Commit`, per handler). APScheduler fires every day,
  the run it starts goes on, and the calls of a handler return or time out. Nobody is assumed to press a button,
  and the bank is not assumed to deliver anything.
* `Applications`: a handler under way ends (weak), commit or rollback, and a resubmission that is tried
  again and again does not always fail to commit (strong). The applicant of `RequestsAnswered` keeps
  trying: presses the verification button, sends a document and presses Done whenever that is possible
  often enough (strong, since `/start` and the admins keep taking the conversation away).
* `Karma`: weak fairness of each handler: the event loop runs it on whenever the database lets it.

## 4. Proofs

`Subscriptions_proofs` proves, for every set of users, invoices, handlers, durations and trial dates and
every bound, from `BillingAssumption` alone:

* `TypeCorrect` from `TypeInv == TypeOK /\ HandlersSound /\ InvoicesOwned`: a webhook writes the row of the
  owner its invoice names and adds a period its handler has read, so the types need to know what each
  handler under way is about (`Sound`), and that an invoice with a payments row has an owner;
* `IInvHolds`, and with it `InertHolds`, `PaidPeriodHolds` and `RetryScheduledHolds`, from `IInv`: `TypeInv`, the
  three row invariants (`RowInv`), what the job knows of the users on its list (`RunInv`: it charges with a period
  that was set, those on the charge list were due as it loaded them, those on the other one CANCELLED), and for
  every user outside `crossed` `InHand`: whoever has the user in hand has loaded the row as it still is, and a
  cancellation has seen the cards there are. `InHand` is why the steps between the read and the commit do no
  harm: every commit either finds nobody else with the user in hand or adds the user to `crossed`. The
  commits are classified per user (`RowStep`: the row is kept, paid, failed, cancelled or granted), and
  each part of the invariant is shown to survive each class;
* `PaidUpStays`: only `FollowUp` and `ExpireCancelled` put anyone out, and they go by the row as it was listed; a
  paid-up row is neither due nor cancelled, and by `InHand` the listed row is that one. It uses `IInv` (a
  period is renewed exactly when it ends, so a row that is due is not inside its period);
* `MandateImplemented`, without the exception of `crossed`: initial states and steps of the core map to those of
  `CardMandate`, or stutter.

`Applications_proofs` proves, for every number of people, admins and applications, from
`ApplicationsAssumption`:

* `TypeCorrect` and `UploadsToOwnHolds` from `OwnInv`, which adds `IdsNamed`: a conversation that takes
  documents names a real id, and a free id has no owner, so nobody's conversation is about the
  application the next insert creates;
* `DecisionToldHolds`, assuming `ChannelSet`. Each step is first described by what it does to an
  application (kept, created, resubmitted, decided and told) and by the fact that nothing told is
  forgotten (`StepKinds`); the induction is then about these descriptions only;
* `ReopenedOnRequestHolds` from `RequestsTold`: a resubmission writes what it decided when it read the
  status, so the invariant carries the request from that read to the commit.

`BillingTxn_proofs` proves, for every number of overlapping jobs, webhooks, cancellations and grants,
every period, number of attempts and row to begin with, from `BillingTxnAssumption`:

* `TypeCorrect`, `ChargedIsNotRefusedHolds` and `NoDeadlockHolds` from `TxnInv`, which says of each
  transaction what follows from the statement it is at (`Sound`: before the bank is called all attempts
  are left and nothing is paid, the tokens are locked only after they were written, the row only past the
  insert), and that one transaction at a time has written the row (`OneWriter`). The steps are described
  by `Moves`: one transaction gets a sound record and takes the row from nobody. `NoDeadlock` follows
  by cases: who holds the row waits for nothing; if nobody does, nor does the holder of a token;
* `MandateImplemented`: what a transaction may still collect depends on the statement it is at
  (`MandateEntries`), so a step either leaves the mandate as it is or is one step of `PickedMandate`;
* `ChargeBuysPeriodHolds`, under two hypotheses. An `UPDATE` skips a column whose new value is the one that
  was loaded, and then what somebody else has committed stays; so the period is on record only if none of
  its dates is among those of the row the charge starts from. `RowsBefore`: the row to begin with was
  written before the clock starts, with periods no longer than now (a shorter `subscription_duration_days`
  since then could make an old end and a new one coincide, to the microsecond). `Brief`: a webhook, which
  reads the clock first and its row last, takes less than a period minus the interval of a retry (29 days;
  for a webhook in progress a retry could otherwise be due exactly when its period ends), or these two are
  equal, as in the run. `PeriodInv` carries what makes the dates differ: everything in the row and in the
  records is from before the clock (`Before`), nothing anybody has loaded or wants has a date of the period
  of a webhook under way (`Distinct`), and what the job has loaded was due before its mark.

`Community_proofs` proves, for every set of members, roles, messages and handlers and every budget, from
the assumptions of the parts (`PanelAssumption`: finitely many members, since a broadcast counts them;
`TagsAssumption`: there is a member), the seven properties of the composition: `TypeCorrect`,
`TagOnRecordHolds`, `LinksRemovedHolds`, `RemovedNotTrackedHolds`, `WarningsPassHolds`, `ReportIsTrueHolds` and
`OnlyAdminsActHolds`. The parts share variables, so each part's module shows that its invariant survives
its own steps and names what it needs of the others' steps (which variables they leave alone, or that they
keep the types); `CommunityInv` is the conjunction, and one lemma per kind of step of `Community`
(a join, a reaction, a restart, ...) puts the parts together. What had to be added:

* to `TagOnRecord`: what a handler has loaded of a member whom nobody else had to do with is still so
  (`Current`), and of two reactions to one author one still waits to write (`Apart`), which is the lock on
  the author's row;
* to `LinksRemoved` and `RemovedNotTracked`: a message that waits for its turn is in the chat, and where it waits
  says whether it is exempt, a notice or for an earlier router (`OnItsWay`),
  and only one that has been dealt with has a row or a warning (`HandledOnly`);
* to `ReportIsTrue`: whom the loop has still to reach is a part of the audience and nobody in it has a
  copy, and the two counts add up to those it has passed.

`Karma_proofs` proves, from `KarmaAssumption` (finitely many members and messages, a natural threshold), for
any number of handlers, with or without lost updates (`Lossy`), rows of `karma_statistics` to begin with
(`HasRow`) and members who wait (`Patient`):

* `TypeCorrect`, and with it `TypeInv`: what a handler has still to do is an end of the list of its
  statements, and it has loaded the rows that its next statement uses;
* `KarmaIsSumHolds` from `SumInv`. `Seen` says that two handlers under way are in `together`, so of a message (or
  an author) that is `Apart` there is one handler at a time (`OneHandler`); `Loaded`: the rows such a handler
  has loaded are still the committed ones, so the difference it writes is the difference of the vote, in both
  tables. `KarmaIsSum` adds up over a set; that a sum over a finite set exists, is determined, and changes by
  what one element changes is proved by looking at a smallest set for which it would not (`SumStep`,
  `SumChanges`, `SumOfZeros`), as induction on sets is not available;
* `VotesMirrorHolds`, `TotalsMirrorHolds` and `AlertedAboveHolds` from `ChainInv`: as long as no update of a vote is
  lost or handled together with another one of it (`Clean`), those that wait form a chain from the recorded
  vote, or from the one a handler is about to record, to the reaction that is shown (`Chain`, `ChainAppend`,
  `ChainTail`), and with none left the two are equal (`ChainSettled`); a vote statement hits a row exactly when
  it changes something (`Sound`); the totals of an `Intact` message are the numbers of votes (`CountChanges`), and
  if its dislikes went above the threshold it was reported when they did (`Counted`).

Only model-checked: the liveness properties `DueIsTried`, `RequestsAnswered` and `HandlersEnd` (out of the
prover's reach), and the disagreements of section 5. Every other property of a passing run has a theorem;
those with a hypothesis beyond the modules' assumptions (`DecisionToldHolds`, `ChargeBuysPeriodHolds`) say so above.
A property that makes an exception of users, votes or messages makes the same one in its theorem.

## 5. Where the code and its own words disagree

Every `violation` run checks a sentence of the repository that the code does not keep; `PROJECT.json`
quotes the lines.

* `subs_overtaken`: "the subscription is valid until" its end, but the job puts out a member whose webhook has
  committed that period after the job made its list, if its own charge is refused.
* `billing_told`: "no new automatic charge will be made", and "deactivating the card token is what
  actually prevents any further charge", but a job that has picked the card up charges it.
* `apps_forgotten`: "submitted and under review" is what an applicant who pressed `/start` before the
  first document is told, although no admin knows of the application and nothing leads back to it.
* `karma_first`: the votes "always mirror" the reactions, but two first reactions to one author insert
  the same statistics row, and the second handler is rolled back with its vote. (With a row for every author,
  the same property is violated by a reaction that is withdrawn while its vote is being inserted: the delete
  sees committed votes only.)

The modules state further properties that TLC refutes when they are added to a run's configuration (of
`Subscriptions` with the bounds of `subs_overtaken`, and of the other modules with those of their passing runs,
where nothing else is said):

* `FreeRoleNeverCharged` (`Roles = {"priced", "free"}`, three days): "this role always gets free access, regardless
  of PAYMENT_REQUIRED" (`database/models/role.py:15`), but a change of role leaves the card and the charge date, and
  the job goes on charging.
* `PermanentAccessStays`: "free, permanent community access" (`admin/handlers/users.py:167`) keeps the old charge
  date, and the job charges by it, or takes the access away.
* `CancelledKeepsPaidPeriod` (a period of two days, three days): "access continues until whatever period was already
  paid for" (`services/subscription_service.py:100-103`), except for a former trial, whose `trial_end` is still consulted.
* `CancelWithdrawsCards`: "deactivating the card token is what actually prevents any further charge"
  (`services/subscription_service.py:104`), but a card that a webhook is storing meanwhile stays active.
* `RunningTotals`: "the running totals" of a message (`database/models/message_feedback.py:12`) lose a vote when two
  of its handlers overlap: both add to the row as they loaded it.
* `MembersLinksDeleted`: "delete link messages from non-admin members" (`handlers/link_moderation.py:75`), except those
  that are commands, or answers in a dialog, which an earlier router takes, and those in the name of a channel.
* `CancelCancels`: a cancellation the user was told about can leave another status, when the row was
  already cancelled in the version it loaded (nothing differs, so nothing is written) and a charge has
  committed since. `GrantIsPermanent`: a grant that overlaps with the job writes "no end" over a row
  that had none when it was loaded, that is, writes nothing, and the end the job set stays.
* `RetriedDaily`: the "daily retry job" retries every second day, because the mark is later than the
  clock the run started with (one legacy trial, no handlers and five days show it).
* `OneChargePerConfirmation` (callbacks delivered twice): a callback that is delivered again sets off another charge.
* `SuspendedStaysOut`: a suspended member can return through a link that was sent and never stored.
* `FreshLinkAdmits`: a link "to let the user rejoin" does not help whoever is still banned.
* `ApprovedOnce` (`MaxTold = 2`): two admins who hold the same card, or a comment typed before the approval and sent
  after it, let an owner be approved twice.
* `DoneMeansUnderReview`: Done for an application that has been decided answers "under review" and
  changes nothing.
* `DecisionTold` (`ChannelSet = FALSE`): the approval is recorded, and a user of a free role hears
  nothing.
* `TagsShowRecord`: "this command re-syncs everyone at once", but it uses the roles of its start and
  takes a second per member; and a questionnaire that overwrites the role sets no tag at all.
* `ContactIsHeard`: "your message was sent to the administrator", also when no call to an admin worked.

Met while modelling, without a sentence to hold against it: somebody who joins causes two updates at
the same moment, and the throttle drops one of them, so either the announcement stays or the tag is
missing (`DropJoin`); an open broadcast dialog takes any text, `/start` and `/settings` included, and
sends it to the audience; state and audience are two writes, and a missing audience means everyone; an
admin whose rights are gone is refused every message while the dialog is open, until the Back button;
updates that wait while the process is down are dropped at its start; a message with a link stays when it is
throttled or its removal fails, and is handed on to karma; and the rows that the job leaves of a user who was
committed by somebody else meanwhile (section 2.1).

## 6. Not modelled, and the plan

Not modelled: reminders and notifications (they send a message and write rows nothing reads), the
read-only admin views and the admin log, keyboards and texts, configuration, signature checks of the
webhook (a rejected request changes nothing), which texts are links, group conversations of admins,
and several broadcasts of one admin at a time.

The plan, in the order in which the modules were written: `Subscriptions` with `CardMandate`; `Applications`;
`Karma`; `BillingTxn` with `PickedMandate`; `MemberTags`, `Moderation`, `AdminPanel` and `Community`; the proofs
of each. Nothing of it is open. What could follow: several due users in one transaction of `BillingTxn`, with the locks
that the job holds on all of them (`Subscriptions` has the users, without the locks); two handlers of one person
in `Applications`; and group conversations of admins, which `Take` only stands for.
