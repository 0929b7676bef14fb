------------------------ MODULE Subscriptions_proofs ------------------------
(***************************************************************************)
(* Theorems about Subscriptions, for every number of users, invoices and   *)
(* overlapping handlers, every price period, trial date and bound.         *)
(***************************************************************************)
EXTENDS Subscriptions, TLAPS

(***************************************************************************)
(* The row updates, described once by the columns they produce.            *)
(***************************************************************************)

\* A successful charge yields a row of the right type that is ACTIVE from now
\* until one period later (SubscriptionService._mark_active).
LEMMA MarkActiveFacts ==
    ASSUME NEW row \in Row, NEW now \in Nat, NEW ticks \in Nat
    PROVE  LET r == MarkActive(row, now, ticks)
           IN /\ r \in Row
              /\ r.status = "ACTIVE" /\ r.start = now /\ r.end = now + ticks
              /\ r.next = now + ticks /\ r.retry = 0 /\ r.trialEnd = row.trialEnd
<1>1. now + ticks \in Nat
  OBVIOUS
<1>2. now + ticks \in Time /\ now \in Time
  BY <1>1 DEF Time
<1>3. "ACTIVE" \in Status \cup {Absent}
  BY DEF Status
<1> QED
  BY <1>2, <1>3 DEF MarkActive, Row

\* A refused renewal yields a FAILED row with its next attempt one interval away
\* (SubscriptionService._mark_failed).
LEMMA MarkFailedFacts ==
    ASSUME NEW row \in Row, NEW now \in Nat
    PROVE  LET r == MarkFailed(row, now)
           IN /\ r \in Row
              /\ r.status = "FAILED" /\ r.next = now + RetryTicks
              /\ r.trialEnd = row.trialEnd
<1>1. now + RetryTicks \in Time
  BY DEF Time, RetryTicks, TicksPerDay
<1>2. "FAILED" \in Status \cup {Absent}
  BY DEF Status
<1>3. row.retry + 1 \in Nat
  BY DEF Row
<1> QED
  BY <1>1, <1>2, <1>3 DEF MarkFailed, Row

\* A refused first charge does the same (PaymentService.handle_authorization_result).
LEMMA FirstChargeFailedFacts ==
    ASSUME NEW row \in Row, NEW now \in Nat
    PROVE  LET r == FirstChargeFailed(row, now)
           IN /\ r \in Row
              /\ r.status = "FAILED" /\ r.next = now + RetryTicks
              /\ r.trialEnd = row.trialEnd
<1>1. now + RetryTicks \in Time
  BY DEF Time, RetryTicks, TicksPerDay
<1>2. "FAILED" \in Status \cup {Absent}
  BY DEF Status
<1> QED
  BY <1>1, <1>2 DEF FirstChargeFailed, Row

\* Inserting a missing row changes only the status (SubscriptionRepository.get_or_create).
LEMMA GetOrCreateFacts ==
    ASSUME NEW row \in Row
    PROVE  /\ GetOrCreate(row) \in Row
           /\ GetOrCreate(row).trialEnd = row.trialEnd
           /\ GetOrCreate(row).next = row.next
BY DEF GetOrCreate, Row, Time, None, Status, Absent

\* Cancelling clears the next charge and nothing else but the status
\* (SubscriptionService.cancel).
LEMMA CancelRowFacts ==
    ASSUME NEW row \in Row
    PROVE  /\ CancelRow(row) \in Row
           /\ CancelRow(row).status = "CANCELLED" /\ CancelRow(row).next = None
           /\ CancelRow(row).trialEnd = row.trialEnd
BY DEF CancelRow, Row, Time, None, Status, Absent

\* A permanent grant is ACTIVE without an end date (_grant_free_permanent_access).
LEMMA GrantPermanentFacts ==
    ASSUME NEW row \in Row, NEW now \in Nat
    PROVE  LET r == GrantPermanent(row, now)
           IN /\ r \in Row
              /\ r.status = "ACTIVE" /\ r.end = None /\ r.trialEnd = row.trialEnd
BY DEF GrantPermanent, GetOrCreate, Row, Time, None, Status, Absent

\* An UPDATE of some columns leaves a row; if nobody has written the row since it
\* was loaded, it leaves the one that was meant (SubscriptionRepository.update).
LEMMA MergeFacts ==
    ASSUME NEW current \in Row, NEW loaded \in Row, NEW wanted \in Row, NEW stamped,
           "trialEnd" \notin stamped, wanted.trialEnd = loaded.trialEnd
    PROVE  /\ Merge(current, loaded, wanted, stamped) \in Row
           /\ Merge(current, loaded, wanted, stamped).trialEnd = current.trialEnd
           /\ current = loaded => Merge(current, loaded, wanted, stamped) = wanted
<1> DEFINE merged == Merge(current, loaded, wanted, stamped)
           Columns == {"status", "trialEnd", "start", "end", "next", "retry"}
<1>1. DOMAIN current = Columns
  BY DEF Row
<1>2. merged = [c \in Columns |-> IF c \in stamped \/ wanted[c] # loaded[c] THEN wanted[c]
                                 ELSE current[c]]
  BY <1>1 DEF Merge
<1>3. merged = [status |-> merged.status, trialEnd |-> merged.trialEnd, start |-> merged.start,
                end |-> merged.end, next |-> merged.next, retry |-> merged.retry]
  BY <1>2
<1>4. merged.status \in Status \cup {Absent} /\ merged.trialEnd \in Time /\ merged.start \in Time
  BY <1>2 DEF Row
<1>5. merged.end \in Time /\ merged.next \in Time /\ merged.retry \in Nat
  BY <1>2 DEF Row
<1>6. merged.trialEnd = current.trialEnd
  BY <1>2
<1>7. ASSUME current = loaded PROVE merged = wanted
  <2>1. wanted = [c \in Columns |-> wanted[c]]
    BY DEF Row
  <2>2. merged = [c \in Columns |-> wanted[c]]
    BY <1>2, <1>7
  <2> QED
    BY <2>1, <2>2
<1> HIDE DEF merged
<1>8. merged \in Row
  BY <1>3, <1>4, <1>5 DEF Row
<1> QED
  BY <1>6, <1>7, <1>8 DEF merged

\* The chat-side updates stay within Door, and only an expulsion makes a member
\* leave (AccessService).
LEMMA DoorFacts ==
    ASSUME NEW d \in Door
    PROVE  /\ SendLink(d) \in Door /\ SendLink(d).member = d.member
           /\ Expelled(d) \subseteq Door
<1>1. SendLink(d) \in Door /\ SendLink(d).member = d.member
  BY DEF Door, SendLink
<1>2. \A e \in Door : RevokeStored(e) \subseteq Door
  BY DEF Door, RevokeStored
<1>3. Kick(d) \subseteq Door
  BY DEF Door, Kick
<1>4. Expelled(d) \subseteq Door
  BY <1>2, <1>3 DEF Expelled
<1> QED
  BY <1>1, <1>4

\* The instants of a day are natural numbers, None is not.
LEMMA HereFacts ==
    ASSUME day \in 0..MaxDay
    PROVE  /\ Here \in Nat /\ Here # None /\ JobInstant(day) \in Nat
           /\ JobInstant(day) < Here
BY BillingAssumption DEF Here, RestOfDay, JobInstant, TicksPerDay, None, BillingAssumption

-----------------------------------------------------------------------------
(***************************************************************************)
(* Types.  A webhook writes the row of an owner that its invoice names,    *)
(* and with a period that its handler has read, so the types need to know  *)
(* what a handler under way is about.                                      *)
(***************************************************************************)

\* The bank presents an authorisation of u.
Resolved(u) == \E i \in Invoices : invoice[i].user = u /\ CarriesToken(i)

\* A handler under way.
Sound(t) ==
    /\ t.at # "idle" /\ t.user \in Users
    /\ t.since \in Nat /\ t.since <= Here
    /\ t.outcome = "paid" => t.kind = "webhook" /\ t.duration \in Durations
    /\ t.cards = "file" <=> t.kind = "webhook"
    /\ t.at = "bank" => t.kind = "webhook"
    /\ t.kind = "webhook" => Resolved(t.user)

AtEase(t) == t.at = "idle" /\ t.user = Nobody

HandlersSound == \A h \in Handlers : AtEase(txn[h]) \/ Sound(txn[h])

\* An invoice with a payments row has an owner; nothing has become of one that
\* was not opened.
InvoicesOwned ==
    \A i \in Invoices : /\ invoice[i].status = "kept" => invoice[i].user \in Users
                        /\ invoice[i].status = "unused" => bank[i] = "open"

TypeInv == TypeOK /\ HandlersSound /\ InvoicesOwned

\* The empty row and a handler at rest are well typed.
LEMMA RestTypes == NoRow \in Row /\ AtRest \in Handling /\ AtEase(AtRest)
<1>1. NoRow \in Row
  BY DEF NoRow, Row, Time, None, Absent
<1>2. AtRest \in Handling
  BY <1>1 DEF AtRest, Handling, Kind, Time
<1> QED
  BY <1>1, <1>2 DEF AtRest, AtEase

\* The initial states are well typed and nothing is under way.
LEMMA TypeInvInit == Init => TypeInv
<1> SUFFICES ASSUME Init PROVE TypeInv
  OBVIOUS
<1>1. rows \in [Users -> Row]
  <2>1. ASSUME NEW t \in TrialEnds PROVE LegacyTrial(t) \in Row
    <3>1. t \in Time
      BY BillingAssumption DEF BillingAssumption, Time
    <3>2. NoRow \in Row /\ "TRIAL" \in Status \cup {Absent}
      BY RestTypes DEF Status
    <3>3. PICK r \in Row : r = [NoRow EXCEPT !.status = "TRIAL"]
      BY <3>2 DEF Row
    <3>4. PICK q \in Row : q = [r EXCEPT !.trialEnd = t]
      BY <3>1, <3>3 DEF Row
    <3>5. [q EXCEPT !.next = t] \in Row
      BY <3>1, <3>4 DEF Row
    <3> QED
      BY <3>3, <3>4, <3>5 DEF LegacyTrial
  <2>2. rows \in [Users -> {NoRow} \cup {LegacyTrial(t) : t \in TrialEnds}]
    BY DEF Init
  <2>3. {NoRow} \cup {LegacyTrial(t) : t \in TrialEnds} \subseteq Row
    BY <2>1, RestTypes
  <2> QED
    BY <2>2, <2>3
<1>2. card \in [Users -> BOOLEAN] /\ prompted \subseteq Users
  BY DEF Init
<1>3. door \in [Users -> Door]
  BY <1>2 DEF Init, Door
<1>4. run \in Run
  BY RestTypes DEF Init, NoRun, Run, Progress
<1>5. txn \in [Handlers -> Handling] /\ HandlersSound
  BY RestTypes DEF Init, HandlersSound
<1>6. role \in [Users -> Role]
  BY BillingAssumption DEF Init, BillingAssumption, Role
<1>7. /\ day \in 0..MaxDay /\ job \in Phase /\ faults \in 0..MaxFaults
      /\ chat \in BOOLEAN /\ duration \in Durations
      /\ invoice \in [Invoices -> [user : Users \cup {Nobody}, status : PayState]]
      /\ bank \in [Invoices -> BankView] /\ InvoicesOwned
  BY BillingAssumption DEF Init, BillingAssumption, Phase, PayState, BankView, InvoicesOwned
<1>8. left \in [Invoices -> [Callback -> 0..MaxDeliveries]]
  BY BillingAssumption DEF Init, BillingAssumption
<1>9. taken \in [Users -> 0..1] /\ recorded \in [Users -> Time]
  BY DEF Init, Time
<1> QED
  BY <1>1, <1>2, <1>3, <1>4, <1>5, <1>6, <1>7, <1>8, <1>9 DEF Init, TypeInv, TypeOK

\* What a handler is about stays true while the clock, the owners of resolved
\* invoices and what the bank has confirmed do not go back.
LEMMA SoundKept ==
    ASSUME NEW t, Sound(t), Here' >= Here,
           \A i \in Invoices : CarriesToken(i) =>
               CarriesToken(i)' /\ invoice'[i].user = invoice[i].user,
           Here \in Nat, Here' \in Nat
    PROVE  Sound(t)'
<1>1. Resolved(t.user) => Resolved(t.user)'
  BY DEF Resolved
<1>2. t.since \in Nat /\ t.since <= Here'
  BY DEF Sound
<1> QED
  BY <1>1, <1>2 DEF Sound

\* The same for every handler, when none of them takes a step.
LEMMA HandlersKept ==
    ASSUME TypeInv, Here' >= Here, Here' \in Nat, txn' = txn,
           \A i \in Invoices : CarriesToken(i) =>
               CarriesToken(i)' /\ invoice'[i].user = invoice[i].user
    PROVE  HandlersSound'
<1>1. Here \in Nat
  BY HereFacts DEF TypeInv, TypeOK
<1>2. ASSUME NEW h \in Handlers PROVE (AtEase(txn[h]) \/ Sound(txn[h]))'
  <2>1. CASE AtEase(txn[h])
    BY <2>1 DEF AtEase
  <2>2. CASE Sound(txn[h])
    <3>1. Sound(txn[h])'
      BY <1>1, <2>2, SoundKept DEF Sound, Resolved
    <3> QED
      BY <3>1
  <2> QED
    BY <2>1, <2>2 DEF TypeInv, HandlersSound
<1> QED
  BY <1>2 DEF HandlersSound

\* The handler that takes a step is sound or at rest after it, the others are
\* left alone.
LEMMA HandlerMoved ==
    ASSUME TypeInv, NEW h \in Handlers, NEW t \in Handling, AtEase(t) \/ Sound(t),
           txn' = [txn EXCEPT ![h] = t], UNCHANGED <<day, bank, invoice>>
    PROVE  txn' \in [Handlers -> Handling] /\ HandlersSound'
<1>1. txn' \in [Handlers -> Handling]
  BY DEF TypeInv, TypeOK
<1>2. ASSUME NEW g \in Handlers PROVE (AtEase(txn[g]) \/ Sound(txn[g]))'
  <2>1. PICK x : x = txn'[g]
    OBVIOUS
  <2>2. AtEase(x) \/ Sound(x)
    BY <2>1 DEF TypeInv, TypeOK, HandlersSound
  <2>3. Sound(x) => Sound(x)'
    BY DEF Sound, Resolved, CarriesToken, Here, RestOfDay
  <2> QED
    BY <2>1, <2>2, <2>3 DEF Sound, AtEase, Resolved
<1> QED
  BY <1>1, <1>2 DEF HandlersSound
\* A transaction that starts.
Began(kind, u, at, cards) ==
    [at |-> at, kind |-> kind, user |-> u, since |-> Here, read |-> rows[u],
     duration |-> 0, outcome |-> "failed", cards |-> cards]

\* It is sound from its first step on.
LEMMA BeganFacts ==
    ASSUME TypeOK, NEW u \in Users, NEW kind \in Kind, NEW at \in {"bank", "link", "end"},
           NEW cards \in {"keep", "drop", "file"},
           cards = "file" <=> kind = "webhook", at = "bank" => kind = "webhook",
           kind = "webhook" => Resolved(u)
    PROVE  LET t == Began(kind, u, at, cards)
           IN /\ t \in Handling /\ Sound(t)
              /\ t.at = at /\ t.kind = kind /\ t.user = u /\ t.read = rows[u] /\ t.cards = cards
<1> DEFINE t == Began(kind, u, at, cards)
<1>1. Here \in Nat /\ Here \in Time /\ rows[u] \in Row
  BY HereFacts DEF TypeOK, Time
<1>2. t = [at |-> at, kind |-> kind, user |-> u, since |-> Here, read |-> rows[u],
           duration |-> 0, outcome |-> "failed", cards |-> cards]
  BY DEF Began
<1>3. t \in Handling
  BY <1>1, <1>2 DEF Handling
<1>4. Sound(t)
  BY <1>1, <1>2 DEF Sound
<1> QED
  BY <1>2, <1>3, <1>4

\* A start is the record above.
LEMMA StartIsBegan ==
    ASSUME NEW h, NEW kind, NEW u, NEW at, NEW cards, Start(h, kind, u, at, cards)
    PROVE  txn' = [txn EXCEPT ![h] = Began(kind, u, at, cards)]
BY DEF Start, Began

\* What a handler means to leave is a row, with the trial date it found.
LEMMA WantedFacts ==
    ASSUME NEW t \in Handling, Sound(t)
    PROVE  /\ Wanted(t) \in Row /\ Wanted(t).trialEnd = t.read.trialEnd
           /\ "trialEnd" \notin Stamped(t)
<1>1. t.read \in Row /\ t.since \in Nat /\ t.duration \in Nat /\ t.kind \in Kind
      /\ t.outcome \in {"paid", "failed"}
  BY DEF Handling, Sound
<1>2. CASE t.kind = "webhook" /\ t.outcome = "paid"
  <2>1. Wanted(t) = MarkActive(GetOrCreate(t.read), t.since, t.duration)
    BY <1>2 DEF Wanted
  <2> QED
    BY <1>1, <1>2, <2>1, GetOrCreateFacts, MarkActiveFacts DEF Stamped, StampedBy
<1>3. CASE t.kind = "webhook" /\ t.outcome = "failed"
  <2>1. Wanted(t) = FirstChargeFailed(GetOrCreate(t.read), t.since)
    BY <1>3 DEF Wanted
  <2> QED
    BY <1>1, <1>3, <2>1, GetOrCreateFacts, FirstChargeFailedFacts DEF Stamped, StampedBy
<1>4. CASE t.kind = "cancel"
  <2>1. Wanted(t) = CancelRow(t.read)
    BY <1>4 DEF Wanted
  <2> QED
    BY <1>1, <1>4, <2>1, CancelRowFacts DEF Stamped
<1>5. CASE t.kind = "promotion" /\ IsPermanent(t.read)
  <2>1. Wanted(t) = t.read
    BY <1>5 DEF Wanted
  <2> QED
    BY <1>1, <1>5, <2>1 DEF Stamped
<1>6. CASE t.kind = "approval" \/ (t.kind = "promotion" /\ ~ IsPermanent(t.read))
  <2>1. Wanted(t) = GrantPermanent(t.read, t.since)
    BY <1>6 DEF Wanted
  <2> QED
    BY <1>1, <1>6, <2>1, GrantPermanentFacts DEF Stamped
<1>7. \/ /\ t.kind = "webhook"
         /\ (t.outcome = "paid" \/ t.outcome = "failed")
      \/ t.kind = "cancel" \/ t.kind = "approval" \/ t.kind = "promotion"
  BY <1>1 DEF Kind
<1> QED
  BY <1>2, <1>3, <1>4, <1>5, <1>6, <1>7

\* Charging keeps the tally in its type.
LEMMA ChargeTypes ==
    ASSUME TypeOK, NEW u \in Users, NEW result, Charge(u, result)
    PROVE  taken' \in [Users -> 0..1]
<1>1. (taken[u] + 1) % 2 \in 0..1 /\ taken[u] \in 0..1
  BY DEF TypeOK
<1> QED
  BY <1>1 DEF Charge, TypeOK

\* Every step of a user keeps the types.
LEMMA TypeInvUser ==
    ASSUME TypeInv, NEW u \in Users, UserStep(u)
    PROVE  TypeInv'
<1> USE DEF calendar, settings, people, bankside, money, work
<1>1. Here' = Here /\ Here \in Nat
  <2>1. day' = day
    BY DEF UserStep, ChangeRole, ConfirmPaymentMethod, ConfirmRollsBack, CancelStart,
       ResendInvite, Join
  <2> QED
    BY <2>1, HereFacts DEF Here, RestOfDay, TypeInv, TypeOK
<1>2. CASE \E r \in Roles : ChangeRole(u, r)
  <2>1. TypeOK'
    BY <1>2, BillingAssumption DEF ChangeRole, TypeInv, TypeOK, BillingAssumption, Role
  <2>2. InvoicesOwned' /\ HandlersSound'
    BY <1>1, <1>2, HandlersKept DEF ChangeRole, TypeInv, InvoicesOwned, CarriesToken
  <2> QED
    BY <2>1, <2>2 DEF TypeInv
<1>3. CASE \E i \in Invoices : ConfirmPaymentMethod(u, i) \/ ConfirmRollsBack(u, i)
  <2> PICK i \in Invoices : ConfirmPaymentMethod(u, i) \/ ConfirmRollsBack(u, i)
    BY <1>3
  <2> DEFINE Invoice == [user : Users \cup {Nobody}, status : PayState]
  <2>1. \E e \in Invoice : invoice' = [invoice EXCEPT ![i] = e] /\ e.status # "unused"
                           /\ (e.status = "kept" => e.user \in Users)
    <3>1. CASE ConfirmPaymentMethod(u, i)
      <4>1. [user |-> u, status |-> "kept"] \in Invoice
        BY DEF PayState
      <4> QED
        BY <3>1, <4>1 DEF ConfirmPaymentMethod
    <3>2. CASE ConfirmRollsBack(u, i)
      <4>1. invoice[i] \in Invoice
        BY DEF TypeInv, TypeOK
      <4>2. [invoice[i] EXCEPT !.status = "lost"] \in Invoice
        BY <4>1 DEF PayState
      <4>3. [invoice[i] EXCEPT !.status = "lost"].status = "lost"
        BY <4>1
      <4>4. invoice' = [invoice EXCEPT ![i] = [invoice[i] EXCEPT !.status = "lost"]]
        BY <3>2 DEF ConfirmRollsBack
      <4> QED
        BY <4>2, <4>3, <4>4
    <3> QED
      BY <3>1, <3>2
  <2>2. PICK e \in Invoice : invoice' = [invoice EXCEPT ![i] = e] /\ e.status # "unused"
                             /\ (e.status = "kept" => e.user \in Users)
    BY <2>1
  <2>3. invoice \in [Invoices -> Invoice]
    BY DEF TypeInv, TypeOK
  <2> HIDE DEF Invoice
  <2>4. invoice' \in [Invoices -> Invoice] /\ InvoicesOwned'
    BY <2>2, <2>3 DEF TypeInv, InvoicesOwned, ConfirmPaymentMethod, ConfirmRollsBack
  <2>5. bank[i] = "open" /\ bank' = bank
    BY DEF ConfirmPaymentMethod, ConfirmRollsBack, TypeInv, InvoicesOwned
  <2>6. HandlersSound'
    BY <1>1, <2>2, <2>3, <2>5, HandlersKept DEF ConfirmPaymentMethod, ConfirmRollsBack, CarriesToken
  <2>7. TypeOK'
    BY <2>4 DEF Invoice, ConfirmPaymentMethod, ConfirmRollsBack, TypeInv, TypeOK
  <2> QED
    BY <2>4, <2>6, <2>7 DEF TypeInv
<1>4. CASE CancelStart(u)
  <2>1. TypeOK'
    BY <1>4 DEF CancelStart, TypeInv, TypeOK
  <2>2. InvoicesOwned' /\ HandlersSound'
    BY <1>1, <1>4, HandlersKept DEF CancelStart, TypeInv, InvoicesOwned, CarriesToken
  <2> QED
    BY <2>1, <2>2 DEF TypeInv
<1>5. CASE ResendInvite(u) \/ Join(u)
  <2>1. door[u] \in Door
    BY DEF TypeInv, TypeOK
  <2>2. \E d \in Door : door' = [door EXCEPT ![u] = d]
    <3>1. CASE ResendInvite(u)
      BY <2>1, <3>1, DoorFacts DEF ResendInvite
    <3>2. CASE Join(u)
      BY <3>2 DEF Join, Door
    <3> QED
      BY <1>5, <3>1, <3>2
  <2>3. TypeOK'
    BY <1>5, <2>2 DEF ResendInvite, Join, TypeInv, TypeOK
  <2>4. InvoicesOwned' /\ HandlersSound'
    BY <1>1, <1>5, HandlersKept DEF ResendInvite, Join, TypeInv, InvoicesOwned, CarriesToken
  <2> QED
    BY <2>3, <2>4 DEF TypeInv
<1> QED
  BY <1>2, <1>3, <1>4, <1>5 DEF UserStep

\* A handler that starts is sound, and the others are left alone.
LEMMA StartTypes ==
    ASSUME TypeInv, NEW h \in Handlers, NEW u \in Users, NEW kind \in Kind,
           NEW at \in {"bank", "link", "end"}, NEW cards \in {"keep", "drop", "file"},
           cards = "file" <=> kind = "webhook", at = "bank" => kind = "webhook",
           kind = "webhook" => Resolved(u), Start(h, kind, u, at, cards),
           UNCHANGED <<day, bank, invoice>>
    PROVE  txn' \in [Handlers -> Handling] /\ HandlersSound'
<1>1. Began(kind, u, at, cards) \in Handling /\ Sound(Began(kind, u, at, cards))
  BY BeganFacts DEF TypeInv
<1> QED
  BY <1>1, HandlerMoved, StartIsBegan

\* The owner of an invoice whose callback starts a charge.
LEMMA WebhookOwner ==
    ASSUME TypeInv, NEW i \in Invoices, Known(i), CarriesToken(i)
    PROVE  invoice[i].user \in Users /\ Resolved(invoice[i].user)
BY DEF TypeInv, TypeOK, InvoicesOwned, Known, PayState, Resolved

\* The steps in which a handler starts keep the types.
LEMMA TypeInvStart ==
    ASSUME TypeInv, NEW h \in Handlers,
           \/ \E u \in Users : \/ \E r \in Role : Approve(h, u, r)
                              \/ PromoteToSupervisor(h, u) \/ CancelConfirm(h, u)
           \/ \E i \in Invoices : WebhookCharges(h, i)
    PROVE  TypeInv'
<1> USE DEF calendar, settings, people, bankside, money
<1>1. CASE \E i \in Invoices : WebhookCharges(h, i)
  <2> PICK i \in Invoices : WebhookCharges(h, i)
    BY <1>1
  <2>1. invoice[i].user \in Users /\ Resolved(invoice[i].user)
    BY WebhookOwner DEF WebhookCharges
  <2>2. txn' \in [Handlers -> Handling] /\ HandlersSound'
    BY <2>1, StartTypes DEF WebhookCharges, Deliver, Kind
  <2>3. left[i] \in [Callback -> 0..MaxDeliveries] /\ left[i]["success"] > 0
    BY DEF WebhookCharges, Deliver, TypeInv, TypeOK, Callback
  <2>4. left' = [left EXCEPT ![i] = [left[i] EXCEPT !["success"] = left[i]["success"] - 1]]
    BY DEF WebhookCharges, Deliver
  <2>5. [left[i] EXCEPT !["success"] = left[i]["success"] - 1] \in [Callback -> 0..MaxDeliveries]
    BY <2>3, BillingAssumption DEF BillingAssumption, Callback
  <2>6. left' \in [Invoices -> [Callback -> 0..MaxDeliveries]]
    BY <2>4, <2>5 DEF TypeInv, TypeOK
  <2>7. UNCHANGED <<day, job, faults, chat, duration, rows, card, role, prompted, cancelPrompt,
                    door, invoice, bank, taken, recorded, run, crossed>>
    BY DEF WebhookCharges, Deliver
  <2>8. TypeOK'
    BY <2>2, <2>6, <2>7 DEF TypeInv, TypeOK
  <2>9. InvoicesOwned'
    BY <2>7 DEF TypeInv, InvoicesOwned
  <2> QED
    BY <2>2, <2>8, <2>9 DEF TypeInv
<1>2. ASSUME NEW u \in Users, (\E r \in Role : Approve(h, u, r))
             \/ PromoteToSupervisor(h, u) \/ CancelConfirm(h, u)
      PROVE  TypeInv'
  <2>1. UNCHANGED <<day, job, faults, chat, duration, rows, card, role, cancelPrompt,
                    door, invoice, bank, left, taken, recorded, run, crossed>>
    BY <1>2 DEF Approve, PromoteToSupervisor, CancelConfirm
  <2>2. prompted' = prompted \/ prompted' = prompted \cup {u}
    BY <1>2 DEF Approve, PromoteToSupervisor, CancelConfirm
  <2>3. txn' \in [Handlers -> Handling] /\ HandlersSound'
    <3>1. CASE CancelConfirm(h, u)
      BY <2>1, <3>1, StartTypes DEF CancelConfirm, Kind
    <3>2. CASE PromoteToSupervisor(h, u)
      <4>1. PICK at \in {"end", "link"} : Start(h, "promotion", u, at, "keep")
        BY <3>2 DEF PromoteToSupervisor
      <4> QED
        BY <2>1, <4>1, StartTypes DEF Kind
    <3>3. CASE \E r \in Role : Approve(h, u, r)
      <4>1. CASE txn' = txn
        <5>1. Here' = Here /\ Here \in Nat /\ HandlersSound'
          BY <2>1, <4>1, HereFacts, HandlersKept DEF Here, CarriesToken, TypeInv, TypeOK
        <5> QED
          BY <4>1, <5>1 DEF TypeInv, TypeOK
      <4>2. CASE Start(h, "approval", u, "link", "keep")
        BY <2>1, <4>2, StartTypes DEF Kind
      <4> QED
        BY <3>3, <4>1, <4>2 DEF Approve
    <3> QED
      BY <1>2, <3>1, <3>2, <3>3
  <2>4. TypeOK'
    BY <2>1, <2>2, <2>3 DEF TypeInv, TypeOK
  <2>5. InvoicesOwned'
    BY <2>1 DEF TypeInv, InvoicesOwned
  <2> QED
    BY <2>3, <2>4, <2>5 DEF TypeInv
<1> QED
  BY <1>1, <1>2

\* The bank's answer and the link leave a sound handler.
LEMMA TypeInvMove ==
    ASSUME TypeInv, NEW h \in Handlers, BankAnswers(h) \/ GiveLink(h) \/ RollBack(h)
    PROVE  TypeInv'
<1> USE DEF calendar, settings, people, bankside, money
<1> DEFINE t == txn[h]
<1>1. t \in Handling /\ (AtEase(t) \/ Sound(t)) /\ (t.at # "idle" => Sound(t))
  BY DEF TypeInv, TypeOK, HandlersSound, AtEase
<1>2. UNCHANGED <<day, job, faults, chat, duration, rows, card, role, prompted, cancelPrompt,
                  invoice, bank, left, recorded, run, crossed>>
  BY DEF BankAnswers, GiveLink, RollBack
<1>3. InvoicesOwned'
  BY <1>2 DEF TypeInv, InvoicesOwned
<1>4. CASE BankAnswers(h)
  <2>1. PICK result \in ChargeResult :
              /\ Charge(t.user, result)
              /\ txn' = [txn EXCEPT ![h] =
                    [t EXCEPT !.at = IF result = "paid" /\ chat THEN "link" ELSE "end",
                              !.read = rows[t.user], !.outcome = Outcome(result),
                              !.duration = duration]]
    BY <1>4 DEF BankAnswers
  <2>2. PICK n : n = [t EXCEPT !.at = IF result = "paid" /\ chat THEN "link" ELSE "end",
                               !.read = rows[t.user], !.outcome = Outcome(result),
                               !.duration = duration]
    OBVIOUS
  <2>3. Sound(t) /\ t.at = "bank" /\ t.kind = "webhook" /\ t.user \in Users
    BY <1>1, <1>4 DEF BankAnswers, Sound
  <2>4. rows[t.user] \in Row /\ duration \in Durations /\ duration \in Nat
        /\ Outcome(result) \in {"paid", "failed"}
    BY <2>3, BillingAssumption DEF TypeInv, TypeOK, Outcome, BillingAssumption
  <2>5. n \in Handling /\ Sound(n)
    <3>1. /\ n.at \in {"link", "end"} /\ n.kind = t.kind /\ n.user = t.user
          /\ n.since = t.since /\ n.read = rows[t.user] /\ n.duration = duration
          /\ n.outcome = Outcome(result) /\ n.cards = t.cards
      BY <1>1, <2>2 DEF Handling
    <3>2. n \in Handling
      BY <1>1, <2>2, <2>4 DEF Handling
    <3> QED
      BY <2>3, <2>4, <3>1, <3>2 DEF Sound
  <2>6. txn' = [txn EXCEPT ![h] = n]
    BY <2>1, <2>2
  <2>7. txn' \in [Handlers -> Handling] /\ HandlersSound'
    BY <1>2, <2>5, <2>6, HandlerMoved
  <2>8. taken' \in [Users -> 0..1] /\ door' = door
    BY <1>4, <2>1, <2>3, ChargeTypes DEF BankAnswers, TypeInv
  <2>9. TypeOK'
    BY <1>2, <2>7, <2>8 DEF TypeInv, TypeOK
  <2> QED
    BY <1>3, <2>7, <2>9 DEF TypeInv
<1>5. CASE GiveLink(h)
  <2>1. Sound(t) /\ t.at = "link" /\ t.user \in Users
    BY <1>1, <1>5 DEF GiveLink, Sound
  <2>2. PICK r \in Row : txn' = [txn EXCEPT ![h] = [t EXCEPT !.at = "end", !.read = r]]
    <3>1. rows[t.user] \in Row /\ t.read \in Row
      BY <1>1, <2>1 DEF TypeInv, TypeOK, Handling
    <3> DEFINE r == IF t.kind = "approval" THEN rows[t.user] ELSE t.read
    <3>2. txn' = [txn EXCEPT ![h] = [t EXCEPT !.at = "end", !.read = r]]
      BY <1>5 DEF GiveLink
    <3>3. r \in Row
      BY <3>1
    <3> QED
      BY <3>2, <3>3
  <2>3. PICK n : n = [t EXCEPT !.at = "end", !.read = r]
    OBVIOUS
  <2>4. n \in Handling /\ Sound(n)
    <3>1. /\ n.at = "end" /\ n.kind = t.kind /\ n.user = t.user
          /\ n.since = t.since /\ n.duration = t.duration
          /\ n.outcome = t.outcome /\ n.cards = t.cards
      BY <1>1, <2>3 DEF Handling
    <3>2. n \in Handling
      BY <1>1, <2>3 DEF Handling
    <3> QED
      BY <2>1, <3>1, <3>2 DEF Sound
  <2>5. txn' = [txn EXCEPT ![h] = n]
    BY <2>2, <2>3
  <2>6. txn' \in [Handlers -> Handling] /\ HandlersSound'
    BY <1>2, <2>4, <2>5, HandlerMoved
  <2>7. door' \in [Users -> Door]
    BY <1>5, <2>1, DoorFacts DEF GiveLink, TypeInv, TypeOK
  <2>8. TypeOK'
    BY <1>2, <1>5, <2>6, <2>7 DEF GiveLink, TypeInv, TypeOK
  <2> QED
    BY <1>3, <2>6, <2>8 DEF TypeInv
<1>6. CASE RollBack(h)
  <2>1. txn' \in [Handlers -> Handling] /\ HandlersSound'
    BY <1>2, <1>6, RestTypes, HandlerMoved DEF RollBack
  <2>2. TypeOK'
    BY <1>2, <1>6, <2>1 DEF RollBack, TypeInv, TypeOK
  <2> QED
    BY <1>3, <2>1, <2>2 DEF TypeInv
<1> QED
  BY <1>4, <1>5, <1>6

\* A commit leaves well typed rows, and the handlers that had the same user in
\* hand sound.
LEMMA CommitTypes ==
    ASSUME TypeInv, NEW h \in Handlers, Commit(h)
    PROVE  TypeInv'
<1> USE DEF calendar, settings, people, bankside, money
<1> DEFINE t == txn[h]
           u == t.user
<1>1. t \in Handling /\ Sound(t) /\ u \in Users /\ t.read \in Row
  BY DEF TypeInv, TypeOK, HandlersSound, AtEase, Commit, Sound, Handling
<1>2. UNCHANGED <<day, job, faults, chat, duration, prompted, cancelPrompt, door, invoice,
                  bank, left, taken, run>>
  BY DEF Commit
<1>3. rows' \in [Users -> Row]
  <2>1. Merge(rows[u], t.read, Wanted(t), Stamped(t)) \in Row
    <3>1. rows[u] \in Row
      BY <1>1 DEF TypeInv, TypeOK
    <3> QED
      BY <1>1, <3>1, WantedFacts, MergeFacts
  <2> QED
    BY <1>1, <2>1 DEF Commit, TypeInv, TypeOK
<1>4. card' \in [Users -> BOOLEAN] /\ role' \in [Users -> Role]
  BY <1>1, BillingAssumption DEF Commit, TypeInv, TypeOK, BillingAssumption, Role
<1>5. recorded' \in [Users -> Time] /\ crossed' \subseteq Users
  BY <1>1 DEF Commit, TypeInv, TypeOK, Sound, Time
<1>6. ASSUME NEW g \in Handlers
      PROVE  txn'[g] \in Handling /\ (AtEase(txn[g]) \/ Sound(txn[g]))'
  <2>1. AtEase(txn[g]) \/ Sound(txn[g])
    BY DEF TypeInv, HandlersSound
  <2>2. txn[g] \in Handling
    BY DEF TypeInv, TypeOK
  <2>3. PICK x : x = txn'[g]
    OBVIOUS
  <2>4. CASE g = h
    <3>1. txn'[g] = AtRest
      BY <2>4 DEF Commit
    <3> QED
      BY <3>1, RestTypes DEF AtEase
  <2>5. CASE x = txn[g]
    <3>1. Sound(x) => Sound(x)'
      BY <1>2 DEF Sound, Resolved, CarriesToken, Here, RestOfDay
    <3> QED
      BY <2>1, <2>2, <2>3, <2>5, <3>1 DEF Sound, AtEase, Resolved
  <2>6. CASE x = [txn[g] EXCEPT !.cards = "keep"] /\ txn[g].cards = "drop"
    <3>1. /\ x.at = txn[g].at /\ x.kind = txn[g].kind /\ x.user = txn[g].user
          /\ x.since = txn[g].since /\ x.duration = txn[g].duration
          /\ x.outcome = txn[g].outcome /\ x.cards = "keep" /\ x \in Handling
      BY <2>2, <2>6 DEF Handling
    <3>2. AtEase(x) \/ Sound(x)
      BY <2>1, <2>6, <3>1 DEF AtEase, Sound
    <3>3. Sound(x) => Sound(x)'
      BY <1>2 DEF Sound, Resolved, CarriesToken, Here, RestOfDay
    <3> QED
      BY <2>3, <3>1, <3>2, <3>3 DEF Sound, AtEase, Resolved
  <2> QED
    BY <2>3, <2>4, <2>5, <2>6 DEF Commit
<1>7. txn' \in [Handlers -> Handling] /\ HandlersSound'
  <2>1. txn' = [g \in Handlers |-> txn'[g]]
    BY DEF Commit
  <2> QED
    BY <1>6, <2>1 DEF HandlersSound
<1>8. TypeOK'
  BY <1>2, <1>3, <1>4, <1>5, <1>7 DEF TypeInv, TypeOK
<1>9. InvoicesOwned'
  BY <1>2 DEF TypeInv, InvoicesOwned
<1> QED
  BY <1>7, <1>8, <1>9 DEF TypeInv

\* Every step of a handler keeps the types.
LEMMA TypeInvHandler ==
    ASSUME TypeInv, NEW h \in Handlers, HandlerStep(h)
    PROVE  TypeInv'
BY TypeInvStart, TypeInvMove, CommitTypes DEF HandlerStep

\* So does every step of the bank.
LEMMA TypeInvBank ==
    ASSUME TypeInv, NEW i \in Invoices, BankStep(i)
    PROVE  TypeInv'
<1> USE DEF calendar, settings, people, money, work
<1>1. UNCHANGED <<day, job, faults, chat, duration, rows, card, role, prompted, cancelPrompt,
                  door, invoice, taken, recorded, run, txn, crossed>>
  BY DEF BankStep, BankResolves, WebhookUnknown, WebhookFinal, WebhookNoToken
<1>2. Here' = Here /\ Here \in Nat
  BY <1>1, HereFacts DEF Here, TypeInv, TypeOK
<1>3. bank[i] \in BankView /\ left[i] \in [Callback -> 0..MaxDeliveries]
  BY DEF TypeInv, TypeOK
<1>4. CASE BankResolves(i)
  <2>1. PICK view \in BankView \ {"open"} :
              /\ bank' = [bank EXCEPT ![i] = view]
              /\ bank[i] \in {"open", "verified"}
              /\ bank[i] = "verified" => view = "reversed"
    BY <1>4 DEF BankResolves, BankView
  <2>2. \E c \in Callback : left' = [left EXCEPT ![i] = [left[i] EXCEPT ![c] = MaxDeliveries]]
    BY <1>4 DEF BankResolves, Callback
  <2>3. PICK c \in Callback : left' = [left EXCEPT ![i] = [left[i] EXCEPT ![c] = MaxDeliveries]]
    BY <2>2
  <2>4. [left[i] EXCEPT ![c] = MaxDeliveries] \in [Callback -> 0..MaxDeliveries]
    BY <1>3, BillingAssumption DEF BillingAssumption
  <2>5. TypeOK'
    <3>1. left' \in [Invoices -> [Callback -> 0..MaxDeliveries]]
      BY <2>3, <2>4 DEF TypeInv, TypeOK
    <3>2. bank' \in [Invoices -> BankView]
      BY <2>1 DEF TypeInv, TypeOK
    <3> QED
      BY <1>1, <3>1, <3>2 DEF TypeInv, TypeOK
  <2>6. HandlersSound'
    <3>1. ASSUME NEW j \in Invoices, CarriesToken(j) PROVE CarriesToken(j)'
      BY <2>1, <3>1 DEF CarriesToken, TypeInv, TypeOK
    <3> QED
      BY <1>1, <1>2, <3>1, HandlersKept
  <2>7. InvoicesOwned'
    BY <1>1, <1>4, <2>1 DEF TypeInv, TypeOK, InvoicesOwned, BankResolves
  <2> QED
    BY <2>5, <2>6, <2>7 DEF TypeInv
<1>5. ASSUME NEW c \in Callback, Deliver(i, c) PROVE TypeInv'
  <2>1. left' = [left EXCEPT ![i] = [left[i] EXCEPT ![c] = left[i][c] - 1]] /\ left[i][c] > 0
        /\ bank' = bank
    BY <1>5 DEF Deliver
  <2>2. [left[i] EXCEPT ![c] = left[i][c] - 1] \in [Callback -> 0..MaxDeliveries]
    BY <1>3, <2>1, BillingAssumption DEF BillingAssumption
  <2>3. TypeOK'
    BY <1>1, <2>1, <2>2 DEF TypeInv, TypeOK
  <2>4. HandlersSound' /\ InvoicesOwned'
    BY <1>1, <1>2, <2>1, HandlersKept DEF TypeInv, InvoicesOwned, CarriesToken
  <2> QED
    BY <2>3, <2>4 DEF TypeInv
<1> QED
  BY <1>4, <1>5 DEF BankStep, WebhookUnknown, WebhookFinal, WebhookNoToken, Callback

\* What a phase loads is well typed.
LEMMA ListingTypes ==
    ASSUME TypeInv, NEW U
    PROVE  Listing(U) \in Run /\ NoRun \in Run
<1>1. Listing(U) \in Run
  BY RestTypes, BillingAssumption DEF Listing, Run, Progress, TypeInv, TypeOK, BillingAssumption
<1>2. NoRun \in Run
  BY RestTypes DEF NoRun, Run, Progress
<1> QED
  BY <1>1, <1>2

\* The steps of the job keep the types of what it has loaded.
LEMMA RunTypes ==
    ASSUME TypeInv, JobStep
    PROVE  run' \in Run
<1>1. run \in Run
  BY DEF TypeInv, TypeOK
<1>2. CASE \E u \in Users : ChargeDue(u)
  <2> PICK u \in Users : ChargeDue(u)
    BY <1>2
  <2>1. PICK result \in PossibleResults(u) :
              run' = [run EXCEPT !.progress[u] = Outcome(result), !.calls = @ \cup {u}]
    BY DEF ChargeDue
  <2>2. Outcome(result) \in Progress
    BY DEF Outcome, Progress
  <2>3. run' = [run EXCEPT !.progress = [run.progress EXCEPT ![u] = Outcome(result)],
                           !.calls = run.calls \cup {u}]
    BY <2>1
  <2>4. [run.progress EXCEPT ![u] = Outcome(result)] \in [Users -> Progress]
    BY <1>1, <2>2 DEF Run
  <2> QED
    BY <1>1, <2>3, <2>4 DEF Run
<1>3. CASE \E u \in Users : FollowUp(u)
  BY <1>1, <1>3 DEF FollowUp, Run
<1>4. CASE \E u \in Users : ExpireCancelled(u)
  <2> PICK u \in Users : ExpireCancelled(u)
    BY <1>4
  <2>1. run' = [run EXCEPT !.progress = [run.progress EXCEPT ![u] = "none"]]
    BY DEF ExpireCancelled
  <2>2. [run.progress EXCEPT ![u] = "none"] \in [Users -> Progress]
    BY <1>1 DEF Run, Progress
  <2> QED
    BY <1>1, <2>1, <2>2 DEF Run
<1>5. CASE ListDue \/ ListExpired \/ CommitCharges \/ CommitExpired \/ RunAborts
  BY <1>5, ListingTypes DEF ListDue, ListExpired, CommitCharges, CommitExpired, RunAborts
<1> QED
  BY <1>2, <1>3, <1>4, <1>5 DEF JobStep

\* What the job means to leave is a row, with the trial date it found.
LEMMA MarkedFacts ==
    ASSUME TypeInv, NEW u \in Users
    PROVE  Marked(u) \in Row /\ Marked(u).trialEnd = run.read[u].trialEnd
<1>1. PICK row \in Row, ticks \in Nat, now \in Nat :
            row = run.read[u] /\ ticks = run.duration /\ now = Here
  BY HereFacts DEF TypeInv, TypeOK, Run
<1>2. /\ MarkActive(row, now, ticks) \in Row /\ MarkFailed(row, now) \in Row
      /\ MarkActive(row, now, ticks).trialEnd = row.trialEnd
      /\ MarkFailed(row, now).trialEnd = row.trialEnd
  BY MarkActiveFacts, MarkFailedFacts
<1> QED
  BY <1>1, <1>2 DEF Marked

\* Steps of the settings, the calendar and the job keep the types.
LEMMA TypeInvJob ==
    ASSUME TypeInv,
           \/ SetChannel \/ \E d \in Durations : SetDuration(d)
           \/ NewDay \/ MissedRun \/ JobStep
    PROVE  TypeInv'
<1> USE DEF calendar, settings, people, bankside, money, work
<1>1. /\ UNCHANGED <<card, role, cancelPrompt, invoice, bank, left, txn>>
      /\ day' = day \/ (day < MaxDay /\ day' = day + 1)
  BY DEF SetChannel, SetDuration, NewDay, MissedRun, JobStep, ListDue, ChargeDue, FollowUp,
     CommitCharges, ListExpired, ExpireCancelled, CommitExpired, RunAborts
<1>2. day' \in 0..MaxDay /\ Here' \in Nat /\ Here' >= Here
  BY <1>1, BillingAssumption
  DEF TypeInv, TypeOK, Here, RestOfDay, TicksPerDay, BillingAssumption
<1>3. HandlersSound' /\ InvoicesOwned'
  BY <1>1, <1>2, HandlersKept DEF TypeInv, InvoicesOwned, CarriesToken
<1>4. job' \in Phase /\ faults' \in 0..MaxFaults
  <2>1. faults' = faults \/ (faults < MaxFaults /\ faults' = faults + 1)
    BY DEF SetChannel, SetDuration, NewDay, MissedRun, JobStep, ListDue, ChargeDue, FollowUp,
       CommitCharges, ListExpired, ExpireCancelled, CommitExpired, RunAborts
  <2>2. job' \in {job, "idle", "charge", "charging", "expire", "expiring"}
    BY DEF SetChannel, SetDuration, NewDay, MissedRun, JobStep, ListDue, ChargeDue, FollowUp,
       CommitCharges, ListExpired, ExpireCancelled, CommitExpired, RunAborts
  <2>3. faults \in 0..MaxFaults /\ job \in Phase /\ MaxFaults \in Nat
    BY BillingAssumption DEF TypeInv, TypeOK, BillingAssumption
  <2> QED
    BY <2>1, <2>2, <2>3 DEF Phase
<1>5. chat' \in BOOLEAN /\ duration' \in Durations
  BY DEF SetChannel, SetDuration, NewDay, MissedRun, JobStep, ListDue, ChargeDue, FollowUp,
     CommitCharges, ListExpired, ExpireCancelled, CommitExpired, RunAborts, TypeInv, TypeOK
<1>6. run' \in Run
  BY RunTypes DEF SetChannel, SetDuration, NewDay, MissedRun, TypeInv, TypeOK
<1>7. /\ rows' \in [Users -> Row] /\ door' \in [Users -> Door] /\ taken' \in [Users -> 0..1]
      /\ recorded' \in [Users -> Time] /\ prompted' \subseteq Users /\ crossed' \subseteq Users
  <2>1. CASE CommitCharges
    <3>1. ASSUME NEW u \in Processed
          PROVE  Merge(rows[u], run.read[u], Marked(u), StampedBy(run.progress[u])) \in Row
      <4>1. Here \in Nat /\ run.duration \in Nat /\ run.read[u] \in Row /\ rows[u] \in Row
        BY HereFacts DEF TypeInv, TypeOK, Run, Processed
      <4>2. Marked(u) \in Row /\ Marked(u).trialEnd = run.read[u].trialEnd
        BY MarkedFacts DEF Processed
      <4> QED
        BY <4>1, <4>2, MergeFacts DEF StampedBy
    <3>2. rows' \in [Users -> Row]
      BY <2>1, <3>1 DEF CommitCharges, TypeInv, TypeOK
    <3>3. recorded' \in [Users -> Time]
      BY <2>1, HereFacts DEF CommitCharges, TypeInv, TypeOK, Time
    <3> QED
      BY <2>1, <3>2, <3>3 DEF CommitCharges, TypeInv, TypeOK, Processed
  <2>2. ASSUME NEW u \in Users, ChargeDue(u) PROVE taken' \in [Users -> 0..1]
    BY <2>2, ChargeTypes DEF ChargeDue, TypeInv
  <2>3. ASSUME NEW u \in Users, FollowUp(u) \/ ExpireCancelled(u) PROVE door' \in [Users -> Door]
    <3>1. door[u] \in Door /\ DoorsAfter(u) \subseteq Door /\ Expelled(door[u]) \subseteq Door
      BY DoorFacts DEF DoorsAfter, TypeInv, TypeOK
    <3> QED
      BY <2>3, <3>1 DEF FollowUp, ExpireCancelled, TypeInv, TypeOK
  <2>4. CASE \E u \in Users : ChargeDue(u) \/ FollowUp(u) \/ ExpireCancelled(u)
    BY <2>2, <2>3, <2>4 DEF ChargeDue, FollowUp, ExpireCancelled, TypeInv, TypeOK
  <2>5. CASE \/ SetChannel \/ (\E d \in Durations : SetDuration(d)) \/ NewDay \/ MissedRun
             \/ ListDue \/ ListExpired \/ CommitExpired \/ RunAborts
    BY <2>5 DEF SetChannel, SetDuration, NewDay, MissedRun, ListDue, ListExpired, CommitExpired,
       RunAborts, TypeInv, TypeOK
  <2> QED
    BY <2>1, <2>4, <2>5 DEF JobStep
<1> QED
  BY <1>1, <1>2, <1>3, <1>4, <1>5, <1>6, <1>7 DEF TypeInv, TypeOK

\* The types are inductive.
LEMMA TypeInvNext == TypeInv /\ [Next]_vars => TypeInv'
<1> SUFFICES ASSUME TypeInv, [Next]_vars PROVE TypeInv'
  OBVIOUS
<1>1. CASE Next
  BY <1>1, TypeInvUser, TypeInvHandler, TypeInvBank, TypeInvJob DEF Next
<1>2. CASE UNCHANGED vars
  <2> USE <1>2 DEF vars, calendar, settings, people, bankside, money, work
  <2>1. Here' = Here /\ Here \in Nat
    BY HereFacts DEF Here, RestOfDay, TypeInv, TypeOK
  <2>2. HandlersSound'
    BY <2>1, HandlersKept DEF CarriesToken
  <2>3. TypeOK' /\ InvoicesOwned'
    BY DEF TypeInv, TypeOK, InvoicesOwned
  <2> QED
    BY <2>2, <2>3 DEF TypeInv
<1> QED
  BY <1>1, <1>2

\* Every variable keeps its type in every behaviour.
THEOREM TypeCorrect == Spec => []TypeOK
<1>1. TypeInv => TypeOK
  BY DEF TypeInv
<1> QED
  BY TypeInvInit, TypeInvNext, <1>1, PTL DEF Spec

-----------------------------------------------------------------------------
(***************************************************************************)
(* What a step does to one user's subscription, billing-wise, as long as   *)
(* no transaction of that user has missed another's commit.                *)
(***************************************************************************)

RowKept(v) == rows'[v] = rows[v] /\ card'[v] = card[v] /\ recorded'[v] = recorded[v]

RowPaid(v) ==
    \E at \in Nat, ticks \in Durations :
        /\ at <= Here /\ rows'[v].status = "ACTIVE" /\ rows'[v].start = at
        /\ rows'[v].end = at + ticks /\ rows'[v].next = at + ticks
        /\ rows'[v].retry = 0 /\ recorded'[v] = at

RowFailed(v) ==
    \E at \in Nat : /\ at <= Here /\ rows'[v].status = "FAILED"
                    /\ rows'[v].next = at + RetryTicks

RowCancelled(v) == rows'[v].status = "CANCELLED" /\ rows'[v].next = None /\ ~ card'[v]

RowGranted(v) == rows'[v].status = "ACTIVE" /\ rows'[v].end = None

RowStep(v) == RowKept(v) \/ RowPaid(v) \/ RowFailed(v) \/ RowCancelled(v) \/ RowGranted(v)

\* Whoever has v in hand has loaded the row as it is, and a cancellation has seen
\* the cards there are.
InHand(v) ==
    /\ \A h \in Handlers : txn[h].user = v =>
          txn[h].read = rows[v] /\ (txn[h].kind = "cancel" => txn[h].cards = "drop")
    /\ run.progress[v] # "none" => run.read[v] = rows[v]

\* What the phases of the job know of the users they have listed.
RunInv ==
    /\ job = "charging" =>
          /\ run.duration \in Durations
          /\ \A u \in Users : run.progress[u] # "none" => Due(run.read[u], JobInstant(day))
    /\ job = "expiring" =>
          \A u \in Users : run.progress[u] # "none" => run.read[u].status = "CANCELLED"

\* The steps that leave the rows and the open transactions alone.
LEMMA Elsewhere ==
    ASSUME TypeInv, RunInv,
           \/ \E u \in Users : UserStep(u)
           \/ \E i \in Invoices : BankStep(i)
           \/ SetChannel \/ (\E d \in Durations : SetDuration(d)) \/ NewDay \/ MissedRun
    PROVE  /\ UNCHANGED <<rows, card, recorded, run, txn, crossed>> /\ RunInv'
           /\ Here' \in Nat /\ Here \in Nat /\ Here' >= Here
<1> USE DEF calendar, settings, people, bankside, money, work
<1>1. CASE \E u \in Users : UserStep(u)
  <2>1. UNCHANGED <<rows, card, recorded, run, txn, crossed, job, day>>
    BY <1>1 DEF UserStep, ChangeRole, ConfirmPaymentMethod, ConfirmRollsBack, CancelStart,
       ResendInvite, Join
  <2> QED
    BY <2>1, HereFacts DEF RunInv, Here, RestOfDay, TypeInv, TypeOK
<1>2. CASE \E i \in Invoices : BankStep(i)
  <2>1. UNCHANGED <<rows, card, recorded, run, txn, crossed, job, day>>
    BY <1>2 DEF BankStep, BankResolves, WebhookUnknown, WebhookFinal, WebhookNoToken
  <2> QED
    BY <2>1, HereFacts DEF RunInv, Here, RestOfDay, TypeInv, TypeOK
<1>3. CASE SetChannel \/ \E d \in Durations : SetDuration(d)
  <2>1. UNCHANGED <<rows, card, recorded, run, txn, crossed, job, day>>
    BY <1>3 DEF SetChannel, SetDuration
  <2> QED
    BY <2>1, HereFacts DEF RunInv, Here, RestOfDay, TypeInv, TypeOK
<1>4. CASE NewDay \/ MissedRun
  <2>1. /\ UNCHANGED <<rows, card, recorded, run, txn, crossed>>
        /\ day' = day + 1 /\ job' \in {"idle", "charge"}
    BY <1>4 DEF NewDay, MissedRun
  <2>2. Here' \in Nat /\ Here \in Nat /\ Here' >= Here
    BY <2>1, BillingAssumption DEF Here, RestOfDay, TicksPerDay, TypeInv, TypeOK, BillingAssumption
  <2> QED
    BY <2>1, <2>2 DEF RunInv
<1> QED
  BY <1>1, <1>2, <1>3, <1>4

\* A handler that starts, is answered or gives the link has the current row in
\* hand, unless it missed a commit before.
LEMMA HandlerMoves ==
    ASSUME TypeInv, NEW h \in Handlers, HandlerStep(h), ~ Commit(h)
    PROVE  /\ UNCHANGED <<rows, card, recorded, run, crossed, day, job>>
           /\ \A v \in Users : InHand(v) => InHand(v)'
<1> USE DEF calendar, settings, people, bankside, money
<1>1. UNCHANGED <<rows, card, recorded, run, crossed, day, job>>
  BY DEF HandlerStep, Approve, PromoteToSupervisor, CancelConfirm, WebhookCharges, BankAnswers,
     GiveLink, RollBack
<1>2. CASE txn' = txn
  BY <1>1, <1>2 DEF InHand
<1>3. ASSUME NEW x, txn' = [txn EXCEPT ![h] = x],
             x.user \in Users =>
                /\ x.read = rows[x.user] \/ (x.user = txn[h].user /\ x.read = txn[h].read)
                /\ x.kind = "cancel" =>
                      x.cards = "drop" \/ (/\ x.user = txn[h].user /\ x.cards = txn[h].cards
                                           /\ txn[h].kind = "cancel")
      PROVE  \A v \in Users : InHand(v) => InHand(v)'
  <2> SUFFICES ASSUME NEW v \in Users, InHand(v), NEW g \in Handlers, txn'[g].user = v
               PROVE  txn'[g].read = rows[v] /\ (txn'[g].kind = "cancel" => txn'[g].cards = "drop")
    BY <1>1 DEF InHand
  <2>1. CASE g = h
    <3>1. txn'[g] = x
      BY <1>3, <2>1 DEF TypeInv, TypeOK
    <3> QED
      BY <1>3, <2>1, <3>1 DEF InHand
  <2>2. CASE g # h
    <3>1. txn'[g] = txn[g]
      BY <1>3, <2>2 DEF TypeInv, TypeOK
    <3> QED
      BY <3>1 DEF InHand
  <2> QED
    BY <2>1, <2>2
<1>4. ASSUME NEW kind, NEW u \in Users, NEW at, NEW cards, Start(h, kind, u, at, cards),
             kind = "cancel" => cards = "drop"
      PROVE  \A v \in Users : InHand(v) => InHand(v)'
  <2>1. PICK x : x = Began(kind, u, at, cards)
    OBVIOUS
  <2>2. x.user = u /\ x.read = rows[u] /\ x.kind = kind /\ x.cards = cards
    BY <2>1 DEF Began
  <2>3. txn' = [txn EXCEPT ![h] = x]
    BY <1>4, <2>1, StartIsBegan
  <2> QED
    BY <1>3, <1>4, <2>2, <2>3
<1>5. CASE BankAnswers(h) \/ GiveLink(h) \/ RollBack(h)
  <2> DEFINE t == txn[h]
  <2>1. t \in Handling
    BY DEF TypeInv, TypeOK
  <2>2. CASE BankAnswers(h)
    <3> PICK result \in ChargeResult :
                txn' = [txn EXCEPT ![h] =
                    [t EXCEPT !.at = IF result = "paid" /\ chat THEN "link" ELSE "end",
                              !.read = rows[t.user], !.outcome = Outcome(result),
                              !.duration = duration]]
      BY <2>2 DEF BankAnswers
    <3>1. PICK x : x = [t EXCEPT !.at = IF result = "paid" /\ chat THEN "link" ELSE "end",
                                 !.read = rows[t.user], !.outcome = Outcome(result),
                                 !.duration = duration]
      OBVIOUS
    <3>2. txn' = [txn EXCEPT ![h] = x]
      BY <3>1
    <3>3. /\ x.read = rows[x.user]
          /\ x.user = txn[h].user /\ x.cards = txn[h].cards /\ x.kind = txn[h].kind
      BY <2>1, <3>1 DEF Handling
    <3> HIDE DEF t
    <3> QED
      BY <1>1, <1>3, <3>2, <3>3
  <2>3. CASE GiveLink(h)
    <3> DEFINE r == IF t.kind = "approval" THEN rows[t.user] ELSE t.read
    <3>1. PICK x : x = [t EXCEPT !.at = "end", !.read = r]
      OBVIOUS
    <3>2. txn' = [txn EXCEPT ![h] = x]
      BY <2>3, <3>1 DEF GiveLink
    <3>3. /\ x.read = rows[x.user] \/ x.read = txn[h].read
          /\ x.user = txn[h].user /\ x.cards = txn[h].cards /\ x.kind = txn[h].kind
      BY <2>1, <3>1 DEF Handling
    <3> HIDE DEF t
    <3> QED
      BY <1>1, <1>3, <3>2, <3>3
  <2>4. CASE RollBack(h)
    <3>1. PICK x : x = AtRest
      OBVIOUS
    <3>2. txn' = [txn EXCEPT ![h] = x] /\ x.user \notin Users
      BY <2>4, <3>1, BillingAssumption DEF RollBack, AtRest, BillingAssumption
    <3> QED
      BY <1>1, <1>3, <3>2
  <2> QED
    BY <1>5, <2>2, <2>3, <2>4
<1>6. CASE \E u \in Users : \/ \E r \in Role : Approve(h, u, r)
                           \/ PromoteToSupervisor(h, u) \/ CancelConfirm(h, u)
  BY <1>1, <1>2, <1>4, <1>6 DEF Approve, PromoteToSupervisor, CancelConfirm
<1>7. CASE \E i \in Invoices : WebhookCharges(h, i)
  BY <1>1, <1>4, <1>7, WebhookOwner DEF WebhookCharges
<1> QED
  BY <1>1, <1>5, <1>6, <1>7 DEF HandlerStep

\* The commit of a handler: what it means for the row of its user when nobody's
\* commit was missed, and that nobody else is concerned.
LEMMA CommitStep ==
    ASSUME TypeInv, NEW h \in Handlers, Commit(h)
    PROVE  /\ UNCHANGED <<run, day, job>>
           /\ \A v \in Users \ crossed' : InHand(v) => RowStep(v) /\ InHand(v)'
<1> USE DEF calendar, settings, people, bankside, money
<1> PICK t, u : t = txn[h] /\ u = t.user
  OBVIOUS
<1>1. t = txn[h] /\ u = t.user /\ t \in Handling /\ Sound(t) /\ u \in Users
  BY DEF TypeInv, TypeOK, HandlersSound, AtEase, Commit, Sound
<1>2. /\ UNCHANGED <<run, day, job>>
      /\ rows' = [rows EXCEPT ![u] = Merge(rows[u], t.read, Wanted(t), Stamped(t))]
      /\ card' = [card EXCEPT ![u] = IF t.cards = "keep" THEN card[u] ELSE t.cards = "file"]
      /\ recorded' = IF t.outcome = "paid" THEN [recorded EXCEPT ![u] = t.since] ELSE recorded
      /\ crossed' = IF Overtaken(h, u) THEN crossed \cup {u} ELSE crossed
  BY DEF Commit
<1>3. ASSUME NEW g \in Handlers
      PROVE  \/ g = h /\ txn'[g] = AtRest
             \/ g # h /\ txn'[g] = txn[g]
             \/ g # h /\ txn[g].user = u /\ txn'[g].user = u
  <2>1. txn[g] \in Handling
    BY DEF TypeInv, TypeOK
  <2>2. [txn[g] EXCEPT !.cards = "keep"].user = txn[g].user
    BY <2>1 DEF Handling
  <2> QED
    BY <2>2 DEF Commit
<1>4. ASSUME NEW v \in Users \ crossed', v # u, InHand(v)
      PROVE  RowStep(v) /\ InHand(v)'
  <2>1. RowKept(v) /\ run' = run
    BY <1>2, <1>4 DEF RowKept, TypeInv, TypeOK
  <2>2. ASSUME NEW g \in Handlers, txn'[g].user = v
        PROVE  txn'[g] = txn[g]
    BY <1>3, <1>4, <2>2, BillingAssumption DEF AtRest, BillingAssumption
  <2>3. InHand(v)'
    BY <1>4, <2>1, <2>2 DEF InHand, RowKept
  <2> QED
    BY <2>1, <2>3 DEF RowStep
<1>5. ASSUME u \notin crossed', InHand(u)
      PROVE  RowStep(u) /\ InHand(u)'
  <2>1. /\ run.progress[u] = "none" /\ \A g \in Handlers \ {h} : txn[g].user # u
        /\ t.read = rows[u] /\ (t.kind = "cancel" => t.cards = "drop")
    BY <1>1, <1>2, <1>5 DEF Overtaken, InHand
  <2>2. InHand(u)'
    <3>1. \A g \in Handlers : txn'[g].user # u
      BY <1>1, <1>3, <2>1, BillingAssumption DEF AtRest, BillingAssumption
    <3>2. run' = run
      BY <1>2
    <3> QED
      BY <2>1, <3>1, <3>2 DEF InHand
  <2>3. rows'[u] = Wanted(t)
    <3>1. rows[u] \in Row
      BY <1>1 DEF TypeInv, TypeOK
    <3>2. Merge(rows[u], t.read, Wanted(t), Stamped(t)) = Wanted(t)
      BY <1>1, <2>1, <3>1, WantedFacts, MergeFacts
    <3> QED
      BY <1>1, <1>2, <3>2 DEF TypeInv, TypeOK
  <2>4. /\ t.read \in Row /\ t.since \in Nat /\ t.since <= Here /\ t.kind \in Kind
        /\ t.outcome \in {"paid", "failed"} /\ (t.outcome = "paid" => t.kind = "webhook")
        /\ (t.outcome = "paid" => t.duration \in Durations /\ t.duration \in Nat)
    BY <1>1, BillingAssumption DEF Sound, Handling, BillingAssumption
  <2>5. RowStep(u)
    <3>1. CASE t.kind = "webhook" /\ t.outcome = "paid"
      <4>1. Wanted(t) = MarkActive(GetOrCreate(t.read), t.since, t.duration)
        BY <3>1 DEF Wanted
      <4>2. recorded'[u] = t.since
        BY <1>1, <1>2, <3>1 DEF TypeInv, TypeOK
      <4>3. PICK at \in Nat, ticks \in Durations, row \in Row :
                  /\ at = t.since /\ ticks = t.duration /\ row = GetOrCreate(t.read)
                  /\ ticks \in Nat /\ at <= Here
        BY <2>4, <3>1, GetOrCreateFacts
      <4>4. LET r == MarkActive(row, at, ticks)
            IN /\ r.status = "ACTIVE" /\ r.start = at /\ r.end = at + ticks
               /\ r.next = at + ticks /\ r.retry = 0
        BY <4>3, MarkActiveFacts
      <4> QED
        BY <2>3, <4>1, <4>2, <4>3, <4>4 DEF RowStep, RowPaid
    <3>2. CASE t.kind = "webhook" /\ t.outcome = "failed"
      <4>1. rows'[u] = FirstChargeFailed(GetOrCreate(t.read), t.since)
        BY <2>3, <3>2 DEF Wanted
      <4>2. PICK at \in Nat : at = t.since /\ at <= Here
        BY <2>4
      <4>3. LET r == FirstChargeFailed(GetOrCreate(t.read), at)
            IN r.status = "FAILED" /\ r.next = at + RetryTicks
        BY <2>4, GetOrCreateFacts, FirstChargeFailedFacts
      <4> QED
        BY <4>1, <4>2, <4>3 DEF RowStep, RowFailed
    <3>3. CASE t.kind = "cancel"
      <4>1. rows'[u] = CancelRow(t.read) /\ ~ card'[u]
        BY <1>1, <1>2, <2>1, <2>3, <3>3 DEF Wanted, TypeInv, TypeOK
      <4> QED
        BY <2>4, <4>1, CancelRowFacts DEF RowStep, RowCancelled
    <3>4. CASE t.kind = "promotion" /\ IsPermanent(t.read)
      <4>1. rows'[u] = rows[u]
        BY <2>1, <2>3, <3>4 DEF Wanted
      <4>2. t.cards # "drop" /\ t.cards # "file" => card'[u] = card[u]
        BY <1>1, <1>2 DEF TypeInv, TypeOK, Handling
      <4>3. IsPermanent(rows'[u])
        BY <2>1, <3>4, <4>1
      <4> QED
        BY <4>3 DEF RowStep, RowGranted, IsPermanent
    <3>5. CASE t.kind = "approval" \/ (t.kind = "promotion" /\ ~ IsPermanent(t.read))
      <4>1. rows'[u] = GrantPermanent(t.read, t.since)
        BY <2>3, <3>5 DEF Wanted
      <4> QED
        BY <2>4, <4>1, GrantPermanentFacts DEF RowStep, RowGranted
    <3>6. \/ /\ t.kind = "webhook"
             /\ (t.outcome = "paid" \/ t.outcome = "failed")
          \/ t.kind = "cancel" \/ t.kind = "approval" \/ t.kind = "promotion"
      BY <2>4 DEF Kind
    <3> QED
      BY <3>1, <3>2, <3>3, <3>4, <3>5, <3>6
  <2> QED
    BY <2>2, <2>5
<1>6. UNCHANGED <<run, day, job>>
  BY <1>2
<1>7. ASSUME NEW v \in Users \ crossed', InHand(v) PROVE RowStep(v) /\ InHand(v)'
  BY <1>4, <1>5, <1>7
<1> QED
  BY <1>6, <1>7

\* The job: its commit marks the users it has been through, every other step
\* leaves the rows alone, and what it knows of those it has listed stays true.
LEMMA JobMoves ==
    ASSUME TypeInv, RunInv, JobStep
    PROVE  /\ UNCHANGED <<day, card>> /\ RunInv'
           /\ \A v \in Users \ crossed' : InHand(v) => RowStep(v) /\ InHand(v)'
<1> USE DEF calendar, settings, people, bankside, money, work
<1>1. /\ run \in Run /\ rows \in [Users -> Row] /\ Here \in Nat /\ UNCHANGED <<day, card, txn>>
      /\ run.duration \in Nat /\ \A u \in Users : run.read[u] \in Row
  BY HereFacts DEF TypeInv, TypeOK, Run, JobStep, ListDue, ChargeDue, FollowUp, CommitCharges,
     ListExpired, ExpireCancelled, CommitExpired, RunAborts
<1>2. \A u \in Users : NoRun.progress[u] = "none"
  BY DEF NoRun
<1>3. CASE CommitCharges
  <2>1. RunInv'
    BY <1>3 DEF CommitCharges, RunInv
  <2>2. ASSUME NEW v \in Users \ crossed', InHand(v) PROVE RowStep(v) /\ InHand(v)'
    <3>1. InHand(v)'
      <4>1. run' = NoRun /\ (v \in Processed => \A h \in Handlers : txn[h].user # v)
            /\ (v \notin Processed => rows'[v] = rows[v])
        BY <1>3, <2>2 DEF CommitCharges
      <4> QED
        BY <1>1, <1>2, <2>2, <4>1 DEF InHand
    <3>2. CASE v \notin Processed
      <4>1. rows'[v] = rows[v] /\ recorded'[v] = recorded[v] /\ card'[v] = card[v]
        BY <1>1, <1>3, <3>2 DEF CommitCharges, Processed
      <4> QED
        BY <3>1, <4>1 DEF RowStep, RowKept
    <3>3. CASE v \in Processed
      <4>1. run.read[v] = rows[v] /\ job = "charging" /\ run.duration \in Durations
        BY <1>3, <2>2, <3>3 DEF InHand, Processed, CommitCharges, RunInv
      <4>2. rows'[v] = Merge(rows[v], run.read[v], Marked(v), StampedBy(run.progress[v]))
        BY <1>3, <3>3 DEF CommitCharges
      <4>3. CASE run.progress[v] = "paid"
        <5>1. Marked(v) = MarkActive(run.read[v], Here, run.duration) /\ recorded'[v] = Here
          BY <1>3, <4>3 DEF Marked, CommitCharges
        <5>2. PICK at \in Nat, ticks \in Durations, row \in Row :
                    /\ at = Here /\ ticks = run.duration /\ row = run.read[v]
                    /\ ticks \in Nat /\ at <= Here
          BY <1>1, <4>1
        <5>3. LET r == MarkActive(row, at, ticks)
              IN /\ r \in Row /\ r.trialEnd = row.trialEnd
                 /\ r.status = "ACTIVE" /\ r.start = at /\ r.end = at + ticks
                 /\ r.next = at + ticks /\ r.retry = 0
          BY <5>2, MarkActiveFacts
        <5>4. Marked(v) \in Row /\ Marked(v).trialEnd = run.read[v].trialEnd
          BY <5>1, <5>2, <5>3
        <5>5. "trialEnd" \notin StampedBy(run.progress[v])
          BY DEF StampedBy
        <5>6. rows'[v] = Marked(v)
          BY <1>1, <4>1, <4>2, <5>4, <5>5, MergeFacts
        <5> QED
          BY <3>1, <5>1, <5>2, <5>3, <5>6 DEF RowStep, RowPaid
      <4>4. CASE run.progress[v] # "paid"
        <5>1. Marked(v) = MarkFailed(run.read[v], Here)
          BY <4>4 DEF Marked
        <5>2. /\ Marked(v) \in Row /\ Marked(v).trialEnd = run.read[v].trialEnd
              /\ Marked(v).status = "FAILED" /\ Marked(v).next = Here + RetryTicks
          <6>1. PICK row \in Row : row = run.read[v]
            BY <1>1
          <6>2. Here \in Nat
            BY <1>1
          <6> QED
            BY <5>1, <6>1, <6>2, MarkFailedFacts
        <5>3. "trialEnd" \notin StampedBy(run.progress[v])
          BY DEF StampedBy
        <5>4. rows'[v] = Marked(v)
          BY <1>1, <4>1, <4>2, <5>2, <5>3, MergeFacts
        <5>5. Here <= Here
          BY <1>1
        <5> QED
          BY <1>1, <3>1, <5>2, <5>4, <5>5 DEF RowStep, RowFailed
      <4> QED
        BY <4>3, <4>4
    <3> QED
      BY <3>1, <3>2, <3>3
  <2> QED
    BY <1>1, <2>1, <2>2
<1>4. ASSUME UNCHANGED <<rows, recorded, crossed>>,
             \A v \in Users : run'.progress[v] # "none" =>
                \/ run'.read[v] = rows[v]
                \/ run'.read[v] = run.read[v] /\ run.progress[v] # "none"
      PROVE  \A v \in Users \ crossed' : InHand(v) => RowStep(v) /\ InHand(v)'
  BY <1>1, <1>4 DEF RowStep, RowKept, InHand
<1>5. CASE ListDue
  <2>1. /\ UNCHANGED <<rows, recorded, crossed>> /\ job' = "charging" /\ run'.duration = duration
        /\ \A u \in Users : run'.progress[u] # "none" => u \in DueUsers /\ run'.read[u] = rows[u]
    BY <1>5 DEF ListDue, Listing
  <2>2. RunInv'
    BY <1>1, <2>1 DEF RunInv, DueUsers, TypeInv, TypeOK
  <2> QED
    BY <1>1, <1>4, <2>1, <2>2
<1>6. CASE ListExpired
  <2>1. PICK before : run' = Listing(ExpiredUsers(before))
    BY <1>6 DEF ListExpired
  <2>2. /\ UNCHANGED <<rows, recorded, crossed>> /\ job' = "expiring"
        /\ \A u \in Users : run'.progress[u] # "none" =>
              u \in ExpiredUsers(before) /\ run'.read[u] = rows[u]
    BY <1>6, <2>1 DEF ListExpired, Listing
  <2>3. RunInv'
    BY <2>2 DEF RunInv, ExpiredUsers, CancelledExpired
  <2> QED
    BY <1>1, <1>4, <2>2, <2>3
<1>7. CASE CommitExpired \/ RunAborts
  <2>1. UNCHANGED <<rows, recorded, crossed>> /\ job' = "idle" /\ run' = NoRun
    BY <1>7 DEF CommitExpired, RunAborts
  <2>2. RunInv'
    BY <2>1 DEF RunInv
  <2> QED
    BY <1>1, <1>2, <1>4, <2>1, <2>2
<1>8. CASE \E u \in Users : ChargeDue(u) \/ FollowUp(u) \/ ExpireCancelled(u)
  <2>1. /\ UNCHANGED <<rows, recorded, crossed, job>>
        /\ run'.read = run.read /\ run'.duration = run.duration
        /\ \A v \in Users : run'.progress[v] # "none" => run.progress[v] # "none"
    <3>1. UNCHANGED <<rows, recorded, crossed, job>>
      BY <1>8 DEF ChargeDue, FollowUp, ExpireCancelled
    <3>2. CASE \E u \in Users : ChargeDue(u) \/ ExpireCancelled(u)
      <4> PICK u \in Users : ChargeDue(u) \/ ExpireCancelled(u)
        BY <3>2
      <4>1. PICK p, c : run' = [run EXCEPT !.progress = [run.progress EXCEPT ![u] = p], !.calls = c]
        <5>1. CASE ChargeDue(u)
          BY <5>1 DEF ChargeDue
        <5>2. CASE ExpireCancelled(u)
          <6>1. run' = [run EXCEPT !.progress = [run.progress EXCEPT ![u] = "none"]]
            BY <5>2 DEF ExpireCancelled
          <6>2. [run EXCEPT !.progress = [run.progress EXCEPT ![u] = "none"]] =
                [run EXCEPT !.progress = [run.progress EXCEPT ![u] = "none"], !.calls = run.calls]
            BY <1>1 DEF Run
          <6> QED
            BY <6>1, <6>2
        <5> QED
          BY <5>1, <5>2
      <4>2. run.progress[u] = "listed" /\ run.progress \in [Users -> Progress]
        BY <1>1 DEF ChargeDue, ExpireCancelled, Run
      <4>3. /\ run'.read = run.read /\ run'.duration = run.duration
            /\ run'.progress = [run.progress EXCEPT ![u] = p]
        BY <1>1, <4>1 DEF Run
      <4> QED
        BY <3>1, <4>2, <4>3
    <3>3. CASE \E u \in Users : FollowUp(u)
      <4>1. run'.read = run.read /\ run'.duration = run.duration /\ run'.progress = run.progress
        BY <1>1, <3>3 DEF FollowUp, Run
      <4> QED
        BY <3>1, <4>1
    <3> QED
      BY <1>8, <3>2, <3>3
  <2>2. RunInv'
    BY <1>1, <2>1 DEF RunInv
  <2> QED
    BY <1>1, <1>4, <2>1, <2>2
<1> QED
  BY <1>3, <1>5, <1>6, <1>7, <1>8 DEF JobStep

(***************************************************************************)
(* The inductive invariant: types, what the job and whoever has a user in  *)
(* hand knows of the row, and the three row invariants, which support each *)
(* other only through the case a step falls into.                          *)
(***************************************************************************)

RowInv == InertWithoutSubscription /\ PaidPeriodOnRecord /\ RetryScheduled

IInv == /\ TypeInv /\ RunInv /\ RowInv
        /\ \A v \in Users \ crossed : InHand(v)

\* Initially there are only missing rows and legacy trials with a card on file,
\* and nothing is under way.
LEMMA IInvInit == Init => IInv
<1> SUFFICES ASSUME Init PROVE RowInv /\ RunInv /\ \A v \in Users : InHand(v)
  BY TypeInvInit DEF IInv
<1>1. ASSUME NEW u \in Users
      PROVE  \/ rows[u].status = Absent /\ rows[u].next = None /\ ~ card[u]
             \/ rows[u].status = "TRIAL" /\ rows[u].next # None
  <2>1. CASE rows[u] = NoRow
    <3>1. rows[u].status = Absent /\ rows[u].next = None /\ rows[u].status # "TRIAL"
      BY <2>1 DEF NoRow, Absent
    <3> QED
      BY <3>1 DEF Init
  <2>2. CASE \E t \in TrialEnds : rows[u] = LegacyTrial(t)
    BY <2>2, BillingAssumption DEF NoRow, LegacyTrial, None, BillingAssumption
  <2> QED
    BY <2>1, <2>2 DEF Init
<1>2. RowInv
  BY <1>1 DEF RowInv, InertWithoutSubscription, PaidPeriodOnRecord, RetryScheduled, Absent
<1>3. RunInv
  BY DEF Init, RunInv
<1>4. \A v \in Users : InHand(v)
  BY BillingAssumption DEF Init, InHand, NoRun, AtRest, BillingAssumption
<1> QED
  BY <1>2, <1>3, <1>4

\* Every step is one of the five for every user whose transactions took effect
\* one after the other, and the clock does not go back.
LEMMA StepCases ==
    ASSUME IInv, [Next]_vars
    PROVE  /\ RunInv' /\ Here \in Nat /\ Here' \in Nat /\ Here' >= Here /\ crossed \subseteq crossed'
           /\ \A v \in Users \ crossed' : RowStep(v) /\ InHand(v)'
<1>1. TypeInv /\ RunInv /\ \A v \in Users \ crossed : InHand(v)
  BY DEF IInv
<1>2. Here \in Nat
  BY <1>1, HereFacts DEF TypeInv, TypeOK
<1>3. CASE \/ \E u \in Users : UserStep(u)
           \/ \E i \in Invoices : BankStep(i)
           \/ SetChannel \/ (\E d \in Durations : SetDuration(d)) \/ NewDay \/ MissedRun
  <2>1. /\ UNCHANGED <<rows, card, recorded, run, txn, crossed>> /\ RunInv'
        /\ Here' \in Nat /\ Here \in Nat /\ Here' >= Here
    BY <1>1, <1>3, Elsewhere
  <2>2. \A v \in Users \ crossed' : RowStep(v) /\ InHand(v)'
    BY <1>1, <2>1 DEF RowStep, RowKept, InHand
  <2> QED
    BY <2>1, <2>2
<1>4. ASSUME NEW h \in Handlers, HandlerStep(h), ~ Commit(h)
      PROVE  /\ UNCHANGED <<rows, card, recorded, run, crossed, day, job>>
             /\ \A v \in Users \ crossed' : RowStep(v) /\ InHand(v)'
  <2>1. /\ UNCHANGED <<rows, card, recorded, run, crossed, day, job>>
        /\ \A v \in Users : InHand(v) => InHand(v)'
    BY <1>1, <1>4, HandlerMoves
  <2> QED
    BY <1>1, <2>1 DEF RowStep, RowKept
<1>5. CASE \E h \in Handlers : HandlerStep(h) /\ ~ Commit(h)
  <2>1. /\ UNCHANGED <<run, crossed, day, job>>
        /\ \A v \in Users \ crossed' : RowStep(v) /\ InHand(v)'
    BY <1>4, <1>5
  <2>2. Here' = Here /\ RunInv'
    BY <1>1, <2>1 DEF RunInv, Here, RestOfDay
  <2> QED
    BY <1>2, <2>1, <2>2
<1>6. CASE \E h \in Handlers : Commit(h)
  <2> PICK h \in Handlers : Commit(h)
    BY <1>6
  <2>1. /\ UNCHANGED <<run, day, job>>
        /\ \A v \in Users \ crossed' : InHand(v) => RowStep(v) /\ InHand(v)'
    BY <1>1, CommitStep
  <2>2. crossed \subseteq crossed'
    BY DEF Commit
  <2>3. Here' = Here /\ RunInv'
    BY <1>1, <2>1 DEF RunInv, Here, RestOfDay
  <2> QED
    BY <1>1, <1>2, <2>1, <2>2, <2>3
<1>7. CASE JobStep
  <2>1. /\ UNCHANGED <<day, card>> /\ RunInv'
        /\ \A v \in Users \ crossed' : InHand(v) => RowStep(v) /\ InHand(v)'
    BY <1>1, <1>7, JobMoves
  <2>2. crossed \subseteq crossed'
    BY <1>7 DEF JobStep, ListDue, ChargeDue, FollowUp, CommitCharges, ListExpired,
       ExpireCancelled, CommitExpired, RunAborts
  <2>3. Here' = Here
    BY <2>1 DEF Here, RestOfDay
  <2> QED
    BY <1>1, <1>2, <2>1, <2>2, <2>3
<1>8. CASE UNCHANGED vars
  <2>1. UNCHANGED <<rows, card, recorded, run, txn, crossed, day, job>>
    BY <1>8 DEF vars, calendar, money, work
  <2> QED
    BY <1>1, <1>2, <2>1 DEF RowStep, RowKept, InHand, RunInv, Here, RestOfDay
<1> QED
  BY <1>3, <1>5, <1>6, <1>7, <1>8 DEF Next, HandlerStep

\* The inductive invariant survives every step.
LEMMA IInvNext == IInv /\ [Next]_vars => IInv'
<1> SUFFICES ASSUME IInv, [Next]_vars PROVE IInv'
  OBVIOUS
<1>1. TypeInv /\ TypeInv' /\ RowInv
  BY TypeInvNext DEF IInv
<1>2. /\ RunInv' /\ Here \in Nat /\ Here' \in Nat /\ Here' >= Here /\ crossed \subseteq crossed'
      /\ \A v \in Users \ crossed' : RowStep(v) /\ InHand(v)'
  BY StepCases
<1>3. RetryTicks = 2 /\ None = -1 /\ Durations \subseteq Nat \ {0}
  BY BillingAssumption DEF RetryTicks, TicksPerDay, None, BillingAssumption
<1>4. ASSUME NEW v \in Users \ crossed'
      PROVE  /\ rows'[v].status \in {"CANCELLED", "WAITING", Absent} =>
                   ~ card'[v] /\ rows'[v].next = None
             /\ rows'[v].status = "ACTIVE" /\ rows'[v].end # None =>
                   /\ rows'[v].start = recorded'[v]
                   /\ rows'[v].next = rows'[v].end /\ rows'[v].end > rows'[v].start
                   /\ rows'[v].retry = 0
             /\ rows'[v].status = "FAILED" =>
                   rows'[v].next # None /\ rows'[v].next <= Here' + RetryTicks
             /\ rows'[v].status = "TRIAL" => rows'[v].next # None
  <2>1. RowStep(v) /\ v \in Users \ crossed /\ rows[v] \in Row
    BY <1>1, <1>2 DEF TypeInv, TypeOK
  <2>2. CASE RowKept(v)
    BY <1>1, <1>2, <1>3, <2>1, <2>2
    DEF RowKept, RowInv, InertWithoutSubscription, PaidPeriodOnRecord, RetryScheduled, Row, Time
  <2>3. CASE RowPaid(v)
    BY <1>3, <2>3 DEF RowPaid, Absent
  <2>4. CASE RowFailed(v)
    BY <1>2, <1>3, <2>4 DEF RowFailed, Absent
  <2>5. CASE RowCancelled(v)
    BY <2>5 DEF RowCancelled, Absent
  <2>6. CASE RowGranted(v)
    BY <2>6 DEF RowGranted, Absent
  <2> QED
    BY <2>1, <2>2, <2>3, <2>4, <2>5, <2>6 DEF RowStep
<1>5. RowInv'
  BY <1>4 DEF RowInv, InertWithoutSubscription, PaidPeriodOnRecord, RetryScheduled
<1> QED
  BY <1>1, <1>2, <1>5 DEF IInv

\* The inductive invariant holds in every behaviour.
THEOREM IInvHolds == Spec => []IInv
BY IInvInit, IInvNext, PTL DEF Spec

\* No card is on file and nothing is scheduled for a cancelled or never started
\* subscription of a user none of whose transactions missed another's commit:
\* cancelling stops billing on every path.
THEOREM InertHolds == Spec => []InertWithoutSubscription
<1>1. IInv => InertWithoutSubscription
  BY DEF IInv, RowInv
<1> QED
  BY IInvHolds, <1>1, PTL

\* A paid period of such a user starts with a payment on record and is renewed
\* when it ends.
THEOREM PaidPeriodHolds == Spec => []PaidPeriodOnRecord
<1>1. IInv => PaidPeriodOnRecord
  BY DEF IInv, RowInv
<1> QED
  BY IInvHolds, <1>1, PTL

\* Such a user who still has to be charged always has a date for it.
THEOREM RetryScheduledHolds == Spec => []RetryScheduled
<1>1. IInv => RetryScheduled
  BY DEF IInv, RowInv
<1> QED
  BY IInvHolds, <1>1, PTL

-----------------------------------------------------------------------------
(***************************************************************************)
(* The job puts no paid-up user out of the chat.                           *)
(***************************************************************************)

\* Only the two loops of the job make a member leave.
LEMMA MembersKept ==
    ASSUME TypeInv, Next, NEW v \in Users, door[v].member, ~ FollowUp(v), ~ ExpireCancelled(v)
    PROVE  door'[v].member
<1>1. door[v] \in Door /\ door \in [Users -> Door]
  BY DEF TypeInv, TypeOK
<1>2. SendLink(door[v]).member
  BY <1>1, DoorFacts
<1>3. ASSUME NEW u \in Users, UserStep(u) PROVE door'[v].member
  <2>1. CASE ResendInvite(u)
    BY <1>1, <1>2, <2>1 DEF ResendInvite
  <2>2. CASE Join(u)
    BY <1>1, <2>2 DEF Join, Door
  <2>3. CASE \/ \E r \in Roles : ChangeRole(u, r)
             \/ \E i \in Invoices : ConfirmPaymentMethod(u, i) \/ ConfirmRollsBack(u, i)
             \/ CancelStart(u)
    BY <2>3 DEF ChangeRole, ConfirmPaymentMethod, ConfirmRollsBack, CancelStart
  <2> QED
    BY <1>3, <2>1, <2>2, <2>3 DEF UserStep
<1>4. ASSUME NEW h \in Handlers, HandlerStep(h) PROVE door'[v].member
  <2>1. CASE GiveLink(h)
    BY <1>1, <1>2, <2>1 DEF GiveLink
  <2>2. CASE ~ GiveLink(h)
    BY <1>4, <2>2 DEF HandlerStep, Approve, PromoteToSupervisor, CancelConfirm, WebhookCharges,
       BankAnswers, Commit, RollBack
  <2> QED
    BY <2>1, <2>2
<1>5. ASSUME NEW i \in Invoices, BankStep(i) PROVE door'[v].member
  BY <1>5 DEF BankStep, BankResolves, WebhookUnknown, WebhookFinal, WebhookNoToken
<1>6. CASE SetChannel \/ (\E d \in Durations : SetDuration(d)) \/ NewDay \/ MissedRun
  BY <1>6 DEF SetChannel, SetDuration, NewDay, MissedRun
<1>7. CASE JobStep
  <2>1. ASSUME NEW u \in Users, FollowUp(u) \/ ExpireCancelled(u) PROVE door'[v] = door[v]
    <3>1. u # v
      BY <2>1
    <3> QED
      BY <1>1, <2>1, <3>1 DEF FollowUp, ExpireCancelled
  <2> QED
    BY <1>7, <2>1 DEF JobStep, ListDue, ChargeDue, CommitCharges, ListExpired, CommitExpired,
       RunAborts
<1> QED
  BY <1>3, <1>4, <1>5, <1>6, <1>7 DEF Next

\* Neither loop puts a paid-up user out, as long as the row it goes by is the one
\* there is.
THEOREM PaidUpStays == Spec => PaidUpNeverExpelled
<1>1. ASSUME IInv, Next, NEW v \in Users \ crossed, PaidUp(v), door[v].member
      PROVE  door'[v].member
  <2>1. /\ TypeInv /\ RunInv /\ v \in Users /\ InHand(v) /\ rows[v] \in Row
        /\ JobInstant(day) \in Nat /\ run \in Run
    BY <1>1, HereFacts DEF IInv, TypeInv, TypeOK
  <2>2. rows[v].status = "ACTIVE" /\ (rows[v].end # None => rows[v].next = rows[v].end)
    BY <1>1 DEF PaidUp, IInv, RowInv, PaidPeriodOnRecord
  <2>3. ~ Due(rows[v], JobInstant(day))
    BY <1>1, <2>1, <2>2 DEF PaidUp, Due, Row, Time, None
  <2>4. CASE FollowUp(v)
    <3>1. run.progress[v] = "none"
      BY <2>1, <2>3, <2>4 DEF InHand, RunInv, FollowUp
    <3>2. door' = door
      BY <2>1, <2>4, <3>1 DEF FollowUp, DoorsAfter, TypeInv, TypeOK
    <3> QED
      BY <1>1, <3>2
  <2>5. ~ ExpireCancelled(v)
    BY <2>1, <2>2 DEF InHand, RunInv, ExpireCancelled
  <2> QED
    BY <1>1, <2>1, <2>4, <2>5, MembersKept
<1>2. IInv /\ [Next]_vars =>
        [\A u \in Users \ crossed : PaidUp(u) /\ door[u].member => door'[u].member]_vars
  BY <1>1
<1> QED
  BY IInvHolds, <1>2, PTL DEF Spec, PaidUpNeverExpelled

-----------------------------------------------------------------------------
(***************************************************************************)
(* Subscriptions implements CardMandate, whatever overlaps.                *)
(***************************************************************************)

\* Merging never writes the date of a legacy trial.
LEMMA TrialEndKept ==
    ASSUME TypeInv, [Next]_vars
    PROVE  \A v \in Users : rows'[v].trialEnd = rows[v].trialEnd
<1> USE DEF calendar, settings, people, bankside, money, work
<1>1. rows \in [Users -> Row]
  BY DEF TypeInv, TypeOK
<1>2. CASE \E h \in Handlers : Commit(h)
  <2> PICK h \in Handlers : Commit(h)
    BY <1>2
  <2> PICK t, u : t = txn[h] /\ u = t.user
    OBVIOUS
  <2>1. t \in Handling /\ Sound(t) /\ u \in Users /\ t.read \in Row /\ rows[u] \in Row
    BY <1>1 DEF TypeInv, TypeOK, HandlersSound, AtEase, Commit, Sound, Handling
  <2>2. rows' = [rows EXCEPT ![u] = Merge(rows[u], t.read, Wanted(t), Stamped(t))]
    BY DEF Commit
  <2>3. Merge(rows[u], t.read, Wanted(t), Stamped(t)).trialEnd = rows[u].trialEnd
    BY <2>1, WantedFacts, MergeFacts
  <2> QED
    BY <1>1, <2>1, <2>2, <2>3
<1>3. CASE CommitCharges
  <2>1. ASSUME NEW v \in Processed
        PROVE  Merge(rows[v], run.read[v], Marked(v), StampedBy(run.progress[v])).trialEnd
                  = rows[v].trialEnd
    <3>1. rows[v] \in Row
      BY <1>1 DEF Processed
    <3>2. /\ run.read[v] \in Row /\ Marked(v) \in Row
          /\ Marked(v).trialEnd = run.read[v].trialEnd
      BY MarkedFacts DEF TypeInv, TypeOK, Run, Processed
    <3> QED
      BY <3>1, <3>2, MergeFacts DEF StampedBy
  <2> QED
    BY <1>3, <2>1 DEF CommitCharges
<1>4. CASE UNCHANGED rows
  BY <1>4
<1>5. \/ UNCHANGED rows \/ CommitCharges \/ \E h \in Handlers : Commit(h)
  BY DEF Next, vars, UserStep, ChangeRole, ConfirmPaymentMethod, ConfirmRollsBack, CancelStart,
     ResendInvite, Join, HandlerStep, Approve, PromoteToSupervisor, CancelConfirm, WebhookCharges,
     BankAnswers, GiveLink, RollBack, BankStep, BankResolves, WebhookUnknown, WebhookFinal,
     WebhookNoToken, SetChannel, SetDuration, NewDay, MissedRun, JobStep, ListDue, ChargeDue,
     FollowUp, ListExpired, ExpireCancelled, CommitExpired, RunAborts
<1> QED
  BY <1>2, <1>3, <1>4, <1>5

\* A step that keeps the trial dates, the bank's view and every owner of a
\* resolved invoice confirms nobody.
LEMMA ConfirmedKept ==
    ASSUME \A u \in Users : rows'[u].trialEnd = rows[u].trialEnd,
           bank' = bank,
           \A i \in Invoices : invoice'[i].user = invoice[i].user \/ ~ CarriesToken(i)
    PROVE  Confirmed' = Confirmed
BY DEF Confirmed, CarriesToken

\* Charging one user changes the tally of no one else.
LEMMA TakenOnlyFrom ==
    ASSUME TypeOK, NEW u \in Users, NEW result, Charge(u, result)
    PROVE  Mandate!OnlyTakenFrom({u})
BY ChargeTypes DEF Mandate!OnlyTakenFrom, Charge, TypeOK

\* Initially a card is on file exactly for the legacy trials.
LEMMA MandateInit == Init => Mandate!Init
<1> SUFFICES ASSUME Init PROVE Mandate!Init
  OBVIOUS
<1>1. ASSUME NEW u \in Users PROVE card[u] <=> rows[u].trialEnd # None
  <2>1. CASE rows[u] = NoRow
    <3>1. rows[u].trialEnd = None /\ rows[u].status # "TRIAL"
      BY <2>1 DEF NoRow, Absent
    <3> QED
      BY <3>1 DEF Init
  <2>2. CASE \E t \in TrialEnds : rows[u] = LegacyTrial(t)
    <3>1. rows[u].trialEnd # None /\ rows[u].status = "TRIAL"
      BY <2>2, BillingAssumption DEF NoRow, LegacyTrial, None, BillingAssumption
    <3> QED
      BY <3>1 DEF Init
  <2> QED
    BY <2>1, <2>2 DEF Init
<1>2. \A i \in Invoices : ~ CarriesToken(i)
  BY DEF Init, CarriesToken
<1>3. card \in [Users -> BOOLEAN]
  BY DEF Init
<1>4. Confirmed = card
  BY <1>1, <1>2, <1>3 DEF Confirmed, CarriesToken
<1> QED
  BY <1>3, <1>4 DEF Mandate!Init, Init

\* A step that concerns neither the bank's view, the invoices, the cards nor the
\* money is invisible to the mandate.
LEMMA MandateStutters ==
    ASSUME TypeInv, [Next]_vars, UNCHANGED <<bank, invoice, card, taken>>
    PROVE  UNCHANGED <<card, Confirmed, taken>>
BY TrialEndKept, ConfirmedKept

\* Steps of users: opening an invoice confirms nothing.
LEMMA MandateUser ==
    ASSUME TypeInv, [Next]_vars, NEW u \in Users, UserStep(u)
    PROVE  UNCHANGED <<card, Confirmed, taken>>
<1> USE DEF money, bankside
<1>1. CASE \E i \in Invoices : ConfirmPaymentMethod(u, i) \/ ConfirmRollsBack(u, i)
  <2> PICK i \in Invoices : ConfirmPaymentMethod(u, i) \/ ConfirmRollsBack(u, i)
    BY <1>1
  <2>1. bank[i] = "open" /\ UNCHANGED <<bank, card, taken>>
    BY DEF ConfirmPaymentMethod, ConfirmRollsBack, TypeInv, InvoicesOwned
  <2>2. \A j \in Invoices : j # i => invoice'[j] = invoice[j]
    BY DEF ConfirmPaymentMethod, ConfirmRollsBack, TypeInv, TypeOK
  <2>3. Confirmed' = Confirmed
    BY <2>1, <2>2, TrialEndKept, ConfirmedKept DEF CarriesToken
  <2> QED
    BY <2>1, <2>3
<1>2. CASE (\E r \in Roles : ChangeRole(u, r)) \/ CancelStart(u) \/ ResendInvite(u) \/ Join(u)
  BY <1>2, MandateStutters DEF ChangeRole, CancelStart, ResendInvite, Join
<1> QED
  BY <1>1, <1>2 DEF UserStep

\* Steps of handlers: the charge of a webhook and its commit present what the
\* customer has confirmed, a cancellation withdraws the mandate.
LEMMA MandateHandler ==
    ASSUME TypeInv, [Next]_vars, NEW h \in Handlers, HandlerStep(h)
    PROVE  Mandate!Next \/ UNCHANGED <<card, Confirmed, taken>>
<1> USE DEF money, bankside
<1> PICK t, u : t = txn[h] /\ u = t.user
  OBVIOUS
<1>1. t = txn[h] /\ u = t.user /\ t \in Handling
      /\ (t.at # "idle" => Sound(t) /\ u \in Users)
  BY DEF TypeInv, TypeOK, HandlersSound, AtEase, Sound
<1>2. ASSUME t.kind = "webhook", Sound(t) PROVE Confirmed[u]
  BY <1>1, <1>2 DEF Sound, Resolved, Confirmed, CarriesToken
<1>3. ASSUME bank' = bank, invoice' = invoice PROVE Confirmed' = Confirmed
  BY <1>3, TrialEndKept, ConfirmedKept
<1>4. CASE BankAnswers(h)
  <2>1. u \in Users /\ t.kind = "webhook" /\ Sound(t)
    BY <1>1, <1>4 DEF BankAnswers, Sound
  <2>2. Confirmed[u] /\ Confirmed' = Confirmed /\ card' = card
    BY <1>2, <1>3, <1>4, <2>1 DEF BankAnswers
  <2>3. Mandate!OnlyTakenFrom({u})
    BY <1>1, <1>4, <2>1, TakenOnlyFrom DEF BankAnswers, TypeInv
  <2>4. card' = [card EXCEPT ![u] = card[u]]
    BY <2>2 DEF TypeInv, TypeOK
  <2>5. Mandate!Present(u)
    BY <2>2, <2>3, <2>4 DEF Mandate!Present
  <2> QED
    BY <2>1, <2>5 DEF Mandate!Next
<1>5. CASE Commit(h)
  <2>1. u \in Users /\ Sound(t)
    BY <1>1, <1>5 DEF Commit
  <2>2. /\ Confirmed' = Confirmed /\ taken' = taken
        /\ card' = [card EXCEPT ![u] = IF t.cards = "keep" THEN card[u] ELSE t.cards = "file"]
    BY <1>1, <1>3, <1>5 DEF Commit
  <2>3. CASE t.cards = "file"
    <3>1. Confirmed[u]
      BY <1>2, <2>1, <2>3 DEF Sound
    <3>2. Mandate!OnlyTakenFrom({u})
      BY <2>2 DEF Mandate!OnlyTakenFrom, TypeInv, TypeOK
    <3>3. card' = [card EXCEPT ![u] = TRUE]
      BY <2>2, <2>3
    <3>4. Mandate!Present(u)
      BY <2>2, <3>1, <3>2, <3>3 DEF Mandate!Present
    <3> QED
      BY <2>1, <3>4 DEF Mandate!Next
  <2>4. CASE t.cards = "drop"
    <3>1. card' = [card EXCEPT ![u] = FALSE]
      BY <2>2, <2>4
    <3> QED
      BY <2>1, <2>2, <3>1 DEF Mandate!Next, Mandate!Withdraw
  <2>5. CASE t.cards = "keep"
    BY <2>2, <2>5 DEF TypeInv, TypeOK
  <2> QED
    BY <1>1, <2>3, <2>4, <2>5 DEF Handling
<1>6. CASE ~ BankAnswers(h) /\ ~ Commit(h)
  <2>1. UNCHANGED <<bank, invoice, card, taken>>
    BY <1>6 DEF HandlerStep, Approve, PromoteToSupervisor, CancelConfirm, WebhookCharges, Deliver,
       GiveLink, RollBack
  <2> QED
    BY <2>1, MandateStutters
<1> QED
  BY <1>4, <1>5, <1>6

\* Steps of the bank: a verification confirms its owner.
LEMMA MandateBank ==
    ASSUME TypeInv, [Next]_vars, NEW i \in Invoices, BankStep(i)
    PROVE  Mandate!Next \/ UNCHANGED <<card, Confirmed, taken>>
<1> USE DEF money, bankside
<1>1. CASE BankResolves(i)
  <2> PICK u : u = invoice[i].user
    OBVIOUS
  <2>1. UNCHANGED <<card, taken, rows, invoice>> /\ u = invoice[i].user
    BY <1>1 DEF BankResolves
  <2>2. \A j \in Invoices : j # i => (CarriesToken(j)' <=> CarriesToken(j))
    BY <1>1 DEF BankResolves, TypeInv, TypeOK, CarriesToken
  <2>3. CASE u \in Users /\ CarriesToken(i)'
    <3>1. Confirmed' = [Confirmed EXCEPT ![u] = TRUE]
      BY <2>1, <2>2, <2>3 DEF Confirmed, CarriesToken
    <3> QED
      BY <2>1, <2>3, <3>1 DEF Mandate!Next, Mandate!Confirm
  <2>4. CASE ~ CarriesToken(i)'
    <3>1. ~ CarriesToken(i)
      BY <1>1, <2>4 DEF BankResolves, TypeInv, TypeOK, CarriesToken
    <3>2. Confirmed' = Confirmed
      BY <2>1, <2>2, <2>4, <3>1 DEF Confirmed, CarriesToken
    <3> QED
      BY <2>1, <3>2
  <2>5. CASE u \notin Users
    <3>1. Confirmed' = Confirmed
      BY <2>1, <2>2, <2>5 DEF Confirmed, CarriesToken
    <3> QED
      BY <2>1, <3>1
  <2> QED
    BY <2>3, <2>4, <2>5
<1>2. CASE WebhookUnknown(i) \/ WebhookFinal(i) \/ WebhookNoToken(i)
  <2>1. UNCHANGED <<bank, invoice, card, taken>>
    BY <1>2 DEF WebhookUnknown, WebhookFinal, WebhookNoToken, Deliver
  <2> QED
    BY <2>1, MandateStutters
<1> QED
  BY <1>1, <1>2 DEF BankStep

\* Steps of the job: it collects only from a user whose card is on file.
LEMMA MandateJob ==
    ASSUME TypeInv, [Next]_vars,
           \/ SetChannel \/ \E d \in Durations : SetDuration(d)
           \/ NewDay \/ MissedRun \/ JobStep
    PROVE  Mandate!Next \/ UNCHANGED <<card, Confirmed, taken>>
<1> USE DEF money, bankside
<1>1. CASE \E u \in Users : ChargeDue(u)
  <2> PICK u \in Users : ChargeDue(u)
    BY <1>1
  <2> PICK result \in PossibleResults(u) : Charge(u, result)
    BY DEF ChargeDue
  <2>1. UNCHANGED <<bank, invoice, card>>
    BY DEF ChargeDue
  <2>2. Confirmed' = Confirmed
    BY <2>1, TrialEndKept, ConfirmedKept
  <2>3. CASE card[u]
    <3>1. Mandate!OnlyTakenFrom({u})
      BY TakenOnlyFrom DEF TypeInv
    <3>2. Mandate!OnlyTakenFrom({v \in Users : card[v]})
      BY <2>3, <3>1 DEF Mandate!OnlyTakenFrom
    <3> QED
      BY <2>1, <2>2, <3>2 DEF Mandate!Next, Mandate!Collect
  <2>4. CASE ~ card[u]
    <3>1. result = "refused"
      BY <2>4 DEF PossibleResults
    <3>2. taken' = taken
      BY <3>1 DEF Charge, TypeInv, TypeOK
    <3> QED
      BY <2>1, <2>2, <3>2
  <2> QED
    BY <2>3, <2>4
<1>2. CASE ~ \E u \in Users : ChargeDue(u)
  <2>1. UNCHANGED <<bank, invoice, card, taken>>
    BY <1>2 DEF SetChannel, SetDuration, NewDay, MissedRun, JobStep, ListDue, FollowUp,
       CommitCharges, ListExpired, ExpireCancelled, CommitExpired, RunAborts
  <2> QED
    BY <2>1, MandateStutters
<1> QED
  BY <1>1, <1>2

\* Money is only taken through a card on file or an authorisation the bank
\* presents: the implementation of CardMandate, for every instance and whatever
\* transactions overlap.
THEOREM MandateImplemented == Spec => ChargesFollowMandate
<1>1. TypeInv /\ [Next]_vars => [Mandate!Next]_(Mandate!vars)
  <2> SUFFICES ASSUME TypeInv, [Next]_vars
               PROVE  Mandate!Next \/ UNCHANGED <<card, Confirmed, taken>>
    BY DEF Mandate!vars
  <2>1. CASE Next
    BY <2>1, MandateUser, MandateHandler, MandateBank, MandateJob DEF Next
  <2>2. CASE UNCHANGED vars
    BY <2>2 DEF vars, money, bankside, Confirmed, CarriesToken
  <2> QED
    BY <2>1, <2>2
<1>2. Spec => []TypeInv
  BY TypeInvInit, TypeInvNext, PTL DEF Spec
<1> QED
  BY <1>1, <1>2, MandateInit, PTL DEF Spec, ChargesFollowMandate, Mandate!Spec
=============================================================================
