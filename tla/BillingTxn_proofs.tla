------------------------- MODULE BillingTxn_proofs -------------------------
(***************************************************************************)
(* Theorems about BillingTxn, for every number of overlapping runs of the  *)
(* job, webhooks, cancellations and grants, every period, every number of  *)
(* attempts and every row to begin with.                                   *)
(***************************************************************************)
EXTENDS BillingTxn, TLAPS

(***************************************************************************)
(* The updates of the row, with any time, and the merge of two rows.       *)
(***************************************************************************)

\* Whatever a transaction wants to write is a row (SubscriptionRows).
LEMMA WantedIsRow ==
    ASSUME NEW r \in Row, NEW now \in Time
    PROVE  /\ MarkActive(r, now, Duration) \in Row
           /\ MarkFailed(r, now) \in Row
           /\ FirstChargeFailed(r, now) \in Row
           /\ CancelRow(r) \in Row
           /\ GrantPermanent(r, now) \in Row
           /\ GetOrCreate(r) \in Row
<1>1. now + Duration \in Time /\ now + RetryTicks \in Time /\ None \in Time
  BY BillingTxnAssumption DEF Time, None, RetryTicks, TicksPerDay
<1>2. {"ACTIVE", "FAILED", "CANCELLED", "WAITING"} \subseteq Status \cup {Absent}
  BY DEF Status
<1>3. r.retry + 1 \in Nat /\ 0 \in Nat /\ 1 \in Nat
  BY DEF Row
<1>4. GetOrCreate(r) \in Row
  BY <1>2 DEF GetOrCreate, Row
<1>5. GrantPermanent(r, now) \in Row
  BY <1>1, <1>2, <1>4 DEF GrantPermanent, Row
<1>6. MarkActive(r, now, Duration) \in Row
  BY <1>1, <1>2, <1>3 DEF MarkActive, Row
<1>7. MarkFailed(r, now) \in Row /\ FirstChargeFailed(r, now) \in Row
  BY <1>1, <1>2, <1>3 DEF MarkFailed, FirstChargeFailed, Row
<1>8. CancelRow(r) \in Row
  BY <1>1, <1>2 DEF CancelRow, Row
<1> QED
  BY <1>4, <1>5, <1>6, <1>7, <1>8

\* An UPDATE of some columns leaves a row (SubscriptionRepository.update).
LEMMA MergeIsRow ==
    ASSUME NEW current \in Row, NEW loaded \in Row, NEW wanted \in Row
    PROVE  Merge(current, loaded, wanted, {}) \in Row
<1> DEFINE merged == Merge(current, loaded, wanted, {})
<1>1. DOMAIN current = {"status", "trialEnd", "start", "end", "next", "retry"}
  BY DEF Row
<1>2. merged = [c \in {"status", "trialEnd", "start", "end", "next", "retry"} |->
                   IF wanted[c] # loaded[c] THEN wanted[c] ELSE current[c]]
  BY <1>1 DEF Merge
<1>3. merged = [status |-> merged.status, trialEnd |-> merged.trialEnd, start |-> merged.start,
                end |-> merged.end, next |-> merged.next, retry |-> merged.retry]
  BY <1>2
<1>4. merged.status \in Status \cup {Absent} /\ merged.trialEnd \in Time /\ merged.start \in Time
  BY <1>2 DEF Row
<1>5. merged.end \in Time /\ merged.next \in Time /\ merged.retry \in Nat
  BY <1>2 DEF Row
<1> HIDE DEF merged
<1>6. merged \in Row
  BY <1>3, <1>4, <1>5 DEF Row
<1> QED
  BY <1>6 DEF merged

\* Where After leads (the order of the statements).
LEMMA AfterValues ==
    ASSUME NEW t
    PROVE  /\ After(t, "begin") \in {"card", "row", "tokens"}
           /\ After(t, "card") = "bank"
           /\ After(t, "tokens") \in {"mark", "row"}
           /\ After(t, "row") = "insert"
           /\ After(t, "insert") \in {"bank", "mark"}
           /\ After(t, "bank") = "mark"
           /\ After(t, "mark") = "write"
           /\ After(t, "write") \in {"tell", "end"}
           /\ After(t, "tell") = "end"
BY DEF After

-----------------------------------------------------------------------------
(***************************************************************************)
(* The inductive invariant.                                                *)
(***************************************************************************)

PreBank == {"begin", "card", "tokens", "row", "insert"}

\* What is so of a transaction with record r that is about to do step.
Fits(r, step) ==
    /\ r \in Transaction /\ step \in Step
    /\ step \in PreBank => r.left = Attempts
    /\ step = "bank" => r.left > 0
    /\ step \in PreBank \cup {"bank"} => r.outcome = "none"
    /\ "tokens" \in r.locks => step \notin {"begin", "tokens", "ended"}
    /\ "row" \in r.locks => step \in {"bank", "mark", "write", "tell", "end"}

Sound(r) == Fits(r, r.at)

\* The row of the table is written by one transaction at a time.
OneWriter ==
    \A s, t \in Txns : "row" \in txn[s].locks /\ "row" \in txn[t].locks => s = t

TxnInv == TypeOK /\ (\A t \in Txns : Sound(txn[t])) /\ OneWriter

\* t moves to record r, and does not take the row from another.
Moves(t, r) ==
    /\ Sound(r)
    /\ txn' = [txn EXCEPT ![t] = r]
    /\ "row" \in r.locks => "row" \in txn[t].locks \/ RowFree(t)

\* The types of what is not of one transaction.
OthersTyped ==
    clock \in Nat /\ row \in Row /\ active \subseteq Cards /\ taken \in 0..1 /\ told \subseteq Cancels

\* A step that moves one transaction so keeps the invariant (DatabaseMiddleware: a session
\* per update).
LEMMA MovesKeepInv ==
    ASSUME TxnInv, NEW t \in Txns, NEW r, Moves(t, r),
           OthersTyped'
    PROVE  TxnInv'
<1>1. txn' \in [Txns -> Transaction] /\ txn'[t] = r
  BY DEF TxnInv, TypeOK, Moves, Sound, Fits
<1>2. \A s \in Txns \ {t} : txn'[s] = txn[s]
  BY DEF TxnInv, TypeOK, Moves
<1>3. \A s \in Txns : Sound(txn'[s])
  BY <1>1, <1>2 DEF TxnInv, Moves
<1>4. ASSUME NEW s \in Txns \ {t}, "row" \in txn'[s].locks, "row" \in txn'[t].locks
      PROVE  FALSE
  BY <1>1, <1>2, <1>4 DEF TxnInv, OneWriter, Moves, RowFree
<1>5. OneWriter'
  BY <1>2, <1>4 DEF TxnInv, OneWriter
<1>6. TypeOK'
  BY <1>1 DEF TypeOK, OthersTyped
<1> QED
  BY <1>3, <1>5, <1>6 DEF TxnInv, Sound

\* Setting at changes nothing else of a record.
LEMMA MovedRecord ==
    ASSUME NEW r \in Transaction, NEW step \in Step, Fits(r, step)
    PROVE  /\ Sound([r EXCEPT !.at = step])
           /\ [r EXCEPT !.at = step].locks = r.locks
<1> DEFINE moved == [r EXCEPT !.at = step]
<1>1. moved \in Transaction
  BY DEF Transaction
<1>2. /\ moved.at = step /\ moved.left = r.left /\ moved.outcome = r.outcome
      /\ moved.locks = r.locks
  BY DEF Transaction
<1> HIDE DEF moved
<1>3. Sound(moved)
  BY <1>1, <1>2 DEF Sound, Fits
<1> QED
  BY <1>2, <1>3 DEF moved

\* A transaction that goes on moves, when its record suits the step it goes to.
LEMMA AdvanceMoves ==
    ASSUME NEW t \in Txns, NEW r, Advance(t, r), Fits(r, After(t, txn[t].at)),
           "row" \in r.locks => "row" \in txn[t].locks \/ RowFree(t)
    PROVE  \E q : Moves(t, q)
BY MovedRecord DEF Advance, Moves, Fits

\* Before its first step.
LEMMA BlankIsSound == Sound(Blank) /\ Blank \in Transaction /\ Blank.locks = {}
<1>1. NoRow \in Row /\ None \in Time
  BY DEF NoRow, Row, None, Time
<1>2. Blank \in Transaction
  <2>1. FALSE \in BOOLEAN
    OBVIOUS
  <2>2. /\ "begin" \in Step /\ {} \in SUBSET Cards /\ Attempts \in 0..Attempts
        /\ "none" \in Outcome /\ {} \in SUBSET {"row", "tokens"}
    BY BillingTxnAssumption DEF Step, Outcome
  <2> QED
    BY <1>1, <2>1, <2>2, Zenon DEF Blank, Transaction
<1>3. /\ Blank.at = "begin" /\ Blank.locks = {} /\ Blank.left = Attempts
      /\ Blank.outcome = "none"
  BY DEF Blank
<1> QED
  BY <1>2, <1>3 DEF Sound, Fits, PreBank, Step

\* So does one that ends, committed or not (session_scope).
LEMMA FinishMoves ==
    ASSUME NEW t \in Txns, Finish(t)
    PROVE  \E q : Moves(t, q)
<1>1. Fits(Blank, "ended") /\ "ended" \in Step
  BY BlankIsSound DEF Fits, PreBank, Step
<1> QED
  BY <1>1, BlankIsSound, MovedRecord DEF Finish, Moves

\* r differs from the record of t at most in what the invariant does not speak of.
Quiet(t, r) ==
    /\ r \in Transaction
    /\ r.left = txn[t].left /\ r.outcome = txn[t].outcome /\ r.locks = txn[t].locks

\* A step that writes nothing the invariant speaks of moves the transaction.
LEMMA QuietMoves ==
    ASSUME TxnInv, NEW t \in Txns, NEW r, Quiet(t, r), Advance(t, r),
           txn[t].at \notin {"bank", "end", "ended"}
    PROVE  \E q : Moves(t, q)
<1> DEFINE next == After(t, txn[t].at)
<1>1. Sound(txn[t]) /\ txn[t].at \in Step
  BY DEF TxnInv, Sound, Fits
<1>2. /\ next \in Step \ {"begin", "ended"}
      /\ next = "tokens" => txn[t].at = "begin"
      /\ next \in PreBank \cup {"bank"} => txn[t].at \in PreBank
  <2>1. CASE txn[t].at \in {"begin", "card", "tokens", "row", "insert"}
    BY <2>1, AfterValues DEF Step, PreBank
  <2>2. CASE txn[t].at \in {"mark", "write", "tell"}
    BY <2>2, AfterValues DEF Step, PreBank
  <2> QED
    BY <1>1, <2>1, <2>2 DEF Step
<1> HIDE DEF next
<1>3. Fits(r, next)
  BY <1>1, <1>2, BillingTxnAssumption DEF Quiet, Sound, Fits, PreBank, Step
<1> QED
  BY <1>3, AdvanceMoves DEF Quiet, next

\* The value of one more column of the record.
LEMMA QuietRecords ==
    ASSUME TxnInv, NEW t \in Txns, NEW now \in Time, NEW loaded \in Row, NEW wanted \in Row,
           NEW drops \in SUBSET Cards
    PROVE  /\ Quiet(t, txn[t])
           /\ Quiet(t, [txn[t] EXCEPT !.loaded = loaded])
           /\ Quiet(t, [txn[t] EXCEPT !.drops = drops])
           /\ Quiet(t, [txn[t] EXCEPT !.now = now, !.drops = drops])
           /\ Quiet(t, [txn[t] EXCEPT !.now = now, !.wanted = wanted])
           /\ Quiet(t, [txn[t] EXCEPT !.loaded = loaded, !.wanted = wanted])
<1>1. txn[t] \in Transaction
  BY DEF TxnInv, Sound, Fits
<1>2. Quiet(t, txn[t]) /\ Quiet(t, [txn[t] EXCEPT !.loaded = loaded])
  BY <1>1 DEF Quiet, Transaction
<1>3. /\ Quiet(t, [txn[t] EXCEPT !.drops = drops])
      /\ Quiet(t, [txn[t] EXCEPT !.now = now, !.drops = drops])
  BY <1>1 DEF Quiet, Transaction
<1>4. Quiet(t, [txn[t] EXCEPT !.now = now, !.wanted = wanted])
  BY <1>1 DEF Quiet, Transaction
<1>5. Quiet(t, [txn[t] EXCEPT !.loaded = loaded, !.wanted = wanted])
  BY <1>1 DEF Quiet, Transaction
<1> QED
  BY <1>2, <1>3, <1>4, <1>5

\* What the record of an open transaction holds.
LEMMA RecordTypes ==
    ASSUME TxnInv, NEW t \in Txns
    PROVE  /\ txn[t] \in Transaction /\ txn[t].now \in Time
           /\ txn[t].loaded \in Row /\ txn[t].wanted \in Row /\ txn[t].drops \subseteq Cards
           /\ clock \in Time /\ row \in Row /\ active \in SUBSET Cards /\ Seen(t) \in Row
           /\ OthersTyped
<1>1. txn[t] \in Transaction /\ clock \in Time /\ row \in Row /\ active \in SUBSET Cards
  BY DEF TxnInv, TypeOK, Sound, Fits, Time
<1>2. NoRow \in Row
  BY DEF NoRow, Row, None, Time
<1>3. Seen(t) \in Row
  BY <1>1, <1>2, WantedIsRow DEF Seen
<1>4. OthersTyped
  BY DEF TxnInv, TypeOK, OthersTyped
<1> QED
  BY <1>1, <1>3, <1>4 DEF Transaction

-----------------------------------------------------------------------------
(***************************************************************************)
(* The steps, one lemma each or for those that are alike.                  *)
(***************************************************************************)

\* deactivate_all_for_user locks the tokens once.
LEMMA DropCardsMoves ==
    ASSUME TxnInv, NEW t \in Txns, DropCards(t)
    PROVE  OthersTyped' /\ \E q : Moves(t, q)
<1> DEFINE r == [txn[t] EXCEPT !.locks = @ \cup {"tokens"}]
<1>1. txn[t] \in Transaction /\ Sound(txn[t]) /\ txn[t].at = "tokens"
  BY DEF TxnInv, DropCards, Sound, Fits
<1>2. r \in Transaction
  BY <1>1 DEF Transaction
<1>3. r.left = txn[t].left /\ r.outcome = txn[t].outcome /\ r.locks = txn[t].locks \cup {"tokens"}
  BY <1>1 DEF Transaction
<1> HIDE DEF r
<1>4. After(t, "tokens") \in {"mark", "row"}
  BY AfterValues
<1>5. Fits(r, After(t, txn[t].at))
  BY <1>1, <1>2, <1>3, <1>4 DEF Sound, Fits, PreBank, Step
<1>6. Advance(t, r)
  BY DEF DropCards, r
<1>7. OthersTyped'
  BY RecordTypes DEF DropCards, OthersTyped
<1> QED
  BY <1>3, <1>5, <1>6, <1>7, AdvanceMoves

\* get_or_create, when it looks for the row.
LEMMA LoadRowMoves ==
    ASSUME TxnInv, NEW t \in Txns, LoadRow(t)
    PROVE  OthersTyped' /\ \E q : Moves(t, q)
<1>1. Quiet(t, [txn[t] EXCEPT !.loaded = row]) /\ OthersTyped
  BY QuietRecords, RecordTypes
<1> QED
  BY <1>1, QuietMoves DEF LoadRow, OthersTyped

\* get_or_create, when it inserts the row: it takes the lock when nobody has it.
LEMMA InsertRowMoves ==
    ASSUME TxnInv, NEW t \in Txns, InsertRow(t)
    PROVE  OthersTyped' /\ \E q : Moves(t, q)
<1> DEFINE r == [txn[t] EXCEPT !.made = TRUE, !.loaded = GetOrCreate(NoRow),
                               !.locks = @ \cup {"row"}]
<1>1. txn[t] \in Transaction /\ Sound(txn[t]) /\ txn[t].at = "insert" /\ OthersTyped
  BY RecordTypes DEF TxnInv, InsertRow
<1>2. OthersTyped'
  BY <1>1 DEF InsertRow, OthersTyped
<1>3. CASE Advance(t, txn[t])
  <2>1. Quiet(t, txn[t])
    BY RecordTypes, QuietRecords
  <2> QED
    BY <1>1, <1>2, <1>3, <2>1, QuietMoves
<1>4. CASE RowFree(t) /\ Advance(t, r)
  <2>1. NoRow \in Row
    BY DEF NoRow, Row, None, Time
  <2>2. GetOrCreate(NoRow) \in Row
    BY <2>1, RecordTypes, WantedIsRow
  <2>3. r \in Transaction
    <3> DEFINE made == [txn[t] EXCEPT !.made = TRUE]
    <3>1. TRUE \in BOOLEAN
      OBVIOUS
    <3>2. made \in Transaction
      BY <1>1, <3>1, Zenon DEF Transaction
    <3>3. r = [made EXCEPT !.loaded = GetOrCreate(NoRow), !.locks = txn[t].locks \cup {"row"}]
      BY <1>1 DEF Transaction
    <3> HIDE DEF made
    <3> QED
      BY <1>1, <2>2, <3>2, <3>3 DEF Transaction
  <2>4. r.left = txn[t].left /\ r.outcome = txn[t].outcome /\ r.locks = txn[t].locks \cup {"row"}
    BY <1>1 DEF Transaction
  <2> HIDE DEF r
  <2>5. After(t, "insert") \in {"bank", "mark"}
    BY AfterValues
  <2>6. Fits(r, After(t, txn[t].at))
    BY <1>1, <2>3, <2>4, <2>5, BillingTxnAssumption DEF Sound, Fits, PreBank, Step
  <2> QED
    BY <1>4, <2>6, <1>2, AdvanceMoves
<1> QED
  BY <1>2, <1>3, <1>4 DEF InsertRow

\* Commit, rollback, and the insert that fails.
LEMMA EndingMoves ==
    ASSUME TxnInv, NEW t \in Txns, InsertFails(t) \/ RollBack(t) \/ Commit(t)
    PROVE  OthersTyped' /\ \E q : Moves(t, q)
<1>1. \E q : Moves(t, q)
  BY FinishMoves DEF InsertFails, RollBack, Commit
<1>2. CASE InsertFails(t) \/ RollBack(t)
  BY <1>1, <1>2, RecordTypes DEF InsertFails, RollBack, OthersTyped
<1>3. CASE Commit(t)
  <2>1. row' \in Row
    BY <1>3, RecordTypes, MergeIsRow DEF Commit
  <2>2. active' \subseteq Cards
    BY <1>3, RecordTypes DEF Commit, Cards
  <2> QED
    BY <1>1, <1>3, <2>1, <2>2, RecordTypes DEF Commit, OthersTyped
<1> QED
  BY <1>2, <1>3

\* A request to the bank: an attempt less, or an outcome.
LEMMA CallBankMoves ==
    ASSUME TxnInv, NEW t \in Txns, CallBank(t)
    PROVE  OthersTyped' /\ \E q : Moves(t, q)
<1>1. txn[t] \in Transaction /\ Sound(txn[t]) /\ txn[t].at = "bank" /\ OthersTyped
  BY RecordTypes DEF TxnInv, CallBank, BankAnswers, AnswerLost
<1>2. OthersTyped'
  BY <1>1 DEF CallBank, BankAnswers, AnswerLost, OthersTyped
<1>3. txn[t].left \in 1..Attempts /\ After(t, "bank") = "mark"
  BY <1>1, AfterValues, BillingTxnAssumption DEF Transaction, Sound, Fits
<1>4. CASE BankAnswers(t)
  <2>1. PICK outcome \in {"paid", "refused"} : Advance(t, [txn[t] EXCEPT !.outcome = outcome])
    BY <1>4 DEF BankAnswers
  <2> DEFINE r == [txn[t] EXCEPT !.outcome = outcome]
  <2>2. r \in Transaction /\ r.locks = txn[t].locks
    BY <1>1 DEF Transaction, Outcome
  <2> HIDE DEF r
  <2>3. Fits(r, After(t, txn[t].at))
    BY <1>1, <1>3, <2>2 DEF Sound, Fits, PreBank, Step
  <2> QED
    BY <1>2, <2>1, <2>2, <2>3, AdvanceMoves DEF r
<1>5. CASE /\ txn[t].left > 1
           /\ txn' = [txn EXCEPT ![t].left = @ - 1]
  <2> DEFINE r == [txn[t] EXCEPT !.left = @ - 1]
  <2>1. r \in Transaction
    BY <1>1, <1>3, <1>5, BillingTxnAssumption DEF Transaction
  <2>2. /\ r.at = "bank" /\ r.left = txn[t].left - 1 /\ r.outcome = txn[t].outcome
        /\ r.locks = txn[t].locks
    BY <1>1 DEF Transaction
  <2>3. txn' = [txn EXCEPT ![t] = r]
    BY <1>1, <1>5 DEF TxnInv, TypeOK
  <2> HIDE DEF r
  <2>4. Sound(r)
    BY <1>1, <1>3, <1>5, <2>1, <2>2 DEF Sound, Fits, PreBank
  <2> QED
    BY <1>2, <2>2, <2>3, <2>4 DEF Moves
<1>6. CASE Advance(t, [txn[t] EXCEPT !.left = 0, !.outcome = "refused"])
  <2> DEFINE r == [txn[t] EXCEPT !.left = 0, !.outcome = "refused"]
  <2>1. r \in Transaction /\ r.locks = txn[t].locks
    <3>1. 0 \in 0..Attempts /\ "refused" \in Outcome
      BY BillingTxnAssumption DEF Outcome
    <3> QED
      BY <1>1, <3>1 DEF Transaction
  <2> HIDE DEF r
  <2>2. Fits(r, After(t, txn[t].at))
    BY <1>1, <1>3, <2>1 DEF Sound, Fits, PreBank, Step
  <2> QED
    BY <1>2, <1>6, <2>1, <2>2, AdvanceMoves DEF r
<1> QED
  BY <1>4, <1>5, <1>6 DEF CallBank, AnswerLost

\* SubscriptionRepository.update takes the lock when nobody has it.
LEMMA WriteRowMoves ==
    ASSUME TxnInv, NEW t \in Txns, WriteRow(t)
    PROVE  OthersTyped' /\ \E q : Moves(t, q)
<1> DEFINE locks == IF Changes(t) THEN txn[t].locks \cup {"row"} ELSE txn[t].locks
           r == [txn[t] EXCEPT !.locks = locks]
<1>1. txn[t] \in Transaction /\ Sound(txn[t]) /\ txn[t].at = "write"
  BY DEF TxnInv, WriteRow, Sound, Fits
<1>2. /\ locks \in SUBSET {"row", "tokens"}
      /\ "row" \in locks => "row" \in txn[t].locks \/ RowFree(t)
  BY <1>1 DEF Transaction, WriteRow
<1>3. Advance(t, r)
  BY DEF WriteRow
<1> HIDE DEF locks
<1>4. r \in Transaction /\ r.locks = locks
  BY <1>1, <1>2 DEF Transaction
<1>5. After(t, "write") \in {"tell", "end"}
  BY AfterValues
<1> HIDE DEF r
<1>6. Fits(r, After(t, txn[t].at))
  BY <1>1, <1>4, <1>5 DEF Fits, PreBank, Step
<1>7. OthersTyped'
  BY RecordTypes DEF WriteRow, OthersTyped
<1> QED
  BY <1>2, <1>3, <1>4, <1>6, <1>7, AdvanceMoves

\* The steps that only the job has.
LEMMA JobMoves ==
    ASSUME TxnInv, NEW t \in Txns, BeginJob(t) \/ PickCard(t) \/ MarkCharged(t)
    PROVE  OthersTyped' /\ \E q : Moves(t, q)
<1>1. CASE BeginJob(t)
  <2>1. Quiet(t, [txn[t] EXCEPT !.loaded = row])
    BY RecordTypes, QuietRecords
  <2>2. row.next \in Time /\ clock \in Nat
    BY RecordTypes DEF Row, OthersTyped
  <2>3. clock' \in Nat
    BY <1>1, <2>2 DEF BeginJob, Time, None
  <2> QED
    BY <1>1, <2>1, <2>3, RecordTypes, QuietMoves DEF BeginJob, OthersTyped
<1>2. CASE PickCard(t)
  <2> DEFINE r == [txn[t] EXCEPT !.at = "mark", !.outcome = "refused"]
  <2>1. OthersTyped'
    BY <1>2, RecordTypes DEF PickCard, OthersTyped
  <2>2. Quiet(t, txn[t])
    BY RecordTypes, QuietRecords
  <2>3. CASE Advance(t, txn[t])
    BY <1>2, <2>1, <2>2, <2>3, QuietMoves DEF PickCard
  <2>4. CASE txn' = [txn EXCEPT ![t].at = "mark", ![t].outcome = "refused"]
    <3>1. txn[t] \in Transaction /\ Sound(txn[t]) /\ txn[t].at = "card"
      BY <1>2 DEF TxnInv, PickCard, Sound, Fits
    <3>2. r \in Transaction /\ r.at = "mark" /\ r.locks = txn[t].locks
      BY <3>1 DEF Transaction, Step, Outcome
    <3>3. txn' = [txn EXCEPT ![t] = r]
      BY <2>4, <3>1 DEF TxnInv, TypeOK
    <3> HIDE DEF r
    <3>4. Sound(r)
      BY <3>1, <3>2 DEF Sound, Fits, PreBank, Step
    <3> QED
      BY <2>1, <3>2, <3>3, <3>4 DEF Moves
  <2> QED
    BY <1>2, <2>3, <2>4 DEF PickCard
<1>3. CASE MarkCharged(t)
  <2> DEFINE wanted == IF txn[t].outcome = "paid" THEN MarkActive(txn[t].loaded, clock, Duration)
                       ELSE MarkFailed(txn[t].loaded, clock)
  <2>1. wanted \in Row
    BY RecordTypes, WantedIsRow
  <2>2. Advance(t, [txn[t] EXCEPT !.now = clock, !.wanted = wanted])
    BY <1>3 DEF MarkCharged
  <2> HIDE DEF wanted
  <2>3. Quiet(t, [txn[t] EXCEPT !.now = clock, !.wanted = wanted])
    BY <2>1, RecordTypes, QuietRecords
  <2> QED
    BY <1>3, <2>2, <2>3, RecordTypes, QuietMoves DEF MarkCharged, OthersTyped
<1> QED
  BY <1>1, <1>2, <1>3

\* The steps that only the webhook has.
LEMMA WebhookMoves ==
    ASSUME TxnInv, NEW t \in Txns, BeginWebhook(t) \/ MarkVerified(t)
    PROVE  OthersTyped' /\ \E q : Moves(t, q)
<1>1. CASE BeginWebhook(t)
  <2>1. Quiet(t, [txn[t] EXCEPT !.now = clock, !.drops = active])
    BY RecordTypes, QuietRecords
  <2> QED
    BY <1>1, <2>1, RecordTypes, QuietMoves DEF BeginWebhook, OthersTyped
<1>2. CASE MarkVerified(t)
  <2> DEFINE wanted == IF txn[t].outcome = "paid" THEN MarkActive(Seen(t), txn[t].now, Duration)
                       ELSE FirstChargeFailed(Seen(t), txn[t].now)
  <2>1. wanted \in Row
    BY RecordTypes, WantedIsRow
  <2>2. Advance(t, [txn[t] EXCEPT !.loaded = Seen(t), !.wanted = wanted])
    BY <1>2 DEF MarkVerified
  <2> HIDE DEF wanted
  <2>3. Quiet(t, [txn[t] EXCEPT !.loaded = Seen(t), !.wanted = wanted])
    BY <2>1, RecordTypes, QuietRecords
  <2> QED
    BY <1>2, <2>2, <2>3, RecordTypes, QuietMoves DEF MarkVerified, OthersTyped
<1> QED
  BY <1>1, <1>2

\* A cancellation without a row, and a grant of what the user has, go straight to the end.
LEMMA NothingToWrite ==
    ASSUME TxnInv, NEW t \in Txns, txn[t].at = "mark", txn' = [txn EXCEPT ![t].at = "end"]
    PROVE  \E q : Moves(t, q)
<1>1. txn[t] \in Transaction /\ Sound(txn[t]) /\ "end" \in Step
  BY DEF TxnInv, Sound, Fits, Step
<1>2. Fits(txn[t], "end")
  BY <1>1 DEF Sound, Fits, PreBank
<1> QED
  BY <1>1, <1>2, MovedRecord DEF TxnInv, TypeOK, Moves

\* The steps that only the cancellation has.
LEMMA CancelMoves ==
    ASSUME TxnInv, NEW t \in Cancels, BeginCancel(t) \/ MarkCancelled(t) \/ Tell(t)
    PROVE  OthersTyped' /\ \E q : Moves(t, q)
<1>1. t \in Txns
  BY DEF Txns
<1>2. OthersTyped'
  BY <1>1, RecordTypes DEF BeginCancel, MarkCancelled, Tell, OthersTyped
<1>3. CASE BeginCancel(t)
  <2>1. Quiet(t, [txn[t] EXCEPT !.drops = active])
    BY <1>1, RecordTypes, QuietRecords
  <2> QED
    BY <1>1, <1>2, <1>3, <2>1, QuietMoves DEF BeginCancel
<1>4. CASE MarkCancelled(t)
  <2>1. Quiet(t, [txn[t] EXCEPT !.loaded = row, !.wanted = CancelRow(row)])
    BY <1>1, RecordTypes, QuietRecords, WantedIsRow
  <2> QED
    BY <1>1, <1>2, <1>4, <2>1, QuietMoves, NothingToWrite DEF MarkCancelled
<1>5. CASE Tell(t)
  <2>1. Quiet(t, txn[t])
    BY <1>1, RecordTypes, QuietRecords
  <2> QED
    BY <1>1, <1>2, <1>5, <2>1, QuietMoves DEF Tell
<1> QED
  BY <1>3, <1>4, <1>5

\* The steps that only the grants have.
LEMMA GrantMoves ==
    ASSUME TxnInv, NEW t \in Txns, BeginGrant(t) \/ MarkGranted(t)
    PROVE  OthersTyped' /\ \E q : Moves(t, q)
<1>1. OthersTyped'
  BY RecordTypes DEF BeginGrant, MarkGranted, OthersTyped
<1>2. CASE BeginGrant(t)
  <2>1. Quiet(t, txn[t])
    BY RecordTypes, QuietRecords
  <2> QED
    BY <1>1, <1>2, <2>1, QuietMoves DEF BeginGrant
<1>3. CASE MarkGranted(t)
  <2>1. txn[t].at = "mark"
    BY <1>3 DEF MarkGranted
  <2>2. CASE txn' = [txn EXCEPT ![t].at = "end"]
    BY <1>1, <2>1, <2>2, NothingToWrite
  <2>3. CASE \E loaded \in {txn[t].loaded, Seen(t)} :
                Advance(t, [txn[t] EXCEPT !.loaded = loaded,
                                          !.wanted = GrantPermanent(loaded, clock)])
    <3>1. PICK loaded \in {txn[t].loaded, Seen(t)} :
                Advance(t, [txn[t] EXCEPT !.loaded = loaded,
                                          !.wanted = GrantPermanent(loaded, clock)])
      BY <2>3
    <3>2. loaded \in Row /\ GrantPermanent(loaded, clock) \in Row
      BY RecordTypes, WantedIsRow
    <3>3. Quiet(t, [txn[t] EXCEPT !.loaded = loaded, !.wanted = GrantPermanent(loaded, clock)])
      BY <3>2, RecordTypes, QuietRecords
    <3> QED
      BY <1>1, <2>1, <3>1, <3>3, QuietMoves
  <2> QED
    BY <1>3, <2>2, <2>3 DEF MarkGranted
<1> QED
  BY <1>2, <1>3

-----------------------------------------------------------------------------
(***************************************************************************)
(* The invariant.                                                          *)
(***************************************************************************)

\* No transaction has begun.
LEMMA InitTxnInv == Init => TxnInv
<1> SUFFICES ASSUME Init PROVE TxnInv
  OBVIOUS
<1>1. \A t \in Txns : txn[t] = Blank
  BY DEF Init
<1>2. txn \in [Txns -> Transaction]
  BY BlankIsSound DEF Init
<1>3. row \in Row /\ active \subseteq Cards
  BY BillingTxnAssumption DEF Init, Cards
<1>4. TypeOK
  BY <1>2, <1>3 DEF Init, TypeOK
<1>5. (\A t \in Txns : Sound(txn[t])) /\ OneWriter
  BY <1>1, BlankIsSound DEF OneWriter
<1> QED
  BY <1>4, <1>5 DEF TxnInv

\* Every step keeps the invariant: one case for each kind of transaction.
LEMMA NextKeepsInv == TxnInv /\ [Next]_vars => TxnInv'
<1> SUFFICES ASSUME TxnInv, [Next]_vars PROVE TxnInv'
  OBVIOUS
<1>1. ASSUME NEW t \in Jobs, Job(t) PROVE TxnInv'
  <2>1. t \in Txns
    BY DEF Txns
  <2> QED
    BY <1>1, <2>1, MovesKeepInv, JobMoves, CallBankMoves, WriteRowMoves, EndingMoves DEF Job
<1>2. ASSUME NEW t \in Webhooks, Webhook(t) PROVE TxnInv'
  <2>1. t \in Txns
    BY DEF Txns
  <2> QED
    BY <1>2, <2>1, MovesKeepInv, WebhookMoves, DropCardsMoves, LoadRowMoves, InsertRowMoves,
       CallBankMoves, WriteRowMoves, EndingMoves DEF Webhook
<1>3. ASSUME NEW t \in Cancels, Cancel(t) PROVE TxnInv'
  <2>1. t \in Txns
    BY DEF Txns
  <2> QED
    BY <1>3, <2>1, MovesKeepInv, CancelMoves, DropCardsMoves, WriteRowMoves, EndingMoves DEF Cancel
<1>4. ASSUME NEW t \in Grants, Grant(t) PROVE TxnInv'
  <2>1. t \in Txns
    BY DEF Txns
  <2> QED
    BY <1>4, <2>1, MovesKeepInv, GrantMoves, LoadRowMoves, InsertRowMoves, WriteRowMoves,
       EndingMoves DEF Grant
<1>5. ASSUME NEW t \in Txns, RollBack(t) PROVE TxnInv'
  BY <1>5, MovesKeepInv, EndingMoves
<1>6. CASE UNCHANGED vars
  BY <1>6 DEF vars, TxnInv, TypeOK, OneWriter, Sound
<1> QED
  BY <1>1, <1>2, <1>3, <1>4, <1>5, <1>6 DEF Next

\* The invariant holds in every reachable state.
LEMMA TxnInvHolds == Spec => []TxnInv
  BY InitTxnInv, NextKeepsInv, PTL DEF Spec

-----------------------------------------------------------------------------
(***************************************************************************)
(* The theorems.                                                           *)
(***************************************************************************)

\* Every reachable state is well-typed: what transactions make of a row, alone or
\* merged column by column, is a row (SubscriptionRepository.update).
THEOREM TypeCorrect == Spec => []TypeOK
<1>1. TxnInv => TypeOK
  BY DEF TxnInv
<1> QED
  BY <1>1, TxnInvHolds, PTL

\* The insert that can fail is over before the bank is called, whoever else
\* inserts the row (PaymentService.handle_authorization_result).
THEOREM ChargedIsNotRefusedHolds == Spec => ChargedIsNotRefused
<1>1. TxnInv => \A t \in Txns : InsertFails(t) => txn[t].outcome = "none"
  BY DEF TxnInv, Sound, Fits, PreBank, InsertFails
<1>2. TxnInv /\ [Next]_vars =>
         [\A t \in Txns : InsertFails(t) => txn[t].outcome = "none"]_vars
  BY <1>1
<1> QED
  BY <1>2, TxnInvHolds, PTL DEF Spec, ChargedIsNotRefused

\* However many overlap, one of the open transactions need not wait: whoever holds
\* the row waits for nothing, and where nobody does, nor does the holder of a card.
THEOREM NoDeadlockHolds == Spec => []NoDeadlock
<1>1. TxnInv => NoDeadlock
  <2> SUFFICES ASSUME TxnInv, NEW t \in Txns, Open(t)
               PROVE  \E s \in Txns : Open(s) /\ ~ Waits(s)
    BY DEF NoDeadlock
  <2>1. CASE \E s \in Txns : "row" \in txn[s].locks
    <3>1. PICK s \in Txns : "row" \in txn[s].locks
      BY <2>1
    <3>2. txn[s].at \in {"bank", "mark", "write", "tell", "end"}
      BY <3>1 DEF TxnInv, Sound, Fits
    <3>3. RowFree(s)
      BY <3>1 DEF TxnInv, OneWriter, RowFree
    <3> QED
      BY <3>2, <3>3 DEF Open, Waits
  <2>2. CASE \A s \in Txns : "row" \notin txn[s].locks
    <3>1. \A s \in Txns : RowFree(s)
      BY <2>2 DEF RowFree
    <3>2. CASE ~ Waits(t)
      BY <3>2
    <3>3. CASE Waits(t)
      <4>1. PICK s \in Txns : "tokens" \in txn[s].locks
        BY <3>1, <3>3 DEF Waits, TokensFree
      <4>2. txn[s].at \notin {"begin", "tokens", "ended"}
        BY <4>1 DEF TxnInv, Sound, Fits
      <4> QED
        BY <3>1, <4>2 DEF Open, Waits
    <3> QED
      BY <3>2, <3>3
  <2> QED
    BY <2>1, <2>2
<1> QED
  BY <1>1, TxnInvHolds, PTL

-----------------------------------------------------------------------------
(***************************************************************************)
(* BillingTxn implements PickedMandate.  The mandate follows from the step *)
(* that each transaction is at.                                            *)
(***************************************************************************)

PickedOf(r) == IF r.at = "bank" THEN r.left ELSE 0
DueOf(r)    == CASE r.at \in {"begin", "tokens", "row", "insert"} -> Attempts
                 [] r.at = "bank" -> r.left
                 [] OTHER -> 0

Picked == [t \in Jobs |-> IF txn[t].at = "bank" THEN txn[t].left ELSE 0]
Owed   == [t \in Webhooks |-> Requests(t)]
Filing == {t \in Webhooks : txn[t].at # "ended"}

\* What a step of t changes of the mandate.
LEMMA MandateEntries ==
    ASSUME TxnInv, NEW t \in Txns, NEW q, txn' = [txn EXCEPT ![t] = q]
    PROVE  /\ t \in Jobs => /\ Picked' = [Picked EXCEPT ![t] = PickedOf(q)]
                            /\ Owed' = Owed /\ Filing' = Filing
           /\ t \in Webhooks => /\ Owed' = [Owed EXCEPT ![t] = DueOf(q)]
                                /\ Picked' = Picked
                                /\ Filing' = IF q.at = "ended" THEN Filing \ {t}
                                             ELSE Filing \cup {t}
           /\ t \notin Jobs \cup Webhooks =>
                Picked' = Picked /\ Owed' = Owed /\ Filing' = Filing
<1>1. txn'[t] = q /\ \A s \in Txns \ {t} : txn'[s] = txn[s]
  BY DEF TxnInv, TypeOK
<1>2. Jobs \subseteq Txns /\ Webhooks \subseteq Txns /\ Jobs \cap Webhooks = {}
  BY BillingTxnAssumption DEF Txns
<1>3. t \notin Jobs => Picked' = Picked
  BY <1>1, <1>2 DEF Picked
<1>4. t \notin Webhooks => Owed' = Owed /\ Filing' = Filing
  BY <1>1, <1>2 DEF Owed, Requests, Filing
<1>5. t \in Jobs => Picked' = [Picked EXCEPT ![t] = PickedOf(q)]
  <2>1. Picked = [s \in Jobs |-> PickedOf(txn[s])] /\ Picked' = [s \in Jobs |-> PickedOf(txn'[s])]
    BY DEF Picked, PickedOf
  <2> QED
    BY <1>1, <1>2, <2>1
<1>6. t \in Webhooks => Owed' = [Owed EXCEPT ![t] = DueOf(q)]
  <2>1. Owed = [s \in Webhooks |-> DueOf(txn[s])] /\ Owed' = [s \in Webhooks |-> DueOf(txn'[s])]
    BY DEF Owed, Requests, DueOf
  <2> QED
    BY <1>1, <1>2, <2>1
<1>7. t \in Webhooks => Filing' = IF q.at = "ended" THEN Filing \ {t} ELSE Filing \cup {t}
  BY <1>1, <1>2 DEF Filing
<1> QED
  BY <1>2, <1>3, <1>4, <1>5, <1>6, <1>7

\* r has what the transaction may still send, wherever it goes.
Keeps(t, r) ==
    \A step \in Step : /\ [r EXCEPT !.at = step].at = step
                       /\ [r EXCEPT !.at = step].left = txn[t].left

\* The mandate does not change in a step that leaves cards and charges alone and
\* keeps what the transaction may send.
LEMMA MandateKept ==
    ASSUME TxnInv, NEW t \in Txns, NEW r, Advance(t, r), Keeps(t, r),
           txn[t].at \notin {"card", "bank", "end", "ended"},
           t \in Jobs => txn[t].at \in {"begin", "mark", "write"}
    PROVE  UNCHANGED <<Picked, Owed, Filing>>
<1> DEFINE next == After(t, txn[t].at)
           q == [r EXCEPT !.at = next]
<1>1. txn[t] \in Transaction /\ Sound(txn[t]) /\ txn[t].at \in Step
  BY DEF TxnInv, Sound, Fits
<1>2. /\ next \in Step /\ (t \in Jobs => next \notin {"bank", "ended"})
      /\ t \in Webhooks => /\ next # "ended"
                           /\ next \in PreBank \cup {"bank"} <=> txn[t].at \in PreBank
                           /\ next # "card"
  BY <1>1, BillingTxnAssumption DEF After, Step, PreBank
<1> HIDE DEF next
<1>3. q.at = next /\ q.left = txn[t].left
  BY <1>2 DEF Keeps
<1>4. txn' = [txn EXCEPT ![t] = q]
  BY DEF Advance, next
<1> HIDE DEF q
<1>5. t \in Jobs => PickedOf(q) = Picked[t]
  BY <1>2, <1>3 DEF PickedOf, Picked
<1>6. t \in Webhooks => DueOf(q) = Owed[t] /\ t \in Filing /\ q.at # "ended"
  BY <1>1, <1>2, <1>3 DEF Sound, Fits, DueOf, Owed, Requests, Filing, PreBank
<1>7. Picked = [s \in Jobs |-> Picked[s]] /\ Owed = [s \in Webhooks |-> Owed[s]]
  BY DEF Picked, Owed
<1>8. CASE t \in Jobs
  <2>1. Picked' = [Picked EXCEPT ![t] = Picked[t]] /\ Owed' = Owed /\ Filing' = Filing
    BY <1>4, <1>5, <1>8, MandateEntries
  <2> QED
    BY <1>7, <2>1
<1>9. CASE t \in Webhooks
  <2>1. /\ Owed' = [Owed EXCEPT ![t] = DueOf(q)] /\ Picked' = Picked
        /\ Filing' = IF q.at = "ended" THEN Filing \ {t} ELSE Filing \cup {t}
    BY <1>4, <1>9, MandateEntries
  <2>2. Owed' = [Owed EXCEPT ![t] = Owed[t]]
    BY <1>6, <1>9, <2>1
  <2>3. Filing' = Filing
    BY <1>6, <1>9, <2>1
  <2> QED
    BY <1>7, <2>1, <2>2, <2>3
<1> QED
  BY <1>4, <1>8, <1>9, MandateEntries

\* A step that the mandate does not see.
MandateUnchanged == UNCHANGED <<active # {}, Picked, Owed, Filing, taken>>

\* The steps that do not concern the mandate.
LEMMA MandateSilent ==
    ASSUME TxnInv, NEW t \in Txns,
           \/ t \in Jobs /\ (BeginJob(t) \/ MarkCharged(t) \/ WriteRow(t))
           \/ /\ t \in Webhooks
              /\ \/ BeginWebhook(t) \/ DropCards(t) \/ LoadRow(t) \/ InsertRow(t)
                 \/ MarkVerified(t) \/ WriteRow(t)
    PROVE  MandateUnchanged
<1>1. txn[t] \in Transaction
  BY DEF TxnInv, Sound, Fits
<1>2. active' = active /\ taken' = taken
  BY DEF BeginJob, MarkCharged, WriteRow, BeginWebhook, DropCards, LoadRow, InsertRow, MarkVerified
<1>3. /\ txn[t].at \notin {"card", "bank", "end", "ended"}
      /\ t \in Jobs => txn[t].at \in {"begin", "mark", "write"}
  BY BillingTxnAssumption
     DEF BeginJob, MarkCharged, WriteRow, BeginWebhook, DropCards, LoadRow, InsertRow, MarkVerified
<1>4. ASSUME NEW x, NEW y, NEW z
      PROVE  /\ Keeps(t, txn[t])
             /\ Keeps(t, [txn[t] EXCEPT !.loaded = x])
             /\ Keeps(t, [txn[t] EXCEPT !.locks = x])
             /\ Keeps(t, [txn[t] EXCEPT !.now = x, !.drops = y])
             /\ Keeps(t, [txn[t] EXCEPT !.now = x, !.wanted = y])
             /\ Keeps(t, [txn[t] EXCEPT !.loaded = x, !.wanted = y])
             /\ Keeps(t, [txn[t] EXCEPT !.made = x, !.loaded = y, !.locks = z])
  BY <1>1 DEF Keeps, Transaction
<1>5. \E r : Advance(t, r) /\ Keeps(t, r)
  <2>1. CASE BeginJob(t)
    BY <1>4, <2>1 DEF BeginJob
  <2>2. CASE MarkCharged(t)
    <3>1. PICK wanted : Advance(t, [txn[t] EXCEPT !.now = clock, !.wanted = wanted])
      BY <2>2, Zenon DEF MarkCharged
    <3> QED
      BY <1>4, <3>1
  <2>3. CASE WriteRow(t)
    BY <1>4, <2>3 DEF WriteRow
  <2>4. CASE BeginWebhook(t)
    BY <1>4, <2>4 DEF BeginWebhook
  <2>5. CASE DropCards(t)
    BY <1>4, <2>5 DEF DropCards
  <2>6. CASE LoadRow(t)
    BY <1>4, <2>6 DEF LoadRow
  <2>7. CASE InsertRow(t)
    BY <1>4, <2>7 DEF InsertRow
  <2>8. CASE MarkVerified(t)
    <3>1. PICK wanted : Advance(t, [txn[t] EXCEPT !.loaded = Seen(t), !.wanted = wanted])
      BY <2>8, Zenon DEF MarkVerified
    <3> QED
      BY <1>4, <3>1
  <2> QED
    BY <2>1, <2>2, <2>3, <2>4, <2>5, <2>6, <2>7, <2>8
<1> QED
  BY <1>2, <1>3, <1>5, MandateKept DEF MandateUnchanged

\* A cancellation or a grant at most withdraws the mandate.
LEMMA MandateOthers ==
    ASSUME TxnInv, NEW t \in Txns,
           \/ t \in Cancels /\ (Cancel(t) \/ RollBack(t))
           \/ t \in Grants /\ (Grant(t) \/ RollBack(t))
    PROVE  MandateUnchanged \/ Mandate!Withdraw
<1>1. \E q : Moves(t, q)
  BY DropCardsMoves, LoadRowMoves, InsertRowMoves, EndingMoves, WriteRowMoves, CancelMoves,
     GrantMoves DEF Cancel, Grant
<1>2. t \notin Jobs \cup Webhooks
  BY BillingTxnAssumption
<1>3. UNCHANGED <<Picked, Owed, Filing>>
  BY <1>1, <1>2, MandateEntries DEF Moves
<1>4. taken' = taken
  BY DEF Cancel, Grant, RollBack, BeginCancel, DropCards, MarkCancelled, WriteRow, Tell, Commit,
     BeginGrant, LoadRow, InsertRow, InsertFails, MarkGranted
<1>5. active' = active \/ (active' = (active \ txn[t].drops) \cup ({t} \cap Webhooks))
  BY DEF Cancel, Grant, RollBack, BeginCancel, DropCards, MarkCancelled, WriteRow, Tell, Commit,
     BeginGrant, LoadRow, InsertRow, InsertFails, MarkGranted
<1>6. (active' # {}) = (active # {}) \/ (active' # {}) = FALSE
  BY <1>2, <1>5
<1> QED
  BY <1>3, <1>4, <1>6 DEF MandateUnchanged, Mandate!Withdraw, Picked, Owed, Filing

\* A request to the bank uses up some of what may be sent.
LEMMA BankSpends ==
    ASSUME TxnInv, NEW t \in Txns, CallBank(t)
    PROVE  \E q : /\ txn' = [txn EXCEPT ![t] = q]
                  /\ PickedOf(q) \in 0..(txn[t].left - 1)
                  /\ DueOf(q) = PickedOf(q) /\ q.at # "ended"
<1>1. txn[t] \in Transaction /\ txn[t].at = "bank" /\ txn[t].left \in 1..Attempts
  BY BillingTxnAssumption
     DEF TxnInv, Sound, Fits, CallBank, BankAnswers, AnswerLost, Transaction
<1>2. After(t, txn[t].at) = "mark"
  BY <1>1, AfterValues
<1>3. CASE BankAnswers(t)
  <2>1. PICK outcome \in {"paid", "refused"} : Advance(t, [txn[t] EXCEPT !.outcome = outcome])
    BY <1>3 DEF BankAnswers
  <2> DEFINE q == [[txn[t] EXCEPT !.outcome = outcome] EXCEPT !.at = "mark"]
  <2>2. txn' = [txn EXCEPT ![t] = q]
    BY <1>2, <2>1 DEF Advance
  <2>3. q.at = "mark"
    BY <1>1 DEF Transaction
  <2> HIDE DEF q
  <2>4. PickedOf(q) = 0 /\ DueOf(q) = 0
    BY <2>3 DEF PickedOf, DueOf
  <2>5. 0 \in 0..(txn[t].left - 1) /\ q.at # "ended"
    BY <1>1, <2>3, BillingTxnAssumption
  <2> QED
    BY <2>2, <2>4, <2>5, Zenon
<1>4. CASE txn[t].left > 1 /\ txn' = [txn EXCEPT ![t].left = @ - 1]
  <2> DEFINE q == [txn[t] EXCEPT !.left = @ - 1]
  <2>1. txn' = [txn EXCEPT ![t] = q]
    BY <1>4 DEF TxnInv, TypeOK
  <2>2. q.at = "bank" /\ q.left = txn[t].left - 1
    BY <1>1 DEF Transaction
  <2> HIDE DEF q
  <2> QED
    <3>1. PickedOf(q) = txn[t].left - 1 /\ DueOf(q) = txn[t].left - 1
      BY <2>2 DEF PickedOf, DueOf
    <3>2. txn[t].left - 1 \in 0..(txn[t].left - 1) /\ q.at # "ended"
      BY <1>1, <2>2, BillingTxnAssumption
    <3> QED
      BY <2>1, <3>1, <3>2, Zenon
<1>5. CASE Advance(t, [txn[t] EXCEPT !.left = 0, !.outcome = "refused"])
  <2> DEFINE q == [[txn[t] EXCEPT !.left = 0, !.outcome = "refused"] EXCEPT !.at = "mark"]
  <2>1. txn' = [txn EXCEPT ![t] = q]
    BY <1>2, <1>5 DEF Advance
  <2>2. q.at = "mark"
    BY <1>1 DEF Transaction
  <2> HIDE DEF q
  <2>3. PickedOf(q) = 0 /\ DueOf(q) = 0
    BY <2>2 DEF PickedOf, DueOf
  <2>4. 0 \in 0..(txn[t].left - 1) /\ q.at # "ended"
    BY <1>1, <2>2, BillingTxnAssumption
  <2> QED
    BY <2>1, <2>3, <2>4, Zenon
<1> QED
  BY <1>3, <1>4, <1>5 DEF CallBank, AnswerLost

\* What has ended sends nothing.
LEMMA FinishGivesUp ==
    ASSUME NEW t \in Txns, Finish(t)
    PROVE  \E q : /\ txn' = [txn EXCEPT ![t] = q]
                  /\ PickedOf(q) = 0 /\ DueOf(q) = 0 /\ q.at = "ended"
<1> DEFINE q == [Blank EXCEPT !.at = "ended"]
<1>1. txn' = [txn EXCEPT ![t] = q]
  BY DEF Finish
<1>2. q.at = "ended"
  BY DEF Blank
<1> HIDE DEF q
<1> QED
  BY <1>1, <1>2 DEF PickedOf, DueOf

\* The steps of a run of the job that concern the mandate: it picks a card up,
\* collects, and gives what it may still collect up when it is rolled back.
LEMMA MandateJobs ==
    ASSUME TxnInv, NEW t \in Jobs,
           PickCard(t) \/ CallBank(t) \/ Commit(t) \/ RollBack(t)
    PROVE  MandateUnchanged \/ Mandate!PickUp(t) \/ Mandate!Collect(t) \/ Mandate!Withdraw
<1>1. t \in Txns /\ t \notin Webhooks
  BY BillingTxnAssumption DEF Txns
<1>2. txn[t] \in Transaction /\ Sound(txn[t])
  BY <1>1 DEF TxnInv, Sound, Fits
<1>3. Picked = [s \in Jobs |-> Picked[s]] /\ Picked[t] = PickedOf(txn[t])
  BY DEF Picked, PickedOf
<1>4. ASSUME NEW q, txn' = [txn EXCEPT ![t] = q]
      PROVE  Picked' = [Picked EXCEPT ![t] = PickedOf(q)] /\ Owed' = Owed /\ Filing' = Filing
  BY <1>1, <1>4, MandateEntries
<1>5. CASE PickCard(t)
  <2>1. active' = active /\ taken' = taken /\ txn[t].at = "card" /\ txn[t].left = Attempts
    BY <1>2, <1>5 DEF PickCard, Sound, Fits, PreBank
  <2>2. CASE active # {} /\ Advance(t, txn[t])
    <3> DEFINE q == [txn[t] EXCEPT !.at = "bank"]
    <3>1. txn' = [txn EXCEPT ![t] = q]
      BY <2>1, <2>2, AfterValues DEF Advance
    <3>2. PickedOf(q) = Attempts
      BY <1>2, <2>1 DEF PickedOf, Transaction
    <3> HIDE DEF q
    <3>3. Picked' = [Picked EXCEPT ![t] = Attempts] /\ Owed' = Owed /\ Filing' = Filing
      BY <1>4, <3>1, <3>2
    <3> QED
      BY <2>1, <2>2, <3>3 DEF Mandate!PickUp, Picked, Owed, Filing
  <2>3. CASE txn' = [txn EXCEPT ![t].at = "mark", ![t].outcome = "refused"]
    <3> DEFINE q == [txn[t] EXCEPT !.at = "mark", !.outcome = "refused"]
    <3>1. txn' = [txn EXCEPT ![t] = q]
      BY <2>3, <1>1 DEF TxnInv, TypeOK
    <3>2. PickedOf(q) = 0 /\ PickedOf(txn[t]) = 0
      BY <1>2, <2>1 DEF PickedOf, Transaction
    <3> HIDE DEF q
    <3>3. Picked' = [Picked EXCEPT ![t] = Picked[t]] /\ Owed' = Owed /\ Filing' = Filing
      BY <1>3, <1>4, <3>1, <3>2
    <3> QED
      BY <1>3, <2>1, <3>3 DEF MandateUnchanged
  <2> QED
    BY <1>5, <2>2, <2>3 DEF PickCard
<1>6. CASE CallBank(t)
  <2>1. PICK q : /\ txn' = [txn EXCEPT ![t] = q]
                 /\ PickedOf(q) \in 0..(txn[t].left - 1)
    BY <1>1, <1>6, BankSpends
  <2>2. active' = active /\ taken' \in 0..1 /\ txn[t].at = "bank"
    BY <1>6 DEF TxnInv, TypeOK, CallBank, BankAnswers, AnswerLost
  <2>3. Picked[t] = txn[t].left /\ txn[t].left > 0
    BY <1>2, <1>3, <2>2 DEF PickedOf, Sound, Fits
  <2>4. Picked' = [Picked EXCEPT ![t] = PickedOf(q)] /\ Owed' = Owed /\ Filing' = Filing
    BY <1>4, <2>1
  <2> QED
    BY <2>1, <2>2, <2>3, <2>4 DEF Mandate!Collect, Picked, Owed, Filing
<1>7. CASE Finish(t) /\ txn[t].at # "bank"
  <2>1. PICK q : txn' = [txn EXCEPT ![t] = q] /\ PickedOf(q) = 0
    BY <1>1, <1>7, FinishGivesUp
  <2>2. Picked[t] = 0
    BY <1>3, <1>7 DEF PickedOf
  <2>3. UNCHANGED <<Picked, Owed, Filing>>
    BY <1>3, <1>4, <2>1, <2>2
  <2>4. /\ taken' = taken
        /\ active' = active \/ active' = (active \ txn[t].drops) \cup ({t} \cap Webhooks)
    BY <1>7, BillingTxnAssumption
       DEF PickCard, CallBank, BankAnswers, AnswerLost, Commit, RollBack
  <2>5. (active' # {}) = (active # {}) \/ (active' # {}) = FALSE
    BY <1>1, <2>4
  <2> QED
    BY <2>3, <2>4, <2>5 DEF MandateUnchanged, Mandate!Withdraw, Picked, Owed, Filing
<1>8. CASE RollBack(t) /\ txn[t].at = "bank"
  <2>1. PICK q : txn' = [txn EXCEPT ![t] = q] /\ PickedOf(q) = 0
    BY <1>1, <1>8, FinishGivesUp DEF RollBack
  <2>2. txn[t].left \in Nat \ {0} /\ Picked[t] = txn[t].left
    BY <1>2, <1>3, <1>8, BillingTxnAssumption DEF PickedOf, Sound, Fits, Transaction
  <2>3. active' = active /\ taken' \in 0..1
    BY <1>8 DEF RollBack, TxnInv, TypeOK
  <2>4. Picked' = [Picked EXCEPT ![t] = 0] /\ Owed' = Owed /\ Filing' = Filing
    BY <1>4, <2>1
  <2>5. Picked[t] > 0 /\ 0 \in 0..(Picked[t] - 1)
    BY <2>2
  <2> QED
    BY <2>3, <2>4, <2>5 DEF Mandate!Collect, Picked, Owed, Filing
<1> QED
  BY <1>5, <1>6, <1>7, <1>8 DEF Commit, RollBack

\* The steps of a webhook that concern the mandate: it takes what is due for the
\* card it presents, and files the card or gives up.
LEMMA MandateWebhooks ==
    ASSUME TxnInv, NEW t \in Webhooks,
           CallBank(t) \/ Commit(t) \/ InsertFails(t) \/ RollBack(t)
    PROVE  Mandate!Present(t) \/ Mandate!File(t)
<1>1. t \in Txns
  BY DEF Txns
<1>2. txn[t] \in Transaction /\ Sound(txn[t])
  BY <1>1 DEF TxnInv, Sound, Fits
<1>3. ASSUME NEW q, txn' = [txn EXCEPT ![t] = q]
      PROVE  /\ Owed' = [Owed EXCEPT ![t] = DueOf(q)] /\ Picked' = Picked
             /\ Filing' = IF q.at = "ended" THEN Filing \ {t} ELSE Filing \cup {t}
  BY <1>1, <1>3, MandateEntries
<1>4. CASE CallBank(t)
  <2>1. PICK q : /\ txn' = [txn EXCEPT ![t] = q]
                 /\ PickedOf(q) \in 0..(txn[t].left - 1)
                 /\ DueOf(q) = PickedOf(q) /\ q.at # "ended"
    BY <1>1, <1>4, BankSpends
  <2>2. active' = active /\ taken' \in 0..1 /\ txn[t].at = "bank"
    BY <1>4 DEF TxnInv, TypeOK, CallBank, BankAnswers, AnswerLost
  <2>3. Owed[t] = txn[t].left /\ txn[t].left > 0 /\ t \in Filing
    BY <1>2, <2>2 DEF Owed, Requests, Filing, Sound, Fits
  <2>4. Owed' = [Owed EXCEPT ![t] = DueOf(q)] /\ Picked' = Picked /\ Filing' = Filing \cup {t}
    BY <1>3, <2>1
  <2>5. DueOf(q) \in 0..(Owed[t] - 1) /\ Filing' = Filing
    BY <2>1, <2>3, <2>4
  <2> QED
    BY <2>2, <2>3, <2>4, <2>5 DEF Mandate!Present, Picked, Owed, Filing
<1>5. CASE Commit(t) \/ InsertFails(t) \/ RollBack(t)
  <2>1. PICK q : txn' = [txn EXCEPT ![t] = q] /\ DueOf(q) = 0 /\ q.at = "ended"
    BY <1>1, <1>5, FinishGivesUp DEF Commit, InsertFails, RollBack
  <2>2. t \in Filing
    BY <1>5 DEF Commit, InsertFails, RollBack, Open, Filing
  <2>3. /\ taken' = taken
        /\ active' = active \/ active' = (active \ txn[t].drops) \cup ({t} \cap Webhooks)
    BY <1>5 DEF Commit, RollBack, InsertFails
  <2>4. (active' # {}) \in {active # {}, TRUE}
    BY <2>3
  <2>5. Owed' = [Owed EXCEPT ![t] = 0] /\ Picked' = Picked /\ Filing' = Filing \ {t}
    BY <1>3, <2>1
  <2> QED
    BY <2>2, <2>3, <2>4, <2>5 DEF Mandate!File, Picked, Owed, Filing
<1> QED
  BY <1>4, <1>5

\* However transactions overlap and answers are lost, a withdrawn card costs its
\* owner at most what had been picked up: the implementation of PickedMandate.
THEOREM MandateImplemented == Spec => ChargesPickMandate
<1>1. Init => Mandate!Init
  <2> SUFFICES ASSUME Init PROVE Mandate!Init
    OBVIOUS
  <2>1. \A t \in Txns : txn[t].at = "begin"
    BY DEF Init, Blank
  <2>2. Jobs \subseteq Txns /\ Webhooks \subseteq Txns
    BY DEF Txns
  <2>3. (active # {}) \in BOOLEAN
    BY Zenon
  <2> QED
    BY <2>1, <2>2, <2>3 DEF Init, Mandate!Init, Requests
<1>2. TxnInv /\ [Next]_vars => [Mandate!Next]_(Mandate!vars)
  <2> SUFFICES ASSUME TxnInv, [Next]_vars
               PROVE  Mandate!Next \/ MandateUnchanged
    BY DEF Mandate!vars, MandateUnchanged, Picked, Owed, Filing
  <2>1. ASSUME NEW t \in Jobs, Job(t) \/ RollBack(t) PROVE Mandate!Next \/ MandateUnchanged
    <3>1. t \in Txns
      BY DEF Txns
    <3>2. CASE BeginJob(t) \/ MarkCharged(t) \/ WriteRow(t)
      BY <3>1, <3>2, MandateSilent
    <3>3. CASE PickCard(t) \/ CallBank(t) \/ Commit(t) \/ RollBack(t)
      BY <3>3, MandateJobs DEF Mandate!Next
    <3> QED
      BY <2>1, <3>2, <3>3 DEF Job
  <2>2. ASSUME NEW t \in Webhooks, Webhook(t) \/ RollBack(t) PROVE Mandate!Next \/ MandateUnchanged
    <3>1. t \in Txns
      BY DEF Txns
    <3>2. CASE \/ BeginWebhook(t) \/ DropCards(t) \/ LoadRow(t) \/ InsertRow(t)
               \/ MarkVerified(t) \/ WriteRow(t)
      BY <3>1, <3>2, MandateSilent
    <3>3. CASE CallBank(t) \/ Commit(t) \/ InsertFails(t) \/ RollBack(t)
      BY <3>3, MandateWebhooks DEF Mandate!Next
    <3> QED
      BY <2>2, <3>2, <3>3 DEF Webhook
  <2>3. ASSUME NEW t \in Cancels \cup Grants,
               \/ t \in Cancels /\ (Cancel(t) \/ RollBack(t))
               \/ t \in Grants /\ (Grant(t) \/ RollBack(t))
        PROVE  Mandate!Next \/ MandateUnchanged
    BY <2>3, MandateOthers DEF Txns, Mandate!Next
  <2>4. CASE UNCHANGED vars
    BY <2>4 DEF vars, MandateUnchanged, Picked, Owed, Requests, Filing
  <2> QED
    BY <2>1, <2>2, <2>3, <2>4 DEF Next, Txns
<1> QED
  BY <1>1, <1>2, TxnInvHolds, PTL DEF Spec, ChargesPickMandate, Mandate!Spec

-----------------------------------------------------------------------------
(***************************************************************************)
(* Whoever is charged gets the period.  The ORM leaves a column out of the *)
(* UPDATE when its new value is the one that was loaded, so the proof is   *)
(* that no date of a row a charge starts from is a date it will write.     *)
(***************************************************************************)

\* The dates of a row that was written before now.
Before(r, now) ==
    /\ r.start < now /\ r.end < now + Duration
    /\ r.next < now + Duration \/ r.next < now + RetryTicks

\* The rows to begin with were written before the clock starts.
RowsBefore == \A r \in Rows : Before(r, 1)

\* A webhook, which reads the clock first and its row last, ends sooner than the time by
\* which a period exceeds the interval of a retry, with the settings of the code 29 days.
Brief == \A t \in Webhooks : Open(t) =>
    Duration = RetryTicks \/ clock <= txn[t].now + Duration - RetryTicks

\* r has none of the dates of a period that starts now; it has all of them.
Clear(r, now)  == r.start # now /\ r.end # now + Duration /\ r.next # now + Duration
Period(r, now) == r.start = now /\ r.end = now + Duration /\ r.next = now + Duration

\* What the record of another transaction has to do with a charge of now: nothing.
Distinct(r, now) == r.now # now /\ Clear(r.loaded, now) /\ Clear(r.wanted, now)

\* All that is in a record is from before now.
Dated(r, now) == r.now < now /\ Before(r.loaded, now) /\ Before(r.wanted, now)

\* A confirmed charge that is about to write, or has written.
Bought(r) == r.outcome = "paid" /\ r.at \in {"write", "end"} =>
    /\ Period(r.wanted, r.now) /\ Clear(r.loaded, r.now)
    /\ r.at = "end" => "row" \in r.locks

UnderWay(r) == r.at \notin {"begin", "ended"}

\* The inductive invariant, as long as webhooks are brief.
PeriodInv ==
    /\ Before(row, clock)
    /\ \A t \in Txns : Dated(txn[t], clock)
    /\ \A t \in Jobs : Open(t) => txn[t].loaded.next <= clock
    /\ \A t \in Webhooks : Open(t) =>
          /\ txn[t].now \in Nat /\ Clear(row, txn[t].now) /\ Clear(txn[t].loaded, txn[t].now)
          /\ \A s \in Txns \ {t} : Distinct(txn[s], txn[t].now)
    /\ \A t \in Jobs \cup Webhooks : Bought(txn[t])

\* The dates of a row are numbers.
LEMMA DatesAreInts ==
    ASSUME NEW r \in Row
    PROVE  r.start \in Int /\ r.end \in Int /\ r.next \in Int
BY DEF Row, Time, None

\* The dates that the updates leave (SubscriptionRows).
LEMMA UpdatedDates ==
    ASSUME NEW r \in Row, NEW now
    PROVE  /\ Period(MarkActive(r, now, Duration), now)
           /\ \A u \in {MarkFailed(r, now), FirstChargeFailed(r, now)} :
                 u.start = r.start /\ u.end = r.end /\ u.next = now + RetryTicks
           /\ LET u == CancelRow(r) IN u.start = r.start /\ u.end = r.end /\ u.next = None
           /\ LET u == GrantPermanent(r, now)
              IN  u.start = now /\ u.end = None /\ u.next = r.next
           /\ LET u == GetOrCreate(r)
              IN  u.start = r.start /\ u.end = r.end /\ u.next = r.next
<1>1. Period(MarkActive(r, now, Duration), now)
  BY DEF MarkActive, Period, Row
<1>2. \A u \in {MarkFailed(r, now), FirstChargeFailed(r, now)} :
         u.start = r.start /\ u.end = r.end /\ u.next = now + RetryTicks
  BY DEF MarkFailed, FirstChargeFailed, Row
<1>3. LET u == CancelRow(r) IN u.start = r.start /\ u.end = r.end /\ u.next = None
  BY DEF CancelRow, Row
<1>4. LET u == GetOrCreate(r) IN u.start = r.start /\ u.end = r.end /\ u.next = r.next
  BY DEF GetOrCreate, Row
<1>5. GetOrCreate(r) \in Row
  BY DEF GetOrCreate, Row, Status
<1>6. LET u == GrantPermanent(r, now) IN u.start = now /\ u.end = None /\ u.next = r.next
  BY <1>4, <1>5 DEF GrantPermanent, Row
<1> QED
  BY <1>1, <1>2, <1>3, <1>4, <1>6

\* The row that nobody has written yet is from before any time, and has no dates.
LEMMA NoDates ==
    ASSUME NEW r \in {NoRow, GetOrCreate(NoRow)}, NEW now \in Nat
    PROVE  Before(r, now) /\ Clear(r, now)
<1>1. r.start = -1 /\ r.end = -1 /\ r.next = -1
  BY DEF NoRow, GetOrCreate, None
<1> QED
  BY <1>1, BillingTxnAssumption DEF Before, Clear

\* The past stays the past.
LEMMA BeforeLater ==
    ASSUME NEW r \in Row, NEW now \in Nat, NEW later \in Nat, now <= later, Before(r, now)
    PROVE  Before(r, later)
BY DatesAreInts, BillingTxnAssumption DEF Before, RetryTicks, TicksPerDay

\* A period that starts now has none of the dates of a row from before.
LEMMA BeforeIsClear ==
    ASSUME NEW r \in Row, NEW now \in Nat, Before(r, now), RetryTicks <= Duration
    PROVE  Clear(r, now)
BY DatesAreInts, BillingTxnAssumption DEF Before, Clear, RetryTicks, TicksPerDay

\* What is written at an earlier time to a row from before now is from before now.
LEMMA UpdatesBefore ==
    ASSUME NEW r \in Row, NEW at \in Nat, NEW now \in Nat, at < now, Before(r, now)
    PROVE  /\ Before(MarkActive(r, at, Duration), now)
           /\ Before(MarkFailed(r, at), now) /\ Before(FirstChargeFailed(r, at), now)
           /\ Before(CancelRow(r), now) /\ Before(GrantPermanent(r, at), now)
<1>1. r.start \in Int /\ r.end \in Int /\ r.next \in Int /\ Duration \in Nat /\ None = -1
  BY DatesAreInts, BillingTxnAssumption DEF None
<1>2. Before(MarkActive(r, at, Duration), now)
  BY <1>1, UpdatedDates DEF Before, Period
<1>3. ASSUME NEW u \in {MarkFailed(r, at), FirstChargeFailed(r, at)} PROVE Before(u, now)
  <2>1. u.start = r.start /\ u.end = r.end /\ u.next = at + RetryTicks
    BY UpdatedDates
  <2> QED
    BY <1>1, <2>1 DEF Before, RetryTicks, TicksPerDay
<1>4. Before(CancelRow(r), now)
  BY <1>1, UpdatedDates DEF Before
<1>5. Before(GrantPermanent(r, at), now)
  BY <1>1, UpdatedDates DEF Before
<1> QED
  BY <1>2, <1>3, <1>4, <1>5

\* What is written at another time keeps a row clear of a period that starts now; a retry
\* does so when it is not due at the end of that period.
LEMMA UpdatesClear ==
    ASSUME NEW r \in Row, NEW at \in Nat, NEW now \in Nat, at # now, Clear(r, now)
    PROVE  /\ Clear(MarkActive(r, at, Duration), now)
           /\ at + RetryTicks # now + Duration =>
                Clear(MarkFailed(r, at), now) /\ Clear(FirstChargeFailed(r, at), now)
           /\ Clear(CancelRow(r), now) /\ Clear(GrantPermanent(r, at), now)
<1>1. r.start \in Int /\ r.end \in Int /\ r.next \in Int /\ Duration \in Nat /\ None = -1
  BY DatesAreInts, BillingTxnAssumption DEF None
<1>2. Clear(MarkActive(r, at, Duration), now)
  BY <1>1, UpdatedDates DEF Clear, Period
<1>3. ASSUME NEW u \in {MarkFailed(r, at), FirstChargeFailed(r, at)},
             at + RetryTicks # now + Duration
      PROVE  Clear(u, now)
  <2>1. u.start = r.start /\ u.end = r.end /\ u.next = at + RetryTicks
    BY UpdatedDates
  <2> QED
    BY <1>3, <2>1 DEF Clear
<1>4. Clear(CancelRow(r), now)
  BY <1>1, UpdatedDates DEF Clear
<1>5. Clear(GrantPermanent(r, at), now)
  BY <1>1, UpdatedDates DEF Clear
<1> QED
  BY <1>2, <1>3, <1>4, <1>5

\* An UPDATE leaves in each column what is wanted or what is there, and what is wanted
\* wherever that is not what was loaded (SubscriptionRepository.update).
LEMMA MergedDates ==
    ASSUME NEW current \in Row, NEW loaded \in Row, NEW wanted \in Row, NEW now
    PROVE  LET merged == Merge(current, loaded, wanted, {})
           IN  /\ Before(current, now) /\ Before(wanted, now) => Before(merged, now)
               /\ Clear(current, now) /\ Clear(wanted, now) => Clear(merged, now)
               /\ Period(wanted, now) /\ Clear(loaded, now) => Period(merged, now)
<1> DEFINE merged == Merge(current, loaded, wanted, {})
<1>1. merged = [c \in {"status", "trialEnd", "start", "end", "next", "retry"} |->
                   IF wanted[c] # loaded[c] THEN wanted[c] ELSE current[c]]
  BY DEF Merge, Row
<1>2. /\ merged.start = IF wanted.start # loaded.start THEN wanted.start ELSE current.start
      /\ merged.end = IF wanted.end # loaded.end THEN wanted.end ELSE current.end
      /\ merged.next = IF wanted.next # loaded.next THEN wanted.next ELSE current.next
  BY <1>1
<1> HIDE DEF merged
<1>3. Before(current, now) /\ Before(wanted, now) => Before(merged, now)
  BY <1>2 DEF Before
<1>4. Clear(current, now) /\ Clear(wanted, now) => Clear(merged, now)
  BY <1>2 DEF Clear
<1>5. Period(wanted, now) /\ Clear(loaded, now) => Period(merged, now)
  BY <1>2 DEF Period, Clear
<1> QED
  BY <1>3, <1>4, <1>5 DEF merged

\* A mark of another time puts no retry at the end of the period of a brief webhook.
LEMMA BriefRetry ==
    ASSUME NEW n \in Nat, NEW c \in Nat, NEW at \in Nat, at < c, at # n,
           Duration = RetryTicks \/ c <= n + Duration - RetryTicks
    PROVE  at + RetryTicks # n + Duration
BY BillingTxnAssumption DEF RetryTicks, TicksPerDay

\* What a transaction that moves to record q needs to keep the invariant.
Timely(t, q) ==
    /\ Dated(q, clock')
    /\ \A w \in Webhooks \ {t} : Open(w) => Distinct(q, txn[w].now)
    /\ t \in Jobs /\ UnderWay(q) => q.loaded.next <= clock'
    /\ t \in Webhooks /\ UnderWay(q) =>
          /\ q.now \in Nat /\ Clear(row', q.now) /\ Clear(q.loaded, q.now)
          /\ \A s \in Txns \ {t} : Distinct(txn[s], q.now)
    /\ t \in Jobs \cup Webhooks => Bought(q)

\* What the row and the clock need.
RowTimely(t) ==
    /\ clock' \in Nat /\ clock <= clock' /\ Before(row', clock')
    /\ \A w \in Webhooks \ {t} : Open(w) => Clear(row', txn[w].now)

\* The records of transactions have dates.
LEMMA RecordDates ==
    ASSUME TxnInv, NEW t \in Txns
    PROVE  /\ txn[t] \in Transaction /\ txn[t].now \in Int
           /\ txn[t].loaded \in Row /\ txn[t].wanted \in Row
           /\ row \in Row /\ clock \in Nat
BY RecordTypes DEF Transaction, Time, None, OthersTyped

\* A step that moves one transaction so keeps the invariant.
LEMMA TimelyKeepsInv ==
    ASSUME TxnInv, PeriodInv, NEW t \in Txns, NEW q, txn' = [txn EXCEPT ![t] = q],
           RowTimely(t), Timely(t, q)
    PROVE  PeriodInv'
<1>1. txn'[t] = q /\ \A s \in Txns \ {t} : txn'[s] = txn[s]
  BY DEF TxnInv, TypeOK
<1>2. Jobs \subseteq Txns /\ Webhooks \subseteq Txns
  BY DEF Txns
<1>3. Before(row, clock)' 
  BY DEF RowTimely, Before
<1>4. ASSUME NEW s \in Txns PROVE Dated(txn'[s], clock')
  <2>1. CASE s = t
    BY <1>1, <2>1 DEF Timely
  <2>2. CASE s # t
    <3>1. Dated(txn[s], clock) /\ txn[s].now < clock'
      BY RecordDates DEF PeriodInv, Dated, RowTimely
    <3>2. Before(txn[s].loaded, clock') /\ Before(txn[s].wanted, clock')
      BY <3>1, RecordDates, BeforeLater DEF Dated, RowTimely
    <3> QED
      BY <1>1, <2>2, <3>1, <3>2 DEF Dated
  <2> QED
    BY <2>1, <2>2
<1>5. ASSUME NEW s \in Jobs, UnderWay(txn'[s]) PROVE txn'[s].loaded.next <= clock'
  <2>1. CASE s = t
    BY <1>1, <1>5, <2>1 DEF Timely
  <2>2. CASE s # t
    <3>1. txn'[s] = txn[s] /\ s \in Txns
      BY <1>1, <1>2, <2>2
    <3>2. txn[s].loaded.next <= clock
      BY <1>5, <3>1 DEF PeriodInv, Open, UnderWay
    <3> QED
      BY <3>1, <3>2, RecordDates, DatesAreInts DEF RowTimely
  <2> QED
    BY <2>1, <2>2
<1>6. ASSUME NEW w \in Webhooks, UnderWay(txn'[w])
      PROVE  /\ txn'[w].now \in Nat /\ Clear(row', txn'[w].now)
             /\ Clear(txn'[w].loaded, txn'[w].now)
             /\ \A s \in Txns \ {w} : Distinct(txn'[s], txn'[w].now)
  <2>1. CASE w = t
    BY <1>1, <1>6, <2>1 DEF Timely
  <2>2. CASE w # t
    <3>1. txn'[w] = txn[w] /\ Open(w)
      BY <1>1, <1>2, <1>6, <2>2 DEF Open, UnderWay
    <3>2. /\ txn[w].now \in Nat /\ Clear(txn[w].loaded, txn[w].now)
          /\ \A s \in Txns \ {w} : Distinct(txn[s], txn[w].now)
      BY <3>1 DEF PeriodInv
    <3>3. Clear(row', txn[w].now) /\ Distinct(q, txn[w].now)
      BY <2>2, <3>1 DEF RowTimely, Timely
    <3> QED
      BY <1>1, <3>1, <3>2, <3>3
  <2> QED
    BY <2>1, <2>2
<1>7. ASSUME NEW s \in Jobs \cup Webhooks PROVE Bought(txn'[s])
  BY <1>1, <1>2 DEF PeriodInv, Timely
<1> QED
  BY <1>2, <1>3, <1>4, <1>5, <1>6, <1>7 DEF PeriodInv, Dated, Bought, Distinct, Clear, Open,
     UnderWay

\* Only jobs and webhooks charge; where each of their steps leads.
LEMMA ChargesAfter ==
    ASSUME NEW t \in Jobs \cup Webhooks
    PROVE  /\ \A step \in {"begin", "card", "tokens", "row", "insert", "bank"} :
                 After(t, step) \notin {"write", "end", "ended"}
           /\ After(t, "mark") = "write" /\ After(t, "write") = "end"
<1>1. t \notin Cancels
  BY BillingTxnAssumption
<1> QED
  BY <1>1 DEF After

\* Neither the clock nor the table changes.
LEMMA StillTimely ==
    ASSUME TxnInv, PeriodInv, NEW t \in Txns, UNCHANGED <<clock, row>>
    PROVE  RowTimely(t)
BY RecordDates DEF PeriodInv, RowTimely, Before

\* What a transaction may load: what it has loaded, the row, or the row it has made.
LEMMA LoadedDates ==
    ASSUME TxnInv, PeriodInv, NEW t \in Txns,
           NEW r \in {txn[t].loaded, row, GetOrCreate(NoRow), Seen(t)}
    PROVE  /\ r \in Row /\ Before(r, clock)
           /\ \A w \in Webhooks : Open(w) =>
                 txn[w].now \in Nat /\ txn[w].now < clock /\ Clear(r, txn[w].now)
<1>1. r \in {txn[t].loaded, row, GetOrCreate(NoRow)}
  BY DEF Seen
<1>2. NoRow \in Row
  BY DEF NoRow, Row, None, Time
<1>3. r \in Row /\ clock \in Nat
  BY <1>1, <1>2, RecordTypes, WantedIsRow DEF OthersTyped
<1>4. Before(r, clock)
  BY <1>1, <1>3, NoDates DEF PeriodInv, Dated
<1>5. ASSUME NEW w \in Webhooks, Open(w)
      PROVE  txn[w].now \in Nat /\ txn[w].now < clock /\ Clear(r, txn[w].now)
  <2>1. w \in Txns
    BY DEF Txns
  <2>2. /\ txn[w].now \in Nat /\ Clear(row, txn[w].now) /\ Clear(txn[w].loaded, txn[w].now)
        /\ \A s \in Txns \ {w} : Distinct(txn[s], txn[w].now)
    BY <1>5 DEF PeriodInv
  <2>3. txn[w].now < clock
    BY <2>1 DEF PeriodInv, Dated
  <2>4. Clear(txn[t].loaded, txn[w].now)
    BY <2>2 DEF Distinct
  <2> QED
    BY <1>1, <2>2, <2>3, <2>4, NoDates
<1> QED
  BY <1>3, <1>4, <1>5

\* Steps that set no date.
LEMMA DatelessKeeps ==
    ASSUME TxnInv, PeriodInv, NEW t \in Txns, NEW q, txn' = [txn EXCEPT ![t] = q],
           UNCHANGED <<clock, row>>, q.now = txn[t].now, q.wanted = txn[t].wanted,
           q.loaded \in {txn[t].loaded, row, GetOrCreate(NoRow)},
           t \in Jobs => q.loaded = txn[t].loaded,
           t \in Jobs \cup Webhooks => Open(t) /\ Bought(q)
    PROVE  PeriodInv'
<1>1. /\ q.loaded \in Row /\ Before(q.loaded, clock)
      /\ \A w \in Webhooks : Open(w) => Clear(q.loaded, txn[w].now)
  BY LoadedDates
<1>2. Dated(txn[t], clock) /\ clock' = clock /\ row' = row
  BY DEF PeriodInv
<1>3. Dated(q, clock')
  BY <1>1, <1>2 DEF Dated
<1>4. ASSUME NEW w \in Webhooks \ {t}, Open(w) PROVE Distinct(q, txn[w].now)
  <2>1. Distinct(txn[t], txn[w].now)
    BY <1>4 DEF PeriodInv
  <2> QED
    BY <1>1, <1>4, <2>1 DEF Distinct
<1>5. ASSUME t \in Jobs PROVE q.loaded.next <= clock'
  BY <1>2, <1>5 DEF PeriodInv
<1>6. ASSUME t \in Webhooks
      PROVE  /\ q.now \in Nat /\ Clear(row', q.now) /\ Clear(q.loaded, q.now)
             /\ \A s \in Txns \ {t} : Distinct(txn[s], q.now)
  BY <1>1, <1>2, <1>6 DEF PeriodInv
<1>7. Timely(t, q)
  BY <1>3, <1>4, <1>5, <1>6 DEF Timely
<1> QED
  BY <1>7, StillTimely, TimelyKeepsInv

\* What an open charge has in its record: its next steps, and the fields that a step keeps.
LEMMA AdvanceRecord ==
    ASSUME NEW t \in Txns, NEW r \in Transaction, Advance(t, r)
    PROVE  LET q == [r EXCEPT !.at = After(t, txn[t].at)]
           IN  /\ txn' = [txn EXCEPT ![t] = q]
               /\ q.at = After(t, txn[t].at) /\ q.now = r.now /\ q.loaded = r.loaded
               /\ q.wanted = r.wanted /\ q.outcome = r.outcome /\ q.locks = r.locks
BY DEF Advance, Transaction

\* Steps that go on without setting a date, before the mark.
LEMMA AdvanceDateless ==
    ASSUME TxnInv, PeriodInv, NEW t \in Txns, NEW r \in Transaction, Advance(t, r),
           UNCHANGED <<clock, row>>, r.now = txn[t].now, r.wanted = txn[t].wanted,
           r.loaded \in {txn[t].loaded, row, GetOrCreate(NoRow)},
           t \in Jobs => r.loaded = txn[t].loaded,
           t \in Jobs \cup Webhooks => txn[t].at \in {"card", "tokens", "row", "insert", "bank"}
    PROVE  PeriodInv'
<1> DEFINE q == [r EXCEPT !.at = After(t, txn[t].at)]
<1>1. /\ txn' = [txn EXCEPT ![t] = q]
      /\ q.at = After(t, txn[t].at) /\ q.now = r.now /\ q.loaded = r.loaded
      /\ q.wanted = r.wanted
  BY AdvanceRecord
<1> HIDE DEF q
<1>2. t \in Jobs \cup Webhooks => Open(t) /\ Bought(q)
  BY <1>1, ChargesAfter DEF Open, Bought
<1> QED
  BY <1>1, <1>2, DatelessKeeps

\* The UPDATE of a charge has something to write (subscription_service.py:67).
LEMMA WriteRowTimely ==
    ASSUME TxnInv, PeriodInv, NEW t \in Txns, WriteRow(t)
    PROVE  PeriodInv'
<1> DEFINE locks == IF Changes(t) THEN txn[t].locks \cup {"row"} ELSE txn[t].locks
           r == [txn[t] EXCEPT !.locks = locks]
           q == [r EXCEPT !.at = After(t, txn[t].at)]
<1>1. txn[t] \in Transaction /\ txn[t].at = "write" /\ UNCHANGED <<clock, row>>
  BY RecordDates DEF WriteRow
<1>2. locks \in SUBSET {"row", "tokens"}
  BY <1>1 DEF Transaction
<1>3. Advance(t, r)
  BY DEF WriteRow
<1> HIDE DEF locks
<1>4. /\ r \in Transaction /\ r.locks = locks /\ r.now = txn[t].now /\ r.loaded = txn[t].loaded
      /\ r.wanted = txn[t].wanted /\ r.outcome = txn[t].outcome
  BY <1>1, <1>2 DEF Transaction
<1> HIDE DEF r
<1>5. /\ txn' = [txn EXCEPT ![t] = q]
      /\ q.at = After(t, "write") /\ q.now = r.now /\ q.loaded = r.loaded
      /\ q.wanted = r.wanted /\ q.outcome = r.outcome /\ q.locks = r.locks
  BY <1>1, <1>3, <1>4, AdvanceRecord
<1> HIDE DEF q
<1>6. ASSUME t \in Jobs \cup Webhooks PROVE Open(t) /\ Bought(q)
  <2>1. Bought(txn[t]) /\ Open(t)
    BY <1>1, <1>6 DEF PeriodInv, Open
  <2>2. ASSUME q.outcome = "paid"
        PROVE  /\ Period(q.wanted, q.now) /\ Clear(q.loaded, q.now) /\ "row" \in q.locks
    <3>1. Period(txn[t].wanted, txn[t].now) /\ Clear(txn[t].loaded, txn[t].now)
      BY <1>1, <1>4, <1>5, <2>1, <2>2 DEF Bought
    <3>2. Changes(t)
      BY <3>1 DEF Changes, Period, Clear
    <3> QED
      BY <1>4, <1>5, <3>1, <3>2 DEF locks
  <2> QED
    BY <2>1, <2>2 DEF Bought
<1> QED
  BY <1>1, <1>4, <1>5, <1>6, DatelessKeeps

\* The other steps that set no date.
LEMMA OthersTimely ==
    ASSUME TxnInv, PeriodInv, NEW t \in Txns,
           \/ t \in Jobs /\ (PickCard(t) \/ CallBank(t))
           \/ t \in Webhooks /\ (DropCards(t) \/ LoadRow(t) \/ InsertRow(t) \/ CallBank(t))
           \/ t \in Cancels /\ (BeginCancel(t) \/ DropCards(t) \/ Tell(t))
           \/ t \in Grants /\ (BeginGrant(t) \/ LoadRow(t) \/ InsertRow(t))
    PROVE  PeriodInv'
<1>1. txn[t] \in Transaction /\ txn \in [Txns -> Transaction] /\ UNCHANGED <<clock, row>>
  BY RecordDates
     DEF PickCard, CallBank, BankAnswers, AnswerLost, DropCards, LoadRow, InsertRow, BeginCancel,
         Tell, BeginGrant, TxnInv, TypeOK
<1>2. t \in Jobs \cup Webhooks => txn[t].at \in {"card", "tokens", "row", "insert", "bank"}
  BY BillingTxnAssumption
     DEF PickCard, CallBank, BankAnswers, AnswerLost, DropCards, LoadRow, InsertRow
<1>3. t \in Jobs => PickCard(t) \/ CallBank(t)
  BY BillingTxnAssumption
<1>4. CASE \E r \in Transaction :
              /\ Advance(t, r) /\ r.now = txn[t].now /\ r.wanted = txn[t].wanted
              /\ r.loaded \in {txn[t].loaded, row, GetOrCreate(NoRow)}
              /\ t \in Jobs => r.loaded = txn[t].loaded
  BY <1>1, <1>2, <1>4, AdvanceDateless
<1>5. CASE Advance(t, txn[t])
  BY <1>1, <1>4, <1>5
<1>6. CASE DropCards(t)
  <2> DEFINE r == [txn[t] EXCEPT !.locks = @ \cup {"tokens"}]
  <2>1. /\ r \in Transaction /\ r.now = txn[t].now /\ r.wanted = txn[t].wanted
        /\ r.loaded = txn[t].loaded
    BY <1>1 DEF Transaction
  <2>2. Advance(t, r)
    BY <1>6 DEF DropCards
  <2> HIDE DEF r
  <2> QED
    BY <1>4, <2>1, <2>2
<1>7. CASE LoadRow(t)
  <2> DEFINE r == [txn[t] EXCEPT !.loaded = row]
  <2>1. r \in Transaction /\ r.now = txn[t].now /\ r.wanted = txn[t].wanted /\ r.loaded = row
    BY <1>1, RecordDates DEF Transaction
  <2>2. Advance(t, r) /\ t \notin Jobs
    BY <1>3, <1>7 DEF LoadRow, PickCard, CallBank, BankAnswers, AnswerLost
  <2> HIDE DEF r
  <2> QED
    BY <1>4, <2>1, <2>2
<1>8. CASE InsertRow(t)
  <2>1. txn[t].at = "insert" /\ t \notin Jobs
    BY <1>3, <1>8 DEF InsertRow, PickCard, CallBank, BankAnswers, AnswerLost
  <2>2. PICK made \in BOOLEAN, locks \in SUBSET {"row", "tokens"} :
            \/ Advance(t, txn[t])
            \/ Advance(t, [txn[t] EXCEPT !.made = made, !.loaded = GetOrCreate(NoRow),
                                         !.locks = locks])
    <3>1. TRUE \in BOOLEAN
      OBVIOUS
    <3>2. txn[t].locks \cup {"row"} \in SUBSET {"row", "tokens"}
      BY <1>1 DEF Transaction
    <3>3. \/ Advance(t, txn[t])
          \/ Advance(t, [txn[t] EXCEPT !.made = TRUE, !.loaded = GetOrCreate(NoRow),
                                       !.locks = txn[t].locks \cup {"row"}])
      BY <1>8, Zenon DEF InsertRow
    <3> QED
      BY <3>1, <3>2, <3>3, Zenon
  <2> DEFINE r == [txn[t] EXCEPT !.made = made, !.loaded = GetOrCreate(NoRow), !.locks = locks]
  <2>3. GetOrCreate(NoRow) \in Row
    BY LoadedDates
  <2>4. /\ r \in Transaction /\ r.now = txn[t].now /\ r.wanted = txn[t].wanted
        /\ r.loaded = GetOrCreate(NoRow)
    BY <1>1, <2>3 DEF Transaction
  <2> HIDE DEF r
  <2> QED
    BY <1>4, <1>5, <2>1, <2>2, <2>4 DEF r
<1>9. CASE CallBank(t)
  <2>1. /\ txn[t].at = "bank"
        /\ \/ \E outcome \in {"paid", "refused"} : Advance(t, [txn[t] EXCEPT !.outcome = outcome])
           \/ Advance(t, [txn[t] EXCEPT !.left = 0, !.outcome = "refused"])
           \/ txn' = [txn EXCEPT ![t].left = @ - 1]
    BY <1>9 DEF CallBank, BankAnswers, AnswerLost
  <2>2. ASSUME NEW outcome \in {"paid", "refused"}, Advance(t, [txn[t] EXCEPT !.outcome = outcome])
        PROVE  PeriodInv'
    <3> DEFINE r == [txn[t] EXCEPT !.outcome = outcome]
    <3>1. /\ r \in Transaction /\ r.now = txn[t].now /\ r.wanted = txn[t].wanted
          /\ r.loaded = txn[t].loaded
      BY <1>1 DEF Transaction, Outcome
    <3> HIDE DEF r
    <3> QED
      BY <1>4, <2>2, <3>1 DEF r
  <2>3. CASE Advance(t, [txn[t] EXCEPT !.left = 0, !.outcome = "refused"])
    <3> DEFINE r == [txn[t] EXCEPT !.left = 0, !.outcome = "refused"]
    <3>1. 0 \in 0..Attempts /\ "refused" \in Outcome
      BY BillingTxnAssumption DEF Outcome
    <3>2. /\ r \in Transaction /\ r.now = txn[t].now /\ r.wanted = txn[t].wanted
          /\ r.loaded = txn[t].loaded
      BY <1>1, <3>1 DEF Transaction
    <3> HIDE DEF r
    <3> QED
      BY <1>4, <2>3, <3>2 DEF r
  <2>4. CASE txn' = [txn EXCEPT ![t].left = @ - 1]
    <3> DEFINE q == [txn[t] EXCEPT !.left = @ - 1]
    <3>1. txn' = [txn EXCEPT ![t] = q]
      BY <1>1, <2>4
    <3>2. /\ q.at = "bank" /\ q.now = txn[t].now /\ q.wanted = txn[t].wanted
          /\ q.loaded = txn[t].loaded
      BY <1>1, <2>1 DEF Transaction
    <3> HIDE DEF q
    <3>3. Open(t) /\ Bought(q)
      BY <2>1, <3>2 DEF Open, Bought
    <3> QED
      BY <1>1, <3>1, <3>2, <3>3, DatelessKeeps
  <2> QED
    BY <2>1, <2>2, <2>3, <2>4
<1>10. CASE PickCard(t)
  <2>1. CASE txn' = [txn EXCEPT ![t].at = "mark", ![t].outcome = "refused"]
    <3> DEFINE q == [txn[t] EXCEPT !.at = "mark", !.outcome = "refused"]
    <3>1. txn' = [txn EXCEPT ![t] = q]
      BY <1>1, <2>1
    <3>2. /\ q.at = "mark" /\ q.now = txn[t].now /\ q.wanted = txn[t].wanted
          /\ q.loaded = txn[t].loaded
      BY <1>1 DEF Transaction
    <3> HIDE DEF q
    <3>3. Open(t) /\ Bought(q)
      BY <1>10, <3>2 DEF Open, Bought, PickCard
    <3> QED
      BY <1>1, <3>1, <3>2, <3>3, DatelessKeeps
  <2> QED
    BY <1>5, <1>10, <2>1 DEF PickCard
<1>11. CASE BeginCancel(t)
  <2> DEFINE r == [txn[t] EXCEPT !.drops = active]
  <2>1. active \in SUBSET Cards
    BY DEF TxnInv, TypeOK
  <2>2. /\ r \in Transaction /\ r.now = txn[t].now /\ r.wanted = txn[t].wanted
        /\ r.loaded = txn[t].loaded
    BY <1>1, <2>1 DEF Transaction
  <2>3. Advance(t, r)
    BY <1>11 DEF BeginCancel
  <2> HIDE DEF r
  <2> QED
    BY <1>4, <2>2, <2>3
<1> QED
  BY <1>5, <1>6, <1>7, <1>8, <1>9, <1>10, <1>11 DEF Tell, BeginGrant

\* A transaction that ends leaves the dates of others alone, when the row does.
LEMMA FinishTimely ==
    ASSUME TxnInv, PeriodInv, NEW t \in Txns, Finish(t), clock' = clock, RowTimely(t)
    PROVE  PeriodInv'
<1> DEFINE q == [Blank EXCEPT !.at = "ended"]
<1>1. txn' = [txn EXCEPT ![t] = q]
  BY DEF Finish
<1>2. /\ q.at = "ended" /\ q.now = -1 /\ q.loaded = NoRow /\ q.wanted = NoRow
  BY DEF Blank, None
<1> HIDE DEF q
<1>3. clock \in Nat /\ \A n \in Nat : Before(NoRow, n) /\ Clear(NoRow, n)
  BY NoDates, RecordDates
<1>4. Dated(q, clock')
  BY <1>2, <1>3 DEF Dated
<1>5. \A w \in Webhooks : Open(w) => Distinct(q, txn[w].now)
  BY <1>2, <1>3 DEF PeriodInv, Distinct
<1>6. Timely(t, q)
  BY <1>2, <1>4, <1>5 DEF Timely, UnderWay, Bought
<1> QED
  BY <1>1, <1>6, TimelyKeepsInv

\* What commits is as clear of the others' periods as its record.
LEMMA EndingTimely ==
    ASSUME TxnInv, PeriodInv, NEW t \in Txns, InsertFails(t) \/ RollBack(t) \/ Commit(t)
    PROVE  PeriodInv'
<1>1. Finish(t) /\ clock' = clock
  BY DEF InsertFails, RollBack, Commit
<1>2. CASE row' = row
  BY <1>1, <1>2, StillTimely, FinishTimely
<1>3. CASE row' \in {txn[t].wanted, Merge(row, txn[t].loaded, txn[t].wanted, {})}
  <2>1. /\ Before(row, clock) /\ Before(txn[t].wanted, clock) /\ clock \in Nat
        /\ row \in Row /\ txn[t].loaded \in Row /\ txn[t].wanted \in Row
    BY RecordDates DEF PeriodInv, Dated
  <2>2. Before(row', clock)
    BY <1>3, <2>1, MergedDates
  <2>3. ASSUME NEW w \in Webhooks \ {t}, Open(w) PROVE Clear(row', txn[w].now)
    <3>1. Clear(row, txn[w].now) /\ Clear(txn[t].wanted, txn[w].now) /\ txn[w].now \in Nat
      BY <2>3 DEF PeriodInv, Distinct
    <3> QED
      BY <1>3, <2>1, <3>1, MergedDates
  <2>4. RowTimely(t)
    BY <1>1, <2>1, <2>2, <2>3 DEF RowTimely
  <2> QED
    BY <1>1, <2>4, FinishTimely
<1> QED
  BY <1>2, <1>3 DEF InsertFails, RollBack, Commit

\* Time that passes.
LEMMA LaterTimely ==
    ASSUME TxnInv, PeriodInv, NEW t \in Txns, row' = row, clock' \in Nat, clock <= clock'
    PROVE  RowTimely(t)
<1>1. Before(row, clock')
  BY RecordDates, BeforeLater DEF PeriodInv
<1> QED
  BY <1>1 DEF PeriodInv, RowTimely

\* The query for what is due: the row it loads is due by then.
LEMMA BeginJobTimely ==
    ASSUME TxnInv, PeriodInv, NEW t \in Jobs, BeginJob(t)
    PROVE  PeriodInv'
<1> DEFINE r == [txn[t] EXCEPT !.loaded = row]
           q == [r EXCEPT !.at = After(t, txn[t].at)]
<1>1. t \in Txns /\ txn[t] \in Transaction /\ row \in Row /\ clock \in Nat /\ row.next \in Int
  BY RecordDates, DatesAreInts DEF Txns
<1>2. row' = row /\ clock' \in Nat /\ clock <= clock' /\ row.next <= clock'
  BY <1>1 DEF BeginJob, Due
<1>3. r \in Transaction /\ r.now = txn[t].now /\ r.wanted = txn[t].wanted /\ r.loaded = row
  BY <1>1 DEF Transaction
<1>4. Advance(t, r) /\ txn[t].at = "begin"
  BY DEF BeginJob
<1> HIDE DEF r
<1>5. /\ txn' = [txn EXCEPT ![t] = q] /\ q.at = After(t, "begin") /\ q.now = txn[t].now
      /\ q.wanted = txn[t].wanted /\ q.loaded = row
  BY <1>1, <1>3, <1>4, AdvanceRecord
<1> HIDE DEF q
<1>6. Dated(q, clock')
  <2>1. txn[t].now < clock /\ Before(txn[t].wanted, clock) /\ Before(row, clock)
    BY <1>1 DEF PeriodInv, Dated
  <2>2. Before(txn[t].wanted, clock') /\ Before(row, clock') /\ txn[t].now < clock'
    BY <1>1, <1>2, <2>1, RecordDates, BeforeLater
  <2> QED
    BY <1>5, <2>2 DEF Dated
<1>7. ASSUME NEW w \in Webhooks \ {t}, Open(w) PROVE Distinct(q, txn[w].now)
  <2>1. Distinct(txn[t], txn[w].now) /\ Clear(row, txn[w].now)
    BY <1>1, <1>7 DEF PeriodInv
  <2> QED
    BY <1>5, <2>1 DEF Distinct
<1>8. Bought(q) /\ t \notin Webhooks
  BY <1>5, ChargesAfter, BillingTxnAssumption DEF Bought
<1>9. Timely(t, q)
  BY <1>2, <1>5, <1>6, <1>7, <1>8 DEF Timely
<1> QED
  BY <1>1, <1>2, <1>5, <1>9, LaterTimely, TimelyKeepsInv

\* The mark of a run of the job is later than the row it loaded, and the row was due:
\* none of its dates is the one that a charge writes.
LEMMA MarkChargedTimely ==
    ASSUME TxnInv, PeriodInv, Brief', NEW t \in Jobs, MarkCharged(t)
    PROVE  PeriodInv'
<1> DEFINE wanted == IF txn[t].outcome = "paid" THEN MarkActive(txn[t].loaded, clock, Duration)
                     ELSE MarkFailed(txn[t].loaded, clock)
           r == [txn[t] EXCEPT !.now = clock, !.wanted = wanted]
           q == [r EXCEPT !.at = After(t, txn[t].at)]
<1>1. /\ t \in Txns /\ t \notin Webhooks
      /\ txn[t] \in Transaction /\ txn[t].loaded \in Row /\ clock \in Nat
  BY RecordDates, BillingTxnAssumption DEF Txns
<1>2. row' = row /\ clock' = clock + 1 /\ txn[t].at = "mark" /\ Advance(t, r)
  BY DEF MarkCharged
<1>3. wanted \in Row
  BY <1>1, WantedIsRow DEF Time
<1>4. Before(txn[t].loaded, clock) /\ txn[t].loaded.next <= clock
  BY <1>1, <1>2 DEF PeriodInv, Dated, Open
<1>5. /\ Before(txn[t].loaded, clock') /\ Before(wanted, clock')
  <2>1. Before(txn[t].loaded, clock')
    BY <1>1, <1>2, <1>4, BeforeLater
  <2> QED
    BY <1>1, <1>2, <2>1, UpdatesBefore
<1>6. txn[t].outcome = "paid" => Period(wanted, clock) /\ Clear(txn[t].loaded, clock)
  <2>1. Clear(txn[t].loaded, clock)
    BY <1>1, <1>4, DatesAreInts, BillingTxnAssumption DEF Before, Clear
  <2> QED
    BY <1>1, <2>1, UpdatedDates
<1>7. ASSUME NEW w \in Webhooks \ {t}, Open(w)
      PROVE  clock # txn[w].now /\ Clear(txn[t].loaded, txn[w].now) /\ Clear(wanted, txn[w].now)
  <2>1. txn[w].now \in Nat /\ txn[w].now < clock /\ Clear(txn[t].loaded, txn[w].now)
    BY <1>1, <1>7, LoadedDates
  <2>2. txn'[w] = txn[w] /\ Open(w)'
    BY <1>1, <1>2, <1>7 DEF Advance, TxnInv, TypeOK, Open, Txns
  <2>3. Duration = RetryTicks \/ clock' <= txn[w].now + Duration - RetryTicks
    BY <2>2 DEF Brief
  <2>4. clock + RetryTicks # txn[w].now + Duration
    BY <1>1, <1>2, <2>1, <2>3, BriefRetry
  <2> QED
    BY <1>1, <2>1, <2>4, UpdatesClear
<1> HIDE DEF wanted
<1>8. /\ r \in Transaction /\ r.now = clock /\ r.wanted = wanted /\ r.loaded = txn[t].loaded
      /\ r.outcome = txn[t].outcome
  BY <1>1, <1>3 DEF Transaction, Time
<1> HIDE DEF r
<1>9. /\ txn' = [txn EXCEPT ![t] = q] /\ q.at = "write" /\ q.now = clock /\ q.wanted = wanted
      /\ q.loaded = txn[t].loaded /\ q.outcome = txn[t].outcome
  BY <1>1, <1>2, <1>8, AdvanceRecord, ChargesAfter
<1> HIDE DEF q
<1>10. Dated(q, clock') /\ q.loaded.next <= clock'
  BY <1>1, <1>2, <1>4, <1>5, <1>9, DatesAreInts DEF Dated
<1>11. Bought(q)
  BY <1>6, <1>9 DEF Bought
<1>12. Timely(t, q)
  BY <1>1, <1>7, <1>9, <1>10, <1>11 DEF Timely, Distinct
<1>13. RowTimely(t)
  BY <1>1, <1>2, LaterTimely
<1> QED
  BY <1>1, <1>9, <1>12, <1>13, TimelyKeepsInv

\* A webhook that reads the clock: nothing on record is as late.
LEMMA BeginWebhookTimely ==
    ASSUME TxnInv, PeriodInv, Brief', NEW t \in Webhooks, BeginWebhook(t)
    PROVE  PeriodInv'
<1> DEFINE r == [txn[t] EXCEPT !.now = clock, !.drops = active]
           q == [r EXCEPT !.at = After(t, txn[t].at)]
<1>1. /\ t \in Txns /\ t \notin Jobs /\ active \in SUBSET Cards
      /\ txn[t] \in Transaction /\ txn[t].loaded \in Row /\ clock \in Nat
  BY RecordTypes, RecordDates, BillingTxnAssumption DEF Txns
<1>2. row' = row /\ clock' = clock + 1 /\ txn[t].at = "begin" /\ Advance(t, r)
  BY DEF BeginWebhook
<1>3. /\ r \in Transaction /\ r.now = clock /\ r.wanted = txn[t].wanted
      /\ r.loaded = txn[t].loaded
  BY <1>1 DEF Transaction, Time
<1> HIDE DEF r
<1>4. /\ txn' = [txn EXCEPT ![t] = q] /\ q.at = After(t, "begin") /\ q.now = clock
      /\ q.wanted = txn[t].wanted /\ q.loaded = txn[t].loaded
  BY <1>1, <1>2, <1>3, AdvanceRecord
<1>5. q.at = "tokens"
  BY <1>1, <1>4, BillingTxnAssumption DEF After
<1> HIDE DEF q
<1>6. RetryTicks <= Duration
  <2>1. txn'[t] = q /\ Open(t)'
    BY <1>1, <1>4, <1>5 DEF TxnInv, TypeOK, Open
  <2>2. Duration = RetryTicks \/ clock' <= clock + Duration - RetryTicks
    BY <1>4, <2>1 DEF Brief
  <2> QED
    BY <1>1, <1>2, <2>2, BillingTxnAssumption DEF RetryTicks, TicksPerDay
<1>7. ASSUME NEW s \in Txns PROVE Distinct(txn[s], clock)
  <2>1. Dated(txn[s], clock) /\ txn[s].loaded \in Row /\ txn[s].wanted \in Row /\ txn[s].now \in Int
    BY RecordDates DEF PeriodInv
  <2> QED
    BY <1>1, <1>6, <2>1, BeforeIsClear DEF Dated, Distinct
<1>8. Clear(row, clock)
  BY <1>1, <1>6, RecordDates, BeforeIsClear DEF PeriodInv
<1>9. Dated(q, clock')
  <2>1. Before(txn[t].loaded, clock) /\ Before(txn[t].wanted, clock)
    BY <1>1 DEF PeriodInv, Dated
  <2>2. Before(txn[t].loaded, clock') /\ Before(txn[t].wanted, clock')
    BY <1>1, <1>2, <2>1, RecordDates, BeforeLater
  <2> QED
    BY <1>1, <1>2, <1>4, <2>2 DEF Dated
<1>10. ASSUME NEW w \in Webhooks \ {t}, Open(w) PROVE Distinct(q, txn[w].now)
  <2>1. Distinct(txn[t], txn[w].now) /\ txn[w].now < clock
    BY <1>1, <1>10, LoadedDates DEF PeriodInv
  <2> QED
    BY <1>1, <1>4, <2>1, RecordDates DEF Distinct, Txns
<1>11. Timely(t, q)
  BY <1>1, <1>2, <1>4, <1>5, <1>7, <1>8, <1>9, <1>10 DEF Timely, Distinct, Bought
<1>12. RowTimely(t)
  BY <1>1, <1>2, LaterTimely
<1> QED
  BY <1>1, <1>4, <1>11, <1>12, TimelyKeepsInv

\* A step that loads and marks a row at a time that is not one of a webhook under way.
LEMMA MarkTimely ==
    ASSUME TxnInv, PeriodInv, NEW t \in Txns \ Jobs, NEW q, txn' = [txn EXCEPT ![t] = q],
           row' = row, clock' \in Nat, clock <= clock',
           q.now = txn[t].now, q.loaded \in {txn[t].loaded, row, GetOrCreate(NoRow), Seen(t)},
           Before(q.wanted, clock'),
           \A w \in Webhooks \ {t} : Open(w) => Clear(q.wanted, txn[w].now),
           t \in Webhooks => Open(t) /\ Bought(q)
    PROVE  PeriodInv'
<1>1. /\ q.loaded \in Row /\ Before(q.loaded, clock)
      /\ \A w \in Webhooks : Open(w) => txn[w].now \in Nat /\ Clear(q.loaded, txn[w].now)
  BY LoadedDates
<1>2. Dated(q, clock')
  <2>1. txn[t].now < clock /\ clock \in Nat /\ txn[t].now \in Int
    BY RecordDates DEF PeriodInv, Dated
  <2> QED
    BY <1>1, <2>1, BeforeLater DEF Dated
<1>3. ASSUME NEW w \in Webhooks \ {t}, Open(w) PROVE Distinct(q, txn[w].now)
  <2>1. Distinct(txn[t], txn[w].now)
    BY <1>3 DEF PeriodInv
  <2> QED
    BY <1>1, <1>3, <2>1 DEF Distinct
<1>4. ASSUME t \in Webhooks
      PROVE  /\ q.now \in Nat /\ Clear(row', q.now) /\ Clear(q.loaded, q.now)
             /\ \A s \in Txns \ {t} : Distinct(txn[s], q.now)
  BY <1>1, <1>4 DEF PeriodInv
<1>5. Timely(t, q)
  BY <1>2, <1>3, <1>4 DEF Timely
<1> QED
  BY <1>5, LaterTimely, TimelyKeepsInv

\* The webhook loads the row at last; it is clear of the period that the webhook writes.
LEMMA MarkVerifiedTimely ==
    ASSUME TxnInv, PeriodInv, Brief, NEW t \in Webhooks, MarkVerified(t)
    PROVE  PeriodInv'
<1> DEFINE wanted == IF txn[t].outcome = "paid" THEN MarkActive(Seen(t), txn[t].now, Duration)
                     ELSE FirstChargeFailed(Seen(t), txn[t].now)
           r == [txn[t] EXCEPT !.loaded = Seen(t), !.wanted = wanted]
           q == [r EXCEPT !.at = After(t, txn[t].at)]
<1>1. t \in Txns \ Jobs /\ txn[t] \in Transaction /\ clock \in Nat
  BY RecordDates, BillingTxnAssumption DEF Txns
<1>2. /\ row' = row /\ clock' = clock /\ txn[t].at = "mark" /\ Open(t) /\ Advance(t, r)
  BY DEF MarkVerified, Open
<1>3. /\ Seen(t) \in Row /\ Before(Seen(t), clock)
      /\ \A w \in Webhooks : Open(w) =>
            txn[w].now \in Nat /\ txn[w].now < clock /\ Clear(Seen(t), txn[w].now)
  BY <1>1, LoadedDates
<1>4. wanted \in Row /\ Before(wanted, clock)
  BY <1>1, <1>2, <1>3, WantedIsRow, UpdatesBefore DEF Time
<1>5. ASSUME NEW w \in Webhooks \ {t}, Open(w) PROVE Clear(wanted, txn[w].now)
  <2>1. txn[t].now # txn[w].now
    BY <1>1, <1>5 DEF PeriodInv, Distinct
  <2>2. Duration = RetryTicks \/ clock <= txn[w].now + Duration - RetryTicks
    BY <1>5 DEF Brief
  <2>3. txn[t].now + RetryTicks # txn[w].now + Duration
    BY <1>1, <1>2, <1>3, <1>5, <2>1, <2>2, BriefRetry
  <2> QED
    BY <1>2, <1>3, <1>5, <2>1, <2>3, UpdatesClear
<1>6. txn[t].outcome = "paid" => Period(wanted, txn[t].now) /\ Clear(Seen(t), txn[t].now)
  BY <1>2, <1>3, UpdatedDates
<1> HIDE DEF wanted
<1>7. /\ r \in Transaction /\ r.now = txn[t].now /\ r.wanted = wanted /\ r.loaded = Seen(t)
      /\ r.outcome = txn[t].outcome
  BY <1>1, <1>3, <1>4 DEF Transaction
<1> HIDE DEF r
<1>8. /\ txn' = [txn EXCEPT ![t] = q] /\ q.at = "write" /\ q.now = txn[t].now
      /\ q.wanted = wanted /\ q.loaded = Seen(t) /\ q.outcome = txn[t].outcome
  BY <1>1, <1>2, <1>7, AdvanceRecord, ChargesAfter
<1> HIDE DEF q
<1>9. Bought(q)
  BY <1>6, <1>8 DEF Bought
<1>10. /\ clock' \in Nat /\ clock <= clock' /\ Before(q.wanted, clock')
       /\ q.loaded \in {txn[t].loaded, row, GetOrCreate(NoRow), Seen(t)}
       /\ \A w \in Webhooks \ {t} : Open(w) => Clear(q.wanted, txn[w].now)
  BY <1>1, <1>2, <1>4, <1>5, <1>8
<1> QED
  BY <1>1, <1>2, <1>8, <1>9, <1>10, MarkTimely

\* A cancellation sets no date but "none".
LEMMA MarkCancelledTimely ==
    ASSUME TxnInv, PeriodInv, NEW t \in Cancels, MarkCancelled(t)
    PROVE  PeriodInv'
<1>1. /\ t \in Txns \ Jobs /\ t \notin Webhooks /\ txn[t] \in Transaction /\ clock \in Nat
      /\ row \in Row
  BY RecordDates, BillingTxnAssumption DEF Txns
<1>2. row' = row /\ clock' = clock
  BY DEF MarkCancelled
<1>3. CASE Advance(t, [txn[t] EXCEPT !.loaded = row, !.wanted = CancelRow(row)])
  <2> DEFINE wanted == CancelRow(row)
             r == [txn[t] EXCEPT !.loaded = row, !.wanted = wanted]
             q == [r EXCEPT !.at = After(t, txn[t].at)]
  <2>1. wanted \in Row /\ Before(wanted, clock)
    <3>1. 0 \in Nat /\ 0 \in Time /\ Before(row, clock)
      BY DEF Time, PeriodInv
    <3>2. wanted \in Row
      BY <1>1, <3>1, WantedIsRow
    <3>3. wanted.start = row.start /\ wanted.end = row.end /\ wanted.next = -1
      BY <1>1, UpdatedDates DEF None
    <3> QED
      BY <1>1, <3>1, <3>2, <3>3, BillingTxnAssumption DEF Before
  <2>2. ASSUME NEW w \in Webhooks \ {t}, Open(w) PROVE Clear(wanted, txn[w].now)
    <3>1. Clear(row, txn[w].now) /\ txn[w].now \in Nat
      BY <2>2 DEF PeriodInv
    <3>2. wanted.start = row.start /\ wanted.end = row.end /\ wanted.next = -1
      BY <1>1, UpdatedDates DEF None
    <3> QED
      BY <3>1, <3>2, BillingTxnAssumption DEF Clear
  <2> HIDE DEF wanted
  <2>3. r \in Transaction /\ r.now = txn[t].now /\ r.wanted = wanted /\ r.loaded = row
    BY <1>1, <2>1 DEF Transaction
  <2>4. Advance(t, r)
    BY <1>3 DEF wanted
  <2> HIDE DEF r
  <2>5. /\ txn' = [txn EXCEPT ![t] = q] /\ q.now = txn[t].now /\ q.wanted = wanted
        /\ q.loaded = row
    BY <1>1, <2>3, <2>4, AdvanceRecord
  <2> HIDE DEF q
  <2>6. /\ clock' \in Nat /\ clock <= clock' /\ Before(q.wanted, clock')
        /\ q.loaded \in {txn[t].loaded, row, GetOrCreate(NoRow), Seen(t)}
        /\ \A w \in Webhooks \ {t} : Open(w) => Clear(q.wanted, txn[w].now)
    BY <1>1, <1>2, <2>1, <2>2, <2>5
  <2> QED
    BY <1>1, <1>2, <2>5, <2>6, MarkTimely
<1>4. CASE txn' = [txn EXCEPT ![t].at = "end"]
  <2> DEFINE q == [txn[t] EXCEPT !.at = "end"]
  <2>1. txn' = [txn EXCEPT ![t] = q]
    BY <1>1, <1>4 DEF TxnInv, TypeOK
  <2>2. q.now = txn[t].now /\ q.wanted = txn[t].wanted /\ q.loaded = txn[t].loaded
    BY <1>1 DEF Transaction
  <2> HIDE DEF q
  <2> QED
    BY <1>1, <1>2, <2>1, <2>2, DatelessKeeps
<1> QED
  BY <1>3, <1>4 DEF MarkCancelled

\* A grant starts at a time of its own.
LEMMA MarkGrantedTimely ==
    ASSUME TxnInv, PeriodInv, NEW t \in Grants, MarkGranted(t)
    PROVE  PeriodInv'
<1>1. /\ t \in Txns \ Jobs /\ t \notin Webhooks /\ txn[t] \in Transaction /\ clock \in Nat
  BY RecordDates, BillingTxnAssumption DEF Txns
<1>2. row' = row
  BY DEF MarkGranted
<1>3. ASSUME NEW loaded \in {txn[t].loaded, Seen(t)}, clock' = clock + 1,
             Advance(t, [txn[t] EXCEPT !.loaded = loaded,
                                       !.wanted = GrantPermanent(loaded, clock)])
      PROVE  PeriodInv'
  <2> DEFINE wanted == GrantPermanent(loaded, clock)
             r == [txn[t] EXCEPT !.loaded = loaded, !.wanted = wanted]
             q == [r EXCEPT !.at = After(t, txn[t].at)]
  <2>1. /\ loaded \in Row /\ Before(loaded, clock)
        /\ \A w \in Webhooks : Open(w) =>
              txn[w].now \in Nat /\ txn[w].now < clock /\ Clear(loaded, txn[w].now)
    BY <1>1, LoadedDates
  <2>2. wanted \in Row
    BY <1>1, <2>1, WantedIsRow DEF Time
  <2>3. Before(wanted, clock')
    <3>1. Before(loaded, clock')
      BY <1>1, <1>3, <2>1, BeforeLater
    <3> QED
      BY <1>1, <1>3, <2>1, <3>1, UpdatesBefore
  <2>4. ASSUME NEW w \in Webhooks \ {t}, Open(w) PROVE Clear(wanted, txn[w].now)
    <3>1. txn[w].now \in Nat /\ txn[w].now < clock /\ Clear(loaded, txn[w].now)
      BY <2>1, <2>4
    <3> QED
      BY <1>1, <2>1, <3>1, UpdatesClear
  <2>5. Advance(t, r)
    BY <1>3
  <2> HIDE DEF wanted
  <2>6. r \in Transaction /\ r.now = txn[t].now /\ r.wanted = wanted /\ r.loaded = loaded
    BY <1>1, <2>1, <2>2 DEF Transaction
  <2> HIDE DEF r
  <2>7. /\ txn' = [txn EXCEPT ![t] = q] /\ q.now = txn[t].now /\ q.wanted = wanted
        /\ q.loaded = loaded
    BY <1>1, <2>5, <2>6, AdvanceRecord
  <2> HIDE DEF q
  <2>8. clock' \in Nat /\ clock <= clock'
    BY <1>1, <1>3
  <2> QED
    BY <1>1, <1>2, <2>3, <2>4, <2>7, <2>8, MarkTimely
<1>4. CASE txn' = [txn EXCEPT ![t].at = "end"] /\ clock' = clock
  <2> DEFINE q == [txn[t] EXCEPT !.at = "end"]
  <2>1. txn' = [txn EXCEPT ![t] = q]
    BY <1>1, <1>4 DEF TxnInv, TypeOK
  <2>2. q.now = txn[t].now /\ q.wanted = txn[t].wanted /\ q.loaded = txn[t].loaded
    BY <1>1 DEF Transaction
  <2> HIDE DEF q
  <2> QED
    BY <1>1, <1>2, <1>4, <2>1, <2>2, DatelessKeeps
<1> QED
  BY <1>3, <1>4 DEF MarkGranted

\* Rows from before the clock starts are from before all periods that are bought.
LEMMA InitPeriodInv == ASSUME RowsBefore PROVE Init => PeriodInv
<1> SUFFICES ASSUME Init PROVE PeriodInv
  OBVIOUS
<1>1. /\ Blank.at = "begin" /\ Blank.now = -1 /\ Blank.loaded = NoRow /\ Blank.wanted = NoRow
  BY DEF Blank, None
<1>2. \A t \in Txns : txn[t] = Blank
  BY DEF Init
<1>3. Before(row, clock) /\ clock = 1
  BY DEF Init, RowsBefore
<1>4. Dated(Blank, clock)
  BY <1>1, <1>3, NoDates DEF Dated
<1> QED
  BY <1>1, <1>2, <1>3, <1>4 DEF PeriodInv, Open, Bought, Txns

\* Every step keeps the invariant while webhooks are brief.
LEMMA NextKeepsPeriodInv ==
    TxnInv /\ PeriodInv /\ Brief /\ Brief' /\ [Next]_vars => PeriodInv'
<1> SUFFICES ASSUME TxnInv, PeriodInv, Brief, Brief', [Next]_vars PROVE PeriodInv'
  OBVIOUS
<1>1. ASSUME NEW t \in Jobs, Job(t) PROVE PeriodInv'
  <2>1. t \in Txns
    BY DEF Txns
  <2> QED
    BY <1>1, <2>1, BeginJobTimely, OthersTimely, MarkChargedTimely, WriteRowTimely, EndingTimely
       DEF Job
<1>2. ASSUME NEW t \in Webhooks, Webhook(t) PROVE PeriodInv'
  <2>1. t \in Txns
    BY DEF Txns
  <2> QED
    BY <1>2, <2>1, BeginWebhookTimely, OthersTimely, MarkVerifiedTimely, WriteRowTimely,
       EndingTimely DEF Webhook
<1>3. ASSUME NEW t \in Cancels, Cancel(t) PROVE PeriodInv'
  <2>1. t \in Txns
    BY DEF Txns
  <2> QED
    BY <1>3, <2>1, OthersTimely, MarkCancelledTimely, WriteRowTimely, EndingTimely DEF Cancel
<1>4. ASSUME NEW t \in Grants, Grant(t) PROVE PeriodInv'
  <2>1. t \in Txns
    BY DEF Txns
  <2> QED
    BY <1>4, <2>1, OthersTimely, MarkGrantedTimely, WriteRowTimely, EndingTimely DEF Grant
<1>5. ASSUME NEW t \in Txns, RollBack(t) PROVE PeriodInv'
  BY <1>5, EndingTimely
<1>6. CASE UNCHANGED vars
  BY <1>6 DEF vars, PeriodInv, Open, Before, Dated, Bought, Distinct, Clear, Period
<1> QED
  BY <1>1, <1>2, <1>3, <1>4, <1>5, <1>6 DEF Next

\* Whoever is charged gets the period and the next date of it, whatever was committed since
\* the row was loaded (_mark_active, subscription_service.py:67): for rows from before and
\* webhooks that take less than a period.
THEOREM ChargeBuysPeriodHolds == ASSUME RowsBefore PROVE Spec /\ []Brief => ChargeBuysPeriod
<1>1. Init => PeriodInv
  BY InitPeriodInv
<1>2. ASSUME TxnInv, PeriodInv, NEW t \in Jobs \cup Webhooks, txn[t].outcome = "paid", Commit(t)
      PROVE  Period(row', txn[t].now)
  <2>1. t \in Txns
    BY DEF Txns
  <2>2. /\ Period(txn[t].wanted, txn[t].now) /\ Clear(txn[t].loaded, txn[t].now)
        /\ "row" \in txn[t].locks
    BY <1>2 DEF PeriodInv, Bought, Commit
  <2>3. row' \in {txn[t].wanted, Merge(row, txn[t].loaded, txn[t].wanted, {})}
    BY <1>2, <2>2 DEF Commit
  <2> QED
    BY <1>2, <2>1, <2>2, <2>3, RecordDates, MergedDates
<1>3. TxnInv /\ PeriodInv =>
         [\A t \in Jobs \cup Webhooks : txn[t].outcome = "paid" /\ Commit(t) =>
            /\ row'.start = txn[t].now
            /\ row'.end = txn[t].now + Duration
            /\ row'.next = row'.end]_vars
  BY <1>2 DEF Period
<1> QED
  BY <1>1, <1>3, NextKeepsPeriodInv, TxnInvHolds, PTL DEF Spec, ChargeBuysPeriod
=============================================================================
