-------------------------- MODULE SubscriptionRows --------------------------
(***************************************************************************)
(* The subscriptions table: one row per user, and the pure updates that    *)
(* the services make to a row.  A row keeps the columns billing decides    *)
(* on; invite_link belongs to the access side and is kept by the modules   *)
(* that use this one.                                                      *)
(*                                                                         *)
(* Time is counted in ticks, two per day.  The even tick 2*d is the        *)
(* instant at which the maintenance job of day d starts (jobs.py:27 reads  *)
(* its clock once, first thing); the odd tick 2*d + 1 is the rest of that  *)
(* day, which includes every later instant of the same job run.  The       *)
(* distinction is one the code's own comparison makes: a mark written by   *)
(* the job is later than the clock the job read when it started.           *)
(***************************************************************************)
EXTENDS Integers

\* SQL NULL in a timestamp column.
None == -1

Status == {"WAITING", "TRIAL", "ACTIVE", "FAILED", "CANCELLED"}

\* No row yet: SubscriptionRepository.get_by_user_id returns None.
Absent == "ABSENT"

TicksPerDay == 2
RetryTicks  == 1 * TicksPerDay      \* _RETRY_INTERVAL_DAYS, _FIRST_CHARGE_RETRY_DAYS
JobInstant(day)  == TicksPerDay * day
RestOfDay(day)   == TicksPerDay * day + 1

Time == Nat \cup {None}

Row == [status : Status \cup {Absent}, trialEnd : Time, start : Time,
        end : Time, next : Time, retry : Nat]

NoRow == [status |-> Absent, trialEnd |-> None, start |-> None,
          end |-> None, next |-> None, retry |-> 0]

\* A trial subscription created before trials were dropped: the only rows
\* whose trial_end is set, and still charged when it ends.
LegacyTrial(trialEnd) ==
    [NoRow EXCEPT !.status = "TRIAL", !.trialEnd = trialEnd, !.next = trialEnd]

\* SubscriptionRepository.get_or_create: the row is inserted as WAITING.
GetOrCreate(row) ==
    IF row.status = Absent THEN [row EXCEPT !.status = "WAITING"] ELSE row

-----------------------------------------------------------------------------
(***************************************************************************)
(* The writes of SubscriptionService and PaymentService.                   *)
(***************************************************************************)

Faulty_MarkActiveForgetsNext(row, now, duration) ==
    [row EXCEPT !.status = "ACTIVE", !.start = now, !.end = now + duration,
                !.retry = 0]

\* A charge went through: a period that starts now and is renewed at its end.
MarkActive(row, now, duration) ==
    [row EXCEPT !.status = "ACTIVE", !.start = now, !.end = now + duration,
                !.next = now + duration, !.retry = 0]

Faulty_MarkFailedGivesUp(row, now) ==
    [row EXCEPT !.status = "FAILED", !.retry = row.retry + 1, !.next = None]

Faulty_MarkFailedKeepsDate(row, now) ==
    [row EXCEPT !.status = "FAILED", !.retry = row.retry + 1]

\* A renewal was refused: tried again one interval after this mark.
MarkFailed(row, now) ==
    [row EXCEPT !.status = "FAILED", !.retry = row.retry + 1,
                !.next = now + RetryTicks]

Faulty_FirstChargeFailedCountsDown(row, now) ==
    [row EXCEPT !.status = "FAILED", !.retry = row.retry - 1,
                !.next = now + RetryTicks]

\* The charge that follows card verification was refused: the same mark,
\* but the count starts at one.
FirstChargeFailed(row, now) ==
    [row EXCEPT !.status = "FAILED", !.retry = 1, !.next = now + RetryTicks]

Faulty_CancelRowKeepsNext(row) == [row EXCEPT !.status = "CANCELLED"]

\* SubscriptionService.cancel, the part that writes the row; whatever the
\* status was, and with the paid period left as it is.
CancelRow(row) == [row EXCEPT !.status = "CANCELLED", !.next = None]

\* Free permanent access.  next, retry and trialEnd keep their values.
GrantPermanent(row, now) ==
    [GetOrCreate(row) EXCEPT !.status = "ACTIVE", !.start = now, !.end = None]

-----------------------------------------------------------------------------
(***************************************************************************)
(* What a transaction does to a row that others may have written since it  *)
(* was loaded.                                                             *)
(***************************************************************************)

\* Writes nothing to a row that has changed since it was loaded.
Faulty_Merge(current, loaded, wanted, stamped) ==
    IF current = loaded THEN wanted ELSE current

\* UPDATE with the columns that differ from the row as loaded; so do those that
\* were stamped with an instant, which is never the one they had.
Merge(current, loaded, wanted, stamped) ==
    [column \in DOMAIN current |->
        IF column \in stamped \/ wanted[column] # loaded[column] THEN wanted[column]
        ELSE current[column]]

\* The columns that marking a row ACTIVE, or FAILED, stamps.
StampedBy(outcome) == IF outcome = "paid" THEN {"start", "end", "next"} ELSE {"next"}

-----------------------------------------------------------------------------
(***************************************************************************)
(* The queries of SubscriptionRepository that the job works from.          *)
(***************************************************************************)

Faulty_DueIgnoresDate(row, before) ==
    row.status \in {"TRIAL", "ACTIVE", "FAILED"} /\ row.next # None

Due(row, before) ==
    /\ row.status \in {"TRIAL", "ACTIVE", "FAILED"}
    /\ row.next # None
    /\ row.next <= before

\* NULL <= before is not true in SQL, so a row with neither date never matches.
CancelledExpired(row, before) ==
    /\ row.status = "CANCELLED"
    /\ \/ row.end # None /\ row.end <= before
       \/ row.trialEnd # None /\ row.trialEnd <= before

\* ACTIVE with no end date: how the code recognises permanent free access.
IsPermanent(row) == row.status = "ACTIVE" /\ row.end = None
=============================================================================
