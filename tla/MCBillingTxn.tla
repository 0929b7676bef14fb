---------------------------- MODULE MCBillingTxn ----------------------------
(* Instances of BillingTxn small enough for TLC. *)
EXTENDS BillingTxn

\* A new user has no row; a subscriber's period ends at Duration; another one has
\* presented a card since then that was refused, or has cancelled.
Subscriber == MarkActive(NoRow, 0, Duration)
Retrying   == FirstChargeFailed(Subscriber, 0)

Cancelled  == CancelRow(Subscriber)

NewAndOld      == {NoRow, Subscriber, Retrying, Cancelled}
OnlySubscriber == {Subscriber}
=============================================================================
