----------------------------- MODULE CardMandate -----------------------------
(***************************************************************************)
(* What the billing side promises a card holder, whatever the rows, the    *)
(* schedule or the chat look like.  Money is taken from a user only        *)
(*   - while the user's card is on file (the mandate), or                  *)
(*   - in the step that presents an authorisation the user has confirmed   *)
(*     with the bank, which is also the only way a card gets on file.      *)
(* Withdrawing the mandate takes the card off file.  Subscriptions is      *)
(* shown to implement this module.                                         *)
(***************************************************************************)
EXTENDS Integers

CONSTANT Users

VARIABLES mandate,      \* mandate[u]: u's card is on file
          confirmed,    \* confirmed[u]: u has confirmed an authorisation
          taken         \* taken[u]: number of steps that charged u, modulo 2

vars == <<mandate, confirmed, taken>>

\* A card that was on file before the history starts counts as confirmed.
Init == /\ mandate \in [Users -> BOOLEAN]
        /\ confirmed = mandate
        /\ taken = [u \in Users |-> 0]

\* Only users in U may be charged by this step.
OnlyTakenFrom(U) == taken' \in {t \in [Users -> 0..1] : \A u \in Users \ U : t[u] = taken[u]}

Confirm(u) ==
    /\ confirmed' = [confirmed EXCEPT ![u] = TRUE]
    /\ UNCHANGED <<mandate, taken>>

Present(u) ==
    /\ confirmed[u]
    /\ OnlyTakenFrom({u})
    /\ \E onFile \in {mandate[u], TRUE} : mandate' = [mandate EXCEPT ![u] = onFile]
    /\ UNCHANGED confirmed

Collect ==
    /\ OnlyTakenFrom({u \in Users : mandate[u]})
    /\ UNCHANGED <<mandate, confirmed>>

Withdraw(u) ==
    /\ mandate' = [mandate EXCEPT ![u] = FALSE]
    /\ UNCHANGED <<confirmed, taken>>

Next == \/ \E u \in Users : Confirm(u) \/ Present(u) \/ Withdraw(u)
        \/ Collect

Spec == Init /\ [][Next]_vars
=============================================================================
