---------------------------- MODULE PickedMandate ----------------------------
(***************************************************************************)
(* CardMandate when collecting takes time: what is promised about the      *)
(* money of one user whose charges, cards and cancellations overlap.       *)
(*   - A collector picks the mandate up while a card is on file, and may   *)
(*     then take money a bounded number of times, also after the mandate   *)
(*     was withdrawn.                                                      *)
(*   - A presenter may take money as often for the card it presents, and   *)
(*     only a card so presented gets on file.                              *)
(* BillingTxn is shown to implement this module.                           *)
(***************************************************************************)
EXTENDS Integers

CONSTANTS Collectors, Presenters,
          Attempts      \* how often money may be taken on one occasion

VARIABLES onFile,   \* a card of the user is on file
          picked,   \* how often each collector may still take money
          due,      \* how often each presenter may
          filing,   \* presenters whose card may still get on file
          taken     \* steps that took money, modulo 2

vars == <<onFile, picked, due, filing, taken>>

Init == /\ onFile \in BOOLEAN
        /\ picked = [c \in Collectors |-> 0]
        /\ due = [p \in Presenters |-> Attempts]
        /\ filing = Presenters
        /\ taken = 0

PickUp(c) ==
    /\ onFile
    /\ picked' = [picked EXCEPT ![c] = Attempts]
    /\ UNCHANGED <<onFile, due, filing, taken>>

\* Takes money or not; the allowance shrinks.
Collect(c) ==
    /\ picked[c] > 0
    /\ \E n \in 0..(picked[c] - 1) : picked' = [picked EXCEPT ![c] = n]
    /\ taken' \in 0..1
    /\ UNCHANGED <<onFile, due, filing>>

Present(p) ==
    /\ due[p] > 0
    /\ \E n \in 0..(due[p] - 1) : due' = [due EXCEPT ![p] = n]
    /\ taken' \in 0..1
    /\ UNCHANGED <<onFile, picked, filing>>

\* Also when the presenter gives up: then the card stays off file.
File(p) ==
    /\ p \in filing /\ filing' = filing \ {p}
    /\ onFile' \in {onFile, TRUE}
    /\ due' = [due EXCEPT ![p] = 0]
    /\ UNCHANGED <<picked, taken>>

Withdraw ==
    /\ onFile' = FALSE
    /\ UNCHANGED <<picked, due, filing, taken>>

Next == \/ \E c \in Collectors : PickUp(c) \/ Collect(c)
        \/ \E p \in Presenters : Present(p) \/ File(p)
        \/ Withdraw

Spec == Init /\ [][Next]_vars
=============================================================================
