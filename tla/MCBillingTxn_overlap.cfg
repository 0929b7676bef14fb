\* The job, a webhook, a cancellation and a grant, in every order.
CONSTANTS
    j1 = j1
    w1 = w1
    c1 = c1
    g1 = g1
    old = old
    Jobs = {j1}
    Webhooks = {w1}
    Cancels = {c1}
    Grants = {g1}
    OldCard = old
    Rows <- NewAndOld
    Duration = 2
    Attempts = 3
SPECIFICATION Spec
INVARIANTS TypeOK NoDeadlock
PROPERTIES ChargeBuysPeriod ChargedIsNotRefused ChargesPickMandate
CHECK_DEADLOCK FALSE
