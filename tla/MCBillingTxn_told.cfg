\* The job charges a subscriber who cancels.
CONSTANTS
    j1 = j1
    c1 = c1
    old = old
    Jobs = {j1}
    Webhooks = {}
    Cancels = {c1}
    Grants = {}
    OldCard = old
    Rows <- OnlySubscriber
    Duration = 2
    Attempts = 3
SPECIFICATION Spec
PROPERTY CancelledIsNotCharged
CHECK_DEADLOCK FALSE
