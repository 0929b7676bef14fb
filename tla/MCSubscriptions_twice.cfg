\* A legacy trial that presents a card; the bank delivers each callback up to twice,
\* in any order.
CONSTANTS
    u1 = u1
    i1 = i1
    h1 = h1
    nobody = nobody
    Users = {u1}
    Nobody = nobody
    Invoices = {i1}
    Handlers = {h1}
    Roles = {"priced"}
    Durations = {2}
    TrialEnds = {1}
    PaymentRequired = TRUE
    MaxDay = 1
    MaxFaults = 0
    MaxDeliveries = 2
SPECIFICATION Spec
INVARIANTS InertWithoutSubscription PaidPeriodOnRecord RetryScheduled
PROPERTIES ChargesFollowMandate PaidUpNeverExpelled
