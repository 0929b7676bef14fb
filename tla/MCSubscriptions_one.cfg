\* One new subscriber over three days, with one lost job run; a handler may overlap
\* with the job.
CONSTANTS
    u1 = u1
    i1 = i1
    h1 = h1
    nobody = nobody
    Users = {u1}
    Nobody = nobody
    Invoices = {i1}
    Handlers = {h1}
    Roles = {"priced"}
    Durations = {2}
    TrialEnds = {}
    PaymentRequired = TRUE
    MaxDay = 2
    MaxFaults = 1
    MaxDeliveries = 1
SPECIFICATION FairSpec
INVARIANTS TypeOK InertWithoutSubscription PaidPeriodOnRecord RetryScheduled
PROPERTIES PaidUpNeverExpelled ChargesFollowMandate DueIsTried
