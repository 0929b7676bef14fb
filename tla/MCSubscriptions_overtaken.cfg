\* The job lists a user who pays while it runs.
CONSTANTS
    u1 = u1
    i1 = i1
    h1 = h1
    nobody = nobody
    Users = {u1}
    Nobody = nobody
    Invoices = {i1}
    Handlers = {h1}
    Roles = {"priced"}
    Durations = {2}
    TrialEnds = {1}
    PaymentRequired = TRUE
    MaxDay = 1
    MaxFaults = 0
    MaxDeliveries = 1
SPECIFICATION Spec
PROPERTY PaidMemberStays
