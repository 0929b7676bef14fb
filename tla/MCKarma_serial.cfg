\* One handler at a time; updates dropped, ignored and rolled back.
CONSTANTS
    ann = ann
    bob = bob
    cid = cid
    m1 = m1
    m2 = m2
    t1 = t1
    t2 = t2
    Members = {ann, bob, cid}
    Admins = {cid}
    Messages = {m1, m2}
    Author <- Authors
    Tasks = {t1}
    HasRow = {}
    Lossy = TRUE
    Patient = FALSE
    Threshold = 1
    MaxReacts = 3
SPECIFICATION Spec
INVARIANTS TypeOK KarmaIsSum TotalsMirror AlertedAbove
CHECK_DEADLOCK FALSE
