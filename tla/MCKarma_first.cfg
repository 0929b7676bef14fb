\* Two members react at once to someone without a karma row.
CONSTANTS
    ann = ann
    bob = bob
    cid = cid
    m1 = m1
    m2 = m2
    t1 = t1
    t2 = t2
    Members = {ann, bob, cid}
    Admins = {}
    Messages = {m1, m2}
    Author <- Authors
    Tasks = {t1, t2}
    HasRow = {}
    Lossy = FALSE
    Patient = TRUE
    Threshold = 1
    MaxReacts = 2
SPECIFICATION Spec
INVARIANT AlwaysMirror
CHECK_DEADLOCK FALSE
