\* Handlers overlap.
CONSTANTS
    ann = ann
    bob = bob
    cid = cid
    m1 = m1
    m2 = m2
    t1 = t1
    t2 = t2
    Members = {ann, bob, cid}
    Admins = {}
    Messages = {m1, m2}
    Author <- Authors
    Tasks = {t1, t2}
    HasRow = {ann}
    Lossy = FALSE
    Patient = FALSE
    Threshold = 1
    MaxReacts = 3
SPECIFICATION FairSpec
INVARIANTS VotesMirror KarmaIsSum TotalsMirror AlertedAbove
PROPERTY HandlersEnd
CHECK_DEADLOCK FALSE
