SPECIFICATION FeedHistorySpec
CONSTANTS
    t1 = t1
    t2 = t2
    c1 = c1
    a1 = a1
    a2 = a2
    m1 = m1
    m2 = m2
    Nil = Nil
    Absent = Absent
    MaxLines = 3
    Task = {t1, t2}
    Connection = {c1}
    Account = {a1, a2}
    Selected <- EveryAccount
    Movement = {m1, m2}
    Payload <- Movements2
    File <- Files
    Window <- Windows
    LastDay = 2
    Restarts = 1
    AtOnce = 2
    ClientsDrop = TRUE
SYMMETRY TaskSymmetry
INVARIANT SerialImportedOnce
INVARIANT UnaskedNothingMissed
 
CHECK_DEADLOCK FALSE
