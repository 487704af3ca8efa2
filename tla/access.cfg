SPECIFICATION HistorySpec
CONSTANTS
    r0 = r0
    r1 = r1
    r2 = r2
    r3 = r3
    u1 = u1
    u2 = u2
    k1 = k1
    k2 = k2
    None = None
    Req = {r0, r1, r2, r3}
    User = {u1, u2}
    Company = {k1, k2}
    Restarts = 1
    Concurrency = 2
SYMMETRY RequestSymmetry
INVARIANT SerialSessionsEnd
 
INVARIANT SerialAccounts
CHECK_DEADLOCK FALSE
