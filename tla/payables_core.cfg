SPECIFICATION HistorySpec
CONSTANTS
    r1 = r1
    r2 = r2
    r3 = r3
    r4 = r4
    r5 = r5
    u1 = u1
    u2 = u2
    b1 = b1
    b2 = b2
    None = None
    Req = {r1, r2, r3, r4, r5}
    User = {u1, u2}
    RoleOf <- Roles
    BankLine = {b1, b2}
    LineAmount <- TwoLines
    Total <- TwoCents
    Amount <- TwoCents
    Threshold = 30
    Concurrency = 2
    Disconnects = TRUE
    MaxArrived = 3
INVARIANT ApprovedIsBacked
INVARIANT PaidIsBacked
 
PROPERTY SerialDecisions
CHECK_DEADLOCK FALSE
SYMMETRY RequestSymmetry
