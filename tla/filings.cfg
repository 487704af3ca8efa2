SPECIFICATION HistorySpec
CONSTANTS
    r1 = r1
    r2 = r2
    r3 = r3
    r4 = r4
    u1 = u1
    u2 = u2
    n1 = n1
    i1 = i1
    e1 = e1
    e2 = e2
    None = None
    Req = {r1, r2, r3}
    Uit = {u1, u2}
    Reference = {n1}
    Employee = {e1, e2}
    Snapshot <- Staff
    Month = {1, 2}
    Invoice = {i1}
    MaxPolls = 2
    Concurrency = 2
    Disconnects = TRUE
SYMMETRY RequestSymmetry
PROPERTY SerialFilingsFinal
INVARIANT SerialStatusOfUpload
INVARIANT ArchivedIsAccepted
