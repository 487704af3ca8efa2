SPECIFICATION HistorySpec
CONSTANTS
    a1 = a1
    a2 = a2
    None = None
    Writers = {1}
    Readers <- TwoReaders
    Documents <- CachePapers
    Ttl = 1
    Limit = 1
    MaxClock = 4
    Concurrency = 2
    Notifying = FALSE
    MaxQueue = 1
    Restarts = 0
SYMMETRY ReaderSymmetry
INVARIANT BoundedStaleness
INVARIANT CalmReportsFresh
CHECK_DEADLOCK FALSE
