SPECIFICATION HistoryFairSpec
CONSTANTS
    a1 = a1
    a2 = a2
    None = None
    Writers = {1, 2, 3}
    Readers = {}
    Documents <- LedgerPapers
    Ttl = 1
    Limit = 1
    MaxClock = 0
    Concurrency = 1
    Notifying = TRUE
    MaxQueue = 1
    Restarts = 1
 
 
INVARIANT EventsInOrder
PROPERTY Announced
CHECK_DEADLOCK FALSE
