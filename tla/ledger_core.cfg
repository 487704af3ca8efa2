SPECIFICATION HistorySpec
CONSTANTS
    r1 = r1
    r2 = r2
    r3 = r3
    r4 = r4
    q1 = q1
    None = None
    Req <- FourRequests
    Period = {q1}
    Year = {2026}
    InputLines <- TypedNotes
    PostedLines <- OneReceivableNote
    PadMax = 2
    Concurrency = 4
    Disconnects = TRUE
SYMMETRY RequestSymmetry
INVARIANT UniqueNumbers
INVARIANT SeriesSaturates
 
INVARIANT PeriodsSettle
INVARIANT NoStandstill
PROPERTY ImplementsRegister
