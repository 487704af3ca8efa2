SPECIFICATION HistorySpec
CONSTANTS
    r1 = r1
    r2 = r2
    r3 = r3
    a = a
    c = c
    None = None
    Req = {r1, r2, r3}
    Item = {a, c}
    Fifo = {a}
    Document <- Documents
    Date = {1, 2}
    MaxLines = 2
    Concurrency = 3
    Disconnects = TRUE
SYMMETRY RequestSymmetry
INVARIANT BooksSettle
PROPERTY SerialOldestFirst
