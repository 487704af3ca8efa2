SPECIFICATION HistorySpec
CONSTANTS
    r1 = r1
    r2 = r2
    r3 = r3
    r4 = r4
    b1 = b1
    b2 = b2
    None = None
    Req <- FourRequests
    BankLine = {b1, b2}
    LineAmount <- TwoLines
    Total <- TwoCents
    Amount <- Receipts
    Concurrency = 4
    Disconnects = TRUE
SYMMETRY RequestSymmetry
INVARIANT PaidIsCovered
INVARIANT SerialNoOverpayment
INVARIANT ReceiptsSettle
 
