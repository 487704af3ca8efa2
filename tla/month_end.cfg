SPECIFICATION MonthHistorySpec
CONSTANTS
    g1 = g1
    g2 = g2
    g3 = g3
    g4 = g4
    Nothing = Nothing
    Call = {g1, g2, g3, g4}
    Month = {0, 1, 2}
    Salary <- Contracts
    FixedAsset <- Register
    Width = 2
    CallsDrop = TRUE
SYMMETRY CallSymmetry
INVARIANT SerialDepreciation
INVARIANT UncutMonthPosted
