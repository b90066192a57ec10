SPECIFICATION BankSpec
CONSTANTS
    Candle <- MCCandle
    Price <- MCPrice
    Smoothing <- MCSmoothing
    Period <- MCPeriod
    SmaPeriods <- MCTwoThree
    CloseWindows <- MCTwoThree
    RangeWindows <- MCTwo
    RocWindow = 2
    RocPeriods <- MCOne
    HistoryMaxAge = 3
    MaxCandle = 6
CHECK_DEADLOCK FALSE
INVARIANTS
    RollingSumsTrue
    ReadOutsInRange
    NoSwingMissed
