CONSTANTS
    usdc = usdc
    BrokerCount = 2
    MaxCandle = 2
    MayDie = {}
    PeerDeathVisible = FALSE
    Owner <- MCOwner
    Asset = {usdc}
    Price = {100, 110}
    Candle <- MCCandle
    Term = {2}
    InitialBalances <- MCInitialBalances
    EntryFee = 35
    ExitFee = 35
    PaperAmount = 10000
    RealAmount = 50
    GateSubmissions = 1
    MaxPapers = 2
    MaxReals = 1
SPECIFICATION ServiceSafety
INVARIANTS
    RoutingAligned
    ReplyIsTrue
    NothingLostAtExit
PROPERTIES
    TreasuryServed
