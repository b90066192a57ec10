CONSTANTS
    usdc = usdc
    BrokerCount = 2
    MaxCandle = 1
    MayDie = {1}
    PeerDeathVisible = TRUE
    Owner <- MCOwner
    Asset = {usdc}
    Price = {100, 110}
    Candle <- MCCandle
    Term = {1}
    InitialBalances <- MCInitialBalances
    EntryFee = 35
    ExitFee = 35
    PaperAmount = 10000
    RealAmount = 50
    GateSubmissions = 1
    MaxPapers = 1
    MaxReals = 1
SPECIFICATION ServiceSpec
INVARIANTS
    ReceiptsMatchPositions
PROPERTIES
    HelpersReturn
