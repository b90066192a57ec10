CONSTANTS
    o1 = o1
    o2 = o2
    usdc = usdc
    doge = doge
    Owner = {o1, o2}
    Asset = {usdc, doge}
    Price = {100, 110}
    Candle = {0, 1}
    Term = {1}
    InitialBalances <- MCInitialBalances
    EntryFee = 35
    ExitFee = 35
    PaperAmount = 10000
    RealAmount = 50
    GateSubmissions = 2
    MaxPapers = 3
    MaxReals = 2
SYMMETRY MCSymmetry
SPECIFICATION Spec
INVARIANTS
    CountersMatchPapers
    CapitalConserved
PROPERTIES
    ResolvedIsFinal
    TrustKept
