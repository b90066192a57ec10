SPECIFICATION Spec
CONSTANTS
    Markets = 2
    Regimes = 1
    MaxCandles = 3
    MaxCalls = 1
    MailRoom = 1
    MaxDeaths = 1
    PanicBy = 1
INVARIANTS
    RoundsAligned
    NoneLost
    ClocksClose
PROPERTIES
    MachineEnds
