SPECIFICATION SimSpec
CONSTANTS
    Price <- MCPrice
    Smoothing <- MCSmoothing
    HistoryMaxAge = 3
    MaxCandle = 7
    Deadline = 3
    MinResidue = 1000
    FeeBps = 35
    WindowCap = 3
CHECK_DEADLOCK FALSE
INVARIANTS
    AggregateIsFold
    ResolvedRightly
    TrailFollowsPhases
