SPECIFICATION WindowSpec
CONSTANTS
    Price <- MCPrice
    Smoothing <- MCSmoothing
    HistoryMaxAge = 2
    MaxCandle = 7
CHECK_DEADLOCK FALSE
INVARIANTS
    LabelsAgree
    HistoryTrue
PROPERTY
    TurnClosesPhase
