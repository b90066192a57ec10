SPECIFICATION Spec
CONSTANTS
    Brokers = {b1, b2}
    Reference = 100
    EntryFee = 10
    ExitFee = 10
    Base = 1
    MaxCandles = 3
    MayDie = TRUE
    Candles <- SomeCandles
SYMMETRY Peers
INVARIANTS
    BooksTrue
    DeadlinesKept
    OutcomesLearned
    TaughtByFailure
PROPERTIES
    GraceIsEarned
