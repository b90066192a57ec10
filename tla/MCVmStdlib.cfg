SPECIFICATION Spec
CONSTANTS
    CacheClients = 2
    DbClients = 3
    Producers = 3
    DbMayPanic = TRUE
    Capacity = 2
    Keys = {2, 3}
    Values <- MCValues
    MaxEmits = 1
    MaxDbEmits = 1
    Miss = Miss
    MailboxRoom = 1
    Node = {1, 2, 3}
    Kids <- MCKids
    Leaf = {1}
    L1Room = 2
    Garbled = Garbled
    Inputs <- MCInputs
    SayEvery = 2
INVARIANTS
    ConfirmedIsCommitted
    AnswersShared
    TelemetryWhole
    EncodesTrue
    ConsoleFaithful
PROPERTIES
    MainEnds
