SPECIFICATION FairSpec
CONSTANTS
    Commands <- MCCommands
    MPS = 512
    OutCap = 2
    InCap = 2
    MaxCalls = 3
INVARIANTS
    TypeOK
    QuietBetweenCommands
    OwnAnswer
    ExecutedInOrder
    LagBounded
PROPERTIES
    ExecutesWhatWasSent
    CommandReturns
    ImplementsCall
