SPECIFICATION FairSpec
CONSTANTS
    Operations <- MCOperations
    MAXSEC = 2
    BPS = 2
    Total = 5
    Width = 6
    MaxCalls = 3
INVARIANTS
    TypeOK
    AlwaysAPrefix
    DoneMeansAll
PROPERTIES
    OperationReturns
