SPECIFICATION Spec
CONSTANTS
    Jobs <- MCJobs
    MaxSessions = 3
INVARIANTS
    TypeOK
    CrcInOneTransfer
    AllRan
    WrittenInPlace
    SpoilsOne
