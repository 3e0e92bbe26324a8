SPECIFICATION Spec
CONSTANTS
    Parts = {"urbs", "contexts", "handles", "config", "descriptors", "replies", "transfers", "backend", "iso"}
    t1 = t1
    t2 = t2
    NoOne = NoOne
    NoCtx = NoCtx
    Default = Default
    Monitor = Monitor
INVARIANTS
    StatusIsTrue
    UsersAreIndependent
    ClaimsAreReal
    ConfigsInPlace
    StaysInBuffer
    NothingIsLost
PROPERTIES
    ImplementsTransfer
    EndsWhenCancelled
CHECK_DEADLOCK FALSE
