SPECIFICATION Spec
CONSTANTS
    Jobs <- MCJobs
    MaxSessions = 1
INVARIANTS
    TrueIsDelivered
