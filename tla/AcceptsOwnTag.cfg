SPECIFICATION Spec
CONSTANTS
    Commands <- MCCommands
    MPS = 512
    OutCap = 2
    InCap = 2
    MaxCalls = 2
INVARIANTS
    AcceptsOwnTag
