SPECIFICATION Spec
CONSTANTS
    Parts = {"main", "scan", "bin", "codes"}
    Indexes = {6}
    p1 = p1
    p2 = p2
    None = None
INVARIANTS
    ZeroMeansDone
    FindsAndOwns
    ImagesAreWhole
    CodesAreRight
CHECK_DEADLOCK FALSE
