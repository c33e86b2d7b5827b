CONSTANTS
    SegSize = 1
    MaxSegs = 2
    SubFreelistSize = 1
    MaxFields = 1
    MaxRoots = 2
    MaxTraps = 1
SPECIFICATION Spec
INVARIANT ReachableKept
CHECK_DEADLOCK FALSE
