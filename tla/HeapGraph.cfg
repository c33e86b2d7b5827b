CONSTANTS
    SegSize = 1
    MaxSegs = 3
    SubFreelistSize = 1
    MaxFields = 1
    MaxRoots = 2
    MaxTraps = 1
SPECIFICATION Spec
INVARIANTS TypeOK NoDangling
CHECK_DEADLOCK FALSE
