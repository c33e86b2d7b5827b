CONSTANTS
    SegSize = 2
    MaxSegs = 2
    SubFreelistSize = 2
    MaxFields = 0
    MaxRoots = 2
    MaxTraps = 2
SPECIFICATION Spec
INVARIANT FreelistsSound
CHECK_DEADLOCK FALSE
PROPERTY OnlyClaimsLoseCells
