CONSTANTS
    Crlf = TRUE
    Programs <- MCPrograms
    MaxCol = 4
    BufLen = 256
SPECIFICATION Spec
INVARIANTS TypeOK WritersKeepLines ReadersKeepLines PositionFollowsText
PROPERTIES PeekInvisible AbortsNeedMisuse
CHECK_DEADLOCK FALSE
