CONSTANTS
    ByteBits = 4
    WordBytes = 2
    IntBytes = 1
    TagBits = 2
    MantissaBits = 4
    MinStorage = 2
    BufLen = 4
    TrimChars <- MCTrimChars
    UpperOf <- MCUpperOf
    Programs <- MCPrograms
SPECIFICATION Spec
INVARIANTS TypeOK ArithmeticAgrees NumbersReadBack TextsAgree
CHECK_DEADLOCK FALSE
