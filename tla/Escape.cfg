CONSTANTS
    Tag = {a, b}
    AnyTag = AnyTag
    MaxDepth = 5
SPECIFICATION FairSpec
INVARIANTS TypeOK TargetLive AfterOnce ThrowEscapes
PROPERTIES CleanupNeverSkipped ThrowCompletes
CHECK_DEADLOCK FALSE
