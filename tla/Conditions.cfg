CONSTANTS
    Tag = {"t"}
    Condition = {"c"}
    Bindable = {{"c", "user-break", "uncaught-throw"}}
    MaxDepth = 5
    MaxThrowDepth = 12
    MaxBreaks = 1
SPECIFICATION Spec
INVARIANTS TypeOK HandlersFollowExtents PanicNeedsMishap
CHECK_DEADLOCK FALSE
