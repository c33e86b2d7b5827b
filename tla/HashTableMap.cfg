CONSTANTS
    k1 = k1
    k2 = k2
    k3 = k3
    k4 = k4
    k5 = k5
    Key = {k1, k2, k3, k4, k5}
    v = v
    Null = Null
    Value = {v, Null}
    Unbound = Unbound
    Absent = Absent
    Done = Done
    HashOf <- MCHashOf
    InitialSize = 4
    MaxLoad = 67
    SmallFactor = 2
    LargeFactor = 4
    Threshold = 50000
    MaxSize = 20
SPECIFICATION Spec
INVARIANTS TypeOK ProbesReach HangNeedsDeletion
PROPERTY ImplementsTable
SYMMETRY Colliding
CHECK_DEADLOCK FALSE
