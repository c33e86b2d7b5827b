CONSTANTS
    Pkg = {p0, p1, p2}
    PkgName = {a, b, c}
    x = x
    Name = {x}
    Sym = {s1, s2}
    NameOf <- MCNameOf
    None = None
    MaxUses = 2
    MaxDeleted = 1
SPECIFICATION Spec
INVARIANTS TypeOK HomeHolds ReadsBack
PROPERTIES DeletionSevers InternKeepsMeaning
SYMMETRY Interchangeable
