SPECIFICATION Spec
CONSTANTS
    Node = {n1, n2, n3}
    VtepPool = 2
    VethPool = 4
    None = None
    MaxTime = 2
    MaxLeft = 2
SYMMETRY MCSymmetry
INVARIANTS
    TypeOK
    JoinsKeepDistinct
    FreshDistinct
    PoolsUsedUp
