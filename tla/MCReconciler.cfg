SPECIFICATION FairSpec
CONSTANTS
    u1 = u1
    u2 = u2
    v1 = v1
    p1 = p1
    p2 = p2
    f1 = f1
    Underlay = {u1, u2}
    VNI = {v1}
    Pod = {p1, p2, f1}
    Foreign = {f1}
    None = None
    MaxIndex = 1
    MaxEvents = 3
    MaxFails = 1
INVARIANTS
    QuietMeansApplied
    InterfacesFollowFRR
PROPERTIES
    Converges
    FollowsAPI
CHECK_DEADLOCK FALSE
