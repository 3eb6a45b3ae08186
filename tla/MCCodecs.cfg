SPECIFICATION Spec
CONSTANTS
    a4 = a4
    b4 = b4
    a6 = a6
    b6 = b6
    noIP = noIP
    red = red
    blue = blue
    nic = nic
    V4 = {a4, b4}
    V6 = {a6, b6}
    Error = Error
    None = None
    Word = 65536
    Neighbor <- MCNeighbor
    RouterASN = {64512, 64513}
    Underlays <- MCUnderlays
    VNIs <- MCVNIs
    Index <- MCIndex
    Addresses <- MCAddresses
    Peers <- MCPeers
    Routes <- MCRoutes
    VRFNames <- MCVRFNames
INVARIANTS
    TimersAllowed
    ConversionsAgree
    FamilyOfAddresses
    OrderInvisible
