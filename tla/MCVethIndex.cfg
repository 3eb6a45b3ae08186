SPECIFICATION Spec
CONSTANTS
    red = red
    blue = blue
    green = green
    c1 = c1
    c2 = c2
    Vrf = {red, blue, green}
    Foreign = {c1, c2}
    Host = Host
    Pod = Pod
    None = None
    Start <- MCStart
    MaxFails = 1
INVARIANTS
    PeerConfigured
    
PROPERTY OnlyPeerMoves
CHECK_DEADLOCK FALSE
