SPECIFICATION Spec
CONSTANTS
    red = red
    blue = blue
    green = green
    c1 = c1
    c2 = c2
    Vrf = {red, blue}
    Foreign = {}
    Host = Host
    Pod = Pod
    None = None
    Start <- MCSmall
    MaxFails = 0
INVARIANTS
    Validated
CHECK_DEADLOCK FALSE
