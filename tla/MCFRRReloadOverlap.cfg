SPECIFICATION Spec
CONSTANTS
    blue = blue
    green = green
    bad = bad
    r1 = r1
    r2 = r2
    r3 = r3
    Config = {blue, green, bad}
    Invalid = {bad}
    Torn = Torn
    Startup = Startup
    Request = {r1, r2, r3}
    NoRequest = NoRequest
    MaxFaults = 1
    MaxChanges = 1
INVARIANT LatestIsLoaded
CHECK_DEADLOCK FALSE
