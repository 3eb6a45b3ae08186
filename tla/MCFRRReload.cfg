SPECIFICATION FairSpec
CONSTANTS
    blue = blue
    green = green
    bad = bad
    r1 = r1
    r2 = r2
    r3 = r3
    Config = {blue, green, bad}
    Invalid = {bad}
    Torn = Torn
    Startup = Startup
    Request = {r1, r2}
    NoRequest = NoRequest
    MaxFaults = 2
    MaxChanges = 2
INVARIANTS
    TypeOK
    SuccessIsOwn
    InvalidNeverRuns
    QuietMeansCurrent
PROPERTIES
    Converges
    ImplementsService
CHECK_DEADLOCK FALSE
