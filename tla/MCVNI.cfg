SPECIFICATION FairSpec
CHECK_DEADLOCK FALSE
CONSTANTS
    red = red
    blue = blue
    i1 = i1
    i2 = i2
    Vrf = {red, blue}
    Vni = {100, 200}
    Ip = {i1, i2}
    Port = {4789, 4790}
    Configs <- MCChange
    NS = {ns1}
    Host = Host
    None = None
    MaxTable = 2
    MaxFaults = 1
    MaxChanges = 1
INVARIANTS
    VNIReady
    TablesDistinct
    RemovedAll
PROPERTIES
    RepeatChangesNothing
    RemovalSparesConfigured
    
