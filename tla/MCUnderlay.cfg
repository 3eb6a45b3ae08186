SPECIFICATION FairSpec
CONSTANTS
    eth1 = eth1
    eth2 = eth2
    a1 = a1
    a2 = a2
    a3 = a3
    Nic = {eth1, eth2}
    Physical = {eth1}
    NicAddr <- MCNicAddr
    Vtep = {v1, v2}
    NS = {ns1, ns2}
    Host = Host
    Gone = Gone
    NoNic = NoNic
    NoParams = NoParams
    Special = Special
    MaxFails = 2
    MaxChanges = 1
INVARIANTS
    MarkerIdentifies
    UnderlayInstalled
    AddressesFollow
    OthersMovedBack
PROPERTIES
    RepeatChangesNothing
    EventuallyServed
