SPECIFICATION Spec
CONSTANTS
    eth1 = eth1
    eth2 = eth2
    a1 = a1
    a2 = a2
    a3 = a3
    Nic = {eth1, eth2}
    Physical = {eth1}
    NicAddr <- MCNicAddr
    Vtep = {v1}
    NS = {ns1, ns2}
    Host = Host
    Gone = Gone
    NoNic = NoNic
    NoParams = NoParams
    Special = Special
    MaxFails = 0
    MaxChanges = 1
INVARIANTS
    AddressValidated
