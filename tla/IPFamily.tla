------------------------------ MODULE IPFamily ------------------------------
(***************************************************************************)
(* internal/ipfamily.  An address, or what should be one, is its own name; *)
(* the constants say how net.ParseIP reads it.                             *)
(***************************************************************************)
EXTENDS Sequences

CONSTANTS
    V4, V6,      \* addresses To4 has, or does not have, a form for
    Error        \* what a function returns with an error

ParseIP(a) == a \in V4 \cup V6
To4(a) == a \in V4

ForAddress(a) == IF To4(a) THEN "ipv4" ELSE "ipv6"

\* Fault: two addresses of the same family are a dual stack.
AnyTwoAreDual(ips) ==
    IF \E i \in DOMAIN ips : ~ParseIP(ips[i]) THEN Error
    ELSE CASE Len(ips) = 1 -> ForAddress(ips[1])
           [] Len(ips) = 2 -> "dual"
           [] OTHER -> Error

ForAddresses(ips) ==
    IF \E i \in DOMAIN ips : ~ParseIP(ips[i]) THEN Error
    ELSE CASE Len(ips) = 1 -> ForAddress(ips[1])
           [] Len(ips) = 2 /\ To4(ips[1]) # To4(ips[2]) -> "dual"
           [] OTHER -> Error

ForService(svc) ==
    IF svc.clusterIPs # <<>> THEN ForAddresses(svc.clusterIPs) ELSE ForAddresses(<<svc.clusterIP>>)

=============================================================================
