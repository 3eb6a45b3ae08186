-------------------------------- MODULE Ipam --------------------------------
(***************************************************************************)
(* internal/ipam: addresses of a pool by number.  A pool is how many       *)
(* addresses it has, an address its offset in the pool.                    *)
(***************************************************************************)
EXTENDS Integers

CONSTANT None    \* no address: an error

\* Fault: one address beyond the end.
CidrHostInclusive(pool, i) == IF i <= pool THEN i ELSE None

\* cidr.Host: the i-th address of a pool, an error beyond its end.
CidrHost(pool, i) == IF i < pool THEN i ELSE None

\* The i-th block of one address.
VTEPIp(pool, i) == CidrHost(pool, i)

PESide(pool) == CidrHost(pool, 0)

\* Fault: the first node's host side is the PE side.
HostSideFromZero(pool, i) == CidrHost(pool, i)

HostSide(pool, i) == CidrHost(pool, i + 1)

VethIPs(pool, i) ==
    IF PESide(pool) = None \/ HostSide(pool, i) = None THEN None
    ELSE [host |-> HostSide(pool, i), pe |-> PESide(pool)]

=============================================================================
