---------------------------- MODULE CodecsProofs ----------------------------
(***************************************************************************)
(* Proofs about the calls of Codecs, for any inputs: any durations, lists  *)
(* of any length, pools of any size.                                       *)
(***************************************************************************)
EXTENDS Codecs, FiniteSetTheorems, TLAPS

\* What the templates write for a neighbour.
Converted(n, asn) == IF NeighborToFRR(n) = Error THEN Error ELSE Session(NeighborToFRR(n), asn)

\* The result of a call is that of the function on its arguments.
Inv ==
    /\ op = "neighbor" => \E n \in Neighbor, asn \in RouterASN :
          in = <<n, asn>> /\ out = Converted(n, asn)
    /\ op = "api" => \E i \in Index, us \in Underlays, vs \in VNIs :
          out = [frr |-> APItoFRR(i, us, vs), host |-> APItoHostConfig(i, us, vs)]
    /\ op = "addresses" => in \in Addresses /\ out = ForAddresses(in)
    /\ op = "service" => \E ips \in Addresses, ip \in V4 \cup V6 \cup {None} :
          in = <<ips, ip>> /\ out = ForService([clusterIPs |-> ips, clusterIP |-> ip])

-----------------------------------------------------------------------------
\* A neighbour that is not refused has the session of its conversion.
LEMMA ConvertedSession ==
    ASSUME NEW n, NEW asn, Converted(n, asn) # Error
    PROVE  NeighborToFRR(n) # Error /\ Converted(n, asn) = Session(NeighborToFRR(n), asn)
  BY Zenon DEF Converted

\* A duration that is not negative, or not by a second, as a number of seconds.
LEMMA SecondsBound ==
    ASSUME NEW d \in Int, d > -1000
    PROVE  /\ Seconds(d) \in Nat
           /\ 1000 * Seconds(d) <= d + 999
           /\ d >= 0 => 1000 * Seconds(d) <= d /\ d < 1000 * Seconds(d) + 1000
  BY DEF Seconds

\* A negative one is no positive number of seconds.
LEMMA SecondsSign ==
    ASSUME NEW d \in Int
    PROVE  Seconds(d) \in Int /\ (Seconds(d) > 0 => d >= 1000)
  BY DEF Seconds

\* A longer duration is not fewer seconds.
LEMMA SecondsMonotone ==
    ASSUME NEW d \in Int, NEW e \in Int, d <= e
    PROVE  Seconds(d) <= Seconds(e)
  BY DEF Seconds

\* Numbers that fit in uint64 are themselves.
LEMMA UintFits ==
    ASSUME NEW n \in Nat, n < Word
    PROVE  Uint(n) = n
  BY WordAssumption DEF Uint

\* What parseTimers accepts.
LEMMA ParsedTimers ==
    ASSUME NEW n \in Neighbor, NEW t, t = ParseTimers(n.holdTime, n.keepaliveTime),
           t # Error, t.hold # None
    PROVE  /\ n.holdTime \in Int /\ n.keepaliveTime \in Int
           /\ n.keepaliveTime <= n.holdTime
           /\ Seconds(n.holdTime) = 0 \/ Seconds(n.holdTime) >= 3
           /\ t.hold = Uint(Seconds(n.holdTime)) /\ t.keepalive = Uint(Seconds(n.keepaliveTime))
           /\ n.holdTime < 1000 * Word /\ n.keepaliveTime < 1000 * Word
<1>1. PICK ht, ka : ht = n.holdTime /\ ka = n.keepaliveTime
  OBVIOUS
<1>2. ht # None /\ ka # None
  <2>1. ht = None <=> ka = None
    BY <1>1, Zenon DEF ParseTimers
  <2>2. ht = None => t = [hold |-> None, keepalive |-> None]
    BY <1>1, <2>1, Zenon DEF ParseTimers
  <2>3. QED
    BY <2>1, <2>2
<1>3. ht \in Int /\ ka \in Int /\ ht < 1000 * Word /\ ka < 1000 * Word
  <2>1. \A d \in {ht, ka} : d = None \/ (d \in Int /\ d < 1000 * Word)
    BY <1>1, DurationAssumption
  <2>2. QED
    BY <1>2, <2>1
<1>4. ~((Seconds(ht) # 0 /\ Seconds(ht) < 3) \/ ka > ht)
  BY <1>1, <1>2, Zenon DEF ParseTimers
<1>5. t = [hold |-> Uint(Seconds(ht)), keepalive |-> Uint(Seconds(ka))]
  BY <1>1, <1>2, <1>4, Zenon DEF ParseTimers
<1>6. Seconds(ht) \in Int
  BY <1>3, SecondsSign
<1>7. Seconds(ht) = 0 \/ Seconds(ht) >= 3
  BY <1>4, <1>6
<1>8. ka <= ht
  BY <1>3, <1>4
<1>9. t.hold = Uint(Seconds(ht)) /\ t.keepalive = Uint(Seconds(ka))
  BY <1>5
<1>10. QED
  BY <1>1, <1>3, <1>7, <1>8, <1>9

\* The two numbers FRR is given.
LEMMA TimersInSeconds ==
    ASSUME NEW ht \in Int, NEW ka \in Int, ka <= ht, ka > -1000, ht < 1000 * Word, ka < 1000 * Word,
           Seconds(ht) = 0 \/ Seconds(ht) >= 3
    PROVE  LET keepalive == Uint(Seconds(ka))
               hold == Uint(Seconds(ht))
           IN  /\ hold = 0 \/ hold >= 3
               /\ keepalive <= hold
               /\ hold > 0 => 1000 * hold <= ht /\ 1000 * keepalive <= ka + 999
<1>1. ht > -1000 /\ Word \in Nat
  BY WordAssumption
<1>2. Seconds(ht) \in Nat /\ Seconds(ka) \in Nat /\ Seconds(ka) <= Seconds(ht)
  <2>1. Seconds(ht) \in Nat /\ Seconds(ka) \in Nat
    BY <1>1 DEF Seconds
  <2>2. QED
    BY <2>1, SecondsMonotone
<1>3. Seconds(ht) < Word
  <2>1. Seconds(ht) > 0 => 1000 * Seconds(ht) <= ht
    BY <1>1, SecondsBound, SecondsSign
  <2>2. QED
    BY <1>1, <1>2, <2>1, WordAssumption
<1>4. Uint(Seconds(ht)) = Seconds(ht) /\ Uint(Seconds(ka)) = Seconds(ka)
  <2>1. Seconds(ka) < Word
    BY <1>1, <1>2, <1>3
  <2>2. QED
    BY <1>2, <1>3, <2>1, UintFits
<1>5. 1000 * Seconds(ka) <= ka + 999 /\ (Seconds(ht) > 0 => 1000 * Seconds(ht) <= ht)
  BY <1>1, SecondsBound, SecondsSign
<1>6. QED
  BY <1>2, <1>4, <1>5

\* What Session writes for a neighbour of the API.
LEMMA NeighborSession ==
    ASSUME NEW n \in Neighbor, NEW asn, NEW frr, frr = NeighborToFRR(n), frr # Error
    PROVE  LET t == ParseTimers(n.holdTime, n.keepaliveTime)
               s == Session(frr, asn)
           IN  /\ t # Error
               /\ s.timers # None => t.hold # None /\ s.timers[1] = t.keepalive /\ s.timers[2] = t.hold
               /\ s.unicast = IF n.address \in V4 THEN {"ipv4"} ELSE {"ipv6"}
<1>1. PICK t : t = ParseTimers(n.holdTime, n.keepaliveTime)
  BY Zenon
<1>2. t # Error /\ ForAddresses(<<n.address>>) # Error
  BY <1>1, Zenon DEF NeighborToFRR
<1>3. /\ frr.hold = t.hold /\ frr.keepalive = t.keepalive
      /\ frr.family = ForAddresses(<<n.address>>)
  BY <1>1, <1>2 DEF NeighborToFRR
<1>4. ForAddresses(<<n.address>>) = IF n.address \in V4 THEN "ipv4" ELSE "ipv6"
  <2>1. DOMAIN <<n.address>> = {1} /\ Len(<<n.address>>) = 1 /\ <<n.address>>[1] = n.address
    OBVIOUS
  <2>2. ForAddresses(<<n.address>>) = ForAddress(n.address)
    BY <1>2, <2>1 DEF ForAddresses
  <2>3. QED
    BY <2>2, Zenon DEF ForAddress, To4
<1>5. PICK s : s = Session(frr, asn)
  BY Zenon
<1>6. s.unicast = {f \in {"ipv4", "ipv6"} : f = frr.family}
  BY <1>5 DEF Session, ActivateNeighborFor
<1>7. s.unicast = IF n.address \in V4 THEN {"ipv4"} ELSE {"ipv6"}
  BY <1>3, <1>4, <1>6
<1>8. s.timers = IF frr.hold # None /\ frr.keepalive # None THEN <<frr.keepalive, frr.hold>> ELSE None
  BY <1>5 DEF Session
<1>9. s.timers # None => t.hold # None /\ s.timers[1] = t.keepalive /\ s.timers[2] = t.hold
  BY <1>3, <1>8
<1>10. QED
  BY <1>1, <1>2, <1>5, <1>7, <1>9, Zenon

-----------------------------------------------------------------------------
\* The invariant of the calls.
THEOREM Invariance == Spec => []Inv
<1>1. Init => Inv
  BY DEF Init, Inv
<1>2. Inv /\ [Next]_vars => Inv'
  <2> SUFFICES ASSUME Inv, [Next]_vars PROVE Inv'
    OBVIOUS
  <2>1. CASE UNCHANGED vars
    BY <2>1, Zenon DEF Inv, vars
  <2>2. CASE op' \notin {"neighbor", "api", "addresses", "service"}
    BY <2>2, Zenon DEF Inv
  <2>3. ASSUME NEW n \in Neighbor, NEW asn \in RouterASN, CallNeighborToFRR(n, asn) PROVE Inv'
    BY <2>3, Zenon DEF Inv, CallNeighborToFRR, Call, Converted
  <2>4. ASSUME NEW i \in Index, NEW us \in Underlays, NEW vs \in VNIs, CallConversions(i, us, vs) PROVE Inv'
    BY <2>4, Zenon DEF Inv, CallConversions, Call
  <2>5. ASSUME NEW ips \in Addresses, CallForAddresses(ips) PROVE Inv'
    BY <2>5, Zenon DEF Inv, CallForAddresses, Call
  <2>6. ASSUME NEW ips \in Addresses, NEW ip \in V4 \cup V6 \cup {None}, CallForService(ips, ip) PROVE Inv'
    BY <2>6, Zenon DEF Inv, CallForService, Call
  <2>7. ASSUME NEW x, CallParseNeighbours(x) \/ CallParseRoutes(x) \/ CallParseVRFs(x) PROVE Inv'
    BY <2>2, <2>7, Zenon DEF CallParseNeighbours, CallParseRoutes, CallParseVRFs, Call
  <2>8. ASSUME Return PROVE Inv'
    BY <2>2, <2>8, Zenon DEF Return
  <2>9. QED
    BY <2>1, <2>3, <2>4, <2>5, <2>6, <2>7, <2>8, Zenon DEF Next
<1>3. QED
  BY <1>1, <1>2, PTL DEF Spec

\* parseTimers gives FRR timers that BGP allows and that are not longer than those
\* asked for, for every pair of durations but negative keepalive times.
THEOREM TimersAreAllowed == Spec => []TimersAllowed
<1>1. Inv => TimersAllowed
  <2> SUFFICES ASSUME Inv, op = "neighbor", out # Error, out.timers # None, in[1].keepaliveTime > -1000
               PROVE  LET keepalive == out.timers[1]
                          hold == out.timers[2]
                      IN  /\ hold = 0 \/ hold >= 3
                          /\ keepalive <= hold
                          /\ hold > 0 => 1000 * hold <= in[1].holdTime /\ 1000 * keepalive <= in[1].keepaliveTime + 999
    BY DEF TimersAllowed
  <2>1. PICK n \in Neighbor, asn \in RouterASN :
           in = <<n, asn>> /\ out = Converted(n, asn)
    BY Zenon DEF Inv
  <2>2. in[1] = n
    BY <2>1
  <2>3. PICK frr : frr = NeighborToFRR(n) /\ frr # Error /\ out = Session(frr, asn)
    <3>1. NeighborToFRR(n) # Error /\ out = Session(NeighborToFRR(n), asn)
      <4>1. Converted(n, asn) # Error
        BY <2>1, Zenon
      <4>2. NeighborToFRR(n) # Error /\ Converted(n, asn) = Session(NeighborToFRR(n), asn)
        BY <4>1, ConvertedSession
      <4>3. out = Converted(n, asn)
        BY <2>1
      <4>4. QED
        BY <4>2, <4>3
    <3>2. QED
      BY <3>1, Zenon
  <2>4. PICK t : t = ParseTimers(n.holdTime, n.keepaliveTime)
    BY Zenon
  <2>5. t # Error /\ t.hold # None /\ out.timers[1] = t.keepalive /\ out.timers[2] = t.hold
    BY <2>3, <2>4, NeighborSession, Zenon
  <2>6. PICK ht \in Int, ka \in Int :
           /\ ht = n.holdTime /\ ka = n.keepaliveTime /\ ka <= ht
           /\ Seconds(ht) = 0 \/ Seconds(ht) >= 3
           /\ t.hold = Uint(Seconds(ht)) /\ t.keepalive = Uint(Seconds(ka))
           /\ ht < 1000 * Word /\ ka < 1000 * Word
    BY <2>4, <2>5, ParsedTimers
  <2>7. ka > -1000
    BY <2>2, <2>6
  <2>8. QED
    BY <2>2, <2>5, <2>6, <2>7, TimersInSeconds
<1>2. QED
  BY <1>1, Invariance, PTL

-----------------------------------------------------------------------------
\* A list of addresses and what ForAddresses makes of it, by its length.
LEMMA FamilyByLength ==
    ASSUME NEW ips, ips \in Seq(ToSet(ips))
    PROVE  /\ Len(ips) \in Nat /\ DOMAIN ips = 1..Len(ips)
           /\ ~(ToSet(ips) \subseteq V4 \cup V6) => ForAddresses(ips) = Error
           /\ ToSet(ips) \subseteq V4 \cup V6 =>
                 /\ Len(ips) = 1 => ForAddresses(ips) = IF ips[1] \in V4 THEN "ipv4" ELSE "ipv6"
                 /\ Len(ips) = 2 => ForAddresses(ips) = IF (ips[1] \in V4) # (ips[2] \in V4) THEN "dual" ELSE Error
                 /\ Len(ips) \notin {1, 2} => ForAddresses(ips) = Error
<1>2. Len(ips) \in Nat /\ DOMAIN ips = 1..Len(ips)
  OBVIOUS
<1>3. ToSet(ips) \subseteq V4 \cup V6 <=> ~\E i \in DOMAIN ips : ~ParseIP(ips[i])
  BY DEF ToSet, ParseIP
<1>4. ~(ToSet(ips) \subseteq V4 \cup V6) => ForAddresses(ips) = Error
  BY <1>3, Zenon DEF ForAddresses
<1>5. ASSUME ToSet(ips) \subseteq V4 \cup V6
      PROVE  /\ Len(ips) = 1 => ForAddresses(ips) = ForAddress(ips[1])
             /\ Len(ips) = 2 => ForAddresses(ips) = IF To4(ips[1]) # To4(ips[2]) THEN "dual" ELSE Error
             /\ Len(ips) \notin {1, 2} => ForAddresses(ips) = Error
  BY <1>2, <1>3, <1>5 DEF ForAddresses
<1>6. QED
  BY <1>2, <1>4, <1>5, Zenon DEF ForAddress, To4

\* The order of a list of addresses does not matter to ForAddresses.
LEMMA FamilyOfReverse ==
    ASSUME NEW ips \in Addresses
    PROVE  ForAddresses(Reverse(ips)) = ForAddresses(ips)
<1>1. Len(ips) \in Nat /\ DOMAIN ips = 1..Len(ips)
  BY ListAssumption, FamilyByLength, Zenon
<1>2. PICK r : r = Reverse(ips)
  OBVIOUS
<1>3. r = [i \in 1..Len(ips) |-> ips[(Len(ips) - i) + 1]]
  BY <1>2, Zenon DEF Reverse
<1>4. DOMAIN r = DOMAIN ips /\ \A i \in DOMAIN ips : r[i] = ips[(Len(ips) - i) + 1]
  BY <1>1, <1>3
<1>5. r \in Seq(ToSet(ips))
  <2>1. \A i \in DOMAIN ips : (Len(ips) - i) + 1 \in DOMAIN ips
    BY <1>1
  <2>2. \A i \in DOMAIN ips : ips[i] \in ToSet(ips)
    BY Zenon DEF ToSet
  <2>3. r \in [1..Len(ips) -> ToSet(ips)]
    BY <1>1, <1>3, <2>1, <2>2
  <2>4. QED
    BY <1>1, <2>3
<1>6. Len(r) = Len(ips)
  BY <1>1, <1>4, <1>5
<1>7. (\E i \in DOMAIN r : ~ParseIP(r[i])) <=> \E i \in DOMAIN ips : ~ParseIP(ips[i])
  <2>1. \A i \in DOMAIN ips : (Len(ips) - i) + 1 \in DOMAIN ips /\ r[(Len(ips) - i) + 1] = ips[i]
    BY <1>1, <1>4
  <2>2. \A i \in DOMAIN r : (Len(ips) - i) + 1 \in DOMAIN ips /\ r[i] = ips[(Len(ips) - i) + 1]
    BY <1>1, <1>4
  <2>3. QED
    BY <1>4, <2>1, <2>2, Zenon
<1>8. CASE Len(ips) = 1
  <2>1. r[1] = ips[1]
    BY <1>1, <1>4, <1>8
  <2>2. QED
    BY <1>2, <1>6, <1>7, <1>8, <2>1 DEF ForAddresses
<1>9. CASE Len(ips) = 2
  <2>1. r[1] = ips[2] /\ r[2] = ips[1]
    BY <1>1, <1>4, <1>9
  <2>2. (To4(r[1]) # To4(r[2])) <=> (To4(ips[1]) # To4(ips[2]))
    BY <2>1 DEF To4
  <2>3. QED
    BY <1>2, <1>6, <1>7, <1>9, <2>2 DEF ForAddresses
<1>10. CASE Len(ips) \notin {1, 2}
  BY <1>2, <1>6, <1>7, <1>10 DEF ForAddresses
<1>11. QED
  BY <1>8, <1>9, <1>10, Zenon

\* Two addresses are one of each family, or two of one.
LEMMA TwoAddresses ==
    ASSUME NEW S, NEW a, NEW b, S = {a, b}, S \subseteq V4 \cup V6
    PROVE  (a \in V4) # (b \in V4) <=> Cardinality(S \cap V4) = 1 /\ Cardinality(S \cap V6) = 1
<1>1. V4 \cap V6 = {}
  BY ErrorAssumption, Zenon
<1>2. \A x : Cardinality({x}) = 1
  BY FS_Singleton, Zenon
<1>3. Cardinality({}) = 0
  BY FS_EmptySet
<1>4. CASE a \in V4 /\ b \notin V4
  <2>1. S \cap V4 = {a} /\ S \cap V6 = {b}
    BY <1>1, <1>4
  <2>2. QED
    BY <1>2, <1>4, <2>1
<1>5. CASE a \notin V4 /\ b \in V4
  <2>1. S \cap V4 = {b} /\ S \cap V6 = {a}
    BY <1>1, <1>5
  <2>2. QED
    BY <1>2, <1>5, <2>1
<1>6. CASE a \in V4 /\ b \in V4
  <2>1. S \cap V6 = {}
    BY <1>1, <1>6
  <2>2. QED
    BY <1>3, <1>6, <2>1
<1>7. CASE a \notin V4 /\ b \notin V4
  <2>1. S \cap V4 = {}
    BY <1>7
  <2>2. QED
    BY <1>3, <1>7, <2>1
<1>8. QED
  BY <1>4, <1>5, <1>6, <1>7, Zenon

\* ForAddresses finds the family of any list of addresses.
LEMMA FamilyOfList ==
    ASSUME NEW ips, ips \in Seq(ToSet(ips))
    PROVE  IsFamilyOf(ForAddresses(ips), ips)
<1>1. PICK f : f = ForAddresses(ips)
  OBVIOUS
<1>2. /\ Len(ips) \in Nat /\ DOMAIN ips = 1..Len(ips)
      /\ ~(ToSet(ips) \subseteq V4 \cup V6) => f = Error
      /\ ToSet(ips) \subseteq V4 \cup V6 =>
            /\ Len(ips) = 1 => f = IF ips[1] \in V4 THEN "ipv4" ELSE "ipv6"
            /\ Len(ips) = 2 => f = IF (ips[1] \in V4) # (ips[2] \in V4) THEN "dual" ELSE Error
            /\ Len(ips) \notin {1, 2} => f = Error
  BY <1>1, FamilyByLength, Zenon
<1>3. Error # "ipv4" /\ Error # "ipv6" /\ Error # "dual"
  BY ErrorAssumption, Zenon
<1>4. CASE ~(ToSet(ips) \subseteq V4 \cup V6)
  BY <1>1, <1>2, <1>4, Zenon DEF IsFamilyOf
<1>5. CASE ToSet(ips) \subseteq V4 \cup V6 /\ Len(ips) = 2
  <2>1. ToSet(ips) = {ips[1], ips[2]}
    BY <1>2, <1>5 DEF ToSet
  <2>2. (ips[1] \in V4) # (ips[2] \in V4)
        <=> Cardinality(ToSet(ips) \cap V4) = 1 /\ Cardinality(ToSet(ips) \cap V6) = 1
    <3>1. PICK S, a, b : S = ToSet(ips) /\ a = ips[1] /\ b = ips[2]
      OBVIOUS
    <3>2. S = {a, b} /\ S \subseteq V4 \cup V6
      BY <1>5, <2>1, <3>1, Zenon
    <3>3. (a \in V4) # (b \in V4) <=> Cardinality(S \cap V4) = 1 /\ Cardinality(S \cap V6) = 1
      BY <3>2, TwoAddresses, Zenon
    <3>4. QED
      BY <3>1, <3>3, Zenon
  <2>3. Len(ips) \in 1..2
    BY <1>5
  <2>4. QED
    BY <1>1, <1>2, <1>3, <1>5, <2>2, <2>3, Zenon DEF IsFamilyOf
<1>6. CASE ToSet(ips) \subseteq V4 \cup V6 /\ Len(ips) # 2
  <2>1. Len(ips) \in 1..2 <=> Len(ips) = 1
    BY <1>2, <1>6
  <2>2. f # Error <=> Len(ips) = 1
    <3>1. CASE Len(ips) = 1
      BY <1>2, <1>3, <1>6, <3>1, Zenon
    <3>2. CASE Len(ips) # 1
      <4>1. Len(ips) \notin {1, 2}
        BY <1>6, <3>2
      <4>2. QED
        BY <1>2, <1>6, <3>2, <4>1, Zenon
    <3>3. QED
      BY <3>1, <3>2, Zenon
  <2>3. f # Error => f = IF ips[1] \in V4 THEN "ipv4" ELSE "ipv6"
    BY <1>2, <1>6, <2>2, Zenon
  <2>4. QED
    BY <1>1, <1>6, <2>1, <2>2, <2>3, Zenon DEF IsFamilyOf
<1>7. QED
  BY <1>4, <1>5, <1>6, Zenon

\* ForAddresses and ForService, for lists of any length, and the family a session is
\* activated for.
THEOREM FamilyIsThatOfAddresses == Spec => []FamilyOfAddresses
<1>1. Inv => FamilyOfAddresses
  <2> SUFFICES ASSUME Inv PROVE FamilyOfAddresses
    OBVIOUS
  <2>1. ASSUME op = "neighbor", out # Error
        PROVE  out.unicast = IF in[1].address \in V4 THEN {"ipv4"} ELSE {"ipv6"}
    <3>1. PICK n \in Neighbor, asn \in RouterASN :
             in = <<n, asn>> /\ out = Converted(n, asn)
      BY <2>1, Zenon DEF Inv
    <3>2. in[1] = n
      BY <3>1
    <3>3. PICK frr : frr = NeighborToFRR(n) /\ frr # Error /\ out = Session(frr, asn)
      <4>1. NeighborToFRR(n) # Error /\ out = Session(NeighborToFRR(n), asn)
        <5>1. Converted(n, asn) # Error
          BY <2>1, <3>1, Zenon
        <5>2. QED
          BY <3>1, <5>1, ConvertedSession, Zenon
      <4>2. QED
        BY <4>1, Zenon
    <3>4. QED
      BY <3>2, <3>3, NeighborSession, Zenon
  <2>2. ASSUME op = "addresses"
        PROVE  IsFamilyOf(out, in) /\ out = ForAddresses(Reverse(in))
    <3>1. in \in Addresses /\ out = ForAddresses(in)
      BY <2>2, Zenon DEF Inv
    <3>2. QED
      BY <3>1, ListAssumption, FamilyOfList, FamilyOfReverse, Zenon
  <2>3. ASSUME op = "service"
        PROVE  IsFamilyOf(out, IF in[1] = <<>> THEN <<in[2]>> ELSE in[1])
    <3>1. PICK ips \in Addresses, ip \in V4 \cup V6 \cup {None} :
             in = <<ips, ip>> /\ out = ForService([clusterIPs |-> ips, clusterIP |-> ip])
      BY <2>3, Zenon DEF Inv
    <3>2. in[1] = ips /\ in[2] = ip
      BY <3>1
    <3>3. out = ForAddresses(IF ips = <<>> THEN <<ip>> ELSE ips)
      BY <3>1 DEF ForService
    <3>4. <<ip>> \in Seq(ToSet(<<ip>>))
      BY DEF ToSet
    <3>5. IsFamilyOf(ForAddresses(ips), ips) /\ IsFamilyOf(ForAddresses(<<ip>>), <<ip>>)
      BY <3>4, ListAssumption, FamilyOfList, Zenon
    <3>6. QED
      BY <3>2, <3>3, <3>5, Zenon
  <2>4. QED
    BY <2>1, <2>2, <2>3, Zenon DEF FamilyOfAddresses
<1>2. QED
  BY <1>1, Invariance, PTL

-----------------------------------------------------------------------------
\* The two ends of a veth are different addresses of the pool.
LEMMA VethEnds ==
    ASSUME NEW pool \in Nat, NEW i \in Nat, VethIPs(pool, i) # None
    PROVE  VethIPs(pool, i).host \in Nat /\ VethIPs(pool, i).pe \in Nat
           /\ VethIPs(pool, i).host # VethIPs(pool, i).pe
<1>1. None \notin Nat
  BY ErrorAssumption, Zenon
<1>2. PESide(pool) # None /\ HostSide(pool, i) # None
      /\ VethIPs(pool, i) = [host |-> HostSide(pool, i), pe |-> PESide(pool)]
  BY Zenon DEF VethIPs
<1>3. PESide(pool) = 0 /\ HostSide(pool, i) = i + 1
  BY <1>2, Zenon DEF PESide, HostSide, CidrHost
<1>4. QED
  BY <1>2, <1>3

\* The list of results is made of the results, when there is no error among them.
LEMMA FRRVNIs ==
    ASSUME NEW vs, NEW i, EachOf(LAMBDA v : VniToFRR(v, i), vs) # Error
    PROVE  /\ EachOf(LAMBDA v : VniToFRR(v, i), vs) = [j \in DOMAIN vs |-> VniToFRR(vs[j], i)]
           /\ \A j \in DOMAIN vs : VethIPs(vs[j].pool, i) # None
<1>1. \A j \in DOMAIN vs : VniToFRR(vs[j], i) # Error
  BY DEF EachOf
<1>2. EachOf(LAMBDA v : VniToFRR(v, i), vs) = [j \in DOMAIN vs |-> VniToFRR(vs[j], i)]
  BY DEF EachOf
<1>3. QED
  BY <1>1, <1>2, Zenon DEF VniToFRR

\* What the host is given for a VNI whose veth has its addresses.
Leg(v, i, vtep) == [vrf |-> v.vrf, vni |-> v.vni, vtep |-> vtep,
                    host |-> VethIPs(v.pool, i).host, pe |-> VethIPs(v.pool, i).pe]

\* When FRR's conversion succeeds, this is the host's.
LEMMA HostResult ==
    ASSUME NEW i \in Index, NEW us \in Underlays, NEW vs \in VNIs, APItoFRR(i, us, vs) # Error,
           NEW vtep, vtep = VTEPIp(us[1].pool, i),
           NEW legs, legs = [j \in DOMAIN vs |-> Leg(vs[j], i, vtep)]
    PROVE  /\ vtep # None /\ \A j \in DOMAIN vs : VethIPs(vs[j].pool, i) # None
           /\ APItoFRR(i, us, vs).vtep = vtep
           /\ APItoFRR(i, us, vs).vnis = [j \in DOMAIN vs |-> VniToFRR(vs[j], i)]
           /\ APItoHostConfig(i, us, vs) = [nic |-> us[1].nic, vtep |-> vtep, vnis |-> legs]
           /\ APItoHostConfig(i, us, vs) # Error
<1>1. vtep = VTEPIp(us[1].pool, i)
  OBVIOUS
<1>2. PICK configs : configs = EachOf(LAMBDA v : VniToFRR(v, i), vs)
  BY Zenon
<1>3. PICK neighbors : neighbors = EachOf(NeighborToFRR, us[1].neighbors)
  OBVIOUS
<1>4. /\ Len(us) = 1 /\ vs # <<>> /\ vtep # None /\ configs # Error
      /\ APItoFRR(i, us, vs) = [asn |-> us[1].asn, vtep |-> vtep, neighbors |-> neighbors, vnis |-> configs]
  BY <1>1, <1>2, <1>3 DEF APItoFRR
<1>5. /\ configs = [j \in DOMAIN vs |-> VniToFRR(vs[j], i)]
      /\ \A j \in DOMAIN vs : VethIPs(vs[j].pool, i) # None
  BY <1>2, <1>4, FRRVNIs, Zenon
<1>6. i \in Nat /\ vs \in Seq(ToSet(vs)) /\ us \in Seq(ToSet(us))
      /\ (\A v \in ToSet(vs) : v.pool \in Nat) /\ \A u \in ToSet(us) : u.pool \in Nat
  BY ListAssumption, Zenon
<1>7. \A j \in DOMAIN vs : vs[j] \in ToSet(vs)
  BY Zenon DEF ToSet
<1>8. us[1] \in ToSet(us)
  <2>1. 1 \in DOMAIN us
    BY <1>4, <1>6
  <2>2. QED
    BY <2>1, Zenon DEF ToSet
<1>9. vtep \in Nat
  BY <1>1, <1>4, <1>6, Zenon DEF VTEPIp, CidrHost
<1>10. \A j \in DOMAIN vs : Leg(vs[j], i, vtep) \in VNIParams(vs)
  <2> SUFFICES ASSUME NEW j \in DOMAIN vs PROVE Leg(vs[j], i, vtep) \in VNIParams(vs)
    OBVIOUS
  <2>1. VethIPs(vs[j].pool, i).host \in Nat /\ VethIPs(vs[j].pool, i).pe \in Nat
    BY <1>5, <1>6, <1>7, VethEnds, Zenon
  <2>2. vs[j].vrf \in {v.vrf : v \in ToSet(vs)} /\ vs[j].vni \in {v.vni : v \in ToSet(vs)}
    BY <1>7, Zenon
  <2>3. QED
    BY <1>9, <2>1, <2>2 DEF Leg, VNIParams
<1>11. legs = [j \in DOMAIN vs |-> Leg(vs[j], i, vtep)]
  OBVIOUS
<1>12. legs \in Seq(VNIParams(vs))
  <2>1. DOMAIN vs = 1..Len(vs) /\ Len(vs) \in Nat
    BY <1>6
  <2>2. legs \in [1..Len(vs) -> VNIParams(vs)]
    BY <1>10, <1>11, <2>1, Zenon
  <2>3. QED
    BY <2>1, <2>2
<1>13. Error \notin VNIParams(vs) \cup Seq(VNIParams(vs))
                    \cup [nic : {u.nic : u \in ToSet(us)}, vtep : Nat, vnis : Seq(VNIParams(vs))]
  BY ErrorAssumption, Zenon
<1>14. APItoHostConfig(i, us, vs) = [nic |-> us[1].nic, vtep |-> vtep, vnis |-> legs]
  <2> DEFINE Params(v) == LET veths == VethIPs(v.pool, i)
                          IN  IF veths = None THEN Error
                              ELSE [vrf |-> v.vrf, vni |-> v.vni, vtep |-> vtep,
                                    host |-> veths.host, pe |-> veths.pe]
  <2>1. \A j \in DOMAIN vs : Params(vs[j]) = Leg(vs[j], i, vtep)
    BY <1>5, Zenon DEF Leg
  <2>2. \A j \in DOMAIN vs : Params(vs[j]) # Error
    BY <1>10, <1>13, <2>1, Zenon
  <2>3. EachOf(Params, vs) = legs
    <3> HIDE DEF Params
    <3>1. EachOf(Params, vs) = [j \in DOMAIN vs |-> Params(vs[j])]
      BY <2>2 DEF EachOf
    <3>2. QED
      BY <1>11, <2>1, <3>1
  <2>4. legs # Error
    BY <1>12, <1>13, Zenon
  <2>5. us # <<>> /\ ~(Len(us) > 1)
    <3>1. Len(us) = 1 /\ Len(<<>>) = 0
      BY <1>4, Zenon
    <3>2. QED
      BY ONLY <3>1
  <2>6. APItoHostConfig(i, us, vs) =
           IF Len(us) > 1 THEN Error
           ELSE IF us = <<>> \/ vs = <<>> THEN NoParams
           ELSE IF vtep = None \/ EachOf(Params, vs) = Error THEN Error
           ELSE [nic |-> us[1].nic, vtep |-> vtep, vnis |-> EachOf(Params, vs)]
    BY <1>1 DEF APItoHostConfig, EachOf
  <2>7. QED
    <3> HIDE DEF Params
    <3> QED
      BY <1>4, <2>3, <2>4, <2>5, <2>6, Zenon
<1>15. APItoHostConfig(i, us, vs) # Error
  <2>1. us[1].nic \in {u.nic : u \in ToSet(us)}
    BY <1>8, Zenon
  <2>2. [nic |-> us[1].nic, vtep |-> vtep, vnis |-> legs]
           \in [nic : {u.nic : u \in ToSet(us)}, vtep : Nat, vnis : Seq(VNIParams(vs))]
    BY <1>9, <1>12, <2>1
  <2>3. QED
    BY <1>13, <1>14, <2>2, Zenon
<1>16. APItoFRR(i, us, vs).vtep = vtep /\ APItoFRR(i, us, vs).vnis = configs
  BY <1>4
<1>17. QED
  BY <1>1, <1>4, <1>5, <1>11, <1>14, <1>15, <1>16, Zenon

\* APItoFRR and APItoHostConfig agree, for any lists, pools and positions: whenever
\* FRR has been given a configuration, the host can be given one that fits it.
THEOREM HostFollowsFRR == Spec => []ConversionsAgree
<1>1. Inv => ConversionsAgree
  <2> SUFFICES ASSUME Inv, op = "api", out.frr # Error
               PROVE  /\ out.host # Error /\ out.host # NoParams
                      /\ out.host.vtep = out.frr.vtep
                      /\ Len(out.host.vnis) = Len(out.frr.vnis)
                      /\ \A j \in DOMAIN out.frr.vnis :
                            LET f == out.frr.vnis[j]
                                h == out.host.vnis[j]
                            IN  /\ f.vrf = h.vrf /\ f.vni = h.vni /\ h.vtep = out.frr.vtep
                                /\ f.neighbor = h.host /\ f.advertise = {h.host} /\ h.host # h.pe
    BY Zenon DEF ConversionsAgree
  <2>1. PICK i \in Index, us \in Underlays, vs \in VNIs :
           out = [frr |-> APItoFRR(i, us, vs), host |-> APItoHostConfig(i, us, vs)]
    BY Zenon DEF Inv
  <2>2. out.frr = APItoFRR(i, us, vs) /\ out.host = APItoHostConfig(i, us, vs)
    BY <2>1
  <2>3. PICK vtep, legs : vtep = VTEPIp(us[1].pool, i) /\ legs = [j \in DOMAIN vs |-> Leg(vs[j], i, vtep)]
    BY Zenon
  <2>4. /\ vtep # None /\ \A j \in DOMAIN vs : VethIPs(vs[j].pool, i) # None
        /\ out.frr.vtep = vtep
        /\ out.frr.vnis = [j \in DOMAIN vs |-> VniToFRR(vs[j], i)]
        /\ out.host = [nic |-> us[1].nic, vtep |-> vtep, vnis |-> legs]
        /\ out.host # Error
    <3>1. APItoFRR(i, us, vs) # Error
      BY <2>2, Zenon
    <3>2. /\ vtep # None /\ \A j \in DOMAIN vs : VethIPs(vs[j].pool, i) # None
          /\ APItoFRR(i, us, vs).vtep = vtep
          /\ APItoFRR(i, us, vs).vnis = [j \in DOMAIN vs |-> VniToFRR(vs[j], i)]
          /\ APItoHostConfig(i, us, vs) = [nic |-> us[1].nic, vtep |-> vtep, vnis |-> legs]
          /\ APItoHostConfig(i, us, vs) # Error
      BY <2>3, <3>1, HostResult
    <3>3. QED
      BY <2>2, <3>2, Zenon
  <2>5. out.host.vtep = vtep /\ out.host.vnis = legs
    BY <2>4
  <2>6. out.host # NoParams
    BY <2>4, <2>5 DEF NoParams
  <2>7. i \in Nat /\ vs \in Seq(ToSet(vs)) /\ \A v \in ToSet(vs) : v.pool \in Nat
    BY ListAssumption, Zenon
  <2>8. Len(out.host.vnis) = Len(out.frr.vnis)
    <3>1. DOMAIN vs = 1..Len(vs) /\ Len(vs) \in Nat
      BY <2>7
    <3>2. Len(legs) = Len(vs)
      BY <2>3, <3>1
    <3>3. Len([j \in DOMAIN vs |-> VniToFRR(vs[j], i)]) = Len(vs)
      BY <3>1
    <3>4. QED
      BY <2>4, <2>5, <3>2, <3>3, Zenon
  <2>9. ASSUME NEW j \in DOMAIN vs, NEW f, NEW h, f = VniToFRR(vs[j], i), h = Leg(vs[j], i, vtep)
        PROVE  /\ f.vrf = h.vrf /\ f.vni = h.vni /\ h.vtep = vtep
               /\ f.neighbor = h.host /\ f.advertise = {h.host} /\ h.host # h.pe
    <3>1. PICK veths : veths = VethIPs(vs[j].pool, i)
      OBVIOUS
    <3>2. f = [vrf |-> vs[j].vrf, vni |-> vs[j].vni, neighbor |-> veths.host, advertise |-> {veths.host}]
      BY <2>4, <2>9, <3>1, Zenon DEF VniToFRR
    <3>3. h = [vrf |-> vs[j].vrf, vni |-> vs[j].vni, vtep |-> vtep, host |-> veths.host, pe |-> veths.pe]
      BY <2>9, <3>1, Zenon DEF Leg
    <3>4. vs[j].pool \in Nat
      BY <2>7, Zenon DEF ToSet
    <3>5. veths.host # veths.pe
      BY <2>4, <2>7, <3>1, <3>4, VethEnds, Zenon
    <3>6. QED
      BY <3>2, <3>3, <3>5
  <2>10. DOMAIN out.frr.vnis = DOMAIN vs
         /\ \A j \in DOMAIN vs : out.frr.vnis[j] = VniToFRR(vs[j], i) /\ out.host.vnis[j] = Leg(vs[j], i, vtep)
    BY <2>3, <2>4, <2>5, Zenon
  <2>11. ASSUME NEW j \in DOMAIN out.frr.vnis
         PROVE  LET f == out.frr.vnis[j]
                    h == out.host.vnis[j]
                IN  /\ f.vrf = h.vrf /\ f.vni = h.vni /\ h.vtep = out.frr.vtep
                    /\ f.neighbor = h.host /\ f.advertise = {h.host} /\ h.host # h.pe
    <3>1. PICK f, h : f = out.frr.vnis[j] /\ h = out.host.vnis[j]
      OBVIOUS
    <3>2. j \in DOMAIN vs /\ f = VniToFRR(vs[j], i) /\ h = Leg(vs[j], i, vtep)
      BY <2>10, <3>1, Zenon
    <3>3. /\ f.vrf = h.vrf /\ f.vni = h.vni /\ h.vtep = vtep
          /\ f.neighbor = h.host /\ f.advertise = {h.host} /\ h.host # h.pe
      BY <2>9, <3>2
    <3>4. out.frr.vtep = vtep
      BY <2>4, Zenon
    <3>5. QED
      BY <3>1, <3>3, <3>4
  <2>12. QED
    BY <2>4, <2>5, <2>6, <2>8, <2>11, Zenon
<1>2. QED
  BY <1>1, Invariance, PTL

=============================================================================
