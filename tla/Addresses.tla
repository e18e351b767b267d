------------------------------ MODULE Addresses ------------------------------
(***************************************************************************)
(* The address rules of policy.rs, identity.rs and config.rs.  An address  *)
(* is the sequence of its octets, four of them for IPv4 and sixteen for    *)
(* IPv6; a network is [base, length]; a socket address is [ip, port,       *)
(* scope], the scope being zero for IPv4.                                  *)
(***************************************************************************)
EXTENDS Naturals, Sequences

Octet == 0..255

IpAddress == [1..4 -> Octet] \cup [1..16 -> Octet]

IsV4(a) == Len(a) = 4

Zeros(n) == [i \in 1..n |-> 0]

MappedPrefix == Zeros(10) \o <<255, 255>>

WellKnownPrefix == <<0, 100, 255, 155>> \o Zeros(8)

is_mapped(a) == ~IsV4(a) /\ SubSeq(a, 1, 12) = MappedPrefix

\* Mutant of canonical: the spelling is kept.
AsGiven(a) == a

\* Only the mapped form has an IPv4 identity; the compatible form has not.
canonical(a) == IF is_mapped(a) THEN SubSeq(a, 13, 16) ELSE a

is_unspecified(a) == a = Zeros(Len(a))

is_multicast_v6(a) == a[1] = 255

\* fe80::/10 and the deprecated fec0::/10 are adjacent.
is_scoped_unicast(a) == a[1] = 254 /\ a[2] \div 64 \in {2, 3}

is_unicast_v4(a) == a[1] # 0 /\ a[1] < 224

is_attachable(a) ==
    IF IsV4(a) THEN is_unicast_v4(a)
    ELSE ~is_unspecified(a) /\ ~is_multicast_v6(a) /\ ~is_scoped_unicast(a)

is_concrete_unicast(sa) ==
    LET a == canonical(sa.ip)
    IN  IF IsV4(a) THEN is_unicast_v4(a)
        ELSE ~is_unspecified(a) /\ ~is_multicast_v6(a)

is_bindable_listener(sa) ==
    LET a == canonical(sa.ip)
    IN  IF IsV4(a) THEN is_unspecified(a) \/ is_unicast_v4(a)
        ELSE ~is_multicast_v6(a) /\ (is_scoped_unicast(a) => sa.scope # 0)

\* Mutant of is_proxy_endpoint: the spellings are compared.
SameSpelling(sa, endpoint) == sa.port = endpoint.port /\ sa.ip = endpoint.ip

is_proxy_endpoint(sa, endpoint) ==
    /\ sa.port = endpoint.port
    /\ \/ canonical(sa.ip) = canonical(endpoint.ip)
       \/ is_unspecified(canonical(endpoint.ip))

------------------------------------------------------------------------------
\* Both sides shifted right by width - length, octet by octet.
prefix_matches(address, network, length) ==
    \A i \in 1..Len(address) :
        LET Kept(octet) == IF length >= 8 * i THEN octet
                           ELSE IF length <= 8 * (i - 1) THEN 0
                           ELSE octet \div 2^(8 * i - length)
        IN  Kept(address[i]) = Kept(network[i])

\* External: IpNet::contains of the ipnet crate.
NetContains(network, a) ==
    Len(network.base) = Len(a) /\ prefix_matches(a, network.base, network.length)

\* External: Ipv6Addr::to_ipv4, the mapped and the compatible form.
HasIpv4(a) == SubSeq(a, 1, 12) \in {MappedPrefix, Zeros(12)}

is_well_known_nat64(a) == SubSeq(a, 1, 12) = WellKnownPrefix

\* Mutant of extract_rfc6052_ipv4: the reserved octet is not skipped.
NoReservedOctet(a, length) == SubSeq(a, length \div 8 + 1, length \div 8 + 4)

\* The octet numbered 9 is reserved.
extract_rfc6052_ipv4(a, length) ==
    LET At(i, j, k, l) == <<a[i], a[j], a[k], a[l]>>
    IN  CASE length = 32 -> At(5, 6, 7, 8)
          [] length = 40 -> At(6, 7, 8, 10)
          [] length = 48 -> At(7, 8, 10, 11)
          [] length = 56 -> At(8, 10, 11, 12)
          [] length = 64 -> At(10, 11, 12, 13)
          [] length = 96 -> At(13, 14, 15, 16)

\* Mutant of translated_ipv4: only the shortest matching prefix is decoded.
ShortestPrefixOnly(a, prefixes) ==
    LET hit == {p \in prefixes : NetContains(p, a)}
    IN  IF HasIpv4(a) \/ is_well_known_nat64(a) THEN {SubSeq(a, 13, 16)}
        ELSE {extract_rfc6052_ipv4(a, p.length) : p \in {q \in hit : \A h \in hit : q.length <= h.length}}

\* The IPv4 addresses the predicate of translated_ipv4_matches is asked about.
\* None: the address is native, and the code's answer is `None`.
translated_ipv4(a, prefixes) ==
    IF HasIpv4(a) THEN {SubSeq(a, 13, 16)}
    ELSE IF is_well_known_nat64(a) THEN {extract_rfc6052_ipv4(a, 96)}
    ELSE {extract_rfc6052_ipv4(a, p.length) : p \in {q \in prefixes : NetContains(q, a)}}

address_matches_network(network, a, prefixes) ==
    \/ NetContains(network, a)
    \/ ~IsV4(a) /\ \E e \in translated_ipv4(a, prefixes) : NetContains(network, e)

address_matches_networks(networks, a, prefixes) ==
    \E n \in networks : address_matches_network(n, a, prefixes)

------------------------------------------------------------------------------
Net4(a, b, c, d, length) == [base |-> <<a, b, c, d>>, length |-> length]

Net6(head, length) == [base |-> head \o Zeros(16 - Len(head)), length |-> length]

FORBIDDEN_V4_PREFIXES ==
    { Net4(0, 0, 0, 0, 8),      Net4(10, 0, 0, 0, 8),     Net4(100, 64, 0, 0, 10),
      Net4(127, 0, 0, 0, 8),    Net4(168, 63, 129, 16, 32), Net4(169, 254, 0, 0, 16),
      Net4(172, 16, 0, 0, 12),  Net4(192, 0, 0, 0, 24),   Net4(192, 0, 2, 0, 24),
      Net4(192, 88, 99, 0, 24), Net4(192, 168, 0, 0, 16), Net4(198, 18, 0, 0, 15),
      Net4(198, 51, 100, 0, 24), Net4(203, 0, 113, 0, 24), Net4(224, 0, 0, 0, 3) }

FORBIDDEN_V6_PREFIXES ==
    { Net6(<<32, 1>>, 23), Net6(<<32, 1, 13, 184>>, 32), Net6(<<32, 2>>, 16), Net6(<<63, 255>>, 20) }

forbidden_v4(a) == \E n \in FORBIDDEN_V4_PREFIXES : prefix_matches(a, n.base, n.length)

forbidden_v6(a) ==
    \/ ~prefix_matches(a, <<32>> \o Zeros(15), 3)
    \/ \E n \in FORBIDDEN_V6_PREFIXES : prefix_matches(a, n.base, n.length)

is_forbidden_destination(a, prefixes) ==
    IF IsV4(a) THEN forbidden_v4(a)
    ELSE LET embedded == translated_ipv4(a, prefixes)
         IN  IF embedded = {} THEN forbidden_v6(a) ELSE \E e \in embedded : forbidden_v4(e)

\* A policy grants and denies networks: [allowed_networks, denied_networks].
allows_ip(policy, a, prefixes) ==
    /\ ~address_matches_networks(policy.denied_networks, a, prefixes)
    /\ \/ \E n \in policy.allowed_networks : NetContains(n, a)
       \/ ~is_forbidden_destination(a, prefixes)

allows_ip_literal(policy, a, prefixes) ==
    /\ ~address_matches_networks(policy.denied_networks, a, prefixes)
    /\ \E n \in policy.allowed_networks : NetContains(n, a)

==============================================================================
