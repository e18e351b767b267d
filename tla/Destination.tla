----------------------------- MODULE Destination -----------------------------
(***************************************************************************)
(* A lease's policy from its builder (policy.rs) to the addresses that one *)
(* of its requests may dial (resolve_addresses of proxy.rs).  A caller     *)
(* makes builder calls in any order and freezes the policy; then requests  *)
(* arrive, each ends approved or denied, and the next one follows.  The    *)
(* waiting, the permits and the deadlines of the same code are the subject *)
(* of Handshake; here they only appear as a lookup that may fail.          *)
(*                                                                         *)
(* A scenario bounds the calls, requests and answers that meet:            *)
(*   [hosts, ports, networks, limits, timeouts, authorities, requests,     *)
(*    answers, configs]                                                    *)
(* and a configuration is [denied_networks, nat64_prefixes, bind_address,  *)
(* dns_address_family, max_resolved_addresses].                            *)
(***************************************************************************)
EXTENDS ConnectRequest, Addresses

CONSTANTS
    Scenarios,      \* a sequence of scenarios
    Destinations4,  \* IPv4 destinations whose spellings are followed
    Internal4,      \* those of them that are never public
    MaxCalls,       \* the builder calls a caller makes
    MaxPermits,     \* Semaphore::MAX_PERMITS
    MaxTimeout      \* the longest timeout an Instant can still add

\* ProxyConfig::validate lets no other length of a NAT64 prefix pass.
Nat64Prefix == [base : [1..16 -> Octet], length : {32, 40, 48, 56, 64, 96}]

SocketAddress == [ip : IpAddress, port : Nat, scope : Nat]

ConfigValue ==
    [denied_networks : SUBSET [base : IpAddress, length : 0..128],
     nat64_prefixes : SUBSET Nat64Prefix, bind_address : SocketAddress,
     dns_address_family : {"Both", "Ipv4Only", "Ipv6Only"}, max_resolved_addresses : Nat]

\* No character of a host name spells an address.
ASSUME LiteralAssumption ==
    /\ Literal \in [DOMAIN Literal -> IpAddress]
    /\ DOMAIN Literal \cap (Alphanumeric \cup {".", "-"}) = {}

ASSUME ScenarioAssumption ==
    \A k \in DOMAIN Scenarios :
        /\ Scenarios[k].hosts \subseteq Seq(Character) /\ Scenarios[k].ports \subseteq Nat
        /\ Scenarios[k].requests \subseteq RequestValue
        /\ Scenarios[k].answers \subseteq Seq(IpAddress)
        /\ Scenarios[k].configs \subseteq ConfigValue

\* No destination is in 0.0.0.0/24 but the unspecified address: behind a NAT64
\* prefix ::/64 such an address has the form of another one, d.0.0.0.
ASSUME DestinationAssumption ==
    /\ Destinations4 \subseteq [1..4 -> Octet]
    /\ \A v \in Destinations4 : v = Zeros(4) \/ SubSeq(v, 1, 3) # Zeros(3)
    /\ Internal4 \subseteq {v \in Destinations4 : forbidden_v4(v)}

VARIABLES phase, scenario, config, builder, calls, policy, request, hostname, answer, approved, denial

vars == <<phase, scenario, config, builder, calls, policy, request, hostname, answer, approved, denial>>

Given == Scenarios[scenario]

\* An Option is the set of its value.
DefaultPolicy ==
    [hosts |-> {}, denied_hosts |-> {}, ports |-> <<>>,
     allowed_networks |-> {}, denied_networks |-> {},
     max_connections |-> 64, connection_attempt_rate |-> {},
     dns_timeout |-> 3, handshake_timeout |-> 10, idle_timeout |-> {},
     max_tunnel_upload_bytes |-> {}, max_tunnel_download_bytes |-> {}, tls_authority |-> "disabled"]

NoRequest == <<>>

Init ==
    /\ scenario \in DOMAIN Scenarios
    /\ config \in Given.configs
    /\ phase = "building" /\ calls = 0
    /\ builder = DefaultPolicy /\ policy = DefaultPolicy
    /\ request = NoRequest /\ hostname = NoName /\ answer = <<>> /\ approved = <<>> /\ denial = OK

------------------------------------------------------------------------------
Called(b) ==
    /\ phase = "building" /\ calls < MaxCalls
    /\ calls' = calls + 1
    /\ builder' = b
    /\ UNCHANGED <<phase, scenario, config, policy, request, hostname, answer, approved, denial>>

\* A failing call consumes the builder.
CallFails(error) ==
    /\ phase = "building" /\ calls < MaxCalls
    /\ phase' = "rejected" /\ denial' = error
    /\ UNCHANGED <<scenario, config, builder, calls, policy, request, hostname, answer, approved>>

allow_host(text) ==
    LET pattern == HostPattern_parse(text)
    IN  IF pattern.name = NoName THEN CallFails("InvalidHostPattern")
        ELSE Called([builder EXCEPT !.hosts = @ \cup {pattern}])

deny_host(text) ==
    LET pattern == HostPattern_parse(text)
    IN  IF pattern.name = NoName THEN CallFails("InvalidHostPattern")
        ELSE Called([builder EXCEPT !.denied_hosts = @ \cup {pattern}])

allow_port(port) == Called([builder EXCEPT !.ports = Append(@, port)])

allow_network(n) == Called([builder EXCEPT !.allowed_networks = @ \cup {n}])

deny_network(n) == Called([builder EXCEPT !.denied_networks = @ \cup {n}])

max_connections(max) ==
    IF max = 0 THEN CallFails("ZeroConnectionLimit")
    ELSE IF max > MaxPermits THEN CallFails("ConnectionLimitTooLarge")
    ELSE Called([builder EXCEPT !.max_connections = max])

connection_attempt_rate(rate, burst) ==
    IF 0 \in {rate, burst} THEN CallFails("ZeroConnectionAttemptRate")
    ELSE Called([builder EXCEPT !.connection_attempt_rate = {<<rate, burst>>}])

dns_timeout(t) == Called([builder EXCEPT !.dns_timeout = t])

handshake_timeout(t) == Called([builder EXCEPT !.handshake_timeout = t])

idle_timeout(t) == Called([builder EXCEPT !.idle_timeout = {t}])

max_tunnel_upload_bytes(n) == Called([builder EXCEPT !.max_tunnel_upload_bytes = {n}])

max_tunnel_download_bytes(n) == Called([builder EXCEPT !.max_tunnel_download_bytes = {n}])

\* require_tls_sni is the call with "reject-ech".
tls_authority(authority) == Called([builder EXCEPT !.tls_authority = authority])

build_error(b) ==
    FirstError(<<
      <<0 \in Range(b.ports), "InvalidPort">>,
      <<0 \in {b.dns_timeout, b.handshake_timeout} \cup b.idle_timeout, "ZeroTimeout">>,
      <<b.dns_timeout > b.handshake_timeout, "DnsTimeoutExceedsHandshake">>,
      <<b.handshake_timeout > MaxTimeout, "TimeoutTooLarge">>,
      <<\E t \in b.idle_timeout : t > MaxTimeout, "TimeoutTooLarge">> >>)

\* sort_unstable and dedup.
SortedDistinct(numbers) ==
    CHOOSE s \in [1..Cardinality(numbers) -> numbers] :
        Range(s) = numbers /\ \A i, j \in DOMAIN s : i < j => s[i] < s[j]

\* The sets of the other rules have no order to lose.
Frozen(b) == [b EXCEPT !.ports = SortedDistinct(Range(b.ports))]

build ==
    /\ phase = "building"
    /\ IF build_error(builder) = OK
       THEN phase' = "ready" /\ policy' = Frozen(builder) /\ UNCHANGED denial
       ELSE phase' = "rejected" /\ denial' = build_error(builder) /\ UNCHANGED policy
    /\ calls' = 0
    /\ UNCHANGED <<scenario, config, builder, request, hostname, answer, approved>>

\* The caller begins again with a new builder.
Retry ==
    /\ phase = "rejected"
    /\ phase' = "building" /\ calls' = 0 /\ builder' = DefaultPolicy /\ denial' = OK
    /\ UNCHANGED <<scenario, config, policy, request, hostname, answer, approved>>

------------------------------------------------------------------------------
\* slice::binary_search, which is only specified for a sorted slice.
allows_port(p, port) ==
    LET n == Len(p.ports)
        search[w \in (1..(n + 1)) \X (0..n)] ==
            LET mid == (w[1] + w[2]) \div 2
            IN  IF w[1] > w[2] THEN FALSE
                ELSE IF p.ports[mid] = port THEN TRUE
                ELSE IF p.ports[mid] < port THEN search[<<mid + 1, w[2]>>]
                ELSE search[<<w[1], mid - 1>>]
    IN  search[<<1, n>>]

Port(r) == CHOOSE p \in decimal_port(r.target) : TRUE

Socket(ip, port) == [ip |-> canonical(ip), port |-> port, scope |-> 0]

\* The checks every address crosses before the lease's own rules.
NetworkDenied(c, ip) ==
    <<address_matches_networks(c.denied_networks, ip, c.nat64_prefixes), "proxy-network-denied">>

EndpointDenied(c, ip, port) ==
    <<is_proxy_endpoint(Socket(ip, port), c.bind_address), "proxy-endpoint-denied">>

literal_denial(c, p, ip, port) ==
    FirstError(<<NetworkDenied(c, ip), EndpointDenied(c, ip, port),
                 <<~allows_ip_literal(p, ip, c.nat64_prefixes), "ip-literal-denied">> >>)

resolved_denial(c, p, ip, port) ==
    FirstError(<<NetworkDenied(c, ip), EndpointDenied(c, ip, port),
                 <<~allows_ip(p, ip, c.nat64_prefixes), "resolved-address-denied">> >>)

name_denial(p, host) ==
    FirstError(<< <<canonical_hostname(host) = NoName, "invalid-hostname">>,
                  <<~allows_hostname(p, canonical_hostname(host)), "host-denied">> >>)

Deny(reason) ==
    /\ phase' = "denied" /\ denial' = reason
    /\ UNCHANGED <<hostname, approved>>

\* serve_connect from the parsed header to the lookup: nothing in it waits.
Connect(r) ==
    /\ phase = "ready"
    /\ request' = r
    /\ LET ip      == parse_ip(r.target.host)
           literal == literal_denial(config, policy, ip, Port(r))
           name    == name_denial(policy, r.target.host)
       IN  \/ parse_connect(r) # OK /\ Deny(parse_connect(r))
           \/ /\ parse_connect(r) = OK
              /\ \/ ~allows_port(policy, Port(r)) /\ Deny("port-denied")
                 \/ /\ allows_port(policy, Port(r)) /\ ip # NoIp
                    /\ IF literal # OK THEN Deny(literal)
                       ELSE phase' = "approved" /\ approved' = <<Socket(ip, Port(r))>>
                            /\ UNCHANGED <<hostname, denial>>
                 \/ /\ allows_port(policy, Port(r)) /\ ip = NoIp
                    /\ IF name # OK THEN Deny(name)
                       ELSE phase' = "lookup" /\ hostname' = canonical_hostname(r.target.host)
                            /\ UNCHANGED <<approved, denial>>
    /\ UNCHANGED <<scenario, config, builder, calls, policy, answer>>

------------------------------------------------------------------------------
InFamily(family, ip) ==
    \/ family = "Both"
    \/ family = "Ipv4Only" /\ IsV4(ip)
    \/ family = "Ipv6Only" /\ ~IsV4(ip)

\* The elements of s at some of its places, in order.
At(s, places) == LET order == SortedDistinct(places) IN [k \in DOMAIN order |-> s[order[k]]]

OfFamily(family, addresses) == At(addresses, {i \in DOMAIN addresses : InFamily(family, addresses[i])})

Take(s, n) == IF Len(s) <= n THEN s ELSE SubSeq(s, 1, n)

\* Mutant of collect_addresses: no more than the ceiling is kept.
StopsAtCeiling(c, addresses) == Take(OfFamily(c.dns_address_family, addresses), c.max_resolved_addresses)

\* One more than the ceiling is kept, so that the excess is still seen.
collect_addresses(c, addresses) == Take(OfFamily(c.dns_address_family, addresses), c.max_resolved_addresses + 1)

\* The loop over the answer stops at the first address that is denied.
answer_denial(c, p, addresses, port) ==
    FirstError([i \in DOMAIN addresses |->
                  LET reason == resolved_denial(c, p, addresses[i], port) IN <<reason # OK, reason>>])

\* `seen` and `approved`: the first spelling of an address is the one kept.
distinct_sockets(addresses, port) ==
    LET sockets == [i \in DOMAIN addresses |-> Socket(addresses[i], port)]
    IN  At(sockets, {i \in DOMAIN sockets : \A j \in 1..(i - 1) : sockets[j] # sockets[i]})

\* What an answer is denied for, in the order of the checks.
lookup_denial(c, p, kept, port) ==
    FirstError(<< <<kept = <<>>, "dns-empty">>,
                  <<Len(kept) > c.max_resolved_addresses, "dns-answer-too-large">>,
                  <<answer_denial(c, p, kept, port) # OK, answer_denial(c, p, kept, port)>> >>)

Answer(addresses) ==
    /\ phase = "lookup"
    /\ answer' = addresses
    /\ LET kept   == collect_addresses(config, addresses)
           reason == lookup_denial(config, policy, kept, Port(request))
       IN  IF reason # OK THEN Deny(reason)
           ELSE phase' = "approved" /\ approved' = distinct_sockets(kept, Port(request))
                /\ UNCHANGED <<hostname, denial>>
    /\ UNCHANGED <<scenario, config, builder, calls, policy, request>>

\* A resolver error, a timeout, or no permit in time.
LookupFails ==
    /\ phase = "lookup"
    /\ \E reason \in {"dns-failed", "dns-timeout", "dns-capacity"} : Deny(reason)
    /\ UNCHANGED <<scenario, config, builder, calls, policy, request, answer>>

NextConnection ==
    /\ phase \in {"approved", "denied"}
    /\ phase' = "ready" /\ request' = NoRequest /\ hostname' = NoName
    /\ answer' = <<>> /\ approved' = <<>> /\ denial' = OK
    /\ UNCHANGED <<scenario, config, builder, calls, policy>>

Next ==
    \/ \E t \in Given.hosts : allow_host(t) \/ deny_host(t)
    \/ \E p \in Given.ports : allow_port(p)
    \/ \E n \in Given.networks : allow_network(n) \/ deny_network(n)
    \/ \E n \in Given.limits : \/ max_connections(n) \/ connection_attempt_rate(n, 1)
                           \/ max_tunnel_upload_bytes(n) \/ max_tunnel_download_bytes(n)
    \/ \E t \in Given.timeouts : dns_timeout(t) \/ handshake_timeout(t) \/ idle_timeout(t)
    \/ \E a \in Given.authorities : tls_authority(a)
    \/ build \/ Retry
    \/ \E r \in Given.requests : Connect(r)
    \/ \E a \in Given.answers : Answer(a)
    \/ LookupFails \/ NextConnection

Spec == Init /\ [][Next]_vars

------------------------------------------------------------------------------
\* The IPv6 address in which RFC 6052 places v behind the prefix p.
Embed(p, v) ==
    LET head == p.length \div 8
        nth(i) == i - head - (IF head < 9 /\ i > 9 THEN 1 ELSE 0)
    IN  [i \in 1..16 |-> IF i <= head THEN p.base[i]
                          ELSE IF i # 9 /\ nth(i) <= 4 THEN v[nth(i)] ELSE 0]

\* Every address that reaches the IPv4 destination v on this host.
Forms(prefixes, v) ==
    {v} \cup {prefix \o v : prefix \in {MappedPrefix, Zeros(12), WellKnownPrefix}}
        \cup {Embed(p, v) : p \in prefixes}

\* A denied IPv4 network, of the lease or of the proxy, is never dialled: not
\* natively and in no mapped, compatible or NAT64 form, whether the address came
\* as a literal or in an answer, and whatever networks the lease was granted
\* (address_matches_networks in resolve_addresses and allows_ip).
DenialCoversForms ==
    \A i \in DOMAIN approved, v \in Destinations4 :
        (\E n \in config.denied_networks \cup policy.denied_networks : NetContains(n, v))
            => approved[i].ip \notin Forms(config.nat64_prefixes, v)

\* An internal IPv4 destination is dialled, in any form, only through a network
\* the policy grants by name (is_forbidden_destination behind allows_ip).
FloorUnlessGranted ==
    \A i \in DOMAIN approved, v \in Internal4 :
        approved[i].ip \in Forms(config.nat64_prefixes, v)
            => \E n \in policy.allowed_networks, a \in {approved[i].ip, MappedPrefix \o approved[i].ip} :
                  NetContains(n, a)

\* No request is dialled back into the proxy's own listener, whichever of the
\* two was spelled as IPv4-mapped, and on a wildcard listener's port nothing is
\* dialled at all (is_proxy_endpoint before the grants).
NeverItself ==
    \A i \in DOMAIN approved :
        approved[i].port = config.bind_address.port =>
            /\ config.bind_address.ip \notin {Zeros(4), Zeros(16), MappedPrefix \o Zeros(4)}
            /\ config.bind_address.ip \notin {approved[i].ip, MappedPrefix \o approved[i].ip}

\* An answer is approved as a whole or not at all, on the complete list of its
\* family although only a part of it is collected: every address passes, none
\* is left out, and an answer over the ceiling is never cut to fit it.
WholeAnswer ==
    (answer # <<>> /\ phase \in {"approved", "denied"}) =>
        LET all == OfFamily(config.dns_address_family, answer)
        IN  /\ (phase = "approved") =
                  /\ Len(all) \in 1..config.max_resolved_addresses
                  /\ \A i \in DOMAIN all : resolved_denial(config, policy, all[i], Port(request)) = OK
            /\ phase = "approved" =>
                  /\ Range(approved) = {Socket(all[i], Port(request)) : i \in DOMAIN all}
                  /\ Len(approved) = Cardinality(Range(approved))

\* A pattern read label by label.
LabelsMatch(pattern, name) ==
    LET suffix == Split(pattern.name)
        labels == Split(name)
    IN  IF pattern.subdomains THEN Len(labels) > Len(suffix) /\ ends_with(labels, suffix)
        ELSE labels = suffix

\* A name is looked up exactly when a granted pattern covers its labels and no
\* denied one does, whatever the case and the final dot of its spelling; what
\* is looked up is that name in its one canonical spelling, and never an IP
\* literal (HostPattern::matches, canonical_hostname).
NamesByLabels ==
    LET host == request.target.host
        name == to_ascii_lowercase(SubSeq(host, 1, IF host[Len(host)] = "." THEN Len(host) - 1 ELSE Len(host)))
        granted == /\ \E p \in policy.hosts : LabelsMatch(p, name)
                   /\ ~\E p \in policy.denied_hosts : LabelsMatch(p, name)
    IN  /\ hostname # NoName => /\ granted /\ hostname = name
                                /\ canonical_hostname(hostname) = hostname
        /\ denial = "host-denied" => ~granted

\* A port is open exactly when some allow_port call named it, in whatever order
\* and however often the calls were made (allows_port searches a sorted list).
PortsAsAsked ==
    /\ phase \in {"lookup", "approved"} => Port(request) \in Range(builder.ports)
    /\ denial = "port-denied" => Port(request) \notin Range(builder.ports)

\* A request passes the name and port rules exactly when the rules, as the caller
\* wrote them, cover it.
RulesAsWritten == NamesByLabels /\ PortsAsAsked

\* What a text denotes: an address, or a name in its canonical spelling.
Denotes(text) == <<parse_ip(text), canonical_hostname(text)>>

\* A request goes on to a lookup or a dial only if the Host header, which an
\* HTTP/1.1 request has exactly once, denotes the very destination and port
\* that CONNECT names (validate_host_header against canonical_hostname).
HostHeaderAgrees ==
    phase \in {"lookup", "approved"} =>
        /\ Len(request.hosts) = 1 \/ (request.version = 0 /\ request.hosts = <<>>)
        /\ \A i \in DOMAIN request.hosts :
              /\ Denotes(request.hosts[i].host) = Denotes(request.target.host)
              /\ decimal_port(request.hosts[i]) \subseteq {Port(request)}

==============================================================================
