---------------------------- MODULE MCDestination ----------------------------
(***************************************************************************)
(* Four scenarios of Destination: the builder's own errors, names and      *)
(* patterns, address rules, and the forms of a request.                    *)
(***************************************************************************)
EXTENDS Destination

V(d) == <<10, 0, 0, d>>
Public == <<9, 9, 9, 9>>
Wire == <<168, 63, 129, 16>>
Native6 == <<38, 6, 71, 0>> \o Zeros(12)
Local6 == <<252>> \o Zeros(15)
P96 == Net6(<<38, 1, 0, 100>>, 96)
P64 == Net6(<<38, 1, 0, 100>>, 64)
P40 == Net6(<<38, 1, 0>>, 40)

MCDestinations == {V(1), V(2), Public, Wire}
MCInternal == {V(1), V(2), Wire}

\* "4": an IPv4 literal, "6": its mapped spelling, "n": its well-known NAT64 form.
MCLiteral == [c \in {"4", "6", "n"} |->
                CASE c = "4" -> V(1) [] c = "6" -> MappedPrefix \o V(1) [] c = "n" -> WellKnownPrefix \o V(1)]

Authority(host, port) ==
    [userinfo |-> FALSE, wellformed |-> TRUE, host |-> host, port |-> port,
     bracketed |-> host \in {<<"6">>, <<"n">>}]

Decimal(n) == [spelling |-> "decimal", value |-> n]
NoPort(spelling) == [spelling |-> spelling, value |-> 0]

Request(host, port) ==
    [method |-> "CONNECT", version |-> 0, content |-> FALSE, target |-> Authority(host, Decimal(port)), hosts |-> <<>>]

Plain == [denied_networks |-> {}, nat64_prefixes |-> {}, dns_address_family |-> "Both",
          max_resolved_addresses |-> 2, bind_address |-> [ip |-> V(2), port |-> 80, scope |-> 0]]

Bare == [hosts |-> {}, ports |-> {80}, networks |-> {}, limits |-> {}, timeouts |-> {}, authorities |-> {},
         requests |-> {}, answers |-> {}, configs |-> {Plain}]

Builder ==
    [Bare EXCEPT !.ports = {0, 7, 80, 443}, !.limits = {0, 1, 9}, !.timeouts = {0, 2, 5, 20},
                 !.authorities = {"reject-ech", "allow-outer-sni"},
                 !.requests = {Request(<<"4">>, p) : p \in {7, 80, 443}}]

Names ==
    [Bare EXCEPT !.hosts = {<<"a">>, <<"b", ".", "A">>, <<"*", ".", "a">>, <<"*", ".", "b", ".", "a">>, <<"*">>},
                 !.requests = {Request(t, 80) : t \in
                                 UNION {[1..n -> {"a", "A", "b", "."}] : n \in 1..4}
                                 \cup {<<"a", "-">>, <<"-", ".", "a">>, <<"4", ".">>, <<"4">>, <<"b", "a", ".", "b", ".", "a">>}},
                 !.answers = {<<Public>>}]

Answers ==
    UNION {[1..n -> {V(1), MappedPrefix \o V(2), Public, MappedPrefix \o Public,
                     Zeros(12) \o V(1), Embed(P96, V(1)), Embed(P64, Wire), Embed(P40, Wire), Native6, Local6}] : n \in 1..2}
      \cup {<<Public, Public, V(1)>>, <<Native6, Public, Native6>>, <<Public, Native6, Public>>}

Addresses4And6 ==
    [Bare EXCEPT !.hosts = {<<"a">>},
                 !.networks = {Net4(10, 0, 0, 0, 8), Net4(10, 0, 0, 1, 32), Net6(<<38>>, 8), Net6(MappedPrefix, 96)},
                 !.requests = {Request(h, 80) : h \in {<<"4">>, <<"6">>, <<"n">>, <<"a">>}},
                 !.answers = Answers,
                 !.configs = { [Plain EXCEPT !.denied_networks = d, !.nat64_prefixes = p, !.bind_address = b,
                                             !.dns_address_family = f] :
                                 d \in {{}, {Net4(10, 0, 0, 2, 31)}}, p \in {{P96, P64, P40}},
                                 b \in {[ip |-> V(1), port |-> 80, scope |-> 0],
                                        [ip |-> MappedPrefix \o Public, port |-> 80, scope |-> 0],
                                        [ip |-> Zeros(16), port |-> 81, scope |-> 0],
                                        [ip |-> Zeros(16), port |-> 80, scope |-> 0]},
                                 f \in {"Both", "Ipv4Only", "Ipv6Only"} }]

HostValues ==
    {Authority(h, p) : h \in {<<"a">>, <<"A", ".">>, <<"b">>, <<"4">>, <<"6">>, <<"4", ".">>},
                       p \in {NoPort("absent"), NoPort("empty"), NoPort("invalid"), Decimal(80), Decimal(7)}}

Headers ==
    [Bare EXCEPT !.hosts = {<<"a">>}, !.networks = {Net4(10, 0, 0, 0, 8)}, !.answers = {<<Public>>},
                 !.requests = { [Request(t, 80) EXCEPT !.version = v, !.hosts = h] :
                                  t \in {<<"a">>, <<"A", ".">>, <<"4">>, <<"6">>}, v \in {0, 1},
                                  h \in {<<>>} \cup {<<x>> : x \in HostValues}
                                        \cup {<<Authority(<<"a">>, NoPort("absent")), x>> : x \in HostValues} }
                              \cup { [Request(<<"a">>, 80) EXCEPT !.method = "GET"],
                                     [Request(<<"a">>, 80) EXCEPT !.content = TRUE],
                                     [Request(<<"a">>, 80) EXCEPT !.target.userinfo = TRUE],
                                     [Request(<<"a">>, 80) EXCEPT !.target.wellformed = FALSE],
                                     [Request(<<"a">>, 80) EXCEPT !.target.bracketed = TRUE],
                                     [Request(<<"a">>, 80) EXCEPT !.target.port = NoPort("empty")],
                                     Request(<<>>, 80), Request(<<"a">>, 0) } ]

MCScenarios == <<Builder, Names, Addresses4And6, Headers>>

==============================================================================
