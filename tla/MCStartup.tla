------------------------------ MODULE MCStartup ------------------------------
(***************************************************************************)
(* Values on both sides of every limit that validate checks, listeners and *)
(* DNS servers in the spellings of one address, two ports the system may   *)
(* assign.  MAX_DNS_SERVERS is two, so that three calls exceed it.         *)
(***************************************************************************)
EXTENDS Startup

Socket(ip, port) == [ip |-> ip, port |-> port, scope |-> 0]

Host == <<10, 0, 0, 1>>
LinkLocal == <<254, 128>> \o Zeros(13) \o <<1>>
Global == <<32, 1>> \o Zeros(13) \o <<1>>

MCSettings ==
    [bind_address |-> {Socket(Host, 0), Socket(MappedPrefix \o Host, 53), Socket(Zeros(4), 0), Socket(Zeros(16), 53),
                       Socket(<<224, 0, 0, 1>>, 0), Socket(LinkLocal, 0), [Socket(LinkLocal, 0) EXCEPT !.scope = 2]},
     max_connections |-> {0, 1, 2049}, max_concurrent_dns |-> {0}, max_concurrent_dials |-> {0, 2048},
     connection_attempt_rate |-> {{<<0, 1>>}, {<<1, 0>>}, {<<1, 1>>}},
     dns_cache |-> {<<65, 0>>, <<64, 86400>>, <<1, 86401>>},
     dns_address_family |-> {"Ipv4Only"},
     max_resolved_addresses |-> {0, 1024, 1025},
     max_header_bytes |-> {1023, 1024}, max_client_hello_bytes |-> {1048576, 1048577},
     header_timeout |-> {0, 10001}, identity_reuse_quiet_period |-> {0, 10001},
     diagnostics |-> {{0}, {10000}, {10001}}]

MCDnsServers ==
    {Socket(Host, 53), Socket(MappedPrefix \o Host, 53), Socket(<<8, 8, 8, 8>>, 53), Socket(Global, 54),
     Socket(Host, 0), Socket(Zeros(4), 53), Socket(LinkLocal, 53)}

MCNat64Prefixes == {Net6(<<32, 1>>, 32), Net6(<<32, 1>>, 96), Net6(<<32, 1>>, 72)}

MCNetworks == {Net4(10, 0, 0, 0, 8)}

MCIdentities ==
    {Host, MappedPrefix \o Host, Global, Zeros(12) \o Host, Zeros(16), LinkLocal, <<0, 0, 0, 1>>,
     MappedPrefix \o <<224, 0, 0, 1>>}

==============================================================================
