------------------------------- MODULE Startup -------------------------------
(***************************************************************************)
(* From ProxyConfig's setters to a running proxy (config.rs, start_inner   *)
(* and the head of run_proxy in proxy.rs, build_system_resolver) and the   *)
(* identities it lets attach (identity.rs).  The caller waits for a        *)
(* message of the runtime thread on the `ready` channel; on a failure it   *)
(* joins the thread before it returns.                                     *)
(***************************************************************************)
EXTENDS Addresses, EarlyReturn

CONSTANTS
    Settings,       \* what the setters may be called with, by field
    DnsServers, Nat64Prefixes, Networks,
    Ports,          \* ports the system assigns when asked for port zero
    Identities,     \* source addresses a host may attach
    MaxCalls,       \* setter calls
    MaxDnsServers,  \* MAX_DNS_SERVERS
    MaxPermits,     \* Semaphore::MAX_PERMITS
    MaxTimeout      \* the longest duration an Instant can still add

ASSUME StartupAssumption == 0 \notin Ports /\ Ports # {} /\ MaxTimeout >= 10000

\* SocketAddr
SocketAddress == [ip : IpAddress, port : Nat, scope : Nat]

\* Rust's types of the arguments, as far as a check depends on them.
ASSUME TypeAssumption ==
    /\ \A field \in DOMAIN Settings : \A value \in Settings[field] :
          /\ field \notin {"dns_servers", "nat64_prefixes", "denied_networks"}
          /\ field = "bind_address" => value \in SocketAddress
          /\ field = "header_timeout" => value \in Nat
          /\ field = "connection_attempt_rate" => value \subseteq Nat \X Nat
    /\ DnsServers \subseteq SocketAddress /\ Identities \subseteq IpAddress
    /\ Ports \subseteq Nat /\ MaxPermits \in Nat

VARIABLES
    config, calls,      \* the configuration so far, and the setter calls made
    caller, thread,     \* where start_inner and the runtime thread are
    error,              \* the error start returns
    ready,              \* the message in the `ready` channel, if any: a Result,
                        \* the set of its endpoint, {} for an Err
    listener,           \* the bound socket, if any
    endpoint,           \* what start returned, if it succeeded
    leases,             \* the keys of the owner's lease table
    attached            \* the identities attached, as the callers spelled them

startupVars == <<config, calls, caller, thread, error, ready, listener, endpoint, leases, attached>>

None == {}

StartupInit ==
    /\ config = [bind_address |-> [ip |-> <<127, 0, 0, 1>>, port |-> 0, scope |-> 0],
                 max_connections |-> 256, max_concurrent_dns |-> 32, max_concurrent_dials |-> 256,
                 connection_attempt_rate |-> None, dns_cache |-> <<0, 0>>, dns_servers |-> <<>>,
                 dns_address_family |-> "Both", max_resolved_addresses |-> 64,
                 max_header_bytes |-> 32768, max_client_hello_bytes |-> 65536,
                 nat64_prefixes |-> <<>>, denied_networks |-> <<>>,
                 header_timeout |-> 10000, identity_reuse_quiet_period |-> 25, diagnostics |-> None]
    /\ calls = 0 /\ caller = "building" /\ thread = "none"
    /\ error = None /\ ready = None /\ listener = None /\ endpoint = None /\ leases = {} /\ attached = {}

------------------------------------------------------------------------------
Configured(c) ==
    /\ caller = "building" /\ calls < MaxCalls
    /\ config' = c /\ calls' = calls + 1
    /\ UNCHANGED <<caller, error, thread, ready, listener, endpoint, leases, attached>>

\* The setters that store their argument.
with_setting(field, value) == Configured([config EXCEPT ![field] = value])

Insert(s, x) == IF x \in Range(s) THEN s ELSE Append(s, x)

with_dns_server(server) == Configured([config EXCEPT !.dns_servers = Insert(@, server)])

with_nat64_prefix(prefix) == Configured([config EXCEPT !.nat64_prefixes = Insert(@, prefix)])

with_denied_network(network) == Configured([config EXCEPT !.denied_networks = Insert(@, network)])

\* What validate refuses.
MaxEventRate == 10000
MaxAddresses == 1024
Capacities(c) == {c.max_connections, c.max_concurrent_dns, c.max_concurrent_dials}
BadCapacity(c) == ~(Capacities(c) \subseteq 1..MaxPermits)
BadAddresses(c) == c.max_resolved_addresses \notin 1..MaxAddresses
BadCeiling(c) == \E n \in {c.max_header_bytes, c.max_client_hello_bytes} : n < 1024 \/ n > 1048576
BadCache(c) == c.dns_cache[1] > 64 \/ c.dns_cache[2] > 86400
BadEventRate(c) == \E n \in c.diagnostics : n \notin 1..MaxEventRate
BadAttemptRate(c) == \E r \in c.connection_attempt_rate : 0 \in {r[1], r[2]}
BadPrefix(c) == \E p \in Range(c.nat64_prefixes) : p.length \notin {32, 40, 48, 56, 64, 96}
PortlessServer(c) == \E s \in Range(c.dns_servers) : s.port = 0
VagueServer(c) == \E s \in Range(c.dns_servers) : ~is_concrete_unicast(s)
ScopedServer(c) ==
    \E s \in Range(c.dns_servers) : ~IsV4(s.ip) /\ (s.scope # 0 \/ is_scoped_unicast(s.ip))

\* The checks of validate, in the code's order.
checks_of(c) ==
    << <<~is_bindable_listener(c.bind_address), "listener">>,
       <<BadCapacity(c), "capacities">>,
       <<BadAddresses(c), "resolved address ceiling">>,
       <<BadCeiling(c), "byte ceilings">>,
       <<BadCache(c), "DNS cache">>,
       <<BadEventRate(c), "diagnostic event rate">>,
       <<c.header_timeout = 0, "header timeout is zero">>,
       <<BadAttemptRate(c), "attempt rate">>,
       <<c.header_timeout > MaxTimeout, "header timeout too large">>,
       <<c.identity_reuse_quiet_period > MaxTimeout, "quiet period too large">>,
       <<BadPrefix(c), "NAT64 length">>,
       <<Len(c.dns_servers) > MaxDnsServers, "too many DNS servers">>,
       <<PortlessServer(c), "DNS server port">>,
       <<VagueServer(c), "DNS server not unicast">>,
       <<ScopedServer(c), "DNS server scoped">> >>

validate(c) == FirstError(checks_of(c))

\* The thread may also fail to spawn.
start ==
    /\ caller = "building"
    /\ \/ validate(config) = OK /\ caller' = "waiting" /\ thread' = "runtime"
          /\ UNCHANGED error
       \/ caller' = "failed" /\ error' = {"Initialization"} /\ UNCHANGED thread
    /\ UNCHANGED <<config, calls, ready, listener, endpoint, leases, attached>>

------------------------------------------------------------------------------
\* The runtime thread.  A failure is sent, and then the thread winds down.
SendsError == ready' = {{}} /\ thread' = "exiting"

CreateRuntime ==
    /\ thread = "runtime"
    /\ \/ thread' = "resolver" /\ UNCHANGED ready
       \/ SendsError
    /\ UNCHANGED <<config, calls, caller, error, listener, endpoint, leases, attached>>

BuildResolver ==
    /\ thread = "resolver"
    /\ \/ thread' = "bind" /\ UNCHANGED ready
       \/ SendsError
    /\ UNCHANGED <<config, calls, caller, error, listener, endpoint, leases, attached>>

Bind ==
    /\ thread = "bind"
    /\ \/ /\ \E p \in IF config.bind_address.port = 0 THEN Ports ELSE {config.bind_address.port} :
                listener' = {[config.bind_address EXCEPT !.port = p]}
          /\ thread' = "address" /\ UNCHANGED ready
       \/ SendsError /\ UNCHANGED listener
    /\ UNCHANGED <<config, calls, caller, error, endpoint, leases, attached>>

\* Mutant of BoundAddress: the configured address, whose port may be zero, is kept.
AsConfigured(bound) == config.bind_address

BoundAddress(bound) == bound

\* local_addr, the address frozen into the configuration, the check of the DNS
\* servers against it, and the message that the proxy is ready.
Announce ==
    /\ thread = "address"
    /\ \/ \E bound \in listener :
             /\ config' = [config EXCEPT !.bind_address = BoundAddress(bound)]
             /\ IF \E s \in Range(config.dns_servers) : is_proxy_endpoint(s, BoundAddress(bound))
                THEN SendsError
                ELSE ready' = {{bound}} /\ thread' = "serving"
       \/ SendsError /\ UNCHANGED config
    /\ UNCHANGED <<calls, caller, error, listener, endpoint, leases, attached>>

\* A panic before the message drops the sender.
Panic ==
    /\ thread \in {"runtime", "resolver", "bind", "address"}
    /\ thread' = "exiting"
    /\ UNCHANGED <<config, calls, caller, error, ready, listener, endpoint, leases, attached>>

\* The listener is dropped with the thread.
Exit ==
    /\ thread = "exiting"
    /\ thread' = "exited" /\ listener' = None
    /\ UNCHANGED <<config, calls, caller, error, ready, endpoint, leases, attached>>


------------------------------------------------------------------------------
Disconnected == ready = None /\ thread \in {"exiting", "exited"}

\* Mutant of Receive: a failed start returns without joining the thread.
ReturnsAtOnce ==
    /\ caller = "waiting"
    /\ ready # None \/ Disconnected
    /\ caller' = IF UNION ready # {} THEN "started" ELSE "failed"
    /\ endpoint' = UNION ready
    /\ error' = IF Disconnected THEN {"RuntimeStopped"} ELSE IF UNION ready # {} THEN None ELSE {"Initialization"}
    /\ ready' = None
    /\ UNCHANGED <<config, calls, thread, listener, leases, attached>>

\* Mutant of Receive: a sender dropped without a message is not noticed.
WaitsForMessage ==
    /\ caller = "waiting"
    /\ ready # None
    /\ caller' = IF UNION ready # {} THEN "started" ELSE "joining"
    /\ endpoint' = UNION ready
    /\ error' = IF Disconnected THEN {"RuntimeStopped"} ELSE IF UNION ready # {} THEN None ELSE {"Initialization"}
    /\ ready' = None
    /\ UNCHANGED <<config, calls, thread, listener, leases, attached>>

\* ready_rx.recv: the endpoint, a failure, or a sender that is gone.
Receive ==
    /\ caller = "waiting"
    /\ ready # None \/ Disconnected
    /\ caller' = IF UNION ready # {} THEN "started" ELSE "joining"
    /\ endpoint' = UNION ready
    /\ error' = IF Disconnected THEN {"RuntimeStopped"} ELSE IF UNION ready # {} THEN None ELSE {"Initialization"}
    /\ ready' = None
    /\ UNCHANGED <<config, calls, thread, listener, leases, attached>>

Join ==
    /\ caller = "joining" /\ thread = "exited"
    /\ caller' = "failed"
    /\ UNCHANGED <<config, calls, thread, error, ready, listener, endpoint, leases, attached>>

\* An identity that is not attachable, or whose key is taken, is refused.
attach(identity) ==
    /\ caller = "started"
    /\ is_attachable(canonical(identity)) /\ canonical(identity) \notin leases
    /\ leases' = leases \cup {canonical(identity)}
    /\ attached' = attached \cup {identity}
    /\ UNCHANGED <<config, calls, caller, error, thread, ready, listener, endpoint>>

------------------------------------------------------------------------------
Configure ==
    \/ \E field \in DOMAIN Settings : \E value \in Settings[field] : with_setting(field, value)
    \/ \E server \in DnsServers : with_dns_server(server)
    \/ \E prefix \in Nat64Prefixes : with_nat64_prefix(prefix)
    \/ \E network \in Networks : with_denied_network(network)

RuntimeStep == CreateRuntime \/ BuildResolver \/ Bind \/ Announce \/ Exit

CallerStep == Receive \/ Join

StartupNext ==
    \/ Configure \/ start \/ RuntimeStep \/ Panic \/ CallerStep
    \/ \E identity \in Identities : attach(identity)

\* Both threads are scheduled; no call is ever promised, nor any panic.
StartupSpec == StartupInit /\ [][StartupNext]_startupVars /\ WF_startupVars(RuntimeStep) /\ WF_startupVars(CallerStep)

------------------------------------------------------------------------------
\* When ProxyHandle::start returns an error, nothing of the attempt is left: no
\* thread runs and no listener holds its port (the joins of start_inner).
FailureLeavesNothing == caller = "failed" => thread \in {"none", "exited"} /\ listener = None

\* Two socket addresses a packet can tell apart from neither side: the ports
\* agree, and the hosts do, or the listener answers on every host address.
Reaches(server, l) ==
    /\ server.port = l.port
    /\ \/ server.ip = l.ip \/ server.ip = MappedPrefix \o l.ip \/ MappedPrefix \o server.ip = l.ip
       \/ l.ip \in {Zeros(4), Zeros(16), MappedPrefix \o Zeros(4)}

\* A started proxy listens where it says, at a port that was really assigned;
\* its DNS queries never go to its own listener, however either address is
\* spelled; and its configuration is one the data path can work with (the
\* permits, rates and ceilings are positive and every NAT64 prefix decodes).
StartedIsSound ==
    caller = "started" =>
        /\ thread = "serving" /\ endpoint = listener /\ endpoint = {config.bind_address}
        /\ \A l \in listener : l.port # 0 /\ \A s \in Range(config.dns_servers) : ~Reaches(s, l)
        /\ \A n \in Capacities(config) \cup {config.max_resolved_addresses, config.header_timeout} : n > 0
        /\ \A r \in config.connection_attempt_rate : r[1] > 0 /\ r[2] > 0
        /\ \A n \in config.diagnostics : n > 0
        /\ \A p \in Range(config.nat64_prefixes) : \E k \in 4..8 : p.length \in {8 * k, 96}

\* No two leases stand for one host: an address and its IPv4-mapped spelling
\* are one identity (PeerIdentity::canonical), and each attached identity is
\* found under whichever spelling a dual-stack listener reports.
OneLeasePerHost ==
    \A a \in attached :
        /\ MappedPrefix \o a \notin attached
        /\ \E k \in leases : a \in {k, MappedPrefix \o k} /\ SubSeq(k, 1, Len(k) - 4) # MappedPrefix

\* A call of start returns, whatever step of the startup fails and even when
\* the runtime thread dies without a word.
StartReturns == (caller = "waiting") ~> (caller \in {"started", "failed"})

==============================================================================
