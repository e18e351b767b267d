# A TLA+ verification of sandbox-egress

sandbox-egress is a shared CONNECT egress proxy for short-lived sandboxes. A
synchronous host attaches one lease per peer address, and later closes it and
receives a certificate: the lease's final usage, after which nothing of the
lease runs. This directory models that system in TLA+, model-checks the models
with TLC and proves the central claims with TLAPS.

## The system and its parts

- **Handles** (`Proxy`, `Lease`, proxy.rs 69-388). Host threads call `attach`,
  `close`, `shutdown`, or drop a handle. Each call sends a command on an
  unbounded channel and waits for a reply.
- **Listener owner** (`run_proxy`, 785-995). One task owns the listener, the
  registry from identity to lease, and the accept backoff. It serves commands,
  retries and accepts in a biased select.
- **Lease state** (429-590). Phase, revocation generation, permits, task
  tracker, cancellation token and usage counters, shared by all of the others.
- **Connection tasks** (`dispatch`, `serve_connect`, 703-753 and 1085-1219). One
  for each admitted socket: header, DNS, dial, optional ClientHello, tunnel.
- **Close waiters and reapers** (1009-1065). They wait for a lease's tasks, then
  for a quiet period with an empty accept queue, then quiesce the lease.
- **Startup** (`start_inner`, 69-125, and the head of `run_proxy`). The caller
  validates a configuration, starts the runtime thread and waits for its message.
- **Policy** (policy.rs), **header parser** (connect.rs), **ClientHello
  inspection** (tls.rs), **peer identity** (identity.rs), **configuration**
  (config.rs), **resolver** (resolver.rs). Which requests, answers and peers are
  accepted.
- **Attempt rates** (rate.rs), **diagnostics** (diagnostic.rs), **usage**
  (usage.rs), errors, and the command line program.

A connection is followed by four modules that share its stages. `ProxyRuntime`
has it as one task of a lease. `Handshake` has its waits and deadlines, and takes
which addresses are approved as data. `Destination` decides that approval.
`Preamble` reads its bytes up to the tunnel, and `Tunnel` meters them after.

## Modules

| module | models | state and actions |
|---|---|---|
| `LeaseState` | `LeaseState`, `Admission`, `Counters` | operators on lease records, one per critical section |
| `AcceptBackoff` | `AcceptBackoff` | operators on the backoff record |
| `ProxyRuntime` | handles, listener owner, dispatch, waiters, reapers | the composition: host threads, one owner, any number of tasks |
| `LeaseContract` | abstract specification | what the API promises of one lease: grant, admit, deny, finish, revoke, freeze, close |
| `TokenBucket` | rate.rs | the arithmetic of `try_take`, saturation included |
| `AttemptRate` | `allows_connection_attempt` | attempts, revocations, time, observation windows |
| `Diagnostics` | diagnostic.rs | concurrent reporters, rate window, bounded channel, host receiver |
| `Handshake` | `serve_connect` to the open tunnel | connections with deadlines that share DNS and dial permits |
| `Tunnel` | `Metered`, copy loop, idle watcher, ClientHello reading | bytes of one connection in both directions |
| `HostNames`, `Addresses` | names and patterns; special-purpose prefixes, embedded IPv4 addresses, networks, canonical form | operators |
| `ConnectRequest` | `parse_connect`, `validate_host_header` | operators on a tokenised request, one per check |
| `Destination` | policy.rs, `resolve_addresses`, `collect_addresses` | builder calls, then requests and DNS answers |
| `ClientHello` | the byte-level half of tls.rs | operators: records to message, walk over the extensions |
| `Preamble` | `read_bounded_header`, `read_connect_header`, `read_client_hello`, `inspect_tls_tunnel` | reads of any size from one peer |
| `Startup` | config.rs, `start_inner`, `run_proxy` until it serves, identity.rs | setters, two threads and a channel, attachments |
| `EarlyReturn` | a sequence of `?` | the first check that fails |
| `Clock` | `Instant::now` | the time of `AttemptRate`, `Diagnostics`, `Handshake` and `Tunnel` |
| `CertificateProofs`, `OwnershipProofs`, `PermitProofs`, `GrantProofs`, `ContractProofs` | | theorems about `ProxyRuntime`, each module on those before it |
| `HandshakeProofs` | | theorems about `Handshake` and `Preamble` |
| `DestinationProofs` | | theorems about `Destination` and its operators |
| `LimitProofs` | | theorems about `Tunnel`, `AttemptRate`, `Startup` and `Diagnostics` |

`MC*.tla` instantiate these for TLC. In every module an operator marked
"Mutant of X" is a wrong version of X; no action uses it. `PROJECT.json` names
for each property a mutant that breaks it, and the source lines of each
definition.

### ProxyRuntime

A step ends where another thread can come in between and make a difference: at
locks, channel operations and awaits. Where the code has two such points and no
other step can tell them apart, they are one step: `begin_close` and the
cancellation after it; the checks of `dispatch` before the permits; `quiesce`
and the reply that follows. `Shutdown` visits leases in any order, as the
iteration of a hash map does.

- A lease is a number of the lease sequence. `handle[l]` is the progress of the
  thread that owns it, `waiter[<<l, n>>]` the waiter of its n-th close and
  `waiter[<<l, 0>>]` its reaper.
- `loop` is the control point of `run_proxy`, with the command in service, how
  many sockets the present drain has taken and the leases a shutdown has still
  to reach.
- `conn[c]` is a socket: away, queued, in dispatch, serving, denied, finished
  (counted out but tracked) or gone. What a connection does while it serves is
  the subject of `Handshake` and `Tunnel`; here it may count a denial and end at
  any time, and it must end once cancelled.
- History fields: `born` (the lease sequence when the socket was queued), `late`
  (queued when its lease was already revoked) and `quiet` (no refusal since the
  waiter read the generation). They guard nothing.

Assumptions about code outside the repository. The command channel is FIFO; a
semaphore gives permits in order; a tracker is done when it is closed and empty;
`poll_accept` returning `Pending` means the queue is empty. The last one is what
`drain_ready` (763) relies on, too. When the runtime is dropped, a task's global
permit is dropped after its admission; nothing observes the difference.

### Handshake and Tunnel

`Handshake` keeps every await of `serve_connect`: entering a wait checks its
deadline (`complete_before_deadline`), a wait that is ready wins over a timer
that is late, and a cancellation may come at each. Which hosts and addresses a
policy allows is data (`LiteralOk`, `AnswerOk`, `Answers`), and so is the
canonical form of an address. The history variable `late` records that the clock
has passed the deadline of a dial attempt: a late timer takes time from the
attempts that follow, so only the dial share looks at it.

`Tunnel` follows an upload from the bytes behind the header through the
ClientHello into the copy loop. The content of a ClientHello is a free choice
between accepted, rejected and incomplete. `copy_bidirectional` is external: it
reads into a bounded buffer, writes what it has read and ends when both
directions have.

### Destination, Preamble and Startup

`Destination` builds a policy with builder calls in any order, errors included,
and then serves requests under it. An IP address is the sequence of its octets,
and each prefix test is the code's. Texts are sequences over a few characters; a
one-character text may stand for an IP literal (`Literal`). httparse's tokens and
the pieces http's `Authority` returns are the fields of a request.

`Preamble` and `ClientHello` work on bytes. A read takes any part of what has
arrived, up to the buffer and the ceiling, so a read may end anywhere and may take
tunnel bytes together with the header. rustls is external: it accepts the message
once it has all of it, and names the SNI. An input with a valid hello also says
where its records, fields and extensions end, and `HelloAssumption` says that the
bytes are laid out in that way, as TLS demands; no action looks at these places.
`HelloPrefix` stands for the 34 bytes of
version and random, which nothing looks into.

`Startup` keeps both threads: each of building the runtime, the resolver, the
socket and its address may fail, and the thread may die before it has sent its
message. Durations are milliseconds, `MaxTimeout` the longest an `Instant` can
add.

## Runs

| run | questions | bounds |
|---|---|---|
| `MCHandoff` | certificates, permits, exclusive identities, sockets that could cross from one lease to the next | two leases, two sockets of one address, batch 1 |
| `MCStopping` | attachments, drops and timeouts that race shutdown | two leases, one socket, two identities, one with two spellings, two shutdowns |
| `MCLimits` | permits, rate refusals, exhausted generation, retried close | one lease, two sockets, two closes, generation limit 1 |
| `MCAnswers` | liveness of attach, accept, proxy drop and lease drop; refinement of `LeaseContract` | one lease, one socket, one close, one shutdown, one listener error |
| `MCCommitted` | what the documentation says of a committed certificate; violated, see Findings | one lease, one shutdown |
| `MCAttemptRate` | burst and rate over every window, order of the two buckets | two leases, six instants |
| `MCDiagnostics` | no denial lost or counted twice | two reporters, six reports, channel of 1 |
| `MCHandshake` | permits, deadlines, division of the dial budget; every handshake and every cancelled connection ends | two connections, one permit of each kind, two distinct addresses |
| `MCTunnel` | limits, usage, idle watcher | limits 0, 3 and none; buffer of 2 |
| `MCDestination` | denials and the special-purpose floor hold in every spelling of an address, whole answers, names by labels, Host header | four scenarios, up to four builder calls |
| `MCPreamble` | header boundary, forwarded bytes, verdict independent of the reads | every text of 8 bytes over CR, LF and a letter; 36-byte hellos in up to three records |
| `MCStartup` | start returns; a failure leaves nothing; a started proxy is sound; one lease per host | three setter calls, values on both sides of each limit |

The bounds are the smallest that make the cases happen. Two leases are needed
for an identity to change hands; two sockets for one to be refused while another
is served; a batch of 1 makes every non-empty drain a full one; a generation
limit of 1 overflows on the second refusal. Bounds that exist only in the models
(`MaxCloses`, `MaxShutdowns`, `MaxAcceptErrors`, `MaxReports`, `MaxTime`,
`LastAccept`, `Silence`, `MaxBytes`, `MaxBuffered`) are guards of the
environment's actions. Symmetry over sockets is used where they all have the
same address and no liveness is checked. Two NAT64
prefixes overlap so that an address embeds more than one IPv4 address; header
texts are one byte longer than the header limit, so that a delimiter may cross
it. Deadlock is checked in every `ProxyRuntime` run and for `AttemptRate` and
`Destination`. It is not in the runs of `Diagnostics`, `Handshake`, `Tunnel`,
`Preamble` and `Startup`, which end when every report, connection or start has
and the clock has run out.

## Fairness

Weak fairness stands for a scheduler that runs what can run and timers that
fire. In `ProxyRuntime` it is on the listener owner, the calling threads' next
steps, waiters and reapers, cancellation of a task, and its two release steps. It
is not on peers connecting, on callers starting a call or on a connection ending
by itself, nor on the listener failing. `WaiterDeadline` has none either: waiters
may always be slow.
In `Handshake` it is on the clock, the first run of a task, the grant of a free
permit, timeouts and cancellation; peers, DNS and destinations owe nothing. In
`Tunnel` it is on the clock, the watcher and the steps before the copy loop. In
`Startup` it is on the two threads, which the system schedules; not on the calls
of the host, nor on a panic.

## Proofs

| theorem | statement |
|---|---|
| `TypeCorrect` | `Spec => []TypeOK` for `ProxyRuntime` |
| `CertificateInvariant` | `Spec => []CertInv` |
| `CertifiedQuiescence` | `Spec => []CertifiedQuiescent` |
| `CertificateIsFinal` | `Spec => []CertificateFinal` |
| `OwnershipInvariant` | `Spec => []OwnInv` |
| `IdentitiesAreExclusive` | `Spec => []ExclusiveIdentity` |
| `ExitsAreObserved` | `Spec => []ExitIsObserved` |
| `StoppingIsIrreversible` | `Spec => StoppingIsFinal` |
| `PermitInvariant`, `PermitsAreConserved` | `Spec => []PermitInv`, `Spec => []PermitsConserved` |
| `QuietInvariant`, `QuiescedAfterQuiet` | `Spec => []QuietInv`, `Spec => QuietBeforeQuiesced` |
| `StopInvariant`, `ShutdownIsComplete` | `Spec => []StopInv`, `Spec => []ShutdownCertifies` |
| `GrantInvariant` | `Spec => []GrantInv` |
| `RuntimeKeepsContract` | `Spec => KeepsContract`: `ProxyRuntime` implements `LeaseContract` |
| `BornInvariant`, `NothingInherited` | `Spec => []BornInv`, `Spec => []NoInheritedSocket` |
| `RateInvariant` | `RateSpec => [](TypeOK /\ WindowInv)` for `AttemptRate` |
| `WindowBounded` | `RateSpec => []WindowBound` |
| `RefusalsPostponeNothing` | `RateSpec => RefusalPostponesNothing` |
| `GlobalSpendsOnlyOnAllowed` | `RateSpec => []GlobalSpendsOnAllowed` |
| `DialInvariant` | `Spec => []DialInv` for `Handshake` |
| `HandshakeIsBounded` | `Spec => []HandshakeBounded` |
| `SharesAreFair` | `Spec => EveryAddressGetsItsShare` |
| `LineInvariant`, `PermitsAreFollowed` | `Spec => []LineInv`, `Spec => []PermitsFollowStages` |
| `PreambleInvariant` | `PreambleSpec => []PreambleInv` for `Preamble` |
| `BoundaryIsUnique` | `PreambleSpec => []OneBoundary` |
| `UploadIsInOrder` | `PreambleSpec => []ForwardedInOrder` |
| `VerdictIsByContent` | `PreambleSpec => []VerdictByContent` |
| `DestAlways` | `Spec => []DestInv` for `Destination` |
| `DenialCoversFormsHolds` | `Spec => []DenialCoversForms` |
| `FloorUnlessGrantedHolds` | `Spec => []FloorUnlessGranted` |
| `NeverItselfHolds` | `Spec => []NeverItself` |
| `WholeAnswerHolds` | `Spec => []WholeAnswer` |
| `RulesAsWrittenHolds` | `Spec => []RulesAsWritten` |
| `HostHeaderAgreesHolds` | `Spec => []HostHeaderAgrees` |
| `BytesInvariant`, `IdleInvariant` | `Spec => []BytesInv`, `Spec => []IdleInv` for `Tunnel` |
| `UsageCountsTraffic` | `Spec => []UsageIsTraffic` |
| `LimitsAreExact` | `Spec => []LimitIsExact` |
| `IdleDenialsAreJust` | `Spec => []IdleDenialIsJust` |
| `StartInvariant` | `StartupSpec => []StartInv` for `Startup` |
| `FailuresLeaveNothing` | `StartupSpec => []FailureLeavesNothing` |
| `StartedServes` | a started proxy is served, at the listener's address |
| `StartedProxiesAreSound` | `StartupSpec => []StartedIsSound` |
| `LeasesAreHosts` | `StartupSpec => []OneLeasePerHost` |
| `DenialInvariant` | `DiagnosticsSpec => []DenialInv` for `Diagnostics` |
| `EveryDenialIsAccounted` | `DiagnosticsSpec => []EveryDenialAccounted` |

They hold for every finite number of sockets and every number of leases, addresses,
limits and bounds. The
assumptions are `AddressAssumption`, `LimitAssumption`, `BoundAssumption` and
`FiniteAssumption` of `ProxyRuntime` (that "no identity" is not an identity
included), `GenerationAssumption` of `LeaseState`,
`ScaleAssumption` and `RateAssumption` of the rate modules, `TunnelAssumption`,
`StartupAssumption` and `TypeAssumption` of `Startup` (a port the system assigns is
not 0; arguments have their Rust types), `HandshakeAssumption`,
`PreambleAssumption` (a stream is a sequence of bytes, a policy has one of the three
TLS settings, and the comparison of a hello's SNI one of its four results),
`HelloAssumption` (the layout of a valid ClientHello) and `DiagnosticsAssumption`.
Of `Destination` they are `ScenarioAssumption` (requests, answers and configurations
have their Rust types, and NAT64 prefixes the lengths that `validate` lets pass),
`LiteralAssumption` (the character that stands for an IP literal is none of a host
name's) and `DestinationAssumption`. The last one leaves out the IPv4 addresses
0.0.0.1 to 0.0.0.255. Behind the prefix ::/64 the address 0.0.0.d is spelled with
d in the thirteenth octet and zeros elsewhere. That is also the IPv4-compatible
spelling of d.0.0.0, which is how the code reads it.

Seven loops of the code are recursive functions here: the removal of duplicate
addresses in `Handshake`, the two sums in the account of the denials, the split of a
name into labels, the binary search of the ports, the deframing of TLS records and
the walk over a hello's extensions. What the proofs need of them is proved for every
input. The library's induction takes the statement as a parameter, which the provers
cannot instantiate, so the proofs use a set instead: the inputs for which a statement
fails have a least one (`LeastIsMin`, `UpTo`), and it contradicts the recursion. That a
recursive function exists is shown in the same way (`LoopRuns`, `SumsExist`,
`SplitRuns`, `EchRuns`), or by naming it (`PortSearch`, `Deframed`).

**Certificates.** Neither property is inductive: that a final lease has no task
depends on how it became final. `CertInv` adds four facts. A task's tracker
token is in its lease's tracker while the task lives (`TrackInv`). The active
count is the number of tasks not yet counted out (`ActiveInv`). A final lease
has a closed and empty tracker (`FinalInv`). A waiter past its first wait, or
holding a final usage, belongs to a lease whose tracker is done (`WaiterInv`).
The proof divides the steps into calm ones, which change no task and move each
lease by one of the critical sections in `Kept`, admissions, and the steps of one
task. `SocketInv`, that a socket is in one place only, is proved first.

**Ownership.** `ExclusiveIdentity` could fail long after its cause: a release that
waits in the channel removes whatever its identity maps to when it is served, and
an attachment is installed a step after the registry was looked up. `OwnInv`
therefore says what every waiting command is entitled to (a release names a
closed lease, an attachment a number already given out, a shutdown without a
waiter comes from a dropped proxy), that the attachment in service still finds
its identity free, and that whoever is about to send a release has closed the
lease. It uses `CertInv` for the steps of tasks and waiters. The steps are grouped
by what they do to one part of the state: a handle, the channel, the command in
service, the registry.

**Permits.** `PermitsConserved` is nearly inductive. `PermitInv` adds that the
socket about to be admitted already holds its permit of the proxy, which
`DispatchAdmit` relies on when it makes it a task. It needs `CertInv`: a permit of a
lease is given back when its task leaves the tracker, and only `TrackInv` ties the
task to that lease.

**Quiet.** A waiter compares the generation it read before its quiet period with the
one after it, and the generation stops counting at its limit. `QuietInv` says that
what a waiter in its vigil has read is still evidence: either nothing was refused
since and the numbers agree, or they differ, or the number is the limit, with which
`GenerationUnchanged` never agrees. `Reading` is a fact about one lease and one
waiter, so a refusal, which touches all waiters of a lease, is one case.

**Shutdown.** A shutdown may time out, and the next one starts over a registry that
the first has partly emptied. `StopInv` follows the leases that the present attempt
has still to reach: any other that was granted is closed, and since the owner serves
no other command meanwhile, none is granted behind its back. A caller in its join has
seen the loop end, so the queue is gone, and with the last task the last permit
(`PermitInv`).

**The contract.** The refinement mapping reads a lease's stage from its phase once
it is granted, so a step on a lease that is not would be a step from "absent" that
the contract does not have. That this cannot happen depends on the attach commands:
`Attach` is requeued after a full batch, and a second copy could install or refuse
a lease whose caller has its answer. `GrantInv` says that an attachment is in the
channel or in service, once, and that its caller waits (`TicketInv`); and that
only granted leases are registered, serve connections or leave the open phase.
Then every step is grouped by what the contract sees: a grant (`AttachInstall`,
whose identity is free by `OwnInv`), a certificate delivered (`CloseCommit` and the
collection after an error, final by `CertInv`), the revocation of all leases by a
shutdown, a change of one lease, or nothing.

**Sockets between leases.** That an admitted socket was queued after its lease was
created is a fact about the drain before the installation. `BornInv` carries it from
there: a socket in the queue or in dispatch is younger than the lease its address
maps to, and while an attachment is about to be installed every queued socket is
younger than it, because the drain found the queue empty and what comes later is
younger. For the other half, once a waiter's drain was answered
(`Drained`) only sockets that came after the revocation are queued for its lease.

**Rates.** `WindowInv` says that what a bucket has given out since a mark, with
what it still holds, is at most its burst and the refill since the mark.

**Dialling.** `DialInv` says that the present wait ends within the handshake, and
that after a dial attempt's deadline there is a share left for each address
behind it. Unless a timer was late the next attempt starts no later than that
deadline, so dividing what is left among those that remain gives at least the
share again.

**Lines.** Permits are granted in order from a queue which a timeout or a cancellation
may leave from the middle. `LineInv` says that each line has no socket twice and that
holders and waiters are exactly the connections in the two stages of its kind. The
lemmas before it say what joining a line, leaving it and granting to its head do.

**Headers and first bytes.** The framer looks only at new bytes and three old ones,
and the read that completes the header may bring bytes of the tunnel. `PreambleInv`
says which part of the peer's stream each buffer holds, that no delimiter ends in
what was scanned without success, and that a found end belongs to the first
delimiter of the stream. A delimiter of a prefix is a delimiter of the stream
(`SameDelimiters`), so the scan that starts three bytes back misses none (`Found`), and a
part of the header that was already a whole request would have had the delimiter
earlier (`NoShorterRequest`). The upload then is a slice of the stream, and each read
extends it at its end (`Extended`).

**ClientHellos.** `VerdictByContent` compares what the code finds in the bytes it was
fed with the layout that the input was made from. The deframing stops after the
last record and returns the message (`Deframed`): after k records it has the bytes of
the message that these carry (`Carried`, `ReadOne`), and no earlier record completes
it. The walk reads one extension at a time, so what is left begins at the next place of
the layout, and it finds ECH where one of the extensions left is ECH (`EchStepIs`,
`EchFound`). `HelloIsRead` puts both together for every division into records.
`VerdictInv` adds to `PreambleInv` that the bytes fed are fewer than the hello needs until
the verdict falls and that the buffer never exceeds the ceiling. So a hello
is refused as too large only if it exceeds the ceiling, and one that is judged is
judged by its content, however the reads divide it (`FeedVerdict`).

**Destinations.** `DestInv` says by phase what a request has passed. Until a policy is
built nothing is decided. A name is looked up after the header, the port and the name
were accepted. Each approved socket comes from an address that crossed every check
(`Cleared`). A denial about ports or names was justified when it was made, under a
policy that has not changed since. From there each property is a fact about
operators. For the forms of an address, `FormsDecoded` says that `translated_ipv4` finds v
in each spelling of v: `ExtractEmbed` for the six prefix lengths, and `EmbedShadowed` for
an embedding that also reads as a mapped or compatible address. For whole answers,
taking one more than the ceiling tells whether there were too many (`Collected`), and
the loop ends well only if each address passes (`LoopPasses`). For the rules,
`SortedIs` and `PortSearch` say that the binary search finds exactly the ports that were
asked for. `SplitInjective` and `SplitAfter` say that a text is determined by its labels and
that a dot divides them, so matching a suffix behind a dot is matching the last labels
(`WildcardByLabels`). For the Host header, texts that `hosts_equivalent` accepts denote the
same destination (`EquivalentHosts`).

**Tunnels.** `BytesInv` says that meter and counter are one number from the first
count on, that it is what was forwarded and what waits, and that what passed the
check fits the limit. A transfer limit is noticed after the charge and before the
write, so only the tunnel that it ends has charged bytes that never wait.
`IdleInv` says that a watcher that has seen every change sleeps until the last
traffic plus the timeout.

**Startup.** `StartInv` pairs the positions of the two threads with the socket and
the message in the channel: a socket exists only between the bind and the end of
the thread, and a caller whose start failed has seen the thread end. `SoundInv` adds what
`validate` has let through: fifteen checks stand in a list and the first that fails
is the error, so `AllPass` says that no error means that each passed, and
`ValidIsUsable` reads off what that leaves. That no DNS server is the listener
itself is decided after the bind, when the port is known, on canonical addresses;
`ReachesIsEndpoint` says that comparing these is enough for every spelling. `HostInv`
says that the lease table holds the canonical form of each attached identity.

**Denials.** The account has four places: delivered, suppressed, in the channel and in
the hands of a task between the two locks. `EveryDenialAccounted` is inductive with
the types. What needs a proof is the sums: appending an event, taking the first
and changing the record of one task change them by that event or task alone
(`TotalOfLonger`, `TotalOfTail`, `TotalOfChanged`). Each action is then one line of
arithmetic (`AccountReported` to `AccountReceived`), in which only a saturated counter
turns an equation into an inequality.

Every invariant and action property that a passing run checks, and the refinement of
`LeaseContract`, is proved. Left to TLC are the liveness properties under fairness,
which the prover does not do: `AttachAnswered`, `QueuedIsTaken`, `DropStopsRuntime` and
`DroppedIsReleased` of the runtime, `HandshakeEnds`, `SilentTunnelEnds` and `StartReturns`.

## Findings

`MCCommitted` shows a close that fails although its certificate exists. The
close's waiter is in `drain_accept_queue` when a shutdown closes the lease and
the loop ends. The waiter then answers `Err(RuntimeStopped)`, and `Lease::close`
(371) passes it on without looking at the closed state, unlike its other error
paths (372-376). docs/architecture.md:84-85 says that "runtime loss alone cannot
hide an already-committed certificate". Nothing is lost: a second close of the
lease that the error returns does deliver the snapshot.

## Not modelled

- The command line program: it parses arguments and signals around one `Proxy`,
  and its calls are those of the handles.
- Formatting of errors and responses. Which error an operation returns is
  modelled.
- hickory-resolver (its queries, retries and cache), rustls, httparse, http's
  `Authority` and the prefix arithmetic of ipnet, beyond what the code uses of
  them.
- The saturation of the usage counters at 2^64 - 1, and a usage snapshot of a live
  lease, which is six separate loads and promises no consistency between them.
- A dropped lease whose reaper meets a listener error keeps its identity until
  shutdown. The repository's README calls drop best effort, so no property
  promises more.
- A crash of the whole process: nothing is persisted, so nothing is recovered.
