------------------------------- MODULE Handshake ------------------------------
(***************************************************************************)
(* serve_connect and establish_tunnel: admitted connections of one lease   *)
(* read a CONNECT header, resolve and approve its destination, dial it and *)
(* open the tunnel, sharing the proxy's DNS and dial permits.  Every wait  *)
(* has a deadline within the handshake's, and the lease may be cancelled   *)
(* at any of them.                                                         *)
(***************************************************************************)
EXTENDS Clock, Integers, Sequences, FiniteSets, Functions

CONSTANTS
  Conns,
  Addresses,           \* destination addresses,
  Canonical,           \*   their canonical forms (IpAddr::to_canonical),
  LiteralOk,           \*   those a request may name as an IP literal,
  AnswerOk,            \*   and those a DNS answer may contain
  Answers,             \* the answers of the resolver, as sequences of addresses
  MaxResolved,         \* max_resolved_addresses
  MaxDns,              \* max_concurrent_dns
  MaxDials,            \* max_concurrent_dials
  HandshakeTimeouts,   \* Policy::handshake_timeout of the connections
  HeaderTimeout, DnsTimeout,
  MaxInstant,          \* the last representable instant
  LastAccept           \* bound: connections arrive until then

ASSUME HandshakeAssumption ==
  /\ Canonical \in [Addresses -> Addresses]
  /\ LiteralOk \subseteq Addresses /\ Answers \subseteq Seq(Addresses)
  /\ HandshakeTimeouts \subseteq Nat /\ HeaderTimeout \in Nat /\ DnsTimeout \in Nat
  /\ MaxDns \in Nat /\ MaxDials \in Nat /\ MaxInstant \in Nat /\ MaxTime \in Nat

VARIABLES
  cancelled,  \* the lease's cancellation token
  conn,       \* per connection: progress, handshake deadline, deadline of the
              \* present wait, addresses left to dial (the present one first),
              \* and history: the fair share of a dial
  permits,    \* holders of the DNS and of the dial permits
  queue,      \* waiters for them, in order (tokio's semaphore is fair)
  late        \* history: the clock has passed the deadline of a dial attempt

vars == <<now, cancelled, conn, permits, queue, late>>

Kinds == {"dns", "dial"}

Blank(at) ==
  [at |-> at, deadline |-> 0, until |-> 0, todo |-> <<>>, share |-> 0]

Init ==
  /\ now = 0 /\ cancelled = FALSE /\ late = FALSE
  /\ conn = [c \in Conns |-> Blank("away")]
  /\ permits = [k \in Kinds |-> {}] /\ queue = [k \in Kinds |-> <<>>]

\* The waits of a handshake, and what a task ends as.
Handshaking == {"header", "dnsWait", "lookup", "dialWait", "dial", "respond", "first"}

Ends == {"denied", "failed", "cancelled", "completed"}

Tick ==
  /\ Advance
  /\ late' = (late \/ \E c \in Conns : conn[c].at = "dial" /\ now >= conn[c].until)
  /\ UNCHANGED <<cancelled, conn, permits, queue>>

Cancel == ~cancelled /\ cancelled' = TRUE /\ UNCHANGED <<now, conn, permits, queue, late>>

Earlier(s, t) == IF s < t THEN s ELSE t

\* Instant::checked_add, with what the code falls back to.
AddOr(t, d, fallback) == IF t + d <= MaxInstant THEN t + d ELSE fallback

\* The line without c, whose place is given up wherever it is.
Without(line, c) ==
  LET at == CHOOSE i \in DOMAIN line : line[i] = c
  IN  IF c \in Range(line) THEN SubSeq(line, 1, at - 1) \o SubSeq(line, at + 1, Len(line)) ELSE line

\* c goes on as `record`, holding the permits and queue places named.
Go(c, record, held, queued) ==
  /\ conn' = [conn EXCEPT ![c] = record]
  /\ permits' = [k \in Kinds |-> IF k \in held THEN permits[k] \cup {c} ELSE permits[k] \ {c}]
  /\ queue' = [k \in Kinds |->
       IF k \in queued THEN Append(Without(queue[k], c), c) ELSE Without(queue[k], c)]

\* The denial is counted once and the task ends (deny, reject_without_response).
Deny(c) == Go(c, Blank("denied"), {}, {})

\* complete_before_deadline: a wait is entered only before its deadline.
Await(c, record, at, until, held, queued) ==
  IF now >= until THEN Deny(c)
  ELSE Go(c, [record EXCEPT !.at = at, !.until = until], held, queued)

\* The listener owner has admitted c; its task may first run later.  Until it
\* does, the record holds the timeout and the instant of acceptance.
Accept(c) ==
  /\ conn[c].at = "away" /\ ~cancelled /\ now <= LastAccept
  /\ \E h \in HandshakeTimeouts :
       conn' = [conn EXCEPT ![c] = [Blank("start") EXCEPT !.deadline = h, !.until = now]]
  /\ UNCHANGED <<now, cancelled, permits, queue, late>>

\* connection_deadlines: an unrepresentable handshake deadline is refused, an
\* unrepresentable header deadline falls back to it.
Start(c) ==
  /\ conn[c].at = "start"
  /\ LET accepted == conn[c].until
         deadline == accepted + conn[c].deadline
         header == Earlier(AddOr(accepted, HeaderTimeout, deadline), deadline)
     IN  IF deadline > MaxInstant THEN Deny(c)
         ELSE Await(c, [conn[c] EXCEPT !.deadline = deadline], "header", header, {}, {})
  /\ UNCHANGED <<now, cancelled, late>>

\* The approved addresses wait for a dial permit.
WantDial(c, approved) ==
  Await(c, [conn[c] EXCEPT !.todo = approved],
        "dialWait", conn[c].deadline, {}, {"dial"})

\* Mutant of DnsDeadline: the DNS timeout is not cut to the handshake's.
DnsDeadlineUncut(c) == AddOr(now, DnsTimeout, conn[c].deadline)

DnsDeadline(c) == Earlier(AddOr(now, DnsTimeout, conn[c].deadline), conn[c].deadline)

\* The header has been read: a bad or refused request, an IP literal, or a
\* hostname the policy allows.
Header(c) ==
  /\ conn[c].at = "header"
  /\ \/ Deny(c)
     \/ \E a \in LiteralOk : WantDial(c, <<Canonical[a]>>)
     \/ Await(c, conn[c], "dnsWait", DnsDeadline(c), {}, {"dns"})
  /\ UNCHANGED <<now, cancelled, late>>

\* A permit is free and c is first in line.
Granted(c, kind) ==
  /\ queue[kind] # <<>> /\ Head(queue[kind]) = c
  /\ Cardinality(permits[kind]) < (IF kind = "dns" THEN MaxDns ELSE MaxDials)

GrantDns(c) ==
  /\ conn[c].at = "dnsWait" /\ Granted(c, "dns")
  /\ Await(c, conn[c], "lookup", conn[c].until, {"dns"}, {})
  /\ UNCHANGED <<now, cancelled, late>>

\* Distinct canonical addresses, in the order of the answer.
Distinct(answer) ==
  LET seen[n \in 0..Len(answer)] ==
        IF n = 0 THEN <<>>
        ELSE IF Canonical[answer[n]] \in Range(seen[n - 1]) THEN seen[n - 1]
        ELSE Append(seen[n - 1], Canonical[answer[n]])
  IN  seen[Len(answer)]

\* resolve_addresses: one forbidden address, or too many, refuse the answer.
Approved(answer) ==
  IF answer # <<>> /\ Len(answer) <= MaxResolved /\ Range(answer) \subseteq AnswerOk
  THEN {Distinct(answer)} ELSE {}

\* The lookup failed or answered; its permit is dropped either way.
Lookup(c) ==
  /\ conn[c].at = "lookup"
  /\ \/ Deny(c)
     \/ \E answer \in Answers :
          \/ Approved(answer) = {} /\ Deny(c)
          \/ \E list \in Approved(answer) : WantDial(c, list)
  /\ UNCHANGED <<now, cancelled, late>>

\* Mutant of AttemptBudget: the first address may use all the time there is.
AttemptBudgetGreedy(remaining, left) == remaining

AttemptBudget(remaining, left) == remaining \div left

\* dial_approved_addresses, at the top of its loop: give up or try the next one.
NextAttempt(c, record) ==
  LET remaining == IF record.deadline > now THEN record.deadline - now ELSE 0
      budget == AttemptBudget(remaining, Len(record.todo))
  IN  IF record.todo = <<>> \/ cancelled \/ budget = 0 THEN Deny(c)
      ELSE Go(c, [record EXCEPT
                    !.at = "dial",
                    !.until = Earlier(AddOr(now, budget, record.deadline), record.deadline)],
              {"dial"}, {})

\* dial_with_budget
GrantDial(c) ==
  /\ conn[c].at = "dialWait" /\ Granted(c, "dial")
  /\ NextAttempt(c, [conn[c] EXCEPT !.share = (conn[c].deadline - now) \div Len(conn[c].todo)])
  /\ UNCHANGED <<now, cancelled, late>>

Dialled(c) ==
  /\ conn[c].at = "dial"
  /\ Await(c, conn[c], "respond", conn[c].deadline, {}, {})
  /\ UNCHANGED <<now, cancelled, late>>

\* The attempt failed, or its deadline passed.
DialFailed(c) ==
  /\ conn[c].at = "dial"
  /\ NextAttempt(c, [conn[c] EXCEPT !.todo = Tail(@)])
  /\ UNCHANGED <<now, cancelled, late>>

\* write_connect_success
Respond(c) ==
  /\ conn[c].at = "respond"
  /\ \/ Go(c, Blank("failed"), {}, {})
     \/ Await(c, conn[c], "first", conn[c].deadline, {}, {})
  /\ UNCHANGED <<now, cancelled, late>>

\* forward_uninspected_upload, or the inspection of the ClientHello.
First(c) ==
  /\ conn[c].at = "first"
  /\ \/ Deny(c)
     \/ Go(c, [conn[c] EXCEPT !.at = "tunnel"], {}, {})
  /\ UNCHANGED <<now, cancelled, late>>

\* tunnel_bidirectionally has ended.
TunnelEnd(c) ==
  /\ conn[c].at = "tunnel"
  /\ \E end \in {"completed", "denied", "failed"} : Go(c, Blank(end), {}, {})
  /\ UNCHANGED <<now, cancelled, late>>

\* Mutant of Timeout: the future that held the permit is not dropped.
TimeoutLeaky(c) ==
  /\ conn[c].at \in Handshaking \ {"dial"} /\ now >= conn[c].until
  /\ conn' = [conn EXCEPT ![c] = Blank("denied")]
  /\ UNCHANGED <<now, cancelled, permits, queue, late>>

\* Mutant of Timeout: the first upload and the ClientHello may take for ever.
TimeoutNotFirst(c) ==
  /\ conn[c].at \in Handshaking \ {"dial", "first"} /\ now >= conn[c].until
  /\ Deny(c)
  /\ UNCHANGED <<now, cancelled, late>>

\* The deadline of a wait passes: its future is dropped, with permit or place.
Timeout(c) ==
  /\ conn[c].at \in Handshaking \ {"dial"} /\ now >= conn[c].until
  /\ Deny(c)
  /\ UNCHANGED <<now, cancelled, late>>

\* The biased select of the task sees the cancellation.
Cancelled(c) ==
  /\ cancelled /\ conn[c].at \in Handshaking \cup {"start", "tunnel"}
  /\ Go(c, Blank("cancelled"), {}, {})
  /\ UNCHANGED <<now, cancelled, late>>

Next ==
  \/ Tick \/ Cancel
  \/ \E c \in Conns :
       \/ Accept(c) \/ Start(c) \/ Header(c) \/ GrantDns(c) \/ Lookup(c) \/ GrantDial(c)
       \/ Dialled(c) \/ DialFailed(c) \/ Respond(c) \/ First(c) \/ TunnelEnd(c)
       \/ Timeout(c) \/ Cancelled(c)

Spec == Init /\ [][Next]_vars

-------------------------------------------------------------------------------

\* DNS and dial permits are held exactly while a lookup or a dial is in progress,
\* and places in line exactly while waiting: timeouts, denials and cancellation
\* give both back.  So there are never more lookups or dials than permits.
PermitsFollowStages ==
  /\ \A c \in Conns :
       /\ c \in permits["dns"] <=> conn[c].at = "lookup"
       /\ c \in permits["dial"] <=> conn[c].at = "dial"
       /\ c \in Range(queue["dns"]) <=> conn[c].at = "dnsWait"
       /\ c \in Range(queue["dial"]) <=> conn[c].at = "dialWait"
  /\ Cardinality(permits["dns"]) <= MaxDns /\ Cardinality(permits["dial"]) <= MaxDials

\* No wait of a handshake, DNS and every dial attempt included, outlasts the
\* absolute deadline fixed when the connection was accepted.
HandshakeBounded ==
  \A c \in Conns : conn[c].at \in Handshaking => conn[c].until <= conn[c].deadline

\* No destination starves the next, as long as no attempt's timer fires late:
\* every attempt gets at least an equal share of the time there was when dialling
\* began, and dialling gives up early only when that share is nothing.
EveryAddressGetsItsShare ==
  [][~late => \A c \in Conns :
       /\ conn'[c].at = "dial" /\ conn'[c] # conn[c] => conn'[c].until - now >= conn'[c].share
       /\ conn[c].at = "dial" /\ conn'[c].at = "denied" /\ ~cancelled =>
            Len(conn[c].todo) = 1 \/ conn[c].share = 0]_vars

Fairness ==
  /\ WF_vars(Tick)
  /\ \A c \in Conns :
       /\ WF_vars(Start(c)) /\ WF_vars(GrantDns(c)) /\ WF_vars(GrantDial(c))
       /\ WF_vars(Timeout(c) \/ (now >= conn[c].until /\ DialFailed(c)))
       /\ WF_vars(Cancelled(c))

FairSpec == Spec /\ Fairness

\* Every handshake comes to an end by its deadlines alone, whatever peers, DNS
\* and destinations do and however long the lines for permits are; and a cancelled
\* lease ends every one of its connections, tunnels included.
HandshakeEnds ==
  \A c \in Conns :
    /\ conn[c].at \in Handshaking ~> conn[c].at \in Ends \cup {"tunnel"}
    /\ cancelled /\ conn[c].at # "away" ~> conn[c].at \in Ends

===============================================================================
