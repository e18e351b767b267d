---------------------------- MODULE HandshakeProofs ---------------------------
(***************************************************************************)
(* A connection before its tunnel.  Its deadlines: no wait outlasts the    *)
(* handshake, and the dial budget leaves every destination its share of    *)
(* the time.  Its permits and places in line.  Its bytes: where the header *)
(* ends, what the destination gets of the rest and what the inspection     *)
(* reads in a ClientHello, for every stream and every division of it into  *)
(* reads and records.                                                      *)
(***************************************************************************)
EXTENDS Handshake, Preamble, FiniteSetTheorems, WellFoundedInduction, TLAPS

USE ZenonT(30), SMTT(20)

\* The least number of a set of numbers.
LEMMA LeastIsMin ==
  ASSUME NEW T, T \subseteq Nat, T # {}
  PROVE  Min(T) \in T /\ \A y \in T : Min(T) <= y
<1>1. PICK x \in T : \A y \in T : ~(<<y, x>> \in OpToRel(<, Nat))
  BY NatLessThanWellFounded, WFMin
<1>2. ASSUME NEW y \in T PROVE x <= y
  <2>1. x \in Nat /\ y \in Nat
    OBVIOUS
  <2>2. ~(y < x)
    BY <1>1, <2>1 DEF OpToRel
  <2> QED
    BY SMTT(20), <2>1, <2>2
<1>3. \E z \in T : \A y \in T : z <= y
  BY <1>2
<1> QED
  BY <1>3 DEF Min

-------------------------------------------------------------------------------
(***************************************************************************)
(* The loop of resolve_addresses.  A recursive function exists when each   *)
(* of its first turns does: the least turn without one contradicts that.   *)
(***************************************************************************)

\* One turn: what is kept of the answer once its n-th address is seen.
Turn(answer, seen, n) ==
  IF n = 0 THEN <<>>
  ELSE IF Canonical[answer[n]] \in Range(seen[n - 1]) THEN seen[n - 1]
  ELSE Append(seen[n - 1], Canonical[answer[n]])

\* The loop can be run for as long as there are addresses.
LEMMA LoopRuns ==
  ASSUME NEW answer, NEW k \in Nat
  PROVE  \E f : f = [n \in 0..k |-> Turn(answer, f, n)]
<1> DEFINE Runs(j) == \E f : f = [n \in 0..j |-> Turn(answer, f, n)]
           T == {j \in Nat : ~Runs(j)}
<1> SUFFICES ASSUME T # {} PROVE FALSE
  OBVIOUS
<1>1. PICK m : m \in Nat /\ ~Runs(m) /\ \A j \in T : m <= j
  BY LeastIsMin
<1>2. m # 0
  <2> DEFINE f == [n \in 0..0 |-> <<>>]
  <2>1. f = [n \in 0..0 |-> Turn(answer, f, n)]
    <3>1. ASSUME NEW n \in 0..0 PROVE Turn(answer, f, n) = <<>>
      BY SMTT(20) DEF Turn
    <3> QED
      BY <3>1
  <2>2. Runs(0)
    BY <2>1
  <2> QED
    BY <1>1, <2>2
<1>3. m - 1 \in Nat /\ ~(m <= m - 1) /\ 0..m = (0..(m - 1)) \cup {m} /\ m \notin 0..(m - 1)
  BY SMTT(20), <1>1, <1>2
<1>4. Runs(m - 1)
  BY <1>1, <1>3
<1>5. PICK g : g = [n \in 0..(m - 1) |-> Turn(answer, g, n)]
  BY <1>4
<1> DEFINE f == [n \in 0..m |-> IF n = m THEN Turn(answer, g, m) ELSE g[n]]
<1>6. ASSUME NEW n \in 0..m PROVE f[n] = Turn(answer, f, n)
  <2>1. n # 0 => n - 1 \in 0..(m - 1) /\ n - 1 \in 0..m /\ n - 1 # m
    BY SMTT(20), <1>1, <1>2
  <2>2. n # 0 => f[n - 1] = g[n - 1]
    BY <2>1
  <2>3. Turn(answer, f, n) = Turn(answer, g, n)
    BY SMTT(20), <2>2 DEF Turn
  <2>4. n # m => n \in 0..(m - 1)
    BY <1>3
  <2>5. n # m => g[n] = Turn(answer, g, n)
    BY <1>5, <2>4
  <2> QED
    BY <2>3, <2>5
<1>7. f = [n \in 0..m |-> Turn(answer, f, n)]
  BY <1>6
<1> QED
  BY <1>1, <1>7

\* resolve_addresses keeps addresses, and keeps one of every answer that has any.
LEMMA DistinctAddresses ==
  ASSUME NEW answer \in Seq(Addresses), answer # <<>>
  PROVE  Distinct(answer) \in Seq(Addresses) \ {<<>>}
<1> DEFINE last == Len(answer)
           loop == CHOOSE f : f = [n \in 0..last |-> Turn(answer, f, n)]
           Fine(n) == loop[n] \in Seq(Addresses) /\ (n # 0 => loop[n] # <<>>)
           T == {n \in Nat : n <= last /\ ~Fine(n)}
<1>0. last \in Nat \ {0}
  BY SMTT(20)
<1>1. Distinct(answer) = loop[last]
  BY DEF Distinct, Turn
<1>2. loop = [n \in 0..last |-> Turn(answer, loop, n)]
  BY <1>0, LoopRuns
<1> HIDE DEF loop
<1>3. ASSUME T # {} PROVE FALSE
  <2>1. PICK m : m \in Nat /\ m <= last /\ ~Fine(m) /\ \A j \in T : m <= j
    BY <1>3, LeastIsMin
  <2>2. m \in 0..last
    BY SMTT(20), <1>0, <2>1
  <2>3. loop[m] = Turn(answer, loop, m)
    BY <1>2, <2>2
  <2>4. m # 0
    <3>1. <<>> \in Seq(Addresses)
      BY SMTT(20)
    <3> QED
      BY <2>1, <2>3, <3>1 DEF Turn
  <2>5. m - 1 \in Nat /\ m - 1 <= last /\ ~(m <= m - 1) /\ m \in 1..last
    BY SMTT(20), <1>0, <2>1, <2>4
  <2>6. loop[m - 1] \in Seq(Addresses)
    BY <2>1, <2>5
  <2>7. Canonical[answer[m]] \in Addresses
    <3>1. answer[m] \in Addresses
      BY SMTT(20), <2>5
    <3> QED
      BY <3>1, HandshakeAssumption
  <2>8. CASE Canonical[answer[m]] \in Range(loop[m - 1])
    <3>1. loop[m - 1] # <<>>
      <4>1. Range(<<>>) = {}
        BY SMTT(20) DEF Range
      <4> QED
        BY <2>8, <4>1
    <3> QED
      BY <2>1, <2>3, <2>4, <2>6, <2>8, <3>1 DEF Turn
  <2>9. CASE Canonical[answer[m]] \notin Range(loop[m - 1])
    <3>1. ASSUME NEW s \in Seq(Addresses), NEW a \in Addresses
          PROVE  Append(s, a) \in Seq(Addresses) /\ Append(s, a) # <<>>
      BY SMTT(20)
    <3>2. loop[m] = Append(loop[m - 1], Canonical[answer[m]])
      BY <2>3, <2>4, <2>9 DEF Turn
    <3> QED
      BY <2>1, <2>6, <2>7, <3>1, <3>2
  <2> QED
    BY <2>8, <2>9
<1>4. last \in Nat /\ last <= last /\ last # 0
  BY SMTT(20), <1>0
<1>5. Fine(last)
  BY <1>3, <1>4
<1> QED
  BY <1>1, <1>4, <1>5

-------------------------------------------------------------------------------
\* The arithmetic of dial_approved_addresses: when the time left is worth s for
\* each of n attempts, a quotient of it is, and leaves as much for the others.
LEMMA Quotient ==
  ASSUME NEW t \in Nat, NEW n \in Nat \ {0}, NEW s \in Nat, s * n <= t
  PROVE  /\ t \div n \in Nat /\ s <= t \div n /\ t \div n <= t
         /\ s * (n - 1) <= t - (t \div n)
<1> DEFINE q == t \div n
           r == t % n
<1>1. q \in Nat /\ r \in Nat /\ r < n
  BY SMTT(20)
<1>2. t = n * q + r
  BY SMTT(20)
<1> HIDE DEF q, r
<1>3. n * q \in Nat /\ s * n \in Nat
  BY SMTT(20), <1>1
<1>4. s <= q
  <2> SUFFICES ASSUME q + 1 <= s PROVE FALSE
    BY SMTT(20), <1>1
  <2>1. n * (q + 1) <= n * s
    BY SMTT(20), <1>1
  <2>2. n * (q + 1) = n * q + n /\ n * s = s * n
    BY SMTT(20), <1>1
  <2> QED
    BY SMTT(20), <2>1, <2>2, <1>1, <1>2, <1>3
<1>5. (n - 1) * s <= (n - 1) * q
  BY SMTT(20), <1>1, <1>4
<1>6. (n - 1) * q = n * q - q /\ s * (n - 1) = (n - 1) * s /\ q <= n * q
  BY SMTT(20), <1>1
<1>7. (n - 1) * q \in Nat /\ (n - 1) * s \in Nat
  BY SMTT(20), <1>1
<1>8. s * (n - 1) <= t - q /\ q <= t
  BY SMTT(20), <1>1, <1>2, <1>3, <1>5, <1>6, <1>7
<1> QED
  BY <1>1, <1>4, <1>8 DEF q

ConnRecord ==
  [at: Handshaking \cup Ends \cup {"away", "start", "tunnel"}, deadline: Nat, until: Nat,
   todo: Seq(Addresses), share: Nat]

\* A connection's record at time t, with or without a late timer: the present
\* wait ends within the handshake, and after a dial attempt there is a share left
\* for each destination behind it.
Good(r, t, l) ==
  /\ r \in ConnRecord
  /\ r.at \in Handshaking => r.until <= r.deadline /\ r.deadline <= MaxInstant
  /\ r.at \in {"dialWait", "dial"} => r.todo # <<>>
  /\ r.at = "dial" /\ ~l =>
       t <= r.until /\ r.share * (Len(r.todo) - 1) <= r.deadline - r.until

\* The inductive invariant.
DialInv ==
  /\ now \in Nat /\ late \in BOOLEAN
  /\ conn = [c \in Conns |-> conn[c]]
  /\ \A c \in Conns : Good(conn[c], now, late)

\* A connection that has ended, or not begun, has no deadline to keep.
LEMMA BlankGood ==
  ASSUME NEW e \in Ends \cup {"away"}, NEW t, NEW l
  PROVE  Good(Blank(e), t, l)
BY SMTT(20) DEF Good, Blank, ConnRecord, Ends, Handshaking

\* The connection c moves to a good record.
Moves(c) == \E r : conn' = [conn EXCEPT ![c] = r] /\ Good(r, now, late)

\* It does so and does not begin to dial.
Settles(c) ==
  \E r : conn' = [conn EXCEPT ![c] = r] /\ Good(r, now, late) /\ r.at # "dial"

\* deny and reject_without_response end the connection.
LEMMA DenySettles == ASSUME NEW c \in Conns, Deny(c) PROVE Settles(c)
<1>1. Good(Blank("denied"), now, late) /\ Blank("denied").at = "denied"
  BY BlankGood DEF Ends, Blank
<1> QED
  BY <1>1 DEF Deny, Go, Settles

\* complete_before_deadline enters a wait that ends within the handshake.
LEMMA AwaitSettles ==
  ASSUME NEW c \in Conns, NEW r \in ConnRecord, NEW at \in Handshaking \ {"dial"},
         NEW u \in Nat, NEW h, NEW q, u <= r.deadline, r.deadline <= MaxInstant,
         at = "dialWait" => r.todo # <<>>, Await(c, r, at, u, h, q)
  PROVE  Settles(c)
<1> DEFINE s == [r EXCEPT !.at = at, !.until = u]
<1>1. CASE Deny(c)
  BY <1>1, DenySettles
<1>2. CASE Go(c, s, h, q)
  <2>1. s \in ConnRecord /\ s.at = at /\ s.until = u /\ s.deadline = r.deadline /\ s.todo = r.todo
    BY DEF ConnRecord
  <2>2. Good(s, now, late)
    BY <2>1 DEF Good
  <2> QED
    BY <1>2, <2>1, <2>2 DEF Go, Settles
<1> QED
  BY <1>1, <1>2 DEF Await

\* One turn of the loop in dial_approved_addresses, entered with a share left for
\* each destination unless a timer was late: the attempt gets a share at least
\* and leaves one for each destination behind it, and giving up with
\* destinations left means that the share is nothing.
LEMMA AttemptMoves ==
  ASSUME NEW c \in Conns, NEW r \in ConnRecord, now \in Nat, late \in BOOLEAN,
         conn = [d \in Conns |-> conn[d]], r.deadline <= MaxInstant,
         ~late => r.share * Len(r.todo) <= r.deadline - now,
         NextAttempt(c, r)
  PROVE  /\ Moves(c)
         /\ conn'[c].at = "dial" /\ ~late => conn'[c].until - now >= conn'[c].share
         /\ conn'[c].at = "denied" /\ ~late /\ ~cancelled => r.todo = <<>> \/ r.share = 0
<1> DEFINE n == Len(r.todo)
           remaining == IF r.deadline > now THEN r.deadline - now ELSE 0
           budget == AttemptBudget(remaining, n)
           until == Earlier(AddOr(now, budget, r.deadline), r.deadline)
           s == [r EXCEPT !.at = "dial", !.until = until]
<1>1. r.share \in Nat /\ r.deadline \in Nat /\ r.todo \in Seq(Addresses) /\ n \in Nat
  BY SMTT(20) DEF ConnRecord
<1>2. r.todo # <<>> => n \in Nat \ {0}
  BY SMTT(20), <1>1
<1>3. remaining \in Nat
  BY SMTT(20), <1>1
<1>4. r.share * n \in Nat
  BY SMTT(20), <1>1
<1>5. ~late => r.share * n <= remaining /\ r.deadline - now = remaining
  BY SMTT(20), <1>1, <1>4
<1>6. r.todo # <<>> =>
        /\ budget \in Nat /\ budget <= remaining
        /\ ~late => r.share <= budget /\ r.share * (n - 1) <= remaining - budget
  <2> SUFFICES ASSUME r.todo # <<>>
               PROVE  /\ budget \in Nat /\ budget <= remaining
                      /\ ~late => r.share <= budget /\ r.share * (n - 1) <= remaining - budget
    OBVIOUS
  <2> HIDE DEF n, remaining
  <2>1. budget = remaining \div n
    BY DEF AttemptBudget
  <2>2. budget \in Nat /\ budget <= remaining
    <3>1. 0 * n <= remaining
      BY SMTT(20), <1>2, <1>3
    <3> QED
      BY <1>2, <1>3, <2>1, <3>1, Quotient
  <2>3. ASSUME ~late PROVE r.share <= budget /\ r.share * (n - 1) <= remaining - budget
    BY <2>3, <1>1, <1>2, <1>3, <1>5, <2>1, Quotient
  <2> QED
    BY <2>2, <2>3
<1> HIDE DEF n
<1>7. CASE r.todo = <<>> \/ cancelled \/ budget = 0
  <2>1. Deny(c)
    BY <1>7 DEF NextAttempt, n
  <2>2. conn'[c].at = "denied"
    BY <2>1 DEF Deny, Go, Blank
  <2>3. ~late /\ ~cancelled => r.todo = <<>> \/ r.share = 0
    <3> HIDE DEF budget
    <3> QED
      BY SMTT(20), <1>7, <1>1, <1>6
  <2> QED
    BY <2>1, <2>2, <2>3, DenySettles DEF Moves, Settles
<1>8. CASE r.todo # <<>> /\ ~cancelled /\ budget # 0
  <2>1. conn' = [conn EXCEPT ![c] = s]
    BY <1>8 DEF NextAttempt, Go, n
  <2> HIDE DEF budget
  <2>2. budget \in Nat /\ budget <= remaining /\ budget # 0
    BY <1>6, <1>8
  <2>3. until = now + budget
    <3>1. now + budget <= r.deadline
      BY SMTT(20), <2>2, <1>1
    <3>2. now + budget <= MaxInstant /\ now + budget \in Nat
      BY SMTT(20), <3>1, <2>2, <1>1, HandshakeAssumption
    <3> QED
      BY SMTT(20), <3>1, <3>2, <1>1 DEF Earlier, AddOr
  <2>4. until \in Nat /\ now <= until /\ until <= r.deadline
    BY SMTT(20), <2>2, <2>3, <1>1
  <2>5. ~late => r.share <= until - now /\ r.share * (n - 1) <= r.deadline - until
    <3> SUFFICES ASSUME ~late
                 PROVE  r.share <= until - now /\ r.share * (n - 1) <= r.deadline - until
      OBVIOUS
    <3>1. r.share <= budget /\ r.share * (n - 1) <= remaining - budget
      BY <1>6, <1>8
    <3>2. r.deadline - now = remaining
      BY <1>5
    <3> HIDE DEF until, remaining
    <3>3. until - now = budget /\ r.deadline - until = remaining - budget
      BY SMTT(20), <3>2, <2>2, <2>3, <1>1, <1>3
    <3> QED
      BY <3>1, <3>3
  <2> HIDE DEF until
  <2>6. /\ s \in ConnRecord /\ s.at = "dial" /\ s.until = until /\ s.deadline = r.deadline
        /\ s.todo = r.todo /\ s.share = r.share
    BY <2>4 DEF ConnRecord, Handshaking
  <2> HIDE DEF s
  <2>7. Good(s, now, late)
    BY <2>4, <2>5, <2>6, <1>8 DEF Good, n
  <2>8. conn'[c] = s
    BY <2>1
  <2> QED
    BY <2>1, <2>5, <2>6, <2>7, <2>8 DEF Moves
<1> QED
  BY <1>7, <1>8

\* Every step of one connection moves it to a good record, and what it does about
\* dialling is fair.
Fair(c) ==
  ~late =>
    /\ conn'[c].at = "dial" /\ conn'[c] # conn[c] => conn'[c].until - now >= conn'[c].share
    /\ conn[c].at = "dial" /\ conn'[c].at = "denied" /\ ~cancelled =>
         Len(conn[c].todo) = 1 \/ conn[c].share = 0

\* The steps of a task (serve_connect, establish_tunnel) before and after dialling.
LEMMA OtherSteps ==
  ASSUME NEW c \in Conns, DialInv,
         \/ Accept(c) \/ Start(c) \/ Header(c) \/ GrantDns(c) \/ Lookup(c)
         \/ Respond(c) \/ First(c) \/ TunnelEnd(c) \/ Timeout(c) \/ Cancelled(c)
  PROVE  Settles(c) /\ (conn[c].at # "dial" \/ conn'[c].at = "cancelled")
<1>1. /\ now \in Nat /\ Good(conn[c], now, late) /\ conn[c] \in ConnRecord
      /\ conn = [d \in Conns |-> conn[d]]
  BY DEF DialInv, Good
<1>2. conn[c].deadline \in Nat /\ conn[c].until \in Nat
  BY <1>1 DEF ConnRecord
<1>3. conn[c].at \in Handshaking =>
        conn[c].until <= conn[c].deadline /\ conn[c].deadline <= MaxInstant
  BY <1>1 DEF Good
<1>4. \A list \in Seq(Addresses) \ {<<>>} :
        conn[c].at \in Handshaking /\ WantDial(c, list) => Settles(c)
  <2> SUFFICES ASSUME NEW list \in Seq(Addresses) \ {<<>>},
                      conn[c].at \in Handshaking, WantDial(c, list)
               PROVE  Settles(c)
    OBVIOUS
  <2> DEFINE r == [conn[c] EXCEPT !.todo = list]
  <2>1. r \in ConnRecord /\ r.deadline = conn[c].deadline /\ r.todo = list
    BY <1>1 DEF ConnRecord
  <2>2. Await(c, r, "dialWait", conn[c].deadline, {}, {"dial"})
    BY DEF WantDial
  <2> HIDE DEF r
  <2> QED
    BY SMTT(20), <1>2, <1>3, <2>1, <2>2, AwaitSettles DEF Handshaking
<1>5. ASSUME NEW e \in Ends, Go(c, Blank(e), {}, {}) PROVE Settles(c) /\ conn'[c].at = e
  <2>1. Good(Blank(e), now, late) /\ Blank(e).at = e
    BY BlankGood DEF Blank
  <2> QED
    BY <1>1, <1>5, <2>1 DEF Go, Settles, Ends
<1>6. CASE Accept(c)
  <2>1. PICK h \in HandshakeTimeouts :
          conn' = [conn EXCEPT ![c] = [Blank("start") EXCEPT !.deadline = h, !.until = now]]
    BY <1>6 DEF Accept
  <2> DEFINE r == [Blank("start") EXCEPT !.deadline = h, !.until = now]
  <2>2. r \in ConnRecord /\ r.at = "start"
    <3>1. h \in Nat
      BY HandshakeAssumption
    <3>2. Blank("start") \in ConnRecord /\ Blank("start").at = "start"
      BY SMTT(20) DEF Blank, ConnRecord
    <3> QED
      BY <1>1, <3>1, <3>2 DEF ConnRecord
  <2>3. Good(r, now, late)
    BY <2>2 DEF Good, Handshaking
  <2> QED
    BY <1>6, <2>1, <2>2, <2>3 DEF Settles, Accept
<1>7. CASE Start(c)
  <2> DEFINE deadline == conn[c].until + conn[c].deadline
             header == Earlier(AddOr(conn[c].until, HeaderTimeout, deadline), deadline)
             r == [conn[c] EXCEPT !.deadline = deadline]
  <2>1. deadline \in Nat /\ header \in Nat /\ header <= deadline
    BY SMTT(20), <1>2, HandshakeAssumption DEF Earlier, AddOr
  <2>2. CASE deadline > MaxInstant
    BY <1>7, <2>2, DenySettles DEF Start
  <2>3. CASE ~(deadline > MaxInstant)
    <3>1. Await(c, r, "header", header, {}, {})
      BY <1>7, <2>3 DEF Start
    <3>2. r \in ConnRecord /\ r.deadline = deadline
      BY <1>1, <2>1 DEF ConnRecord
    <3>3. deadline <= MaxInstant
      BY SMTT(20), <2>1, <2>3, HandshakeAssumption
    <3> HIDE DEF header, deadline, r
    <3> QED
      BY <1>7, <2>1, <3>1, <3>2, <3>3, AwaitSettles DEF Start, Handshaking
  <2> QED
    BY <1>7, <2>2, <2>3 DEF Start
<1>8. CASE Header(c)
  <2>1. conn[c].at = "header" /\ "header" \in Handshaking
    BY <1>8 DEF Header, Handshaking
  <2>2. CASE Deny(c)
    BY <2>1, <2>2, DenySettles
  <2>3. ASSUME NEW a \in LiteralOk, WantDial(c, <<Canonical[a]>>) PROVE Settles(c)
    <3>1. a \in Addresses /\ Canonical[a] \in Addresses
      BY HandshakeAssumption
    <3>2. <<Canonical[a]>> \in Seq(Addresses) \ {<<>>}
      BY SMTT(20), <3>1
    <3> QED
      BY <1>4, <2>1, <2>3, <3>2
  <2>4. CASE Await(c, conn[c], "dnsWait", DnsDeadline(c), {}, {"dns"})
    <3>1. DnsDeadline(c) \in Nat /\ DnsDeadline(c) <= conn[c].deadline
      BY SMTT(20), <1>1, <1>2, HandshakeAssumption DEF DnsDeadline, Earlier, AddOr
    <3> QED
      BY <1>1, <1>2, <1>3, <2>1, <2>4, <3>1, AwaitSettles DEF Handshaking
  <2> QED
    BY <1>8, <2>1, <2>2, <2>3, <2>4 DEF Header
<1>9. CASE GrantDns(c)
  <2>1. conn[c].at = "dnsWait" /\ "dnsWait" \in Handshaking /\ "lookup" \in Handshaking \ {"dial"}
    BY <1>9 DEF GrantDns, Handshaking
  <2>2. Await(c, conn[c], "lookup", conn[c].until, {"dns"}, {})
    BY <1>9 DEF GrantDns
  <2> QED
    BY <1>1, <1>2, <1>3, <2>1, <2>2, AwaitSettles
<1>10. CASE Lookup(c)
  <2>1. conn[c].at = "lookup" /\ "lookup" \in Handshaking
    BY <1>10 DEF Lookup, Handshaking
  <2>2. CASE Deny(c)
    BY <2>1, <2>2, DenySettles
  <2>3. ASSUME NEW answer \in Answers, NEW list \in Approved(answer), WantDial(c, list)
        PROVE  Settles(c)
    <3>1. list \in Seq(Addresses) \ {<<>>}
      BY HandshakeAssumption, DistinctAddresses DEF Approved
    <3> QED
      BY <1>4, <2>1, <2>3, <3>1
  <2> QED
    BY <1>10, <2>1, <2>2, <2>3 DEF Lookup
<1>11. CASE Respond(c)
  <2>1. conn[c].at = "respond" /\ "respond" \in Handshaking
    BY <1>11 DEF Respond, Handshaking
  <2>2. CASE Go(c, Blank("failed"), {}, {})
    BY <2>1, <2>2, <1>5 DEF Ends
  <2>3. CASE Await(c, conn[c], "first", conn[c].deadline, {}, {})
    BY SMTT(20), <1>1, <1>2, <1>3, <2>1, <2>3, AwaitSettles DEF Handshaking
  <2> QED
    BY <1>11, <2>1, <2>2, <2>3 DEF Respond
<1>12. CASE First(c)
  <2>1. conn[c].at = "first"
    BY <1>12 DEF First
  <2>2. CASE Deny(c)
    BY <2>1, <2>2, DenySettles
  <2>3. CASE Go(c, [conn[c] EXCEPT !.at = "tunnel"], {}, {})
    <3> DEFINE r == [conn[c] EXCEPT !.at = "tunnel"]
    <3>1. r \in ConnRecord /\ r.at = "tunnel"
      BY <1>1 DEF ConnRecord
    <3>2. Good(r, now, late)
      BY <3>1 DEF Good, Handshaking
    <3> QED
      BY <2>1, <2>3, <3>1, <3>2 DEF Go, Settles
  <2> QED
    BY <1>12, <2>1, <2>2, <2>3 DEF First
<1>13. CASE TunnelEnd(c)
  BY <1>5, <1>13 DEF TunnelEnd, Ends
<1>14. CASE Timeout(c)
  BY <1>14, DenySettles DEF Timeout
<1>15. CASE Cancelled(c)
  BY <1>5, <1>15 DEF Cancelled, Ends
<1> QED
  BY <1>6, <1>7, <1>8, <1>9, <1>10, <1>11, <1>12, <1>13, <1>14, <1>15

\* The steps of dial_with_budget and dial_approved_addresses.
LEMMA DialSteps ==
  ASSUME NEW c \in Conns, DialInv, GrantDial(c) \/ Dialled(c) \/ DialFailed(c)
  PROVE  Moves(c) /\ Fair(c)
<1>1. /\ now \in Nat /\ late \in BOOLEAN /\ Good(conn[c], now, late)
      /\ conn[c] \in ConnRecord /\ conn = [d \in Conns |-> conn[d]]
  BY DEF DialInv, Good
<1>2. /\ conn[c].deadline \in Nat /\ conn[c].until \in Nat /\ conn[c].share \in Nat
      /\ conn[c].todo \in Seq(Addresses)
  BY <1>1 DEF ConnRecord
<1>3. conn[c].at \in {"dialWait", "dial"}
  BY DEF GrantDial, Dialled, DialFailed
<1>4. /\ conn[c].until <= conn[c].deadline /\ conn[c].deadline <= MaxInstant
      /\ conn[c].todo # <<>> /\ Len(conn[c].todo) \in Nat \ {0}
  BY SMTT(20), <1>1, <1>2, <1>3 DEF Good, Handshaking
<1>5. conn[c].at = "dial" /\ ~late =>
        /\ now <= conn[c].until
        /\ conn[c].share * (Len(conn[c].todo) - 1) <= conn[c].deadline - conn[c].until
  BY <1>1 DEF Good
<1>6. CASE GrantDial(c)
  <2> DEFINE n == Len(conn[c].todo)
             left == conn[c].deadline - now
             r == [conn[c] EXCEPT !.share = left \div n]
  <2>1. NextAttempt(c, r) /\ conn[c].at = "dialWait"
    BY <1>6 DEF GrantDial
  <2>2. r.deadline = conn[c].deadline /\ r.todo = conn[c].todo
    BY <1>1 DEF ConnRecord
  <2>3. CASE now > conn[c].deadline
    <3>1. AttemptBudget(0, n) = 0
      <4>1. n \in Nat \ {0}
        BY <1>4
      <4> HIDE DEF n
      <4> QED
        BY SMTT(20), <4>1 DEF AttemptBudget
    <3>2. ~(r.deadline > now)
      BY SMTT(20), <1>1, <1>2, <2>2, <2>3
    <3> HIDE DEF r
    <3>3. Deny(c)
      BY <2>1, <2>2, <3>1, <3>2 DEF NextAttempt
    <3> QED
      BY <2>1, <3>3, <1>1, DenySettles DEF Settles, Moves, Fair
  <2>4. CASE now <= conn[c].deadline
    <3>1. left \in Nat /\ n \in Nat \ {0}
      BY SMTT(20), <1>1, <1>2, <1>4, <2>4
    <3>2. left \div n \in Nat /\ (left \div n) * n <= left
      <4> HIDE DEF left, n
      <4> QED
        BY SMTT(20), <3>1
    <3>3. r \in ConnRecord /\ r.share = left \div n
      <4> HIDE DEF left, n
      <4> QED
        BY SMTT(20), <1>1, <3>2 DEF ConnRecord
    <3>4. r.share * Len(r.todo) <= r.deadline - now
      BY <2>2, <3>2, <3>3
    <3>5. r.deadline <= MaxInstant
      BY <1>4, <2>2
    <3> HIDE DEF r
    <3>6. Moves(c) /\ (conn'[c].at = "dial" /\ ~late => conn'[c].until - now >= conn'[c].share)
      BY <1>1, <2>1, <3>3, <3>4, <3>5, AttemptMoves
    <3> QED
      BY <2>1, <3>6 DEF Fair
  <2> QED
    BY SMTT(20), <1>1, <1>2, <2>3, <2>4
<1>7. CASE Dialled(c)
  <2>1. Await(c, conn[c], "respond", conn[c].deadline, {}, {}) /\ conn[c].at = "dial"
    BY <1>7 DEF Dialled
  <2>2. Settles(c)
    BY SMTT(20), <1>1, <1>2, <1>4, <2>1, AwaitSettles DEF Handshaking
  <2>3. conn'[c].at # "dial"
    BY <2>2, <1>1 DEF Settles
  <2>4. ASSUME conn'[c].at = "denied", ~late
        PROVE  Len(conn[c].todo) = 1 \/ conn[c].share = 0
    <3>1. now >= conn[c].deadline
      <4> SUFFICES ASSUME ~(now >= conn[c].deadline) PROVE FALSE
        OBVIOUS
      <4>1. conn'[c] = [conn[c] EXCEPT !.at = "respond", !.until = conn[c].deadline]
        BY <1>1, <2>1 DEF Await, Go
      <4>2. conn'[c].at = "respond"
        BY <4>1, <1>1 DEF ConnRecord
      <4> QED
        BY <4>2, <2>4
    <3> DEFINE n == Len(conn[c].todo)
               s == conn[c].share
    <3>2. s * (n - 1) <= 0 /\ n \in Nat \ {0} /\ s \in Nat
      <4>1. conn[c].deadline - conn[c].until <= 0
        BY SMTT(20), <1>1, <1>2, <1>5, <2>1, <2>4, <3>1
      <4>2. s * (n - 1) \in Int
        BY SMTT(20), <1>2, <1>4
      <4>3. s * (n - 1) <= conn[c].deadline - conn[c].until
        BY <1>5, <2>1, <2>4
      <4> HIDE DEF n, s
      <4>4. s * (n - 1) <= 0
        BY SMTT(20), <1>2, <4>1, <4>2, <4>3
      <4> QED
        BY <1>2, <1>4, <4>4 DEF n, s
    <3> HIDE DEF n, s
    <3>3. n = 1 \/ s = 0
      <4> SUFFICES ASSUME n - 1 >= 1, s >= 1 PROVE FALSE
        BY SMTT(20), <3>2
      <4>1. s * (n - 1) >= 1
        BY SMTT(20), <3>2
      <4> QED
        BY SMTT(20), <4>1, <3>2
    <3> QED
      BY <3>3 DEF n, s
  <2> QED
    BY <2>2, <2>3, <2>4 DEF Settles, Moves, Fair
<1>8. CASE DialFailed(c)
  <2> DEFINE r == [conn[c] EXCEPT !.todo = Tail(@)]
  <2>1. NextAttempt(c, r) /\ conn[c].at = "dial"
    BY <1>8 DEF DialFailed
  <2>2. Tail(conn[c].todo) \in Seq(Addresses) /\ Len(Tail(conn[c].todo)) = Len(conn[c].todo) - 1
    BY SMTT(20), <1>2, <1>4
  <2>3. /\ r \in ConnRecord /\ r.todo = Tail(conn[c].todo) /\ r.share = conn[c].share
        /\ r.deadline = conn[c].deadline
    BY <1>1, <2>2 DEF ConnRecord
  <2> HIDE DEF r
  <2>4. ~late => r.share * Len(r.todo) <= r.deadline - now
    <3> SUFFICES ASSUME ~late PROVE r.share * Len(r.todo) <= r.deadline - now
      OBVIOUS
    <3> DEFINE p == r.share * Len(r.todo)
    <3>1. p \in Int /\ p <= conn[c].deadline - conn[c].until /\ now <= conn[c].until
      BY SMTT(20), <1>2, <1>4, <1>5, <2>1, <2>2, <2>3
    <3> HIDE DEF p
    <3>2. p <= r.deadline - now
      BY SMTT(20), <3>1, <1>1, <1>2, <2>3
    <3> QED
      BY <3>2 DEF p
  <2>5. /\ Moves(c)
        /\ conn'[c].at = "dial" /\ ~late => conn'[c].until - now >= conn'[c].share
        /\ conn'[c].at = "denied" /\ ~late /\ ~cancelled => r.todo = <<>> \/ r.share = 0
    BY <1>1, <1>4, <2>1, <2>3, <2>4, AttemptMoves
  <2>6. r.todo = <<>> => Len(conn[c].todo) = 1
    <3>1. Len(r.todo) = Len(conn[c].todo) - 1
      BY <2>2, <2>3
    <3> QED
      BY SMTT(20), <3>1, <1>4
  <2> QED
    BY <2>3, <2>5, <2>6 DEF Fair
<1> QED
  BY <1>6, <1>7, <1>8

\* Every connection starts outside a handshake.
LEMMA DialInit == Init => DialInv
<1> SUFFICES ASSUME Init PROVE DialInv
  OBVIOUS
<1>1. \A c \in Conns : Good(Blank("away"), now, late)
  BY BlankGood
<1> QED
  BY <1>1 DEF Init, DialInv

\* Every step keeps the invariant, and is fair to the destinations being dialled.
LEMMA DialStep ==
  DialInv /\ [Next]_vars => DialInv' /\ (UNCHANGED vars \/ \A c \in Conns : Fair(c))
<1> SUFFICES ASSUME DialInv, [Next]_vars
             PROVE  DialInv' /\ (UNCHANGED vars \/ \A c \in Conns : Fair(c))
  OBVIOUS
<1>1. /\ now \in Nat /\ late \in BOOLEAN /\ conn = [c \in Conns |-> conn[c]]
      /\ \A c \in Conns : Good(conn[c], now, late) /\ conn[c] \in ConnRecord
  BY DEF DialInv, Good
<1>2. CASE UNCHANGED vars
  <2>1. now' = now /\ late' = late /\ conn' = conn
    BY <1>2 DEF vars
  <2> QED
    BY <1>2, <2>1, <1>1 DEF DialInv
<1>3. ASSUME conn' = conn PROVE \A c \in Conns : Fair(c)
  BY <1>3 DEF Fair
<1>4. CASE Tick
  <2>1. now' = now + 1 /\ conn' = conn
    BY <1>4 DEF Tick, Advance
  <2>2. late' \in BOOLEAN /\ (late => late')
    BY <1>4, <1>1 DEF Tick
  <2>3. \A c \in Conns : conn[c].at = "dial" /\ ~late' => now < conn[c].until
    <3> SUFFICES ASSUME NEW c \in Conns, conn[c].at = "dial", ~late'
                 PROVE  now < conn[c].until
      OBVIOUS
    <3>1. ~(now >= conn[c].until)
      BY <1>4 DEF Tick
    <3>2. conn[c].until \in Nat
      BY <1>1 DEF ConnRecord
    <3> QED
      BY SMTT(20), <3>1, <3>2, <1>1
  <2>4. ASSUME NEW c \in Conns PROVE Good(conn[c], now', late')
    <3>1. conn[c].until \in Nat
      BY <1>1 DEF ConnRecord
    <3> QED
      BY SMTT(20), <1>1, <2>1, <2>2, <2>3, <3>1 DEF Good
  <2> QED
    BY SMTT(20), <1>1, <1>3, <2>1, <2>2, <2>4 DEF DialInv
<1>5. CASE Cancel
  <2>1. now' = now /\ late' = late /\ conn' = conn
    BY <1>5 DEF Cancel
  <2> QED
    BY <1>1, <1>3, <2>1 DEF DialInv
<1>6. ASSUME NEW c \in Conns, Moves(c), Fair(c), now' = now, late' = late
      PROVE  DialInv' /\ \A d \in Conns : Fair(d)
  <2>1. PICK r : conn' = [conn EXCEPT ![c] = r] /\ Good(r, now, late)
    BY <1>6 DEF Moves
  <2>2. conn'[c] = r /\ \A d \in Conns \ {c} : conn'[d] = conn[d]
    BY <2>1, <1>1
  <2>3. conn' = [d \in Conns |-> conn'[d]]
    BY <2>1, <1>1
  <2>4. \A d \in Conns : Good(conn'[d], now', late')
    BY <2>1, <2>2, <1>1, <1>6
  <2>5. \A d \in Conns \ {c} : Fair(d)
    BY <2>2 DEF Fair
  <2> QED
    BY <2>3, <2>4, <2>5, <1>1, <1>6 DEF DialInv
<1>7. ASSUME NEW c \in Conns,
             \/ Accept(c) \/ Start(c) \/ Header(c) \/ GrantDns(c) \/ Lookup(c)
             \/ Respond(c) \/ First(c) \/ TunnelEnd(c) \/ Timeout(c) \/ Cancelled(c)
      PROVE  DialInv' /\ \A d \in Conns : Fair(d)
  <2>1. now' = now /\ late' = late
    BY <1>7 DEF Accept, Start, Header, GrantDns, Lookup, Respond, First, TunnelEnd, Timeout, Cancelled
  <2>2. Settles(c) /\ (conn[c].at # "dial" \/ conn'[c].at = "cancelled")
    BY <1>7, OtherSteps
  <2>3. conn'[c].at # "dial"
    BY <2>2, <1>1 DEF Settles
  <2>4. Moves(c) /\ Fair(c)
    BY <2>2, <2>3 DEF Settles, Moves, Fair
  <2> QED
    BY <1>6, <2>1, <2>4
<1>8. ASSUME NEW c \in Conns, GrantDial(c) \/ Dialled(c) \/ DialFailed(c)
      PROVE  DialInv' /\ \A d \in Conns : Fair(d)
  <2>1. now' = now /\ late' = late
    BY <1>8 DEF GrantDial, Dialled, DialFailed
  <2> QED
    BY <1>6, <1>8, <2>1, DialSteps
<1> QED
  BY <1>2, <1>4, <1>5, <1>7, <1>8 DEF Next

\* No wait of serve_connect outlasts its handshake, and while timers are prompt
\* every dial attempt leaves a share to each destination behind it.
THEOREM DialInvariant == Spec => []DialInv
<1>1. DialInv /\ [Next]_vars => DialInv'
  BY DialStep
<1> QED
  BY DialInit, <1>1, PTL DEF Spec

\* Every wait, DNS and every dial attempt included, ends by the absolute deadline
\* that connection_deadlines fixed.
THEOREM HandshakeIsBounded == Spec => []HandshakeBounded
<1>1. DialInv => HandshakeBounded
  BY DEF DialInv, Good, HandshakeBounded
<1> QED
  BY DialInvariant, <1>1, PTL

\* dial_approved_addresses gives every destination at least an equal share of the
\* time, unless a timer fires late, and gives up early only when that is nothing.
THEOREM SharesAreFair == Spec => EveryAddressGetsItsShare
<1> DEFINE Step == ~late => \A c \in Conns :
       /\ conn'[c].at = "dial" /\ conn'[c] # conn[c] => conn'[c].until - now >= conn'[c].share
       /\ conn[c].at = "dial" /\ conn'[c].at = "denied" /\ ~cancelled =>
            Len(conn[c].todo) = 1 \/ conn[c].share = 0
<1>1. DialInv /\ [Next]_vars => [Step]_vars
  BY DialStep DEF Fair
<1> QED
  BY DialInvariant, <1>1, PTL DEF Spec, EveryAddressGetsItsShare

-------------------------------------------------------------------------------
(***************************************************************************)
(* Permits and lines.  Every step hands c over from one stage to the next  *)
(* with exactly the permits and the places in line of the new stage.       *)
(***************************************************************************)

\* A line of connections, each at one place.
Line(q) ==
  q \in Seq(Conns) /\ \A i, j \in 1..Len(q) : q[i] = q[j] => i = j

\* What is behind a place in a line.
LEMMA Behind ==
  ASSUME NEW q \in Seq(Conns), NEW n \in Nat, n <= Len(q)
  PROVE  /\ SubSeq(q, n + 1, Len(q)) \in Seq(Conns) /\ Len(SubSeq(q, n + 1, Len(q))) = Len(q) - n
         /\ \A i \in 1..(Len(q) - n) : SubSeq(q, n + 1, Len(q))[i] = q[n + i]
BY SMTT(20)

\* Two lines, one behind the other.
LEMMA Joined ==
  ASSUME NEW a \in Seq(Conns), NEW b \in Seq(Conns)
  PROVE  a \o b \in Seq(Conns) /\ Len(a \o b) = Len(a) + Len(b)
BY SMTT(20)

\* Leaving a line keeps the order of the others.
LEMMA WithoutLine ==
  ASSUME NEW q, Line(q), NEW c \in Conns
  PROVE  /\ Line(Without(q, c))
         /\ \A d \in Conns : d \in Range(Without(q, c)) <=> d # c /\ d \in Range(q)
<1>q. q \in Seq(Conns) /\ Len(q) \in Nat /\ DOMAIN q = 1..Len(q)
  BY SMTT(20) DEF Line
<1>1. CASE c \notin Range(q)
  <2>1. Without(q, c) = q
    BY <1>1 DEF Without
  <2> QED
    BY <1>1, <2>1
<1>2. CASE c \in Range(q)
  <2>1. PICK at : at = CHOOSE i \in DOMAIN q : q[i] = c
    OBVIOUS
  <2>2. at \in 1..Len(q) /\ q[at] = c
    <3>1. \E i \in DOMAIN q : q[i] = c
      BY <1>2 DEF Range
    <3> QED
      BY <1>q, <2>1, <3>1
  <2> DEFINE a == SubSeq(q, 1, at - 1)
             b == SubSeq(q, at + 1, Len(q))
             w == a \o b
  <2>3. a \in Seq(Conns) /\ Len(a) = at - 1 /\ \A i \in 1..(at - 1) : a[i] = q[i]
    BY SMTT(20), <1>q, <2>2
  <2>4. b \in Seq(Conns) /\ Len(b) = Len(q) - at /\ \A i \in 1..(Len(q) - at) : b[i] = q[at + i]
    <3>1. at \in Nat /\ at <= Len(q)
      BY SMTT(20), <1>q, <2>2
    <3> QED
      BY <1>q, <3>1, Behind
  <2>5. Without(q, c) = w
    BY <1>2, <2>1 DEF Without
  <2> HIDE DEF a, b
  <2>6. w \in Seq(Conns) /\ Len(w) = Len(q) - 1
    <3>1. w \in Seq(Conns) /\ Len(w) = Len(a) + Len(b)
      BY <2>3, <2>4, Joined
    <3> HIDE DEF w
    <3> QED
      BY SMTT(20), <1>q, <2>2, <2>3, <2>4, <3>1
  <2>7. \A i \in 1..(Len(q) - 1) : w[i] = IF i < at THEN q[i] ELSE q[i + 1]
    <3> SUFFICES ASSUME NEW i \in 1..(Len(q) - 1)
                 PROVE  w[i] = IF i < at THEN q[i] ELSE q[i + 1]
      OBVIOUS
    <3>1. CASE i < at
      BY SMTT(20), <1>q, <2>2, <2>3, <2>4, <3>1
    <3>2. CASE ~(i < at)
      <4>1. w[i] = b[i - (at - 1)] /\ i - (at - 1) \in 1..(Len(q) - at)
        BY SMTT(20), <1>q, <2>2, <2>3, <2>4, <3>2
      <4>2. at + (i - (at - 1)) = i + 1
        BY SMTT(20), <1>q, <2>2
      <4> QED
        BY <2>4, <3>2, <4>1, <4>2
    <3> QED
      BY <3>1, <3>2
  <2> HIDE DEF w
  <2>8. Line(w)
    BY SMTT(20), <1>q, <2>2, <2>6, <2>7 DEF Line
  <2>9. DOMAIN w = 1..(Len(q) - 1)
    BY SMTT(20), <1>q, <2>6
  <2>10. ASSUME NEW d \in Conns PROVE d \in Range(w) <=> d # c /\ d \in Range(q)
    <3>1. ASSUME d \in Range(w) PROVE d # c /\ d \in Range(q)
      <4>1. PICK i \in 1..(Len(q) - 1) : w[i] = d
        BY <2>9, <3>1 DEF Range
      <4>2. PICK j \in 1..Len(q) : j # at /\ q[j] = d
        BY SMTT(20), <1>q, <2>2, <2>7, <4>1
      <4> QED
        BY <1>q, <2>2, <4>2 DEF Line, Range
    <3>2. ASSUME d # c, d \in Range(q) PROVE d \in Range(w)
      <4>1. PICK j \in 1..Len(q) : j # at /\ q[j] = d
        BY <1>q, <2>2, <3>2 DEF Range
      <4>2. \E i \in 1..(Len(q) - 1) : w[i] = d
        <5>1. CASE j < at
          BY SMTT(20), <1>q, <2>2, <2>7, <4>1, <5>1
        <5>2. CASE at < j
          <6>1. j - 1 \in 1..(Len(q) - 1) /\ ~(j - 1 < at) /\ (j - 1) + 1 = j
            BY SMTT(20), <1>q, <2>2, <5>2
          <6> QED
            BY <2>7, <4>1, <6>1
        <5> QED
          BY SMTT(20), <1>q, <2>2, <4>1, <5>1, <5>2
      <4> QED
        BY <2>9, <4>2 DEF Range
    <3> QED
      BY <3>1, <3>2
  <2> QED
    BY <2>5, <2>8, <2>10
<1> QED
  BY <1>1, <1>2

\* Joining a line at its end.
LEMMA AppendLine ==
  ASSUME NEW q, Line(q), NEW c \in Conns, c \notin Range(q)
  PROVE  /\ Line(Append(q, c))
         /\ \A d \in Conns : d \in Range(Append(q, c)) <=> d = c \/ d \in Range(q)
<1> DEFINE w == Append(q, c)
<1>q. q \in Seq(Conns) /\ Len(q) \in Nat /\ DOMAIN q = 1..Len(q)
  BY SMTT(20) DEF Line
<1>1. /\ w \in Seq(Conns) /\ Len(w) = Len(q) + 1 /\ DOMAIN w = 1..(Len(q) + 1)
      /\ w[Len(q) + 1] = c /\ \A i \in 1..Len(q) : w[i] = q[i]
  BY SMTT(20), <1>q
<1>2. \A i \in 1..Len(q) : q[i] # c
  BY <1>q DEF Range
<1> HIDE DEF w
<1>3. Line(w)
  BY SMTT(20), <1>q, <1>1, <1>2 DEF Line
<1>4. \A d \in Conns : d \in Range(w) <=> d = c \/ d \in Range(q)
  BY SMTT(20), <1>q, <1>1 DEF Range
<1> QED
  BY <1>3, <1>4 DEF w

\* The stage in which a permit of each kind is held, the one in which it is waited
\* for, and how many there are.
Using(k) == IF k = "dns" THEN "lookup" ELSE "dial"

Waiting(k) == IF k = "dns" THEN "dnsWait" ELSE "dialWait"

Limit(k) == IF k = "dns" THEN MaxDns ELSE MaxDials

\* The inductive invariant of permits and lines.
LineInv ==
  \A k \in Kinds :
    /\ IsFiniteSet(permits[k]) /\ Cardinality(permits[k]) <= Limit(k)
    /\ Line(queue[k])
    /\ \A c \in Conns : /\ c \in permits[k] <=> conn[c].at = Using(k)
                        /\ c \in Range(queue[k]) <=> conn[c].at = Waiting(k)

\* The permits and places of a stage.
Fits(stage, held, queued) ==
  \A k \in Kinds : (k \in held <=> stage = Using(k)) /\ (k \in queued <=> stage = Waiting(k))

\* c has the permit, or there is one for it.
Available(c, k) == c \in permits[k] \/ Cardinality(permits[k]) < Limit(k)

\* c goes on to a stage with what belongs to it.
Passes(c) ==
  \E r, held, queued :
    /\ Go(c, r, held, queued) /\ Fits(r.at, held, queued)
    /\ \A k \in Kinds : k \in held => Available(c, k)

\* Go, called so, keeps the invariant.
LEMMA PassKeepsLines ==
  ASSUME LineInv, conn = [d \in Conns |-> conn[d]], NEW c \in Conns, Passes(c)
  PROVE  LineInv'
<1>1. PICK r, held, queued :
        /\ Go(c, r, held, queued) /\ Fits(r.at, held, queued)
        /\ \A k \in Kinds : k \in held => Available(c, k)
  BY DEF Passes
<1>2. conn'[c] = r /\ \A d \in Conns \ {c} : conn'[d] = conn[d]
  BY <1>1 DEF Go
<1> SUFFICES ASSUME NEW k \in Kinds
             PROVE  /\ IsFiniteSet(permits'[k]) /\ Cardinality(permits'[k]) <= Limit(k)
                    /\ Line(queue'[k])
                    /\ \A d \in Conns : /\ d \in permits'[k] <=> conn'[d].at = Using(k)
                                        /\ d \in Range(queue'[k]) <=> conn'[d].at = Waiting(k)
  BY DEF LineInv, Line, Limit, Using, Waiting, Range
<1>3. /\ permits'[k] = IF k \in held THEN permits[k] \cup {c} ELSE permits[k] \ {c}
      /\ queue'[k] = IF k \in queued THEN Append(Without(queue[k], c), c)
                                     ELSE Without(queue[k], c)
  BY <1>1 DEF Go
<1>4. /\ k \in held <=> r.at = Using(k)
      /\ k \in queued <=> r.at = Waiting(k)
      /\ k \in held => Available(c, k)
  BY <1>1 DEF Fits
<1>5. /\ IsFiniteSet(permits[k]) /\ Cardinality(permits[k]) <= Limit(k) /\ Line(queue[k])
      /\ \A d \in Conns : /\ d \in permits[k] <=> conn[d].at = Using(k)
                          /\ d \in Range(queue[k]) <=> conn[d].at = Waiting(k)
  BY DEF LineInv
<1>6. Limit(k) \in Nat /\ Cardinality(permits[k]) \in Nat
  BY <1>5, HandshakeAssumption, FS_CardinalityType DEF Limit
<1>7. IsFiniteSet(permits'[k]) /\ Cardinality(permits'[k]) <= Limit(k)
  <2>1. CASE k \in held
    <3>1. c \in permits[k] \/ Cardinality(permits[k]) < Limit(k)
      BY <1>4, <2>1 DEF Available
    <3>2. /\ IsFiniteSet(permits[k] \cup {c})
          /\ Cardinality(permits[k] \cup {c}) =
               IF c \in permits[k] THEN Cardinality(permits[k]) ELSE Cardinality(permits[k]) + 1
      BY <1>5, FS_AddElement
    <3> QED
      BY SMTT(20), <1>3, <1>5, <1>6, <2>1, <3>1, <3>2
  <2>2. CASE k \notin held
    <3>1. /\ IsFiniteSet(permits[k] \ {c})
          /\ Cardinality(permits[k] \ {c}) =
               IF c \in permits[k] THEN Cardinality(permits[k]) - 1 ELSE Cardinality(permits[k])
      BY <1>5, FS_RemoveElement
    <3> QED
      BY SMTT(20), <1>3, <1>5, <1>6, <2>2, <3>1
  <2> QED
    BY <2>1, <2>2
<1>8. /\ Line(Without(queue[k], c))
      /\ \A d \in Conns : d \in Range(Without(queue[k], c)) <=> d # c /\ d \in Range(queue[k])
  BY <1>5, WithoutLine
<1>9. /\ Line(queue'[k])
      /\ \A d \in Conns : d \in Range(queue'[k]) <=>
                            IF d = c THEN k \in queued ELSE d \in Range(queue[k])
  <2>1. CASE k \in queued
    <3> DEFINE q == Without(queue[k], c)
    <3> HIDE DEF q
    <3>1. Line(q) /\ c \notin Range(q)
      BY <1>8 DEF q
    <3>2. Line(Append(q, c)) /\ \A d \in Conns : d \in Range(Append(q, c)) <=> d = c \/ d \in Range(q)
      BY <3>1, AppendLine
    <3>3. queue'[k] = Append(q, c)
      BY <1>3, <2>1 DEF q
    <3> QED
      BY <1>8, <2>1, <3>2, <3>3 DEF q
  <2>2. CASE k \notin queued
    BY <1>3, <1>8, <2>2
  <2> QED
    BY <2>1, <2>2
<1>10. ASSUME NEW d \in Conns
       PROVE  /\ d \in permits'[k] <=> conn'[d].at = Using(k)
              /\ d \in Range(queue'[k]) <=> conn'[d].at = Waiting(k)
  <2>1. CASE d = c
    BY <1>2, <1>3, <1>4, <1>9, <2>1
  <2>2. CASE d # c
    BY <1>2, <1>3, <1>5, <1>9, <2>2
  <2> QED
    BY <2>1, <2>2
<1> QED
  BY <1>7, <1>9, <1>10

\* What Passes asks for.
LEMMA PassesWith ==
  ASSUME NEW c \in Conns, NEW r, NEW held, NEW queued,
         Go(c, r, held, queued), Fits(r.at, held, queued),
         \A k \in Kinds : k \in held => Available(c, k)
  PROVE  Passes(c)
BY DEF Passes

\* deny, reject_without_response and the ends of a task give everything back.
LEMMA EndPasses ==
  ASSUME NEW c \in Conns, NEW e \in Ends, Go(c, Blank(e), {}, {})
  PROVE  Passes(c)
<1>1. Blank(e).at = e
  BY DEF Blank
<1>2. Fits(e, {}, {})
  BY DEF Fits, Using, Waiting, Ends
<1>3. Fits(Blank(e).at, {}, {}) /\ \A k \in Kinds : k \in {} => Available(c, k)
  BY <1>1, <1>2
<1> QED
  BY SMTT(20), <1>3, PassesWith

\* complete_before_deadline holds what its wait needs, or refuses.
LEMMA AwaitPasses ==
  ASSUME NEW c \in Conns, NEW r, "at" \in DOMAIN r, NEW at, NEW u, NEW held, NEW queued,
         Fits(at, held, queued), \A k \in Kinds : k \in held => Available(c, k),
         Await(c, r, at, u, held, queued)
  PROVE  Passes(c)
<1> DEFINE s == [r EXCEPT !.at = at, !.until = u]
<1>1. CASE Deny(c)
  BY <1>1, EndPasses DEF Deny, Ends
<1>2. CASE Go(c, s, held, queued)
  <2>1. s.at = at
    OBVIOUS
  <2> HIDE DEF s
  <2>2. Fits(s.at, held, queued)
    BY <2>1
  <2> QED
    BY <1>2, <2>2, PassesWith
<1> QED
  BY <1>1, <1>2 DEF Await

\* dial_approved_addresses keeps the dial permit for the next attempt, or gives up.
LEMMA AttemptPasses ==
  ASSUME NEW c \in Conns, NEW r, "at" \in DOMAIN r, Available(c, "dial"), NextAttempt(c, r)
  PROVE  Passes(c)
<1>1. CASE Deny(c)
  BY <1>1, EndPasses DEF Deny, Ends
<1>2. ASSUME NEW u, Go(c, [r EXCEPT !.at = "dial", !.until = u], {"dial"}, {}) PROVE Passes(c)
  <2> DEFINE s == [r EXCEPT !.at = "dial", !.until = u]
  <2>1. s.at = "dial"
    OBVIOUS
  <2>2. Go(c, s, {"dial"}, {})
    BY <1>2
  <2> HIDE DEF s
  <2>3. Fits(s.at, {"dial"}, {}) /\ \A k \in Kinds : k \in {"dial"} => Available(c, k)
    BY <2>1 DEF Fits, Using, Waiting, Kinds
  <2> QED
    BY <2>2, <2>3, PassesWith
<1> QED
  BY <1>1, <1>2 DEF NextAttempt

\* Every step of a task passes it on with what belongs to its new stage.
LEMMA StepPasses ==
  ASSUME NEW c \in Conns, DialInv, LineInv,
         \/ Start(c) \/ Header(c) \/ GrantDns(c) \/ Lookup(c) \/ GrantDial(c) \/ Dialled(c)
         \/ DialFailed(c) \/ Respond(c) \/ First(c) \/ TunnelEnd(c) \/ Timeout(c) \/ Cancelled(c)
  PROVE  Passes(c)
<1>r. conn[c] \in ConnRecord /\ "at" \in DOMAIN conn[c]
  <2>1. conn[c] \in ConnRecord
    BY DEF DialInv, Good
  <2> QED
    BY <2>1 DEF ConnRecord
<1>n. /\ Fits("header", {}, {}) /\ Fits("respond", {}, {}) /\ Fits("first", {}, {})
      /\ Fits("tunnel", {}, {}) /\ Fits("dialWait", {}, {"dial"}) /\ Fits("dnsWait", {}, {"dns"})
      /\ Fits("lookup", {"dns"}, {})
  BY DEF Fits, Using, Waiting, Kinds
<1>d. Deny(c) => Passes(c)
  BY EndPasses DEF Deny, Ends
<1>e. \A e \in Ends : Go(c, Blank(e), {}, {}) => Passes(c)
  BY EndPasses
<1>w. ASSUME NEW list, WantDial(c, list) PROVE Passes(c)
  <2> DEFINE r == [conn[c] EXCEPT !.todo = list]
  <2>1. "at" \in DOMAIN r
    BY <1>r
  <2>2. Await(c, r, "dialWait", conn[c].deadline, {}, {"dial"})
    BY <1>w DEF WantDial
  <2> HIDE DEF r
  <2> QED
    BY SMTT(20), <1>n, <2>1, <2>2, AwaitPasses
<1>1. CASE Start(c)
  <2>1. ASSUME NEW d, NEW u, Await(c, [conn[c] EXCEPT !.deadline = d], "header", u, {}, {})
        PROVE  Passes(c)
    <3> DEFINE r == [conn[c] EXCEPT !.deadline = d]
    <3>1. "at" \in DOMAIN r
      BY <1>r
    <3>2. Await(c, r, "header", u, {}, {})
      BY <2>1
    <3> HIDE DEF r
    <3> QED
      BY SMTT(20), <1>n, <3>1, <3>2, AwaitPasses
  <2> QED
    BY <1>1, <1>d, <2>1 DEF Start
<1>2. CASE Header(c)
  <2>1. CASE Await(c, conn[c], "dnsWait", DnsDeadline(c), {}, {"dns"})
    BY SMTT(20), <1>n, <1>r, <2>1, AwaitPasses
  <2> QED
    BY <1>2, <1>d, <1>w, <2>1 DEF Header
<1>3. CASE GrantDns(c)
  <2>1. Await(c, conn[c], "lookup", conn[c].until, {"dns"}, {})
    BY <1>3 DEF GrantDns
  <2>2. \A k \in Kinds : k \in {"dns"} => Available(c, k)
    BY <1>3 DEF GrantDns, Granted, Available, Limit
  <2> QED
    BY <1>n, <1>r, <2>1, <2>2, AwaitPasses
<1>4. CASE Lookup(c)
  BY <1>4, <1>d, <1>w DEF Lookup
<1>5. CASE GrantDial(c)
  <2>1. Available(c, "dial")
    BY <1>5 DEF GrantDial, Granted, Available, Limit
  <2>2. PICK s : NextAttempt(c, [conn[c] EXCEPT !.share = s])
    BY <1>5 DEF GrantDial
  <2> DEFINE r == [conn[c] EXCEPT !.share = s]
  <2>3. "at" \in DOMAIN r /\ NextAttempt(c, r)
    BY <1>r, <2>2
  <2> HIDE DEF r
  <2> QED
    BY <2>1, <2>3, AttemptPasses
<1>6. CASE Dialled(c)
  BY SMTT(20), <1>6, <1>n, <1>r, AwaitPasses DEF Dialled
<1>7. CASE DialFailed(c)
  <2>1. Available(c, "dial")
    BY <1>7 DEF DialFailed, Available, LineInv, Using, Kinds
  <2>2. PICK list : NextAttempt(c, [conn[c] EXCEPT !.todo = list])
    BY <1>7 DEF DialFailed
  <2> DEFINE r == [conn[c] EXCEPT !.todo = list]
  <2>3. "at" \in DOMAIN r /\ NextAttempt(c, r)
    BY <1>r, <2>2
  <2> HIDE DEF r
  <2> QED
    BY <2>1, <2>3, AttemptPasses
<1>8. CASE Respond(c)
  <2>1. CASE Await(c, conn[c], "first", conn[c].deadline, {}, {})
    BY SMTT(20), <1>n, <1>r, <2>1, AwaitPasses
  <2> QED
    BY <1>8, <1>e, <2>1 DEF Respond, Ends
<1>9. CASE First(c)
  <2>1. CASE Go(c, [conn[c] EXCEPT !.at = "tunnel"], {}, {})
    <3> DEFINE r == [conn[c] EXCEPT !.at = "tunnel"]
    <3>1. r.at = "tunnel"
      BY <1>r
    <3>2. Go(c, r, {}, {})
      BY <2>1
    <3> HIDE DEF r
    <3>3. Fits(r.at, {}, {}) /\ \A k \in Kinds : k \in {} => Available(c, k)
      BY <1>n, <3>1
    <3> QED
      BY SMTT(20), <3>2, <3>3, PassesWith
  <2> QED
    BY <1>9, <1>d, <2>1 DEF First
<1>10. CASE TunnelEnd(c)
  BY <1>10, <1>e DEF TunnelEnd, Ends
<1>11. CASE Timeout(c)
  BY <1>11, <1>d DEF Timeout
<1>12. CASE Cancelled(c)
  BY <1>12, <1>e DEF Cancelled, Ends
<1> QED
  BY <1>1, <1>2, <1>3, <1>4, <1>5, <1>6, <1>7, <1>8, <1>9, <1>10, <1>11, <1>12

\* The invariant of permits and lines holds in every reachable state.
THEOREM LineInvariant == Spec => []LineInv
<1>1. Init => LineInv
  <2> SUFFICES ASSUME Init, NEW k \in Kinds
               PROVE  /\ IsFiniteSet(permits[k]) /\ Cardinality(permits[k]) <= Limit(k)
                      /\ Line(queue[k])
                      /\ \A c \in Conns : /\ c \in permits[k] <=> conn[c].at = Using(k)
                                          /\ c \in Range(queue[k]) <=> conn[c].at = Waiting(k)
    BY DEF LineInv
  <2>1. permits[k] = {} /\ queue[k] = <<>> /\ \A c \in Conns : conn[c].at = "away"
    BY DEF Init, Blank
  <2>2. IsFiniteSet(permits[k]) /\ Cardinality(permits[k]) = 0
    BY <2>1, FS_EmptySet
  <2>3. Line(<<>>) /\ \A c \in Conns : c \notin Range(<<>>)
    <3>1. <<>> \in Seq(Conns) /\ Len(<<>>) = 0 /\ DOMAIN <<>> = {}
      BY SMTT(20)
    <3> QED
      BY SMTT(20), <3>1 DEF Line, Range
  <2>4. Limit(k) \in Nat
    BY HandshakeAssumption DEF Limit
  <2> QED
    BY SMTT(20), <2>1, <2>2, <2>3, <2>4 DEF Using, Waiting
<1>2. DialInv /\ LineInv /\ [Next]_vars => LineInv'
  <2> SUFFICES ASSUME DialInv, LineInv, [Next]_vars PROVE LineInv'
    OBVIOUS
  <2>1. ASSUME permits' = permits, queue' = queue,
               \A c \in Conns : \/ conn'[c].at = conn[c].at
                                \/ conn[c].at = "away" /\ conn'[c].at = "start"
        PROVE  LineInv'
    <3>1. \A c \in Conns, k \in Kinds :
            /\ conn'[c].at = Using(k) <=> conn[c].at = Using(k)
            /\ conn'[c].at = Waiting(k) <=> conn[c].at = Waiting(k)
      BY <2>1 DEF Using, Waiting
    <3> QED
      BY <2>1, <3>1 DEF LineInv, Line
  <2>2. CASE UNCHANGED vars \/ Tick \/ Cancel
    BY <2>1, <2>2 DEF vars, Tick, Cancel
  <2>3. ASSUME NEW c \in Conns, Accept(c) PROVE LineInv'
    <3>1. PICK r : conn' = [conn EXCEPT ![c] = r] /\ r.at = "start"
      <4>1. PICK h \in HandshakeTimeouts :
              conn' = [conn EXCEPT ![c] = [Blank("start") EXCEPT !.deadline = h, !.until = now]]
        BY <2>3 DEF Accept
      <4>2. [Blank("start") EXCEPT !.deadline = h, !.until = now].at = "start"
        BY DEF Blank
      <4> QED
        BY <4>1, <4>2
    <3>2. \A d \in Conns : conn'[d].at = conn[d].at \/ (conn[d].at = "away" /\ conn'[d].at = "start")
      BY <2>3, <3>1 DEF Accept, DialInv
    <3> QED
      BY <2>1, <2>3, <3>2 DEF Accept
  <2>4. ASSUME NEW c \in Conns,
               \/ Start(c) \/ Header(c) \/ GrantDns(c) \/ Lookup(c) \/ GrantDial(c) \/ Dialled(c)
               \/ DialFailed(c) \/ Respond(c) \/ First(c) \/ TunnelEnd(c) \/ Timeout(c)
               \/ Cancelled(c)
        PROVE  LineInv'
    <3>1. Passes(c)
      BY <2>4, StepPasses
    <3> QED
      BY <3>1, PassKeepsLines DEF DialInv
  <2> QED
    BY <2>2, <2>3, <2>4 DEF Next
<1> QED
  BY <1>1, <1>2, DialInvariant, PTL DEF Spec

\* A permit is held exactly while a lookup or a dial is in progress and a place in
\* line exactly while waiting, for any number of connections and permits: every
\* timeout, denial and cancellation of serve_connect gives them back.
THEOREM PermitsAreFollowed == Spec => []PermitsFollowStages
<1>1. LineInv => PermitsFollowStages
  BY DEF LineInv, PermitsFollowStages, Using, Waiting, Limit, Kinds
<1> QED
  BY <1>1, LineInvariant, PTL

-------------------------------------------------------------------------------
\* A read appends the bytes that follow in the stream.
LEMMA Extended ==
  ASSUME NEW s \in Seq(Nat), NEW e \in Nat, NEW p \in Nat, NEW n \in Nat, e <= p, p + n <= Len(s)
  PROVE  SubSeq(s, e + 1, p) \o SubSeq(s, p + 1, p + n) = SubSeq(s, e + 1, p + n)
BY SMTT(20)

\* The first bytes of the stream, as the header buffer holds them.
LEMMA Prefix ==
  ASSUME NEW s \in Seq(Nat), NEW p \in 0..Len(s)
  PROVE  /\ SubSeq(s, 1, p) \in Seq(Nat) /\ Len(SubSeq(s, 1, p)) = p
         /\ \A i \in 1..p : SubSeq(s, 1, p)[i] = s[i]
BY SMTT(20)

\* A part of them is a part of the stream.
LEMMA Part ==
  ASSUME NEW s \in Seq(Nat), NEW p \in 0..Len(s), NEW i \in Nat \ {0}, NEW j \in Nat, j <= p
  PROVE  SubSeq(SubSeq(s, 1, p), i, j) = SubSeq(s, i, j)
BY SMTT(20)

\* Any part of the stream is a sequence of bytes.
LEMMA Slice ==
  ASSUME NEW s \in Seq(Nat), NEW e \in Nat, NEW p \in Nat, e <= p, p <= Len(s)
  PROVE  SubSeq(s, e + 1, p) \in Seq(Nat) /\ Len(SubSeq(s, e + 1, p)) = p - e
BY SMTT(20)

\* The least of three numbers is one of them and no more than the third.
LEMMA LeastOfThree ==
  ASSUME NEW x \in Int, NEW y \in Int, NEW z \in Int
  PROVE  Min({x, y, z}) \in Int /\ Min({x, y, z}) <= z
<1> DEFINE T == {x, y, z}
<1>1. \E m \in T : \A k \in T : m <= k
  <2>1. \E m \in T : m <= x /\ m <= y /\ m <= z
    BY SMTT(20)
  <2> QED
    BY <2>1
<1>2. Min(T) \in T /\ \A k \in T : Min(T) <= k
  BY <1>1 DEF Min
<1> QED
  BY <1>2

-------------------------------------------------------------------------------
(***************************************************************************)
(* The framer.                                                             *)
(***************************************************************************)

\* The first p bytes of the stream have a delimiter at i just when the stream does.
LEMMA SameDelimiters ==
  ASSUME Stream \in Seq(Nat), NEW p \in 0..Len(Stream), NEW i \in Nat \ {0}, i + 3 <= p
  PROVE  AtDelimiter(SubSeq(Stream, 1, p), i) <=> i \in Delimiters
<1>1. SubSeq(SubSeq(Stream, 1, p), i, i + 3) = SubSeq(Stream, i, i + 3)
  <2>1. i + 3 \in Nat
    BY SMTT(20)
  <2> QED
    BY <2>1, Part
<1>2. i \in 1..(Len(Stream) - 3)
  BY SMTT(20)
<1> QED
  BY <1>1, <1>2 DEF AtDelimiter, Delimiters

\* No delimiter ends within the first p bytes.
Bare(p) == \A i \in Delimiters : i + 3 > p

\* The first delimiter ends at e.
FirstEnd(e) == e - 3 \in Delimiters /\ \A i \in Delimiters : e - 3 <= i

\* What a read of n bytes finds by looking at them and at three older ones.
LEMMA Found ==
  ASSUME Stream \in Seq(Nat), NEW p \in Nat, NEW n \in Nat, p + n <= Len(Stream), Bare(p),
         NEW found, found = find_header_end(SubSeq(Stream, 1, p + n), ScanFrom(p))
  PROVE  /\ found = {} => Bare(p + n)
         /\ \A e \in found : e \in Nat /\ e <= p + n /\ FirstEnd(e)
<1> DEFINE b == SubSeq(Stream, 1, p + n)
           F == {i \in (ScanFrom(p) + 1)..(Len(b) - 3) : AtDelimiter(b, i)}
<1>0. Len(b) = p + n /\ p + n \in 0..Len(Stream)
  <2>1. p + n \in 0..Len(Stream)
    BY SMTT(20)
  <2> QED
    BY <2>1, Prefix
<1>1. ScanFrom(p) \in Nat /\ \A i \in Nat : i + 3 > p => i >= ScanFrom(p) + 1 \/ i = 0
  BY SMTT(20) DEF ScanFrom
<1>2. Delimiters \subseteq Nat \ {0}
  BY SMTT(20) DEF Delimiters
<1>3. \A i \in F : i \in Nat \ {0} /\ i + 3 <= p + n
  BY SMTT(20), <1>0, <1>1
<1>4. F \subseteq Delimiters
  <2> SUFFICES ASSUME NEW i \in F PROVE i \in Delimiters
    OBVIOUS
  <2> QED
    BY <1>0, <1>3, SameDelimiters
<1>5. ASSUME NEW i \in Delimiters, i + 3 <= p + n PROVE i \in F
  <2>1. AtDelimiter(b, i)
    BY <1>0, <1>2, <1>5, SameDelimiters
  <2>2. i + 3 > p
    BY DEF Bare
  <2>3. i \in Nat \ {0}
    BY <1>2
  <2>4. i \in (ScanFrom(p) + 1)..(Len(b) - 3)
    BY SMTT(20), <1>0, <1>1, <1>5, <2>2, <2>3
  <2> QED
    BY <2>1, <2>4
<1>6. found = IF F = {} THEN {} ELSE {Min(F) + 3}
  BY DEF find_header_end
<1> HIDE DEF F
<1>7. CASE F = {}
  <2>1. found = {}
    BY <1>6, <1>7
  <2>2. ASSUME NEW i \in Delimiters PROVE i + 3 > p + n
    <3>1. ~(i + 3 <= p + n) /\ i \in Nat
      BY <1>2, <1>5, <1>7
    <3> QED
      BY SMTT(20), <3>1
  <2> QED
    BY <2>1, <2>2 DEF Bare
<1>8. CASE F # {}
  <2>1. Min(F) \in F /\ \A y \in F : Min(F) <= y
    BY <1>3, <1>8, LeastIsMin
  <2> DEFINE m == Min(F)
  <2>2. m \in Nat /\ m \in Delimiters /\ m + 3 <= p + n
    BY <1>3, <1>4, <2>1
  <2>3. ASSUME NEW i \in Delimiters PROVE m <= i
    <3>1. CASE i + 3 <= p + n
      BY <1>5, <2>1, <3>1
    <3>2. CASE ~(i + 3 <= p + n)
      <4>1. i \in Nat
        BY <1>2
      <4> HIDE DEF m
      <4> QED
        BY SMTT(20), <2>2, <3>2, <4>1
    <3> QED
      BY <3>1, <3>2
  <2>4. found = {m + 3}
    BY <1>6, <1>8
  <2> HIDE DEF m
  <2>5. m + 3 \in Nat /\ (m + 3) - 3 = m
    BY SMTT(20), <2>2
  <2> QED
    BY <2>2, <2>3, <2>4, <2>5 DEF FirstEnd
<1> QED
  BY <1>7, <1>8

\* A header the parser takes has no shorter part that is a whole request.
LEMMA NoShorterRequest ==
  ASSUME Stream \in Seq(Nat), NEW e \in 0..Len(Stream), Boundary(SubSeq(Stream, 1, e)) = "none",
         NEW f \in 1..(e - 1)
  PROVE  RequestEnds(SubSeq(Stream, 1, f)) = {}
<1> DEFINE b == SubSeq(Stream, 1, e)
           a == SubSeq(Stream, 1, f)
<1>0. /\ Len(b) = e /\ \A i \in 1..e : b[i] = Stream[i]
      /\ Len(a) = f /\ \A i \in 1..f : a[i] = Stream[i]
  <2>1. f \in 0..Len(Stream)
    BY SMTT(20)
  <2> QED
    BY <2>1, Prefix
<1>n. e \in Nat /\ f \in Nat /\ f < e
  BY SMTT(20)
<1>1. HttpParse(b) = "complete"
  BY DEF Boundary
<1> HIDE DEF b, a
<1>2. RequestEnds(b) # {} /\ Min(RequestEnds(b)) = Len(b)
  BY <1>1 DEF HttpParse
<1>3. RequestEnds(b) \subseteq Nat
  BY SMTT(20), <1>0, <1>n DEF RequestEnds
<1>4. \A x \in RequestEnds(b) : e <= x
  BY <1>0, <1>2, <1>3, LeastIsMin
<1>5. ASSUME NEW x \in RequestEnds(a) PROVE x \in RequestEnds(b)
  <2>1. x \in 1..f /\ EmptyLineAt(a, x) /\ \E i \in 1..x : a[i] \notin {CR, LF}
    BY <1>0 DEF RequestEnds
  <2>2. x \in 1..e /\ \A i \in 1..x : a[i] = b[i]
    BY SMTT(20), <1>0, <1>n, <2>1
  <2>3. /\ x \in Nat /\ x \in 1..x /\ (x # 1 => x - 1 \in 1..x) /\ (x # 1 /\ x # 2 => x - 2 \in 1..x)
    BY SMTT(20), <1>n, <2>1
  <2>4. EmptyLineAt(b, x)
    BY <2>1, <2>2, <2>3 DEF EmptyLineAt
  <2> QED
    BY <1>0, <2>1, <2>2, <2>4 DEF RequestEnds
<1>6. ASSUME NEW x \in RequestEnds(a) PROVE FALSE
  <2>1. x \in 1..f
    BY <1>0 DEF RequestEnds
  <2>2. e <= x
    BY <1>4, <1>5
  <2> QED
    BY SMTT(20), <1>n, <2>1, <2>2
<1> QED
  BY <1>6 DEF a

-------------------------------------------------------------------------------
\* The positions of the reader.  While the header is read, and until the hello is,
\* the buffer holds all that was taken from the socket.
PreambleInv ==
  /\ input \in Inputs /\ pos \in 0..Len(Stream)
  /\ Len(bytes) \in 0..pos /\ bytes = SubSeq(Stream, 1, Len(bytes)) /\ Len(bytes) <= MaxHeader
  /\ phase \in {"header", "parse", "hello", "write", "done"}
  /\ phase \in {"header", "parse"} => pos = Len(bytes)
  /\ phase = "header" => end = 0
  /\ phase \in {"parse", "hello", "write"} => end # 0
  /\ end = 0 => Bare(Len(bytes))
  /\ end # 0 => end \in 1..Len(bytes) /\ FirstEnd(end)
  /\ outcome = "header-too-large" => end = 0 /\ Len(bytes) >= MaxHeader
  /\ outcome = "header-eof" => end = 0 /\ Len(bytes) = Len(Stream)
  /\ phase \in {"hello", "write"} \/ upstream # <<>> => end # 0 /\ Boundary(SubSeq(bytes, 1, end)) = "none"
  /\ phase # "done" => upstream = <<>> /\ outcome = "none"
  /\ phase = "hello" => tls # "disabled" /\ wire = SubSeq(Stream, end + 1, pos)
  /\ phase = "write" => /\ FirstUpload = SubSeq(Stream, end + 1, pos)
                        /\ tls # "disabled" => input.hello.valid /\ fed >= input.hello.complete
  /\ ForwardedInOrder

\* Each part of the boundary that the reader has decided.
LEMMA BoundaryHolds == PreambleInv => OneBoundary
<1> SUFFICES ASSUME PreambleInv PROVE OneBoundary
  OBVIOUS
<1>0. Stream \in Seq(Nat) /\ Delimiters \subseteq Nat
  <2>1. Stream \in Seq(Nat)
    BY PreambleAssumption DEF PreambleInv, Stream
  <2> QED
    BY SMTT(20), <2>1 DEF Delimiters
<1>n. Len(Stream) \in Nat /\ pos \in Nat /\ pos <= Len(Stream) /\ Len(bytes) \in Nat /\ Len(bytes) <= pos /\ MaxHeader \in Nat
  <2>1. Len(Stream) \in Nat /\ MaxHeader \in Nat
    BY SMTT(20), <1>0, PreambleAssumption
  <2>2. pos \in 0..Len(Stream) /\ Len(bytes) \in 0..pos
    BY DEF PreambleInv
  <2> HIDE DEF PreambleInv
  <2> QED
    BY SMTT(20), <2>1, <2>2
<1>1. ASSUME end # 0
      PROVE  Delimiters # {} /\ end = Min(Delimiters) + 3 /\ end <= MaxHeader
  <2>1. end \in 1..Len(bytes) /\ end - 3 \in Delimiters /\ (\A i \in Delimiters : end - 3 <= i)
        /\ Len(bytes) <= MaxHeader
    BY <1>1 DEF PreambleInv, FirstEnd
  <2>2. Min(Delimiters) \in Delimiters /\ Min(Delimiters) <= end - 3
    BY <1>0, <2>1, LeastIsMin
  <2>3. end - 3 <= Min(Delimiters) /\ Min(Delimiters) \in Nat /\ end \in Nat /\ end <= MaxHeader
    <3>1. end - 3 <= Min(Delimiters) /\ Min(Delimiters) \in Nat
      BY <1>0, <2>1, <2>2
    <3>2. end \in Nat /\ end <= MaxHeader
      BY SMTT(20), <1>n, <2>1
    <3> QED
      BY <3>1, <3>2
  <2>4. end = Min(Delimiters) + 3
    BY SMTT(20), <2>2, <2>3
  <2> QED
    BY <2>1, <2>3, <2>4
<1>2. ASSUME outcome = "header-too-large", NEW i \in Delimiters PROVE i + 3 > MaxHeader
  <2>1. i + 3 > Len(bytes) /\ Len(bytes) >= MaxHeader /\ i \in Nat
    BY <1>0, <1>2 DEF PreambleInv, Bare
  <2> QED
    BY SMTT(20), <1>n, <2>1
<1>3. ASSUME outcome = "header-eof", NEW i \in Delimiters PROVE FALSE
  <2>1. i + 3 > Len(Stream)
    BY <1>3 DEF PreambleInv, Bare
  <2>2. i \in 1..(Len(Stream) - 3)
    BY DEF Delimiters
  <2> QED
    BY SMTT(20), <1>n, <2>1, <2>2
<1>4. ASSUME phase \in {"hello", "write"} \/ upstream # <<>>, NEW e \in 1..(end - 1)
      PROVE  RequestEnds(SubSeq(Stream, 1, e)) = {}
  <2>1. end \in 1..Len(bytes) /\ Boundary(SubSeq(bytes, 1, end)) = "none" /\ bytes = SubSeq(Stream, 1, Len(bytes))
    BY <1>4 DEF PreambleInv
  <2>2. end \in Nat /\ end <= Len(bytes) /\ end \in 0..Len(Stream) /\ Len(bytes) \in 0..Len(Stream)
    BY SMTT(20), <1>n, <2>1
  <2>3. SubSeq(SubSeq(Stream, 1, Len(bytes)), 1, end) = SubSeq(Stream, 1, end)
    <3>1. 1 \in Nat \ {0}
      BY SMTT(20)
    <3> QED
      BY <1>0, <2>2, <3>1, Part
  <2>4. Boundary(SubSeq(Stream, 1, end)) = "none"
    BY <2>1, <2>3
  <2> QED
    BY <1>0, <1>4, <2>2, <2>4, NoShorterRequest
<1> QED
  BY <1>1, <1>2, <1>3, <1>4 DEF OneBoundary

-------------------------------------------------------------------------------
\* Nothing is a first part of every upload.
LEMMA NothingFirst ==
  ASSUME NEW u \in Seq(Nat) PROVE Leads(<<>>, u)
<1>1. 0 \in 0..Len(u) /\ SubSeq(u, 1, 0) = <<>>
  BY SMTT(20)
<1> QED
  BY <1>1 DEF Leads

\* So is all of it.
LEMMA AllOfIt ==
  ASSUME NEW u \in Seq(Nat) PROVE Leads(u, u)
<1>1. Len(u) \in 0..Len(u) /\ SubSeq(u, 1, Len(u)) = u
  BY SMTT(20)
<1> QED
  BY <1>1 DEF Leads

\* The stream and what was read of it are sequences of bytes.
LEMMA Reader ==
  ASSUME PreambleInv
  PROVE  /\ Stream \in Seq(Nat) /\ Len(Stream) \in Nat /\ MaxHeader \in Nat
         /\ pos \in Nat /\ pos <= Len(Stream) /\ Len(bytes) \in Nat /\ Len(bytes) <= pos
         /\ end \in Nat /\ end <= Len(bytes) /\ end <= pos
         /\ SubSeq(Stream, end + 1, pos) \in Seq(Nat)
<1>1. Stream \in Seq(Nat) /\ MaxHeader \in Nat
  BY PreambleAssumption DEF PreambleInv, Stream
<1>2. pos \in 0..Len(Stream) /\ Len(bytes) \in 0..pos /\ (end # 0 => end \in 1..Len(bytes))
  BY DEF PreambleInv
<1>3. Len(Stream) \in Nat
  BY SMTT(20), <1>1
<1>4. /\ pos \in Nat /\ pos <= Len(Stream) /\ Len(bytes) \in Nat /\ Len(bytes) <= pos
      /\ end \in Nat /\ end <= Len(bytes) /\ end <= pos
  BY SMTT(20), <1>2, <1>3
<1>5. SubSeq(Stream, end + 1, pos) \in Seq(Nat)
  BY <1>1, <1>4, Slice
<1> QED
  BY <1>1, <1>3, <1>4, <1>5

\* The input stays, and with it the stream and its delimiters.
LEMMA SameInput ==
  ASSUME PreambleInv, [PreambleNext]_preambleVars
  PROVE  /\ input' = input /\ Stream' = Stream /\ tls' = tls /\ limit' = limit /\ Delimiters' = Delimiters
<1>1. input' = input
  BY DEF PreambleNext, preambleVars, ReadHeader, HeaderTooLarge, HeaderEof, HeaderReadFails, Parse,
         NotConnected, Feed, ReadHello, HelloTooLarge, HelloEof, HelloReadFails, Forward, ForwardFails
<1> QED
  BY <1>1 DEF Stream, tls, limit, Delimiters

\* A connection that ends before its first upload.
LEMMA StopStep ==
  ASSUME PreambleInv, [PreambleNext]_preambleVars, phase # "done", phase' = "done",
         UNCHANGED <<pos, bytes, end, upstream>>, outcome' # "forwarded",
         outcome' = "header-too-large" => end = 0 /\ Len(bytes) >= MaxHeader,
         outcome' = "header-eof" => end = 0 /\ Len(bytes) = Len(Stream)
  PROVE  PreambleInv'
<1>1. upstream' = <<>>
  BY DEF PreambleInv
<1>2. Leads(upstream', SubSeq(Stream', end' + 1, pos'))
  BY <1>1, Reader, SameInput, NothingFirst
<1>3. ForwardedInOrder'
  BY <1>1, <1>2 DEF ForwardedInOrder
<1>4. /\ (end = 0 => Bare(Len(bytes)))' /\ (end # 0 => end \in 1..Len(bytes) /\ FirstEnd(end))'
  BY SameInput DEF PreambleInv, Bare, FirstEnd
<1> QED
  BY <1>1, <1>3, <1>4, SameInput DEF PreambleInv

\* read_bounded_header: another read, which may complete the header.
LEMMA ReadHeaderStep ==
  ASSUME PreambleInv, ReadHeader
  PROVE  PreambleInv'
<1>i. [PreambleNext]_preambleVars
  BY DEF PreambleNext
<1>0. /\ phase = "header" /\ pos = Len(bytes) /\ bytes = SubSeq(Stream, 1, pos) /\ end = 0 /\ Bare(pos)
      /\ upstream = <<>> /\ outcome = "none" /\ Len(bytes) < MaxHeader
  BY DEF PreambleInv, ReadHeader
<1>1. PICK n \in 1..Min({MaxHeader - Len(bytes), Chunk, Len(Stream) - pos}) :
          LET b == bytes \o SubSeq(Stream, pos + 1, pos + n)
              found == find_header_end(b, ScanFrom(Len(bytes)))
          IN  /\ pos' = pos + n /\ bytes' = b
              /\ IF found = {} THEN UNCHANGED <<phase, end>>
                 ELSE phase' = "parse" /\ end' \in found
  BY DEF ReadHeader
<1>2. n \in Nat /\ pos + n <= Len(Stream) /\ pos + n <= MaxHeader
  <2> DEFINE M == {MaxHeader - Len(bytes), Chunk, Len(Stream) - pos}
  <2>1. M \subseteq Nat
    BY SMTT(20), <1>0, Reader, PreambleAssumption
  <2>2. Min(M) \in M /\ Min(M) <= MaxHeader - Len(bytes) /\ Min(M) <= Len(Stream) - pos
    BY <2>1, LeastIsMin
  <2> DEFINE k == Min(M)
  <2>3. k \in Nat /\ n \in 1..k /\ k <= MaxHeader - pos /\ k <= Len(Stream) - pos
    BY <1>0, <2>1, <2>2
  <2> HIDE DEF k
  <2> QED
    BY SMTT(20), <2>3, Reader
<1>3. pos \in Nat /\ pos + n \in Nat /\ pos + n \in 0..Len(Stream)
  BY SMTT(20), <1>2, Reader
<1>4. bytes \o SubSeq(Stream, pos + 1, pos + n) = SubSeq(Stream, 1, pos + n)
  <2>1. SubSeq(Stream, 0 + 1, pos) \o SubSeq(Stream, pos + 1, pos + n) = SubSeq(Stream, 0 + 1, pos + n)
    BY SMTT(20), <1>2, <1>3, Reader, Extended
  <2> QED
    BY SMTT(20), <1>0, <2>1
<1>5. Len(SubSeq(Stream, 1, pos + n)) = pos + n
  BY <1>3, Reader, Prefix
<1> DEFINE found == find_header_end(SubSeq(Stream, 1, pos + n), ScanFrom(pos))
<1>6. /\ pos' = pos + n /\ bytes' = SubSeq(Stream, 1, pos + n) /\ Len(bytes') = pos + n
      /\ IF found = {} THEN UNCHANGED <<phase, end>> ELSE phase' = "parse" /\ end' \in found
  BY <1>0, <1>1, <1>4, <1>5
<1>7. /\ found = {} => Bare(pos + n)
      /\ \A e \in found : e \in Nat /\ e <= pos + n /\ FirstEnd(e)
  BY <1>0, <1>2, <1>3, Reader, Found
<1> HIDE DEF found
<1>8. UNCHANGED <<outcome, wire, fed, upstream>>
  BY DEF ReadHeader
<1>9. ASSUME NEW e \in found PROVE e # 0 /\ e \in 1..(pos + n)
  <2>1. e \in Nat /\ e <= pos + n /\ e - 3 \in Delimiters
    BY <1>7 DEF FirstEnd
  <2>2. e - 3 \in 1..(Len(Stream) - 3)
    BY <2>1 DEF Delimiters
  <2> QED
    BY SMTT(20), <1>3, <2>1, <2>2, Reader
<1>10. /\ (phase = "header" => end = 0)' /\ (phase \in {"parse", "hello", "write"} => end # 0)'
       /\ (end = 0 => Bare(Len(bytes)))' /\ (end # 0 => end \in 1..Len(bytes) /\ FirstEnd(end))'
       /\ phase' \in {"header", "parse"}
  <2>1. CASE found = {}
    <3>1. phase' = "header" /\ end' = 0 /\ Bare(pos + n)
      BY <1>0, <1>6, <1>7, <2>1
    <3> QED
      BY <1>6, <1>i, <3>1, SameInput DEF Bare
  <2>2. CASE found # {}
    <3>1. phase' = "parse" /\ end' # 0 /\ end' \in 1..(pos + n) /\ FirstEnd(end')
      BY <1>6, <1>7, <1>9, <2>2
    <3> QED
      BY <1>6, <1>i, <3>1, SameInput DEF FirstEnd
  <2> QED
    BY <2>1, <2>2
<1>11. /\ (end \in Nat /\ end <= pos)'
  BY SMTT(20), <1>3, <1>6, <1>10
<1>12. SubSeq(Stream', end' + 1, pos') \in Seq(Nat)
  BY <1>i, <1>2, <1>3, <1>6, <1>11, Reader, SameInput, Slice
<1>13. ForwardedInOrder'
  BY <1>0, <1>8, <1>12, NothingFirst DEF ForwardedInOrder
<1>14. (Len(bytes) \in 0..pos)' /\ (pos \in 0..Len(Stream))'
  BY SMTT(20), <1>3, <1>6, <1>i, SameInput
<1> QED
  BY <1>i, <1>0, <1>2, <1>6, <1>8, <1>10, <1>13, <1>14, SameInput DEF PreambleInv

\* What came with the header is the first part of the upload.
LEMMA BufferedBytes ==
  ASSUME PreambleInv
  PROVE  Buffered = SubSeq(Stream, end + 1, Len(bytes))
<1>1. end + 1 \in Nat \ {0} /\ Len(bytes) \in 0..Len(Stream) /\ Len(bytes) \in Nat /\ Len(bytes) <= Len(bytes)
  BY SMTT(20), Reader
<1>2. SubSeq(SubSeq(Stream, 1, Len(bytes)), end + 1, Len(bytes)) = SubSeq(Stream, end + 1, Len(bytes))
  BY <1>1, Reader, Part
<1> QED
  BY <1>2 DEF Buffered, PreambleInv

\* The steps that go on without writing: the positions of the header stay.
LEMMA OnwardStep ==
  ASSUME PreambleInv, [PreambleNext]_preambleVars, phase \in {"parse", "hello"}, phase' \in {"hello", "write"},
         UNCHANGED <<bytes, end, upstream, outcome>>, pos' \in pos..Len(Stream),
         Boundary(SubSeq(bytes, 1, end)) = "none",
         phase' = "hello" => tls # "disabled" /\ wire' = SubSeq(Stream, end + 1, pos'),
         phase' = "write" => /\ FirstUpload' = SubSeq(Stream, end + 1, pos')
                             /\ tls # "disabled" => input.hello.valid /\ fed' >= input.hello.complete
  PROVE  PreambleInv'
<1>1. upstream' = <<>> /\ outcome' = "none" /\ end # 0
  BY DEF PreambleInv
<1>2. pos' \in Nat /\ end <= pos' /\ pos' <= Len(Stream) /\ pos' \in 0..Len(Stream) /\ Len(bytes) \in 0..pos'
  BY SMTT(20), Reader
<1>3. SubSeq(Stream', end' + 1, pos') \in Seq(Nat)
  BY <1>2, Reader, SameInput, Slice
<1>4. ForwardedInOrder'
  BY <1>1, <1>3, NothingFirst DEF ForwardedInOrder
<1>5. /\ (end = 0 => Bare(Len(bytes)))' /\ (end # 0 => end \in 1..Len(bytes) /\ FirstEnd(end))'
  BY SameInput DEF PreambleInv, Bare, FirstEnd
<1> QED
  BY <1>1, <1>2, <1>4, <1>5, SameInput DEF PreambleInv

\* serve_connect takes the header apart.
LEMMA ParseStep ==
  ASSUME PreambleInv, Parse
  PROVE  PreambleInv'
<1>i. [PreambleNext]_preambleVars
  BY DEF PreambleNext
<1>0. phase = "parse" /\ pos = Len(bytes) /\ UNCHANGED <<pos, bytes, end, fed, upstream>>
  BY DEF PreambleInv, Parse
<1>1. Buffered = SubSeq(Stream, end + 1, pos)
  BY <1>0, BufferedBytes
<1>2. \/ /\ phase' = "done"
         /\ outcome' \in {"incomplete-header", "malformed-header", "upload-limit", "client-hello-too-large"}
      \/ /\ Boundary(SubSeq(bytes, 1, end)) = "none" /\ UNCHANGED outcome
         /\ \/ tls = "disabled" /\ phase' = "write"
            \/ tls # "disabled" /\ phase' = "hello" /\ wire' = Buffered
  BY DEF Parse, Finish, Boundary, TooLargeReason
<1>3. CASE phase' = "done"
  BY <1>i, <1>0, <1>2, <1>3, StopStep
<1>4. CASE phase' # "done"
  <2>1. pos' \in pos..Len(Stream) /\ pos' = pos
    BY SMTT(20), <1>0, Reader
  <2>2. tls = "disabled" => FirstUpload' = SubSeq(Stream, end + 1, pos')
    BY <1>i, <1>0, <1>1, SameInput DEF FirstUpload, Buffered
  <2> QED
    BY <1>i, <1>0, <1>1, <1>2, <1>4, <2>1, <2>2, OnwardStep
<1> QED
  BY <1>3, <1>4

\* read_client_hello gives bytes to the acceptor, which may be satisfied.
LEMMA FeedStep ==
  ASSUME PreambleInv, Feed
  PROVE  PreambleInv'
<1>i. [PreambleNext]_preambleVars
  BY DEF PreambleNext
<1>0. /\ phase = "hello" /\ UNCHANGED <<pos, bytes, end, wire, upstream>>
      /\ tls # "disabled" /\ wire = SubSeq(Stream, end + 1, pos)
      /\ Boundary(SubSeq(bytes, 1, end)) = "none"
  BY DEF PreambleInv, Feed
<1>1. pos' \in pos..Len(Stream)
  BY SMTT(20), <1>0, Reader
<1>2. \/ phase' = "hello" /\ UNCHANGED outcome
      \/ phase' = "done" /\ outcome' \in {"client-hello-invalid", InspectionDenial}
      \/ /\ phase' = "write" /\ UNCHANGED outcome
         /\ input.hello.valid /\ fed' >= input.hello.complete
  BY <1>0 DEF Feed, Finish, Acceptor
<1>3. CASE phase' = "done"
  <2>1. input.hello.sni \in {"same", "tls-sni-missing", "tls-authority-not-hostname", "tls-sni-mismatch"}
    BY PreambleAssumption DEF PreambleInv
  <2>2. InspectionDenial \notin {"forwarded", "header-too-large", "header-eof"}
    BY <2>1 DEF InspectionDenial
  <2>3. outcome' \notin {"forwarded", "header-too-large", "header-eof"}
    BY <1>2, <1>3, <2>2
  <2> QED
    BY <1>i, <1>0, <1>3, <2>3, StopStep
<1>4. CASE phase' # "done"
  <2>1. FirstUpload' = SubSeq(Stream, end + 1, pos')
    BY <1>i, <1>0, SameInput DEF FirstUpload
  <2> QED
    BY <1>i, <1>0, <1>1, <1>2, <1>4, <2>1, OnwardStep
<1> QED
  BY <1>3, <1>4

\* read_client_hello reads on.
LEMMA ReadHelloStep ==
  ASSUME PreambleInv, ReadHello
  PROVE  PreambleInv'
<1>i. [PreambleNext]_preambleVars
  BY DEF PreambleNext
<1>0. /\ phase = "hello" /\ UNCHANGED <<phase, outcome, bytes, end, upstream>>
      /\ tls # "disabled" /\ wire = SubSeq(Stream, end + 1, pos)
      /\ Boundary(SubSeq(bytes, 1, end)) = "none"
  BY DEF PreambleInv, ReadHello, AllFed
<1>1. PICK n \in 1..Min({HelloCeiling - Len(wire), Chunk, Len(Stream) - pos}) :
          pos' = pos + n /\ wire' = wire \o SubSeq(Stream, pos + 1, pos + n)
  BY DEF ReadHello
<1>2. n \in Nat /\ pos + n <= Len(Stream)
  <2>1. HelloCeiling \in Nat
    <3>1. {MaxHello} \cup limit \subseteq Nat
      BY PreambleAssumption DEF PreambleInv, limit
    <3> QED
      BY <3>1, LeastIsMin DEF HelloCeiling
  <2> DEFINE h == HelloCeiling - Len(wire)
             M == {h, Chunk, Len(Stream) - pos}
  <2>2. h \in Int /\ Chunk \in Int /\ Len(Stream) - pos \in Nat
    <3>1. Len(wire) \in Nat
      BY SMTT(20), <1>0, Reader
    <3> QED
      BY SMTT(20), <2>1, <3>1, Reader, PreambleAssumption
  <2>3. Min(M) \in Int /\ Min(M) <= Len(Stream) - pos
    <3> DEFINE y == Chunk
               z == Len(Stream) - pos
    <3>1. h \in Int /\ y \in Int /\ z \in Int
      BY SMTT(20), <2>2
    <3> HIDE DEF h, y, z
    <3>2. Min({h, y, z}) \in Int /\ Min({h, y, z}) <= z
      BY <3>1, LeastOfThree
    <3> QED
      BY <3>2 DEF y, z
  <2> DEFINE k == Min(M)
  <2>4. k \in Int /\ n \in 1..k /\ k <= Len(Stream) - pos
    BY <1>1, <2>3
  <2> HIDE DEF k
  <2> QED
    BY SMTT(20), <2>4, Reader
<1>3. pos + n \in pos..Len(Stream)
  BY SMTT(20), <1>2, Reader
<1>4. wire' = SubSeq(Stream, end + 1, pos')
  <2>0. Stream \in Seq(Nat) /\ end \in Nat /\ pos \in Nat /\ end <= pos
    BY Reader
  <2>1. SubSeq(Stream, end + 1, pos) \o SubSeq(Stream, pos + 1, pos + n) = SubSeq(Stream, end + 1, pos + n)
    BY <1>2, <2>0, Extended
  <2> QED
    BY <1>0, <1>1, <2>1
<1> QED
  BY <1>i, <1>0, <1>1, <1>3, <1>4, OnwardStep

\* What write_all has written when it returns, or when it fails.
LEMMA WriteStep ==
  ASSUME PreambleInv, Forward \/ ForwardFails
  PROVE  PreambleInv'
<1>i. [PreambleNext]_preambleVars
  BY DEF PreambleNext
<1> DEFINE u == SubSeq(Stream, end + 1, pos)
<1>0. /\ phase = "write" /\ phase' = "done" /\ UNCHANGED <<pos, bytes, end, fed>> /\ FirstUpload = u
      /\ end # 0 /\ Boundary(SubSeq(bytes, 1, end)) = "none"
      /\ tls # "disabled" => input.hello.valid /\ fed >= input.hello.complete
  BY DEF PreambleInv, Forward, ForwardFails, Finish
<1>1. u \in Seq(Nat) /\ u = SubSeq(Stream', end' + 1, pos')
  BY <1>i, <1>0, Reader, SameInput
<1> HIDE DEF u
<1>2. /\ outcome' \in {"forwarded", "upstream-write-failed", "initial-upload-timeout", "client-hello-timeout"}
      /\ Leads(upstream', u) /\ (outcome' = "forwarded" => upstream' = u)
  <2>1. CASE Forward
    BY <1>0, <1>1, <2>1, AllOfIt DEF Forward, Finish
  <2>2. CASE ForwardFails
    <3>1. PICK n \in 0..Len(u) : upstream' = SubSeq(u, 1, n)
      BY <1>0, <2>2 DEF ForwardFails
    <3>2. outcome' \in {"upstream-write-failed", "initial-upload-timeout", "client-hello-timeout"}
      BY <2>2 DEF ForwardFails, Finish
    <3> QED
      BY <3>1, <3>2 DEF Leads
  <2> QED
    BY <2>1, <2>2
<1>3. ForwardedInOrder'
  BY <1>i, <1>0, <1>1, <1>2, SameInput DEF ForwardedInOrder
<1>4. /\ (end = 0 => Bare(Len(bytes)))' /\ (end # 0 => end \in 1..Len(bytes) /\ FirstEnd(end))'
  BY <1>i, <1>0, SameInput DEF PreambleInv, Bare, FirstEnd
<1> QED
  BY <1>i, <1>0, <1>2, <1>3, <1>4, SameInput DEF PreambleInv

\* The reader's positions, kept by every step.
THEOREM PreambleInvariant == PreambleSpec => []PreambleInv
<1>1. PreambleInit => PreambleInv
  <2> SUFFICES ASSUME PreambleInit PROVE PreambleInv
    OBVIOUS
  <2>1. /\ input \in Inputs /\ Stream \in Seq(Nat) /\ phase = "header" /\ outcome = "none" /\ pos = 0
        /\ bytes = <<>> /\ end = 0 /\ upstream = <<>>
    BY PreambleAssumption DEF PreambleInit, Stream
  <2>2. /\ Len(Stream) \in Nat /\ Len(<<>>) = 0 /\ SubSeq(Stream, 1, 0) = <<>> /\ 0 \in 0..Len(Stream) /\ 0 \in 0..0
        /\ SubSeq(Stream, 0 + 1, 0) = <<>> /\ 0 <= MaxHeader
    BY SMTT(20), <2>1, PreambleAssumption
  <2>3. Bare(0)
    <3> SUFFICES ASSUME NEW i \in 1..(Len(Stream) - 3) PROVE i + 3 > 0
      BY DEF Bare, Delimiters
    <3> QED
      BY SMTT(20), <2>2
  <2>4. <<>> \in Seq(Nat)
    BY SMTT(20)
  <2>5. ForwardedInOrder
    BY <2>1, <2>2, <2>4, NothingFirst DEF ForwardedInOrder
  <2> QED
    BY <2>1, <2>2, <2>3, <2>5 DEF PreambleInv
<1>2. PreambleInv /\ [PreambleNext]_preambleVars => PreambleInv'
  <2> SUFFICES ASSUME PreambleInv, [PreambleNext]_preambleVars PROVE PreambleInv'
    OBVIOUS
  <2>1. CASE HeaderTooLarge \/ HeaderEof \/ HeaderReadFails
    <3>1. /\ phase = "header" /\ phase' = "done" /\ UNCHANGED <<pos, bytes, end, upstream>> /\ end = 0
          /\ outcome' # "forwarded" /\ (outcome' = "header-too-large" => Len(bytes) >= MaxHeader)
          /\ (outcome' = "header-eof" => pos = Len(Stream)) /\ pos = Len(bytes)
      BY <2>1 DEF HeaderTooLarge, HeaderEof, HeaderReadFails, Finish, PreambleInv
    <3> QED
      BY <3>1, StopStep
  <2>2. CASE NotConnected \/ HelloTooLarge \/ HelloEof \/ HelloReadFails
    <3>1. /\ phase \in {"parse", "hello"} /\ phase' = "done" /\ UNCHANGED <<pos, bytes, end, upstream>>
          /\ outcome' \in {"not-connected", "upload-limit", "client-hello-too-large", "client-hello-eof",
                           "client-hello-invalid", "client-hello-timeout"}
      BY <2>2 DEF NotConnected, HelloTooLarge, HelloEof, HelloReadFails, AllFed, Finish, TooLargeReason
    <3> QED
      BY <3>1, StopStep
  <2>3. CASE UNCHANGED preambleVars
    <3>1. UNCHANGED <<input, phase, outcome, pos, bytes, end, wire, fed, upstream>>
      BY <2>3 DEF preambleVars
    <3>2. FirstUpload' = FirstUpload /\ ForwardedInOrder'
      BY <3>1, SameInput DEF FirstUpload, Buffered, ForwardedInOrder, PreambleInv
    <3>3. /\ (end = 0 => Bare(Len(bytes)))' /\ (end # 0 => end \in 1..Len(bytes) /\ FirstEnd(end))'
      BY <3>1, SameInput DEF PreambleInv, Bare, FirstEnd
    <3> QED
      BY <3>1, <3>2, <3>3, SameInput DEF PreambleInv
  <2> QED
    BY <2>1, <2>2, <2>3, ReadHeaderStep, ParseStep, FeedStep, ReadHelloStep, WriteStep DEF PreambleNext
<1> QED
  BY <1>1, <1>2, PTL DEF PreambleSpec

\* However the peer's bytes are cut into reads, the header ends behind the first
\* delimiter of the stream, and is refused only for what the stream is; and no shorter
\* part of a header that was accepted is a request (read_bounded_header and
\* parse_connect), for every stream, ceiling and size of the read buffer.
THEOREM BoundaryIsUnique == PreambleSpec => []OneBoundary
BY PreambleInvariant, BoundaryHolds, PTL

\* The destination receives the bytes behind the header in order and once, whatever
\* came with the header, and none before an inspection that the policy asks for.
THEOREM UploadIsInOrder == PreambleSpec => []ForwardedInOrder
<1>1. PreambleInv => ForwardedInOrder
  BY DEF PreambleInv
<1> QED
  BY <1>1, PreambleInvariant, PTL

-------------------------------------------------------------------------------
(***************************************************************************)
(* What client_hello_has_ech reads in the records of a well-formed hello.  *)
(***************************************************************************)

\* Induction up to a bound.
LEMMA UpTo ==
  ASSUME NEW k \in Nat, NEW T, 0 \in T, \A n \in Nat : n < k /\ n \in T => n + 1 \in T
  PROVE  \A n \in 0..k : n \in T
<1> DEFINE Missing == {n \in Nat : n <= k /\ n \notin T}
<1>1. ASSUME NEW n \in 0..k, n \notin T PROVE FALSE
  <2>1. n \in Missing /\ Missing \subseteq Nat
    BY SMTT(20), <1>1
  <2> DEFINE m == Min(Missing)
  <2>2. m \in Missing /\ \A y \in Missing : m <= y
    BY <2>1, LeastIsMin
  <2> HIDE DEF m
  <2>3. m # 0 /\ m \in Nat /\ m <= k /\ m \notin T
    BY <2>2
  <2>4. m - 1 \in Nat /\ m - 1 <= k /\ ~(m <= m - 1) /\ m - 1 < k /\ (m - 1) + 1 = m
    BY SMTT(20), <2>3
  <2>5. m - 1 \in T
    BY <2>2, <2>4
  <2> QED
    BY <2>3, <2>4, <2>5
<1> QED
  BY <1>1

\* A sequence of bytes, or of places, as a function.
LEMMA Numbers ==
  ASSUME NEW b \in Seq(Nat)
  PROVE  Len(b) \in Nat /\ DOMAIN b = 1..Len(b) /\ (b # <<>> => Len(b) # 0) /\ \A i \in 1..Len(b) : b[i] \in Nat
BY SMTT(20)

\* The bytes of b behind its first n.
Rest(b, n) == SubSeq(b, n + 1, Len(b))

\* They are a sequence of the others, which starts with the next one.
LEMMA RestIs ==
  ASSUME NEW b \in Seq(Nat), NEW n \in Nat, n <= Len(b)
  PROVE  /\ Rest(b, n) \in Seq(Nat) /\ Len(Rest(b, n)) = Len(b) - n
         /\ \A i \in 1..(Len(b) - n) : Rest(b, n)[i] = b[n + i]
<1>1. Rest(b, n) \in Seq(Nat) /\ Len(Rest(b, n)) = Len(b) - n
  BY SMTT(20) DEF Rest
<1>2. ASSUME NEW i \in 1..(Len(b) - n) PROVE Rest(b, n)[i] = b[n + i]
  BY SMTT(20) DEF Rest
<1> QED
  BY <1>1, <1>2

\* A second step behind a first.
LEMMA RestOfRest ==
  ASSUME NEW b \in Seq(Nat), NEW n \in Nat, NEW k \in Nat, n + k <= Len(b)
  PROVE  Drop(Rest(b, n), k) = Rest(b, n + k)
BY SMTT(20) DEF Rest, Drop

\* take moves the reader, if there is as much left.
LEMMA TakeIs ==
  ASSUME NEW b \in Seq(Nat), NEW n \in Nat, NEW k \in Nat, n + k <= Len(b)
  PROVE  take({Rest(b, n)}, k) = {Rest(b, n + k)}
<1>1. n <= Len(b) /\ Len(b) - n >= k
  BY SMTT(20)
<1>2. Len(Rest(b, n)) >= k
  BY <1>1, RestIs
<1>3. Drop(Rest(b, n), k) = Rest(b, n + k)
  BY RestOfRest
<1> QED
  BY <1>2, <1>3 DEF take

\* take_u8_vector moves it behind the vector.
LEMMA TakeU8Is ==
  ASSUME NEW b \in Seq(Nat), NEW n \in Nat, NEW k \in Nat, n < Len(b), k = n + 1 + b[n + 1], k <= Len(b)
  PROVE  take_u8_vector({Rest(b, n)}) = {Rest(b, k)}
<1> DEFINE c == Rest(b, n)
           l == 1 + b[n + 1]
<1>1. n <= Len(b) /\ 1 \in 1..(Len(b) - n) /\ Len(b) - n >= 1 /\ Len(b) \in Nat
  BY SMTT(20)
<1>2. Len(c) >= 1 /\ c[1] = b[n + 1]
  BY <1>1, RestIs
<1>3. l \in Nat /\ n + l = k
  <2>1. b[n + 1] \in Nat
    BY SMTT(20)
  <2> QED
    BY SMTT(20), <2>1
<1>4. take({c}, l) = {Rest(b, k)}
  <2> HIDE DEF l
  <2> QED
    BY SMTT(20), <1>3, TakeIs
<1> HIDE DEF c
<1> QED
  BY <1>2, <1>4 DEF take_u8_vector, c

\* A vector with a length of two bytes lies between n and k.
Vector16At(b, n, k) ==
  /\ b \in Seq(Nat) /\ n \in Nat /\ k \in Nat
  /\ n + 2 <= Len(b) /\ k = n + 2 + U16At(b, n) /\ k <= Len(b)

\* take_u16_vector moves the reader behind it and returns its content.
LEMMA TakeU16Is ==
  ASSUME NEW b, NEW n, NEW k, Vector16At(b, n, k)
  PROVE  /\ take_u16_vector({Rest(b, n)}) = {Rest(b, k)}
         /\ U16Content(Rest(b, n)) = SubSeq(b, n + 3, k)
<1> DEFINE c == Rest(b, n)
           u == U16At(b, n)
<1>0. b \in Seq(Nat) /\ n \in Nat /\ k \in Nat /\ n + 2 <= Len(b) /\ k = n + 2 + u /\ k <= Len(b)
  BY DEF Vector16At
<1> HIDE DEF u
<1>1. n <= Len(b) /\ 1 \in 1..(Len(b) - n) /\ 2 \in 1..(Len(b) - n) /\ Len(b) - n >= 2 /\ Len(b) \in Nat
      /\ n + 1 \in 1..Len(b) /\ n + 2 \in 1..Len(b)
  BY SMTT(20), <1>0
<1>2. Len(c) >= 2 /\ c[1] = b[n + 1] /\ c[2] = b[n + 2]
  BY <1>0, <1>1, RestIs
<1>3. U16(c) = u
  BY SMTT(20), <1>2 DEF U16, U16At, u
<1>4. u \in Nat
  <2>1. b[n + 1] \in Nat /\ b[n + 2] \in Nat
    BY <1>0, <1>1, Numbers
  <2>2. u = 256 * b[n + 1] + b[n + 2]
    BY SMTT(20) DEF U16At, U16, u
  <2> QED
    BY SMTT(20), <2>1, <2>2
<1>5. 2 + u \in Nat /\ n + (2 + u) = k
  BY SMTT(20), <1>0, <1>4
<1>6. take({c}, 2 + u) = {Rest(b, k)}
  <2> DEFINE l == 2 + u
  <2>1. l \in Nat /\ n + l = k
    BY <1>5
  <2> HIDE DEF l
  <2>2. take({c}, l) = {Rest(b, k)}
    BY SMTT(20), <1>0, <2>1, TakeIs
  <2> QED
    BY <2>2 DEF l
<1>7. take_u16_vector({c}) = {Rest(b, k)}
  <2> HIDE DEF c
  <2> QED
    BY <1>2, <1>3, <1>6 DEF take_u16_vector
<1>8. U16Content(c) = SubSeq(c, 3, 2 + u)
  BY <1>3 DEF U16Content
<1>9. SubSeq(c, 3, 2 + u) = SubSeq(b, n + 3, k)
  BY SMTT(20), <1>0, <1>4, <1>5 DEF Rest
<1> QED
  BY <1>7, <1>8, <1>9
-------------------------------------------------------------------------------
\* w holds the records of the hello h.
Carries(w, h) == w \in Seq(Nat) /\ InRecords(w, h) /\ IsMessage(h)

\* Where the k-th record of h ends.
RecordEnd(h, k) == Begin(0, h.records, k + 1)

\* The end x of the j-th of L records, each with five bytes of its own.
LEMMA EndWithin ==
  ASSUME NEW x \in Nat, NEW c \in Nat, NEW l \in Nat, NEW m \in Nat, NEW L \in Nat, NEW j \in Nat, j <= L,
         c <= l, m = c - 5 * L, j < L => x - 5 * j < m, j = L => x = c
  PROVE  x <= l /\ x - 5 * j <= m /\ (j = L => x - 5 * j = m)
<1>1. CASE j = L
  BY SMTT(20), <1>1
<1>2. CASE j < L
  BY SMTT(20), <1>2
<1> QED
  BY SMTT(20), <1>1, <1>2

\* The records end within w, and carry the message between them.
LEMMA RecordEnds ==
  ASSUME NEW w, NEW h, Carries(w, h)
  PROVE  /\ Len(h.records) \in Nat \ {0} /\ Len(w) \in Nat /\ Len(h.message) \in Nat /\ Len(h.records) <= Len(w)
         /\ RecordEnd(h, 0) = 0
         /\ \A k \in 0..Len(h.records) :
               /\ RecordEnd(h, k) \in Nat /\ 5 * k <= RecordEnd(h, k) /\ RecordEnd(h, k) <= Len(w)
               /\ RecordEnd(h, k) - 5 * k <= Len(h.message)
               /\ k < Len(h.records) => RecordEnd(h, k) - 5 * k < Len(h.message) \/ k = 0
               /\ k = Len(h.records) => RecordEnd(h, k) - 5 * k = Len(h.message)
<1> DEFINE r == h.records
           K == Len(r)
           M == Len(h.message)
           C == r[K]
<1>1. /\ w \in Seq(Nat) /\ r \in Seq(Nat) /\ r # <<>> /\ h.message \in Seq(Nat)
      /\ \A k \in DOMAIN r : LET b == Begin(0, r, k)
                             IN  b + 5 <= r[k] /\ (k < K => r[k] - 5 * k < M)
  BY DEF Carries, InRecords, IsMessage
<1>c. C <= Len(w) /\ M = C - 5 * K
  BY DEF Carries, InRecords
<1>2. K \in Nat \ {0} /\ Len(w) \in Nat /\ M \in Nat /\ DOMAIN r = 1..K
  BY <1>1, Numbers
<1>3. \A k \in 1..K : r[k] \in Nat
  BY <1>1, Numbers
<1>4. RecordEnd(h, 0) = 0
  BY SMTT(20) DEF RecordEnd, Begin
<1>5. \A k \in 1..K : RecordEnd(h, k) = r[k] /\ Begin(0, r, k) = RecordEnd(h, k - 1)
  BY SMTT(20), <1>2 DEF RecordEnd, Begin
<1> HIDE DEF r, M
<1> DEFINE T == {k \in Nat : RecordEnd(h, k) \in Nat /\ 5 * k <= RecordEnd(h, k)}
<1>6. 0 \in T
  BY SMTT(20), <1>4
<1>7. ASSUME NEW n \in Nat, n < K, n \in T PROVE n + 1 \in T
  <2>1. n + 1 \in 1..K /\ (n + 1) - 1 = n
    BY SMTT(20), <1>2, <1>7
  <2>2. RecordEnd(h, n + 1) = r[n + 1] /\ RecordEnd(h, n) + 5 <= r[n + 1] /\ r[n + 1] \in Nat
    BY <1>1, <1>2, <1>3, <1>5, <2>1
  <2> QED
    BY SMTT(20), <1>7, <2>2
<1> HIDE DEF T
<1>8. \A k \in 0..K : k \in T
  BY <1>2, <1>6, <1>7, UpTo
<1>9. C \in Nat /\ 5 * K <= C /\ K <= Len(w)
  <2>1. K \in 0..K /\ K \in 1..K
    BY SMTT(20), <1>2
  <2>2. RecordEnd(h, K) = C /\ 5 * K <= RecordEnd(h, K) /\ C \in Nat
    BY <1>3, <1>5, <1>8, <2>1 DEF T
  <2> QED
    BY SMTT(20), <1>c, <1>2, <2>2
<1>10. ASSUME NEW k \in 0..K
       PROVE  /\ RecordEnd(h, k) \in Nat /\ 5 * k <= RecordEnd(h, k) /\ RecordEnd(h, k) <= Len(w)
              /\ RecordEnd(h, k) - 5 * k <= M
              /\ k < K => RecordEnd(h, k) - 5 * k < M \/ k = 0
              /\ k = K => RecordEnd(h, k) - 5 * k = M
  <2>1. RecordEnd(h, k) \in Nat /\ 5 * k <= RecordEnd(h, k)
    BY <1>8 DEF T
  <2>2. CASE k = 0
    <3> HIDE DEF C
    <3> QED
      BY SMTT(20), <1>c, <1>2, <1>4, <1>9, <2>2
  <2>3. CASE k # 0
    <3>1. k \in 1..K /\ k \in Nat /\ k <= K
      BY SMTT(20), <1>2, <2>3
    <3>2. RecordEnd(h, k) = r[k] /\ (k < K => r[k] - 5 * k < M)
      BY <1>1, <1>2, <1>5, <3>1
    <3>3. k = K => r[k] = C
      OBVIOUS
    <3>5. RecordEnd(h, k) <= Len(w) /\ RecordEnd(h, k) - 5 * k <= M /\ (k = K => RecordEnd(h, k) - 5 * k = M)
      <4> HIDE DEF C, K
      <4> QED
        BY SMTT(20), <1>c, <1>2, <1>9, <2>1, <3>1, <3>2, <3>3, EndWithin
    <3> QED
      BY <2>1, <3>2, <3>5
  <2> QED
    BY <2>2, <2>3
<1> QED
  BY <1>2, <1>4, <1>9, <1>10 DEF r, M

\* What the loop of deframe_client_hello holds behind the k-th record.
Held(w, h, k) ==
  [records   |-> Rest(w, RecordEnd(h, k)),
   handshake |-> SubSeq(h.message, 1, RecordEnd(h, k) - 5 * k),
   state     |-> IF k = Len(h.records) THEN "complete" ELSE "more"]

\* One sequence behind another.
LEMMA Concatenated ==
  ASSUME NEW S, NEW s \in Seq(S), NEW t \in Seq(S), NEW c \in Seq(S), Len(c) = Len(s) + Len(t),
         \A i \in 1..Len(s) : c[i] = s[i], \A i \in 1..Len(t) : c[Len(s) + i] = t[i]
  PROVE  s \o t = c
<1> DEFINE d == s \o t
<1>1. d \in Seq(S) /\ Len(d) = Len(c)
  BY SMTT(20)
<1>2. ASSUME NEW i \in 1..Len(c) PROVE d[i] = c[i]
  <2>0. Len(s) \in Nat /\ Len(t) \in Nat
    BY SMTT(20)
  <2>1. CASE i <= Len(s)
    <3>1. d[i] = s[i] /\ i \in 1..Len(s)
      BY SMTT(20), <2>0, <2>1
    <3> QED
      BY <3>1
  <2>2. CASE ~(i <= Len(s))
    <3>1. d[i] = t[i - Len(s)] /\ i - Len(s) \in 1..Len(t) /\ Len(s) + (i - Len(s)) = i
      BY SMTT(20), <2>0, <2>2
    <3>2. c[Len(s) + (i - Len(s))] = t[i - Len(s)]
      BY <3>1
    <3> QED
      BY <3>1, <3>2
  <2> QED
    BY <2>1, <2>2
<1> HIDE DEF d
<1>3. d = c
  BY SMTT(20), <1>1, <1>2
<1> QED
  BY <1>3 DEF d

\* The first places of a sequence.
LEMMA FirstOf ==
  ASSUME NEW S, NEW s \in Seq(S), NEW n \in Nat, n <= Len(s)
  PROVE  SubSeq(s, 1, n) \in Seq(S) /\ Len(SubSeq(s, 1, n)) = n /\ \A i \in 1..n : SubSeq(s, 1, n)[i] = s[i]
BY SMTT(20)

\* The places of a sequence from one on.
LEMMA Between ==
  ASSUME NEW S, NEW s \in Seq(S), NEW a \in Nat, NEW n \in Nat, a <= n, n <= Len(s)
  PROVE  /\ SubSeq(s, a + 1, n) \in Seq(S) /\ Len(SubSeq(s, a + 1, n)) = n - a
         /\ \A i \in 1..(n - a) : SubSeq(s, a + 1, n)[i] = s[a + i]
BY SMTT(20)

\* The part of the message m in the record of w from b to e continues its first p bytes.
Continues(w, m, b, e, p, q) ==
  /\ w \in Seq(Nat) /\ m \in Seq(Nat) /\ b \in Nat /\ e \in Nat /\ p \in Nat /\ q \in Nat
  /\ b + 5 <= e /\ e <= Len(w) /\ q = p + e - b - 5 /\ q <= Len(m)
  /\ \A i \in (b + 6)..e : w[i] = m[i - b - 5 + p]

\* c is b behind a.
Join(a, b, c) == a \o b = c

\* With a record's bytes, there are q bytes of the message.
LEMMA Carried ==
  ASSUME NEW w, NEW m, NEW b, NEW e, NEW p, NEW q, Continues(w, m, b, e, p, q)
  PROVE  Join(SubSeq(m, 1, p), SubSeq(w, b + 6, e), SubSeq(m, 1, q))
<1> DEFINE x == SubSeq(m, 1, p)
           y == SubSeq(w, b + 6, e)
           z == SubSeq(m, 1, q)
<1>0. /\ w \in Seq(Nat) /\ m \in Seq(Nat) /\ b \in Nat /\ e \in Nat /\ p \in Nat /\ q \in Nat
      /\ b + 5 <= e /\ e <= Len(w) /\ q = p + e - b - 5 /\ q <= Len(m) /\ Len(m) \in Nat
  BY Numbers DEF Continues
<1>1. p <= q /\ p <= Len(m) /\ q - p = e - (b + 5)
  BY SMTT(20), <1>0
<1>2. x \in Seq(Nat) /\ Len(x) = p /\ (\A i \in 1..p : x[i] = m[i])
  BY <1>0, <1>1, FirstOf
<1>3. y \in Seq(Nat) /\ Len(y) = q - p /\ (\A i \in 1..(q - p) : y[i] = w[b + 5 + i])
  <2> DEFINE a == b + 5
  <2>1. a \in Nat /\ a <= e /\ e - a = q - p /\ a + 1 = b + 6
    BY SMTT(20), <1>0, <1>1
  <2> HIDE DEF a
  <2>2. /\ SubSeq(w, a + 1, e) \in Seq(Nat) /\ Len(SubSeq(w, a + 1, e)) = e - a
        /\ \A i \in 1..(e - a) : SubSeq(w, a + 1, e)[i] = w[a + i]
    BY SMTT(20), <1>0, <2>1, Between
  <2> QED
    BY <2>1, <2>2 DEF a
<1>4. z \in Seq(Nat) /\ Len(z) = q /\ (\A i \in 1..q : z[i] = m[i])
  BY <1>0, FirstOf
<1>5. \A i \in 1..(q - p) : w[b + 5 + i] = m[i + p]
  <2> SUFFICES ASSUME NEW i \in 1..(q - p) PROVE w[b + 5 + i] = m[i + p]
    OBVIOUS
  <2>1. b + 5 + i \in (b + 6)..e /\ (b + 5 + i) - b - 5 + p = i + p
    BY SMTT(20), <1>0, <1>1
  <2> QED
    BY <2>1 DEF Continues
<1> HIDE DEF x, y, z
<1>6. Len(x) = p /\ Len(y) = q - p /\ Len(z) = Len(x) + Len(y) /\ p \in 0..q
  BY SMTT(20), <1>0, <1>1, <1>2, <1>3, <1>4
<1>7. \A i \in 1..Len(x) : z[i] = x[i]
  <2>1. \A i \in 1..p : i \in 1..q
    BY SMTT(20), <1>0, <1>6
  <2> QED
    BY <1>2, <1>4, <1>6, <2>1
<1>8. \A i \in 1..Len(y) : z[Len(x) + i] = y[i]
  <2>1. \A i \in 1..(q - p) : p + i \in 1..q /\ p + i = i + p
    BY SMTT(20), <1>0, <1>6
  <2> QED
    BY <1>3, <1>4, <1>5, <1>6, <2>1
<1>9. x \o y = z
  BY <1>2, <1>3, <1>4, <1>6, <1>7, <1>8, Concatenated
<1> QED
  BY <1>9 DEF x, y, z, Join

\* The header of the message, when the first four of its bytes have arrived.
LEMMA HeaderOf ==
  ASSUME NEW m \in Seq(Nat), NEW q \in Nat, 4 <= q, q <= Len(m)
  PROVE  SubSeq(m, 1, q)[1] = m[1] /\ ExpectedLength(SubSeq(m, 1, q)) = ExpectedLength(m)
<1> DEFINE x == SubSeq(m, 1, q)
<1>0. 1 \in 1..q /\ 2 \in 1..q /\ 3 \in 1..q /\ 4 \in 1..q
  BY SMTT(20)
<1>1. \A i \in 1..q : x[i] = m[i]
  BY FirstOf
<1> HIDE DEF x
<1>2. x[1] = m[1] /\ ExpectedLength(x) = ExpectedLength(m)
  BY SMTT(20), <1>0, <1>1 DEF ExpectedLength
<1> QED
  BY <1>2 DEF x

\* A message is as long as its fields.
LEMMA MessageIs ==
  ASSUME NEW h, IsMessage(h)
  PROVE  /\ h.message \in Seq(Nat) /\ Len(h.message) \in Nat /\ Len(h.message) >= 4
         /\ h.message[1] = CLIENT_HELLO /\ ExpectedLength(h.message) = Len(h.message)
         /\ \A i \in 1..4 : h.fields[i] \in Nat
<1>1. /\ h.message \in Seq(Nat) /\ h.fields \in Seq(Nat) /\ Len(h.fields) = 4
      /\ h.message[1] = CLIENT_HELLO /\ ExpectedLength(h.message) = Len(h.message)
  BY DEF IsMessage
<1>2. /\ h.fields[1] = 4 + HelloPrefix /\ h.fields[1] < h.fields[2] /\ h.fields[2] + 2 <= h.fields[3]
      /\ h.fields[3] < h.fields[4] /\ h.fields[4] <= Len(h.message)
  BY DEF IsMessage
<1>3. Len(h.message) \in Nat /\ \A i \in 1..4 : h.fields[i] \in Nat
  BY <1>1, Numbers
<1>4. h.fields[1] \in Nat /\ h.fields[2] \in Nat /\ h.fields[3] \in Nat /\ h.fields[4] \in Nat
  BY SMTT(20), <1>3
<1>5. Len(h.message) >= 4
  BY SMTT(20), <1>2, <1>3, <1>4, HelloAssumption
<1> QED
  BY <1>1, <1>3, <1>5

\* A turn of the loop takes the next record.
LEMMA ReadOne ==
  ASSUME NEW w, NEW h, Carries(w, h), NEW k \in Nat, k < Len(h.records)
  PROVE  ReadRecord(Held(w, h, k)) = Held(w, h, k + 1)
<1> DEFINE b == RecordEnd(h, k)
           e == RecordEnd(h, k + 1)
           m == h.message
           p == b - 5 * k
           q == e - 5 * (k + 1)
           s == Held(w, h, k)
           K == Len(h.records)
<1>0. /\ K \in Nat \ {0} /\ k \in 0..K /\ k + 1 \in 0..K /\ k # K /\ k + 1 \in 1..K /\ (k + 1) - 1 = k
      /\ Len(w) \in Nat /\ Len(m) \in Nat
  <2>1. K \in Nat \ {0} /\ Len(w) \in Nat /\ Len(m) \in Nat
    BY RecordEnds
  <2> QED
    BY SMTT(20), <2>1
<1>1. /\ b \in Nat /\ 5 * k <= b /\ b <= Len(w) /\ e \in Nat /\ 5 * (k + 1) <= e /\ e <= Len(w)
      /\ p <= Len(m) /\ q <= Len(m) /\ (k + 1 < K => q < Len(m)) /\ (k + 1 = K => q = Len(m))
  <2>1. /\ b \in Nat /\ 5 * k <= b /\ b <= Len(w) /\ p <= Len(m)
    BY <1>0, RecordEnds
  <2>2. /\ e \in Nat /\ 5 * (k + 1) <= e /\ e <= Len(w) /\ q <= Len(m)
        /\ (k + 1 < K => q < Len(m) \/ k + 1 = 0) /\ (k + 1 = K => q = Len(m))
    BY <1>0, RecordEnds
  <2>3. k + 1 # 0
    BY SMTT(20)
  <2> QED
    BY <2>1, <2>2, <2>3
<1>2. /\ w \in Seq(Nat) /\ b + 5 <= e /\ w[b + 1] = TLS_HANDSHAKE /\ U16At(w, b + 3) = e - b - 5
      /\ \A i \in (b + 6)..e : w[i] = m[i - 5 * (k + 1)]
  <2>1. h.records \in Seq(Nat) /\ k + 1 \in DOMAIN h.records
    <3>1. h.records \in Seq(Nat)
      BY DEF Carries, InRecords
    <3> QED
      BY <1>0, <3>1, Numbers
  <2>2. Begin(0, h.records, k + 1) = b /\ h.records[k + 1] = e
    <3>1. (k + 1) + 1 # 1 /\ ((k + 1) + 1) - 1 = k + 1
      BY SMTT(20)
    <3> QED
      BY <3>1 DEF RecordEnd, Begin
  <2> HIDE DEF b, e
  <2> QED
    BY <2>1, <2>2 DEF Carries, InRecords
<1>w. w \in Seq(Nat)
  BY <1>2
<1>b. b + 5 <= e /\ U16At(w, b + 3) = e - b - 5 /\ b \in Nat /\ e \in Nat /\ e <= Len(w) /\ b <= Len(w)
  BY <1>1, <1>2
<1>3. p \in Nat /\ q \in Nat /\ q = p + e - b - 5
  <2> HIDE DEF b, e
  <2> QED
    BY SMTT(20), <1>1, <1>b
<1>i. ASSUME NEW i \in Nat PROVE i - 5 * (k + 1) = i - b - 5 + p
  <2> HIDE DEF b
  <2> QED
    BY SMTT(20), <1>b
<1>4. s.records = Rest(w, b) /\ s.handshake = SubSeq(m, 1, p) /\ s.state = "more"
  BY <1>0 DEF Held
<1> HIDE DEF b, e, p, q, s
<1>5. /\ b + 3 \in Nat /\ b + 3 <= Len(w) /\ (b + 3) + 2 <= Len(w) /\ e = (b + 3) + 2 + U16At(w, b + 3)
      /\ (b + 3) + 3 = b + 6 /\ b < Len(w)
  BY SMTT(20), <1>0, <1>b
<1>6. take({s.records}, 3) = {Rest(w, b + 3)} /\ Drop(s.records, 3) = Rest(w, b + 3)
  <2>1. 3 \in Nat
    BY SMTT(20)
  <2> QED
    BY SMTT(20), <1>b, <1>w, <1>4, <1>5, <2>1, TakeIs, RestOfRest
<1>7. take_u16_vector({Rest(w, b + 3)}) = {Rest(w, e)} /\ U16Content(Rest(w, b + 3)) = SubSeq(w, b + 6, e)
  <2> DEFINE c == b + 3
  <2>1. c \in Nat /\ c + 2 <= Len(w) /\ e = c + 2 + U16At(w, c) /\ c + 3 = b + 6
    BY <1>5
  <2> HIDE DEF c
  <2>2. take_u16_vector({Rest(w, c)}) = {Rest(w, e)} /\ U16Content(Rest(w, c)) = SubSeq(w, c + 3, e)
    BY <1>b, <1>w, <2>1, TakeU16Is DEF Vector16At
  <2> QED
    BY <2>1, <2>2 DEF c
<1>8. s.handshake \o SubSeq(w, b + 6, e) = SubSeq(m, 1, q)
  <2>1. m \in Seq(Nat)
    BY DEF Carries, IsMessage
  <2>2. \A i \in (b + 6)..e : w[i] = m[i - b - 5 + p]
    <3> SUFFICES ASSUME NEW i \in (b + 6)..e PROVE w[i] = m[i - b - 5 + p]
      OBVIOUS
    <3>1. i \in Nat
      BY SMTT(20), <1>1
    <3> QED
      BY <1>2, <1>i, <3>1
  <2> HIDE DEF m
  <2>c. Continues(w, m, b, e, p, q)
    BY <1>1, <1>b, <1>w, <1>3, <2>1, <2>2 DEF Continues
  <2>3. Join(SubSeq(m, 1, p), SubSeq(w, b + 6, e), SubSeq(m, 1, q))
    BY <2>c, Carried
  <2> QED
    BY <1>4, <2>3 DEF Join
<1>9. s.records # <<>> /\ s.records[1] = TLS_HANDSHAKE
  <2>1. 1 \in 1..(Len(w) - b) /\ Len(w) - b # 0 /\ b <= Len(w)
    BY SMTT(20), <1>0, <1>1, <1>5
  <2>2. Len(Rest(w, b)) # 0 /\ Rest(w, b)[1] = w[b + 1]
    BY <1>1, <1>2, <2>1, RestIs
  <2>3. Len(<<>>) = 0
    BY SMTT(20)
  <2> QED
    BY <1>2, <1>4, <2>2, <2>3
<1> DEFINE g == SubSeq(m, 1, q)
<1>10. /\ Len(g) = q /\ (Len(g) >= 4 => g[1] = CLIENT_HELLO /\ ExpectedLength(g) = Len(m))
       /\ (Len(g) >= 4 /\ Len(g) >= ExpectedLength(g) <=> k + 1 = K)
  <2>1. m \in Seq(Nat) /\ Len(m) >= 4 /\ m[1] = CLIENT_HELLO /\ ExpectedLength(m) = Len(m)
    BY MessageIs DEF Carries
  <2> HIDE DEF m
  <2>2. Len(g) = q
    BY <1>1, <1>3, <2>1, FirstOf
  <2>3. q >= 4 => g[1] = CLIENT_HELLO /\ ExpectedLength(g) = Len(m)
    <3> SUFFICES ASSUME q >= 4 PROVE g[1] = CLIENT_HELLO /\ ExpectedLength(g) = Len(m)
      OBVIOUS
    <3>1. 4 <= q
      BY SMTT(20), <1>3
    <3> QED
      BY <1>1, <1>3, <2>1, <3>1, HeaderOf
  <2>4. q >= 4 /\ q >= Len(m) <=> k + 1 = K
    BY SMTT(20), <1>0, <1>1, <1>3, <2>1
  <2> HIDE DEF g
  <2> QED
    BY <2>2, <2>3, <2>4
<1> HIDE DEF g
<1>11. s.handshake \o U16Content(Drop(s.records, 3)) = g
  BY <1>6, <1>7, <1>8 DEF g
<1>12. take_u16_vector(take({s.records}, 3)) = {Rest(w, e)}
  BY <1>6, <1>7
<1>13. (CHOOSE rest \in {Rest(w, e)} : TRUE) = Rest(w, e) /\ {Rest(w, e)} # {}
  OBVIOUS
<1>14. ReadRecord(s) = [records |-> Rest(w, e), handshake |-> g, state |-> IF k + 1 = K THEN "complete" ELSE "more"]
  BY <1>4, <1>9, <1>10, <1>11, <1>12, <1>13 DEF ReadRecord
<1> QED
  BY <1>14 DEF Held, s, e, q, g

\* deframe_client_hello finds the message, however it is spread over records and
\* whatever follows them.
LEMMA Deframed ==
  ASSUME NEW w, NEW h, Carries(w, h)
  PROVE  deframe_client_hello(w) = {h.message}
<1> DEFINE K == Len(h.records)
           L == Len(w)
           start == [records |-> w, handshake |-> <<>>, state |-> "more"]
           turn == CHOOSE turn : turn = [n \in 0..L |-> IF n = 0 THEN start ELSE ReadRecord(turn[n - 1])]
           f == [n \in 0..L |-> Held(w, h, IF n <= K THEN n ELSE K)]
<1>0. K \in Nat \ {0} /\ L \in Nat /\ K <= L /\ RecordEnd(h, 0) = 0
  BY RecordEnds
<1>1. h.message \in Seq(Nat) /\ Len(h.message) \in Nat /\ ExpectedLength(h.message) = Len(h.message) /\ w \in Seq(Nat)
  BY MessageIs DEF Carries
<1>2. Held(w, h, 0) = start
  <2>1. Rest(w, 0) = w /\ SubSeq(h.message, 1, 0 - 5 * 0) = <<>> /\ 0 # K
    BY SMTT(20), <1>0, <1>1 DEF Rest
  <2> QED
    BY <1>0, <2>1 DEF Held
<1> HIDE DEF start
<1>3. ReadRecord(Held(w, h, K)) = Held(w, h, K)
  <2>1. Held(w, h, K).state = "complete"
    BY DEF Held
  <2> QED
    BY <2>1 DEF ReadRecord
<1>4. ASSUME NEW n \in 0..L PROVE f[n] = IF n = 0 THEN start ELSE ReadRecord(f[n - 1])
  <2>0. f[n] = Held(w, h, IF n <= K THEN n ELSE K)
    OBVIOUS
  <2>1. CASE n = 0
    <3>1. 0 <= K
      BY SMTT(20), <1>0
    <3> QED
      BY <1>2, <2>0, <2>1, <3>1
  <2>2. CASE n # 0
    <3>1. n - 1 \in 0..L /\ n - 1 \in Nat /\ (n - 1) + 1 = n /\ (n <= K => n - 1 <= K /\ n - 1 < K)
          /\ (~(n <= K) /\ n - 1 <= K => n - 1 = K)
      BY SMTT(20), <1>0, <2>2
    <3>2. f[n - 1] = Held(w, h, IF n - 1 <= K THEN n - 1 ELSE K)
      BY <3>1
    <3> HIDE DEF f
    <3>3. CASE n <= K
      <4>1. ReadRecord(Held(w, h, n - 1)) = Held(w, h, (n - 1) + 1)
        BY <3>1, <3>3, ReadOne
      <4> QED
        BY <2>0, <2>2, <3>1, <3>2, <3>3, <4>1
    <3>4. CASE ~(n <= K)
      <4>1. f[n - 1] = Held(w, h, K)
        BY <3>1, <3>2, <3>4
      <4> QED
        BY <1>3, <2>0, <2>2, <3>4, <4>1
    <3> QED
      BY <3>3, <3>4
  <2> QED
    BY <2>1, <2>2
<1>5. f = [n \in 0..L |-> IF n = 0 THEN start ELSE ReadRecord(f[n - 1])]
  <2>1. f = [n \in 0..L |-> f[n]]
    OBVIOUS
  <2> HIDE DEF f
  <2> QED
    BY <1>4, <2>1
<1>f. \A n \in 0..L : f[n] = Held(w, h, IF n <= K THEN n ELSE K)
  OBVIOUS
<1> HIDE DEF f
<1>6. turn = [n \in 0..L |-> IF n = 0 THEN start ELSE ReadRecord(turn[n - 1])]
  BY <1>5
<1>7. deframe_client_hello(w) =
        IF turn[L].state = "complete"
        THEN {SubSeq(turn[L].handshake, 1, ExpectedLength(turn[L].handshake))} ELSE {}
  BY DEF deframe_client_hello, start
<1> HIDE DEF turn
<1> DEFINE T == {n \in Nat : n <= L => turn[n] = f[n]}
<1>8. 0 \in T
  <2>1. 0 \in 0..L
    BY SMTT(20), <1>0
  <2> QED
    BY <1>4, <1>6, <2>1
<1>9. ASSUME NEW n \in Nat, n < L, n \in T PROVE n + 1 \in T
  <2>1. n + 1 \in 0..L /\ n + 1 # 0 /\ (n + 1) - 1 = n /\ n <= L /\ n + 1 \in Nat
    BY SMTT(20), <1>0, <1>9
  <2>2. turn[n] = f[n]
    BY <1>9, <2>1
  <2>3. turn[n + 1] = ReadRecord(turn[n]) /\ f[n + 1] = ReadRecord(f[n])
    BY <1>4, <1>6, <2>1
  <2> QED
    BY <2>1, <2>2, <2>3
<1> HIDE DEF T
<1>10. \A n \in 0..L : n \in T
  BY <1>0, <1>8, <1>9, UpTo
<1>11. turn[L] = Held(w, h, K)
  <2>1. L \in 0..L /\ L <= L /\ (L <= K => L = K)
    BY SMTT(20), <1>0
  <2>2. turn[L] = f[L]
    BY <1>10, <2>1 DEF T
  <2>3. f[L] = Held(w, h, K)
    BY <1>f, <2>1
  <2> QED
    BY <2>2, <2>3
<1>12. Held(w, h, K).state = "complete" /\ Held(w, h, K).handshake = h.message
  <2>1. K \in 0..K
    BY SMTT(20), <1>0
  <2>2. RecordEnd(h, K) - 5 * K = Len(h.message)
    BY <2>1, RecordEnds
  <2>3. SubSeq(h.message, 1, Len(h.message)) = h.message
    BY SMTT(20), <1>1
  <2> QED
    BY <2>2, <2>3 DEF Held
<1>13. SubSeq(h.message, 1, Len(h.message)) = h.message
  BY SMTT(20), <1>1
<1> QED
  BY <1>1, <1>7, <1>11, <1>12, <1>13

-------------------------------------------------------------------------------
\* One turn of the loop over the extensions x, from the i-th byte on.
EchStep(x, f, i) ==
  LET rest  == SubSeq(x, i, Len(x))
      after == take_u16_vector(take({rest}, 2))
  IN  IF rest = <<>> THEN {FALSE}
      ELSE IF after = {} THEN {}
      ELSE IF SubSeq(rest, 1, 2) = ECH_EXTENSION THEN {TRUE}
      ELSE f[Len(x) + 1 - Len(CHOOSE r \in after : TRUE)]

\* What is left behind an extension is shorter.
LEMMA LeftIsShorter ==
  ASSUME NEW x \in Seq(Nat), NEW r \in take_u16_vector(take({x}, 2))
  PROVE  Len(r) \in Nat /\ Len(r) < Len(x)
<1> DEFINE c == Drop(x, 2)
           u == U16(c)
<1>1. PICK b \in {d \in take({x}, 2) : Len(d) >= 2} : r \in take({b}, 2 + U16(b))
  BY DEF take_u16_vector
<1>2. Len(x) >= 2 /\ b = c /\ Len(b) >= 2
  BY <1>1 DEF take
<1>3. Len(c) >= 2 + u /\ r = Drop(c, 2 + u)
  BY <1>1, <1>2 DEF take
<1>4. c \in Seq(Nat) /\ Len(c) = Len(x) - 2 /\ Len(x) \in Nat
  BY SMTT(20), <1>2 DEF Drop
<1> HIDE DEF c
<1>5. u \in Nat
  <2>1. 1 \in 1..Len(c) /\ 2 \in 1..Len(c)
    BY SMTT(20), <1>2, <1>4
  <2>2. c[1] \in Nat /\ c[2] \in Nat
    BY <1>4, <2>1, Numbers
  <2>3. u = 256 * c[1] + c[2]
    BY SMTT(20) DEF U16
  <2> HIDE DEF u
  <2> QED
    BY SMTT(20), <2>2, <2>3
<1> HIDE DEF u
<1>6. Len(Drop(c, 2 + u)) = Len(c) - (2 + u)
  BY SMTT(20), <1>3, <1>4, <1>5 DEF Drop
<1>7. Len(r) = Len(c) - (2 + u) /\ Len(c) >= 2 + u
  BY <1>3, <1>6
<1> QED
  BY SMTT(20), <1>4, <1>5, <1>7

\* A turn asks only for what is further on.
LEMMA EchLooksOn ==
  ASSUME NEW x \in Seq(Nat), NEW i \in 1..(Len(x) + 1), NEW f, NEW g,
         \A t \in (i + 1)..(Len(x) + 1) : f[t] = g[t]
  PROVE  EchStep(x, f, i) = EchStep(x, g, i)
<1> DEFINE rest == SubSeq(x, i, Len(x))
           after == take_u16_vector(take({rest}, 2))
           r == CHOOSE r \in after : TRUE
           t == Len(x) + 1 - Len(r)
<1>1. rest \in Seq(Nat) /\ Len(rest) = Len(x) + 1 - i /\ Len(x) \in Nat
  BY SMTT(20)
<1> HIDE DEF rest
<1>2. ASSUME after # {} PROVE f[t] = g[t]
  <2>1. r \in after
    BY <1>2
  <2> HIDE DEF r
  <2>2. Len(r) \in Nat /\ Len(r) < Len(rest)
    BY <1>1, <2>1, LeftIsShorter
  <2> HIDE DEF after
  <2>3. t \in (i + 1)..(Len(x) + 1)
    BY SMTT(20), <1>1, <2>2
  <2> QED
    BY <2>3
<1> HIDE DEF t
<1>3. after # {} => f[t] = g[t]
  BY <1>2
<1> QED
  BY <1>3 DEF EchStep, rest, t

\* The loop over the extensions can be run.
LEMMA EchRuns ==
  ASSUME NEW x \in Seq(Nat)
  PROVE  \E f : f = [i \in 1..(Len(x) + 1) |-> EchStep(x, f, i)]
<1> DEFINE n == Len(x)
           Solves(j, f) == f = [i \in (n + 1 - j)..(n + 1) |-> EchStep(x, f, i)]
           T == {j \in Nat : \E f : Solves(j, f)}
<1>0. n \in Nat
  BY Numbers
<1> HIDE DEF n
<1>1. 0 \in T
  <2>1. (n + 1 - 0)..(n + 1) = {n + 1}
    BY SMTT(20), <1>0
  <2> DEFINE f == [i \in {n + 1} |-> {FALSE}]
  <2>2. EchStep(x, f, n + 1) = {FALSE}
    <3>1. SubSeq(x, n + 1, Len(x)) = <<>>
      BY SMTT(20) DEF n
    <3> QED
      BY <3>1 DEF EchStep
  <2>3. f = [i \in {n + 1} |-> EchStep(x, f, i)]
    <3>1. \A i \in {n + 1} : EchStep(x, f, i) = {FALSE}
      BY <2>2
    <3> QED
      BY <3>1
  <2> HIDE DEF f
  <2>4. Solves(0, f)
    BY <2>1, <2>3
  <2> QED
    BY <2>4
<1>2. ASSUME NEW j \in Nat, j < n, j \in T PROVE j + 1 \in T
  <2>1. PICK g : Solves(j, g)
    BY <1>2
  <2> DEFINE i0 == n - j
             D == (n + 1 - (j + 1))..(n + 1)
             f == [i \in D |-> IF i = i0 THEN EchStep(x, g, i0) ELSE g[i]]
  <2>2. /\ i0 \in D /\ (\A i \in D : i # i0 => i \in (n + 1 - j)..(n + 1))
        /\ \A i \in D : i \in 1..(n + 1) /\ \A t \in (i + 1)..(n + 1) : t \in D /\ t # i0
    BY SMTT(20), <1>0, <1>2
  <2> HIDE DEF D
  <2>3. ASSUME NEW i \in D PROVE f[i] = EchStep(x, f, i)
    <3>1. \A t \in (i + 1)..(n + 1) : f[t] = g[t]
      BY <2>2
    <3>2. i \in 1..(n + 1)
      BY <2>2
    <3>3. f[i] = IF i = i0 THEN EchStep(x, g, i0) ELSE g[i]
      OBVIOUS
    <3> HIDE DEF f
    <3>4. EchStep(x, f, i) = EchStep(x, g, i)
      BY <3>1, <3>2, EchLooksOn DEF n
    <3>5. i # i0 => g[i] = EchStep(x, g, i)
      BY <2>1, <2>2
    <3> QED
      BY <3>3, <3>4, <3>5
  <2>4. f = [i \in D |-> EchStep(x, f, i)]
    <3>1. f = [i \in D |-> f[i]]
      OBVIOUS
    <3> HIDE DEF f
    <3> QED
      BY <2>3, <3>1
  <2> HIDE DEF f
  <2>5. Solves(j + 1, f)
    BY <2>4 DEF D
  <2> QED
    BY SMTT(20), <2>5
<1> HIDE DEF T
<1>3. \A j \in 0..n : j \in T
  BY <1>0, <1>1, <1>2, UpTo
<1>4. n \in 0..n /\ n + 1 - n = 1
  BY SMTT(20), <1>0
<1>5. \E f : Solves(n, f)
  BY <1>3, <1>4 DEF T
<1> QED
  BY <1>4, <1>5 DEF n

\* Where the k-th extension of h ends.
ExtensionEnd(h, k) == Begin(h.fields[4] + 2, h.extensions, k + 1)

\* The k-th extension of h is the ECH extension.
EchAt(h, k) == SubSeq(h.message, ExtensionEnd(h, k - 1) + 1, ExtensionEnd(h, k - 1) + 2) = ECH_EXTENSION

\* The message ends with a block of extensions.
HasBlock(h) == IsMessage(h) /\ Len(h.message) # h.fields[4]

\* The extensions follow one another to the end of the message.
LEMMA ExtensionEnds ==
  ASSUME NEW h, HasBlock(h)
  PROVE  /\ Len(h.extensions) \in Nat /\ ExtensionEnd(h, 0) = h.fields[4] + 2
         /\ ExtensionEnd(h, Len(h.extensions)) = Len(h.message)
         /\ Vector16At(h.message, h.fields[4], Len(h.message))
         /\ \A k \in 0..Len(h.extensions) :
               /\ ExtensionEnd(h, k) \in Nat /\ h.fields[4] + 2 <= ExtensionEnd(h, k)
               /\ ExtensionEnd(h, k) <= Len(h.message)
         /\ \A k \in 1..Len(h.extensions) :
               /\ ExtensionEnd(h, k - 1) + 4 <= ExtensionEnd(h, k)
               /\ Vector16At(h.message, ExtensionEnd(h, k - 1) + 2, ExtensionEnd(h, k))
         /\ HasEch(h) = \E k \in 1..Len(h.extensions) : EchAt(h, k)
<1> DEFINE m == h.message
           x == h.extensions
           g == h.fields[4] + 2
           R == Len(x)
           M == Len(m)
<1>0. m \in Seq(Nat) /\ M \in Nat /\ h.fields[4] \in Nat /\ x \in Seq(Nat)
  <2>1. 4 \in 1..4
    BY SMTT(20)
  <2> QED
    BY <2>1, MessageIs DEF HasBlock, IsMessage
<1>1. /\ g <= M /\ M = g + U16At(m, h.fields[4]) /\ M = Begin(g, x, R + 1)
      /\ \A k \in DOMAIN x : LET b == Begin(g, x, k)
                             IN  b + 4 <= x[k] /\ x[k] <= M /\ x[k] = b + 4 + U16At(m, b + 2)
  BY DEF HasBlock, IsMessage
<1>2. R \in Nat /\ DOMAIN x = 1..R /\ (\A k \in 1..R : x[k] \in Nat) /\ g \in Nat
  <2>1. R \in Nat /\ DOMAIN x = 1..R /\ (\A k \in 1..R : x[k] \in Nat)
    BY <1>0, Numbers
  <2> QED
    BY SMTT(20), <1>0, <2>1
<1>3. ExtensionEnd(h, 0) = g /\ ExtensionEnd(h, R) = M
  <2>1. 0 + 1 = 1
    BY SMTT(20)
  <2> QED
    BY <1>1, <2>1 DEF ExtensionEnd, Begin
<1>4. ASSUME NEW k \in 1..R
      PROVE  Begin(g, x, k) = ExtensionEnd(h, k - 1) /\ ExtensionEnd(h, k) = x[k] /\ k - 1 \in 0..R
  <2>1. (k - 1) + 1 = k /\ k + 1 # 1 /\ (k + 1) - 1 = k /\ k - 1 \in 0..R
    BY SMTT(20), <1>2
  <2> QED
    BY <2>1 DEF ExtensionEnd, Begin
<1>5. ASSUME NEW k \in 1..R
      PROVE  /\ ExtensionEnd(h, k - 1) + 4 <= ExtensionEnd(h, k) /\ ExtensionEnd(h, k) <= M /\ ExtensionEnd(h, k) \in Nat
             /\ ExtensionEnd(h, k) = ExtensionEnd(h, k - 1) + 4 + U16At(m, ExtensionEnd(h, k - 1) + 2)
  BY <1>1, <1>2, <1>4
<1>6. Vector16At(m, h.fields[4], M)
  <2>1. M <= M
    BY SMTT(20), <1>0
  <2> QED
    BY <1>0, <1>1, <2>1 DEF Vector16At
<1>7. HasEch(h) = \E k \in 1..R : EchAt(h, k)
  BY <1>2, <1>4 DEF HasEch, EchAt
<1> HIDE DEF m, x, g, M
<1> DEFINE T == {k \in Nat : ExtensionEnd(h, k) \in Nat /\ g <= ExtensionEnd(h, k) /\ ExtensionEnd(h, k) <= M}
<1>8. 0 \in T
  <2>1. g <= g /\ g <= M
    BY SMTT(20), <1>1, <1>2
  <2> QED
    BY <1>2, <1>3, <2>1
<1>9. ASSUME NEW n \in Nat, n < R, n \in T PROVE n + 1 \in T
  <2>1. n + 1 \in 1..R /\ (n + 1) - 1 = n /\ n + 1 \in Nat
    BY SMTT(20), <1>2, <1>9
  <2>2. ExtensionEnd(h, n) + 4 <= ExtensionEnd(h, n + 1) /\ ExtensionEnd(h, n + 1) <= M /\ ExtensionEnd(h, n + 1) \in Nat
    BY <1>5, <2>1
  <2>3. ExtensionEnd(h, n) \in Nat /\ g <= ExtensionEnd(h, n)
    BY <1>9
  <2>4. g <= ExtensionEnd(h, n + 1)
    BY SMTT(20), <1>2, <2>2, <2>3
  <2> QED
    BY <2>1, <2>2, <2>4
<1> HIDE DEF T
<1>10. \A k \in 0..R : k \in T
  BY <1>2, <1>8, <1>9, UpTo
<1>11. ASSUME NEW k \in 1..R PROVE Vector16At(m, ExtensionEnd(h, k - 1) + 2, ExtensionEnd(h, k))
  <2> DEFINE a == ExtensionEnd(h, k - 1)
             e == ExtensionEnd(h, k)
             u == U16At(m, a + 2)
  <2>1. a \in Nat /\ e \in Nat /\ a + 4 <= e /\ e <= M /\ e = a + 4 + u
    BY <1>4, <1>5, <1>10 DEF T
  <2> HIDE DEF a, e, u
  <2>2. a + 2 \in Nat /\ (a + 2) + 2 <= M /\ e = (a + 2) + 2 + u
    <3>1. (a + 2) + 2 = a + 4 /\ a + 4 \in Nat
      BY SMTT(20), <2>1
    <3>2. a + 4 <= M
      BY SMTT(20), <1>0, <2>1
    <3> QED
      BY SMTT(20), <2>1, <3>1, <3>2
  <2> QED
    BY <1>0, <2>1, <2>2 DEF Vector16At, a, e, u, M
<1> QED
  BY <1>2, <1>3, <1>5, <1>6, <1>7, <1>10, <1>11 DEF T, m, x, g, M

\* The place in the block of extensions at which the k-th one ends.
PlaceIn(h, k) == ExtensionEnd(h, k) - h.fields[4] - 1

\* The bytes of the block from that place on are what the reader has left.
LEMMA LeftInBlock ==
  ASSUME NEW m \in Seq(Nat), NEW g \in Nat, NEW e \in Nat, g <= e, e <= Len(m)
  PROVE  SubSeq(Rest(m, g), e - g + 1, Len(Rest(m, g))) = Rest(m, e)
<1>1. g <= Len(m)
  BY SMTT(20)
<1>2. Len(Rest(m, g)) = Len(m) - g
  BY <1>1, RestIs
<1> QED
  BY SMTT(20), <1>1, <1>2 DEF Rest

\* The first bytes of what the reader has left.
LEMMA FirstTwo ==
  ASSUME NEW m \in Seq(Nat), NEW e \in Nat, e + 2 <= Len(m)
  PROVE  SubSeq(Rest(m, e), 1, 2) = SubSeq(m, e + 1, e + 2)
BY SMTT(20) DEF Rest

\* At the end of an extension, the loop goes on to the next one unless that is ECH.
LEMMA EchStepIs ==
  ASSUME NEW h, HasBlock(h), NEW f, NEW k \in 0..Len(h.extensions)
  PROVE  EchStep(Rest(h.message, h.fields[4] + 2), f, PlaceIn(h, k)) =
            IF k = Len(h.extensions) THEN {FALSE}
            ELSE IF EchAt(h, k + 1) THEN {TRUE} ELSE f[PlaceIn(h, k + 1)]
<1> DEFINE m == h.message
           g == h.fields[4] + 2
           x == Rest(m, g)
           R == Len(h.extensions)
           e == ExtensionEnd(h, k)
           d == ExtensionEnd(h, k + 1)
<1>0. m \in Seq(Nat) /\ Len(m) \in Nat /\ h.fields[4] \in Nat /\ R \in Nat
  <2>1. 4 \in 1..4
    BY SMTT(20)
  <2> QED
    BY <2>1, MessageIs, ExtensionEnds DEF HasBlock
<1>1. e \in Nat /\ g <= e /\ e <= Len(m) /\ (k = R => e = Len(m))
  BY ExtensionEnds
<1>2. k # R => k + 1 \in 1..R /\ (k + 1) - 1 = k /\ k + 1 \in 0..R
  BY SMTT(20), <1>0
<1>3. k # R => d \in Nat /\ e + 4 <= d /\ d <= Len(m) /\ Vector16At(m, e + 2, d)
  BY <1>2, ExtensionEnds
<1>4. EchAt(h, k + 1) <=> (SubSeq(m, e + 1, e + 2) = ECH_EXTENSION)
  <2>1. (k + 1) - 1 = k
    BY SMTT(20)
  <2> QED
    BY <2>1 DEF EchAt
<1> HIDE DEF m, e, d
<1>5. /\ g \in Nat /\ PlaceIn(h, k) = e - g + 1 /\ (k # R => PlaceIn(h, k + 1) = Len(x) + 1 - (Len(m) - d))
      /\ Len(x) = Len(m) - g
  <2>1. g \in Nat /\ g <= Len(m)
    BY SMTT(20), <1>0, <1>1
  <2> HIDE DEF g
  <2>2. Len(x) = Len(m) - g
    BY <1>0, <2>1, RestIs
  <2>3. e - h.fields[4] - 1 = e - g + 1
    BY SMTT(20), <1>0, <1>1 DEF g
  <2>4. ASSUME k # R PROVE d - h.fields[4] - 1 = Len(x) + 1 - (Len(m) - d)
    BY SMTT(20), <1>0, <1>3, <2>2, <2>4 DEF g
  <2> QED
    BY <2>1, <2>2, <2>3, <2>4 DEF PlaceIn, e, d
<1>6. SubSeq(x, PlaceIn(h, k), Len(x)) = Rest(m, e)
  <2>1. g \in Nat /\ g <= e
    BY <1>1, <1>5
  <2> HIDE DEF g
  <2>2. SubSeq(Rest(m, g), e - g + 1, Len(Rest(m, g))) = Rest(m, e)
    BY <1>0, <1>1, <2>1, LeftInBlock
  <2> QED
    BY <1>5, <2>2
<1> HIDE DEF x
<1>7. CASE k = R
  <2>1. Rest(m, Len(m)) = <<>>
    BY SMTT(20), <1>0 DEF Rest
  <2> QED
    BY <1>1, <1>6, <1>7, <2>1 DEF EchStep, x, g, m
<1>8. CASE k # R
  <2>1. /\ d \in Nat /\ e + 4 <= d /\ d <= Len(m) /\ Vector16At(m, e + 2, d)
        /\ PlaceIn(h, k + 1) = Len(x) + 1 - (Len(m) - d)
    BY <1>3, <1>5, <1>8
  <2>2. e + 2 <= Len(m) /\ 2 \in Nat /\ Len(m) - e # 0
    BY SMTT(20), <1>0, <1>1, <2>1
  <2>3. take({Rest(m, e)}, 2) = {Rest(m, e + 2)}
    BY <1>0, <1>1, <2>2, TakeIs
  <2>4. take_u16_vector({Rest(m, e + 2)}) = {Rest(m, d)}
    <3> DEFINE c == e + 2
    <3>1. Vector16At(m, c, d)
      BY <2>1
    <3> HIDE DEF c
    <3>2. take_u16_vector({Rest(m, c)}) = {Rest(m, d)}
      BY <3>1, TakeU16Is
    <3> QED
      BY <3>2 DEF c
  <2>5. Rest(m, e) # <<>>
    <3>1. Len(Rest(m, e)) = Len(m) - e
      BY <1>0, <1>1, RestIs
    <3>2. Len(<<>>) = 0
      BY SMTT(20)
    <3> QED
      BY <2>2, <3>1, <3>2
  <2>6. SubSeq(Rest(m, e), 1, 2) = SubSeq(m, e + 1, e + 2)
    BY <1>0, <1>1, <2>2, FirstTwo
  <2>7. Len(Rest(m, d)) = Len(m) - d
    BY <1>0, <2>1, RestIs
  <2>8. (CHOOSE r \in {Rest(m, d)} : TRUE) = Rest(m, d) /\ {Rest(m, d)} # {}
    OBVIOUS
  <2>9. EchStep(x, f, PlaceIn(h, k)) = IF SubSeq(m, e + 1, e + 2) = ECH_EXTENSION THEN {TRUE} ELSE f[PlaceIn(h, k + 1)]
    <3> DEFINE rest == SubSeq(x, PlaceIn(h, k), Len(x))
               after == take_u16_vector(take({rest}, 2))
               p == Len(x) + 1 - Len(CHOOSE r \in after : TRUE)
    <3>1. rest # <<>> /\ after = {Rest(m, d)} /\ after # {} /\ SubSeq(rest, 1, 2) = SubSeq(m, e + 1, e + 2)
      BY <1>6, <2>3, <2>4, <2>5, <2>6
    <3> HIDE DEF rest, after
    <3>2. p = PlaceIn(h, k + 1)
      BY <2>1, <2>7, <2>8, <3>1
    <3> HIDE DEF p
    <3>3. EchStep(x, f, PlaceIn(h, k)) =
            IF rest = <<>> THEN {FALSE} ELSE IF after = {} THEN {}
            ELSE IF SubSeq(rest, 1, 2) = ECH_EXTENSION THEN {TRUE} ELSE f[p]
      BY DEF EchStep, rest, after, p
    <3> QED
      BY <3>1, <3>2, <3>3
  <2> QED
    BY <1>4, <1>8, <2>9 DEF x, g, m
<1> QED
  BY <1>7, <1>8

\* The loop over the extensions finds the ECH extension just when there is one.
LEMMA EchFound ==
  ASSUME NEW h, HasBlock(h)
  PROVE  EchIn(Rest(h.message, h.fields[4] + 2)) = {HasEch(h)}
<1> DEFINE m == h.message
           g == h.fields[4] + 2
           x == Rest(m, g)
           R == Len(h.extensions)
           f == CHOOSE f : f = [i \in 1..(Len(x) + 1) |-> EchStep(x, f, i)]
           From(k) == \E y \in (k + 1)..R : EchAt(h, y)
           T == {j \in Nat : j <= R => f[PlaceIn(h, R - j)] = {From(R - j)}}
<1>0. m \in Seq(Nat) /\ Len(m) \in Nat /\ h.fields[4] \in Nat /\ R \in Nat /\ g \in Nat /\ g <= Len(m)
  <2>1. 4 \in 1..4
    BY SMTT(20)
  <2>2. m \in Seq(Nat) /\ Len(m) \in Nat /\ h.fields[4] \in Nat /\ R \in Nat
    BY <2>1, MessageIs, ExtensionEnds DEF HasBlock
  <2>3. 0 \in 0..R
    BY SMTT(20), <2>2
  <2>4. ExtensionEnd(h, 0) = g /\ ExtensionEnd(h, 0) <= Len(m) /\ ExtensionEnd(h, 0) \in Nat
    BY <2>3, ExtensionEnds
  <2> QED
    BY <2>2, <2>4
<1>1. x \in Seq(Nat) /\ Len(x) = Len(m) - g
  <2> HIDE DEF g, m
  <2> QED
    BY <1>0, RestIs
<1>2. \A k \in 0..R : PlaceIn(h, k) \in 1..(Len(x) + 1)
  <2> SUFFICES ASSUME NEW k \in 0..R PROVE PlaceIn(h, k) \in 1..(Len(x) + 1)
    OBVIOUS
  <2>1. ExtensionEnd(h, k) \in Nat /\ g <= ExtensionEnd(h, k) /\ ExtensionEnd(h, k) <= Len(m)
    BY ExtensionEnds
  <2> DEFINE e == ExtensionEnd(h, k)
             F == h.fields[4]
             M == Len(m)
             L == Len(x)
  <2>2. e \in Nat /\ F + 2 <= e /\ e <= M /\ M \in Nat /\ F \in Nat /\ L = M - (F + 2) /\ PlaceIn(h, k) = e - F - 1
    BY <1>0, <1>1, <2>1 DEF PlaceIn
  <2> HIDE DEF e, F, M, L
  <2>3. e - F - 1 \in 1..(L + 1)
    BY SMTT(20), <2>2
  <2> QED
    BY <2>2, <2>3 DEF L
<1>3. PlaceIn(h, 0) = 1
  <2>1. ExtensionEnd(h, 0) = g
    BY ExtensionEnds
  <2> QED
    BY SMTT(20), <1>0, <2>1 DEF PlaceIn
<1>e. HasEch(h) = \E k \in 1..R : EchAt(h, k)
  BY ExtensionEnds
<1>4. \A q, k : k \in 0..R =>
         EchStep(x, q, PlaceIn(h, k)) =
            IF k = R THEN {FALSE} ELSE IF EchAt(h, k + 1) THEN {TRUE} ELSE q[PlaceIn(h, k + 1)]
  BY EchStepIs
<1> HIDE DEF x
<1>5. f = [i \in 1..(Len(x) + 1) |-> EchStep(x, f, i)]
  BY <1>1, EchRuns
<1>6. EchIn(x) = f[1]
  BY DEF EchIn, EchStep
<1> HIDE DEF f
<1>7. ASSUME NEW k \in 0..R
      PROVE  f[PlaceIn(h, k)] = IF k = R THEN {FALSE} ELSE IF EchAt(h, k + 1) THEN {TRUE} ELSE f[PlaceIn(h, k + 1)]
  BY <1>2, <1>4, <1>5
<1>8. 0 \in T
  <2>1. R - 0 = R /\ R \in 0..R /\ (R + 1)..R = {}
    BY SMTT(20), <1>0
  <2> QED
    BY <1>7, <2>1
<1>9. ASSUME NEW j \in Nat, j < R, j \in T PROVE j + 1 \in T
  <2> DEFINE k == R - (j + 1)
  <2>1. k \in 0..R /\ k # R /\ k + 1 = R - j /\ j <= R /\ k \in Nat /\ j + 1 \in Nat
    BY SMTT(20), <1>0, <1>9
  <2> HIDE DEF k
  <2>2. f[PlaceIn(h, k + 1)] = {From(k + 1)}
    BY <1>9, <2>1
  <2>3. (k + 1)..R = {k + 1} \cup ((k + 1) + 1)..R
    BY SMTT(20), <1>0, <2>1
  <2>4. From(k) <=> EchAt(h, k + 1) \/ From(k + 1)
    BY <2>3
  <2>5. f[PlaceIn(h, k)] = IF EchAt(h, k + 1) THEN {TRUE} ELSE f[PlaceIn(h, k + 1)]
    BY <1>7, <2>1
  <2>6. f[PlaceIn(h, k)] = {From(k)}
    BY <2>2, <2>4, <2>5
  <2> QED
    BY <2>1, <2>6 DEF k
<1> HIDE DEF T
<1>10. \A j \in 0..R : j \in T
  BY <1>0, <1>8, <1>9, UpTo
<1>11. f[PlaceIn(h, 0)] = {From(0)}
  <2>1. R \in 0..R /\ R <= R /\ R - R = 0
    BY SMTT(20), <1>0
  <2> QED
    BY <1>10, <2>1 DEF T
<1>12. From(0) <=> HasEch(h)
  <2>1. 0 + 1 = 1
    BY SMTT(20)
  <2> QED
    BY <1>e, <2>1
<1>13. From(0) \in BOOLEAN /\ HasEch(h) \in BOOLEAN
  BY DEF HasEch
<1> QED
  BY <1>3, <1>6, <1>11, <1>12, <1>13 DEF x

\* client_hello_has_ech tells whether the hello has the ECH extension, wherever its
\* records are cut: it is never called invalid and the extension is neither missed
\* nor imagined.
LEMMA HelloIsRead ==
  ASSUME NEW w, NEW h, Carries(w, h)
  PROVE  client_hello_has_ech(w) = {HasEch(h)}
<1> DEFINE m == h.message
           f == h.fields
<1>0. IsMessage(h) /\ m \in Seq(Nat) /\ Len(m) \in Nat /\ HelloPrefix \in Nat
  BY MessageIs, HelloAssumption DEF Carries
<1>1. f[1] \in Nat /\ f[2] \in Nat /\ f[3] \in Nat /\ f[4] \in Nat
  <2>1. 1 \in 1..4 /\ 2 \in 1..4 /\ 3 \in 1..4 /\ 4 \in 1..4
    BY SMTT(20)
  <2> QED
    BY <1>0, <2>1, MessageIs
<1>2. /\ f[1] = 4 + HelloPrefix /\ f[1] < f[2] /\ f[2] + 2 <= f[3] /\ f[3] < f[4] /\ f[4] <= Len(m)
  BY <1>0 DEF IsMessage
<1>v. f[2] = f[1] + 1 + m[f[1] + 1] /\ f[3] = f[2] + 2 + U16At(m, f[2]) /\ f[4] = f[3] + 1 + m[f[3] + 1]
  BY <1>0 DEF IsMessage
<1>3. /\ 4 \in Nat /\ 4 <= Len(m) /\ 4 + HelloPrefix <= Len(m)
      /\ f[1] < Len(m) /\ f[2] <= Len(m) /\ f[2] + 2 <= Len(m) /\ f[3] <= Len(m) /\ f[3] < Len(m)
  <2> DEFINE M == Len(m)
             a == f[1]
             b == f[2]
             c == f[3]
             d == f[4]
  <2>1. M \in Nat /\ HelloPrefix \in Nat /\ a \in Nat /\ b \in Nat /\ c \in Nat /\ d \in Nat
    BY <1>0, <1>1
  <2>2. a = 4 + HelloPrefix /\ a < b /\ b + 2 <= c /\ c < d /\ d <= M
    BY <1>2
  <2> HIDE DEF M, a, b, c, d
  <2>3. /\ 4 \in Nat /\ 4 <= M /\ 4 + HelloPrefix <= M /\ a < M /\ b <= M /\ b + 2 <= M /\ c <= M /\ c < M
    BY SMTT(20), <2>1, <2>2
  <2> QED
    BY <2>3 DEF M, a, b, c, d
<1>4. {Drop(q, 4) : q \in deframe_client_hello(w)} = {Rest(m, 4)}
  BY Deframed DEF Drop, Rest
<1> HIDE DEF m, f
<1>5. take({Rest(m, 4)}, HelloPrefix) = {Rest(m, f[1])}
  <2> DEFINE n == 4
  <2>0. n \in Nat /\ n + HelloPrefix <= Len(m)
    BY <1>3
  <2> HIDE DEF n
  <2>1. take({Rest(m, n)}, HelloPrefix) = {Rest(m, n + HelloPrefix)}
    BY <1>0, <2>0, TakeIs
  <2> QED
    BY <1>2, <2>1 DEF n
<1>6. take_u8_vector({Rest(m, f[1])}) = {Rest(m, f[2])}
  BY <1>0, <1>1, <1>v, <1>3, TakeU8Is
<1>7. take_u16_vector({Rest(m, f[2])}) = {Rest(m, f[3])}
  <2>1. Vector16At(m, f[2], f[3])
    BY <1>0, <1>1, <1>v, <1>3 DEF Vector16At
  <2> QED
    BY <2>1, TakeU16Is
<1>8. take_u8_vector({Rest(m, f[3])}) = {Rest(m, f[4])}
  BY <1>0, <1>1, <1>2, <1>v, <1>3, TakeU8Is
<1> DEFINE b == Rest(m, f[4])
           Says(c) == IF c = <<>> THEN {FALSE} ELSE IF take_u16_vector({c}) # {<<>>} THEN {} ELSE EchIn(U16Content(c))
           bodies == {Drop(q, 4) : q \in deframe_client_hello(w)}
           rest == take_u8_vector(take_u16_vector(take_u8_vector(take(bodies, HelloPrefix))))
<1>9. client_hello_has_ech(w) = Says(b)
  <2>1. client_hello_has_ech(w) = UNION {Says(c) : c \in rest}
    BY DEF client_hello_has_ech
  <2>2. rest = {b}
    <3> HIDE DEF bodies
    <3>1. bodies = {Rest(m, 4)}
      BY <1>4 DEF bodies
    <3> QED
      BY <1>5, <1>6, <1>7, <1>8, <3>1
  <2> HIDE DEF b, rest, Says
  <2>3. UNION {Says(c) : c \in {b}} = Says(b)
    OBVIOUS
  <2> QED
    BY <2>1, <2>2, <2>3
<1>10. Len(b) = Len(m) - f[4]
  BY <1>0, <1>1, <1>2, RestIs
<1>11. CASE Len(m) = f[4]
  <2>1. b = <<>>
    BY SMTT(20), <1>0, <1>11 DEF Rest
  <2>2. h.extensions = <<>>
    <3>1. ~(f[4] + 2 <= f[4])
      BY SMTT(20), <1>1
    <3> QED
      BY <1>0, <1>11, <3>1 DEF IsMessage, m, f
  <2>3. HasEch(h) = FALSE
    <3>1. DOMAIN <<>> = {}
      BY SMTT(20)
    <3> QED
      BY <2>2, <3>1 DEF HasEch
  <2> QED
    BY <1>9, <2>1, <2>3
<1>12. CASE Len(m) # f[4]
  <2>1. HasBlock(h)
    BY <1>0, <1>12 DEF HasBlock, m, f
  <2>2. Vector16At(m, f[4], Len(m))
    BY <2>1, ExtensionEnds DEF m, f
  <2>3. take_u16_vector({b}) = {Rest(m, Len(m))} /\ U16Content(b) = SubSeq(m, f[4] + 3, Len(m))
    BY <2>2, TakeU16Is
  <2>4. Rest(m, Len(m)) = <<>> /\ f[4] + 3 = (f[4] + 2) + 1
    BY SMTT(20), <1>0, <1>1 DEF Rest
  <2>5. b # <<>>
    <3>1. Len(m) - f[4] # 0 /\ Len(<<>>) = 0
      BY SMTT(20), <1>0, <1>1, <1>12
    <3> QED
      BY <1>10, <3>1
  <2>6. EchIn(Rest(m, f[4] + 2)) = {HasEch(h)}
    BY <2>1, EchFound DEF m, f
  <2>7. U16Content(b) = Rest(m, f[4] + 2)
    BY <2>3, <2>4 DEF Rest
  <2> QED
    BY <1>9, <2>3, <2>4, <2>5, <2>6, <2>7
<1> QED
  BY <1>11, <1>12

-------------------------------------------------------------------------------
(***************************************************************************)
(* The inspection.                                                         *)
(***************************************************************************)

\* The header's end is where one look at the whole stream finds it.
LEMMA HeaderEnd ==
  ASSUME PreambleInv, end # 0
  PROVE  end \in find_header_end(Stream, 0)
<1> DEFINE L == Len(Stream)
           found == find_header_end(SubSeq(Stream, 1, 0 + L), ScanFrom(0))
<1>0. Stream \in Seq(Nat) /\ L \in Nat /\ end \in Nat /\ end <= L
  BY SMTT(20), Reader
<1>1. FirstEnd(end) /\ Delimiters \subseteq Nat
  <2>1. FirstEnd(end)
    BY DEF PreambleInv
  <2>2. Delimiters \subseteq Nat
    BY SMTT(20), <1>0 DEF Delimiters
  <2> QED
    BY <2>1, <2>2
<1>2. Bare(0)
  <2> SUFFICES ASSUME NEW i \in Delimiters PROVE i + 3 > 0
    BY DEF Bare
  <2>1. i \in Nat
    BY <1>1
  <2> QED
    BY SMTT(20), <2>1
<1>3. 0 \in Nat /\ 0 + L <= Len(Stream) /\ 0 + L = L /\ ScanFrom(0) = 0 /\ SubSeq(Stream, 1, L) = Stream
  BY SMTT(20), <1>0 DEF ScanFrom
<1>4. found = find_header_end(Stream, 0)
  BY <1>3
<1>5. (found = {} => Bare(0 + L)) /\ \A e \in found : e \in Nat /\ e <= 0 + L /\ FirstEnd(e)
  BY <1>0, <1>2, <1>3, Found
<1> HIDE DEF found
<1>6. found # {}
  <2> SUFFICES ASSUME Bare(L) PROVE FALSE
    BY <1>3, <1>5
  <2>1. (end - 3) + 3 > L
    BY <1>1 DEF Bare, FirstEnd
  <2> QED
    BY SMTT(20), <1>0, <2>1
<1>7. PICK e \in found : e \in Nat /\ FirstEnd(e)
  BY <1>5, <1>6
<1>8. e - 3 <= end - 3 /\ end - 3 <= e - 3
  BY <1>1, <1>7 DEF FirstEnd
<1>9. e = end
  BY SMTT(20), <1>0, <1>7, <1>8
<1> QED
  BY <1>4, <1>7, <1>9

\* What a hello says of the first bytes of a tunnel it says of more or fewer of
\* them, as long as its records are there.
LEMMA SameRecords ==
  ASSUME NEW t, NEW h, Carries(t, h), NEW w \in Seq(Nat), h.complete <= Len(w),
         \A i \in 1..h.complete : w[i] = t[i]
  PROVE  Carries(w, h)
<1> DEFINE r == h.records
           K == Len(r)
           C == h.complete
           M == Len(h.message)
<1>0. K \in Nat \ {0} /\ M \in Nat /\ C = r[K] /\ M = C - 5 * K /\ C \in Nat /\ r \in Seq(Nat) /\ DOMAIN r = 1..K
  <2>1. K \in Nat \ {0} /\ M \in Nat
    BY RecordEnds
  <2>2. C = r[K] /\ M = C - 5 * K /\ r \in Seq(Nat)
    BY DEF Carries, InRecords
  <2>3. K \in 1..K
    BY SMTT(20), <2>1
  <2> QED
    BY <2>1, <2>2, <2>3, Numbers
<1>1. ASSUME NEW k \in 1..K
      PROVE  LET b == Begin(0, r, k)
             IN  /\ w[b + 1] = TLS_HANDSHAKE /\ U16At(w, b + 3) = r[k] - b - 5
                 /\ \A i \in (b + 6)..r[k] : w[i] = h.message[i - 5 * k]
  <2> DEFINE b == Begin(0, r, k)
             e == r[k]
  <2>1. b = RecordEnd(h, k - 1) /\ e = RecordEnd(h, k) /\ k - 1 \in 0..K /\ k \in 0..K
    <3>1. (k - 1) + 1 = k /\ (k + 1) - 1 = k /\ k + 1 # 1 /\ k - 1 \in 0..K /\ k \in 0..K
      BY SMTT(20), <1>0
    <3> QED
      BY <3>1 DEF RecordEnd, Begin
  <2>2. b \in Nat /\ e \in Nat /\ e - 5 * k <= M
    BY SMTT(20), <2>1, RecordEnds
  <2>3. /\ b + 5 <= e /\ t[b + 1] = TLS_HANDSHAKE /\ U16At(t, b + 3) = e - b - 5
        /\ \A i \in (b + 6)..e : t[i] = h.message[i - 5 * k]
    BY <1>0 DEF Carries, InRecords
  <2>4. b + 5 <= e
    BY <2>3
  <2> HIDE DEF b, e, C, M
  <2>5. e <= C
    BY SMTT(20), <1>0, <2>2
  <2>6. b + 1 \in 1..C /\ (b + 3) + 1 \in 1..C /\ (b + 3) + 2 \in 1..C /\ \A i \in (b + 6)..e : i \in 1..C
    BY SMTT(20), <1>0, <2>2, <2>4, <2>5
  <2>7. U16At(w, b + 3) = U16At(t, b + 3)
    BY <2>6 DEF U16At, C
  <2>8. \A i \in (b + 6)..e : w[i] = h.message[i - 5 * k]
    BY <2>3, <2>6 DEF C
  <2>9. w[b + 1] = TLS_HANDSHAKE
    BY <2>3, <2>6 DEF C
  <2> QED
    BY <2>3, <2>7, <2>8, <2>9 DEF b, e
<1> HIDE DEF r
<1>2. /\ r # <<>>
      /\ \A k \in 1..K : LET b == Begin(0, r, k) IN b + 5 <= r[k] /\ (k < K => r[k] - 5 * k < M)
  BY <1>0 DEF Carries, InRecords, r
<1>3. InRecords(w, h)
  BY <1>0, <1>1, <1>2 DEF InRecords, r
<1> QED
  BY <1>3 DEF Carries

\* What the bytes that the inspection has read mean, once they hold the whole hello.
LEMMA HelloHere ==
  ASSUME PreambleInv, phase = "hello", input.hello.valid, Len(wire) >= input.hello.complete
  PROVE  client_hello_has_ech(wire) = {input.hello.ech}
<1> DEFINE h == input.hello
           t == SubSeq(Stream, end + 1, Len(Stream))
<1>0. /\ Stream \in Seq(Nat) /\ Len(Stream) \in Nat /\ pos \in Nat /\ pos <= Len(Stream) /\ end \in Nat /\ end <= pos
      /\ wire = SubSeq(Stream, end + 1, pos) /\ end # 0 /\ input \in Inputs
  BY Reader DEF PreambleInv
<1>1. end <= Len(Stream) /\ Len(Stream) <= Len(Stream)
  BY SMTT(20), <1>0
<1>2. /\ InRecords(t, h) /\ IsMessage(h) /\ h.ech = HasEch(h)
  BY <1>0, HeaderEnd, HelloAssumption DEF Stream
<1>3. t \in Seq(Nat) /\ Len(t) = Len(Stream) - end /\ \A i \in 1..(Len(Stream) - end) : t[i] = Stream[end + i]
  BY <1>0, <1>1, Between
<1>4. wire \in Seq(Nat) /\ Len(wire) = pos - end /\ \A i \in 1..(pos - end) : wire[i] = Stream[end + i]
  BY <1>0, Between
<1>5. Carries(t, h)
  BY <1>2, <1>3 DEF Carries
<1> HIDE DEF t
<1>6. h.complete \in Nat
  <2>1. Len(h.records) \in Nat \ {0}
    BY <1>5, RecordEnds
  <2>2. h.records \in Seq(Nat) /\ h.complete = h.records[Len(h.records)]
    BY <1>5 DEF Carries, InRecords
  <2>3. Len(h.records) \in 1..Len(h.records)
    BY SMTT(20), <2>1
  <2> QED
    BY <2>2, <2>3, Numbers
<1> DEFINE C == h.complete
<1>7. C <= Len(wire)
  <2> HIDE DEF h
  <2> QED
    BY SMTT(20), <1>0, <1>4, <1>6 DEF h
<1>8. \A i \in 1..C : i \in 1..(pos - end) /\ i \in 1..(Len(Stream) - end)
  <2>1. C \in Nat /\ C <= pos - end
    BY <1>4, <1>6, <1>7
  <2> HIDE DEF C
  <2> QED
    BY SMTT(20), <1>0, <2>1
<1>9. \A i \in 1..C : wire[i] = t[i]
  BY <1>3, <1>4, <1>8
<1> HIDE DEF h
<1>10. Carries(wire, h)
  BY <1>4, <1>5, <1>7, <1>9, SameRecords
<1>11. client_hello_has_ech(wire) = {HasEch(h)}
  BY <1>10, HelloIsRead
<1> QED
  BY <1>2, <1>11 DEF h

\* A hello takes some bytes.
LEMMA HelloTakesBytes ==
  ASSUME PreambleInv, end # 0, input.hello.valid
  PROVE  input.hello.complete \in Nat /\ 0 < input.hello.complete
<1> DEFINE h == input.hello
           t == SubSeq(Stream, end + 1, Len(Stream))
<1>0. Stream \in Seq(Nat) /\ Len(Stream) \in Nat /\ end \in Nat /\ end <= Len(Stream) /\ Len(Stream) <= Len(Stream)
  BY SMTT(20), Reader
<1>1. input \in Inputs
  BY DEF PreambleInv
<1>2. InRecords(t, h) /\ IsMessage(h)
  BY <1>1, HeaderEnd, HelloAssumption DEF Stream
<1>3. Carries(t, h)
  BY <1>0, <1>2, Between DEF Carries
<1> HIDE DEF t, h
<1> DEFINE K == Len(h.records)
<1>4. K \in Nat \ {0} /\ \A k \in 0..K : RecordEnd(h, k) \in Nat /\ 5 * k <= RecordEnd(h, k)
  BY <1>3, RecordEnds
<1>5. h.complete = h.records[K]
  BY <1>2 DEF InRecords
<1>6. K \in 0..K /\ K + 1 # 1 /\ (K + 1) - 1 = K
  BY SMTT(20), <1>4
<1>7. h.complete = RecordEnd(h, K)
  BY <1>5, <1>6 DEF RecordEnd, Begin
<1> HIDE DEF K
<1>8. h.complete \in Nat /\ 5 * K <= h.complete
  BY <1>4, <1>6, <1>7
<1>9. 0 < h.complete
  BY SMTT(20), <1>4, <1>8
<1> QED
  BY <1>8, <1>9 DEF h

\* The inspection as it goes on: what it has buffered fits the ceiling, and a valid
\* hello is not yet complete.
VerdictInv ==
  /\ phase \in {"header", "parse"} => wire = <<>> /\ fed = 0
  /\ phase = "hello" => /\ fed \in 0..Len(wire) /\ Len(wire) <= HelloCeiling
                        /\ input.hello.valid => fed < input.hello.complete
  /\ VerdictByContent

\* The ceiling is a number and stays.
LEMMA CeilingStays ==
  ASSUME PreambleInv, [PreambleNext]_preambleVars
  PROVE  HelloCeiling \in Nat /\ HelloCeiling' = HelloCeiling
<1>1. {MaxHello} \cup limit \subseteq Nat
  BY PreambleAssumption DEF PreambleInv, limit
<1>2. HelloCeiling \in Nat
  BY <1>1, LeastIsMin DEF HelloCeiling
<1> QED
  BY <1>2, SameInput DEF HelloCeiling

\* A connection that ends for a reason of another kind.
LEMMA OtherEnd ==
  ASSUME PreambleInv, VerdictInv, [PreambleNext]_preambleVars, phase' = "done", UNCHANGED <<end, wire>>,
         outcome' \notin {"ech-denied", "forwarded", "client-hello-invalid", "upload-limit",
                          "client-hello-too-large", "client-hello-eof"}
  PROVE  VerdictInv'
<1>1. wire' # <<>> => Len(wire') <= HelloCeiling'
  BY CeilingStays DEF VerdictInv, VerdictByContent
<1> QED
  BY <1>1 DEF VerdictInv, VerdictByContent

\* read_bounded_header has nothing to do with the inspection.
LEMMA HeaderSteps ==
  ASSUME PreambleInv, VerdictInv, ReadHeader \/ HeaderTooLarge \/ HeaderEof \/ HeaderReadFails \/ NotConnected
  PROVE  VerdictInv'
<1>i. [PreambleNext]_preambleVars
  BY DEF PreambleNext
<1>1. CASE ReadHeader
  <2>1. phase' \in {"header", "parse"} /\ UNCHANGED <<outcome, wire, fed>> /\ phase = "header"
    BY <1>1 DEF ReadHeader
  <2>2. outcome = "none" /\ wire = <<>> /\ fed = 0
    BY <2>1 DEF PreambleInv, VerdictInv
  <2> QED
    BY <2>1, <2>2 DEF VerdictInv, VerdictByContent
<1>2. CASE HeaderTooLarge \/ HeaderEof \/ HeaderReadFails \/ NotConnected
  <2>1. /\ phase' = "done" /\ UNCHANGED <<end, wire>>
        /\ outcome' \in {"header-too-large", "header-eof", "header-read-failed", "header-timeout", "not-connected"}
    BY <1>2 DEF HeaderTooLarge, HeaderEof, HeaderReadFails, NotConnected, Finish
  <2> QED
    BY <1>i, <2>1, OtherEnd
<1> QED
  BY <1>1, <1>2

\* serve_connect hands what came with the header to the inspection, if it fits.
LEMMA ParseVerdict ==
  ASSUME PreambleInv, VerdictInv, Parse
  PROVE  VerdictInv'
<1>i. [PreambleNext]_preambleVars
  BY DEF PreambleNext
<1>0. /\ phase = "parse" /\ UNCHANGED <<input, end, fed>> /\ wire = <<>> /\ fed = 0 /\ end # 0 /\ outcome = "none"
  BY DEF PreambleInv, VerdictInv, Parse
<1>1. \/ /\ phase' = "done" /\ wire' = wire
         /\ outcome' \in {"incomplete-header", "malformed-header", "upload-limit", "client-hello-too-large"}
      \/ tls = "disabled" /\ phase' = "write" /\ UNCHANGED <<wire, outcome>>
      \/ /\ tls # "disabled" /\ phase' = "hello" /\ wire' = Buffered /\ UNCHANGED outcome
         /\ ~(Len(Buffered) > HelloCeiling)
  BY DEF Parse, Finish, Boundary, TooLargeReason
<1>2. CASE wire' = wire /\ phase' # "hello" /\ (phase' = "write" => tls = "disabled")
  <2>1. wire' = <<>> /\ fed' = 0 /\ ~(fed' > 0)
    BY SMTT(20), <1>0, <1>2
  <2>2. outcome' \notin {"ech-denied", "forwarded", "client-hello-invalid", "client-hello-eof"} /\ phase' \in {"done", "write"}
    BY <1>0, <1>1, <1>2
  <2> QED
    BY <1>i, <1>2, <2>1, <2>2, SameInput DEF VerdictInv, VerdictByContent
<1>3. CASE phase' = "hello"
  <2>1. tls # "disabled" /\ wire' = Buffered /\ outcome' = "none" /\ ~(Len(Buffered) > HelloCeiling)
    BY <1>0, <1>1, <1>3
  <2>2. Len(Buffered) \in Nat
    <3>1. Buffered = SubSeq(Stream, end + 1, pos)
      BY <1>0, BufferedBytes DEF PreambleInv
    <3> QED
      BY <3>1, Reader, Numbers
  <2>3. Len(wire') <= HelloCeiling' /\ fed' \in 0..Len(wire')
    <3>1. Len(Buffered) <= HelloCeiling /\ 0 \in 0..Len(Buffered)
      BY SMTT(20), <1>i, <2>1, <2>2, CeilingStays
    <3> QED
      BY <1>0, <1>i, <2>1, <3>1, CeilingStays
  <2>4. input'.hello.valid => fed' < input'.hello.complete
    BY <1>0, HelloTakesBytes
  <2> QED
    BY <1>3, <2>1, <2>3, <2>4 DEF VerdictInv, VerdictByContent
<1> QED
  BY <1>1, <1>2, <1>3

\* read_client_hello gives bytes to the acceptor, and inspect_tls_tunnel decides on
\* the hello that it returns.
LEMMA FeedVerdict ==
  ASSUME PreambleInv, VerdictInv, Feed
  PROVE  VerdictInv'
<1>i. [PreambleNext]_preambleVars
  BY DEF PreambleNext
<1> DEFINE h == input.hello
<1>0. /\ phase = "hello" /\ UNCHANGED <<input, end, wire, broken>> /\ end # 0 /\ tls # "disabled" /\ outcome = "none"
      /\ fed \in 0..Len(wire) /\ Len(wire) <= HelloCeiling /\ wire = SubSeq(Stream, end + 1, pos)
  BY DEF PreambleInv, VerdictInv, Feed
<1>1. Len(wire) \in Nat
  BY <1>0, Reader, Numbers
<1>2. PICK n \in (fed + 1)..Len(wire) :
          /\ fed' = n
          /\ \E verdict \in Acceptor(n) :
                \/ verdict = "none" /\ UNCHANGED <<phase, outcome>>
                \/ verdict = "error" /\ Finish("client-hello-invalid")
                \/ /\ verdict = "accepted"
                   /\ IF InspectionDenial # "none" THEN Finish(InspectionDenial)
                      ELSE phase' = "write" /\ UNCHANGED outcome
  BY DEF Feed
<1>3. n \in Nat /\ n <= Len(wire) /\ n \in 0..Len(wire)
  <2> DEFINE L == Len(wire)
  <2>1. n \in (fed + 1)..L /\ fed \in 0..L /\ L \in Nat
    BY <1>0, <1>1
  <2> HIDE DEF L
  <2>2. n \in Nat /\ n <= L /\ n \in 0..L
    BY SMTT(20), <2>1
  <2> QED
    BY <2>2 DEF L
<1>4. Len(wire') <= HelloCeiling' /\ fed' = n /\ tls' = tls /\ wire' = wire /\ limit' = limit /\ input' = input
  BY <1>i, <1>0, <1>2, CeilingStays, SameInput
<1>5. CASE ~h.valid
  <2>1. \/ phase' = "hello" /\ outcome' = "none"
        \/ phase' = "done" /\ outcome' = "client-hello-invalid"
    BY <1>0, <1>2, <1>5 DEF Acceptor, Finish
  <2> QED
    BY <1>3, <1>4, <1>5, <2>1 DEF VerdictInv, VerdictByContent
<1>6. CASE h.valid /\ ~(n >= h.complete)
  <2>1. phase' = "hello" /\ outcome' = "none"
    BY <1>0, <1>2, <1>6 DEF Acceptor, Finish
  <2>2. n < h.complete
    <3>1. h.complete \in Nat
      BY <1>0, <1>6, HelloTakesBytes
    <3> HIDE DEF h
    <3> QED
      BY SMTT(20), <1>3, <1>6, <3>1
  <2> QED
    BY <1>3, <1>4, <1>6, <2>1, <2>2 DEF VerdictInv, VerdictByContent
<1>7. CASE h.valid /\ n >= h.complete
  <2>1. \/ phase' = "done" /\ InspectionDenial # "none" /\ outcome' = InspectionDenial
        \/ phase' = "write" /\ InspectionDenial = "none" /\ outcome' = "none"
    BY <1>0, <1>2, <1>7 DEF Acceptor, Finish
  <2>2. Len(wire) >= h.complete
    <3>1. h.complete \in Nat
      BY <1>0, <1>7, HelloTakesBytes
    <3> HIDE DEF h
    <3> QED
      BY SMTT(20), <1>1, <1>3, <1>7, <3>1
  <2>3. client_hello_has_ech(wire) = {h.ech}
    BY <1>0, <1>7, <2>2, HelloHere
  <2>4. h.ech \in BOOLEAN
    BY <1>0, <1>7, HeaderEnd, HelloAssumption DEF PreambleInv, Stream, HasEch
  <2>5. h.sni \in {"same", "tls-sni-missing", "tls-authority-not-hostname", "tls-sni-mismatch"}
    BY PreambleAssumption DEF PreambleInv
  <2>6. /\ InspectionDenial = "ech-denied" => h.ech
        /\ InspectionDenial = "none" => h.sni = "same" /\ (h.ech => tls # "reject-ech")
        /\ InspectionDenial \in {"none", "ech-denied", "tls-sni-missing", "tls-authority-not-hostname", "tls-sni-mismatch"}
    BY <2>3, <2>4, <2>5 DEF InspectionDenial
  <2>7. tls \in {"disabled", "reject-ech", "allow-outer-sni"}
    BY PreambleAssumption DEF PreambleInv, tls
  <2>8. (InspectionDenial = "none" /\ h.ech) => tls = "allow-outer-sni"
    BY <1>0, <2>6, <2>7
  <2> QED
    BY <1>4, <1>7, <2>1, <2>6, <2>8 DEF VerdictInv, VerdictByContent
<1> QED
  BY <1>5, <1>6, <1>7

\* read_client_hello reads on, stops at the ceiling or at the end, or fails.
LEMMA HelloSteps ==
  ASSUME PreambleInv, VerdictInv, ReadHello \/ HelloTooLarge \/ HelloEof \/ HelloReadFails
  PROVE  VerdictInv'
<1>i. [PreambleNext]_preambleVars
  BY DEF PreambleNext
<1>0. /\ phase = "hello" /\ UNCHANGED <<input, end, fed>> /\ end # 0 /\ tls # "disabled" /\ outcome = "none"
      /\ fed = Len(wire) /\ Len(wire) <= HelloCeiling /\ wire = SubSeq(Stream, end + 1, pos)
      /\ (input.hello.valid => fed < input.hello.complete) /\ fed \in 0..Len(wire)
  BY DEF PreambleInv, VerdictInv, ReadHello, HelloTooLarge, HelloEof, HelloReadFails, AllFed
<1>1. /\ Len(wire) \in Nat /\ HelloCeiling \in Nat /\ HelloCeiling' = HelloCeiling
      /\ Stream \in Seq(Nat) /\ Len(Stream) \in Nat /\ pos \in Nat /\ pos <= Len(Stream) /\ end \in Nat /\ end <= pos
  BY <1>i, <1>0, Reader, Numbers, CeilingStays
<1>2. Len(wire) = pos - end
  BY <1>0, <1>1, Slice
<1>s. Stream' = Stream /\ tls' = tls /\ limit' = limit /\ input' = input
  BY <1>i, SameInput
<1>3. CASE ReadHello
  <2>1. PICK n \in 1..Min({HelloCeiling - Len(wire), Chunk, Len(Stream) - pos}) :
            pos' = pos + n /\ wire' = wire \o SubSeq(Stream, pos + 1, pos + n)
    BY <1>3 DEF ReadHello
  <2> DEFINE x == HelloCeiling - Len(wire)
             y == Chunk
             z == Len(Stream) - pos
             k == Min({x, y, z})
  <2>2. x \in Nat /\ y \in Nat /\ z \in Nat
    BY SMTT(20), <1>0, <1>1, PreambleAssumption
  <2>3. k \in Nat /\ k <= x /\ k <= z
    <3> DEFINE M == {x, y, z}
    <3>1. M \subseteq Nat /\ M # {}
      BY <2>2
    <3>2. Min(M) \in M /\ \A v \in M : Min(M) <= v
      BY <3>1, LeastIsMin
    <3> HIDE DEF x, y, z
    <3> QED
      BY <3>1, <3>2
  <2>4. n \in 1..k
    BY <2>1
  <2> HIDE DEF k
  <2>5. n \in Nat /\ n <= HelloCeiling - Len(wire) /\ pos + n \in Nat /\ pos + n <= Len(Stream) /\ end <= pos + n
    BY SMTT(20), <1>1, <2>3, <2>4
  <2>6. wire' = SubSeq(Stream, end + 1, pos + n)
    <3>1. n \in Nat /\ pos + n <= Len(Stream) /\ Stream \in Seq(Nat) /\ end \in Nat /\ pos \in Nat /\ end <= pos
      BY <1>1, <2>5
    <3>2. SubSeq(Stream, end + 1, pos) \o SubSeq(Stream, pos + 1, pos + n) = SubSeq(Stream, end + 1, pos + n)
      BY <3>1, Extended
    <3> QED
      BY <1>0, <2>1, <3>2
  <2>7. Len(wire') = (pos + n) - end
    BY <1>1, <2>5, <2>6, Slice
  <2>8. Len(wire') <= HelloCeiling /\ fed \in 0..Len(wire')
    BY SMTT(20), <1>0, <1>1, <1>2, <2>5, <2>7
  <2>9. phase' = "hello" /\ outcome' = "none"
    BY <1>0, <1>3 DEF ReadHello
  <2> QED
    BY <1>0, <1>1, <1>s, <2>8, <2>9 DEF VerdictInv, VerdictByContent
<1>4. CASE HelloTooLarge
  <2>1. phase' = "done" /\ outcome' \in {"upload-limit", "client-hello-too-large"} /\ wire' = wire /\ Len(wire) = HelloCeiling
    BY <1>4 DEF HelloTooLarge, Finish, TooLargeReason
  <2>2. input.hello.valid => input.hello.complete > HelloCeiling
    <3>1. input.hello.valid => input.hello.complete \in Nat
      BY <1>0, HelloTakesBytes
    <3>2. input.hello.valid => HelloCeiling < input.hello.complete
      BY <1>0, <2>1
    <3> QED
      BY SMTT(20), <1>1, <3>1, <3>2
  <2> QED
    BY <1>0, <1>1, <1>s, <2>1, <2>2 DEF VerdictInv, VerdictByContent
<1>5. CASE HelloEof
  <2>1. phase' = "done" /\ outcome' = "client-hello-eof" /\ wire' = wire /\ pos = Len(Stream)
    BY <1>5 DEF HelloEof, Finish
  <2>2. input.hello.valid => input.hello.complete > Len(Stream) - end
    <3>1. input.hello.valid => input.hello.complete \in Nat
      BY <1>0, HelloTakesBytes
    <3> QED
      BY SMTT(20), <1>0, <1>1, <1>2, <2>1, <3>1
  <2> QED
    BY <1>0, <1>1, <1>s, <2>1, <2>2 DEF VerdictInv, VerdictByContent
<1>6. CASE HelloReadFails
  <2>1. phase' = "done" /\ outcome' \in {"client-hello-invalid", "client-hello-timeout"} /\ wire' = wire /\ broken'
    BY <1>6 DEF HelloReadFails, Finish
  <2> QED
    BY <1>0, <1>1, <1>s, <2>1 DEF VerdictInv, VerdictByContent
<1> QED
  BY <1>3, <1>4, <1>5, <1>6

\* establish_tunnel writes what the inspection has let pass.
LEMMA WriteVerdict ==
  ASSUME PreambleInv, VerdictInv, Forward \/ ForwardFails
  PROVE  VerdictInv'
<1>i. [PreambleNext]_preambleVars
  BY DEF PreambleNext
<1>0. phase = "write" /\ phase' = "done" /\ UNCHANGED <<input, end, wire>>
  BY DEF Forward, ForwardFails, Finish
<1>1. CASE Forward
  <2>1. outcome' = "forwarded"
    BY <1>1 DEF Forward, Finish
  <2>2. wire' # <<>> => Len(wire') <= HelloCeiling'
    BY <1>i, <1>0, CeilingStays DEF VerdictInv, VerdictByContent
  <2> QED
    BY <1>i, <1>0, <2>1, <2>2, SameInput DEF VerdictInv, VerdictByContent
<1>2. CASE ForwardFails
  <2>1. outcome' \in {"upstream-write-failed", "initial-upload-timeout", "client-hello-timeout"}
    BY <1>2 DEF ForwardFails, Finish
  <2> QED
    BY <1>i, <1>0, <2>1, OtherEnd
<1> QED
  BY <1>1, <1>2

\* What the inspection decides depends on the ClientHello and not on how it is spread
\* over records and reads: for every well-formed hello, with any extensions, any cut
\* into records and into reads, and any ceiling, client_hello_has_ech sees the ECH
\* extension just when there is one, and read_client_hello calls no such hello invalid
\* and none too large that fits.
THEOREM VerdictIsByContent == PreambleSpec => []VerdictByContent
<1>1. PreambleInit => VerdictInv
  BY DEF PreambleInit, VerdictInv, VerdictByContent
<1>2. PreambleInv /\ VerdictInv /\ [PreambleNext]_preambleVars => VerdictInv'
  <2> SUFFICES ASSUME PreambleInv, VerdictInv, [PreambleNext]_preambleVars PROVE VerdictInv'
    OBVIOUS
  <2>1. CASE UNCHANGED preambleVars
    BY <2>1 DEF preambleVars, VerdictInv, VerdictByContent, HelloCeiling, limit, tls, Stream
  <2> QED
    BY <2>1, HeaderSteps, ParseVerdict, FeedVerdict, HelloSteps, WriteVerdict DEF PreambleNext
<1>3. VerdictInv => VerdictByContent
  BY DEF VerdictInv
<1> QED
  BY <1>1, <1>2, <1>3, PreambleInvariant, PTL DEF PreambleSpec

===============================================================================
