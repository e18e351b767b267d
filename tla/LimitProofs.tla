------------------------------ MODULE LimitProofs -----------------------------
(***************************************************************************)
(* Four components that each keep a bound, for every value of their        *)
(* constants.  A tunnel's accounting: any limits, timeouts, read sizes and *)
(* clocks, one inductive invariant for the bytes and one for the idle      *)
(* watcher.  The token buckets: any rate, burst and pattern of attempts.   *)
(* The hand-over between ProxyHandle::start and the runtime thread: every  *)
(* configuration, set of ports and order of failures.  The account of the  *)
(* denials: any number of reporters, any channel, rate and window.         *)
(***************************************************************************)
EXTENDS AttemptRate, Tunnel, Startup, Diagnostics, WellFoundedInduction, TLAPS

USE ZenonT(30), SMTT(20)

-------------------------------------------------------------------------------
\* What is charged, counted, waiting and forwarded agrees in each direction:
\* before the first bytes are counted nothing is forwarded, afterwards the
\* meter and the counter are one number and account for every byte, and what
\* has passed the check fits the limit.
BytesInv ==
  /\ \A w \in Ways : Optional(policy.limit[w])
  /\ meter \in [Ways -> Nat] /\ counters \in [Ways -> Nat]
  /\ pending \in [Ways -> Nat] /\ forwarded \in [Ways -> Nat]
  /\ phase \in {"buffered", "upload-limit", "inspect", "forward"} => \A w \in Ways : forwarded[w] = 0
  /\ phase = "buffered" => \A w \in Ways : meter[w] = 0 /\ counters[w] = 0 /\ (w = "down" => pending[w] = 0)
  /\ phase # "buffered" =>
       \A w \in Ways : /\ counters[w] = meter[w]
                       /\ forwarded[w] + pending[w] <= counters[w]
                       /\ phase # "transfer-limit" => counters[w] = forwarded[w] + pending[w]
  /\ phase \notin {"buffered", "upload-limit"} =>
       \A w \in Ways : ~Exceeds(policy.limit[w], forwarded[w] + pending[w])
  /\ LimitDenialIsJust

\* While the copy runs, the activity channel holds the time of the last traffic,
\* and a watcher that has seen all of it sleeps until that time plus the timeout.
IdleInv ==
  /\ Optional(policy.idle) /\ now \in Nat /\ last \in Nat
  /\ phase = "copy" => activity.stamp = last /\ (~activity.changed => wake = Deadline(last))
  /\ IdleDenialIsJust

\* The cap on a ClientHello (max_bytes of inspect_tls_tunnel) is a number and no
\* more than the upload limit.
LEMMA HelloCap ==
  ASSUME Optional(policy.limit["up"])
  PROVE  MaxHello \in Nat /\ ~Exceeds(policy.limit["up"], MaxHello)
<1>1. MaxClientHello \in Nat
  BY TunnelAssumption
<1>2. CASE policy.limit["up"] = {}
  <2>1. policy.limit["up"] \cup {MaxClientHello} = {MaxClientHello}
    BY <1>2
  <2>2. MaxHello = MaxClientHello
    BY SMTT(20), <2>1, <1>1 DEF MaxHello, Min
  <2> QED
    BY <2>2, <1>1, <1>2 DEF Exceeds
<1>3. ASSUME NEW l \in policy.limit["up"] PROVE MaxHello \in Nat /\ ~Exceeds(policy.limit["up"], MaxHello)
  <2>1. l \in Nat /\ policy.limit["up"] = {l}
    BY <1>3 DEF Optional
  <2>2. \E x \in {l, MaxClientHello} : \A y \in {l, MaxClientHello} : x =< y
    BY SMTT(20), <2>1, <1>1
  <2>3. policy.limit["up"] \cup {MaxClientHello} = {l, MaxClientHello}
    BY <2>1
  <2>4. MaxHello \in {l, MaxClientHello} /\ \A y \in {l, MaxClientHello} : MaxHello =< y
    BY <2>2, <2>3 DEF MaxHello, Min
  <2> QED
    BY SMTT(20), <2>1, <2>4, <1>1 DEF Exceeds
<1> QED
  BY <1>2, <1>3

\* A smaller number exceeds no limit that a larger one keeps.
LEMMA WithinLimit ==
  ASSUME NEW limit, Optional(limit), NEW a \in Nat, NEW b \in Nat, a <= b, ~Exceeds(limit, b)
  PROVE  ~Exceeds(limit, a)
BY SMTT(20) DEF Exceeds, Optional

\* A newly accepted upload has passed serve_connect's check and no meter yet.
LEMMA InitBytes == Init => BytesInv
<1> SUFFICES ASSUME Init PROVE BytesInv
  OBVIOUS
<1>1. \A w \in Ways : Optional(policy.limit[w])
  BY SMTT(20), TunnelAssumption DEF Init, Ways
<1>2. PICK b \in 0..MaxBuffered : pending = [Zero EXCEPT !["up"] = b]
  BY DEF Init
<1>3. pending \in [Ways -> Nat] /\ pending["down"] = 0
  BY SMTT(20), <1>2, TunnelAssumption DEF Zero, Ways
<1> QED
  BY <1>1, <1>3 DEF Init, BytesInv, Zero, LimitDenialIsJust, Ways

\* The copy loop's reads: what Metered::poll_read counts is either handed on
\* within the limit or ends the tunnel as over it.
LEMMA ReadBytes == ASSUME BytesInv, NEW w \in Ways, Read(w) PROVE BytesInv'
<1>1. PICK n \in 1..Room(w) :
        /\ Meter(w, n)
        /\ IF OverLimit(w, meter[w] + n) THEN phase' = "transfer-limit" /\ pending' = pending
           ELSE phase' = phase /\ pending' = [pending EXCEPT ![w] = @ + n]
  BY DEF Read
<1>2. n \in Nat
  BY SMTT(20)
<1>3. phase = "copy" /\ policy' = policy /\ forwarded' = forwarded
  BY DEF Read
<1>4. /\ meter' = [meter EXCEPT ![w] = @ + n]
      /\ counters' = [counters EXCEPT ![w] = @ + n]
  BY <1>1 DEF Meter
<1>5. /\ meter[w] \in Nat /\ meter[w] = forwarded[w] + pending[w] /\ meter[w] = counters[w]
      /\ forwarded[w] \in Nat /\ pending[w] \in Nat
  BY <1>3 DEF BytesInv
<1>6. CASE OverLimit(w, meter[w] + n)
  <2>1. Exceeds(policy.limit[w], counters'[w])
    BY <1>4, <1>5, <1>6 DEF OverLimit, BytesInv
  <2>2. phase' = "transfer-limit" /\ pending' = pending
    BY <1>1, <1>6
  <2>3. LimitDenialIsJust'
    BY <2>1, <1>3 DEF LimitDenialIsJust
  <2> QED
    BY SMTT(20), <2>2, <2>3, <1>2, <1>3, <1>4 DEF BytesInv
<1>7. CASE ~OverLimit(w, meter[w] + n)
  <2>1. phase' = phase /\ pending' = [pending EXCEPT ![w] = @ + n]
    BY <1>1, <1>7
  <2>2. forwarded'[w] + pending'[w] = meter[w] + n
    BY SMTT(20), <2>1, <1>2, <1>3, <1>5 DEF BytesInv
  <2>3. ~Exceeds(policy.limit[w], forwarded'[w] + pending'[w])
    BY <2>2, <1>7 DEF OverLimit
  <2>4. \A v \in Ways : ~Exceeds(policy.limit[v], forwarded'[v] + pending'[v])
    BY <2>3, <2>1, <1>3 DEF BytesInv
  <2>5. \A v \in Ways : counters'[v] = meter'[v] /\ counters'[v] = forwarded'[v] + pending'[v]
    BY SMTT(20), <2>1, <1>2, <1>3, <1>4 DEF BytesInv
  <2> QED
    BY SMTT(20), <2>1, <2>4, <2>5, <1>2, <1>3, <1>4 DEF BytesInv, LimitDenialIsJust
<1> QED
  BY <1>6, <1>7

\* The inspection's reads stay within its cap, and so within the limit.
LEMMA InspectReadBytes == ASSUME BytesInv, InspectRead PROVE BytesInv'
<1>1. MaxHello \in Nat /\ ~Exceeds(policy.limit["up"], MaxHello)
  BY HelloCap DEF BytesInv, Ways
<1> DEFINE room == {BufSize, MaxHello - pending["up"]}
<1>2. BufSize \in Nat /\ pending["up"] \in Nat /\ pending["up"] < MaxHello /\ phase = "inspect"
  BY TunnelAssumption DEF BytesInv, InspectRead, Ways
<1>3. \E x \in room : \A y \in room : x =< y
  BY SMTT(20), <1>1, <1>2
<1>4. Min(room) \in room /\ \A y \in room : Min(room) =< y
  BY <1>3 DEF Min
<1> HIDE DEF room
<1>5. PICK n \in 1..Min(room) : Meter("up", n) /\ pending' = [pending EXCEPT !["up"] = @ + n]
  BY DEF InspectRead, room
<1>6. n \in Nat /\ Min(room) =< MaxHello - pending["up"] /\ Min(room) \in Int
  BY SMTT(20), <1>1, <1>2, <1>4 DEF room
<1>7. pending["up"] + n \in Nat /\ pending["up"] + n <= MaxHello
  BY SMTT(20), <1>1, <1>2, <1>5, <1>6
<1>8. ~Exceeds(policy.limit["up"], pending["up"] + n)
  BY <1>1, <1>7, WithinLimit DEF BytesInv, Ways
<1>9. UNCHANGED <<phase, policy, forwarded>>
  BY DEF InspectRead
<1>10. /\ meter' = [meter EXCEPT !["up"] = @ + n]
       /\ counters' = [counters EXCEPT !["up"] = @ + n]
  BY <1>5 DEF Meter
<1>11. \A w \in Ways : ~Exceeds(policy.limit[w], forwarded'[w] + pending'[w])
  <2>1. forwarded'["up"] + pending'["up"] = pending["up"] + n
    BY SMTT(20), <1>2, <1>5, <1>6, <1>9 DEF BytesInv, Ways
  <2>2. forwarded'["down"] + pending'["down"] = forwarded["down"] + pending["down"]
    BY <1>5, <1>9 DEF BytesInv, Ways
  <2> QED
    BY <2>1, <2>2, <1>2, <1>8 DEF BytesInv, Ways
<1>12. \A w \in Ways : counters'[w] = meter'[w] /\ counters'[w] = forwarded'[w] + pending'[w]
  BY SMTT(20), <1>2, <1>5, <1>6, <1>9, <1>10 DEF BytesInv, Ways
<1> QED
  BY SMTT(20), <1>2, <1>5, <1>6, <1>9, <1>10, <1>11, <1>12 DEF BytesInv, LimitDenialIsJust, Ways

\* The bytes that came with the header: refused, or charged and counted once.
LEMMA BufferedBytes == ASSUME BytesInv, Buffered PROVE BytesInv'
<1>1. /\ counters' = [counters EXCEPT !["up"] = @ + pending["up"]]
      /\ meter' = [meter EXCEPT !["up"] = pending["up"]]
      /\ pending' = pending /\ policy' = policy /\ forwarded' = forwarded
      /\ phase = "buffered"
      /\ phase' \in {"upload-limit", "inspect", "forward"}
      /\ phase' # "upload-limit" => ~Exceeds(policy.limit["up"], pending["up"])
  BY DEF Buffered, End
<1>2. /\ \A w \in Ways : meter[w] = 0 /\ counters[w] = 0 /\ forwarded[w] = 0
      /\ pending["down"] = 0 /\ pending["up"] \in Nat
  BY <1>1 DEF BytesInv, Ways
<1>3. \A w \in Ways : forwarded'[w] + pending'[w] = pending[w] /\ counters'[w] = pending[w] /\ meter'[w] = pending[w]
  BY SMTT(20), <1>1, <1>2 DEF BytesInv, Ways
<1>4. ~Exceeds(policy.limit["down"], 0)
  BY SMTT(20) DEF BytesInv, Exceeds, Optional, Ways
<1>5. phase' # "upload-limit" => \A w \in Ways : ~Exceeds(policy.limit[w], forwarded'[w] + pending'[w])
  BY <1>1, <1>2, <1>3, <1>4 DEF Ways
<1>6. meter' \in [Ways -> Nat] /\ counters' \in [Ways -> Nat]
  BY SMTT(20), <1>1, <1>2 DEF BytesInv, Ways
<1> QED
  BY SMTT(20), <1>1, <1>2, <1>3, <1>5, <1>6 DEF BytesInv, LimitDenialIsJust

\* Writing moves bytes from waiting to forwarded: the first upload as a whole.
LEMMA ForwardBytes == ASSUME BytesInv, Forward PROVE BytesInv'
<1>1. /\ forwarded' = [forwarded EXCEPT !["up"] = @ + pending["up"]]
      /\ pending' = [pending EXCEPT !["up"] = 0]
      /\ phase = "forward" /\ phase' = "copy"
      /\ UNCHANGED <<policy, meter, counters>>
  BY DEF Forward
<1>2. \A w \in Ways : forwarded'[w] + pending'[w] = forwarded[w] + pending[w]
  BY SMTT(20), <1>1 DEF BytesInv, Ways
<1> QED
  BY <1>1, <1>2 DEF BytesInv, LimitDenialIsJust

\* The copy loop writes part of what it has read.
LEMMA WriteBytes == ASSUME BytesInv, NEW w \in Ways, Write(w) PROVE BytesInv'
<1>1. PICK n \in 1..pending[w] : /\ pending' = [pending EXCEPT ![w] = @ - n]
                                 /\ forwarded' = [forwarded EXCEPT ![w] = @ + n]
  BY DEF Write
<1>2. phase = "copy" /\ UNCHANGED <<phase, policy, meter, counters>>
  BY DEF Write
<1>3. pending' \in [Ways -> Nat] /\ forwarded' \in [Ways -> Nat]
  BY SMTT(20), <1>1 DEF BytesInv
<1>4. \A v \in Ways : forwarded'[v] + pending'[v] = forwarded[v] + pending[v]
  BY SMTT(20), <1>1 DEF BytesInv
<1> QED
  BY <1>2, <1>3, <1>4 DEF BytesInv, LimitDenialIsJust

\* The steps that move no byte keep the accounts, whatever way they end.
LEMMA IdleBytes ==
  ASSUME BytesInv, UNCHANGED <<policy, meter, counters, pending, forwarded>>,
         \/ phase' = phase
         \/ phase = "inspect" /\ phase' \in {"forward", "rejected"}
         \/ phase = "forward" /\ phase' = "rejected"
         \/ phase = "copy" /\ phase' \in {"completed", "failed", "idle"}
  PROVE  BytesInv'
<1>1. CASE phase' = phase
  BY <1>1 DEF BytesInv, LimitDenialIsJust
<1>2. CASE phase' # phase
  BY <1>2 DEF BytesInv, LimitDenialIsJust
<1> QED
  BY <1>1, <1>2

\* Every step of a connection keeps its accounts.
LEMMA NextBytes == BytesInv /\ [Next]_vars => BytesInv'
<1> SUFFICES ASSUME BytesInv, [Next]_vars PROVE BytesInv'
  OBVIOUS
<1>1. CASE Tick
  BY <1>1, IdleBytes DEF Tick, Advance
<1>2. CASE InspectDone
  BY <1>2, IdleBytes DEF InspectDone, End
<1>3. CASE ForwardFailed
  BY <1>3, IdleBytes DEF ForwardFailed, End
<1>4. CASE CopyEnds
  BY <1>4, IdleBytes DEF CopyEnds, End
<1>5. CASE IdleWake
  BY <1>5, IdleBytes DEF IdleWake
<1>6. ASSUME NEW w \in Ways, Eof(w) PROVE BytesInv'
  BY <1>6, IdleBytes DEF Eof
<1>7. CASE UNCHANGED vars
  BY <1>7, IdleBytes DEF vars
<1> QED
  BY <1>1, <1>2, <1>3, <1>4, <1>5, <1>6, <1>7,
     ReadBytes, WriteBytes, ForwardBytes, BufferedBytes, InspectReadBytes DEF Next

\* The accounts agree in every state.
THEOREM BytesInvariant == Spec => []BytesInv
BY InitBytes, NextBytes, PTL DEF Spec

\* The other side never receives more than the policy's limit, for any limits,
\* read sizes and divisions of the upload (Metered::poll_read, serve_connect).
THEOREM ForwardingIsWithinLimit == Spec => []ForwardedWithinLimit
<1>1. BytesInv => ForwardedWithinLimit
  <2> SUFFICES ASSUME BytesInv, NEW w \in Ways
               PROVE  /\ ~Exceeds(policy.limit[w], forwarded[w])
                      /\ phase = "copy" => ~Exceeds(policy.limit[w], forwarded[w] + pending[w])
    BY DEF ForwardedWithinLimit
  <2>1. forwarded[w] \in Nat /\ pending[w] \in Nat /\ Optional(policy.limit[w])
    BY DEF BytesInv
  <2>2. CASE phase \in {"buffered", "upload-limit"}
    BY SMTT(20), <2>1, <2>2 DEF BytesInv, Exceeds, Optional
  <2>3. CASE phase \notin {"buffered", "upload-limit"}
    <3>1. ~Exceeds(policy.limit[w], forwarded[w] + pending[w])
      BY <2>3 DEF BytesInv
    <3>2. forwarded[w] <= forwarded[w] + pending[w] /\ forwarded[w] + pending[w] \in Nat
      BY SMTT(20), <2>1
    <3> QED
      BY <3>1, <3>2, <2>1, WithinLimit
  <2> QED
    BY <2>2, <2>3
<1> QED
  BY <1>1, BytesInvariant, PTL

\* Usage counts every byte once (Counters::record_upload, record_download).
THEOREM UsageCountsTraffic == Spec => []UsageIsTraffic
<1>1. BytesInv => UsageIsTraffic
  BY DEF BytesInv, UsageIsTraffic
<1> QED
  BY <1>1, BytesInvariant, PTL

\* Limits are exact: besides, only a byte beyond the limit ends a tunnel as over it
\* (TransferLimitExceeded).
THEOREM LimitsAreExact == Spec => []LimitIsExact
<1>1. BytesInv => LimitDenialIsJust
  BY DEF BytesInv
<1>2. ForwardedWithinLimit /\ LimitDenialIsJust => LimitIsExact
  BY DEF LimitIsExact
<1> QED
  BY <1>1, <1>2, BytesInvariant, ForwardingIsWithinLimit, PTL

\* The clock starts, and the policy's timeout is an optional number.
LEMMA InitIdle == Init => IdleInv
BY SMTT(20), TunnelAssumption DEF Init, IdleInv, IdleDenialIsJust

\* The watcher ends a tunnel only at a deadline computed from the last traffic.
LEMMA WakeIdle == ASSUME IdleInv, IdleWake PROVE IdleInv'
<1>1. phase = "copy" /\ activity.stamp = last /\ UNCHANGED <<now, policy, last>>
  BY DEF IdleInv, IdleWake
<1>2. CASE activity.changed
  <2>1. /\ activity' = [activity EXCEPT !.changed = FALSE]
        /\ wake' = Deadline(activity.stamp) /\ phase' = "copy"
    BY <1>1, <1>2 DEF IdleWake
  <2>2. activity'.stamp = last
    BY SMTT(20), <2>1, <1>1
  <2>3. Deadline(last)' = Deadline(last)
    BY <1>1 DEF Deadline
  <2> QED
    BY <2>1, <2>2, <2>3, <1>1 DEF IdleInv, IdleDenialIsJust
<1>3. CASE ~activity.changed
  <2>1. wake = Deadline(last) /\ wake # {} /\ phase' = "idle"
    BY <1>1, <1>3 DEF IdleInv, IdleWake
  <2>2. \A t \in wake : now >= t
    BY <2>1 DEF IdleWake
  <2>3. PICK i \in policy.idle : last + i \in wake
    BY <2>1 DEF Deadline
  <2>4. policy.idle = {i} /\ i \in Nat
    BY <2>3 DEF IdleInv, Optional
  <2>5. now - last >= i
    BY SMTT(20), <2>2, <2>3, <2>4 DEF IdleInv
  <2> QED
    BY <2>1, <2>4, <2>5, <1>1 DEF IdleInv, IdleDenialIsJust
<1> QED
  BY <1>2, <1>3

\* Steps that leave the channel and the watcher alone, the clock's included.
LEMMA QuietIdle ==
  ASSUME IdleInv, UNCHANGED <<policy, last, activity, wake>>, now' \in Nat,
         phase' \in {phase} \/ phase' \notin {"copy", "idle"},
         phase = "idle" => now' = now
  PROVE  IdleInv'
<1>1. Deadline(last)' = Deadline(last)
  BY DEF Deadline
<1>2. IdleDenialIsJust'
  BY DEF IdleInv, IdleDenialIsJust
<1> QED
  BY <1>1, <1>2 DEF IdleInv

\* Every step of a connection keeps the watcher's knowledge of the last traffic.
LEMMA NextIdle == IdleInv /\ [Next]_vars => IdleInv'
<1> SUFFICES ASSUME IdleInv, [Next]_vars PROVE IdleInv'
  OBVIOUS
<1>0. now \in Nat
  BY DEF IdleInv
<1>1. CASE Tick
  BY SMTT(20), <1>0, <1>1, QuietIdle DEF Tick, Advance, Ended
<1>2. CASE Buffered
  BY <1>0, <1>2, QuietIdle DEF Buffered, End
<1>3. CASE InspectDone
  BY <1>0, <1>3, QuietIdle DEF InspectDone, End
<1>4. CASE InspectRead
  BY <1>0, <1>4, QuietIdle DEF InspectRead
<1>5. CASE ForwardFailed
  BY <1>0, <1>5, QuietIdle DEF ForwardFailed, End
<1>6. CASE CopyEnds
  BY <1>0, <1>6, QuietIdle DEF CopyEnds, End
<1>7. CASE UNCHANGED vars
  BY <1>0, <1>7, QuietIdle DEF vars
<1>8. ASSUME NEW w \in Ways, Eof(w) \/ Write(w) PROVE IdleInv'
  BY <1>0, <1>8, QuietIdle DEF Eof, Write
<1>9. CASE Forward
  <2>1. /\ activity' = [stamp |-> now, changed |-> FALSE] /\ last' = now
        /\ wake' = Deadline(now) /\ phase' = "copy" /\ UNCHANGED <<now, policy>>
    BY <1>9 DEF Forward
  <2>2. Deadline(last)' = Deadline(now)
    BY <2>1 DEF Deadline
  <2> QED
    BY <2>1, <2>2 DEF IdleInv, IdleDenialIsJust
<1>10. ASSUME NEW w \in Ways, Read(w) PROVE IdleInv'
  <2>1. /\ activity' = [stamp |-> now, changed |-> TRUE] /\ last' = now
        /\ phase' \in {"copy", "transfer-limit"} /\ UNCHANGED <<now, policy>>
    BY <1>10 DEF Read, Stamp
  <2> QED
    BY <2>1 DEF IdleInv, IdleDenialIsJust
<1> QED
  BY <1>1, <1>2, <1>3, <1>4, <1>5, <1>6, <1>7, <1>8, <1>9, <1>10, WakeIdle DEF Next

\* The watcher never sleeps past traffic it has seen.
THEOREM IdleInvariant == Spec => []IdleInv
BY InitIdle, NextIdle, PTL DEF Spec

\* A tunnel ends as idle only after a whole timeout without traffic, for any
\* timeouts and clocks (wait_for_tunnel_idle, TunnelActivity).
THEOREM IdleDenialsAreJust == Spec => []IdleDenialIsJust
<1>1. IdleInv => IdleDenialIsJust
  BY DEF IdleInv
<1> QED
  BY <1>1, IdleInvariant, PTL

-------------------------------------------------------------------------------
\* What try_take leaves in a bucket whose clock has not run ahead.
LEMMA TakeFacts ==
  ASSUME NEW b \in Bucket, NEW t \in Nat, b.updatedAt <= t, b.tokens <= Capacity(b)
  PROVE  /\ TryTake(b, t) \in Bucket
         /\ TryTake(b, t).limit = b.limit /\ TryTake(b, t).updatedAt = t
         /\ TryTake(b, t).tokens <= Capacity(b)
         /\ TryTake(b, t).tokens + (IF CanTake(b, t) THEN TokenScale ELSE 0)
              <= b.tokens + b.limit.rate * (t - b.updatedAt)
         /\ TryTake(b, t).tokens + (IF CanTake(b, t) THEN TokenScale ELSE 0) <= Capacity(b)
<1> DEFINE gain == b.limit.rate * (t - b.updatedAt)
           r == Refilled(b, t)
<1>1. /\ b.limit \in Limit /\ b.tokens \in Nat /\ b.updatedAt \in Nat
      /\ b.limit.rate \in Nat /\ b.limit.burst \in Nat /\ t - b.updatedAt \in Nat
  BY SMTT(20) DEF Bucket, Limit
<1>2. gain \in Nat /\ Capacity(b) \in Nat
  BY SMTT(20), <1>1, ScaleAssumption DEF Capacity
<1>3. Elapsed(b, t) * b.limit.rate = gain
  BY SMTT(20), <1>1 DEF Elapsed
<1>4. r \in Nat /\ r <= Capacity(b) /\ r <= b.tokens + gain
  <2> HIDE DEF gain
  <2> QED
    BY SMTT(20), <1>1, <1>2, <1>3, ScaleAssumption DEF Refilled, Saturated
<1>5. TryTake(b, t) = [b EXCEPT !.tokens = r - (IF CanTake(b, t) THEN TokenScale ELSE 0),
                                !.updatedAt = t]
  BY DEF TryTake
<1>6. r - (IF CanTake(b, t) THEN TokenScale ELSE 0) \in Nat
  BY SMTT(20), <1>4, ScaleAssumption DEF CanTake
<1> HIDE DEF r, gain
<1>7. /\ TryTake(b, t) \in Bucket /\ TryTake(b, t).limit = b.limit /\ TryTake(b, t).updatedAt = t
      /\ TryTake(b, t).tokens = r - (IF CanTake(b, t) THEN TokenScale ELSE 0)
  BY <1>5, <1>6 DEF Bucket
<1>8. /\ TryTake(b, t).tokens <= Capacity(b)
      /\ TryTake(b, t).tokens + (IF CanTake(b, t) THEN TokenScale ELSE 0) = r
  BY SMTT(20), <1>2, <1>4, <1>7, ScaleAssumption
<1> QED
  BY <1>4, <1>7, <1>8 DEF gain

\* Tokens taken since the mark and tokens left never exceed the burst and the
\* refill up to the bucket's last update.
WindowInv ==
  \A k \in Buckets :
    IF bucket[k].updatedAt < mark[k]
    THEN taken[k] = 0
    ELSE taken[k] * TokenScale + bucket[k].tokens <=
           Capacity(bucket[k]) + bucket[k].limit.rate * (bucket[k].updatedAt - mark[k])

\* A bucket starts full and nothing has been taken.
LEMMA RateStarts == RateInit => TypeOK /\ WindowInv
<1> SUFFICES ASSUME RateInit PROVE TypeOK /\ WindowInv
  OBVIOUS
<1>1. ASSUME NEW k \in Buckets
      PROVE  /\ bucket[k] \in Bucket /\ bucket[k].tokens = Capacity(bucket[k])
             /\ bucket[k].updatedAt = 0 /\ bucket[k].limit.rate \in Nat
             /\ Capacity(bucket[k]) \in Nat
  <2>1. Limits[k] \in Limit /\ bucket[k] = Full(Limits[k], 0)
    BY RateAssumption DEF RateInit
  <2>2. Limits[k].burst * TokenScale \in Nat /\ Limits[k].rate \in Nat
    BY SMTT(20), <2>1, ScaleAssumption DEF Limit
  <2> QED
    BY SMTT(20), <2>1, <2>2 DEF Full, Bucket, Capacity
<1>2. TypeOK
  BY SMTT(20), <1>1 DEF RateInit, TypeOK
<1>3. WindowInv
  BY SMTT(20), <1>1, ScaleAssumption DEF RateInit, WindowInv
<1> QED
  BY <1>2, <1>3

\* One bucket, charged or not, keeps its invariant.
LEMMA ChargeStep ==
  ASSUME TypeOK, WindowInv, NEW ks, Charge(ks), UNCHANGED <<now, mark>>
  PROVE  /\ bucket' \in [Buckets -> Bucket] /\ taken' \in [Buckets -> Nat]
         /\ \A k \in Buckets :
              bucket'[k].tokens <= Capacity(bucket'[k]) /\ bucket'[k].updatedAt <= now
         /\ WindowInv'
<1>t. /\ bucket \in [Buckets -> Bucket] /\ mark \in [Buckets -> Nat]
      /\ taken \in [Buckets -> Nat] /\ now \in Nat
  BY DEF TypeOK
<1>1. ASSUME NEW k \in Buckets
      PROVE  /\ bucket'[k] \in Bucket /\ taken'[k] \in Nat
             /\ bucket'[k].tokens <= Capacity(bucket'[k]) /\ bucket'[k].updatedAt <= now
             /\ IF bucket'[k].updatedAt < mark[k]
                THEN taken'[k] = 0
                ELSE taken'[k] * TokenScale + bucket'[k].tokens <=
                       Capacity(bucket'[k])
                         + bucket'[k].limit.rate * (bucket'[k].updatedAt - mark[k])
  <2>1. CASE bucket'[k] = bucket[k] /\ taken'[k] = taken[k]
    BY <2>1, <1>t DEF TypeOK, WindowInv
  <2>2. CASE /\ bucket'[k] = TryTake(bucket[k], now)
             /\ taken'[k] = IF CanTake(bucket[k], now) THEN taken[k] + 1 ELSE taken[k]
    <3> DEFINE b == bucket[k]
               cost == IF CanTake(b, now) THEN TokenScale ELSE 0
               old == b.limit.rate * (b.updatedAt - mark[k])
               gain == b.limit.rate * (now - b.updatedAt)
               new == b.limit.rate * (now - mark[k])
    <3>1. /\ b \in Bucket /\ b.updatedAt \in Nat /\ b.limit.rate \in Nat /\ b.limit \in Limit
          /\ b.tokens \in Nat /\ taken[k] \in Nat /\ mark[k] \in Nat
          /\ b.updatedAt <= now /\ mark[k] <= now /\ b.tokens <= Capacity(b)
      BY <1>t DEF TypeOK, Bucket, Limit
    <3>2. /\ bucket'[k] \in Bucket /\ bucket'[k].limit = b.limit /\ bucket'[k].updatedAt = now
          /\ bucket'[k].tokens <= Capacity(b) /\ bucket'[k].tokens \in Nat
          /\ bucket'[k].tokens + cost <= b.tokens + gain
          /\ bucket'[k].tokens + cost <= Capacity(b)
      BY SMTT(20), <2>2, <3>1, <1>t, TakeFacts DEF Bucket
    <3>3. Capacity(bucket'[k]) = Capacity(b) /\ Capacity(b) \in Nat
      BY SMTT(20), <3>1, <3>2, ScaleAssumption DEF Capacity, Limit
    <3>4. taken'[k] \in Nat /\ taken'[k] * TokenScale = taken[k] * TokenScale + cost
          /\ taken[k] * TokenScale \in Nat /\ cost \in Nat
      <4>1. (taken[k] + 1) * TokenScale = taken[k] * TokenScale + TokenScale
            /\ taken[k] * TokenScale \in Nat
        BY SMTT(20), <3>1, ScaleAssumption
      <4>2. CASE CanTake(b, now)
        BY SMTT(20), <2>2, <3>1, <4>1, <4>2, ScaleAssumption
      <4>3. CASE ~CanTake(b, now)
        BY SMTT(20), <2>2, <3>1, <4>1, <4>3, ScaleAssumption
      <4> QED
        BY <4>2, <4>3
    <3>5. old + gain = new /\ new \in Nat /\ gain \in Nat /\ old \in Int
      BY SMTT(20), <3>1, <1>t
    <3>6. taken'[k] * TokenScale + bucket'[k].tokens <= Capacity(b) + new
      <4> HIDE DEF cost, old, gain, new
      <4>1. CASE b.updatedAt < mark[k]
        <5>1. taken[k] = 0
          BY <4>1 DEF WindowInv
        <5> QED
          BY SMTT(20), <5>1, <3>2, <3>3, <3>4, <3>5, ScaleAssumption
      <4>2. CASE ~(b.updatedAt < mark[k])
        <5>1. taken[k] * TokenScale + b.tokens <= Capacity(b) + old
          BY <4>2 DEF WindowInv, old
        <5> QED
          BY SMTT(20), <5>1, <3>1, <3>2, <3>3, <3>4, <3>5
      <4> QED
        BY <4>1, <4>2
    <3> QED
      BY SMTT(20), <3>1, <3>2, <3>3, <3>4, <3>6, <1>t
  <2> QED
    BY <2>1, <2>2 DEF Charge
<1>2. bucket' \in [Buckets -> Bucket] /\ taken' \in [Buckets -> Nat]
  BY <1>1 DEF Charge
<1>3. WindowInv'
  BY <1>1 DEF WindowInv
<1> QED
  BY <1>1, <1>2, <1>3

\* Buckets stay within their capacity, and their updates behind the clock.
THEOREM RateInvariant == RateSpec => [](TypeOK /\ WindowInv)
<1>1. ASSUME TypeOK, WindowInv, [RateNext]_rateVars PROVE TypeOK' /\ WindowInv'
  <2>1. CASE RateTick
    BY SMTT(20), <1>1, <2>1 DEF RateTick, Advance, TypeOK, WindowInv, Bucket
  <2>2. ASSUME NEW l \in Leases, Revoke(l) PROVE TypeOK' /\ WindowInv'
    BY <1>1, <2>2 DEF Revoke, TypeOK, WindowInv
  <2>3. ASSUME NEW k \in Buckets, Mark(k) PROVE TypeOK' /\ WindowInv'
    <3>1. /\ mark' \in [Buckets -> Nat] /\ taken' \in [Buckets -> Nat] /\ allowed' \in Nat
          /\ \A j \in Buckets : mark'[j] <= now
      BY SMTT(20), <1>1, <2>3 DEF Mark, TypeOK
    <3>2. TypeOK'
      BY <1>1, <2>3, <3>1 DEF Mark, TypeOK
    <3>3. ASSUME NEW j \in Buckets
          PROVE  IF bucket[j].updatedAt < mark'[j]
                 THEN taken'[j] = 0
                 ELSE taken'[j] * TokenScale + bucket[j].tokens <=
                        Capacity(bucket[j]) + bucket[j].limit.rate * (bucket[j].updatedAt - mark'[j])
      <4>1. CASE j # k
        BY <1>1, <2>3, <4>1 DEF Mark, TypeOK, WindowInv
      <4>2. CASE j = k
        <5>1. mark'[j] = now /\ taken'[j] = 0
          BY <1>1, <2>3, <4>2 DEF Mark, TypeOK
        <5>2. /\ bucket[j].updatedAt <= now /\ bucket[j].tokens <= Capacity(bucket[j])
              /\ bucket[j].updatedAt \in Nat /\ now \in Nat /\ bucket[j].limit.rate \in Nat
              /\ bucket[j].tokens \in Nat /\ Capacity(bucket[j]) \in Nat
          BY SMTT(20), <1>1, ScaleAssumption DEF TypeOK, Bucket, Limit, Capacity
        <5>3. CASE bucket[j].updatedAt = now
          <6>1. bucket[j].limit.rate * (bucket[j].updatedAt - mark'[j]) = 0
            BY SMTT(20), <5>1, <5>2, <5>3
          <6> QED
            BY SMTT(20), <5>1, <5>2, <5>3, <6>1, ScaleAssumption
        <5>4. CASE bucket[j].updatedAt < now
          BY <5>1, <5>4
        <5>5. bucket[j].updatedAt = now \/ bucket[j].updatedAt < now
          BY SMTT(20), <5>2
        <5> QED
          BY <5>3, <5>4, <5>5
      <4> QED
        BY <4>1, <4>2
    <3>4. WindowInv'
      BY <2>3, <3>3 DEF WindowInv, Mark
    <3> QED
      BY <3>2, <3>4
  <2>4. ASSUME NEW l \in Leases, Attempt(l) PROVE TypeOK' /\ WindowInv'
    <3>1. /\ (UNCHANGED <<bucket, taken>>) \/ (\E ks : Charge(ks))
          /\ UNCHANGED <<now, open, mark>> /\ allowed' \in {allowed, allowed + 1}
      BY <2>4 DEF Attempt
    <3>2. CASE UNCHANGED <<bucket, taken>>
      BY SMTT(20), <1>1, <3>1, <3>2 DEF TypeOK, WindowInv
    <3>3. CASE \E ks : Charge(ks)
      <4>1. /\ bucket' \in [Buckets -> Bucket] /\ taken' \in [Buckets -> Nat]
            /\ \A k \in Buckets :
                 bucket'[k].tokens <= Capacity(bucket'[k]) /\ bucket'[k].updatedAt <= now
            /\ WindowInv'
        BY <1>1, <3>1, <3>3, ChargeStep
      <4>2. now' = now /\ open' = open /\ mark' = mark /\ allowed' \in Nat
        BY SMTT(20), <1>1, <3>1 DEF TypeOK
      <4> QED
        BY <1>1, <4>1, <4>2 DEF TypeOK
    <3> QED
      BY <3>1, <3>2, <3>3
  <2>5. CASE UNCHANGED rateVars
    BY <1>1, <2>5 DEF rateVars, TypeOK, WindowInv
  <2> QED
    BY <1>1, <2>1, <2>2, <2>3, <2>4, <2>5 DEF RateNext
<1> QED
  BY <1>1, RateStarts, PTL DEF RateSpec

\* In every window a bucket gives out at most its burst and its rate's refill.
THEOREM WindowBounded == RateSpec => []WindowBound
<1>1. TypeOK /\ WindowInv => WindowBound
  <2> SUFFICES ASSUME TypeOK, WindowInv, NEW k \in Limited
               PROVE  taken[k] * TokenScale <=
                        Capacity(bucket[k]) + bucket[k].limit.rate * (now - mark[k])
    BY DEF WindowBound
  <2> DEFINE old == bucket[k].limit.rate * (bucket[k].updatedAt - mark[k])
             new == bucket[k].limit.rate * (now - mark[k])
  <2>1. k \in Buckets
    BY RateAssumption
  <2>2. /\ now \in Nat /\ mark[k] \in Nat /\ mark[k] <= now /\ taken[k] \in Nat
        /\ bucket[k].updatedAt \in Nat /\ bucket[k].updatedAt <= now
        /\ bucket[k].limit.rate \in Nat /\ bucket[k].tokens \in Nat
        /\ Capacity(bucket[k]) \in Nat
    BY SMTT(20), <2>1, ScaleAssumption DEF TypeOK, Bucket, Limit, Capacity
  <2>3. new \in Nat /\ taken[k] * TokenScale \in Nat
    BY SMTT(20), <2>2, ScaleAssumption
  <2>4. CASE bucket[k].updatedAt < mark[k]
    <3>1. taken[k] * TokenScale = 0
      BY SMTT(20), <2>1, <2>4, ScaleAssumption DEF WindowInv
    <3> HIDE DEF new
    <3>2. taken[k] * TokenScale <= Capacity(bucket[k]) + new
      BY SMTT(20), <2>2, <2>3, <3>1
    <3> QED
      BY <3>2 DEF new
  <2>5. CASE ~(bucket[k].updatedAt < mark[k])
    <3>1. taken[k] * TokenScale + bucket[k].tokens <= Capacity(bucket[k]) + old
      BY <2>1, <2>5 DEF WindowInv
    <3>2. old <= new /\ old \in Int
      BY SMTT(20), <2>2
    <3> HIDE DEF old, new
    <3>3. taken[k] * TokenScale <= Capacity(bucket[k]) + new
      BY SMTT(20), <2>2, <2>3, <3>1, <3>2
    <3> QED
      BY <3>3 DEF new
  <2> QED
    BY <2>4, <2>5
<1> QED
  BY <1>1, RateInvariant, PTL

\* An attempt that finds no token leaves the refill in the bucket, so that the
\* next token comes when it would have come (the fraction kept by try_take).
LEMMA RefusedTake ==
  ASSUME NEW b \in Bucket, NEW t \in Nat, NEW later \in Nat, b.updatedAt <= t, t <= later,
         ~CanTake(b, t), CanTake(b, later)
  PROVE  CanTake(TryTake(b, t), later)
<1> DEFINE c == TryTake(b, t)
           before == b.limit.rate * (t - b.updatedAt)
           after == b.limit.rate * (later - t)
           all == b.limit.rate * (later - b.updatedAt)
<1>1. /\ b.limit \in Limit /\ b.tokens \in Nat /\ b.updatedAt \in Nat
      /\ b.limit.rate \in Nat /\ b.limit.burst \in Nat /\ Capacity(b) <= MaxTokens
      /\ t - b.updatedAt \in Nat /\ later - t \in Nat /\ later - b.updatedAt \in Nat
  BY SMTT(20) DEF Bucket, Limit, Capacity
<1>2. before \in Nat /\ after \in Nat /\ all = before + after /\ Capacity(b) \in Nat
  BY SMTT(20), <1>1, ScaleAssumption DEF Capacity
<1>3. Elapsed(b, t) * b.limit.rate = before /\ Elapsed(b, later) * b.limit.rate = all
  BY SMTT(20), <1>1 DEF Elapsed
<1>4. c = [b EXCEPT !.tokens = Refilled(b, t) - 0, !.updatedAt = t]
  BY DEF TryTake
<1> HIDE DEF before, after, all
<1>5. Capacity(b) >= TokenScale
  <2>1. Refilled(b, later) >= TokenScale
    BY DEF CanTake
  <2> QED
    BY SMTT(20), <2>1, <1>1, <1>2, <1>3, ScaleAssumption DEF Refilled, Saturated
<1>6. Refilled(b, t) = b.tokens + before
  <2>1. ~(Refilled(b, t) >= TokenScale)
    BY DEF CanTake
  <2> QED
    BY SMTT(20), <2>1, <1>1, <1>2, <1>3, <1>5, ScaleAssumption DEF Refilled, Saturated
<1>7. c.limit = b.limit /\ c.tokens = b.tokens + before /\ c.updatedAt = t
  BY SMTT(20), <1>1, <1>2, <1>4, <1>6 DEF Bucket
<1> HIDE DEF c
<1>8. Elapsed(c, later) * c.limit.rate = after /\ Capacity(c) = Capacity(b)
  BY SMTT(20), <1>1, <1>7 DEF Elapsed, Capacity, after
<1>9. Refilled(b, later) >= TokenScale
  BY DEF CanTake
<1>10. Refilled(c, later) >= TokenScale
  BY SMTT(20), <1>1, <1>2, <1>3, <1>5, <1>7, <1>8, <1>9, ScaleAssumption DEF Refilled, Saturated
<1> QED
  BY <1>10 DEF CanTake, c

\* A refused attempt postpones no later one, for every rate, burst and pattern.
THEOREM RefusalsPostponeNothing == RateSpec => RefusalPostponesNothing
<1>1. ASSUME TypeOK, [RateNext]_rateVars, NEW k \in Limited, taken'[k] = taken[k],
             NEW t \in now..(now + 2 * TokenScale), CanTake(bucket[k], t)
      PROVE  CanTake(bucket'[k], t)
  <2>1. /\ k \in Buckets /\ now \in Nat /\ t \in Nat /\ now <= t
        /\ bucket[k] \in Bucket /\ bucket[k].updatedAt <= now /\ taken[k] \in Nat
    BY SMTT(20), <1>1, RateAssumption, ScaleAssumption DEF TypeOK
  <2>2. CASE bucket'[k] = bucket[k]
    BY <1>1, <2>2
  <2>3. CASE \E ks : Charge(ks)
    <3>1. \/ bucket'[k] = bucket[k]
          \/ /\ bucket'[k] = TryTake(bucket[k], now)
             /\ taken'[k] = IF CanTake(bucket[k], now) THEN taken[k] + 1 ELSE taken[k]
      BY <2>1, <2>3 DEF Charge
    <3>2. taken[k] + 1 # taken[k]
      BY SMTT(20), <2>1
    <3>3. CASE bucket'[k] = TryTake(bucket[k], now) /\ ~CanTake(bucket[k], now)
      BY <1>1, <2>1, <3>3, RefusedTake
    <3> QED
      BY <1>1, <2>2, <3>1, <3>2, <3>3
  <2>4. bucket' = bucket \/ \E ks : Charge(ks)
    BY <1>1 DEF RateNext, RateTick, Advance, Revoke, Attempt, Mark, rateVars
  <2> QED
    BY <2>2, <2>3, <2>4
<1>2. TypeOK /\ [RateNext]_rateVars =>
        [\A k \in Limited :
           taken'[k] = taken[k] =>
             \A t \in now..(now + 2 * TokenScale) :
               CanTake(bucket[k], t) => CanTake(bucket'[k], t)]_rateVars
  BY <1>1
<1> QED
  BY <1>2, RateInvariant, PTL DEF RateSpec, RefusalPostponesNothing

\* Tokens of the proxy's bucket go to attempts that are let through, and to no
\* other (the order of the two try_take calls in allows_connection_attempt).
THEOREM GlobalSpendsOnlyOnAllowed == RateSpec => []GlobalSpendsOnAllowed
<1>1. RateInit => GlobalSpendsOnAllowed
  BY DEF RateInit, GlobalSpendsOnAllowed, Buckets
<1>2. ASSUME TypeOK, GlobalSpendsOnAllowed, [RateNext]_rateVars PROVE GlobalSpendsOnAllowed'
  <2>1. Global \in Buckets /\ Global \notin Leases
    BY RateAssumption DEF Buckets
  <2>2. ASSUME NEW l \in Leases, Attempt(l) PROVE GlobalSpendsOnAllowed'
    BY <1>2, <2>1, <2>2 DEF Attempt, Charge, Allows, GlobalSpendsOnAllowed
  <2>3. ASSUME NEW k \in Buckets, Mark(k) PROVE GlobalSpendsOnAllowed'
    BY <1>2, <2>1, <2>3 DEF Mark, TypeOK, GlobalSpendsOnAllowed
  <2> QED
    BY <1>2, <2>2, <2>3 DEF RateNext, RateTick, Advance, Revoke, rateVars, GlobalSpendsOnAllowed
<1> QED
  BY <1>1, <1>2, RateInvariant, PTL DEF RateSpec

-------------------------------------------------------------------------------
\* The steps of the runtime thread before it serves.
Starting == {"runtime", "resolver", "bind", "address"}

\* Where the two threads are and what passes between them.  A socket exists only
\* from the bind to the end of the thread; a message waits only for a caller that
\* has not read it; an endpoint is announced only by a thread that serves it; and
\* a caller whose start failed has seen the thread end.
StartInv ==
  /\ thread \in Starting \cup {"none", "serving", "exiting", "exited"}
  /\ config = [f \in DOMAIN config |-> config[f]] /\ "bind_address" \in DOMAIN config
  /\ thread = "address" => \E l : listener = {l}
  /\ caller = "building" => thread = "none"
  /\ caller = "failed" => thread \in {"none", "exited"}
  /\ caller = "joining" => thread \in {"exiting", "exited"}
  /\ caller = "started" => thread = "serving" /\ endpoint = listener
  /\ thread = "serving" => listener = {config.bind_address}
  /\ thread \in {"none", "runtime", "resolver", "bind", "exited"} => listener = None
  /\ thread \in Starting \cup {"none"} => ready = None
  /\ thread = "serving" /\ caller = "waiting" => ready = {listener}
  /\ thread \in {"exiting", "exited"} => ready \in {None, {{}}}
  /\ thread \notin {"none", "exited", "serving"} => caller \in {"waiting", "joining"}
  /\ thread = "serving" => caller \in {"waiting", "started"}
  /\ thread = "exited" => caller \in {"waiting", "joining", "failed"}

\* Nothing runs before start is called.
LEMMA StartInit == StartupInit => StartInv
<1> SUFFICES ASSUME StartupInit PROVE StartInv
  OBVIOUS
<1>1. config = [f \in DOMAIN config |-> config[f]] /\ "bind_address" \in DOMAIN config
  BY SMTT(20) DEF StartupInit
<1>2. caller = "building" /\ thread = "none" /\ ready = None /\ listener = None
  BY SMTT(20) DEF StartupInit
<1> QED
  BY ZenonT(90), <1>1, <1>2 DEF StartInv, Starting, None

\* The runtime thread's own steps.
LEMMA RuntimeSteps ==
  ASSUME StartInv, RuntimeStep \/ Panic PROVE StartInv'
<1>1. CASE CreateRuntime
  BY <1>1 DEF CreateRuntime, SendsError, StartInv, Starting, None
<1>2. CASE BuildResolver
  BY <1>2 DEF BuildResolver, SendsError, StartInv, Starting, None
<1>3. CASE Bind
  BY <1>3 DEF Bind, SendsError, StartInv, Starting, None
<1>4. CASE Announce
  <2>1. CASE SendsError
    <3>1. /\ config' = [f \in DOMAIN config' |-> config'[f]] /\ "bind_address" \in DOMAIN config'
          /\ thread = "address" /\ UNCHANGED <<caller, listener, endpoint>>
      BY <1>4 DEF Announce, StartInv, SendsError
    <3> QED
      BY <2>1, <3>1 DEF SendsError, StartInv, Starting, None
  <2>2. CASE thread' = "serving"
    <3>1. PICK bound \in listener :
            /\ config' = [config EXCEPT !.bind_address = bound]
            /\ ready' = {{bound}}
      BY <1>4, <2>2 DEF Announce, SendsError, BoundAddress
    <3>2. /\ config' = [f \in DOMAIN config' |-> config'[f]] /\ "bind_address" \in DOMAIN config'
          /\ config'.bind_address = bound
      BY <3>1 DEF StartInv
    <3>3. listener' = {bound} /\ thread = "address" /\ caller' = caller
      BY <1>4, <3>1 DEF Announce, StartInv
    <3> QED
      BY <2>2, <3>1, <3>2, <3>3 DEF StartInv, Starting, None
  <2> QED
    BY <1>4, <2>1, <2>2 DEF Announce
<1>5. CASE Exit
  BY <1>5 DEF Exit, StartInv, Starting, None
<1>6. CASE Panic
  BY <1>6 DEF Panic, StartInv, Starting, None
<1> QED
  BY <1>1, <1>2, <1>3, <1>4, <1>5, <1>6 DEF RuntimeStep

\* The steps of start and attach, and the setters before them.
LEMMA CallerSteps ==
  ASSUME StartInv, Configure \/ start \/ CallerStep \/ (\E i \in Identities : attach(i))
  PROVE  StartInv'
<1>1. CASE Configure
  <2>1. /\ \/ \E f, v : config' = [config EXCEPT ![f] = v]
           \/ \E v : config' = [config EXCEPT !.dns_servers = v]
           \/ \E v : config' = [config EXCEPT !.nat64_prefixes = v]
           \/ \E v : config' = [config EXCEPT !.denied_networks = v]
        /\ caller = "building" /\ UNCHANGED <<caller, thread, ready, listener, endpoint>>
    BY <1>1 DEF Configure, with_setting, with_dns_server, with_nat64_prefix,
                with_denied_network, Configured
  <2>2. config' = [f \in DOMAIN config' |-> config'[f]] /\ "bind_address" \in DOMAIN config'
    BY <2>1 DEF StartInv
  <2> QED
    BY <2>1, <2>2 DEF StartInv, Starting
<1>2. CASE start
  BY <1>2 DEF start, StartInv, Starting, None
<1>3. CASE Receive
  <2>1. /\ caller = "waiting" /\ UNCHANGED <<config, thread, listener>> /\ ready' = None
        /\ ready # None \/ Disconnected
        /\ caller' = IF UNION ready # {} THEN "started" ELSE "joining"
        /\ endpoint' = UNION ready
    BY <1>3 DEF Receive
  <2>2. CASE thread = "serving"
    <3>1. UNION ready = listener /\ listener # {}
      BY <2>1, <2>2 DEF StartInv
    <3> QED
      BY SMTT(20), <2>1, <2>2, <3>1 DEF StartInv, Starting, None
  <2>3. CASE thread \in {"exiting", "exited"}
    <3>1. UNION ready = {}
      BY <2>3 DEF StartInv, None
    <3> QED
      BY <2>1, <2>3, <3>1 DEF StartInv, Starting, None
  <2>4. thread \in {"serving", "exiting", "exited"}
    BY <2>1 DEF StartInv, Disconnected, None
  <2> QED
    BY <2>2, <2>3, <2>4
<1>4. CASE Join
  BY <1>4 DEF Join, StartInv, Starting
<1>5. ASSUME NEW i \in Identities, attach(i) PROVE StartInv'
  BY SMTT(20), <1>5 DEF attach, StartInv, Starting
<1> QED
  BY <1>1, <1>2, <1>3, <1>4, <1>5 DEF CallerStep

\* The two threads never lose track of each other.
THEOREM StartInvariant == StartupSpec => []StartInv
<1>1. StartInv /\ [StartupNext]_startupVars => StartInv'
  <2>1. ASSUME StartInv, UNCHANGED startupVars PROVE StartInv'
    BY <2>1 DEF startupVars, StartInv
  <2> QED
    BY <2>1, RuntimeSteps, CallerSteps DEF StartupNext
<1> QED
  BY <1>1, StartInit, PTL DEF StartupSpec

\* A start that fails leaves no thread and no listening socket, wherever the
\* startup failed (start_inner joins the thread before it returns the error).
THEOREM FailuresLeaveNothing == StartupSpec => []FailureLeavesNothing
<1>1. StartInv => FailureLeavesNothing
  BY DEF StartInv, FailureLeavesNothing
<1> QED
  BY <1>1, StartInvariant, PTL

\* A start that succeeds returns the address of the socket the thread serves.
THEOREM StartedServes ==
  StartupSpec => [](caller = "started" =>
               thread = "serving" /\ endpoint = listener /\ endpoint = {config.bind_address})
<1>1. StartInv => (caller = "started" =>
               thread = "serving" /\ endpoint = listener /\ endpoint = {config.bind_address})
  BY DEF StartInv
<1> QED
  BY <1>1, StartInvariant, PTL

-------------------------------------------------------------------------------
Octets == 0..255

\* Two runs of octets joined, and taken apart again.
LEMMA Joined ==
  ASSUME NEW s \in Seq(Octets), NEW t \in Seq(Octets)
  PROVE  /\ s \o t \in Seq(Octets) /\ Len(s \o t) = Len(s) + Len(t)
         /\ SubSeq(s \o t, 1, Len(s)) = s
         /\ SubSeq(s \o t, Len(s) + 1, Len(s) + Len(t)) = t
<1>1. s \o t \in Seq(Octets) /\ Len(s \o t) = Len(s) + Len(t)
  BY SMTT(20)
<1>2. SubSeq(s \o t, 1, Len(s)) = s
  BY SMTT(20)
<1>3. SubSeq(s \o t, Len(s) + 1, Len(s) + Len(t)) = t
  BY SMTT(20)
<1> QED
  BY <1>1, <1>2, <1>3

\* An address cut in two, as canonical cuts the prefix off.
LEMMA Sliced ==
  ASSUME NEW a \in Seq(Octets), NEW n \in Nat, NEW m \in Nat, Len(a) = n + m
  PROVE  /\ SubSeq(a, 1, n) \o SubSeq(a, n + 1, n + m) = a
         /\ SubSeq(a, n + 1, n + m) \in Seq(Octets) /\ Len(SubSeq(a, n + 1, n + m)) = m
<1>1. SubSeq(a, 1, n) \o SubSeq(a, n + 1, n + m) = a
  BY SMTT(20)
<1>2. SubSeq(a, n + 1, n + m) \in Seq(Octets) /\ Len(SubSeq(a, n + 1, n + m)) = m
  BY SMTT(20)
<1> QED
  BY <1>1, <1>2

\* A Rust array of n octets is a sequence of n.
LEMMA FunctionSeq ==
  ASSUME NEW S, NEW n \in Nat, NEW a \in [1..n -> S] PROVE a \in Seq(S) /\ Len(a) = n
BY SMTT(20)

\* The unspecified addresses, runs of zeros, are octets.
LEMMA ZerosSeq ==
  ASSUME NEW n \in Nat
  PROVE  Zeros(n) \in Seq(Octets) /\ Len(Zeros(n)) = n
<1>1. Zeros(n) \in [1..n -> Octets]
  BY SMTT(20) DEF Zeros, Octets
<1> QED
  BY <1>1, FunctionSeq

\* The two parts that the mapped prefix is written with.
LEMMA PrefixParts ==
  /\ Zeros(10) \in Seq(Octets) /\ Len(Zeros(10)) = 10
  /\ <<255, 255>> \in Seq(Octets) /\ Len(<<255, 255>>) = 2 /\ <<255, 255>>[1] = 255
<1> DEFINE t == <<255, 255>>
           m == 2
<1>1. t \in [1..m -> Octets] /\ m \in Nat /\ t[1] = 255
  BY SMTT(20) DEF Octets
<1>2. Zeros(10) \in Seq(Octets) /\ Len(Zeros(10)) = 10
  BY ZerosSeq
<1> HIDE DEF t, m
<1>3. t \in Seq(Octets) /\ Len(t) = m
  BY <1>1, FunctionSeq
<1> QED
  BY <1>1, <1>2, <1>3 DEF t, m

\* The prefix ::ffff:0:0/96 of the mapped addresses that canonical undoes has
\* twelve octets.
LEMMA PrefixSeq == MappedPrefix \in Seq(Octets) /\ Len(MappedPrefix) = 12
<1> DEFINE t == <<255, 255>>
           z == Zeros(10)
<1>1. z \in Seq(Octets) /\ t \in Seq(Octets) /\ MappedPrefix = z \o t
  BY PrefixParts DEF MappedPrefix
<1>2. Len(z) + Len(t) = 12
  <2>1. Len(z) = 10 /\ Len(t) = 2
    BY PrefixParts
  <2> HIDE DEF z, t
  <2> QED
    BY SMTT(20), <2>1
<1> HIDE DEF t, z
<1>3. z \o t \in Seq(Octets) /\ Len(z \o t) = Len(z) + Len(t)
  BY <1>1, Joined
<1> QED
  BY <1>1, <1>2, <1>3

\* An address of the configuration is four octets or sixteen.
LEMMA AddressSeq ==
  ASSUME NEW a \in IpAddress PROVE a \in Seq(Octets) /\ Len(a) \in {4, 16}
<1>1. a \in [1..4 -> Octets] \/ a \in [1..16 -> Octets]
  BY DEF IpAddress, Octet, Octets
<1> QED
  BY <1>1, FunctionSeq

\* The lengths of the two kinds of addresses and of the prefix between them.
LEMMA Counts == 16 = 12 + 4 /\ 13 = 12 + 1 /\ 16 - 4 = 12 /\ 12 \in Nat /\ 4 \in Nat /\ 16 \in Nat /\ 4 # 16
BY SMTT(20)

\* canonical takes the mapped spelling of an IPv4 address, and the address
\* itself, to that address.
LEMMA MappedSpelling ==
  ASSUME NEW a \in Seq(Octets), Len(a) = 4
  PROVE  /\ MappedPrefix \o a \in Seq(Octets) /\ Len(MappedPrefix \o a) = 16
         /\ canonical(MappedPrefix \o a) = a /\ canonical(a) = a
<1> DEFINE p == MappedPrefix
           m == p \o a
<1>0. p \in Seq(Octets)
  BY PrefixSeq
<1>2. Len(p) = 12
  BY PrefixSeq
<1> HIDE DEF p
<1>1. m \in Seq(Octets) /\ Len(m) = 16 /\ SubSeq(m, 1, 12) = p /\ SubSeq(m, 13, 16) = a
  <2> DEFINE n == 12
             f == 4
             k == 13
             l == 16
  <2>1. n \in Nat /\ f \in Nat /\ k = n + 1 /\ l = n + f
    BY SMTT(20)
  <2>2. Len(p) = n /\ Len(a) = f
    BY <1>2
  <2> HIDE DEF n, f, k, l
  <2>3. /\ m \in Seq(Octets) /\ Len(m) = Len(p) + Len(a)
        /\ SubSeq(m, 1, Len(p)) = p /\ SubSeq(m, Len(p) + 1, Len(p) + Len(a)) = a
    BY <1>0, Joined
  <2>4. m \in Seq(Octets) /\ Len(m) = l /\ SubSeq(m, 1, n) = p /\ SubSeq(m, k, l) = a
    BY <2>1, <2>2, <2>3
  <2> QED
    BY <2>4 DEF n, k, l
<1> HIDE DEF m
<1>4. canonical(m) = a
  BY <1>1, Counts DEF canonical, is_mapped, IsV4, p
<1>5. canonical(a) = a
  BY DEF canonical, is_mapped, IsV4
<1> QED
  BY <1>1, <1>4, <1>5 DEF m, p

\* Every address is its canonical form, or that form behind the mapped prefix.
LEMMA CanonicalForm ==
  ASSUME NEW a \in Seq(Octets), Len(a) \in {4, 16}
  PROVE  /\ canonical(a) \in Seq(Octets) /\ Len(canonical(a)) \in {4, 16}
         /\ a \in {canonical(a), MappedPrefix \o canonical(a)}
         /\ SubSeq(canonical(a), 1, Len(canonical(a)) - 4) # MappedPrefix
<1>4. ASSUME NEW k \in Seq(Octets), Len(k) = 4 PROVE SubSeq(k, 1, Len(k) - 4) # MappedPrefix
  <2>1. Len(SubSeq(k, 1, 0)) = 0
    BY SMTT(20)
  <2>2. 4 - 4 = 0 /\ 12 # 0
    BY SMTT(20)
  <2> QED
    BY <1>4, <2>1, <2>2, PrefixSeq
<1>1. CASE is_mapped(a)
  <2> DEFINE b == SubSeq(a, 13, 16)
  <2>1. Len(a) = 16 /\ SubSeq(a, 1, 12) = MappedPrefix /\ canonical(a) = b
    BY <1>1 DEF is_mapped, IsV4, canonical
  <2>2. Len(a) = 12 + 4
    BY <2>1, Counts
  <2>3. /\ SubSeq(a, 1, 12) \o SubSeq(a, 12 + 1, 12 + 4) = a
        /\ SubSeq(a, 12 + 1, 12 + 4) \in Seq(Octets) /\ Len(SubSeq(a, 12 + 1, 12 + 4)) = 4
    BY <2>2, Counts, Sliced
  <2>4. MappedPrefix \o b = a /\ b \in Seq(Octets) /\ Len(b) = 4
    BY <2>1, <2>3, Counts
  <2> HIDE DEF b
  <2> QED
    BY <2>1, <2>4, <1>4
<1>2. CASE ~is_mapped(a)
  <2>1. canonical(a) = a
    BY <1>2 DEF canonical
  <2>2. CASE Len(a) = 16
    <3>1. SubSeq(a, 1, 12) # MappedPrefix
      BY <1>2, <2>2, Counts DEF is_mapped, IsV4
    <3> QED
      BY <2>1, <2>2, <3>1, Counts
  <2>3. CASE Len(a) = 4
    BY <2>1, <2>3, <1>4
  <2> QED
    BY <2>2, <2>3
<1> QED
  BY <1>1, <1>2

\* The octets of a part are those of the whole.
LEMMA Element ==
  ASSUME NEW a \in Seq(Octets), NEW n \in 1..Len(a), NEW i \in 1..n PROVE SubSeq(a, 1, n)[i] = a[i]
BY SMTT(20)

\* The octets of the second part follow those of the first.
LEMMA Second ==
  ASSUME NEW s \in Seq(Octets), NEW t \in Seq(Octets), NEW i \in 1..Len(t)
  PROVE  (s \o t)[Len(s) + i] = t[i]
BY SMTT(20)

\* The unspecified IPv6 address is not a mapped one.
LEMMA ZerosUnmapped == canonical(Zeros(16)) = Zeros(16)
<1> DEFINE a == Zeros(16)
           z == Zeros(10)
           t == <<255, 255>>
           n == 12
           i == 11
<1>1. a \in Seq(Octets) /\ z \in Seq(Octets) /\ t \in Seq(Octets)
  BY ZerosSeq, PrefixParts
<1>2. Len(a) = 16 /\ Len(z) = 10 /\ Len(t) = 2
  BY ZerosSeq, PrefixParts
<1>3. a[i] = 0
  BY SMTT(20) DEF Zeros
<1>4. t[1] = 255
  BY PrefixParts
<1>5. MappedPrefix = z \o t /\ canonical(a) = IF is_mapped(a) THEN SubSeq(a, 13, 16) ELSE a
  BY DEF MappedPrefix, canonical
<1>6. is_mapped(a) => SubSeq(a, 1, n) = MappedPrefix
  BY DEF is_mapped
<1>7. 0 # 255
  BY SMTT(20)
<1> HIDE DEF a, z, t
<1>8. n \in 1..Len(a) /\ i \in 1..n /\ i = Len(z) + 1 /\ 1 \in 1..Len(t)
  BY SMTT(20), <1>2
<1> HIDE DEF n, i
<1>9. SubSeq(a, 1, n)[i] = a[i]
  BY <1>1, <1>8, Element
<1>10. (z \o t)[Len(z) + 1] = t[1]
  BY <1>1, <1>8, Second
<1>11. a[i] # t[1]
  BY <1>3, <1>4, <1>7
<1>12. ~is_mapped(a)
  BY <1>5, <1>6, <1>8, <1>9, <1>10, <1>11
<1> QED
  BY <1>5, <1>12 DEF a

\* A server that a packet cannot tell from the listener is one that run_proxy's
\* check of the DNS servers finds.
LEMMA ReachesIsEndpoint ==
  ASSUME NEW s \in SocketAddress, NEW l \in SocketAddress, Reaches(s, l)
  PROVE  is_proxy_endpoint(s, l)
<1>1. /\ s.ip \in Seq(Octets) /\ Len(s.ip) \in {4, 16}
      /\ l.ip \in Seq(Octets) /\ Len(l.ip) \in {4, 16}
  BY AddressSeq DEF SocketAddress
<1>2. s.port = l.port
  BY DEF Reaches
<1>l. ASSUME NEW a \in Seq(Octets), Len(MappedPrefix \o a) \in {4, 16} PROVE Len(a) = 4
  <2>1. Len(MappedPrefix \o a) = Len(MappedPrefix) + Len(a) /\ Len(MappedPrefix) = 12
    BY PrefixSeq, Joined
  <2>2. Len(a) \in Nat
    BY SMTT(20)
  <2>3. \A k \in Nat : 12 + k \in {4, 16} => k = 4
    BY SMTT(20)
  <2> QED
    BY <1>l, <2>1, <2>2, <2>3
<1>3. CASE s.ip = l.ip
  BY <1>2, <1>3 DEF is_proxy_endpoint
<1>4. CASE s.ip = MappedPrefix \o l.ip
  <2>1. canonical(s.ip) = l.ip /\ canonical(l.ip) = l.ip
    BY <1>1, <1>4, <1>l, MappedSpelling
  <2> QED
    BY <1>2, <2>1 DEF is_proxy_endpoint
<1>5. CASE MappedPrefix \o s.ip = l.ip
  <2>1. canonical(l.ip) = s.ip /\ canonical(s.ip) = s.ip
    BY <1>1, <1>5, <1>l, MappedSpelling
  <2> QED
    BY <1>2, <2>1 DEF is_proxy_endpoint
<1>6. CASE l.ip \in {Zeros(4), Zeros(16), MappedPrefix \o Zeros(4)}
  <2>1. Zeros(4) \in Seq(Octets) /\ Len(Zeros(4)) = 4
    BY ZerosSeq
  <2>2. canonical(MappedPrefix \o Zeros(4)) = Zeros(4) /\ canonical(Zeros(4)) = Zeros(4)
    BY <2>1, MappedSpelling
  <2>3. canonical(Zeros(16)) = Zeros(16)
    BY ZerosUnmapped
  <2>4. Len(Zeros(16)) = 16
    BY ZerosSeq
  <2>5. canonical(l.ip) \in {Zeros(4), Zeros(16)}
    BY <1>6, <2>2, <2>3
  <2>6. is_unspecified(canonical(l.ip))
    BY <2>1, <2>4, <2>5 DEF is_unspecified
  <2> QED
    BY <1>2, <2>6 DEF is_proxy_endpoint
<1> QED
  BY <1>3, <1>4, <1>5, <1>6 DEF Reaches

\* A set of check numbers that is not empty has a least one: the first check to
\* fail, which decides what validate returns.
LEMMA LeastExists ==
  ASSUME NEW T, T \subseteq Nat, T # {}
  PROVE  Min(T) \in T /\ \A y \in T : Min(T) <= y
<1>1. PICK x \in T : \A y \in T : ~(<<y, x>> \in OpToRel(<, Nat))
  BY NatLessThanWellFounded, WFMin, ZenonT(30)
<1>2. ASSUME NEW y \in T PROVE x <= y
  <2>1. x \in Nat /\ y \in Nat
    OBVIOUS
  <2>2. ~(y < x)
    BY <1>1, <2>1 DEF OpToRel
  <2> QED
    BY SMTT(20), <2>1, <2>2
<1>3. \E z \in T : \A y \in T : z <= y
  BY <1>2
<1> QED
  BY <1>3 DEF Min

\* A list of checks that returns Ok has no check that fails.
LEMMA AllPass ==
  ASSUME NEW n \in Nat, NEW checks, DOMAIN checks = 1..n,
         \A i \in 1..n : checks[i][2] # OK, FirstError(checks) = OK
  PROVE  \A i \in 1..n : ~checks[i][1]
<1> DEFINE failing == {i \in DOMAIN checks : checks[i][1]}
<1>1. CASE failing = {}
  BY <1>1
<1>2. CASE failing # {}
  <2>1. failing \subseteq Nat
    BY SMTT(20)
  <2>2. Min(failing) \in failing
    BY <1>2, <2>1, LeastExists
  <2>3. FirstError(checks) = checks[Min(failing)][2]
    BY <1>2 DEF FirstError
  <2> QED
    BY <2>2, <2>3
<1> QED
  BY <1>1, <1>2

\* The limits of a configuration that a started proxy can work with.
Usable(c) ==
  /\ \A n \in Capacities(c) \cup {c.max_resolved_addresses} : n > 0
  /\ c.header_timeout \in Nat => c.header_timeout > 0
  /\ \A r \in c.connection_attempt_rate : r \in Nat \X Nat => r[1] > 0 /\ r[2] > 0
  /\ \A n \in c.diagnostics : n > 0
  /\ \A p \in Range(c.nat64_prefixes) : \E k \in 4..8 : p.length \in {8 * k, 96}

\* A configuration that validate lets through has no limit of zero and only NAT64
\* prefixes whose length RFC 6052 has.
LEMMA ValidIsUsable == ASSUME NEW c, validate(c) = OK PROVE Usable(c)
<1> DEFINE checks == checks_of(c)
<1>1. FirstError(checks) = OK
  BY DEF validate
<1>2. DOMAIN checks = 1..15 /\ \A i \in 1..15 : checks[i][2] # OK
  BY SMTT(20) DEF OK, checks_of
<1>3. 15 \in Nat
  OBVIOUS
<1>4. \A i \in 1..15 : ~checks[i][1]
  <2> HIDE DEF checks
  <2> QED
    BY <1>1, <1>2, <1>3, AllPass
<1>5. ~checks[2][1] /\ ~checks[3][1] /\ ~checks[6][1] /\ ~checks[7][1] /\ ~checks[8][1] /\ ~checks[11][1]
  <2> HIDE DEF checks
  <2> QED
    BY SMTT(20), <1>4
<1>6. /\ checks[2][1] = BadCapacity(c) /\ checks[3][1] = BadAddresses(c)
      /\ checks[6][1] = BadEventRate(c) /\ checks[7][1] = (c.header_timeout = 0)
      /\ checks[8][1] = BadAttemptRate(c) /\ checks[11][1] = BadPrefix(c)
  BY SMTT(20) DEF checks_of
<1> HIDE DEF checks
<1>p. /\ ~BadCapacity(c) /\ ~BadAddresses(c) /\ ~BadEventRate(c) /\ c.header_timeout # 0
      /\ ~BadAttemptRate(c) /\ ~BadPrefix(c)
  BY <1>5, <1>6
<1>i. ASSUME NEW m \in Nat, NEW n \in 1..m PROVE n > 0
  BY SMTT(20)
<1>m. MaxEventRate \in Nat /\ MaxAddresses \in Nat /\ MaxPermits \in Nat
  BY SMTT(20), TypeAssumption DEF MaxEventRate, MaxAddresses
<1>7. \A n \in Capacities(c) : n > 0
  BY <1>i, <1>m, <1>p DEF BadCapacity
<1>8. c.max_resolved_addresses > 0
  BY <1>i, <1>m, <1>p DEF BadAddresses
<1>h. c.header_timeout \in Nat => c.header_timeout > 0
  <2>1. \A n \in Nat : n # 0 => n > 0
    BY SMTT(20)
  <2> QED
    BY <2>1, <1>p
<1>9. \A n \in c.diagnostics : n > 0
  BY <1>i, <1>m, <1>p DEF BadEventRate
<1>10. \A r \in c.connection_attempt_rate : r \in Nat \X Nat => r[1] > 0 /\ r[2] > 0
  BY SMTT(20), <1>p DEF BadAttemptRate
<1>11. ASSUME NEW p \in Range(c.nat64_prefixes) PROVE \E k \in 4..8 : p.length \in {8 * k, 96}
  <2>1. p.length \in {32, 40, 48, 56, 64, 96}
    BY ZenonT(90), <1>p DEF BadPrefix
  <2> QED
    BY SMTT(20), <2>1
<1> QED
  BY <1>7, <1>8, <1>h, <1>9, <1>10, <1>11 DEF Usable

\* The fields the rest of the startup reads.
Settled ==
  {"bind_address", "dns_servers", "max_connections", "max_concurrent_dns", "max_concurrent_dials",
   "max_resolved_addresses", "header_timeout", "connection_attempt_rate", "diagnostics",
   "nat64_prefixes"}

\* What validate has let through, and what run_proxy adds to it: the listening
\* socket has a port, and no DNS server is that socket.
SoundInv ==
  /\ Settled \subseteq DOMAIN config
  /\ config.bind_address \in SocketAddress /\ config.dns_servers \in Seq(SocketAddress)
  /\ config.header_timeout \in Nat /\ config.connection_attempt_rate \subseteq Nat \X Nat
  /\ thread # "none" => Usable(config)
  /\ listener \subseteq SocketAddress /\ \A l \in listener : l.port # 0
  /\ thread = "serving" =>
       \A s \in Range(config.dns_servers) : ~is_proxy_endpoint(s, config.bind_address)

\* Nothing has been set yet.
LEMMA SoundInit == StartupInit => SoundInv
<1> SUFFICES ASSUME StartupInit PROVE SoundInv
  OBVIOUS
<1>1. /\ config.bind_address = [ip |-> <<127, 0, 0, 1>>, port |-> 0, scope |-> 0]
      /\ config.dns_servers = <<>> /\ config.header_timeout = 10000
      /\ config.connection_attempt_rate = {} /\ Settled \subseteq DOMAIN config
      /\ thread = "none" /\ listener = {}
  BY SMTT(20) DEF StartupInit, Settled, None
<1>2. <<127, 0, 0, 1>> \in IpAddress
  BY SMTT(20) DEF IpAddress, Octet
<1>3. config.bind_address \in SocketAddress
  BY SMTT(20), <1>1, <1>2 DEF SocketAddress
<1> QED
  BY SMTT(20), <1>1, <1>3 DEF SoundInv

\* A setter changes one field, to a value of its type.
LEMMA SettersAreSound ==
  ASSUME StartInv, SoundInv, Configure
  PROVE  SoundInv'
<1>1. caller = "building" /\ thread = "none" /\ UNCHANGED <<thread, listener>>
  BY DEF Configure, with_setting, with_dns_server, with_nat64_prefix, with_denied_network,
         Configured, StartInv
<1>2. config = [f \in DOMAIN config |-> config[f]] /\ Settled \subseteq DOMAIN config
  BY DEF StartInv, SoundInv
<1>3. ASSUME NEW field, NEW value, config' = [config EXCEPT ![field] = value]
      PROVE  /\ Settled \subseteq DOMAIN config'
             /\ \A f \in Settled : config'[f] = IF f = field THEN value ELSE config[f]
  BY <1>2, <1>3
<1>4. ASSUME NEW field, NEW value, config' = [config EXCEPT ![field] = value],
             field = "bind_address" => value \in SocketAddress,
             field = "dns_servers" => value \in Seq(SocketAddress),
             field = "header_timeout" => value \in Nat,
             field = "connection_attempt_rate" => value \subseteq Nat \X Nat
      PROVE  SoundInv'
  <2>1. /\ Settled \subseteq DOMAIN config'
        /\ \A f \in Settled : config'[f] = IF f = field THEN value ELSE config[f]
    BY <1>3, <1>4
  <2>2. /\ config'.bind_address \in SocketAddress /\ config'.dns_servers \in Seq(SocketAddress)
        /\ config'.header_timeout \in Nat /\ config'.connection_attempt_rate \subseteq Nat \X Nat
    BY <1>4, <2>1 DEF SoundInv, Settled
  <2> QED
    BY <1>1, <2>1, <2>2 DEF SoundInv
<1>5. CASE \E field \in DOMAIN Settings : \E value \in Settings[field] : with_setting(field, value)
  <2>0. PICK field \in DOMAIN Settings : \E value \in Settings[field] : with_setting(field, value)
    BY <1>5
  <2>1. PICK value \in Settings[field] : with_setting(field, value)
    BY <2>0
  <2>2. /\ field = "bind_address" => value \in SocketAddress
        /\ field # "dns_servers"
        /\ field = "header_timeout" => value \in Nat
        /\ field = "connection_attempt_rate" => value \subseteq Nat \X Nat
    BY TypeAssumption
  <2>3. config' = [config EXCEPT ![field] = value]
    BY <2>1 DEF with_setting, Configured
  <2> QED
    BY <1>4, <2>2, <2>3
<1>6. ASSUME NEW server \in DnsServers, with_dns_server(server) PROVE SoundInv'
  <2>1. config.dns_servers \in Seq(SocketAddress) /\ server \in SocketAddress
    BY TypeAssumption DEF SoundInv
  <2>2. Insert(config.dns_servers, server) \in Seq(SocketAddress)
    BY SMTT(20), <2>1 DEF Insert
  <2>3. config' = [config EXCEPT !["dns_servers"] = Insert(config.dns_servers, server)]
    BY <1>6 DEF with_dns_server, Configured
  <2> QED
    BY <1>4, <2>2, <2>3
<1>7. ASSUME NEW prefix \in Nat64Prefixes, with_nat64_prefix(prefix) PROVE SoundInv'
  <2>1. PICK v : config' = [config EXCEPT !["nat64_prefixes"] = v]
    BY <1>7 DEF with_nat64_prefix, Configured
  <2> QED
    BY <1>4, <2>1
<1>8. ASSUME NEW network \in Networks, with_denied_network(network) PROVE SoundInv'
  <2>1. PICK v : config' = [config EXCEPT !["denied_networks"] = v]
    BY <1>8 DEF with_denied_network, Configured
  <2> QED
    BY <1>4, <2>1
<1> QED
  BY <1>5, <1>6, <1>7, <1>8 DEF Configure

\* Freezing the bound address into the configuration leaves the rest as it was.
LEMMA BoundIsUsable ==
  ASSUME StartInv, SoundInv, NEW bound, config' = [config EXCEPT !.bind_address = bound]
  PROVE  /\ Settled \subseteq DOMAIN config' /\ config'.bind_address = bound
         /\ config'.dns_servers = config.dns_servers
         /\ config'.header_timeout = config.header_timeout
         /\ config'.connection_attempt_rate = config.connection_attempt_rate
         /\ Usable(config) => Usable(config)'
<1>1. config = [f \in DOMAIN config |-> config[f]] /\ Settled \subseteq DOMAIN config
  BY DEF StartInv, SoundInv
<1>2. /\ Settled \subseteq DOMAIN config' /\ config'["bind_address"] = bound
      /\ \A f \in Settled \ {"bind_address"} : config'[f] = config[f]
  BY <1>1 DEF Settled
<1>3. /\ config'.max_connections = config.max_connections
      /\ config'.max_concurrent_dns = config.max_concurrent_dns
      /\ config'.max_concurrent_dials = config.max_concurrent_dials
      /\ config'.max_resolved_addresses = config.max_resolved_addresses
      /\ config'.header_timeout = config.header_timeout
      /\ config'.connection_attempt_rate = config.connection_attempt_rate
      /\ config'.diagnostics = config.diagnostics
      /\ config'.nat64_prefixes = config.nat64_prefixes
      /\ config'.dns_servers = config.dns_servers
  BY <1>2 DEF Settled
<1>4. Capacities(config)' = Capacities(config)
  BY <1>3 DEF Capacities
<1>5. Usable(config) => Usable(config)'
  BY <1>3, <1>4 DEF Usable
<1> QED
  BY <1>2, <1>3, <1>5

\* The steps of start_inner and of the runtime thread.
LEMMA StartIsSound ==
  ASSUME StartInv, SoundInv, [StartupNext]_startupVars
  PROVE  SoundInv'
<1>s. ASSUME UNCHANGED <<config, listener>>, thread' # "none" => thread # "none",
             thread' = "serving" => thread = "serving"
      PROVE  SoundInv'
  BY <1>s DEF SoundInv, Usable
<1>1. CASE start
  <2>1. CASE validate(config) = OK /\ thread' = "runtime"
    <3>1. Usable(config)
      BY <2>1, ValidIsUsable
    <3>2. UNCHANGED <<config, listener>>
      BY <1>1 DEF start
    <3> QED
      BY <2>1, <3>1, <3>2 DEF SoundInv, Usable
  <2> QED
    BY <1>1, <1>s, <2>1 DEF start
<1>2. CASE CreateRuntime \/ BuildResolver \/ Panic
  BY <1>2, <1>s DEF CreateRuntime, BuildResolver, Panic, SendsError
<1>3. CASE Exit
  <2>1. UNCHANGED config /\ listener' = {} /\ thread = "exiting" /\ thread' = "exited"
    BY <1>3 DEF Exit, None
  <2> QED
    BY <2>1 DEF SoundInv, Usable
<1>4. CASE Bind
  <2>0. thread = "bind" /\ UNCHANGED config /\ thread' \notin {"none", "serving"}
    BY <1>4 DEF Bind, SendsError
  <2>1. CASE UNCHANGED listener
    BY <1>s, <2>0, <2>1
  <2>2. CASE ~UNCHANGED listener
    <3>1. PICK p \in IF config.bind_address.port = 0 THEN Ports ELSE {config.bind_address.port} :
            listener' = {[config.bind_address EXCEPT !.port = p]}
      BY <1>4, <2>2 DEF Bind
    <3>2. config.bind_address \in SocketAddress
      BY ZenonT(90) DEF SoundInv
    <3>3. p \in Nat /\ p # 0
      BY SMTT(20), <3>1, <3>2, TypeAssumption, StartupAssumption DEF SocketAddress
    <3> DEFINE l == [config.bind_address EXCEPT !.port = p]
    <3>4. l \in SocketAddress /\ l.port = p
      BY <3>2, <3>3 DEF SocketAddress
    <3>5. listener' = {l}
      BY <3>1
    <3> HIDE DEF l
    <3>6. listener' \subseteq SocketAddress /\ \A k \in listener' : k.port # 0
      BY <3>3, <3>4, <3>5
    <3> QED
      BY <2>0, <3>6 DEF SoundInv, Usable
  <2> QED
    BY <2>1, <2>2
<1>5. CASE Announce
  <2>0. thread = "address" /\ thread' \in {"exiting", "serving"} /\ UNCHANGED listener
    BY <1>5 DEF Announce, SendsError
  <2>1. CASE UNCHANGED config /\ SendsError
    BY <1>s, <2>0, <2>1 DEF SendsError
  <2>2. CASE \E bound \in listener :
             /\ config' = [config EXCEPT !.bind_address = BoundAddress(bound)]
             /\ IF \E s \in Range(config.dns_servers) : is_proxy_endpoint(s, BoundAddress(bound))
                THEN SendsError
                ELSE ready' = {{bound}} /\ thread' = "serving"
    <3>1. PICK bound \in listener :
             /\ config' = [config EXCEPT !.bind_address = bound]
             /\ thread' = "serving" =>
                  \A s \in Range(config.dns_servers) : ~is_proxy_endpoint(s, bound)
      BY <2>2 DEF BoundAddress, SendsError
    <3>2. /\ Settled \subseteq DOMAIN config' /\ config'.bind_address = bound
          /\ config'.dns_servers = config.dns_servers
          /\ config'.header_timeout = config.header_timeout
          /\ config'.connection_attempt_rate = config.connection_attempt_rate
          /\ Usable(config) => Usable(config)'
      BY <3>1, BoundIsUsable
    <3>3. bound \in SocketAddress /\ Usable(config)
      BY <2>0 DEF SoundInv
    <3> QED
      BY <2>0, <3>1, <3>2, <3>3 DEF SoundInv
  <2> QED
    BY <1>5, <2>1, <2>2 DEF Announce
<1>6. CASE CallerStep \/ (\E i \in Identities : attach(i)) \/ UNCHANGED startupVars
  BY <1>6, <1>s DEF CallerStep, Receive, Join, attach, startupVars
<1> QED
  BY <1>1, <1>2, <1>3, <1>4, <1>5, <1>6, SettersAreSound DEF StartupNext, RuntimeStep

\* A started proxy has an assigned port and a configuration the data path can work
\* with, and asks no DNS server that is its own listener, in whatever spelling.
THEOREM StartedProxiesAreSound == StartupSpec => []StartedIsSound
<1>1. StartInv /\ SoundInv => StartedIsSound
  <2> SUFFICES ASSUME StartInv, SoundInv, caller = "started"
               PROVE  /\ thread = "serving" /\ endpoint = listener /\ endpoint = {config.bind_address}
                      /\ \A l \in listener :
                           l.port # 0 /\ \A s \in Range(config.dns_servers) : ~Reaches(s, l)
                      /\ \A n \in Capacities(config) \cup
                                   {config.max_resolved_addresses, config.header_timeout} : n > 0
                      /\ \A r \in config.connection_attempt_rate : r[1] > 0 /\ r[2] > 0
                      /\ \A n \in config.diagnostics : n > 0
                      /\ \A p \in Range(config.nat64_prefixes) :
                           \E k \in 4..8 : p.length \in {8 * k, 96}
    BY DEF StartedIsSound
  <2>1. thread = "serving" /\ endpoint = listener /\ listener = {config.bind_address}
    BY DEF StartInv
  <2>2. /\ Usable(config) /\ config.bind_address \in SocketAddress
        /\ config.dns_servers \in Seq(SocketAddress) /\ config.header_timeout \in Nat
        /\ config.connection_attempt_rate \subseteq Nat \X Nat
    BY <2>1 DEF SoundInv
  <2>3. ASSUME NEW l \in listener
        PROVE  l.port # 0 /\ \A s \in Range(config.dns_servers) : ~Reaches(s, l)
    <3>1. l = config.bind_address /\ l.port # 0
      BY <2>1 DEF SoundInv
    <3>2. \A s \in Range(config.dns_servers) : s \in SocketAddress
      BY SMTT(20), <2>2 DEF Range
    <3>3. \A s \in Range(config.dns_servers) : ~is_proxy_endpoint(s, l)
      BY <2>1, <3>1 DEF SoundInv
    <3> QED
      BY <2>2, <3>1, <3>2, <3>3, ReachesIsEndpoint
  <2>4. /\ config.header_timeout > 0
        /\ \A r \in config.connection_attempt_rate : r[1] > 0 /\ r[2] > 0
    BY <2>2 DEF Usable
  <2> QED
    BY <2>1, <2>2, <2>3, <2>4 DEF Usable
<1>2. StartInv /\ SoundInv /\ [StartupNext]_startupVars => SoundInv'
  BY StartIsSound
<1> QED
  BY <1>1, <1>2, SoundInit, StartInvariant, PTL DEF StartupSpec

-------------------------------------------------------------------------------
\* The lease table of attach: one canonical key for each attached identity.
HostInv ==
  /\ attached \subseteq IpAddress /\ leases = {canonical(a) : a \in attached}
  /\ \A a, b \in attached : canonical(a) = canonical(b) => a = b

\* No two leases stand for one host, for any set of identities and in either of an
\* address's spellings.
THEOREM LeasesAreHosts == StartupSpec => []OneLeasePerHost
<1>1. StartupInit => HostInv
  BY SMTT(20) DEF StartupInit, HostInv
<1>2. HostInv /\ [StartupNext]_startupVars => HostInv'
  <2> SUFFICES ASSUME HostInv, [StartupNext]_startupVars PROVE HostInv'
    OBVIOUS
  <2>1. CASE UNCHANGED <<leases, attached>>
    BY <2>1 DEF HostInv
  <2>2. ASSUME NEW i \in Identities, attach(i) PROVE HostInv'
    <3>1. i \in IpAddress /\ canonical(i) \notin leases /\ attached' = attached \cup {i}
          /\ leases' = leases \cup {canonical(i)}
      BY <2>2, TypeAssumption DEF attach
    <3>2. \A a \in attached : canonical(a) # canonical(i)
      BY <3>1 DEF HostInv
    <3> QED
      BY <3>1, <3>2 DEF HostInv
  <2> QED
    BY <2>1, <2>2
    DEF StartupNext, Configure, with_setting, with_dns_server, with_nat64_prefix,
        with_denied_network, Configured, start, RuntimeStep, CreateRuntime, BuildResolver, Bind,
        Announce, Exit, Panic, CallerStep, Receive, Join, startupVars
<1>3. HostInv => OneLeasePerHost
  <2> SUFFICES ASSUME HostInv, NEW a \in attached
               PROVE  /\ MappedPrefix \o a \notin attached
                      /\ \E k \in leases : /\ a \in {k, MappedPrefix \o k}
                                           /\ SubSeq(k, 1, Len(k) - 4) # MappedPrefix
    BY DEF OneLeasePerHost
  <2>1. a \in Seq(Octets) /\ Len(a) \in {4, 16}
    BY AddressSeq DEF HostInv
  <2>2. ASSUME MappedPrefix \o a \in attached PROVE FALSE
    <3>1. Len(MappedPrefix \o a) \in {4, 16}
      BY <2>2, AddressSeq DEF HostInv
    <3>2. Len(MappedPrefix \o a) = Len(MappedPrefix) + Len(a)
      BY <2>1, PrefixSeq, Joined
    <3>3. Len(a) = 4 /\ Len(MappedPrefix \o a) = 16
      BY SMTT(20), <2>1, <3>1, <3>2, PrefixSeq
    <3>4. canonical(MappedPrefix \o a) = canonical(a)
      BY <2>1, <3>3, MappedSpelling
    <3>5. MappedPrefix \o a = a
      BY <2>2, <3>4 DEF HostInv
    <3> QED
      BY SMTT(20), <3>3, <3>5
  <2>3. /\ canonical(a) \in leases /\ a \in {canonical(a), MappedPrefix \o canonical(a)}
        /\ SubSeq(canonical(a), 1, Len(canonical(a)) - 4) # MappedPrefix
    BY <2>1, CanonicalForm DEF HostInv
  <2> QED
    BY <2>2, <2>3
<1> QED
  BY <1>1, <1>2, <1>3, PTL DEF StartupSpec

-------------------------------------------------------------------------------
(***************************************************************************)
(* The account of the denials.  A sum of numbers is a loop: what holds for *)
(* the sums of its first numbers is shown from one to the next.            *)
(***************************************************************************)

\* A set that holds 0, and with every number below k the next one, holds 0..k.
LEMMA UpTo ==
  ASSUME NEW k \in Nat, NEW T, 0 \in T, \A n \in Nat : n < k /\ n \in T => n + 1 \in T
  PROVE  \A n \in 0..k : n \in T
<1> DEFINE Missing == {n \in Nat : n <= k /\ n \notin T}
<1>1. ASSUME NEW n \in 0..k, n \notin T PROVE FALSE
  <2>1. n \in Nat /\ n <= k
    BY SMTT(20)
  <2>2. n \in Missing
    BY <1>1, <2>1
  <2>3. PICK m \in Missing : \A y \in Missing : ~(<<y, m>> \in OpToRel(<, Nat))
    BY <2>2, NatLessThanWellFounded, WFMin
  <2>4. m # 0 /\ m \in Nat /\ m <= k /\ m \notin T
    OBVIOUS
  <2>5. m - 1 \in Nat /\ m - 1 <= k /\ m - 1 < m /\ m - 1 < k /\ (m - 1) + 1 = m
    BY SMTT(20), <2>4
  <2>6. m - 1 \notin Missing
    BY <2>3, <2>4, <2>5 DEF OpToRel
  <2>7. m - 1 \in T
    BY <2>5, <2>6
  <2> QED
    BY <2>4, <2>5, <2>7
<1> QED
  BY <1>1

\* The sums of a sequence's first numbers.
Step(s, f, n) == IF n = 0 THEN 0 ELSE f[n - 1] + s[n]

Sums(s) == CHOOSE f : f = [n \in 0..Len(s) |-> Step(s, f, n)]

\* There is such a function.
LEMMA SumsExist ==
  ASSUME NEW s, NEW k \in Nat
  PROVE  \E f : f = [n \in 0..k |-> Step(s, f, n)]
<1> DEFINE T == {j \in Nat : \E f : f = [n \in 0..j |-> Step(s, f, n)]}
<1>1. 0 \in T
  <2> DEFINE f == [n \in 0..0 |-> 0]
  <2>1. ASSUME NEW n \in 0..0 PROVE Step(s, f, n) = 0
    BY SMTT(20) DEF Step
  <2>2. f = [n \in 0..0 |-> Step(s, f, n)]
    BY <2>1
  <2> QED
    BY <2>2
<1>2. ASSUME NEW j \in Nat, j \in T PROVE j + 1 \in T
  <2> DEFINE m == j + 1
  <2>1. PICK g : g = [n \in 0..j |-> Step(s, g, n)]
    BY <1>2
  <2> DEFINE f == [n \in 0..m |-> IF n = m THEN Step(s, g, m) ELSE g[n]]
  <2>2. ASSUME NEW n \in 0..m PROVE f[n] = Step(s, f, n)
    <3>1. n # 0 => n - 1 \in 0..j /\ n - 1 \in 0..m /\ n - 1 # m
      BY SMTT(20)
    <3>2. n # 0 => f[n - 1] = g[n - 1]
      BY <3>1
    <3>3. Step(s, f, n) = Step(s, g, n)
      BY SMTT(20), <3>2 DEF Step
    <3>4. n # m => n \in 0..j
      BY SMTT(20)
    <3>5. n # m => g[n] = Step(s, g, n)
      BY <2>1, <3>4
    <3> QED
      BY <3>3, <3>5
  <2>3. f = [n \in 0..m |-> Step(s, f, n)]
    BY <2>2
  <2>4. m \in Nat
    BY SMTT(20)
  <2> QED
    BY <2>3, <2>4
<1>3. \A n \in 0..k : n \in T
  BY <1>1, <1>2, UpTo
<1>4. k \in 0..k
  BY SMTT(20)
<1> QED
  BY <1>3, <1>4

\* A sum grows by one number at a time and is a number itself.
LEMMA SumsAre ==
  ASSUME NEW s \in Seq(Nat)
  PROVE  /\ Len(s) \in Nat /\ Total(s) = Sums(s)[Len(s)] /\ Sums(s)[0] = 0 /\ Total(s) \in Nat
         /\ \A n \in 0..Len(s) : Sums(s)[n] \in Nat
         /\ \A n \in 1..Len(s) : Sums(s)[n] = Sums(s)[n - 1] + s[n]
<1> DEFINE L == Len(s)
           F == Sums(s)
           T == {n \in Nat : F[n] \in Nat}
<1>0. L \in Nat
  BY SMTT(20)
<1>1. Total(s) = F[L]
  BY DEF Total, Sums, Step
<1>2. F = [n \in 0..L |-> Step(s, F, n)]
  BY <1>0, SumsExist DEF Sums
<1>9. \A n \in 1..L : s[n] \in Nat
  BY SMTT(20)
<1> HIDE DEF L, F
<1>3. 0 \in 0..L /\ L \in 0..L
  BY SMTT(20), <1>0
<1>4. F[0] = 0
  BY <1>2, <1>3 DEF Step
<1>5. ASSUME NEW n \in 1..L PROVE F[n] = F[n - 1] + s[n]
  <2>1. n \in 0..L /\ n # 0
    BY SMTT(20), <1>0
  <2> QED
    BY <1>2, <2>1 DEF Step
<1>6. 0 \in T
  BY SMTT(20), <1>4
<1>7. ASSUME NEW n \in Nat, n < L, n \in T PROVE n + 1 \in T
  <2>1. n + 1 \in 1..L /\ (n + 1) - 1 = n
    BY SMTT(20), <1>0, <1>7
  <2>2. F[n + 1] = F[n] + s[n + 1]
    BY <1>5, <2>1
  <2> QED
    BY SMTT(20), <1>7, <1>9, <2>1, <2>2
<1>8. \A n \in 0..L : n \in T
  BY <1>0, <1>6, <1>7, UpTo
<1> QED
  BY <1>0, <1>1, <1>3, <1>4, <1>5, <1>8 DEF L, F

\* Nothing adds up to nothing.
LEMMA TotalOfNone == Total(<<>>) = 0
<1>1. <<>> \in Seq(Nat) /\ Len(<<>>) = 0
  BY SMTT(20)
<1> QED
  BY <1>1, SumsAre

\* Two sequences whose numbers agree up to n have the same sum up to n.
LEMMA SameSums ==
  ASSUME NEW s \in Seq(Nat), NEW t \in Seq(Nat), NEW k \in Nat, k <= Len(s), k <= Len(t),
         \A n \in 1..k : s[n] = t[n]
  PROVE  Sums(s)[k] = Sums(t)[k]
<1> DEFINE T == {n \in Nat : Sums(s)[n] = Sums(t)[n]}
<1>1. 0 \in T
  BY SumsAre
<1>2. ASSUME NEW n \in Nat, n < k, n \in T PROVE n + 1 \in T
  <2>1. n + 1 \in 1..Len(s) /\ n + 1 \in 1..Len(t) /\ n + 1 \in 1..k /\ (n + 1) - 1 = n /\ n + 1 \in Nat
    BY SMTT(20), <1>2
  <2>2. Sums(s)[n + 1] = Sums(s)[n] + s[n + 1] /\ Sums(t)[n + 1] = Sums(t)[n] + t[n + 1]
    BY <2>1, SumsAre
  <2> QED
    BY <1>2, <2>1, <2>2
<1>3. \A n \in 0..k : n \in T
  BY <1>1, <1>2, UpTo
<1>4. k \in 0..k
  BY SMTT(20)
<1> QED
  BY <1>3, <1>4

\* One more number.
LEMMA TotalOfLonger ==
  ASSUME NEW s \in Seq(Nat), NEW x \in Nat
  PROVE  Total(Append(s, x)) = Total(s) + x
<1> DEFINE t == Append(s, x)
<1>1. t \in Seq(Nat) /\ Len(t) = Len(s) + 1 /\ t[Len(s) + 1] = x /\ \A n \in 1..Len(s) : s[n] = t[n]
  BY SMTT(20)
<1>2. Len(s) \in Nat
  BY SMTT(20)
<1> HIDE DEF t
<1>3. Len(s) + 1 \in 1..Len(t) /\ (Len(s) + 1) - 1 = Len(s) /\ Len(s) <= Len(t) /\ Len(s) <= Len(s)
  BY SMTT(20), <1>1, <1>2
<1>4. Sums(t)[Len(t)] = Sums(t)[Len(s)] + x
  BY <1>1, <1>3, SumsAre
<1>5. Sums(s)[Len(s)] = Sums(t)[Len(s)]
  BY <1>1, <1>2, <1>3, SameSums
<1>6. Total(t) = Total(s) + x
  BY <1>1, <1>4, <1>5, SumsAre
<1> QED
  BY <1>6 DEF t

\* Without its first number.
LEMMA TotalOfTail ==
  ASSUME NEW s \in Seq(Nat), s # <<>>
  PROVE  Total(s) = Head(s) + Total(Tail(s))
<1> DEFINE t == Tail(s)
           T == {n \in Nat : Sums(s)[n + 1] = s[1] + Sums(t)[n]}
<1>1. /\ t \in Seq(Nat) /\ Len(t) \in Nat /\ Len(s) = Len(t) + 1 /\ Head(s) = s[1] /\ s[1] \in Nat
      /\ \A n \in 1..Len(t) : t[n] = s[n + 1]
  BY SMTT(20)
<1> HIDE DEF t
<1>2. 0 \in T
  <2>1. 1 \in 1..Len(s) /\ 1 - 1 = 0 /\ 0 + 1 = 1
    BY SMTT(20), <1>1
  <2>2. Sums(s)[1] = 0 + s[1] /\ Sums(t)[0] = 0
    BY <1>1, <2>1, SumsAre
  <2>3. 0 + s[1] = s[1] + 0
    BY SMTT(20), <1>1
  <2> QED
    BY <2>1, <2>2, <2>3
<1>3. ASSUME NEW n \in Nat, n < Len(t), n \in T PROVE n + 1 \in T
  <2>1. /\ n + 1 \in 1..Len(t) /\ (n + 1) - 1 = n /\ n + 1 \in Nat /\ n \in 0..Len(t)
        /\ (n + 1) + 1 \in 1..Len(s) /\ ((n + 1) + 1) - 1 = n + 1
    BY SMTT(20), <1>1, <1>3
  <2>2. /\ Sums(s)[(n + 1) + 1] = Sums(s)[n + 1] + s[(n + 1) + 1]
        /\ Sums(t)[n + 1] = Sums(t)[n] + t[n + 1]
    BY <1>1, <2>1, SumsAre
  <2>3. Sums(t)[n] \in Nat /\ t[n + 1] = s[(n + 1) + 1] /\ t[n + 1] \in Nat
    <3>1. \A i \in 1..Len(t) : t[i] \in Nat
      BY SMTT(20), <1>1
    <3> QED
      BY <1>1, <2>1, <3>1, SumsAre
  <2>4. ASSUME NEW a \in Nat, NEW b \in Nat, NEW c \in Nat PROVE (a + b) + c = a + (b + c)
    BY SMTT(20)
  <2>5. Sums(s)[n + 1] = s[1] + Sums(t)[n]
    BY <1>3
  <2>6. Sums(s)[(n + 1) + 1] = (s[1] + Sums(t)[n]) + t[n + 1]
    BY <2>2, <2>3, <2>5
  <2>7. (s[1] + Sums(t)[n]) + t[n + 1] = s[1] + (Sums(t)[n] + t[n + 1])
    BY <1>1, <2>3, <2>4
  <2> QED
    BY <2>1, <2>2, <2>6, <2>7
<1>4. \A n \in 0..Len(t) : n \in T
  BY <1>1, <1>2, <1>3, UpTo
<1>5. Len(t) \in 0..Len(t)
  BY SMTT(20), <1>1
<1>6. Sums(s)[Len(s)] = s[1] + Sums(t)[Len(t)]
  BY <1>1, <1>4, <1>5
<1> QED
  BY <1>1, <1>6, SumsAre DEF t

\* Another number in the place of one of them.
LEMMA TotalOfChanged ==
  ASSUME NEW s \in Seq(Nat), NEW t \in Seq(Nat), NEW i \in 1..Len(s), Len(t) = Len(s),
         \A n \in 1..Len(s) : n # i => t[n] = s[n]
  PROVE  Total(t) + s[i] = Total(s) + t[i]
<1> DEFINE L == Len(s)
           T == {n \in Nat : n < i \/ Sums(t)[n] + s[i] = Sums(s)[n] + t[i]}
<1>a. \A n \in 1..L : s[n] \in Nat
  BY SMTT(20)
<1>b. \A n \in 1..L : t[n] \in Nat
  BY SMTT(20)
<1>c. L \in Nat
  BY SMTT(20)
<1>d. L = Len(t) /\ i \in 1..L
  OBVIOUS
<1> HIDE DEF L
<1>e. i \in Nat /\ 1 <= i /\ i <= L
  BY SMTT(20), <1>c, <1>d
<1>0. L \in Nat /\ i \in Nat /\ 1 <= i /\ i <= L /\ (\A n \in 1..L : s[n] \in Nat) /\ \A n \in 1..L : t[n] \in Nat
  BY <1>a, <1>b, <1>c, <1>e
<1>1. 0 \in T
  BY SMTT(20), <1>0
<1>2. ASSUME NEW n \in Nat, n < L, n \in T PROVE n + 1 \in T
  <2>1. n + 1 \in 1..L /\ (n + 1) - 1 = n /\ n + 1 \in Nat /\ n \in 0..L
    BY SMTT(20), <1>0, <1>2
  <2>2. Sums(s)[n + 1] = Sums(s)[n] + s[n + 1] /\ Sums(t)[n + 1] = Sums(t)[n] + t[n + 1]
    BY <1>d, <2>1, SumsAre DEF L
  <2>3. /\ Sums(s)[n] \in Nat /\ Sums(t)[n] \in Nat /\ s[n + 1] \in Nat /\ t[n + 1] \in Nat
        /\ s[i] \in Nat /\ t[i] \in Nat
    BY <1>0, <1>d, <2>1, SumsAre DEF L
  <2>4. CASE n + 1 < i
    BY <2>1, <2>4
  <2>5. CASE n + 1 = i
    <3>1. ASSUME NEW m \in 1..n PROVE s[m] = t[m]
      <4>1. m \in 1..L /\ m # i
        BY SMTT(20), <1>0, <2>1, <2>5
      <4> QED
        BY <4>1 DEF L
    <3>2. n <= Len(s) /\ n <= Len(t)
      BY SMTT(20), <1>0, <1>d, <2>1 DEF L
    <3>3. Sums(s)[n] = Sums(t)[n]
      BY <3>1, <3>2, SameSums
    <3>5. Sums(t)[n + 1] + s[n + 1] = (Sums(s)[n] + t[n + 1]) + s[n + 1]
      BY <2>2, <3>3
    <3>6. Sums(s)[n + 1] + t[n + 1] = (Sums(s)[n] + s[n + 1]) + t[n + 1]
      BY <2>2
    <3>7. (Sums(s)[n] + t[n + 1]) + s[n + 1] = (Sums(s)[n] + s[n + 1]) + t[n + 1]
      <4> DEFINE a == Sums(s)[n]
                 b == t[n + 1]
                 c == s[n + 1]
      <4>1. a \in Nat /\ b \in Nat /\ c \in Nat
        BY <2>3
      <4> HIDE DEF a, b, c
      <4>2. (a + b) + c = (a + c) + b
        BY SMTT(20), <4>1
      <4> QED
        BY <4>2 DEF a, b, c
    <3> QED
      BY <2>1, <2>5, <3>5, <3>6, <3>7
  <2>6. CASE i < n + 1
    <3>1. ~(n < i) /\ n + 1 # i
      BY SMTT(20), <1>0, <2>6
    <3>2. Sums(t)[n] + s[i] = Sums(s)[n] + t[i]
      BY <1>2, <3>1
    <3>3. t[n + 1] = s[n + 1]
      BY <2>1, <3>1 DEF L
    <3>5. (Sums(t)[n] + s[n + 1]) + s[i] = (Sums(s)[n] + s[n + 1]) + t[i]
      <4> DEFINE a == Sums(t)[n]
                 b == s[i]
                 c == Sums(s)[n]
                 d == t[i]
                 e == s[n + 1]
      <4>1. a \in Nat /\ b \in Nat /\ c \in Nat /\ d \in Nat /\ e \in Nat /\ a + b = c + d
        BY <2>3, <3>2
      <4> HIDE DEF a, b, c, d, e
      <4>2. (a + e) + b = (c + e) + d
        BY SMTT(20), <4>1
      <4> QED
        BY <4>2 DEF a, b, c, d, e
    <3>6. Sums(t)[n + 1] + s[i] = Sums(s)[n + 1] + t[i]
      BY <2>2, <3>3, <3>5
    <3> QED
      BY <2>1, <3>6
  <2> QED
    BY SMTT(20), <1>0, <2>4, <2>5, <2>6
<1>3. \A n \in 0..L : n \in T
  BY <1>0, <1>1, <1>2, UpTo
<1>4. L \in 0..L /\ ~(L < i)
  BY SMTT(20), <1>0
<1>5. Sums(t)[L] + s[i] = Sums(s)[L] + t[i]
  BY <1>3, <1>4
<1> QED
  BY <1>d, <1>5, SumsAre DEF L

-------------------------------------------------------------------------------
\* The reports that each event of a channel accounts for.
Carried(events) == [i \in 1..Len(events) |-> 1 + events[i]]

\* The reports that each task has in its hands.
Hands(tasks) == [r \in Reporters |-> Held(tasks[r])]

TaskRecord == [at : {"idle", "rate", "send", "full"}, now : Nat, before : Nat]

\* The inductive invariant: the types that the sums need.
DenialInv ==
  /\ now \in Nat
  /\ state \in [windowStarted : Nat, emitted : Nat, suppressed : Nat]
  /\ channel \in Seq(Nat) /\ task \in [Reporters -> TaskRecord]
  /\ reported \in Nat /\ delivered \in Nat
  /\ EveryDenialAccounted

\* A channel's events carry numbers.
LEMMA CarriedTotal ==
  ASSUME NEW events \in Seq(Nat)
  PROVE  Carried(events) \in Seq(Nat) /\ Len(Carried(events)) = Len(events) /\ Total(Carried(events)) \in Nat
<1>1. Carried(events) \in Seq(Nat) /\ Len(Carried(events)) = Len(events)
  BY SMTT(20) DEF Carried
<1> QED
  BY <1>1, SumsAre

\* try_send adds an event with what it carries.
LEMMA CarriedMore ==
  ASSUME NEW events \in Seq(Nat), NEW x \in Nat
  PROVE  Append(events, x) \in Seq(Nat) /\ Total(Carried(Append(events, x))) = Total(Carried(events)) + (1 + x)
<1>1. Carried(Append(events, x)) = Append(Carried(events), 1 + x)
  BY SMTT(20) DEF Carried
<1>2. 1 + x \in Nat /\ Append(events, x) \in Seq(Nat)
  BY SMTT(20)
<1> QED
  BY <1>1, <1>2, CarriedTotal, TotalOfLonger

\* The host takes the first event with what it carries.
LEMMA CarriedLess ==
  ASSUME NEW events \in Seq(Nat), events # <<>>
  PROVE  /\ Head(events) \in Nat /\ Tail(events) \in Seq(Nat)
         /\ Total(Carried(events)) = (1 + Head(events)) + Total(Carried(Tail(events)))
<1>1. /\ Head(events) \in Nat /\ Tail(events) \in Seq(Nat) /\ Len(events) \in Nat \ {0}
  BY SMTT(20)
<1>2. Carried(events) # <<>>
  BY SMTT(20), <1>1 DEF Carried
<1>3. Head(Carried(events)) = 1 + Head(events)
  BY SMTT(20), <1>1 DEF Carried
<1>4. Tail(Carried(events)) = Carried(Tail(events))
  BY SMTT(20), <1>1 DEF Carried
<1> QED
  BY <1>1, <1>2, <1>3, <1>4, CarriedTotal, TotalOfTail

\* A task holds a number of reports.
LEMMA HeldIsNat == ASSUME NEW t \in TaskRecord PROVE Held(t) \in Nat
BY SMTT(20) DEF Held, TaskRecord

\* What the tasks hold together is a number.
LEMMA HandsTotal ==
  ASSUME NEW t \in [Reporters -> TaskRecord]
  PROVE  Hands(t) \in Seq(Nat) /\ Len(Hands(t)) = ReporterCount /\ Total(Hands(t)) \in Nat
<1>1. Hands(t) \in [Reporters -> Nat]
  BY HeldIsNat DEF Hands
<1>2. Hands(t) \in Seq(Nat) /\ Len(Hands(t)) = ReporterCount
  BY SMTT(20), <1>1, DiagnosticsAssumption DEF Reporters
<1> QED
  BY <1>2, SumsAre

\* A step of one task changes the sum by what its own task gains or loses.
LEMMA HandsChange ==
  ASSUME NEW t \in [Reporters -> TaskRecord], NEW u \in [Reporters -> TaskRecord], NEW r \in Reporters,
         \A q \in Reporters : q # r => u[q] = t[q]
  PROVE  Total(Hands(u)) + Held(t[r]) = Total(Hands(t)) + Held(u[r])
<1>2. /\ Hands(u)[r] = Held(u[r]) /\ Hands(t)[r] = Held(t[r])
      /\ \A q \in Reporters : q # r => Hands(u)[q] = Hands(t)[q]
  BY DEF Hands
<1>3. /\ Hands(t) \in Seq(Nat) /\ Hands(u) \in Seq(Nat)
      /\ Len(Hands(t)) = ReporterCount /\ Len(Hands(u)) = ReporterCount
  BY HandsTotal
<1>4. r \in 1..Len(Hands(t)) /\ \A q \in 1..Len(Hands(t)) : q # r => Hands(u)[q] = Hands(t)[q]
  BY <1>2, <1>3 DEF Reporters
<1>5. Total(Hands(u)) + Hands(t)[r] = Total(Hands(t)) + Hands(u)[r]
  BY <1>3, <1>4, TotalOfChanged
<1> QED
  BY <1>2, <1>5

\* The account of d delivered, p suppressed, q in the channel and h in the hands
\* of tasks, of n reports.
Account(d, p, q, h, n) ==
  d + (p + q + h) <= n /\ (n <= MaxSuppressed => d + (p + q + h) = n)

\* The property is that account.
LEMMA AccountIsKept ==
  EveryDenialAccounted <=>
    (receiver => Account(delivered, state.suppressed, Total(Carried(channel)), Total(Hands(task)), reported))
BY DEF EveryDenialAccounted, Account, Pending, Carried, Hands

\* A report begins in the hands of its task.
LEMMA AccountReported ==
  \A d, p, q, h, n, g \in Nat : Account(d, p, q, h, n) /\ g + 0 = h + 1 => Account(d, p, q, g, n + 1)
BY SMTT(20), DiagnosticsAssumption DEF Account

\* A report is suppressed; a saturated counter loses it.
LEMMA AccountSuppressed ==
  \A d, p, q, h, n, g \in Nat : Account(d, p, q, h, n) /\ g + 1 = h + 0 => Account(d, SaturatedCount(p + 1), q, g, n)
BY SMTT(20), DiagnosticsAssumption DEF Account, SaturatedCount

\* An event takes the suppressed count with it.
LEMMA AccountEmitted ==
  \A d, p, q, h, n, g \in Nat : Account(d, p, q, h, n) /\ g + 1 = h + (1 + p) => Account(d, 0, q, g, n)
BY SMTT(20), DiagnosticsAssumption DEF Account

\* An event enters the channel.
LEMMA AccountSent ==
  \A d, p, q, h, n, g, b \in Nat : Account(d, p, q, h, n) /\ g + (1 + b) = h + 0 => Account(d, p, q + (1 + b), g, n)
BY SMTT(20), DiagnosticsAssumption DEF Account

\* An event stays in the hands of its task.
LEMMA AccountRefused ==
  \A d, p, q, h, n, g, b \in Nat : Account(d, p, q, h, n) /\ g + (1 + b) = h + (1 + b) => Account(d, p, q, g, n)
BY SMTT(20), DiagnosticsAssumption DEF Account

\* An event that found the channel full is suppressed, with what it carried.
LEMMA AccountRestored ==
  \A d, p, q, h, n, g, b \in Nat : Account(d, p, q, h, n) /\ g + (1 + b) = h + 0 => Account(d, SaturatedCount(SaturatedCount(p + b) + 1), q, g, n)
BY SMTT(20), DiagnosticsAssumption DEF Account, SaturatedCount

\* The host takes an event.
LEMMA AccountReceived ==
  \A d, p, q, h, n, g, b \in Nat : Account(d, p, q, h, n) /\ q = (1 + b) + g => Account(d + 1 + b, p, g, h, n)
BY SMTT(20), DiagnosticsAssumption DEF Account

\* The numbers of the account, and the places a step of task r finds them in.
LEMMA Accounted ==
  ASSUME DenialInv
  PROVE  /\ delivered \in Nat /\ state.suppressed \in Nat /\ Total(Carried(channel)) \in Nat
         /\ Total(Hands(task)) \in Nat /\ reported \in Nat
         /\ receiver => Account(delivered, state.suppressed, Total(Carried(channel)), Total(Hands(task)), reported)
<1>1. state.suppressed \in Nat
  BY DEF DenialInv
<1>2. EveryDenialAccounted /\ delivered \in Nat /\ reported \in Nat
  BY DEF DenialInv
<1>3. Total(Carried(channel)) \in Nat /\ Total(Hands(task)) \in Nat
  BY CarriedTotal, HandsTotal DEF DenialInv
<1> QED
  BY <1>1, <1>2, <1>3, AccountIsKept

\* A saturated count is a number.
LEMMA SaturatedIsNat == ASSUME NEW x \in Nat PROVE SaturatedCount(x) \in Nat
BY DiagnosticsAssumption DEF SaturatedCount

\* What a task holds, by how far it is.
LEMMA HeldIs ==
  ASSUME NEW t \in TaskRecord
  PROVE  /\ Resting \in TaskRecord /\ Held(Resting) = 0
         /\ t.at = "idle" => Held(t) = 0
         /\ t.at = "rate" => Held(t) = 1
         /\ t.at \in {"send", "full"} => Held(t) = 1 + t.before
         /\ t.before \in Nat /\ t.now \in Nat
BY SMTT(20) DEF Held, TaskRecord, Resting

\* A step of task r, as it shows in the account.
LEMMA HandsMove ==
  ASSUME DenialInv, NEW r \in Reporters, NEW x \in TaskRecord, task' = [task EXCEPT ![r] = x]
  PROVE  /\ task' \in [Reporters -> TaskRecord] /\ Total(Hands(task')) \in Nat
         /\ Total(Hands(task')) + Held(task[r]) = Total(Hands(task)) + Held(x)
<1>1. task \in [Reporters -> TaskRecord]
  BY DEF DenialInv
<1>2. task' \in [Reporters -> TaskRecord] /\ task'[r] = x /\ \A q \in Reporters : q # r => task'[q] = task[q]
  BY <1>1
<1>3. Total(Hands(task')) \in Nat
  BY <1>2, HandsTotal
<1>4. Total(Hands(task')) + Held(task[r]) = Total(Hands(task)) + Held(task'[r])
  BY <1>1, <1>2, HandsChange
<1> QED
  BY <1>2, <1>3, <1>4

\* report_at begins.
LEMMA ReportStep ==
  ASSUME DenialInv, NEW r \in Reporters, Report(r)
  PROVE  DenialInv'
<1> DEFINE x == [at |-> "rate", now |-> now, before |-> 0]
<1>1. task[r] \in TaskRecord /\ now \in Nat
  BY DEF DenialInv
<1>2. task' = [task EXCEPT ![r] = x] /\ task[r].at = "idle" /\ reported' = reported + 1
  BY DEF Report
<1>3. UNCHANGED <<now, connected, receiver, state, channel, delivered>>
  BY DEF Report
<1>4. x \in TaskRecord /\ Held(x) = 1
  BY SMTT(20), <1>1 DEF TaskRecord, Held
<1> HIDE DEF x
<1>5. Held(task[r]) = 0
  BY <1>1, <1>2, HeldIs
<1>6. /\ task' \in [Reporters -> TaskRecord] /\ Total(Hands(task')) \in Nat
      /\ Total(Hands(task')) + 0 = Total(Hands(task)) + 1
  BY <1>2, <1>4, <1>5, HandsMove
<1>7. receiver => Account(delivered, state.suppressed, Total(Carried(channel)), Total(Hands(task')), reported + 1)
  BY <1>6, Accounted, AccountReported
<1>8. EveryDenialAccounted'
  BY <1>2, <1>3, <1>7 DEF EveryDenialAccounted, Account, Pending, Carried, Hands
<1>9. reported' \in Nat
  BY SMTT(20), <1>2 DEF DenialInv
<1> QED
  BY <1>3, <1>6, <1>8, <1>9 DEF DenialInv

\* A report that becomes an event with count b.
LEMMA BecomesEvent ==
  ASSUME NEW t \in TaskRecord, NEW b \in Nat
  PROVE  /\ [t EXCEPT !.at = "send", !.before = b] \in TaskRecord
         /\ Held([t EXCEPT !.at = "send", !.before = b]) = 1 + b
<1> DEFINE x == [t EXCEPT !.at = "send", !.before = b]
<1>1. x \in TaskRecord /\ x.at = "send" /\ x.before = b
  BY DEF TaskRecord
<1> HIDE DEF x
<1>2. Held(x) = 1 + b
  BY <1>1, HeldIs
<1> QED
  BY <1>1, <1>2 DEF x

\* The first critical section: the report is suppressed or becomes an event.
LEMMA RateStep ==
  ASSUME DenialInv, NEW r \in Reporters, Rate(r)
  PROVE  DenialInv'
<1> DEFINE s == Window(task[r].now)
<1>1. task[r] \in TaskRecord /\ task[r].now \in Nat /\ state \in [windowStarted : Nat, emitted : Nat, suppressed : Nat]
  BY HeldIs DEF DenialInv
<1>2. s \in [windowStarted : Nat, emitted : Nat, suppressed : Nat] /\ s.suppressed = state.suppressed
  BY <1>1 DEF Window
<1>3. task[r].at = "rate" /\ UNCHANGED <<now, connected, receiver, channel, reported, delivered>>
  BY DEF Rate
<1>4. \/ /\ state' = [s EXCEPT !.suppressed = SaturatedCount(@ + 1)]
         /\ task' = [task EXCEPT ![r] = Resting]
      \/ /\ state' = [s EXCEPT !.emitted = @ + 1, !.suppressed = 0]
         /\ task' = [task EXCEPT ![r].at = "send", ![r].before = s.suppressed]
  BY DEF Rate
<1> HIDE DEF s
<1>5. Held(task[r]) = 1 /\ Resting \in TaskRecord /\ Held(Resting) = 0
  BY <1>1, <1>3, HeldIs
<1>6. /\ state' \in [windowStarted : Nat, emitted : Nat, suppressed : Nat]
      /\ task' \in [Reporters -> TaskRecord]
      /\ receiver => Account(delivered, state'.suppressed, Total(Carried(channel)), Total(Hands(task')), reported)
  <2>1. CASE /\ state' = [s EXCEPT !.suppressed = SaturatedCount(@ + 1)]
             /\ task' = [task EXCEPT ![r] = Resting]
    <3>1. /\ task' \in [Reporters -> TaskRecord] /\ Total(Hands(task')) \in Nat
          /\ Total(Hands(task')) + 1 = Total(Hands(task)) + 0
      BY <1>5, <2>1, HandsMove
    <3>2. s.suppressed + 1 \in Nat
      BY SMTT(20), <1>2
    <3>3. SaturatedCount(s.suppressed + 1) \in Nat
      BY <3>2, SaturatedIsNat
    <3>4. /\ state' \in [windowStarted : Nat, emitted : Nat, suppressed : Nat]
          /\ state'.suppressed = SaturatedCount(state.suppressed + 1)
      BY <1>2, <2>1, <3>3
    <3>5. receiver => Account(delivered, SaturatedCount(state.suppressed + 1), Total(Carried(channel)),
                              Total(Hands(task')), reported)
      BY <3>1, Accounted, AccountSuppressed
    <3> QED
      BY <3>1, <3>4, <3>5
  <2>2. CASE /\ state' = [s EXCEPT !.emitted = @ + 1, !.suppressed = 0]
             /\ task' = [task EXCEPT ![r].at = "send", ![r].before = s.suppressed]
    <3> DEFINE x == [task[r] EXCEPT !.at = "send", !.before = s.suppressed]
    <3>1. task' = [task EXCEPT ![r] = x]
      BY <2>2
    <3>2. x \in TaskRecord /\ Held(x) = 1 + state.suppressed
      BY <1>1, <1>2, BecomesEvent
    <3> HIDE DEF x
    <3>3. /\ task' \in [Reporters -> TaskRecord] /\ Total(Hands(task')) \in Nat
          /\ Total(Hands(task')) + 1 = Total(Hands(task)) + (1 + state.suppressed)
      BY <1>5, <3>1, <3>2, HandsMove
    <3>4. /\ state' \in [windowStarted : Nat, emitted : Nat, suppressed : Nat]
          /\ state'.suppressed = 0
      <4>1. s.emitted + 1 \in Nat /\ 0 \in Nat
        BY SMTT(20), <1>2
      <4> QED
        BY <1>2, <2>2, <4>1
    <3>5. receiver => Account(delivered, 0, Total(Carried(channel)), Total(Hands(task')), reported)
      BY <3>3, Accounted, AccountEmitted
    <3> QED
      BY <3>3, <3>4, <3>5
  <2> QED
    BY <1>4, <2>1, <2>2
<1>7. EveryDenialAccounted'
  BY <1>3, <1>6 DEF EveryDenialAccounted, Account, Pending, Carried, Hands
<1> QED
  BY <1>3, <1>6, <1>7 DEF DenialInv

\* try_send: the event enters the channel, is dropped with it, or is refused.
LEMMA TrySendStep ==
  ASSUME DenialInv, NEW r \in Reporters, TrySend(r)
  PROVE  DenialInv'
<1>1. task[r] \in TaskRecord /\ task[r].before \in Nat /\ channel \in Seq(Nat)
  BY HeldIs DEF DenialInv
<1>2. task[r].at = "send" /\ UNCHANGED <<now, receiver, state, reported, delivered>>
  BY DEF TrySend
<1>3. Held(task[r]) = 1 + task[r].before /\ Resting \in TaskRecord /\ Held(Resting) = 0
  BY <1>1, <1>2, HeldIs
<1>4. \/ channel' = Append(channel, task[r].before) /\ task' = [task EXCEPT ![r] = Resting]
      \/ ~receiver /\ task' = [task EXCEPT ![r] = Resting] /\ channel' = channel
      \/ task' = [task EXCEPT ![r].at = "full"] /\ channel' = channel
  BY DEF TrySend
<1>5. /\ channel' \in Seq(Nat) /\ task' \in [Reporters -> TaskRecord]
      /\ receiver => Account(delivered, state.suppressed, Total(Carried(channel')), Total(Hands(task')), reported)
  <2>1. CASE channel' = Append(channel, task[r].before) /\ task' = [task EXCEPT ![r] = Resting]
    <3>1. /\ task' \in [Reporters -> TaskRecord] /\ Total(Hands(task')) \in Nat
          /\ Total(Hands(task')) + (1 + task[r].before) = Total(Hands(task)) + 0
      BY <1>3, <2>1, HandsMove
    <3>2. channel' \in Seq(Nat) /\ Total(Carried(channel')) = Total(Carried(channel)) + (1 + task[r].before)
      BY <1>1, <2>1, CarriedMore
    <3>3. receiver => Account(delivered, state.suppressed, Total(Carried(channel)) + (1 + task[r].before),
                              Total(Hands(task')), reported)
      BY <1>1, <3>1, Accounted, AccountSent
    <3> QED
      BY <3>1, <3>2, <3>3
  <2>2. CASE ~receiver /\ task' = [task EXCEPT ![r] = Resting] /\ channel' = channel
    BY <1>1, <1>3, <2>2, HandsMove
  <2>3. CASE task' = [task EXCEPT ![r].at = "full"] /\ channel' = channel
    <3> DEFINE x == [task[r] EXCEPT !.at = "full"]
    <3>1. task' = [task EXCEPT ![r] = x]
      BY <2>3
    <3>2. x \in TaskRecord /\ x.at = "full" /\ x.before = task[r].before
      BY <1>1 DEF TaskRecord
    <3> HIDE DEF x
    <3>3. Held(x) = 1 + task[r].before
      BY <3>2, HeldIs
    <3>4. /\ task' \in [Reporters -> TaskRecord] /\ Total(Hands(task')) \in Nat
          /\ Total(Hands(task')) + (1 + task[r].before) = Total(Hands(task)) + (1 + task[r].before)
      BY <1>3, <3>1, <3>2, <3>3, HandsMove
    <3>5. receiver => Account(delivered, state.suppressed, Total(Carried(channel)), Total(Hands(task')), reported)
      BY <1>1, <3>4, Accounted, AccountRefused
    <3> QED
      BY <1>1, <2>3, <3>4, <3>5
  <2> QED
    BY <1>4, <2>1, <2>2, <2>3
<1>6. EveryDenialAccounted'
  BY <1>2, <1>5 DEF EveryDenialAccounted, Account, Pending, Carried, Hands
<1> QED
  BY <1>2, <1>5, <1>6 DEF DenialInv

\* The second critical section: the count that the event took comes back.
LEMMA ChannelFullStep ==
  ASSUME DenialInv, NEW r \in Reporters, ChannelFull(r)
  PROVE  DenialInv'
<1> DEFINE b == task[r].before
           p == SaturatedCount(SaturatedCount(state.suppressed + b) + 1)
<1>1. task[r] \in TaskRecord /\ b \in Nat /\ state \in [windowStarted : Nat, emitted : Nat, suppressed : Nat]
  BY HeldIs DEF DenialInv
<1>2. /\ task[r].at = "full" /\ state' = [state EXCEPT !.suppressed = p] /\ task' = [task EXCEPT ![r] = Resting]
      /\ UNCHANGED <<now, connected, receiver, channel, reported, delivered>>
  BY DEF ChannelFull
<1>3. Held(task[r]) = 1 + b /\ Resting \in TaskRecord /\ Held(Resting) = 0
  BY <1>1, <1>2, HeldIs
<1>4. /\ task' \in [Reporters -> TaskRecord] /\ Total(Hands(task')) \in Nat
      /\ Total(Hands(task')) + (1 + b) = Total(Hands(task)) + 0
  BY <1>2, <1>3, HandsMove
<1>5. receiver => Account(delivered, p, Total(Carried(channel)), Total(Hands(task')), reported)
  BY <1>1, <1>4, Accounted, AccountRestored
<1>6. p \in Nat
  <2>1. state.suppressed \in Nat
    BY <1>1
  <2>2. \A i, j \in Nat : i + j \in Nat /\ i + 1 \in Nat
    BY SMTT(20)
  <2> QED
    BY <1>1, <2>1, <2>2, SaturatedIsNat
<1> HIDE DEF b, p
<1>7. state' \in [windowStarted : Nat, emitted : Nat, suppressed : Nat] /\ state'.suppressed = p
  BY <1>1, <1>2, <1>6
<1>8. EveryDenialAccounted'
  BY <1>2, <1>5, <1>7 DEF EveryDenialAccounted, Account, Pending, Carried, Hands
<1> QED
  BY <1>2, <1>4, <1>7, <1>8 DEF DenialInv

\* The host takes an event.
LEMMA ReceiveStep ==
  ASSUME DenialInv, ReceiveEvent
  PROVE  DenialInv'
<1>1. /\ channel # <<>> /\ channel' = Tail(channel) /\ delivered' = delivered + 1 + Head(channel)
      /\ UNCHANGED <<now, connected, receiver, state, task, reported>>
  BY DEF ReceiveEvent
<1>2. channel \in Seq(Nat) /\ delivered \in Nat
  BY DEF DenialInv
<1>3. /\ Head(channel) \in Nat /\ Tail(channel) \in Seq(Nat)
      /\ Total(Carried(channel)) = (1 + Head(channel)) + Total(Carried(Tail(channel)))
  BY <1>1, <1>2, CarriedLess
<1>4. Total(Carried(Tail(channel))) \in Nat
  BY <1>3, CarriedTotal
<1>5. receiver => Account(delivered + 1 + Head(channel), state.suppressed, Total(Carried(Tail(channel))),
                          Total(Hands(task)), reported)
  BY <1>3, <1>4, Accounted, AccountReceived
<1>6. delivered' \in Nat
  <2>1. \A i, j \in Nat : i + 1 + j \in Nat
    BY SMTT(20)
  <2> QED
    BY <1>1, <1>2, <1>3, <2>1
<1>7. EveryDenialAccounted'
  BY <1>1, <1>5 DEF EveryDenialAccounted, Account, Pending, Carried, Hands
<1> QED
  BY <1>1, <1>3, <1>6, <1>7 DEF DenialInv

\* The account is kept, with the types that its sums need: every reporter, any
\* number of them, the window, the channel and the host only move a report.
THEOREM DenialInvariant == DiagnosticsSpec => []DenialInv
<1>1. DiagnosticsInit => DenialInv
  <2> SUFFICES ASSUME DiagnosticsInit PROVE DenialInv
    OBVIOUS
  <2>1. /\ now = 0 /\ state = [windowStarted |-> 0, emitted |-> 0, suppressed |-> 0] /\ channel = <<>>
        /\ task = [r \in Reporters |-> Resting] /\ reported = 0 /\ delivered = 0
    BY DEF DiagnosticsInit
  <2>2. Resting \in TaskRecord /\ Held(Resting) = 0 /\ 0 \in Nat /\ <<>> \in Seq(Nat) /\ Carried(<<>>) = <<>>
    BY SMTT(20) DEF Resting, TaskRecord, Held, Carried
  <2>3. task \in [Reporters -> TaskRecord]
    BY <2>1, <2>2
  <2>4. Total(Hands(task)) = 0
    <3> DEFINE T == {n \in Nat : Sums(Hands(task))[n] = 0}
    <3>1. Hands(task) \in Seq(Nat) /\ Len(Hands(task)) = ReporterCount
      BY <2>3, HandsTotal
    <3>2. \A r \in 1..ReporterCount : Hands(task)[r] = 0
      BY <2>1, <2>2 DEF Hands, Reporters
    <3>3. 0 \in T
      BY <2>2, <3>1, SumsAre
    <3>4. ASSUME NEW n \in Nat, n < ReporterCount, n \in T PROVE n + 1 \in T
      <4>1. n + 1 \in 1..ReporterCount /\ n + 1 \in Nat /\ (n + 1) - 1 = n /\ 0 + 0 = 0
        BY SMTT(20), <3>4, DiagnosticsAssumption
      <4>2. Sums(Hands(task))[n + 1] = Sums(Hands(task))[n] + Hands(task)[n + 1]
        BY <3>1, <4>1, SumsAre
      <4> QED
        BY <3>2, <3>4, <4>1, <4>2
    <3>5. ReporterCount \in Nat /\ ReporterCount \in 0..ReporterCount
      BY SMTT(20), DiagnosticsAssumption
    <3>6. \A n \in 0..ReporterCount : n \in T
      BY <3>3, <3>4, <3>5, UpTo
    <3> QED
      BY <3>1, <3>5, <3>6, SumsAre
  <2>5. Account(0, 0, 0, 0, 0)
    BY SMTT(20) DEF Account
  <2>6. EveryDenialAccounted
    BY <2>1, <2>2, <2>4, <2>5, TotalOfNone, AccountIsKept
  <2>7. state \in [windowStarted : Nat, emitted : Nat, suppressed : Nat]
    BY <2>1, <2>2
  <2> QED
    BY <2>1, <2>2, <2>3, <2>6, <2>7 DEF DenialInv
<1>2. DenialInv /\ [DiagnosticsNext]_diagnosticsVars => DenialInv'
  <2> SUFFICES ASSUME DenialInv, [DiagnosticsNext]_diagnosticsVars PROVE DenialInv'
    OBVIOUS
  <2>1. CASE DiagnosticsTick
    <3>1. UNCHANGED <<connected, receiver, state, channel, task, reported, delivered>> /\ now' = now + 1
      BY <2>1 DEF DiagnosticsTick, Advance
    <3>2. now' \in Nat
      BY SMTT(20), <3>1 DEF DenialInv
    <3> QED
      BY <3>1, <3>2 DEF DenialInv, EveryDenialAccounted, Pending
  <2>2. CASE ReceiveEvent
    BY <2>2, ReceiveStep
  <2>3. CASE Disconnect
    <3>1. receiver' = FALSE /\ channel' = <<>> /\ UNCHANGED <<now, state, task, reported, delivered>>
      BY <2>3 DEF Disconnect
    <3>2. <<>> \in Seq(Nat)
      BY SMTT(20)
    <3> QED
      BY <3>1, <3>2 DEF DenialInv, EveryDenialAccounted
  <2>4. ASSUME NEW r \in Reporters, Report(r) \/ Rate(r) \/ TrySend(r) \/ ChannelFull(r) PROVE DenialInv'
    BY <2>4, ReportStep, RateStep, TrySendStep, ChannelFullStep
  <2>5. CASE UNCHANGED diagnosticsVars
    BY <2>5 DEF DenialInv, EveryDenialAccounted, Pending, diagnosticsVars
  <2> QED
    BY <2>1, <2>2, <2>3, <2>4, <2>5 DEF DiagnosticsNext
<1> QED
  BY <1>1, <1>2, PTL DEF DiagnosticsSpec

\* While the host listens, every denial reported is an event or in the count of
\* one, whatever the number of reporters, the capacity, the rate and the window.
THEOREM EveryDenialIsAccounted == DiagnosticsSpec => []EveryDenialAccounted
<1>1. DenialInv => EveryDenialAccounted
  BY DEF DenialInv
<1> QED
  BY <1>1, DenialInvariant, PTL

===============================================================================
