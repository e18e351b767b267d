-------------------------------- MODULE Tunnel --------------------------------
(***************************************************************************)
(* The bytes of one connection: what arrived behind the CONNECT header,    *)
(* the inspected ClientHello, and the tunnel both ways through Metered     *)
(* streams (limits, usage counters, activity), watched by                  *)
(* wait_for_tunnel_idle.  An optional value is a set of at most one.       *)
(***************************************************************************)
EXTENDS Clock, Integers, FiniteSets, FiniteSetsExt

CONSTANTS
  UploadLimits, DownloadLimits,  \* the optional byte limits of the policy
  IdleTimeouts,                  \* its optional idle timeout
  MaxClientHello,                \* max_client_hello_bytes
  BufSize,                       \* one read of the copy loop, or of the inspection
  MaxBuffered,                   \* bound: bytes behind the header
  MaxBytes,                      \* bound: bytes read in one direction
  MaxInstant,                    \* the last representable instant
  Silence                        \* bound: the peers send nothing after it

Optional(s) == \A x \in s : x \in Nat /\ s = {x}

ASSUME TunnelAssumption ==
  /\ \A s \in UploadLimits \cup DownloadLimits \cup IdleTimeouts : Optional(s)
  /\ {MaxClientHello, BufSize, MaxBuffered, MaxBytes, MaxInstant, MaxTime, Silence} \subseteq Nat

VARIABLES
  phase,      \* "buffered", "inspect", "forward", "copy", or how it ended
  policy,     \* limits, idle timeout, and whether TLS authority is required
  meter,      \* per direction: transferred, as the Metered stream knows it
  counters,   \* per direction: the lease's usage counter
  pending,    \* per direction: bytes read and not yet written to the other side
  forwarded,  \* per direction: bytes written to the other side
  eof,        \* per direction: end of stream seen
  activity,   \* the watch channel: last stamp, and whether it has changed
  wake,       \* the idle watcher's deadline, none when it is not representable
  last        \* history: when the tunnel last opened or received anything

vars == <<now, phase, policy, meter, counters, pending, forwarded, eof, activity, wake, last>>

Ways == {"up", "down"}

Zero == [w \in Ways |-> 0]

\* The header has been parsed; some upload may already have been read with it.
Init ==
  /\ now = 0 /\ last = 0
  /\ phase = "buffered"
  /\ \E u \in UploadLimits, d \in DownloadLimits, i \in IdleTimeouts, tls \in BOOLEAN :
       policy = [limit |-> [w \in Ways |-> IF w = "up" THEN u ELSE d], idle |-> i, tls |-> tls]
  /\ \E b \in 0..MaxBuffered : pending = [Zero EXCEPT !["up"] = b]
  /\ meter = Zero /\ counters = Zero /\ forwarded = Zero
  /\ eof = [w \in Ways |-> FALSE]
  /\ activity = [stamp |-> 0, changed |-> FALSE] /\ wake = {}

Ended == {"upload-limit", "rejected", "transfer-limit", "idle", "completed", "failed"}

Tick ==
  /\ Advance /\ phase \notin Ended
  /\ UNCHANGED <<phase, policy, meter, counters, pending, forwarded, eof, activity, wake, last>>

Exceeds(limit, bytes) == \E l \in limit : bytes > l

End(how) == phase' = how /\ UNCHANGED <<now, policy, forwarded, eof, activity, wake, last>>

\* Mutant of Buffered: the bytes are counted and not charged to the limit.
BufferedUncharged ==
  /\ phase = "buffered"
  /\ counters' = [counters EXCEPT !["up"] = @ + pending["up"]]
  /\ UNCHANGED <<meter, pending>>
  /\ IF Exceeds(policy.limit["up"], pending["up"]) THEN End("upload-limit")
     ELSE /\ phase' = IF policy.tls THEN "inspect" ELSE "forward"
          /\ UNCHANGED <<now, policy, forwarded, eof, activity, wake, last>>

\* Mutant of Buffered: the inspection counts its first bytes, the other path not.
BufferedUncounted ==
  /\ phase = "buffered"
  /\ counters' = IF policy.tls THEN [counters EXCEPT !["up"] = @ + pending["up"]] ELSE counters
  /\ meter' = [meter EXCEPT !["up"] = pending["up"]]
  /\ pending' = pending
  /\ IF Exceeds(policy.limit["up"], pending["up"]) THEN End("upload-limit")
     ELSE /\ phase' = IF policy.tls THEN "inspect" ELSE "forward"
          /\ UNCHANGED <<now, policy, forwarded, eof, activity, wake, last>>

\* serve_connect refuses more than the limit; then the bytes are counted once and
\* either forwarded or handed to the inspection, whose meter starts with them.
Buffered ==
  /\ phase = "buffered"
  /\ counters' = [counters EXCEPT !["up"] = @ + pending["up"]]
  /\ meter' = [meter EXCEPT !["up"] = pending["up"]]
  /\ pending' = pending
  /\ IF Exceeds(policy.limit["up"], pending["up"]) THEN End("upload-limit")
     ELSE /\ phase' = IF policy.tls THEN "inspect" ELSE "forward"
          /\ UNCHANGED <<now, policy, forwarded, eof, activity, wake, last>>

MaxHello == Min(policy.limit["up"] \cup {MaxClientHello})

\* read_client_hello: a complete hello is accepted or rejected; an incomplete one
\* is rejected at the cap, at the end of the stream and on a read error.
InspectDone ==
  /\ phase = "inspect"
  /\ \/ pending["up"] > 0 /\ pending["up"] <= MaxHello /\ phase' = "forward"
        /\ UNCHANGED <<now, policy, forwarded, eof, activity, wake, last>>
     \/ End("rejected")
  /\ UNCHANGED <<meter, counters, pending>>

\* Metered::poll_read of n bytes: counted, then compared with the limit.
Meter(w, n) ==
  /\ meter' = [meter EXCEPT ![w] = @ + n]
  /\ counters' = [counters EXCEPT ![w] = @ + n]

InspectRead ==
  /\ phase = "inspect" /\ pending["up"] < MaxHello
  /\ \E n \in 1..Min({BufSize, MaxHello - pending["up"]}) :
       Meter("up", n) /\ pending' = [pending EXCEPT !["up"] = @ + n]
  /\ UNCHANGED <<now, phase, policy, forwarded, eof, activity, wake, last>>

\* The idle watcher's next deadline, if the clock can represent it.
Deadline(stamp) == {stamp + i : i \in {j \in policy.idle : stamp + j <= MaxInstant}}

\* The first upload is written and the tunnel opens, its activity channel
\* stamped and its watcher reading that stamp.
Forward ==
  /\ phase = "forward" /\ phase' = "copy"
  /\ forwarded' = [forwarded EXCEPT !["up"] = @ + pending["up"]]
  /\ pending' = [pending EXCEPT !["up"] = 0]
  /\ activity' = [stamp |-> now, changed |-> FALSE] /\ last' = now
  /\ wake' = Deadline(now)
  /\ UNCHANGED <<now, policy, meter, counters, eof>>

\* The first write fails or times out.
ForwardFailed == phase = "forward" /\ End("rejected") /\ UNCHANGED <<meter, counters, pending>>

\* A read is cut to what is left of the limit, unless nothing is left: then it
\* is whole, and any byte is one too many.
Room(w) ==
  LET left == {l - meter[w] : l \in {m \in policy.limit[w] : m > meter[w]}}
  IN  Min(left \cup {BufSize - pending[w]})

OverLimit(w, bytes) == Exceeds(policy.limit[w], bytes)

\* Mutant of Stamp: downloads are no activity.
StampUpload(w) ==
  activity' = IF w = "up" THEN [stamp |-> now, changed |-> TRUE] ELSE activity

Stamp(w) == activity' = [stamp |-> now, changed |-> TRUE]

\* The copy loop reads n > 0 bytes from one side.
Read(w) ==
  /\ phase = "copy" /\ ~eof[w] /\ pending[w] < BufSize /\ now <= Silence
  /\ \E n \in 1..Room(w) :
       /\ meter[w] + n <= MaxBytes
       /\ Meter(w, n) /\ Stamp(w) /\ last' = now
       /\ IF OverLimit(w, meter[w] + n) THEN phase' = "transfer-limit" /\ pending' = pending
          ELSE phase' = phase /\ pending' = [pending EXCEPT ![w] = @ + n]
  /\ UNCHANGED <<now, policy, forwarded, eof, wake>>

Eof(w) ==
  /\ phase = "copy" /\ ~eof[w] /\ pending[w] < BufSize
  /\ eof' = [eof EXCEPT ![w] = TRUE]
  /\ UNCHANGED <<now, phase, policy, meter, counters, pending, forwarded, activity, wake, last>>

Write(w) ==
  /\ phase = "copy" /\ pending[w] > 0
  /\ \E n \in 1..pending[w] :
       /\ pending' = [pending EXCEPT ![w] = @ - n]
       /\ forwarded' = [forwarded EXCEPT ![w] = @ + n]
  /\ UNCHANGED <<now, phase, policy, meter, counters, eof, activity, wake, last>>

\* Both directions have ended and are written out, or a stream fails.
CopyEnds ==
  /\ phase = "copy"
  /\ \/ (\A w \in Ways : eof[w] /\ pending[w] = 0) /\ End("completed")
     \/ End("failed")
  /\ UNCHANGED <<meter, counters, pending>>

\* Mutant of IdleWake: traffic disarms the watcher.
IdleWakeOnce ==
  /\ phase = "copy" /\ policy.idle # {}
  /\ IF wake = {} THEN activity.changed ELSE \A t \in wake : now >= t
  /\ IF activity.changed
     THEN activity' = [activity EXCEPT !.changed = FALSE] /\ wake' = {} /\ phase' = phase
     ELSE phase' = "idle" /\ UNCHANGED <<activity, wake>>
  /\ UNCHANGED <<now, policy, meter, counters, pending, forwarded, eof, last>>

\* wait_for_tunnel_idle wakes at its deadline, or, without one, on traffic.
IdleWake ==
  /\ phase = "copy" /\ policy.idle # {}
  /\ IF wake = {} THEN activity.changed ELSE \A t \in wake : now >= t
  /\ IF activity.changed
     THEN /\ activity' = [activity EXCEPT !.changed = FALSE]
          /\ wake' = Deadline(activity.stamp)
          /\ phase' = phase
     ELSE phase' = "idle" /\ UNCHANGED <<activity, wake>>
  /\ UNCHANGED <<now, policy, meter, counters, pending, forwarded, eof, last>>

Next ==
  \/ Tick \/ Buffered \/ InspectDone \/ InspectRead \/ Forward \/ ForwardFailed
  \/ (\E w \in Ways : Read(w) \/ Eof(w) \/ Write(w))
  \/ CopyEnds \/ IdleWake

Spec == Init /\ [][Next]_vars

-------------------------------------------------------------------------------

\* The other side never receives more than the policy's limit, whatever part of
\* it came behind the header, with the ClientHello or through the tunnel.
ForwardedWithinLimit ==
  \A w \in Ways :
    ~Exceeds(policy.limit[w], forwarded[w]) /\
    (phase = "copy" => ~Exceeds(policy.limit[w], forwarded[w] + pending[w]))

\* Usage counts every byte once: until a limit ends the tunnel it is exactly what
\* has been forwarded or waits to be, and never less.
UsageIsTraffic ==
  \A w \in Ways :
    phase # "buffered" =>
      /\ forwarded[w] + pending[w] <= counters[w]
      /\ phase # "transfer-limit" => counters[w] = forwarded[w] + pending[w]

\* A stream that carries exactly its limit completes: only a byte beyond the
\* limit ends a tunnel as over it.
LimitDenialIsJust ==
  phase = "transfer-limit" => \E w \in Ways : Exceeds(policy.limit[w], counters[w])

\* A limit is exact in both directions: not a byte beyond it is forwarded, and no
\* tunnel ends for it with a byte less (poll_read of Metered, copy_upload).
LimitIsExact == ForwardedWithinLimit /\ LimitDenialIsJust

\* A tunnel ends as idle only when neither side sent anything for the whole idle
\* timeout, traffic that raced the watcher included.
IdleDenialIsJust ==
  phase = "idle" => \A i \in policy.idle : now - last >= i

FairSpec == Spec /\ WF_vars(Tick) /\ WF_vars(IdleWake) /\ WF_vars(Buffered) /\ WF_vars(Forward)

\* With an idle timeout the clock can represent, a tunnel whose peers fall silent
\* ends, without their help and without a limit.
SilentTunnelEnds ==
  phase = "copy" /\ now <= Silence /\ (\E i \in policy.idle : Silence + i <= MaxInstant)
    ~> phase \in Ended

===============================================================================
