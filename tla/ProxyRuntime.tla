----------------------------- MODULE ProxyRuntime -----------------------------
(***************************************************************************)
(* The shared proxy of proxy.rs: host threads that call Proxy and Lease,   *)
(* the command channel, the listener-owner task `run_proxy`, and the tasks *)
(* it spawns (connections, close waiters, reapers).  A step ends wherever  *)
(* another thread can get in between and make a difference: at the locks,  *)
(* channel operations and awaits of the code.                              *)
(***************************************************************************)
EXTENDS LeaseState, AcceptBackoff, Sequences

CONSTANTS
  MaxLeaseId,           \* stands for u64::MAX in the lease sequence
  MaxLeaseConnections,  \* Policy::max_connections
  MaxConnections,       \* ProxyConfig::max_connections
  AcceptDrainBatch,     \* ACCEPT_DRAIN_BATCH
  RateLimited,          \* a connection-attempt rate is configured
  Addresses,            \* spellings of attachable peer addresses
  Identities,           \* their canonical identities
  NoIdentity,
  Canonical,            \* PeerIdentity::canonical, Addresses -> Identities
  Peer,                 \* the source address of each socket, Conns -> Addresses
  MaxCloses,            \* bound: close calls per lease
  MaxShutdowns,         \* bound: shutdown calls
  MaxAcceptErrors,      \* bound: listener errors
  DropsProxy            \* whether the host may drop the proxy without shutdown

ASSUME AddressAssumption ==
  /\ Canonical \in [Addresses -> Identities] /\ Peer \in [Conns -> Addresses]
  /\ NoIdentity \notin Identities

ASSUME LimitAssumption ==
  /\ MaxLeaseId \in Nat \ {0} /\ AcceptDrainBatch \in Nat \ {0}
  /\ MaxLeaseConnections \in Nat /\ MaxConnections \in Nat
  /\ RateLimited \in BOOLEAN /\ DropsProxy \in BOOLEAN

ASSUME BoundAssumption ==
  MaxCloses \in Nat /\ MaxShutdowns \in Nat /\ MaxAcceptErrors \in Nat

ASSUME FiniteAssumption == IsFiniteSet(Conns)

VARIABLES
  lease,          \* LeaseState of every lease, as attach will create it
  nextLeaseId,    \* Proxy::next_lease_id
  handle,         \* per lease: its owner's progress, identity, close calls and
                  \* the FinalUsage a close has returned ({} until then)
  proxy,          \* the progress of the Proxy's owner, and shutdown calls made
  commands,       \* the unbounded command channel
  backlog,        \* the listener's accept queue
  registry,       \* `leases` of run_proxy: identity -> lease, 0 when absent
  stopping,       \* `stopping` of run_proxy
  backoff,        \* `accept_backoff` of run_proxy
  errors,         \* listener errors so far
  loop,           \* run_proxy: control point, command in service, sockets taken
                  \* by this drain_ready, leases a shutdown has yet to reach
  conn,           \* per socket: progress, lease it was admitted under, and two
                  \* history fields, see Connect
  globalPermits,  \* sockets that hold a process-wide permit
  waiter          \* per task that quiesces a lease: progress, generation read
                  \* before the quiet period, FinalUsage held, and a history
                  \* field: no refusal was counted since `before` was read

hostVars == <<nextLeaseId, handle, proxy>>
ownerVars == <<registry, stopping, backoff, errors, loop>>
taskVars == <<conn, globalPermits, waiter>>
vars == <<lease, hostVars, commands, backlog, ownerVars, taskVars>>

Leases == 1..(MaxLeaseId - 1)

\* <<l, n>> is the waiter of the n-th close of l, <<l, 0>> the reaper of l.
Waiters == Leases \X (0..MaxCloses)

\* `n` is the close or shutdown attempt (0: the best-effort shutdown of
\* Proxy::drop), or with `lease` the waiter that asks for a drain.
Command(kind, l, n) == [kind |-> kind, lease |-> l, n |-> n]

NoCommand == Command("None", 0, 0)

IdleWaiter(at) == [at |-> at, before |-> 0, final |-> {}, quiet |-> FALSE]

GoneSocket(at) == [at |-> at, lease |-> 0, born |-> 0, late |-> FALSE]

\* run_proxy has reported its endpoint and entered its loop.
Init ==
  /\ lease = [l \in Leases |-> NewLease]
  /\ nextLeaseId = 1
  /\ handle = [l \in Leases |->
       [at |-> "unborn", identity |-> NoIdentity, closes |-> 0, certificate |-> {}]]
  /\ proxy = [at |-> "held", shutdowns |-> 0]
  /\ commands = <<>> /\ backlog = <<>>
  /\ registry = [i \in Identities |-> 0]
  /\ stopping = FALSE /\ backoff = NoBackoff /\ errors = 0
  /\ loop = [at |-> "select", cur |-> NoCommand, batch |-> 0, todo |-> {}]
  /\ conn = [c \in Conns |-> GoneSocket("away")]
  /\ globalPermits = {}
  /\ waiter = [w \in Waiters |-> IdleWaiter("none")]

-------------------------------------------------------------------------------
(***************************************************************************)
(* Peers and host threads.                                                 *)
(***************************************************************************)

Running == loop.at # "exited"

\* Sending on the command channel fails once run_proxy has returned.
Send(command) == commands' = IF Running THEN Append(commands, command) ELSE commands

\* leases.get: the lease registered for a socket's source address, 0 if none.
Target(c) == registry[Canonical[Peer[c]]]

\* A peer's connection reaches the accept queue.  History: the lease sequence
\* at that moment, and whether a revoked lease then held the peer's identity.
Connect(c) ==
  /\ Running /\ conn[c].at = "away"
  /\ conn' = [conn EXCEPT ![c] =
       [at |-> "queued", lease |-> 0, born |-> nextLeaseId,
        late |-> Target(c) # 0 /\ lease[Target(c)].phase # "Open"]]
  /\ backlog' = Append(backlog, c)
  /\ UNCHANGED <<lease, hostVars, commands, ownerVars, globalPermits, waiter>>

\* Proxy::attach takes a sequence number (an exhausted sequence is refused) and
\* sends its command; it returns in the step that answers the command.
AttachCall(a) ==
  /\ proxy.at = "held" /\ nextLeaseId < MaxLeaseId
  /\ nextLeaseId' = nextLeaseId + 1
  /\ handle' = [handle EXCEPT ![nextLeaseId].at = "attaching",
                              ![nextLeaseId].identity = Canonical[a]]
  /\ Send(Command("Attach", nextLeaseId, 0))
  /\ UNCHANGED <<lease, proxy, backlog, ownerVars, taskVars>>

\* Lease::take_closed_usage on a closed lease: the caller gets the frozen
\* counters and the handle is consumed.
TakeClosedUsage(l) ==
  handle' = [handle EXCEPT ![l].at = "gone", ![l].certificate = {lease[l].usage}]

\* Mutant of RuntimeStoppedOrClosed: the phase is not rechecked.
RuntimeStoppedUnchecked(l) == TakeClosedUsage(l)

\* Lease::runtime_stopped_or_closed.
RuntimeStoppedOrClosed(l) ==
  \/ IsClosed(lease[l]) /\ TakeClosedUsage(l)
  \/ ~IsClosed(lease[l]) /\ handle' = [handle EXCEPT ![l].at = "held"]

\* Lease::close: a closed lease is answered locally, any other is revoked.  (Two
\* critical sections in the code; whatever comes between them could as well
\* come before or after both.)
CloseBegin(l) ==
  /\ handle[l].at = "held" /\ handle[l].closes < MaxCloses
  /\ \/ IsClosed(lease[l]) /\ TakeClosedUsage(l) /\ UNCHANGED lease
     \/ /\ ~IsClosed(lease[l])
        /\ lease' = [lease EXCEPT ![l] = BeginClose(@)]
        /\ handle' = [handle EXCEPT ![l].at = "sending", ![l].closes = @ + 1]
  /\ UNCHANGED <<nextLeaseId, proxy, commands, backlog, ownerVars, taskVars>>

CloseSend(l) ==
  /\ handle[l].at = "sending"
  /\ Send(Command("Close", l, handle[l].closes))
  /\ \/ Running /\ handle' = [handle EXCEPT ![l].at = "waiting"]
     \/ ~Running /\ RuntimeStoppedOrClosed(l)
  /\ UNCHANGED <<lease, nextLeaseId, proxy, backlog, ownerVars, taskVars>>

\* The waiter whose reply the current close call listens to.
Current(l) == <<l, handle[l].closes>>

Failures == {"deadline", "listener", "stopped"}

\* Lease::close receives Ok(usage): mark_closed is its commit point.
CloseCommit(l) ==
  /\ handle[l].at = "waiting" /\ waiter[Current(l)].at = "ok"
  /\ lease' = [lease EXCEPT ![l] = MarkClosed(@)]
  /\ handle' = [handle EXCEPT ![l].at = "releasing",
                              ![l].certificate = waiter[Current(l)].final]
  /\ waiter' = [waiter EXCEPT ![Current(l)] = IdleWaiter("done")]
  /\ UNCHANGED <<nextLeaseId, proxy, commands, backlog, ownerVars, conn, globalPermits>>

CloseRelease(l) ==
  /\ handle[l].at = "releasing"
  /\ Send(Command("Release", l, 0))
  /\ handle' = [handle EXCEPT ![l].at = "gone"]
  /\ UNCHANGED <<lease, nextLeaseId, proxy, backlog, ownerVars, taskVars>>

\* Lease::close receives Err(kind): the lease goes back to its owner.
CloseFail(l) ==
  /\ handle[l].at = "waiting" /\ waiter[Current(l)].at \in Failures
  /\ handle' = [handle EXCEPT ![l].at = "held"]
  /\ waiter' = [waiter EXCEPT ![Current(l)] = IdleWaiter("done")]
  /\ UNCHANGED <<lease, nextLeaseId, proxy, commands, backlog, ownerVars, conn, globalPermits>>

\* Lease::close gives up at its deadline; a reply sent after its last look at the
\* channel is lost.
CloseTimeout(l) ==
  /\ handle[l].at = "waiting"
  /\ handle' = [handle EXCEPT ![l].at = "held"]
  /\ waiter' = [waiter EXCEPT ![Current(l)] =
       IF @.at \in Failures \cup {"ok"} THEN IdleWaiter("done") ELSE @]
  /\ UNCHANGED <<lease, nextLeaseId, proxy, commands, backlog, ownerVars, conn, globalPermits>>

\* The reply sender was dropped: with the command channel, or with the task.
CloseDisconnected(l) ==
  /\ handle[l].at = "waiting" /\ ~Running /\ waiter[Current(l)].at \in {"none", "done"}
  /\ RuntimeStoppedOrClosed(l)
  /\ UNCHANGED <<lease, nextLeaseId, proxy, commands, backlog, ownerVars, taskVars>>

\* Lease::drop revokes, then sends.
DropBegin(l) ==
  /\ handle[l].at = "held"
  /\ lease' = [lease EXCEPT ![l] = BeginClose(@)]
  /\ handle' = [handle EXCEPT ![l].at = "dropping"]
  /\ UNCHANGED <<nextLeaseId, proxy, commands, backlog, ownerVars, taskVars>>

DropSend(l) ==
  /\ handle[l].at = "dropping"
  /\ Send(Command("Reap", l, 0))
  /\ handle' = [handle EXCEPT ![l].at = "gone"]
  /\ UNCHANGED <<lease, nextLeaseId, proxy, backlog, ownerVars, taskVars>>

\* attach borrows the proxy, so none is in flight when shutdown or drop takes it.
ProxyIdle == proxy.at = "held" /\ \A l \in Leases : handle[l].at # "attaching"

\* Proxy::shutdown sends its command and waits on the rendezvous channel.
ShutdownCall ==
  /\ ProxyIdle /\ proxy.shutdowns < MaxShutdowns
  /\ proxy' = [at |-> "waiting", shutdowns |-> proxy.shutdowns + 1]
  /\ Send(Command("Shutdown", 0, proxy.shutdowns + 1))
  /\ UNCHANGED <<lease, nextLeaseId, handle, backlog, ownerVars, taskVars>>

\* The deadline passes first: the stopping proxy goes back to its owner.
ShutdownExpire ==
  /\ proxy.at = "waiting"
  /\ proxy' = [proxy EXCEPT !.at = "held"]
  /\ UNCHANGED <<lease, nextLeaseId, handle, commands, backlog, ownerVars, taskVars>>

\* Proxy::drop: a best-effort shutdown whose reply nobody waits for.
ProxyDrop ==
  /\ ProxyIdle /\ DropsProxy
  /\ proxy' = [proxy EXCEPT !.at = "dropped"]
  /\ Send(Command("Shutdown", 0, 0))
  /\ UNCHANGED <<lease, nextLeaseId, handle, backlog, ownerVars, taskVars>>

LiveTask == {"serving", "denied", "ended", "finished"}

LiveWaiter == {"track", "top", "phase", "generation", "quiet", "drain", "check", "redrain",
               "redrained", "mark", "release"}

\* Proxy::shutdown joins the runtime thread, which drops every spawned task.
ShutdownJoin ==
  /\ proxy.at = "joining"
  /\ \A c \in Conns : conn[c].at \notin LiveTask
  /\ \A w \in Waiters : waiter[w].at \notin LiveWaiter
  /\ proxy' = [proxy EXCEPT !.at = "done"]
  /\ UNCHANGED <<lease, nextLeaseId, handle, commands, backlog, ownerVars, taskVars>>

-------------------------------------------------------------------------------
(***************************************************************************)
(* Connection tasks: the spawned half of `dispatch`.                       *)
(***************************************************************************)

\* serve_connect refuses the request and counts the denial; the response is
\* still being written, so the task may yet be cancelled.
ConnDeny(c) ==
  /\ conn[c].at = "serving"
  /\ lease' = [lease EXCEPT ![conn[c].lease] = RecordDenial(@)]
  /\ conn' = [conn EXCEPT ![c].at = "denied"]
  /\ UNCHANGED <<hostVars, commands, backlog, ownerVars, globalPermits, waiter>>

\* The select ends: serve_connect returned, the lease was cancelled, or the
\* runtime drops its tasks.  Both sockets are dropped, then the global permit.
ConnEnd(c) ==
  /\ conn[c].at \in {"serving", "denied"}
  /\ conn' = [conn EXCEPT ![c].at = "ended"]
  /\ globalPermits' = globalPermits \ {c}
  /\ UNCHANGED <<lease, hostVars, commands, backlog, ownerVars, waiter>>

\* Admission::drop, then the fields of Admission.
ConnFinish(c) ==
  /\ conn[c].at = "ended"
  /\ lease' = [lease EXCEPT ![conn[c].lease] = FinishCounters(@)]
  /\ conn' = [conn EXCEPT ![c].at = "finished"]
  /\ UNCHANGED <<hostVars, commands, backlog, ownerVars, globalPermits, waiter>>

ConnUntrack(c) ==
  /\ conn[c].at = "finished"
  /\ lease' = [lease EXCEPT ![conn[c].lease] = DropAdmission(@, c)]
  /\ conn' = [conn EXCEPT ![c] = GoneSocket("gone")]
  /\ UNCHANGED <<hostVars, commands, backlog, ownerVars, globalPermits, waiter>>

-------------------------------------------------------------------------------
(***************************************************************************)
(* Close waiters (spawn_close_wait) and reapers (the task of Command::Reap)*)
(* share quiesce_after_identity_quiet.                                     *)
(***************************************************************************)

\* The caller of this attempt still holds the receiving end of the reply.
Listening(w) == handle[w[1]].at = "waiting" /\ handle[w[1]].closes = w[2]

\* What a waiter does with its result: a reaper goes on to close the lease or
\* ends; a close waiter replies to a caller that still listens, and ends.
Outcome(w, result) ==
  CASE w[2] = 0 /\ result = "ok" -> "mark"
    [] w[2] > 0 /\ Listening(w) -> result
    [] OTHER -> "done"

Settle(w, result, final) ==
  waiter' = [waiter EXCEPT ![w] =
    [IdleWaiter(Outcome(w, result)) EXCEPT
       !.final = IF Outcome(w, result) = "ok" THEN final ELSE {}]]

\* state.tracker.wait().await
WaiterTracked(w) ==
  /\ waiter[w].at = "track" /\ TrackerDone(lease[w[1]])
  /\ waiter' = [waiter EXCEPT ![w].at = "top"]
  /\ UNCHANGED <<lease, hostVars, commands, backlog, ownerVars, conn, globalPermits>>

\* Top of the loop: a lease already closed needs no further drain.
WaiterTop(w) ==
  /\ waiter[w].at = "top"
  /\ \/ IsClosed(lease[w[1]]) /\ Settle(w, "ok", {lease[w[1]].usage})
     \/ ~IsClosed(lease[w[1]]) /\ waiter' = [waiter EXCEPT ![w].at = "phase"]
  /\ UNCHANGED <<lease, hostVars, commands, backlog, ownerVars, conn, globalPermits>>

\* drain_accept_queue: ask the listener owner, or learn that it is gone.
RequestDrain(w, next, final) ==
  \/ /\ Running
     /\ commands' = Append(commands, Command("Drain", w[1], w[2]))
     /\ waiter' = [waiter EXCEPT ![w].at = next, ![w].final = final]
  \/ /\ ~Running
     /\ Settle(w, "stopped", {})
     /\ UNCHANGED commands

\* quiesced_snapshot: a quiesced lease only needs a fresh drain.
WaiterPhase(w) ==
  /\ waiter[w].at = "phase"
  /\ \/ /\ lease[w[1]].phase = "Quiesced"
        /\ RequestDrain(w, "redrain", {lease[w[1]].usage})
     \/ /\ lease[w[1]].phase # "Quiesced"
        /\ waiter' = [waiter EXCEPT ![w].at = "generation"]
        /\ UNCHANGED commands
  /\ UNCHANGED <<lease, hostVars, backlog, ownerVars, conn, globalPermits>>

\* Any other reads its generation, under another lock, and starts a quiet period.
WaiterGeneration(w) ==
  /\ waiter[w].at = "generation"
  /\ waiter' = [waiter EXCEPT ![w] =
       [at |-> "quiet", before |-> RevocationGeneration(lease[w[1]]),
        final |-> {}, quiet |-> TRUE]]
  /\ UNCHANGED <<lease, hostVars, commands, backlog, ownerVars, conn, globalPermits>>

\* The quiet period has passed.
WaiterQuiet(w) ==
  /\ waiter[w].at = "quiet"
  /\ RequestDrain(w, "drain", {})
  /\ UNCHANGED <<lease, hostVars, backlog, ownerVars, conn, globalPermits>>

\* quiesce_if_generation: freeze the counters, or start over.
WaiterCheck(w) ==
  /\ waiter[w].at = "check"
  /\ \/ /\ GenerationUnchanged(lease[w[1]], waiter[w].before)
        /\ lease' = [lease EXCEPT ![w[1]] = Quiesce(@)]
        /\ Settle(w, "ok", {lease[w[1]].usage})
     \/ /\ ~GenerationUnchanged(lease[w[1]], waiter[w].before)
        /\ waiter' = [waiter EXCEPT ![w] = IdleWaiter("top")]
        /\ UNCHANGED lease
  /\ UNCHANGED <<hostVars, commands, backlog, ownerVars, conn, globalPermits>>

\* The drain that a quiesced lease asked for has been answered.
WaiterRedrained(w) ==
  /\ waiter[w].at = "redrained"
  /\ Settle(w, "ok", waiter[w].final)
  /\ UNCHANGED <<lease, hostVars, commands, backlog, ownerVars, conn, globalPermits>>

\* The points where the task awaits.  The answer to a drain request may be there
\* before the task is polled again.
Suspended == {"track", "quiet", "drain", "check", "redrain", "redrained"}

\* complete_before_deadline drops the wait; only close waiters have a deadline.
WaiterDeadline(w) ==
  /\ w[2] > 0 /\ waiter[w].at \in Suspended
  /\ Settle(w, "deadline", {})
  /\ UNCHANGED <<lease, hostVars, commands, backlog, ownerVars, conn, globalPermits>>

\* The drain request was dropped with the command channel.
WaiterStopped(w) ==
  /\ ~Running /\ waiter[w].at \in {"drain", "redrain"}
  /\ Settle(w, "stopped", {})
  /\ UNCHANGED <<lease, hostVars, commands, backlog, ownerVars, conn, globalPermits>>

\* The runtime is dropped, and with it a task suspended at an await.
WaiterAbort(w) ==
  /\ ~Running /\ waiter[w].at \in Suspended
  /\ waiter' = [waiter EXCEPT ![w] = IdleWaiter("done")]
  /\ UNCHANGED <<lease, hostVars, commands, backlog, ownerVars, conn, globalPermits>>

ReaperMark(w) ==
  /\ waiter[w].at = "mark"
  /\ lease' = [lease EXCEPT ![w[1]] = MarkClosed(@)]
  /\ waiter' = [waiter EXCEPT ![w].at = "release"]
  /\ UNCHANGED <<hostVars, commands, backlog, ownerVars, conn, globalPermits>>

\* Mutant of ReaperRelease: the release is never sent.
ReaperReleaseSilent(w) ==
  /\ waiter[w].at = "release"
  /\ waiter' = [waiter EXCEPT ![w] = IdleWaiter("done")]
  /\ UNCHANGED <<lease, hostVars, commands, backlog, ownerVars, conn, globalPermits>>

ReaperRelease(w) ==
  /\ waiter[w].at = "release"
  /\ Send(Command("Release", w[1], 0))
  /\ waiter' = [waiter EXCEPT ![w] = IdleWaiter("done")]
  /\ UNCHANGED <<lease, hostVars, backlog, ownerVars, conn, globalPermits>>

-------------------------------------------------------------------------------
(***************************************************************************)
(* run_proxy.  Its select is biased: a command is served before the retry  *)
(* timer, the timer before an accept.                                      *)
(***************************************************************************)

\* commands.recv() yields a command of this kind.
Receive(kind) ==
  /\ loop.at = "select" /\ commands # <<>> /\ Head(commands).kind = kind
  /\ commands' = Tail(commands)

\* The identity is free, or its lease is closed and only awaits its release.
Replaceable(l) ==
  registry[handle[l].identity] \in {0} \cup {m \in Leases : IsClosed(lease[m])}

\* Mutant of RunAttach: `stopping` is not consulted.
RunAttachStopping ==
  /\ Receive("Attach")
  /\ LET l == Head(commands).lease IN
     \/ /\ ~Replaceable(l)
        /\ handle' = [handle EXCEPT ![l].at = "refused"]
        /\ UNCHANGED loop
     \/ /\ Replaceable(l)
        /\ loop' = [loop EXCEPT !.at = "drain", !.cur = Head(commands)]
        /\ UNCHANGED handle
  /\ UNCHANGED <<lease, nextLeaseId, proxy, backlog, registry, stopping, backoff, errors,
                 taskVars>>

\* Command::Attach: refused while stopping or owned, otherwise drain first.
RunAttach ==
  /\ Receive("Attach")
  /\ LET l == Head(commands).lease IN
     \/ /\ stopping \/ ~Replaceable(l)
        /\ handle' = [handle EXCEPT ![l].at = "refused"]
        /\ UNCHANGED loop
     \/ /\ ~stopping /\ Replaceable(l)
        /\ loop' = [loop EXCEPT !.at = "drain", !.cur = Head(commands)]
        /\ UNCHANGED handle
  /\ UNCHANGED <<lease, nextLeaseId, proxy, backlog, registry, stopping, backoff, errors,
                 taskVars>>

\* Command::Close and Command::Reap: revoke and spawn the waiter.
RunClose(kind) ==
  /\ Receive(kind)
  /\ LET m == Head(commands) IN
     /\ lease' = [lease EXCEPT ![m.lease] = BeginClose(@)]
     /\ waiter' = [waiter EXCEPT ![<<m.lease, m.n>>] = IdleWaiter("track")]
  /\ UNCHANGED <<hostVars, backlog, ownerVars, conn, globalPermits>>

\* Mutant of ReleaseIfCurrent: whoever holds the identity is released.
ReleaseAnyway(l) == [registry EXCEPT ![handle[l].identity] = 0]

\* release_if_current: a late release leaves a replacement in place.
ReleaseIfCurrent(l) ==
  IF registry[handle[l].identity] = l
  THEN [registry EXCEPT ![handle[l].identity] = 0] ELSE registry

RunRelease ==
  /\ Receive("Release")
  /\ registry' = ReleaseIfCurrent(Head(commands).lease)
  /\ UNCHANGED <<lease, hostVars, backlog, stopping, backoff, errors, loop, taskVars>>

\* The waiter that sent a drain request still awaits the answer.
Asking(w) == waiter[w].at \in {"drain", "redrain"}

\* Command::DrainAcceptQueue: skipped when nobody awaits the answer.
RunDrain ==
  /\ Receive("Drain")
  /\ LET m == Head(commands) IN
     \/ ~Asking(<<m.lease, m.n>>) /\ UNCHANGED loop
     \/ Asking(<<m.lease, m.n>>) /\ loop' = [loop EXCEPT !.at = "drain", !.cur = m]
  /\ UNCHANGED <<lease, hostVars, backlog, registry, stopping, backoff, errors, taskVars>>

\* wait_for_accept_retry
RunRetry ==
  /\ loop.at = "select" /\ commands = <<>> /\ backoff.retryAt
  /\ backoff' = BackoffResume(backoff)
  /\ UNCHANGED <<lease, hostVars, commands, backlog, registry, stopping, errors, loop, taskVars>>

Accepting == loop.at = "select" /\ commands = <<>> /\ ~backoff.retryAt /\ ~stopping

\* The oldest socket leaves the accept queue for dispatch.
TakeSocket ==
  /\ backlog # <<>>
  /\ backlog' = Tail(backlog)
  /\ conn' = [conn EXCEPT ![Head(backlog)].at = "dispatch", ![Head(backlog)].late = FALSE]
  /\ UNCHANGED <<lease, hostVars, commands, registry, stopping, errors, globalPermits, waiter>>

RunAccept ==
  /\ Accepting
  /\ TakeSocket
  /\ loop' = [loop EXCEPT !.at = "dispatch"]
  /\ backoff' = BackoffRecover(backoff)

RunAcceptError ==
  /\ Accepting /\ errors < MaxAcceptErrors
  /\ errors' = errors + 1
  /\ backoff' = BackoffFail(backoff)
  /\ UNCHANGED <<lease, hostVars, commands, backlog, registry, stopping, loop, taskVars>>

\* drain_ready accepts up to a batch.
DrainAccept ==
  /\ loop.at = "drain" /\ loop.batch < AcceptDrainBatch
  /\ TakeSocket
  /\ loop' = [loop EXCEPT !.at = "dispatch", !.batch = @ + 1]
  /\ UNCHANGED backoff

\* The three results of drain_ready.  A full batch says nothing about the queue.
Results == {"Drained", "BatchFull", "AcceptFailed"}

DrainReady(result) ==
  /\ loop.at = "drain"
  /\ \/ result = "Drained" /\ loop.batch < AcceptDrainBatch /\ backlog = <<>>
     \/ result = "BatchFull" /\ loop.batch = AcceptDrainBatch
     \/ result = "AcceptFailed" /\ loop.batch < AcceptDrainBatch /\ errors < MaxAcceptErrors
  /\ errors' = IF result = "AcceptFailed" THEN errors + 1 ELSE errors
  /\ UNCHANGED <<lease, nextLeaseId, proxy, backlog, registry, stopping, conn, globalPermits>>

\* Mutant of DrainNoted: a command is not requeued after a full batch.
DrainNotedOnce(result) ==
  /\ backoff' = IF result = "AcceptFailed" THEN BackoffFail(backoff) ELSE BackoffRecover(backoff)
  /\ UNCHANGED commands

\* What both callers of drain_ready do with its result: note it, and requeue
\* the command after a full batch.
DrainNoted(result) ==
  /\ backoff' = IF result = "AcceptFailed" THEN BackoffFail(backoff) ELSE BackoffRecover(backoff)
  /\ commands' = IF result = "BatchFull" THEN Append(commands, loop.cur) ELSE commands

Idle == [at |-> "select", cur |-> NoCommand, batch |-> 0, todo |-> {}]

\* Mutant of AttachDrained: a full batch is taken for an empty queue.
AttachDrainedBatch(result) ==
  /\ loop.cur.kind = "Attach"
  /\ DrainReady(result)
  /\ backoff' = IF result = "AcceptFailed" THEN BackoffFail(backoff) ELSE BackoffRecover(backoff)
  /\ loop' = IF result = "AcceptFailed" THEN Idle ELSE [loop EXCEPT !.at = "install", !.batch = 0]
  /\ handle' = IF result = "AcceptFailed"
               THEN [handle EXCEPT ![loop.cur.lease].at = "refused"] ELSE handle
  /\ UNCHANGED <<commands, waiter>>

\* The Attach arm after drain_ready: go on to install, requeue, or refuse.
AttachDrained(result) ==
  /\ loop.cur.kind = "Attach"
  /\ DrainReady(result) /\ DrainNoted(result)
  /\ loop' = IF result = "Drained" THEN [loop EXCEPT !.at = "install", !.batch = 0] ELSE Idle
  /\ handle' = IF result = "AcceptFailed"
               THEN [handle EXCEPT ![loop.cur.lease].at = "refused"] ELSE handle
  /\ UNCHANGED waiter

\* leases.insert and the reply; peers may have queued sockets since the drain.
AttachInstall ==
  /\ loop.at = "install"
  /\ registry' = [registry EXCEPT ![handle[loop.cur.lease].identity] = loop.cur.lease]
  /\ handle' = [handle EXCEPT ![loop.cur.lease].at = "held"]
  /\ loop' = Idle
  /\ UNCHANGED <<lease, nextLeaseId, proxy, commands, backlog, stopping, backoff, errors,
                 taskVars>>

\* The DrainAcceptQueue arm after drain_ready, for a waiter that still asks.
DrainAnswered(result) ==
  LET w == <<loop.cur.lease, loop.cur.n>> IN
  /\ loop.cur.kind = "Drain" /\ Asking(w)
  /\ DrainReady(result) /\ DrainNoted(result)
  /\ loop' = Idle
  /\ \/ /\ result = "Drained"
        /\ waiter' = [waiter EXCEPT ![w].at = IF @ = "drain" THEN "check" ELSE "redrained"]
     \/ result = "BatchFull" /\ UNCHANGED waiter
     \/ result = "AcceptFailed" /\ Settle(w, "listener", {})
  /\ UNCHANGED handle

\* The waiter gave up during the drain, whose result is discarded.
DrainAbandoned(result) ==
  /\ loop.cur.kind = "Drain" /\ ~Asking(<<loop.cur.lease, loop.cur.n>>)
  /\ DrainReady(result)
  /\ loop' = Idle
  /\ UNCHANGED <<handle, commands, backoff, waiter>>

-------------------------------------------------------------------------------
(***************************************************************************)
(* ConnectionRuntime::dispatch.  Only the listener owner changes the       *)
(* registry, so Target is the same throughout.                             *)
(***************************************************************************)

\* Back to the drain loop or to the select, whichever accepted the socket.
DispatchReturn ==
  loop' = [loop EXCEPT !.at = IF loop.cur = NoCommand THEN "select" ELSE "drain"]

\* A connection-attempt rate refuses unless the lease is open, and then if a
\* bucket is empty; the buckets are an arbitrary answer here.
RateAllows(c) == RateLimited => lease[Target(c)].phase = "Open"

\* Up to the last critical section: lookup, rate, the process-wide permit and
\* the lease's permit.
DispatchAcquire(c) ==
  /\ loop.at = "dispatch" /\ conn[c].at = "dispatch"
  /\ \/ /\ Target(c) = 0
        /\ conn' = [conn EXCEPT ![c] = GoneSocket("refused")]
        /\ DispatchReturn
        /\ UNCHANGED <<lease, globalPermits>>
     \/ /\ Target(c) # 0
        /\ RateLimited \/ Cardinality(globalPermits) >= MaxConnections
        /\ loop' = [loop EXCEPT !.at = "reject"]
        /\ UNCHANGED <<lease, conn, globalPermits>>
     \/ /\ Target(c) # 0 /\ RateAllows(c)
        /\ Cardinality(globalPermits) < MaxConnections
        /\ globalPermits' = globalPermits \cup {c}
        /\ \/ /\ Cardinality(lease[Target(c)].permits) >= MaxLeaseConnections
              /\ loop' = [loop EXCEPT !.at = "reject"]
              /\ UNCHANGED lease
           \/ /\ Cardinality(lease[Target(c)].permits) < MaxLeaseConnections
              /\ lease' = [lease EXCEPT ![Target(c)] = TakePermit(@, c)]
              /\ loop' = [loop EXCEPT !.at = "admit"]
        /\ UNCHANGED conn
  /\ UNCHANGED <<hostVars, commands, backlog, registry, stopping, backoff, errors, waiter>>

\* Mutant of Refuse: the process-wide permit is leaked.
RefuseKeepingPermit(c) ==
  /\ lease' = [lease EXCEPT ![Target(c)] = DropPermit(RecordUnadmitted(@), c)]
  /\ waiter' = [w \in Waiters |->
       [waiter[w] EXCEPT
          !.quiet = @ /\ ~(w[1] = Target(c) /\ lease[Target(c)].phase = "Revoking")]]
  /\ conn' = [conn EXCEPT ![c] = GoneSocket("refused")]
  /\ UNCHANGED globalPermits

\* A refusal counted under the phase lock; while revoking it disturbs every
\* quiet period in progress.  Permits already taken are dropped.
Refuse(c) ==
  /\ lease' = [lease EXCEPT ![Target(c)] = DropPermit(RecordUnadmitted(@), c)]
  /\ waiter' = [w \in Waiters |->
       [waiter[w] EXCEPT
          !.quiet = @ /\ ~(w[1] = Target(c) /\ lease[Target(c)].phase = "Revoking")]]
  /\ conn' = [conn EXCEPT ![c] = GoneSocket("refused")]
  /\ globalPermits' = globalPermits \ {c}

\* Mutant of DispatchAdmit: the phase is not checked under its lock.
DispatchAdmitUnchecked(c) ==
  /\ loop.at = "admit" /\ conn[c].at = "dispatch"
  /\ lease' = [lease EXCEPT ![Target(c)] = Admit(@, c)]
  /\ conn' = [conn EXCEPT ![c].at = "serving", ![c].lease = Target(c)]
  /\ DispatchReturn
  /\ UNCHANGED <<hostVars, commands, backlog, registry, stopping, backoff, errors,
                 globalPermits, waiter>>

\* LeaseState::admit under the phase lock, and the spawn of the task.
DispatchAdmit(c) ==
  /\ loop.at = "admit" /\ conn[c].at = "dispatch"
  /\ \/ lease[Target(c)].phase # "Open" /\ Refuse(c)
     \/ /\ lease[Target(c)].phase = "Open"
        /\ lease' = [lease EXCEPT ![Target(c)] = Admit(@, c)]
        /\ conn' = [conn EXCEPT ![c].at = "serving", ![c].lease = Target(c)]
        /\ UNCHANGED <<globalPermits, waiter>>
  /\ DispatchReturn
  /\ UNCHANGED <<hostVars, commands, backlog, registry, stopping, backoff, errors>>

\* LeaseState::reject_unadmitted
DispatchReject(c) ==
  /\ loop.at = "reject" /\ conn[c].at = "dispatch"
  /\ Refuse(c)
  /\ DispatchReturn
  /\ UNCHANGED <<hostVars, commands, backlog, registry, stopping, backoff, errors>>

-------------------------------------------------------------------------------
(***************************************************************************)
(* Command::Shutdown.  The listener owner itself waits for the trackers,   *)
(* so no other command is served meanwhile.                                *)
(***************************************************************************)

Registered == {registry[i] : i \in Identities} \ {0}

RunShutdown ==
  /\ Receive("Shutdown")
  /\ stopping' = TRUE
  /\ lease' = [l \in Leases |-> IF l \in Registered THEN BeginClose(lease[l]) ELSE lease[l]]
  /\ loop' = [loop EXCEPT !.at = "shutdown", !.cur = Head(commands), !.todo = Registered]
  /\ UNCHANGED <<hostVars, backlog, registry, backoff, errors, taskVars>>

\* Mutant of ShutdownClose: a lease is marked closed without waiting for its tasks.
ShutdownCloseUntracked(l) ==
  /\ loop.at = "shutdown" /\ l \in loop.todo
  /\ lease' = [lease EXCEPT ![l] = MarkClosed(@)]
  /\ loop' = [loop EXCEPT !.todo = @ \ {l}]
  /\ UNCHANGED <<hostVars, commands, backlog, registry, stopping, backoff, errors, taskVars>>

\* The hash map's order is arbitrary: any lease may come next.
ShutdownClose(l) ==
  /\ loop.at = "shutdown" /\ l \in loop.todo /\ TrackerDone(lease[l])
  /\ lease' = [lease EXCEPT ![l] = MarkClosed(@)]
  /\ loop' = [loop EXCEPT !.todo = @ \ {l}]
  /\ UNCHANGED <<hostVars, commands, backlog, registry, stopping, backoff, errors, taskVars>>

\* Mutant of ShutdownDecide: a wait cut short by the deadline is a success.
ShutdownDecideAlways ==
  /\ loop.at = "shutdown"
  /\ loop' = [loop EXCEPT !.at = "success", !.todo = {}]
  /\ UNCHANGED <<lease, hostVars, commands, backlog, registry, stopping, backoff, errors,
                 taskVars>>

\* Every tracker was empty in time, or the deadline passed first.
ShutdownDecide ==
  /\ loop.at = "shutdown"
  /\ loop' = [loop EXCEPT !.at = IF loop.todo = {} THEN "success" ELSE "failure", !.todo = {}]
  /\ UNCHANGED <<lease, hostVars, commands, backlog, registry, stopping, backoff, errors,
                 taskVars>>

\* The caller of this attempt still waits on the rendezvous channel.
Observed == proxy.at = "waiting" /\ loop.cur.n = proxy.shutdowns

\* run_proxy returns: the command channel and the listener are dropped.
Exit ==
  /\ loop' = [Idle EXCEPT !.at = "exited"]
  /\ commands' = <<>> /\ backlog' = <<>>
  /\ conn' = [c \in Conns |-> IF conn[c].at = "queued" THEN GoneSocket("refused") ELSE conn[c]]

Continue == loop' = Idle /\ UNCHANGED <<commands, backlog, conn>>

\* Mutant of ShutdownReply: a success ends the runtime whether or not it was received.
ShutdownReplyUndelivered ==
  /\ loop.at \in {"success", "failure"}
  /\ \/ /\ Observed /\ loop.at = "failure"
        /\ proxy' = [proxy EXCEPT !.at = "held"]
        /\ Continue
     \/ /\ loop.at = "success"
        /\ proxy' = IF Observed THEN [proxy EXCEPT !.at = "joining"] ELSE proxy
        /\ Exit
     \/ ~Observed /\ loop.at = "failure" /\ Continue /\ UNCHANGED proxy
  /\ UNCHANGED <<lease, nextLeaseId, handle, registry, stopping, backoff, errors,
                 globalPermits, waiter>>

\* Mutant of ShutdownReply: a dropped proxy is treated like a retryable shutdown.
ShutdownReplyRetryable ==
  /\ loop.at \in {"success", "failure"}
  /\ \/ /\ Observed /\ loop.at = "success"
        /\ proxy' = [proxy EXCEPT !.at = "joining"]
        /\ Exit
     \/ ~Observed /\ Continue /\ UNCHANGED proxy
  /\ UNCHANGED <<lease, nextLeaseId, handle, registry, stopping, backoff, errors,
                 globalPermits, waiter>>

\* reply.send and the decision to leave the loop: a retryable shutdown ends the
\* runtime only when its success was received.
ShutdownReply ==
  /\ loop.at \in {"success", "failure"}
  /\ \/ /\ Observed /\ loop.at = "success"
        /\ proxy' = [proxy EXCEPT !.at = "joining"]
        /\ Exit
     \/ /\ Observed /\ loop.at = "failure"
        /\ proxy' = [proxy EXCEPT !.at = "held"]
        /\ Continue
     \/ ~Observed /\ loop.cur.n > 0 /\ Continue /\ UNCHANGED proxy
     \/ ~Observed /\ loop.cur.n = 0 /\ Exit /\ UNCHANGED proxy
  /\ UNCHANGED <<lease, nextLeaseId, handle, registry, stopping, backoff, errors,
                 globalPermits, waiter>>

-------------------------------------------------------------------------------
HostNext ==
  \/ \E c \in Conns : Connect(c)
  \/ \E a \in Addresses : AttachCall(a)
  \/ \E l \in Leases :
       \/ CloseBegin(l) \/ CloseSend(l) \/ CloseCommit(l) \/ CloseRelease(l)
       \/ CloseFail(l) \/ CloseTimeout(l) \/ CloseDisconnected(l)
       \/ DropBegin(l) \/ DropSend(l)
  \/ ShutdownCall \/ ShutdownExpire \/ ShutdownJoin \/ ProxyDrop

TaskNext ==
  \/ \E c \in Conns : ConnDeny(c) \/ ConnEnd(c) \/ ConnFinish(c) \/ ConnUntrack(c)
  \/ \E w \in Waiters :
       \/ WaiterTracked(w) \/ WaiterTop(w) \/ WaiterPhase(w) \/ WaiterGeneration(w)
       \/ WaiterQuiet(w) \/ WaiterCheck(w) \/ WaiterRedrained(w) \/ WaiterDeadline(w)
       \/ WaiterStopped(w) \/ WaiterAbort(w) \/ ReaperMark(w) \/ ReaperRelease(w)

OwnerNext ==
  \/ RunAttach \/ RunClose("Close") \/ RunClose("Reap") \/ RunRelease \/ RunDrain
  \/ RunShutdown \/ RunRetry \/ RunAccept \/ RunAcceptError
  \/ DrainAccept \/ AttachInstall
  \/ \E r \in Results : AttachDrained(r) \/ DrainAnswered(r) \/ DrainAbandoned(r)
  \/ \E c \in Conns : DispatchAcquire(c) \/ DispatchAdmit(c) \/ DispatchReject(c)
  \/ \E l \in Leases : ShutdownClose(l)
  \/ ShutdownDecide \/ ShutdownReply

\* The host has given up every lease and the runtime is idle or gone.
Settled ==
  /\ proxy.at \in {"held", "done", "dropped"} /\ loop.at \in {"select", "exited"}
  /\ commands = <<>> /\ (backlog = <<>> \/ stopping)
  /\ \A l \in Leases : handle[l].at \in {"unborn", "refused", "gone"}
  /\ \A c \in Conns : conn[c].at \notin LiveTask
  /\ \A w \in Waiters : waiter[w].at \notin LiveWaiter
  /\ UNCHANGED vars

Next == HostNext \/ TaskNext \/ OwnerNext \/ Settled

Spec == Init /\ [][Next]_vars

-------------------------------------------------------------------------------
(***************************************************************************)
(* Properties.                                                             *)
(***************************************************************************)

Commands ==
  [kind: {"Attach", "Close", "Reap", "Release", "Shutdown", "Drain", "None"},
   lease: Leases \cup {0}, n: Nat]

HandleRecord ==
  [at: {"unborn", "attaching", "refused", "held", "sending", "waiting", "releasing",
        "dropping", "gone"},
   identity: Identities \cup {NoIdentity}, closes: 0..MaxCloses, certificate: SUBSET Usage]

ProxyRecord ==
  [at: {"held", "waiting", "joining", "done", "dropped"}, shutdowns: 0..MaxShutdowns]

LoopRecord ==
  [at: {"select", "drain", "install", "dispatch", "admit", "reject", "shutdown", "success",
        "failure", "exited"},
   cur: Commands, batch: 0..AcceptDrainBatch, todo: SUBSET Leases]

ConnRecord ==
  [at: LiveTask \cup {"away", "queued", "dispatch", "refused", "gone"},
   lease: Leases \cup {0}, born: 0..MaxLeaseId, late: BOOLEAN]

WaiterRecord ==
  [at: LiveWaiter \cup Failures \cup {"none", "ok", "done"}, before: 0..MaxGeneration,
   final: SUBSET Usage, quiet: BOOLEAN]

\* Every variable keeps its shape; counters and attempts stay within their widths.
TypeOK ==
  /\ lease \in [Leases -> LeaseRecord]
  /\ nextLeaseId \in 1..MaxLeaseId
  /\ handle \in [Leases -> HandleRecord]
  /\ proxy \in ProxyRecord
  /\ commands \in Seq(Commands) /\ backlog \in Seq(Conns)
  /\ registry \in [Identities -> Leases \cup {0}]
  /\ stopping \in BOOLEAN /\ backoff \in BackoffRecord /\ errors \in 0..MaxAcceptErrors
  /\ loop \in LoopRecord
  /\ conn \in [Conns -> ConnRecord]
  /\ globalPermits \in SUBSET Conns
  /\ waiter \in [Waiters -> WaiterRecord]

\* The registry has held this lease.
Granted(l) == handle[l].at \notin {"unborn", "attaching", "refused"}

\* Once a lease's counters are final, none of its connection tasks is left: no
\* socket and no tracker token, and the active count is zero.  The order in which
\* a task gives these up, and the closing of the tracker under the phase lock,
\* decide this.
CertifiedQuiescent ==
  \A l \in Leases : IsFinal(lease[l]) =>
    /\ lease[l].tracker = {} /\ lease[l].usage.active = 0
    /\ \A c \in Conns : conn[c].lease # l

\* What a close has returned stays the truth: the lease is closed and its
\* counters are, and remain, the ones in the certificate.
CertificateFinal ==
  \A l \in Leases :
    handle[l].certificate \subseteq (IF IsClosed(lease[l]) THEN {lease[l].usage} ELSE {})

\* From the moment attach installs a lease until the lease is closed, its
\* identity is registered to it and to no other: no late Release, requeued
\* Attach or failed close gives the identity away.
ExclusiveIdentity ==
  \A l \in Leases :
    Granted(l) /\ ~IsClosed(lease[l]) => registry[handle[l].identity] = l

\* No socket crosses from one lease of an identity to the next.  One that was in
\* the accept queue when attach was called is never admitted under the lease that
\* attach creates (drain_ready before insert), and when a lease is quiesced, every
\* socket of its identity queued before the revocation has been taken off the
\* queue and refused (drain_accept_queue before quiesce).
NoInheritedSocket ==
  /\ \A c \in Conns : conn[c].at \in LiveTask => conn[c].born > conn[c].lease
  /\ \A l \in Leases, i \in DOMAIN backlog :
       lease[l].phase = "Quiesced" /\ Target(backlog[i]) = l => conn[backlog[i]].late

\* A lease becomes quiesced only by a waiter that saw no refusal counted since
\* it started its quiet period, even when the generation is exhausted.
QuietBeforeQuiesced ==
  [][\A l \in Leases :
       lease[l].phase # "Quiesced" /\ lease'[l].phase = "Quiesced" =>
         \E n \in 0..MaxCloses :
           /\ waiter[<<l, n>>].at = "check" /\ waiter'[<<l, n>>].at # "check"
           /\ waiter[<<l, n>>].quiet]_vars

\* The process-wide permits are held by exactly the sockets in service, and by
\* the one in dispatch until it is admitted or refused; a lease's permits are
\* held by its own tasks.  Neither limit is ever exceeded.
PermitsConserved ==
  /\ Cardinality(globalPermits) <= MaxConnections
  /\ \A c \in Conns : conn[c].at \in {"serving", "denied"} => c \in globalPermits
  /\ \A c \in globalPermits :
       \/ conn[c].at \in {"serving", "denied"}
       \/ conn[c].at = "dispatch" /\ loop.at \in {"admit", "reject"}
  /\ \A l \in Leases :
       /\ Cardinality(lease[l].permits) <= MaxLeaseConnections
       /\ \A c \in lease[l].permits :
            \/ conn[c].at \in LiveTask /\ conn[c].lease = l
            \/ conn[c].at = "dispatch" /\ loop.at = "admit" /\ Target(c) = l

\* When Proxy::shutdown returns success, every lease ever granted is closed and
\* nothing the runtime spawned is left.
ShutdownCertifies ==
  proxy.at = "done" =>
    /\ \A l \in Leases : Granted(l) => IsClosed(lease[l])
    /\ \A c \in Conns : conn[c].at \notin LiveTask \cup {"queued", "dispatch"}
    /\ globalPermits = {}

\* Stopping is irreversible, and no lease is granted afterwards, requeued
\* attachments included.
StoppingIsFinal ==
  [][stopping => stopping' /\ \A l \in Leases : Granted(l)' => Granted(l)]_vars

\* The runtime stops only for a caller that received a shutdown certificate, or
\* for a dropped proxy: an unobserved success leaves it running.
ExitIsObserved == ~Running => proxy.at \in {"joining", "done", "dropped"}

\* Runtime loss does not hide a committed certificate: a close never reports
\* that the runtime stopped when shutdown has already closed its lease.
CommittedCloseSucceeds ==
  [][\A l \in Leases :
       /\ handle[l].at = "waiting" /\ waiter[Current(l)].at = "stopped"
       /\ handle'[l].at = "held"
       => ~IsClosed(lease[l])]_vars

\* How the runtime's state reads as the contract's.
StageOfPhase ==
  [Open |-> "open", Revoking |-> "revoked", Quiesced |-> "frozen", Closed |-> "closed"]

Stage(l) == IF Granted(l) THEN StageOfPhase[lease[l].phase] ELSE "absent"

Promise == INSTANCE LeaseContract WITH
  stage <- [l \in Leases |-> Stage(l)],
  holder <- [l \in Leases |-> IF Granted(l) THEN handle[l].identity ELSE NoIdentity],
  tally <- [l \in Leases |-> lease[l].usage],
  issued <- [l \in Leases |-> handle[l].certificate]

\* The runtime keeps the promises of the management API.
KeepsContract == Promise!Contract

-------------------------------------------------------------------------------
(***************************************************************************)
(* Liveness.  Threads and tasks that can run do run, and timers fire; peers*)
(* and callers owe nothing, and a connection task need not end before its  *)
(* lease is cancelled or the runtime is dropped.                           *)
(***************************************************************************)

\* A step of the loop that needs no listener error.
OwnerStep == OwnerNext /\ errors' = errors

CallStep(l) ==
  \/ CloseSend(l) \/ CloseCommit(l) \/ CloseRelease(l) \/ CloseFail(l) \/ CloseTimeout(l)
  \/ CloseDisconnected(l) \/ DropSend(l)

WaiterStep(w) ==
  \/ WaiterTracked(w) \/ WaiterTop(w) \/ WaiterPhase(w) \/ WaiterGeneration(w)
  \/ WaiterQuiet(w) \/ WaiterCheck(w) \/ WaiterRedrained(w) \/ WaiterStopped(w)
  \/ WaiterAbort(w) \/ ReaperMark(w) \/ ReaperRelease(w)

Cancellation(c) ==
  /\ conn[c].at \in {"serving", "denied"}
  /\ lease[conn[c].lease].cancelled \/ ~Running
  /\ ConnEnd(c)

\* The end of a task, once it has to.
TaskEnding(c) == Cancellation(c) \/ ConnFinish(c) \/ ConnUntrack(c)

Fairness ==
  /\ WF_vars(OwnerStep) /\ WF_vars(ShutdownExpire \/ ShutdownJoin)
  /\ \A l \in Leases : WF_vars(CallStep(l))
  /\ \A w \in Waiters : WF_vars(WaiterStep(w))
  /\ \A c \in Conns : WF_vars(TaskEnding(c))

FairSpec == Spec /\ Fairness

\* attach is always answered, full drain batches and listener errors included.
AttachAnswered ==
  \A l \in Leases : handle[l].at = "attaching" ~> handle[l].at # "attaching"

\* The accept loop never stalls: a queued socket is taken off the queue, listener
\* errors and their backoff included, unless the proxy is stopping.
QueuedIsTaken ==
  \A c \in Conns : conn[c].at = "queued" ~> conn[c].at # "queued" \/ stopping

\* Dropping the proxy ends the runtime, whatever its leases and closers do.
DropStopsRuntime == proxy.at = "dropped" ~> ~Running

\* A dropped lease leaves the registry by itself, as long as no listener error
\* fails the reaper's drain.
DroppedIsReleased ==
  \A l \in Leases :
    handle[l].at = "dropping" ~> ~Running \/ l \notin Registered \/ errors > 0

===============================================================================
