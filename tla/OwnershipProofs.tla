--------------------------- MODULE OwnershipProofs ----------------------------
(***************************************************************************)
(* Who owns an identity, and when the runtime may end: an identity belongs *)
(* to one lease from its installation to its close, nothing is granted     *)
(* once the proxy is stopping, and the runtime ends only for a caller that *)
(* knows.                                                                  *)
(***************************************************************************)
EXTENDS CertificateProofs

USE ZenonT(30), SMTT(20)

\* A command that may be served whenever its turn comes: an attachment names a
\* lease already numbered, a release a lease already closed, and a best-effort
\* shutdown comes from a dropped proxy.
Sound(m) ==
  /\ m.kind = "Attach" => m.lease \in Leases /\ m.lease < nextLeaseId
  /\ m.kind = "Release" => m.lease \in Leases /\ IsClosed(lease[m.lease])
  /\ m.kind = "Shutdown" /\ m.n = 0 => proxy.at = "dropped"

Stopping == {"shutdown", "success", "failure"}

\* The inductive invariant: numbers are given out in order and with an identity;
\* every command in the channel or in service is sound; an attachment in service
\* has found its identity free and the proxy not stopping, and that stays so
\* until it is installed; whoever is about to send a release has closed the lease.
OwnInv ==
  /\ \A l \in Leases : IF l < nextLeaseId THEN handle[l].identity \in Identities
                                          ELSE handle[l].at = "unborn"
  /\ \A i \in 1..Len(commands) : Sound(commands[i])
  /\ Sound(loop.cur)
  /\ loop.cur.kind = "Attach" => Replaceable(loop.cur.lease) /\ ~stopping
  /\ loop.at = "install" => loop.cur.kind = "Attach"
  /\ loop.at \in Stopping => loop.cur.kind = "Shutdown"
  /\ \A l \in Leases : handle[l].at = "releasing" => IsClosed(lease[l])
  /\ \A w \in Waiters : waiter[w].at = "release" => IsClosed(lease[w[1]])
  /\ ExclusiveIdentity
  /\ ExitIsObserved

\* The owner of lease m moves to `at`, and no other handle changes.
Changes(m, at) ==
  /\ m \in Leases /\ m < nextLeaseId /\ nextLeaseId' = nextLeaseId
  /\ handle'[m].at = at /\ handle'[m].identity = handle[m].identity
  /\ \A l \in Leases \ {m} : handle'[l] = handle[l]

\* The attachment of lease m is being answered.
Answering(m) ==
  \/ commands # <<>> /\ Head(commands).kind = "Attach" /\ m = Head(commands).lease
  \/ loop.cur.kind = "Attach" /\ m = loop.cur.lease

\* What may become of a handle: an attachment is refused or installed, a lease
\* that was granted stays so, and a release follows the close.
HandleMoves ==
  \/ UNCHANGED <<handle, nextLeaseId>>
  \/ \E a \in Addresses : AttachCall(a)
  \/ \E m \in Leases : Changes(m, "refused") /\ Answering(m)
  \/ AttachInstall /\ Changes(loop.cur.lease, "held")
  \/ \E m \in Leases, at \in {"held", "sending", "waiting", "releasing", "dropping", "gone"} :
       Changes(m, at) /\ Granted(m) /\ (at = "releasing" => IsClosed(lease'[m]))

\* The callers' steps.
LEMMA HostHandles == TypeOK /\ OwnInv /\ HostNext => HandleMoves
<1> SUFFICES ASSUME TypeOK, OwnInv, HostNext PROVE HandleMoves
  OBVIOUS
<1>t. handle \in [Leases -> HandleRecord] /\ lease \in [Leases -> LeaseRecord] /\ nextLeaseId \in Nat
  BY SMTT(20), LimitAssumption DEF TypeOK
<1>l. \A l \in Leases : l \in Nat
  BY SMTT(20) DEF Leases
<1>1. ASSUME NEW m \in Leases, handle[m].at \in {"held", "sending", "waiting", "releasing", "dropping"}
      PROVE  m < nextLeaseId /\ Granted(m)
  BY <1>1, <1>t DEF OwnInv, Granted
<1>2. ASSUME NEW m \in Leases, nextLeaseId' = nextLeaseId,
             handle[m].at \in {"held", "sending", "waiting", "releasing", "dropping"},
             NEW at \in {"held", "sending", "waiting", "releasing", "dropping", "gone"},
             NEW r, handle' = [handle EXCEPT ![m] = r], r.at = at, r.identity = handle[m].identity,
             at = "releasing" => IsClosed(lease'[m])
      PROVE  HandleMoves
  <2>1. Changes(m, at)
    BY <1>1, <1>2, <1>t DEF Changes
  <2> QED
    BY <1>1, <1>2, <2>1 DEF HandleMoves
<1>3. ASSUME NEW m \in Leases, TakeClosedUsage(m), nextLeaseId' = nextLeaseId,
             handle[m].at \in {"held", "sending", "waiting", "releasing", "dropping"}
      PROVE  HandleMoves
  <2> DEFINE r == [handle[m] EXCEPT !.at = "gone", !.certificate = {lease[m].usage}]
  <2>1. handle' = [handle EXCEPT ![m] = r]
    BY <1>3, <1>t DEF TakeClosedUsage
  <2>2. r.at = "gone" /\ r.identity = handle[m].identity
    BY <1>t DEF HandleRecord
  <2> HIDE DEF r
  <2> QED
    BY <1>2, <1>3, <2>1, <2>2
<1>4. ASSUME NEW m \in Leases, nextLeaseId' = nextLeaseId,
             handle[m].at \in {"held", "sending", "waiting", "releasing", "dropping"},
             NEW at \in {"held", "sending", "waiting", "dropping", "gone"},
             handle' = [handle EXCEPT ![m].at = at]
      PROVE  HandleMoves
  <2> DEFINE r == [handle[m] EXCEPT !.at = at]
  <2>1. handle' = [handle EXCEPT ![m] = r]
    BY <1>4, <1>t
  <2>2. r.at = at /\ r.identity = handle[m].identity
    BY <1>t DEF HandleRecord
  <2> HIDE DEF r
  <2> QED
    BY <1>2, <1>4, <2>1, <2>2
<1>5. ASSUME NEW m \in Leases, RuntimeStoppedOrClosed(m), nextLeaseId' = nextLeaseId,
             handle[m].at \in {"held", "sending", "waiting", "releasing", "dropping"}
      PROVE  HandleMoves
  BY <1>3, <1>4, <1>5 DEF RuntimeStoppedOrClosed
<1>6. ASSUME NEW m \in Leases, CloseBegin(m) PROVE HandleMoves
  <2>1. handle[m].at = "held" /\ nextLeaseId' = nextLeaseId
    BY <1>6 DEF CloseBegin
  <2>2. CASE TakeClosedUsage(m)
    BY <1>3, <2>1, <2>2
  <2>3. CASE handle' = [handle EXCEPT ![m].at = "sending", ![m].closes = @ + 1]
    <3> DEFINE r == [handle[m] EXCEPT !.at = "sending", !.closes = @ + 1]
    <3>1. handle' = [handle EXCEPT ![m] = r]
      BY <2>3, <1>t
    <3>2. r.at = "sending" /\ r.identity = handle[m].identity
      BY <1>t DEF HandleRecord
    <3> HIDE DEF r
    <3> QED
      BY <1>2, <2>1, <3>1, <3>2
  <2> QED
    BY <1>6, <2>2, <2>3 DEF CloseBegin
<1>7. ASSUME NEW m \in Leases, CloseCommit(m) PROVE HandleMoves
  <2> DEFINE r == [handle[m] EXCEPT !.at = "releasing", !.certificate = waiter[Current(m)].final]
  <2>1. handle[m].at = "waiting" /\ nextLeaseId' = nextLeaseId /\ handle' = [handle EXCEPT ![m] = r]
    BY <1>7, <1>t DEF CloseCommit
  <2>2. r.at = "releasing" /\ r.identity = handle[m].identity
    BY <1>t DEF HandleRecord
  <2>3. IsClosed(lease'[m])
    BY <1>7, <1>t DEF CloseCommit, MarkClosed, IsClosed, LeaseRecord
  <2> HIDE DEF r
  <2> QED
    BY <1>2, <2>1, <2>2, <2>3
<1>8. ASSUME NEW m \in Leases,
             \/ CloseSend(m) \/ CloseRelease(m) \/ CloseFail(m) \/ CloseTimeout(m)
             \/ CloseDisconnected(m) \/ DropBegin(m) \/ DropSend(m)
      PROVE  HandleMoves
  BY <1>4, <1>5, <1>8 DEF CloseSend, CloseRelease, CloseFail, CloseTimeout, CloseDisconnected,
                          DropBegin, DropSend
<1>9. CASE UNCHANGED <<handle, nextLeaseId>>
  BY <1>9 DEF HandleMoves
<1>10. ASSUME NEW a \in Addresses, AttachCall(a) PROVE HandleMoves
  BY <1>10 DEF HandleMoves
<1> QED
  BY <1>6, <1>7, <1>8, <1>9, <1>10
  DEF HostNext, Connect, ShutdownCall, ShutdownExpire, ShutdownJoin, ProxyDrop, hostVars

\* The listener owner's steps: it answers attachments and touches no other handle.
LEMMA OwnerHandles == TypeOK /\ OwnInv /\ OwnerNext => HandleMoves
<1> SUFFICES ASSUME TypeOK, OwnInv, OwnerNext PROVE HandleMoves
  OBVIOUS
<1>t. handle \in [Leases -> HandleRecord] /\ commands \in Seq(Commands)
  BY DEF TypeOK
<1>1. ASSUME NEW m \in Leases, m < nextLeaseId, nextLeaseId' = nextLeaseId, NEW at,
             handle' = [handle EXCEPT ![m].at = at]
      PROVE  Changes(m, at)
  <2> DEFINE r == [handle[m] EXCEPT !.at = at]
  <2>1. handle' = [handle EXCEPT ![m] = r]
    BY <1>1, <1>t
  <2>2. r.at = at /\ r.identity = handle[m].identity
    BY <1>t DEF HandleRecord
  <2> HIDE DEF r
  <2> QED
    BY <1>1, <1>t, <2>1, <2>2 DEF Changes
<1>2. CASE UNCHANGED <<handle, nextLeaseId>>
  BY <1>2 DEF HandleMoves
<1>3. CASE RunAttach
  <2>1. Sound(Head(commands)) /\ Head(commands).kind = "Attach" /\ nextLeaseId' = nextLeaseId
    <3>1. commands # <<>> /\ Head(commands).kind = "Attach"
      BY <1>3 DEF RunAttach, Receive
    <3>2. Head(commands) = commands[1] /\ 1 \in 1..Len(commands)
      BY SMTT(20), <3>1, <1>t
    <3> QED
      BY <1>3, <3>1, <3>2 DEF RunAttach, OwnInv
  <2>2. \/ UNCHANGED handle
        \/ handle' = [handle EXCEPT ![Head(commands).lease].at = "refused"]
    BY <1>3 DEF RunAttach
  <2>3. Answering(Head(commands).lease)
    BY <1>3, <2>1 DEF Answering, RunAttach, Receive
  <2> QED
    BY <1>1, <1>2, <2>1, <2>2, <2>3 DEF Sound, HandleMoves
<1>4. ASSUME NEW result \in Results, AttachDrained(result) PROVE HandleMoves
  <2>1. /\ loop.cur.lease \in Leases /\ loop.cur.lease < nextLeaseId
        /\ nextLeaseId' = nextLeaseId
    BY <1>4 DEF AttachDrained, DrainReady, OwnInv, Sound
  <2>2. \/ UNCHANGED handle
        \/ handle' = [handle EXCEPT ![loop.cur.lease].at = "refused"]
    BY <1>4 DEF AttachDrained
  <2>3. Answering(loop.cur.lease)
    BY <1>4 DEF Answering, AttachDrained
  <2> QED
    BY <1>1, <1>2, <2>1, <2>2, <2>3 DEF HandleMoves
<1>5. CASE AttachInstall
  <2>1. /\ loop.cur.lease \in Leases /\ loop.cur.lease < nextLeaseId
        /\ nextLeaseId' = nextLeaseId
        /\ handle' = [handle EXCEPT ![loop.cur.lease].at = "held"]
    BY <1>5 DEF AttachInstall, OwnInv, Sound
  <2> QED
    BY <1>1, <1>5, <2>1 DEF HandleMoves
<1>6. \/ RunAttach \/ AttachInstall \/ \E r \in Results : AttachDrained(r)
      \/ UNCHANGED <<handle, nextLeaseId>>
  BY DEF OwnerNext, RunClose, RunRelease, RunDrain, RunShutdown, RunRetry, RunAccept, RunAcceptError,
      DrainAccept, TakeSocket, DrainAnswered, DrainAbandoned, DrainReady, DispatchAcquire,
      DispatchAdmit, DispatchReject, ShutdownClose, ShutdownDecide, ShutdownReply, hostVars
<1> QED
  BY <1>2, <1>3, <1>4, <1>5, <1>6

\* The tasks' steps change no handle, no registry entry and nothing of the loop.
LEMMA TaskFrame ==
  TaskNext => UNCHANGED <<handle, nextLeaseId, proxy, registry, stopping, loop>>
BY DEF TaskNext, ConnDeny, ConnEnd, ConnFinish, ConnUntrack, WaiterTracked, WaiterTop,
    WaiterPhase, WaiterGeneration, WaiterQuiet, WaiterCheck, WaiterRedrained, WaiterDeadline,
    WaiterStopped, WaiterAbort, ReaperMark, ReaperRelease, hostVars, ownerVars

\* The callers' steps change no registry entry and nothing of the loop.
LEMMA HostFrame == HostNext => UNCHANGED <<registry, stopping, loop>>
BY DEF HostNext, Connect, AttachCall, CloseBegin, CloseSend, CloseCommit, CloseRelease, CloseFail,
    CloseTimeout, CloseDisconnected, DropBegin, DropSend, ShutdownCall, ShutdownExpire,
    ShutdownJoin, ProxyDrop, ownerVars

\* Every step moves the handles as they may be moved.
LEMMA HandleStep == TypeOK /\ OwnInv /\ [Next]_vars => HandleMoves
<1> SUFFICES ASSUME TypeOK, OwnInv, [Next]_vars PROVE HandleMoves
  OBVIOUS
<1>1. CASE TaskNext \/ UNCHANGED vars
  BY <1>1, TaskFrame DEF HandleMoves, vars, hostVars
<1> QED
  BY <1>1, HostHandles, OwnerHandles DEF Next, Settled

\* What a step of the runtime or its callers does about the proxy's own handle:
\* a dropped one stays dropped.
LEMMA ProxyStep ==
  TypeOK /\ [Next]_vars => (proxy.at = "dropped" => proxy'.at = "dropped")
<1> SUFFICES ASSUME TypeOK, [Next]_vars, proxy.at = "dropped" PROVE proxy'.at = "dropped"
  OBVIOUS
<1>1. CASE HostNext
  BY <1>1
  DEF HostNext, Connect, AttachCall, CloseBegin, CloseSend, CloseCommit, CloseRelease, CloseFail,
      CloseTimeout, CloseDisconnected, DropBegin, DropSend, ShutdownCall, ShutdownExpire,
      ShutdownJoin, ProxyDrop, ProxyIdle, hostVars
<1>2. CASE OwnerNext
  <2>1. UNCHANGED proxy \/ ShutdownReply
    BY <1>2
    DEF OwnerNext, RunAttach, RunClose, RunRelease, RunDrain, RunShutdown, RunRetry, RunAccept,
        RunAcceptError, DrainAccept, TakeSocket, AttachInstall, AttachDrained, DrainAnswered,
        DrainAbandoned, DrainReady, DispatchAcquire, DispatchAdmit, DispatchReject,
        ShutdownClose, ShutdownDecide, hostVars
  <2> QED
    BY <2>1 DEF ShutdownReply, Observed
<1> QED
  BY <1>1, <1>2, TaskFrame DEF Next, Settled, vars, hostVars

\* A sound command stays sound while it waits: numbers only grow, a closed lease
\* stays closed and a dropped proxy stays dropped.
LEMMA SoundStays ==
  ASSUME TypeOK, OwnInv, [Next]_vars, \A l \in Leases : Monotone(lease[l], lease'[l])
  PROVE  \A m : Sound(m) => Sound(m)'
<1>1. nextLeaseId \in Nat /\ nextLeaseId' \in Nat /\ nextLeaseId <= nextLeaseId'
  <2>1. nextLeaseId \in Nat
    BY SMTT(20), LimitAssumption DEF TypeOK
  <2>2. nextLeaseId' \in {nextLeaseId, nextLeaseId + 1}
    BY HandleStep DEF HandleMoves, AttachCall, Changes
  <2> QED
    BY SMTT(20), <2>1, <2>2
<1>2. \A l \in Leases : l \in Nat
  BY SMTT(20) DEF Leases
<1>3. proxy.at = "dropped" => proxy'.at = "dropped"
  BY ProxyStep
<1>4. \A l \in Leases : IsClosed(lease[l]) => IsClosed(lease'[l])
  BY DEF Monotone
<1> QED
  BY SMTT(20), <1>1, <1>2, <1>3, <1>4 DEF Sound, IsClosed

\* What a step may do to the command channel.
Passes ==
  \/ UNCHANGED commands
  \/ commands # <<>> /\ commands' = Tail(commands)
  \/ commands' = <<>>
  \/ \E m : commands' = Append(commands, m) /\ Sound(m)'

\* Callers send sound commands.
LEMMA HostPasses == TypeOK /\ OwnInv /\ HostNext => Passes
<1> SUFFICES ASSUME TypeOK, OwnInv, HostNext PROVE Passes
  OBVIOUS
<1>1. ASSUME NEW m, Send(m), Sound(m)' PROVE Passes
  BY <1>1 DEF Send, Passes
<1>2. ASSUME NEW k \in {"Close", "Reap", "Drain"}, NEW l, NEW n, Send(Command(k, l, n)) PROVE Passes
  <2> DEFINE m == Command(k, l, n)
  <2>1. Sound(m)'
    BY DEF Sound, Command
  <2> QED
    BY <1>2, <2>1 DEF Send, Passes
<1>3. ASSUME NEW a \in Addresses, AttachCall(a) PROVE Passes
  <2> DEFINE m == Command("Attach", nextLeaseId, 0)
  <2>1. /\ nextLeaseId \in Nat /\ nextLeaseId \in Leases /\ nextLeaseId < nextLeaseId'
        /\ Send(m)
    BY SMTT(20), <1>3, LimitAssumption DEF AttachCall, TypeOK, Leases
  <2>2. PICK k : k = nextLeaseId
    OBVIOUS
  <2>3. Sound(Command("Attach", k, 0))'
    BY <2>1, <2>2 DEF Sound, Command
  <2> QED
    BY <1>1, <2>1, <2>2, <2>3
<1>4. ASSUME NEW l \in Leases, CloseRelease(l) PROVE Passes
  <2>1. IsClosed(lease[l]) /\ lease' = lease /\ Send(Command("Release", l, 0))
    BY <1>4 DEF CloseRelease, OwnInv
  <2>2. Sound(Command("Release", l, 0))'
    BY <2>1 DEF Sound, Command, IsClosed
  <2> QED
    BY <1>1, <2>1, <2>2
<1>5. CASE ShutdownCall
  <2>1. PICK n : n = proxy.shutdowns + 1
    OBVIOUS
  <2>2. n # 0 /\ Send(Command("Shutdown", 0, n))
    BY SMTT(20), <1>5, <2>1, BoundAssumption DEF ShutdownCall, TypeOK, ProxyRecord
  <2>3. Sound(Command("Shutdown", 0, n))'
    BY <2>2 DEF Sound, Command
  <2> QED
    BY <1>1, <2>2, <2>3
<1>6. CASE ProxyDrop
  <2>1. proxy'.at = "dropped" /\ Send(Command("Shutdown", 0, 0))
    BY <1>6 DEF ProxyDrop, TypeOK, ProxyRecord
  <2>2. Sound(Command("Shutdown", 0, 0))'
    BY <2>1 DEF Sound, Command
  <2> QED
    BY <1>1, <2>1, <2>2
<1>7. ASSUME NEW l \in Leases, CloseSend(l) PROVE Passes
  <2>1. PICK n : n = handle[l].closes
    OBVIOUS
  <2> QED
    BY <1>2, <1>7, <2>1 DEF CloseSend
<1>8. ASSUME NEW l \in Leases, DropSend(l) PROVE Passes
  BY <1>2, <1>8 DEF DropSend
<1>9. CASE UNCHANGED commands
  BY <1>9 DEF Passes
<1> QED
  BY <1>3, <1>4, <1>5, <1>6, <1>7, <1>8, <1>9
  DEF HostNext, Connect, CloseBegin, CloseCommit, CloseFail, CloseTimeout, CloseDisconnected,
      DropBegin, ShutdownExpire, ShutdownJoin

\* Waiters ask for drains, and a reaper releases a lease it has closed.
LEMMA TaskPasses == TypeOK /\ OwnInv /\ TaskNext => Passes
<1> SUFFICES ASSUME TypeOK, OwnInv, TaskNext PROVE Passes
  OBVIOUS
<1>1. ASSUME NEW w \in Waiters, NEW next, NEW final, RequestDrain(w, next, final) PROVE Passes
  <2>1. Sound(Command("Drain", w[1], w[2]))'
    BY DEF Sound, Command
  <2> QED
    BY <1>1, <2>1 DEF RequestDrain, Passes
<1>2. ASSUME NEW w \in Waiters, ReaperRelease(w) PROVE Passes
  <2>1. IsClosed(lease[w[1]]) /\ lease' = lease /\ w[1] \in Leases
    BY <1>2 DEF ReaperRelease, OwnInv, Waiters
  <2>2. Sound(Command("Release", w[1], 0))'
    BY <2>1 DEF Sound, Command, IsClosed
  <2> QED
    BY <1>2, <2>2 DEF ReaperRelease, Send, Passes
<1>3. ASSUME NEW w \in Waiters, WaiterPhase(w) \/ WaiterQuiet(w) PROVE Passes
  <2>1. PICK u : u = {lease[w[1]].usage}
    OBVIOUS
  <2> QED
    BY <1>1, <1>3, <2>1 DEF WaiterPhase, WaiterQuiet, Passes
<1>4. CASE UNCHANGED commands
  BY <1>4 DEF Passes
<1> QED
  BY <1>2, <1>3, <1>4
  DEF TaskNext, ConnDeny, ConnEnd, ConnFinish, ConnUntrack, WaiterTracked, WaiterTop,
      WaiterGeneration, WaiterCheck, WaiterRedrained, WaiterDeadline, WaiterStopped, WaiterAbort,
      ReaperMark

\* The listener owner takes commands, or requeues the one in service.
LEMMA OwnerPasses ==
  ASSUME TypeOK, OwnInv, OwnerNext, \A m : Sound(m) => Sound(m)'
  PROVE  Passes
<1>1. ASSUME NEW kind, Receive(kind) PROVE Passes
  BY <1>1 DEF Receive, Passes
<1>2. ASSUME NEW result, DrainNoted(result) PROVE Passes
  <2>1. PICK m : m = loop.cur
    OBVIOUS
  <2>2. Sound(m)'
    BY <2>1 DEF OwnInv
  <2> QED
    BY <1>2, <2>1, <2>2 DEF DrainNoted, Passes
<1>3. CASE UNCHANGED commands
  BY <1>3 DEF Passes
<1>4. CASE Exit
  BY <1>4 DEF Exit, Passes
<1>5. \/ \E kind \in {"Attach", "Close", "Reap", "Release", "Drain", "Shutdown"} : Receive(kind)
      \/ \E result \in Results : DrainNoted(result)
      \/ UNCHANGED commands
      \/ Exit
  BY DEF OwnerNext, RunAttach, RunClose, RunRelease, RunDrain, RunShutdown, RunRetry, RunAccept,
      RunAcceptError, DrainAccept, TakeSocket, AttachInstall, AttachDrained, DrainAnswered,
      DrainAbandoned, DispatchAcquire, DispatchAdmit, DispatchReject, ShutdownClose,
      ShutdownDecide, ShutdownReply, Continue
<1> QED
  BY <1>1, <1>2, <1>3, <1>4, <1>5

\* Every command in the channel is sound after every step.
LEMMA ChannelStep ==
  ASSUME TypeOK, OwnInv, [Next]_vars, \A l \in Leases : Monotone(lease[l], lease'[l])
  PROVE  (\A i \in 1..Len(commands) : Sound(commands[i]))'
<1>s. \A m : Sound(m) => Sound(m)'
  BY SoundStays
<1>1. Passes
  <2>1. CASE UNCHANGED vars
    BY <2>1 DEF vars, Passes
  <2> QED
    BY <1>s, <2>1, HostPasses, TaskPasses, OwnerPasses DEF Next, Settled
<1>t. commands \in Seq(Commands)
  BY DEF TypeOK
<1>2. \A i \in 1..Len(commands) : Sound(commands[i])
  BY DEF OwnInv
<1>3. SUFFICES ASSUME NEW i \in 1..Len(commands') PROVE \A m : m = commands'[i] => Sound(m)'
  BY DEF Sound
<1>4. (\E j \in 1..Len(commands) : commands'[i] = commands[j])
      \/ (\E m : commands'[i] = m /\ Sound(m)')
  <2>1. CASE UNCHANGED commands
    BY <2>1, <1>t
  <2>2. CASE commands # <<>> /\ commands' = Tail(commands)
    <3>1. i + 1 \in 1..Len(commands) /\ commands'[i] = commands[i + 1]
      BY SMTT(20), <2>2, <1>t
    <3> QED
      BY <3>1
  <2>3. CASE commands' = <<>>
    BY SMTT(20), <2>3
  <2>4. ASSUME NEW m, commands' = Append(commands, m), Sound(m)'
        PROVE  (\E j \in 1..Len(commands) : commands'[i] = commands[j])
               \/ (\E k : commands'[i] = k /\ Sound(k)')
    <3>1. (i \in 1..Len(commands) /\ commands'[i] = commands[i]) \/ commands'[i] = m
      BY SMTT(20), <2>4, <1>t
    <3> QED
      BY <3>1, <2>4
  <2> QED
    BY <1>1, <2>1, <2>2, <2>3, <2>4 DEF Passes
<1> QED
  BY <1>s, <1>2, <1>4

\* The loop goes on with the command in service.
Continues ==
  /\ loop'.cur = loop.cur /\ UNCHANGED stopping
  /\ loop'.at = "install" => loop.cur.kind = "Attach"
  /\ loop'.at \in Stopping => loop.at \in Stopping
  /\ loop'.at = "exited" => loop.at = "exited"
  /\ registry' = registry \/ RunRelease

\* The loop is done with the command in service, and perhaps for good.
Finishes ==
  /\ loop'.cur = NoCommand /\ UNCHANGED stopping
  /\ \/ loop'.at = "select"
     \/ loop'.at = "exited" /\ proxy'.at = "joining"
     \/ loop'.at = "exited" /\ UNCHANGED proxy /\ loop.cur.n = 0 /\ loop.at \in Stopping
  /\ registry' = registry \/ AttachInstall

\* The loop takes a command into service.
Starts ==
  /\ commands # <<>> /\ loop'.cur = Head(commands) /\ UNCHANGED <<registry, handle, nextLeaseId>>
  /\ \/ /\ Head(commands).kind = "Attach" /\ loop'.at = "drain" /\ UNCHANGED <<lease, stopping>>
        /\ ~stopping /\ Replaceable(Head(commands).lease)
     \/ Head(commands).kind = "Drain" /\ loop'.at = "drain" /\ UNCHANGED stopping
     \/ Head(commands).kind = "Shutdown" /\ loop'.at = "shutdown" /\ stopping'

\* These are all the ways the loop's command, the registry and `stopping` change.
LEMMA OwnerLoop == TypeOK /\ OwnInv /\ OwnerNext => Continues \/ Finishes \/ Starts
<1> SUFFICES ASSUME TypeOK, OwnInv, OwnerNext PROVE Continues \/ Finishes \/ Starts
  OBVIOUS
<1>t. loop \in LoopRecord /\ (loop.at = "install" => loop.cur.kind = "Attach")
  BY DEF TypeOK, OwnInv
<1>u. ASSUME NEW r \in LoopRecord, NEW at
      PROVE  [r EXCEPT !.at = at].at = at /\ [r EXCEPT !.at = at].cur = r.cur
  BY <1>u DEF LoopRecord
<1>1. ASSUME UNCHANGED <<loop, stopping>>, registry' = registry \/ RunRelease PROVE Continues
  BY <1>1, <1>t DEF Continues
<1>2. ASSUME UNCHANGED <<registry, stopping>>, loop'.cur = loop.cur,
             loop'.at \in {"select", "drain", "dispatch", "admit", "reject"}
      PROVE  Continues
  BY <1>2 DEF Continues, Stopping
<1>3. ASSUME UNCHANGED <<registry, stopping>>, loop' = Idle PROVE Finishes
  BY <1>3 DEF Finishes, Idle
<1>4. CASE RunAttach
  <2>1. CASE UNCHANGED loop
    BY <1>1, <1>4, <2>1 DEF RunAttach
  <2>2. CASE ~stopping /\ Replaceable(Head(commands).lease) /\ UNCHANGED handle
             /\ loop' = [loop EXCEPT !.at = "drain", !.cur = Head(commands)]
    <3>1. loop'.at = "drain" /\ loop'.cur = Head(commands)
      BY <2>2, <1>t DEF LoopRecord
    <3> QED
      BY <1>4, <2>2, <3>1 DEF RunAttach, Receive, Starts
  <2> QED
    BY <1>4, <2>1, <2>2 DEF RunAttach
<1>5. CASE RunDrain
  <2>1. CASE UNCHANGED loop
    BY <1>1, <1>5, <2>1 DEF RunDrain
  <2>2. CASE loop' = [loop EXCEPT !.at = "drain", !.cur = Head(commands)]
    <3>1. loop'.at = "drain" /\ loop'.cur = Head(commands)
      BY <2>2, <1>t DEF LoopRecord
    <3> QED
      BY <1>5, <3>1 DEF RunDrain, Receive, Starts, hostVars
  <2> QED
    BY <1>5, <2>1, <2>2 DEF RunDrain
<1>6. CASE RunShutdown
  <2>1. loop'.at = "shutdown" /\ loop'.cur = Head(commands)
    BY <1>6, <1>t DEF RunShutdown, LoopRecord
  <2> QED
    BY <1>6, <2>1 DEF RunShutdown, Receive, Starts, hostVars
<1>7. ASSUME NEW kind, RunClose(kind) PROVE Continues
  BY <1>1, <1>7 DEF RunClose, ownerVars
<1>8. CASE RunRelease \/ RunRetry \/ RunAcceptError
  BY <1>1, <1>8 DEF RunRelease, RunRetry, RunAcceptError
<1>9. CASE RunAccept \/ DrainAccept
  <2>1. loop'.at = "dispatch" /\ loop'.cur = loop.cur
    BY <1>9, <1>t DEF RunAccept, DrainAccept, LoopRecord
  <2> QED
    BY <1>2, <1>9, <2>1 DEF RunAccept, DrainAccept, TakeSocket
<1>10. CASE AttachInstall
  BY <1>10 DEF AttachInstall, Finishes, Idle
<1>11. ASSUME NEW r \in Results, AttachDrained(r) PROVE Continues \/ Finishes
  <2>1. UNCHANGED <<registry, stopping>> /\ loop.cur.kind = "Attach"
    BY <1>11 DEF AttachDrained, DrainReady
  <2>2. CASE loop' = [loop EXCEPT !.at = "install", !.batch = 0]
    <3>1. loop'.at = "install" /\ loop'.cur = loop.cur
      BY <2>2, <1>t DEF LoopRecord
    <3> QED
      BY <2>1, <3>1 DEF Continues, Stopping
  <2> QED
    BY <1>3, <1>11, <2>1, <2>2 DEF AttachDrained
<1>12. ASSUME NEW r \in Results, DrainAnswered(r) \/ DrainAbandoned(r) PROVE Finishes
  BY <1>3, <1>12 DEF DrainAnswered, DrainAbandoned, DrainReady
<1>13. ASSUME NEW c \in Conns, DispatchAcquire(c) \/ DispatchAdmit(c) \/ DispatchReject(c)
       PROVE  Continues
  <2>1. PICK at \in {"select", "drain", "admit", "reject"} : loop' = [loop EXCEPT !.at = at]
    BY <1>13 DEF DispatchAcquire, DispatchAdmit, DispatchReject, DispatchReturn
  <2>2. UNCHANGED <<registry, stopping>>
    BY <1>13 DEF DispatchAcquire, DispatchAdmit, DispatchReject
  <2> QED
    BY <1>2, <1>t, <1>u, <2>1, <2>2
<1>14. ASSUME NEW l \in Leases, ShutdownClose(l) PROVE Continues
  <2>1. loop'.at = "shutdown" /\ loop'.cur = loop.cur /\ loop.at = "shutdown"
    BY <1>14, <1>t DEF ShutdownClose, LoopRecord
  <2> QED
    BY <1>14, <2>1 DEF ShutdownClose, Continues, Stopping
<1>15. CASE ShutdownDecide
  <2>1. loop'.at \in {"success", "failure"} /\ loop'.cur = loop.cur /\ loop.at = "shutdown"
    BY <1>15, <1>t DEF ShutdownDecide, LoopRecord
  <2> QED
    BY <1>15, <2>1 DEF ShutdownDecide, Continues, Stopping
<1>16. CASE ShutdownReply
  <2>1. UNCHANGED <<registry, stopping>> /\ loop.at \in Stopping
    BY <1>16 DEF ShutdownReply, Stopping
  <2>2. CASE Continue
    BY <1>3, <2>1, <2>2 DEF Continue
  <2>3. CASE Exit /\ (proxy' = [proxy EXCEPT !.at = "joining"] \/ (loop.cur.n = 0 /\ UNCHANGED proxy))
    <3>1. loop'.at = "exited" /\ loop'.cur = NoCommand
      BY <2>3 DEF Exit, Idle
    <3>2. proxy'.at = "joining" \/ (loop.cur.n = 0 /\ UNCHANGED proxy)
      BY <2>3 DEF TypeOK, ProxyRecord
    <3> QED
      BY <2>1, <3>1, <3>2 DEF Finishes
  <2> QED
    BY <1>16, <2>2, <2>3 DEF ShutdownReply
<1> QED
  BY <1>4, <1>5, <1>6, <1>7, <1>8, <1>9, <1>10, <1>11, <1>12, <1>13, <1>14, <1>15, <1>16
  DEF OwnerNext

\* The same of every step.
LEMMA LoopStep == TypeOK /\ OwnInv /\ [Next]_vars => Continues \/ Finishes \/ Starts
<1> SUFFICES ASSUME TypeOK, OwnInv, [Next]_vars PROVE Continues \/ Finishes \/ Starts
  OBVIOUS
<1>1. ASSUME UNCHANGED <<registry, stopping, loop>> PROVE Continues
  BY <1>1 DEF Continues, OwnInv
<1> QED
  BY <1>1, HostFrame, TaskFrame, OwnerLoop DEF Next, Settled, vars, ownerVars

\* A reaper comes to its release only by closing the lease.
Earned(w) ==
  waiter'[w].at = "release" => waiter[w].at = "release" \/ IsClosed(lease'[w[1]])

\* So it is after every step: only ReaperMark leads to the release.
LEMMA ReaperEarns ==
  ASSUME TypeOK, [Next]_vars
  PROVE  \A v \in Waiters : Earned(v)
<1>t. waiter \in [Waiters -> WaiterRecord] /\ lease \in [Leases -> LeaseRecord]
  BY DEF TypeOK
<1>1. CASE UNCHANGED waiter
  BY <1>1 DEF Earned
<1>2. ASSUME NEW w, NEW new, waiter' = [waiter EXCEPT ![w] = new],
             new = waiter[w] \/ new.at # "release"
      PROVE  \A v \in Waiters : Earned(v)
  BY <1>2, <1>t DEF Earned
<1>3. ASSUME NEW w, NEW at, at # "release", waiter' = [waiter EXCEPT ![w].at = at]
      PROVE  \A v \in Waiters : Earned(v)
  <2>1. \A v \in Waiters : waiter'[v].at = waiter[v].at \/ waiter'[v].at = at
    BY <1>3, <1>t DEF WaiterRecord
  <2> QED
    BY <1>3, <2>1 DEF Earned
<1>4. ASSUME NEW w, NEW result \in Failures \cup {"ok"}, NEW final, Settle(w, result, final)
      PROVE  \A v \in Waiters : Earned(v)
  <2> DEFINE new == [IdleWaiter(Outcome(w, result)) EXCEPT
                       !.final = IF Outcome(w, result) = "ok" THEN final ELSE {}]
  <2>1. new.at = Outcome(w, result) /\ waiter' = [waiter EXCEPT ![w] = new]
    BY <1>4 DEF IdleWaiter, Settle
  <2>2. Outcome(w, result) # "release"
    BY DEF Outcome, Failures
  <2> HIDE DEF new
  <2> QED
    BY <1>2, <2>1, <2>2
<1>5. ASSUME NEW w \in Waiters, NEW next \in {"drain", "redrain"}, NEW final,
             RequestDrain(w, next, final)
      PROVE  \A v \in Waiters : Earned(v)
  <2>1. CASE waiter' = [waiter EXCEPT ![w].at = next, ![w].final = final]
    <3>1. \A v \in Waiters : waiter'[v].at = waiter[v].at \/ waiter'[v].at = next
      BY <2>1, <1>t DEF WaiterRecord
    <3> QED
      BY <3>1 DEF Earned
  <2> QED
    BY <1>4, <1>5, <2>1 DEF RequestDrain, Failures
<1>6. ASSUME NEW w \in Waiters, ReaperMark(w) PROVE \A v \in Waiters : Earned(v)
  <2>1. w[1] \in Leases
    BY DEF Waiters
  <2>2. IsClosed(lease'[w[1]]) /\ \A v \in Waiters \ {w} : waiter'[v] = waiter[v]
    BY <1>6, <1>t, <2>1 DEF ReaperMark, MarkClosed, IsClosed, LeaseRecord
  <2> QED
    BY <2>2 DEF Earned
<1>7. ASSUME NEW w \in Waiters, WaiterTracked(w) \/ WaiterTop(w) \/ WaiterPhase(w) \/ WaiterQuiet(w)
      PROVE  \A v \in Waiters : Earned(v)
  BY <1>3, <1>4, <1>5, <1>7
  DEF WaiterTracked, WaiterTop, WaiterPhase, WaiterQuiet
<1>8. ASSUME NEW w \in Waiters,
             WaiterGeneration(w) \/ WaiterCheck(w) \/ WaiterAbort(w) \/ ReaperRelease(w)
      PROVE  \A v \in Waiters : Earned(v)
  BY <1>2, <1>4, <1>8
  DEF WaiterGeneration, WaiterCheck, WaiterAbort, ReaperRelease, IdleWaiter
<1>9. ASSUME NEW w \in Waiters, WaiterRedrained(w) \/ WaiterDeadline(w) \/ WaiterStopped(w)
      PROVE  \A v \in Waiters : Earned(v)
  BY <1>4, <1>9 DEF WaiterRedrained, WaiterDeadline, WaiterStopped, Failures
<1>10. CASE TaskNext
  BY <1>1, <1>6, <1>7, <1>8, <1>9, <1>10
  DEF TaskNext, ConnDeny, ConnEnd, ConnFinish, ConnUntrack
<1>11. ASSUME NEW l \in Leases, CloseCommit(l) \/ CloseFail(l) \/ CloseTimeout(l)
       PROVE  \A v \in Waiters : Earned(v)
  BY <1>2, <1>11 DEF CloseCommit, CloseFail, CloseTimeout, IdleWaiter
<1>12. CASE HostNext
  <2>1. \/ \E l \in Leases : CloseCommit(l) \/ CloseFail(l) \/ CloseTimeout(l)
        \/ UNCHANGED waiter
    BY <1>12
    DEF HostNext, Connect, AttachCall, CloseBegin, CloseSend, CloseRelease, CloseDisconnected,
        DropBegin, DropSend, ShutdownCall, ShutdownExpire, ShutdownJoin, ProxyDrop, taskVars
  <2> QED
    BY <1>1, <1>11, <2>1
<1>13. ASSUME NEW kind, RunClose(kind) PROVE \A v \in Waiters : Earned(v)
  BY <1>2, <1>13 DEF RunClose, IdleWaiter
<1>14. ASSUME NEW c \in Conns, Refuse(c) PROVE \A v \in Waiters : Earned(v)
  <2>1. \A v \in Waiters : waiter'[v].at = waiter[v].at
    BY <1>14, <1>t DEF Refuse, WaiterRecord
  <2> QED
    BY <2>1 DEF Earned
<1>15. ASSUME NEW r \in Results, DrainAnswered(r) PROVE \A v \in Waiters : Earned(v)
  <2> DEFINE w == <<loop.cur.lease, loop.cur.n>>
             at == IF waiter[w].at = "drain" THEN "check" ELSE "redrained"
  <2>1. \/ waiter' = [waiter EXCEPT ![w].at = at]
        \/ UNCHANGED waiter
        \/ Settle(w, "listener", {})
    BY <1>15 DEF DrainAnswered
  <2>2. at # "release"
    OBVIOUS
  <2> HIDE DEF w, at
  <2> QED
    BY <1>1, <1>3, <1>4, <2>1, <2>2 DEF Failures
<1>16. CASE OwnerNext
  <2>1. \/ RunClose("Close") \/ RunClose("Reap") \/ \E c \in Conns : Refuse(c)
        \/ \E r \in Results : DrainAnswered(r)
        \/ UNCHANGED waiter
    BY <1>16
    DEF OwnerNext, RunAttach, RunRelease, RunDrain, RunShutdown, RunRetry, RunAccept, DrainAccept,
        TakeSocket, RunAcceptError, AttachInstall, AttachDrained, DrainAbandoned, DispatchAcquire,
        DispatchAdmit, DispatchReject, ShutdownClose, ShutdownDecide, ShutdownReply, taskVars
  <2> QED
    BY <1>1, <1>13, <1>14, <1>15, <2>1
<1> QED
  BY <1>1, <1>10, <1>12, <1>16 DEF Next, Settled, vars, taskVars

\* The identity a numbered lease was given stays its own.
LEMMA IdentityStays ==
  ASSUME TypeOK, OwnInv, [Next]_vars, NEW l \in Leases, l < nextLeaseId
  PROVE  handle'[l].identity = handle[l].identity
<1>1. HandleMoves
  BY HandleStep
<1>2. ASSUME NEW m \in Leases, NEW at, Changes(m, at)
      PROVE  handle'[l].identity = handle[l].identity
  BY <1>2 DEF Changes
<1>3. ASSUME NEW a \in Addresses, AttachCall(a) PROVE handle'[l].identity = handle[l].identity
  <2>1. l # nextLeaseId /\ handle \in [Leases -> HandleRecord]
    BY SMTT(20), LimitAssumption DEF TypeOK, Leases
  <2> QED
    BY <1>3, <2>1 DEF AttachCall
<1>4. CASE AttachInstall /\ Changes(loop.cur.lease, "held")
  BY <1>2, <1>4 DEF Changes
<1> QED
  BY <1>1, <1>2, <1>3, <1>4 DEF HandleMoves

\* Handles: numbers and identities go together, and a release follows the close.
LEMMA HandlesKept ==
  ASSUME TypeOK, OwnInv, [Next]_vars, \A l \in Leases : Monotone(lease[l], lease'[l]),
         NEW l \in Leases
  PROVE  /\ IF l < nextLeaseId' THEN handle'[l].identity \in Identities
                                ELSE handle'[l].at = "unborn"
         /\ handle'[l].at = "releasing" => IsClosed(lease'[l])
<1>1. HandleMoves
  BY HandleStep
<1>t. /\ handle \in [Leases -> HandleRecord] /\ nextLeaseId \in Nat /\ l \in Nat
      /\ IsClosed(lease[l]) => IsClosed(lease'[l])
  BY SMTT(20), LimitAssumption DEF TypeOK, Leases, Monotone
<1>i. /\ IF l < nextLeaseId THEN handle[l].identity \in Identities ELSE handle[l].at = "unborn"
      /\ handle[l].at = "releasing" => IsClosed(lease[l])
  BY DEF OwnInv
<1>2. ASSUME NEW m \in Leases, NEW at, Changes(m, at), at = "releasing" => IsClosed(lease'[m])
      PROVE  /\ IF l < nextLeaseId' THEN handle'[l].identity \in Identities
                                    ELSE handle'[l].at = "unborn"
             /\ handle'[l].at = "releasing" => IsClosed(lease'[l])
  BY <1>2, <1>t, <1>i DEF Changes
<1>3. ASSUME NEW a \in Addresses, AttachCall(a)
      PROVE  /\ IF l < nextLeaseId' THEN handle'[l].identity \in Identities
                                    ELSE handle'[l].at = "unborn"
             /\ handle'[l].at = "releasing" => IsClosed(lease'[l])
  <2>1. CASE l # nextLeaseId
    <3>1. handle'[l] = handle[l] /\ nextLeaseId' = nextLeaseId + 1
      BY <1>3, <1>t, <2>1 DEF AttachCall
    <3> QED
      BY SMTT(20), <1>t, <1>i, <2>1, <3>1
  <2>2. CASE l = nextLeaseId
    <3>1. handle'[l].at = "attaching" /\ handle'[l].identity = Canonical[a]
      BY <1>3, <1>t, <2>2 DEF AttachCall, HandleRecord
    <3>2. nextLeaseId' = nextLeaseId + 1 /\ Canonical[a] \in Identities
      BY <1>3, AddressAssumption DEF AttachCall
    <3> QED
      BY SMTT(20), <1>t, <2>2, <3>1, <3>2
  <2> QED
    BY <2>1, <2>2
<1>4. CASE UNCHANGED <<handle, nextLeaseId>>
  BY <1>4, <1>t, <1>i
<1>5. CASE AttachInstall /\ Changes(loop.cur.lease, "held")
  BY <1>2, <1>5 DEF Changes
<1> QED
  BY <1>1, <1>2, <1>3, <1>4, <1>5 DEF HandleMoves

\* The command in service stays sound, and an attachment in service keeps its
\* free identity: only its own installation fills it.
LEMMA ServiceKept ==
  ASSUME TypeOK, OwnInv, [Next]_vars, \A l \in Leases : Monotone(lease[l], lease'[l])
  PROVE  /\ Sound(loop.cur)'
         /\ (loop.cur.kind = "Attach" => Replaceable(loop.cur.lease) /\ ~stopping)'
         /\ loop'.at = "install" => loop'.cur.kind = "Attach"
         /\ loop'.at \in Stopping => loop'.cur.kind = "Shutdown"
<1>s. \A m : Sound(m) => Sound(m)'
  BY SoundStays
<1>1. CASE Continues
  <2>1. PICK m : m = loop.cur
    OBVIOUS
  <2>2. Sound(m) /\ Sound(m)' /\ loop'.cur = m
    BY <1>s, <1>1, <2>1 DEF OwnInv, Continues
  <2>3. ASSUME m.kind = "Attach" PROVE Replaceable(m.lease)' /\ ~stopping'
    <3>1. m.lease \in Leases /\ m.lease < nextLeaseId /\ Replaceable(m.lease) /\ ~stopping
      BY <2>1, <2>2, <2>3 DEF Sound, OwnInv
    <3> DEFINE i == handle[m.lease].identity
    <3>2. i \in Identities /\ handle'[m.lease].identity = i
      BY <3>1, IdentityStays DEF OwnInv
    <3>3. registry'[i] \in {registry[i], 0}
      <4>1. CASE RunRelease
        BY <3>2, <4>1 DEF RunRelease, ReleaseIfCurrent, TypeOK
      <4> QED
        BY <1>1, <4>1 DEF Continues
    <3>4. \A k \in Leases : IsClosed(lease[k]) => IsClosed(lease'[k])
      BY DEF Monotone
    <3>5. registry[i] \in {0} \cup {k \in Leases : IsClosed(lease[k])}
      BY <3>1 DEF Replaceable
    <3>6. registry'[handle'[m.lease].identity] \in {0} \cup {k \in Leases : IsClosed(lease'[k])}
      BY <3>2, <3>3, <3>4, <3>5
    <3> QED
      BY <1>1, <3>1, <3>6 DEF Replaceable, Continues, IsClosed
  <2>4. /\ loop'.at = "install" => m.kind = "Attach"
        /\ loop'.at \in Stopping => m.kind = "Shutdown"
    BY <1>1, <2>1 DEF Continues, OwnInv
  <2> QED
    BY <2>2, <2>3, <2>4 DEF Sound, Replaceable
<1>2. CASE Finishes
  BY SMTT(20), <1>2 DEF Finishes, Sound, NoCommand, Command, Stopping
<1>3. CASE Starts
  <2>1. PICK m : m = Head(commands)
    OBVIOUS
  <2>2. Sound(m)
    <3>1. commands[1] = m /\ 1 \in 1..Len(commands)
      BY SMTT(20), <1>3, <2>1 DEF Starts, TypeOK
    <3> QED
      BY <3>1 DEF OwnInv
  <2>3. Sound(m)' /\ loop'.cur = m
    BY <1>s, <1>3, <2>1, <2>2 DEF Starts
  <2>4. m.kind = "Attach" => Replaceable(m.lease)' /\ ~stopping'
    BY <1>3, <2>1 DEF Starts, Replaceable, IsClosed
  <2>5. /\ loop'.at # "install"
        /\ loop'.at \in Stopping => m.kind = "Shutdown"
    BY <1>3, <2>1 DEF Starts, Stopping
  <2> QED
    BY <2>3, <2>4, <2>5 DEF Sound, Replaceable
<1> QED
  BY <1>1, <1>2, <1>3, LoopStep

\* A lease is granted by the installation of its own attachment, and in no other
\* way.
LEMMA GrantStep ==
  ASSUME TypeOK, OwnInv, [Next]_vars, NEW l \in Leases, Granted(l)', ~Granted(l)
  PROVE  AttachInstall /\ l = loop.cur.lease
<1>1. HandleMoves
  BY HandleStep
<1>2. handle'[l].at \notin {"unborn", "attaching", "refused"}
      /\ handle[l].at \in {"unborn", "attaching", "refused"}
  BY DEF Granted
<1>3. ASSUME NEW a \in Addresses, AttachCall(a) PROVE FALSE
  <2>1. handle'[l].at \in {handle[l].at, "attaching"}
    BY <1>3 DEF AttachCall, TypeOK, HandleRecord
  <2> QED
    BY <1>2, <2>1
<1>4. ASSUME NEW m \in Leases, Changes(m, "refused") PROVE FALSE
  BY <1>2, <1>4 DEF Changes
<1>5. ASSUME NEW m \in Leases, NEW at, Changes(m, at), Granted(m) PROVE FALSE
  BY <1>2, <1>5 DEF Changes, Granted
<1>6. CASE AttachInstall /\ Changes(loop.cur.lease, "held")
  BY <1>2, <1>6 DEF Changes
<1> QED
  BY <1>1, <1>2, <1>3, <1>4, <1>5, <1>6 DEF HandleMoves

\* An identity is taken from a lease only after its close.
LEMMA ExclusiveKept ==
  ASSUME TypeOK, OwnInv, [Next]_vars, \A l \in Leases : Monotone(lease[l], lease'[l])
  PROVE  ExclusiveIdentity'
<1> SUFFICES ASSUME NEW l \in Leases, Granted(l)', ~IsClosed(lease'[l])
             PROVE  registry'[handle'[l].identity] = l
  BY DEF ExclusiveIdentity, IsClosed
<1>t. registry \in [Identities -> Leases \cup {0}] /\ 0 \notin Leases /\ commands \in Seq(Commands)
  BY SMTT(20) DEF TypeOK, Leases
<1>o. ~IsClosed(lease[l])
  BY DEF Monotone
<1>1. ASSUME AttachInstall
      PROVE  /\ loop.cur.lease \in Leases /\ Replaceable(loop.cur.lease)
             /\ handle[loop.cur.lease].identity \in Identities
             /\ handle'[loop.cur.lease].identity = handle[loop.cur.lease].identity
             /\ registry' = [registry EXCEPT ![handle[loop.cur.lease].identity] = loop.cur.lease]
  <2>1. loop.cur.kind = "Attach"
    BY <1>1 DEF AttachInstall, OwnInv
  <2>2. loop.cur.lease \in Leases /\ loop.cur.lease < nextLeaseId /\ Replaceable(loop.cur.lease)
    BY <2>1 DEF OwnInv, Sound
  <2> QED
    BY <1>1, <2>2, IdentityStays DEF AttachInstall, OwnInv
<1>2. CASE ~Granted(l)
  BY <1>1, <1>2, <1>t, GrantStep
<1>3. CASE Granted(l)
  <2> DEFINE i == handle[l].identity
  <2>1. l < nextLeaseId /\ i \in Identities
    <3>1. handle[l].at # "unborn"
      BY <1>3 DEF Granted
    <3> QED
      BY <3>1 DEF OwnInv
  <2>2. registry[i] = l /\ handle'[l].identity = i
    BY <1>3, <1>o, <2>1, IdentityStays DEF OwnInv, ExclusiveIdentity
  <2>3. CASE registry' = registry
    BY <2>2, <2>3
  <2>4. CASE RunRelease
    <3> DEFINE k == Head(commands).lease
    <3>1. IsClosed(lease[k])
      <4>1. commands[1] = Head(commands) /\ 1 \in 1..Len(commands) /\ Head(commands).kind = "Release"
        BY SMTT(20), <2>4, <1>t DEF RunRelease, Receive
      <4> QED
        BY <4>1 DEF OwnInv, Sound
    <3>2. k # l
      BY <1>o, <3>1
    <3> QED
      BY <1>t, <2>1, <2>2, <2>4, <3>2 DEF RunRelease, ReleaseIfCurrent
  <2>5. CASE AttachInstall
    <3>1. handle[loop.cur.lease].identity # i
      BY <1>1, <1>o, <1>t, <2>2, <2>5 DEF Replaceable
    <3> QED
      BY <1>1, <1>t, <2>1, <2>2, <2>5, <3>1
  <2>6. registry' = registry \/ RunRelease \/ AttachInstall
    BY LoopStep DEF Continues, Finishes, Starts
  <2> QED
    BY <2>3, <2>4, <2>5, <2>6
<1> QED
  BY <1>2, <1>3

\* The runtime ends for a caller that knows, and that caller stays informed.
LEMMA ExitKept ==
  ASSUME TypeOK, OwnInv, [Next]_vars
  PROVE  ExitIsObserved'
<1> SUFFICES ASSUME loop'.at = "exited" PROVE proxy'.at \in {"joining", "done", "dropped"}
  BY DEF ExitIsObserved, Running
<1>1. CASE loop.at = "exited"
  <2>1. proxy.at \in {"joining", "done", "dropped"}
    BY <1>1 DEF OwnInv, ExitIsObserved, Running
  <2>2. CASE HostNext
    BY <2>1, <2>2
    DEF HostNext, Connect, AttachCall, CloseBegin, CloseSend, CloseCommit, CloseRelease,
        CloseFail, CloseTimeout, CloseDisconnected, DropBegin, DropSend, ShutdownCall,
        ShutdownExpire, ShutdownJoin, ProxyDrop, ProxyIdle, hostVars, TypeOK, ProxyRecord
  <2>3. CASE OwnerNext
    BY <1>1, <2>1, <2>3
    DEF OwnerNext, RunAttach, RunClose, RunRelease, RunDrain, RunShutdown, Receive, RunRetry,
        RunAccept, RunAcceptError, Accepting, DrainAccept, TakeSocket, AttachInstall,
        AttachDrained, DrainAnswered, DrainAbandoned, DrainReady, DispatchAcquire, DispatchAdmit,
        DispatchReject, ShutdownClose, ShutdownDecide, ShutdownReply, hostVars
  <2> QED
    BY <2>1, <2>2, <2>3, TaskFrame DEF Next, Settled, vars, hostVars
<1>2. CASE loop.at # "exited"
  <2>1. \/ proxy'.at = "joining"
        \/ UNCHANGED proxy /\ loop.cur.n = 0 /\ loop.at \in Stopping
    BY <1>2, LoopStep DEF Continues, Finishes, Starts
  <2> QED
    BY <2>1 DEF OwnInv, Sound
<1> QED
  BY <1>1, <1>2

\* The ownership invariant holds in every reachable state.
THEOREM OwnershipInvariant == Spec => []OwnInv
<1>1. Init => OwnInv
  <2> SUFFICES ASSUME Init PROVE OwnInv
    OBVIOUS
  <2>1. \A l \in Leases : l \in Nat /\ ~(l < 1)
    BY SMTT(20) DEF Leases
  <2>2. commands = <<>> /\ Len(commands) = 0 /\ Sound(loop.cur) /\ loop.cur.kind = "None"
    BY DEF Init, Sound, NoCommand, Command
  <2>3. loop.at = "select" /\ \A w \in Waiters : waiter[w].at = "none"
    BY DEF Init, IdleWaiter
  <2>4. nextLeaseId = 1 /\ \A l \in Leases : handle[l].at = "unborn"
    BY DEF Init
  <2> QED
    BY SMTT(20), <2>1, <2>2, <2>3, <2>4 DEF OwnInv, ExclusiveIdentity, Granted, ExitIsObserved, Running, Stopping
<1>2. TypeOK /\ SocketInv /\ CertInv /\ OwnInv /\ [Next]_vars => OwnInv'
  <2> SUFFICES ASSUME TypeOK, SocketInv, CertInv, OwnInv, [Next]_vars PROVE OwnInv'
    OBVIOUS
  <2>1. \A l \in Leases : Monotone(lease[l], lease'[l])
    BY SMTT(20), LeaseStep
  <2>2. /\ \A l \in Leases : IF l < nextLeaseId' THEN handle'[l].identity \in Identities
                                                 ELSE handle'[l].at = "unborn"
        /\ \A l \in Leases : handle'[l].at = "releasing" => IsClosed(lease'[l])
    BY <2>1, HandlesKept
  <2>3. (\A i \in 1..Len(commands) : Sound(commands[i]))'
    BY <2>1, ChannelStep
  <2>4. /\ Sound(loop.cur)'
        /\ (loop.cur.kind = "Attach" => Replaceable(loop.cur.lease) /\ ~stopping)'
        /\ loop'.at = "install" => loop'.cur.kind = "Attach"
        /\ loop'.at \in Stopping => loop'.cur.kind = "Shutdown"
    BY <2>1, ServiceKept
  <2>5. \A w \in Waiters : waiter'[w].at = "release" => IsClosed(lease'[w[1]])
    <3>1. \A w \in Waiters : w[1] \in Leases
      BY DEF Waiters
    <3> QED
      BY <2>1, <3>1, ReaperEarns DEF Earned, Monotone, OwnInv
  <2>6. ExclusiveIdentity' /\ ExitIsObserved'
    BY <2>1, ExclusiveKept, ExitKept
  <2> QED
    BY <2>2, <2>3, <2>4, <2>5, <2>6 DEF OwnInv, Sound, Replaceable, IsClosed
<1> QED
  <2>1. CloseInv /\ OwnInv /\ [Next]_vars => OwnInv'
    BY <1>2 DEF CloseInv
  <2> QED
    BY <1>1, <2>1, CloseInvariant, PTL DEF Spec

\* What is known of the runtime so far.
RuntimeInv == TypeOK /\ SocketInv /\ CertInv /\ OwnInv

\* Types, sockets, certificates and ownership, in one invariant.
LEMMA RuntimeInvariant == Spec => []RuntimeInv
<1>1. CloseInv /\ OwnInv => RuntimeInv
  BY DEF CloseInv, RuntimeInv
<1> QED
  BY <1>1, CloseInvariant, OwnershipInvariant, PTL

\* From its installation to its close, a lease's identity is registered to it and
\* to no other, whatever is released late, requeued or replaced.
THEOREM IdentitiesAreExclusive == Spec => []ExclusiveIdentity
<1>1. OwnInv => ExclusiveIdentity
  BY DEF OwnInv
<1> QED
  BY <1>1, OwnershipInvariant, PTL

\* The runtime stops only for a caller that received a shutdown certificate, or
\* for a dropped proxy.
THEOREM ExitsAreObserved == Spec => []ExitIsObserved
<1>1. OwnInv => ExitIsObserved
  BY DEF OwnInv
<1> QED
  BY <1>1, OwnershipInvariant, PTL

\* Once `stopping` is set it stays set, and no lease is granted any more.
THEOREM StoppingIsIrreversible == Spec => StoppingIsFinal
<1>1. TypeOK /\ OwnInv /\ [Next]_vars =>
        [stopping => stopping' /\ \A l \in Leases : Granted(l)' => Granted(l)]_vars
  <2> SUFFICES ASSUME TypeOK, OwnInv, [Next]_vars, stopping
               PROVE  stopping' /\ \A l \in Leases : Granted(l)' => Granted(l)
    OBVIOUS
  <2>1. stopping'
    BY LoopStep DEF Continues, Finishes, Starts
  <2>2. ~AttachInstall
    BY DEF AttachInstall, OwnInv
  <2> QED
    BY <2>1, <2>2, GrantStep
<1> QED
  BY <1>1, OwnershipInvariant, TypeCorrect, PTL DEF Spec, StoppingIsFinal

===============================================================================
