-------------------------- MODULE CertificateProofs ---------------------------
(***************************************************************************)
(* Theorems about ProxyRuntime, for any number of leases, sockets,         *)
(* identities, close calls and shutdowns, any limits and any batch size.   *)
(* Here: types, and what a certificate is worth: once a lease's counters   *)
(* are final, none of its tasks is left and the counters never change      *)
(* again, and the certificate a close returns states them.                 *)
(***************************************************************************)
EXTENDS ProxyRuntime, FiniteSetTheorems, TLAPS

USE ZenonT(30), SMTT(20)

\* The critical sections of LeaseState map lease records to lease records.
LEMMA LeaseOperators ==
  ASSUME NEW s \in LeaseRecord
  PROVE  /\ NewLease \in LeaseRecord
         /\ BeginClose(s) \in LeaseRecord
         /\ MarkClosed(s) \in LeaseRecord
         /\ Quiesce(s) \in LeaseRecord
         /\ RevocationGeneration(s) \in 0..MaxGeneration
         /\ RecordUnadmitted(s) \in LeaseRecord
         /\ RecordDenial(s) \in LeaseRecord
         /\ FinishCounters(s) \in LeaseRecord
         /\ s.usage \in Usage
         /\ \A c \in Conns :
              /\ TakePermit(s, c) \in LeaseRecord /\ DropPermit(s, c) \in LeaseRecord
              /\ Admit(s, c) \in LeaseRecord /\ DropAdmission(s, c) \in LeaseRecord
<1> USE DEF LeaseRecord, Usage, Phases
<1>1. NewLease \in LeaseRecord
  BY SMTT(20), GenerationAssumption DEF NewLease
<1>2. BeginClose(s) \in LeaseRecord /\ MarkClosed(s) \in LeaseRecord /\ Quiesce(s) \in LeaseRecord
  BY DEF BeginClose, MarkClosed, Quiesce
<1>3. RevocationGeneration(s) \in 0..MaxGeneration
  BY SMTT(20), GenerationAssumption DEF RevocationGeneration
<1>4. RecordUnadmitted(s) \in LeaseRecord
  <2>1. s.usage.denied + 1 \in Nat /\ (s.generation < MaxGeneration => s.generation + 1 \in 0..MaxGeneration)
    BY SMTT(20), GenerationAssumption
  <2> QED
    BY <2>1 DEF RecordUnadmitted
<1>5. ASSUME NEW c \in Conns
      PROVE  TakePermit(s, c) \in LeaseRecord /\ DropPermit(s, c) \in LeaseRecord
  BY DEF TakePermit, DropPermit
<1>6. ASSUME NEW c \in Conns
      PROVE  Admit(s, c) \in LeaseRecord /\ DropAdmission(s, c) \in LeaseRecord
  <2>1. ASSUME NEW u \in Usage PROVE CountAdmission(u) \in Usage
    <3>1. u.accepted + 1 \in Nat /\ u.active + 1 \in Int /\ u.denied \in Nat
      BY SMTT(20)
    <3> QED
      BY <3>1 DEF CountAdmission
  <2>2. CountAdmission(s.usage) \in Usage
    BY <2>1
  <2> QED
    BY <2>2 DEF Admit, DropAdmission
<1>7. RecordDenial(s) \in LeaseRecord /\ FinishCounters(s) \in LeaseRecord
  BY SMTT(20) DEF RecordDenial, FinishCounters
<1>8. s.usage \in Usage
  OBVIOUS
<1> QED
  BY <1>1, <1>2, <1>3, <1>4, <1>5, <1>6, <1>7, <1>8

\* Sequences of commands and of sockets stay such under the channel operations.
LEMMA Channels ==
  ASSUME NEW S, NEW q \in Seq(S)
  PROVE  /\ \A e \in S : Append(q, e) \in Seq(S)
         /\ q # <<>> => Head(q) \in S /\ Tail(q) \in Seq(S)
         /\ <<>> \in Seq(S)
BY SMTT(20)

\* The records that actions build have their types.
LEMMA BuiltRecords ==
  /\ \A k \in {"Attach", "Close", "Reap", "Release", "Shutdown", "Drain", "None"},
        l \in Leases \cup {0}, n \in Nat : Command(k, l, n) \in Commands
  /\ Idle \in LoopRecord /\ NoCommand \in Commands
  /\ \A at \in {"away", "refused", "gone"} : GoneSocket(at) \in ConnRecord
  /\ \A at \in {"none", "track", "top", "mark", "ok", "done"} \cup Failures :
       IdleWaiter(at) \in WaiterRecord
<1>1. \A k \in {"Attach", "Close", "Reap", "Release", "Shutdown", "Drain", "None"},
         l \in Leases \cup {0}, n \in Nat : Command(k, l, n) \in Commands
  BY DEF Command, Commands
<1>2. NoCommand \in Commands
  BY <1>1 DEF NoCommand
<1>3. Idle \in LoopRecord
  BY SMTT(20), <1>2, LimitAssumption DEF Idle, LoopRecord
<1>4. \A at \in {"away", "refused", "gone"} : GoneSocket(at) \in ConnRecord
  BY SMTT(20), LimitAssumption DEF GoneSocket, ConnRecord
<1>5. \A at \in {"none", "track", "top", "mark", "ok", "done"} \cup Failures :
        IdleWaiter(at) \in WaiterRecord
  BY SMTT(20), GenerationAssumption DEF IdleWaiter, WaiterRecord, LiveWaiter
<1> QED
  BY <1>1, <1>2, <1>3, <1>4, <1>5

\* A settled waiter keeps its type.
LEMMA SettleType ==
  ASSUME waiter \in [Waiters -> WaiterRecord],
         NEW w, NEW result \in Failures \cup {"ok"}, NEW final \in SUBSET Usage,
         Settle(w, result, final)
  PROVE  waiter' \in [Waiters -> WaiterRecord]
<1>1. Outcome(w, result) \in {"mark", "ok", "done"} \cup Failures
  BY DEF Outcome
<1>2. IdleWaiter(Outcome(w, result)) \in WaiterRecord
  BY <1>1, BuiltRecords
<1>3. [IdleWaiter(Outcome(w, result)) EXCEPT
         !.final = IF Outcome(w, result) = "ok" THEN final ELSE {}] \in WaiterRecord
  BY <1>2 DEF WaiterRecord
<1> QED
  BY <1>3 DEF Settle

\* The state run_proxy starts in is well typed.
LEMMA TypeInit == Init => TypeOK
<1> SUFFICES ASSUME Init PROVE TypeOK
  OBVIOUS
<1>1. lease \in [Leases -> LeaseRecord]
  BY SMTT(20), GenerationAssumption DEF Init, NewLease, LeaseRecord, Usage, Phases
<1>2. nextLeaseId \in 1..MaxLeaseId /\ errors \in 0..MaxAcceptErrors
  BY SMTT(20), LimitAssumption, BoundAssumption DEF Init
<1>3. handle \in [Leases -> HandleRecord] /\ proxy \in ProxyRecord
  BY SMTT(20), BoundAssumption DEF Init, HandleRecord, ProxyRecord
<1>4. commands \in Seq(Commands) /\ backlog \in Seq(Conns)
  BY SMTT(20) DEF Init
<1>5. backoff \in BackoffRecord
  BY SMTT(20) DEF Init, NoBackoff, BackoffRecord, AcceptRetryMax
<1>6. loop \in LoopRecord
  BY BuiltRecords DEF Init, Idle
<1>7. conn \in [Conns -> ConnRecord] /\ waiter \in [Waiters -> WaiterRecord]
  BY BuiltRecords DEF Init
<1> QED
  BY <1>1, <1>2, <1>3, <1>4, <1>5, <1>6, <1>7 DEF Init, TypeOK

\* Sending a command keeps the channel well typed.
LEMMA SendType ==
  ASSUME commands \in Seq(Commands), NEW m \in Commands, Send(m)
  PROVE  commands' \in Seq(Commands)
BY Channels DEF Send

\* Calls of attach, close, drop and shutdown keep the types.
LEMMA TypeHost == TypeOK /\ HostNext => TypeOK'
<1> SUFFICES ASSUME TypeOK, HostNext PROVE TypeOK'
  OBVIOUS
<1>h. handle \in [Leases -> HandleRecord]
  BY DEF TypeOK
<1>l. lease \in [Leases -> LeaseRecord]
  BY DEF TypeOK
<1>w. waiter \in [Waiters -> WaiterRecord]
  BY DEF TypeOK
<1>q. commands \in Seq(Commands)
  BY DEF TypeOK
<1>1. ASSUME NEW c \in Conns, Connect(c) PROVE TypeOK'
  <2>1. [at |-> "queued", lease |-> 0, born |-> nextLeaseId,
         late |-> Target(c) # 0 /\ lease[Target(c)].phase # "Open"] \in ConnRecord
    BY SMTT(20), LimitAssumption DEF ConnRecord, TypeOK
  <2>2. conn' \in [Conns -> ConnRecord] /\ backlog' \in Seq(Conns)
    BY <1>1, <2>1, Channels DEF Connect, TypeOK
  <2> QED
    BY <1>1, <2>2 DEF Connect, hostVars, ownerVars, TypeOK
<1>2. ASSUME NEW a \in Addresses, AttachCall(a) PROVE TypeOK'
  <2>1. nextLeaseId \in Leases /\ nextLeaseId' \in 1..MaxLeaseId
    BY SMTT(20), <1>2, LimitAssumption DEF AttachCall, Leases, TypeOK
  <2>2. handle' \in [Leases -> HandleRecord]
    <3>1. PICK id \in Identities \cup {NoIdentity} :
            handle' = [handle EXCEPT ![nextLeaseId].at = "attaching",
                                     ![nextLeaseId].identity = id]
      <4>1. Canonical[a] \in Identities \cup {NoIdentity}
        BY AddressAssumption
      <4> QED
        BY <1>2, <4>1 DEF AttachCall
    <3> QED
      BY <1>h, <2>1, <3>1 DEF HandleRecord
  <2>3. commands' \in Seq(Commands)
    BY <1>2, <1>q, <2>1, SendType, BuiltRecords DEF AttachCall
  <2> QED
    BY <1>2, <2>1, <2>2, <2>3 DEF AttachCall, ownerVars, taskVars, TypeOK
<1>3. ASSUME NEW l \in Leases, TakeClosedUsage(l) \/ RuntimeStoppedOrClosed(l)
      PROVE  handle' \in [Leases -> HandleRecord]
  <2> DEFINE cert == {lease[l].usage}
  <2>1. cert \in SUBSET Usage
    BY <1>l DEF LeaseRecord
  <2>2. \/ handle' = [handle EXCEPT ![l].at = "gone", ![l].certificate = cert]
        \/ handle' = [handle EXCEPT ![l].at = "held"]
    BY <1>3 DEF TakeClosedUsage, RuntimeStoppedOrClosed
  <2> HIDE DEF cert
  <2> QED
    BY SMTT(20), <1>h, <2>1, <2>2 DEF HandleRecord
<1>4. ASSUME NEW l \in Leases, CloseBegin(l) PROVE TypeOK'
  <2>1. handle' \in [Leases -> HandleRecord]
    <3>1. CASE TakeClosedUsage(l)
      BY <1>3, <3>1
    <3>2. CASE handle' = [handle EXCEPT ![l].at = "sending", ![l].closes = @ + 1]
      <4>1. handle[l].closes < MaxCloses
        BY <1>4 DEF CloseBegin
      <4> QED
        BY SMTT(20), <1>h, <3>2, <4>1, BoundAssumption DEF HandleRecord
    <3> QED
      BY <1>4, <3>1, <3>2 DEF CloseBegin
  <2>2. lease' \in [Leases -> LeaseRecord]
    BY SMTT(20), <1>4, <1>l, LeaseOperators DEF CloseBegin
  <2> QED
    BY <1>4, <2>1, <2>2 DEF CloseBegin, ownerVars, taskVars, TypeOK
<1>5. ASSUME NEW l \in Leases, CloseSend(l) PROVE TypeOK'
  <2>1. Command("Close", l, handle[l].closes) \in Commands
    BY SMTT(20), <1>h, BuiltRecords DEF HandleRecord
  <2>2. handle' \in [Leases -> HandleRecord]
    <3>1. handle' = [handle EXCEPT ![l].at = "waiting"] \/ RuntimeStoppedOrClosed(l)
      BY <1>5 DEF CloseSend
    <3> QED
      BY SMTT(20), <1>3, <1>h, <3>1 DEF HandleRecord
  <2>3. commands' \in Seq(Commands)
    BY <1>5, <1>q, <2>1, SendType DEF CloseSend
  <2> QED
    BY <1>5, <2>2, <2>3 DEF CloseSend, ownerVars, taskVars, TypeOK
<1>6. ASSUME NEW l \in Leases, CloseCommit(l) PROVE TypeOK'
  <2> DEFINE cert == waiter[Current(l)].final
  <2>1. cert \in SUBSET Usage
    BY <1>h, <1>w DEF WaiterRecord, Current, Waiters, HandleRecord
  <2>2. handle' = [handle EXCEPT ![l].at = "releasing", ![l].certificate = cert]
    BY <1>6 DEF CloseCommit
  <2> HIDE DEF cert
  <2>3. handle' \in [Leases -> HandleRecord]
    BY <1>h, <2>1, <2>2 DEF HandleRecord
  <2>4. waiter' \in [Waiters -> WaiterRecord]
    BY <1>6, <1>w, BuiltRecords DEF CloseCommit
  <2>5. lease' \in [Leases -> LeaseRecord]
    BY <1>6, <1>l, LeaseOperators DEF CloseCommit
  <2> QED
    BY <1>6, <2>3, <2>4, <2>5 DEF CloseCommit, ownerVars, TypeOK
<1>7. ASSUME NEW l \in Leases, CloseRelease(l) \/ DropSend(l) PROVE TypeOK'
  <2>1. Command("Release", l, 0) \in Commands /\ Command("Reap", l, 0) \in Commands
    BY BuiltRecords
  <2>2. handle' \in [Leases -> HandleRecord]
    <3>1. handle' = [handle EXCEPT ![l].at = "gone"]
      BY <1>7 DEF CloseRelease, DropSend
    <3> QED
      BY <1>h, <3>1 DEF HandleRecord
  <2>3. commands' \in Seq(Commands)
    BY <1>7, <1>q, <2>1, SendType DEF CloseRelease, DropSend
  <2> QED
    BY <1>7, <2>2, <2>3 DEF CloseRelease, DropSend, ownerVars, taskVars, TypeOK
<1>8. ASSUME NEW l \in Leases, CloseFail(l) \/ CloseTimeout(l) PROVE TypeOK'
  <2>1. waiter' \in [Waiters -> WaiterRecord]
    BY SMTT(20), <1>8, <1>w, BuiltRecords DEF CloseFail, CloseTimeout
  <2>2. handle' \in [Leases -> HandleRecord]
    <3>1. handle' = [handle EXCEPT ![l].at = "held"]
      BY <1>8 DEF CloseFail, CloseTimeout
    <3> QED
      BY <1>h, <3>1 DEF HandleRecord
  <2> QED
    BY <1>8, <2>1, <2>2 DEF CloseFail, CloseTimeout, ownerVars, TypeOK
<1>9. ASSUME NEW l \in Leases, CloseDisconnected(l) \/ DropBegin(l) PROVE TypeOK'
  <2>1. handle' \in [Leases -> HandleRecord]
    <3>1. RuntimeStoppedOrClosed(l) \/ handle' = [handle EXCEPT ![l].at = "dropping"]
      BY <1>9 DEF CloseDisconnected, DropBegin
    <3> QED
      BY SMTT(20), <1>3, <1>h, <3>1 DEF HandleRecord
  <2>2. lease' \in [Leases -> LeaseRecord]
    BY SMTT(20), <1>9, <1>l, LeaseOperators DEF CloseDisconnected, DropBegin
  <2> QED
    BY <1>9, <2>1, <2>2 DEF CloseDisconnected, DropBegin, ownerVars, taskVars, TypeOK
<1>10. ASSUME ShutdownCall \/ ShutdownExpire \/ ShutdownJoin \/ ProxyDrop PROVE TypeOK'
  <2>1. proxy' \in ProxyRecord
    BY SMTT(20), <1>10, BoundAssumption
    DEF ShutdownCall, ShutdownExpire, ShutdownJoin, ProxyDrop, ProxyRecord, TypeOK
  <2>2. proxy.shutdowns + 1 \in Nat
    BY SMTT(20) DEF ProxyRecord, TypeOK
  <2>3. Command("Shutdown", 0, 0) \in Commands
        /\ Command("Shutdown", 0, proxy.shutdowns + 1) \in Commands
    BY <2>2, BuiltRecords
  <2>4. commands' \in Seq(Commands)
    BY <1>10, <1>q, <2>3, SendType DEF ShutdownCall, ShutdownExpire, ShutdownJoin, ProxyDrop
  <2> QED
    BY <1>10, <2>1, <2>4
    DEF ShutdownCall, ShutdownExpire, ShutdownJoin, ProxyDrop, ownerVars, taskVars, TypeOK
<1> QED
  BY <1>1, <1>2, <1>4, <1>5, <1>6, <1>7, <1>8, <1>9, <1>10 DEF HostNext

\* Steps of connection tasks, close waiters and reapers keep the types.
LEMMA TypeTask == TypeOK /\ TaskNext => TypeOK'
<1> SUFFICES ASSUME TypeOK, TaskNext PROVE TypeOK'
  OBVIOUS
<1>l. lease \in [Leases -> LeaseRecord]
  BY DEF TypeOK
<1>c. conn \in [Conns -> ConnRecord]
  BY DEF TypeOK
<1>w. waiter \in [Waiters -> WaiterRecord]
  BY DEF TypeOK
<1>q. commands \in Seq(Commands)
  BY DEF TypeOK
<1>1. ASSUME NEW c \in Conns, ConnDeny(c) \/ ConnFinish(c) \/ ConnUntrack(c) \/ ConnEnd(c)
      PROVE  TypeOK'
  <2>1. lease' \in [Leases -> LeaseRecord]
    BY SMTT(20), <1>1, <1>l, LeaseOperators DEF ConnDeny, ConnFinish, ConnUntrack, ConnEnd
  <2>2. conn' \in [Conns -> ConnRecord]
    <3>1. \/ \E at \in {"denied", "finished", "ended"} : conn' = [conn EXCEPT ![c].at = at]
          \/ conn' = [conn EXCEPT ![c] = GoneSocket("gone")]
      BY <1>1 DEF ConnDeny, ConnFinish, ConnUntrack, ConnEnd
    <3> QED
      BY SMTT(20), <1>c, <3>1, BuiltRecords DEF ConnRecord, LiveTask
  <2> QED
    BY <1>1, <2>1, <2>2
    DEF ConnDeny, ConnFinish, ConnUntrack, ConnEnd, hostVars, ownerVars, TypeOK
<1>2. ASSUME NEW w \in Waiters PROVE w[1] \in Leases /\ w[2] \in 0..MaxCloses
  BY DEF Waiters
<1>3. ASSUME NEW w \in Waiters,
             NEW at \in {"top", "phase", "generation", "release"},
             waiter' = [waiter EXCEPT ![w].at = at]
      PROVE  waiter' \in [Waiters -> WaiterRecord]
  BY <1>w, <1>3 DEF WaiterRecord, LiveWaiter
<1>4. ASSUME NEW w \in Waiters PROVE {lease[w[1]].usage} \in SUBSET Usage /\ {} \in SUBSET Usage
  BY <1>2, <1>l, LeaseOperators
<1>5. ASSUME NEW w \in Waiters, NEW next \in {"drain", "redrain"}, NEW final \in SUBSET Usage,
             RequestDrain(w, next, final)
      PROVE  waiter' \in [Waiters -> WaiterRecord] /\ commands' \in Seq(Commands)
  <2>1. CASE Settle(w, "stopped", {}) /\ UNCHANGED commands
    <3>1. "stopped" \in Failures
      BY DEF Failures
    <3> QED
      BY <1>4, <1>q, <1>w, <2>1, <3>1, SettleType
  <2>2. CASE /\ commands' = Append(commands, Command("Drain", w[1], w[2]))
             /\ waiter' = [waiter EXCEPT ![w].at = next, ![w].final = final]
    <3>1. Command("Drain", w[1], w[2]) \in Commands
      BY SMTT(20), <1>2, BuiltRecords
    <3>2. commands' \in Seq(Commands)
      BY <1>q, <2>2, <3>1, Channels
    <3>3. ASSUME NEW r \in WaiterRecord
          PROVE  [r EXCEPT !.at = next] \in WaiterRecord /\ [r EXCEPT !.final = final] \in WaiterRecord
      BY DEF WaiterRecord, LiveWaiter
    <3>4. waiter' \in [Waiters -> WaiterRecord]
      BY <1>w, <2>2, <3>3
    <3> QED
      BY <3>2, <3>4
  <2> QED
    BY <1>5, <2>1, <2>2 DEF RequestDrain
<1>6. ASSUME NEW w \in Waiters, WaiterTracked(w) \/ WaiterTop(w) PROVE TypeOK'
  <2>1. waiter' \in [Waiters -> WaiterRecord]
    <3>1. CASE Settle(w, "ok", {lease[w[1]].usage})
      BY <1>4, <1>w, <3>1, SettleType
    <3> QED
      BY <1>3, <1>6, <3>1 DEF WaiterTracked, WaiterTop
  <2> QED
    BY <1>6, <2>1 DEF WaiterTracked, WaiterTop, hostVars, ownerVars, TypeOK
<1>7. ASSUME NEW w \in Waiters, WaiterPhase(w) \/ WaiterQuiet(w) PROVE TypeOK'
  <2>1. waiter' \in [Waiters -> WaiterRecord] /\ commands' \in Seq(Commands)
    <3>1. \/ RequestDrain(w, "redrain", {lease[w[1]].usage})
          \/ RequestDrain(w, "drain", {})
          \/ waiter' = [waiter EXCEPT ![w].at = "generation"] /\ UNCHANGED commands
      BY <1>7 DEF WaiterPhase, WaiterQuiet
    <3> QED
      BY <1>3, <1>4, <1>5, <1>q, <3>1
  <2> QED
    BY <1>7, <2>1 DEF WaiterPhase, WaiterQuiet, hostVars, ownerVars, TypeOK
<1>8. ASSUME NEW w \in Waiters, WaiterGeneration(w) PROVE TypeOK'
  <2>1. RevocationGeneration(lease[w[1]]) \in 0..MaxGeneration
    BY <1>2, <1>l, LeaseOperators
  <2>2. [at |-> "quiet", before |-> RevocationGeneration(lease[w[1]]), final |-> {},
         quiet |-> TRUE] \in WaiterRecord
    BY <2>1 DEF WaiterRecord, LiveWaiter
  <2>3. waiter' \in [Waiters -> WaiterRecord]
    BY <1>8, <1>w, <2>2 DEF WaiterGeneration
  <2> QED
    BY <1>8, <2>3 DEF WaiterGeneration, hostVars, ownerVars, TypeOK
<1>9. ASSUME NEW w \in Waiters, WaiterCheck(w) PROVE TypeOK'
  <2>1. waiter' \in [Waiters -> WaiterRecord]
    <3>1. CASE Settle(w, "ok", {lease[w[1]].usage})
      BY <1>4, <1>w, <3>1, SettleType
    <3>2. CASE waiter' = [waiter EXCEPT ![w] = IdleWaiter("top")]
      BY <1>w, <3>2, BuiltRecords
    <3> QED
      BY <1>9, <3>1, <3>2 DEF WaiterCheck
  <2>2. lease' \in [Leases -> LeaseRecord]
    BY SMTT(20), <1>9, <1>l, LeaseOperators DEF WaiterCheck
  <2> QED
    BY <1>9, <2>1, <2>2 DEF WaiterCheck, hostVars, ownerVars, TypeOK
<1>10. ASSUME NEW w \in Waiters,
              WaiterRedrained(w) \/ WaiterDeadline(w) \/ WaiterStopped(w) \/ WaiterAbort(w)
       PROVE  TypeOK'
  <2>1. waiter[w].final \in SUBSET Usage
    BY SMTT(20), <1>w DEF WaiterRecord
  <2>2. waiter' \in [Waiters -> WaiterRecord]
    <3>1. \/ Settle(w, "ok", waiter[w].final)
          \/ Settle(w, "deadline", {}) \/ Settle(w, "stopped", {})
          \/ waiter' = [waiter EXCEPT ![w] = IdleWaiter("done")]
      BY <1>10 DEF WaiterRedrained, WaiterDeadline, WaiterStopped, WaiterAbort
    <3>2. {"deadline", "stopped"} \subseteq Failures
      BY DEF Failures
    <3> QED
      BY <1>4, <1>w, <2>1, <3>1, <3>2, SettleType, BuiltRecords
  <2> QED
    BY <1>10, <2>2
    DEF WaiterRedrained, WaiterDeadline, WaiterStopped, WaiterAbort, hostVars, ownerVars, TypeOK
<1>11. ASSUME NEW w \in Waiters, ReaperMark(w) \/ ReaperRelease(w) PROVE TypeOK'
  <2>1. waiter' \in [Waiters -> WaiterRecord]
    BY SMTT(20), <1>3, <1>11, <1>w, BuiltRecords DEF ReaperMark, ReaperRelease
  <2>2. lease' \in [Leases -> LeaseRecord]
    BY SMTT(20), <1>11, <1>l, LeaseOperators DEF ReaperMark, ReaperRelease
  <2>3. commands' \in Seq(Commands)
    <3>1. Command("Release", w[1], 0) \in Commands
      BY <1>2, BuiltRecords
    <3> QED
      BY <1>11, <1>q, <3>1, SendType DEF ReaperMark, ReaperRelease
  <2> QED
    BY <1>11, <2>1, <2>2, <2>3 DEF ReaperMark, ReaperRelease, hostVars, ownerVars, TypeOK
<1> QED
  BY <1>1, <1>6, <1>7, <1>8, <1>9, <1>10, <1>11 DEF TaskNext

\* Steps of the listener-owner loop, run_proxy, keep the types.
LEMMA TypeOwner == TypeOK /\ OwnerNext => TypeOK'
<1> SUFFICES ASSUME TypeOK, OwnerNext PROVE TypeOK'
  OBVIOUS
<1>h. handle \in [Leases -> HandleRecord]
  BY DEF TypeOK
<1>l. lease \in [Leases -> LeaseRecord]
  BY DEF TypeOK
<1>c. conn \in [Conns -> ConnRecord]
  BY DEF TypeOK
<1>w. waiter \in [Waiters -> WaiterRecord]
  BY DEF TypeOK
<1>q. commands \in Seq(Commands) /\ backlog \in Seq(Conns)
  BY DEF TypeOK
<1>p. loop \in LoopRecord
  BY DEF TypeOK
<1>r. registry \in [Identities -> Leases \cup {0}] /\ Registered \in SUBSET Leases
  BY SMTT(20) DEF TypeOK, Registered
<1>b. /\ BackoffFail(backoff) \in BackoffRecord /\ BackoffResume(backoff) \in BackoffRecord
      /\ BackoffRecover(backoff) \in BackoffRecord
  <2>1. backoff \in BackoffRecord
    BY DEF TypeOK
  <2>2. NextDelay(backoff.delay) \in 0..AcceptRetryMax
    BY SMTT(20), <2>1 DEF BackoffRecord, NextDelay, AcceptRetryInitial, AcceptRetryMax
  <2>3. 0 \in 0..AcceptRetryMax
    BY SMTT(20) DEF AcceptRetryMax
  <2> QED
    BY <2>1, <2>2, <2>3 DEF BackoffRecord, BackoffFail, BackoffResume, BackoffRecover
<1>k. ASSUME NEW kind, Receive(kind)
      PROVE  Head(commands) \in Commands /\ commands' \in Seq(Commands)
  BY <1>k, <1>q, Channels DEF Receive
<1>1. CASE RunAttach
  <2>1. handle' \in [Leases -> HandleRecord]
    <3>1. \/ handle' = [handle EXCEPT ![Head(commands).lease].at = "refused"]
          \/ UNCHANGED handle
      BY <1>1 DEF RunAttach
    <3> QED
      BY SMTT(20), <1>h, <3>1 DEF HandleRecord
  <2>2. loop' \in LoopRecord
    BY <1>1, <1>k, <1>p DEF RunAttach, LoopRecord
  <2> QED
    BY <1>1, <1>k, <2>1, <2>2 DEF RunAttach, taskVars, TypeOK
<1>2. ASSUME NEW kind, RunClose(kind) PROVE TypeOK'
  <2>1. lease' \in [Leases -> LeaseRecord]
    BY <1>2, <1>l, LeaseOperators DEF RunClose
  <2>2. waiter' \in [Waiters -> WaiterRecord]
    BY <1>2, <1>w, BuiltRecords DEF RunClose
  <2> QED
    BY <1>2, <1>k, <2>1, <2>2 DEF RunClose, hostVars, ownerVars, TypeOK
<1>3. CASE RunRelease
  <2>1. registry' \in [Identities -> Leases \cup {0}]
    BY <1>3, <1>r DEF RunRelease, ReleaseIfCurrent
  <2> QED
    BY <1>3, <1>k, <2>1 DEF RunRelease, hostVars, taskVars, TypeOK
<1>4. CASE RunDrain
  <2>1. loop' \in LoopRecord
    BY <1>4, <1>k, <1>p DEF RunDrain, LoopRecord
  <2> QED
    BY <1>4, <1>k, <2>1 DEF RunDrain, hostVars, taskVars, TypeOK
<1>5. CASE RunShutdown
  <2>1. loop' \in LoopRecord
    BY <1>5, <1>k, <1>p, <1>r DEF RunShutdown, LoopRecord
  <2>2. lease' \in [Leases -> LeaseRecord]
    BY <1>5, <1>l, LeaseOperators DEF RunShutdown
  <2> QED
    BY <1>5, <1>k, <2>1, <2>2 DEF RunShutdown, hostVars, taskVars, TypeOK
<1>6. CASE RunRetry \/ RunAcceptError
  <2>1. errors' \in 0..MaxAcceptErrors
    BY SMTT(20), <1>6, BoundAssumption DEF RunRetry, RunAcceptError, TypeOK
  <2> QED
    BY <1>6, <1>b, <2>1 DEF RunRetry, RunAcceptError, hostVars, taskVars, TypeOK
<1>7. CASE RunAccept \/ DrainAccept
  <2>1. backlog # <<>> /\ Head(backlog) \in Conns /\ backlog' \in Seq(Conns)
    <3>1. backlog # <<>> /\ backlog' = Tail(backlog)
      BY <1>7 DEF RunAccept, DrainAccept, TakeSocket
    <3> QED
      BY <1>q, <3>1, Channels
  <2>2. conn' \in [Conns -> ConnRecord]
    <3>1. conn' = [conn EXCEPT ![Head(backlog)].at = "dispatch", ![Head(backlog)].late = FALSE]
      BY <1>7 DEF RunAccept, DrainAccept, TakeSocket
    <3> QED
      BY SMTT(20), <1>c, <2>1, <3>1 DEF ConnRecord
  <2>3. loop' \in LoopRecord
    <3>1. CASE loop' = [loop EXCEPT !.at = "dispatch"]
      BY <1>p, <3>1 DEF LoopRecord
    <3>2. CASE loop' = [loop EXCEPT !.at = "dispatch", !.batch = @ + 1]
               /\ loop.batch < AcceptDrainBatch
      <4>1. loop.batch + 1 \in 0..AcceptDrainBatch
        BY SMTT(20), <1>p, <3>2, LimitAssumption DEF LoopRecord
      <4> QED
        BY <1>p, <3>2, <4>1 DEF LoopRecord
    <3> QED
      BY <1>7, <3>1, <3>2 DEF RunAccept, DrainAccept
  <2> QED
    BY <1>7, <1>b, <2>1, <2>2, <2>3 DEF RunAccept, DrainAccept, TakeSocket, hostVars, TypeOK
<1>8. ASSUME NEW r \in Results, DrainReady(r)
      PROVE  errors' \in 0..MaxAcceptErrors
  BY SMTT(20), <1>8, BoundAssumption DEF DrainReady, Results, TypeOK
<1>9. ASSUME NEW r \in Results, DrainNoted(r)
      PROVE  backoff' \in BackoffRecord /\ commands' \in Seq(Commands)
  <2>1. loop.cur \in Commands
    BY <1>p DEF LoopRecord
  <2> QED
    BY <1>9, <1>b, <1>q, <2>1, Channels DEF DrainNoted
<1>10. ASSUME NEW r \in Results, AttachDrained(r) PROVE TypeOK'
  <2>1. handle' \in [Leases -> HandleRecord]
    <3>1. \/ handle' = [handle EXCEPT ![loop.cur.lease].at = "refused"]
          \/ UNCHANGED handle
      BY <1>10 DEF AttachDrained
    <3> QED
      BY SMTT(20), <1>h, <3>1 DEF HandleRecord
  <2>2. loop' \in LoopRecord
    <3>1. [loop EXCEPT !.at = "install", !.batch = 0] \in LoopRecord
      <4>1. 0 \in 0..AcceptDrainBatch
        BY SMTT(20), LimitAssumption
      <4> QED
        BY <1>p, <4>1 DEF LoopRecord
    <3> QED
      BY <1>10, <3>1, BuiltRecords DEF AttachDrained
  <2> QED
    BY <1>8, <1>9, <1>10, <2>1, <2>2 DEF AttachDrained, DrainReady, TypeOK
<1>11. CASE AttachInstall
  <2>1. loop.cur.lease \in Leases \cup {0}
    BY <1>p DEF LoopRecord, Commands
  <2>2. registry' \in [Identities -> Leases \cup {0}]
    BY <1>11, <1>r, <2>1 DEF AttachInstall
  <2>3. handle' \in [Leases -> HandleRecord]
    <3>1. handle' = [handle EXCEPT ![loop.cur.lease].at = "held"]
      BY <1>11 DEF AttachInstall
    <3>2. ASSUME NEW h \in HandleRecord PROVE [h EXCEPT !.at = "held"] \in HandleRecord
      BY DEF HandleRecord
    <3> QED
      BY <1>h, <3>1, <3>2
  <2> QED
    BY <1>11, <2>2, <2>3, BuiltRecords DEF AttachInstall, taskVars, TypeOK
<1>12. ASSUME NEW r \in Results, DrainAnswered(r) PROVE TypeOK'
  <2> DEFINE w == <<loop.cur.lease, loop.cur.n>>
  <2>1. waiter' \in [Waiters -> WaiterRecord]
    <3>1. CASE waiter' = [waiter EXCEPT ![w].at = IF @ = "drain" THEN "check" ELSE "redrained"]
      <4>1. ASSUME NEW r1 \in WaiterRecord, NEW at \in {"check", "redrained"}
            PROVE  [r1 EXCEPT !.at = at] \in WaiterRecord
        BY DEF WaiterRecord, LiveWaiter
      <4> QED
        BY <1>w, <3>1, <4>1
    <3>2. CASE Settle(w, "listener", {})
      <4>1. "listener" \in Failures /\ {} \in SUBSET Usage
        BY DEF Failures
      <4> QED
        BY <1>w, <3>2, <4>1, SettleType
    <3> QED
      BY <1>12, <1>w, <3>1, <3>2 DEF DrainAnswered
  <2> QED
    BY <1>8, <1>9, <1>12, <2>1, BuiltRecords DEF DrainAnswered, DrainReady, TypeOK
<1>13. ASSUME NEW r \in Results, DrainAbandoned(r) PROVE TypeOK'
  BY <1>8, <1>13, BuiltRecords DEF DrainAbandoned, DrainReady, TypeOK
<1>14. ASSUME DispatchReturn PROVE loop' \in LoopRecord
  BY <1>14, <1>p DEF DispatchReturn, LoopRecord
<1>15. ASSUME NEW c \in Conns, DispatchAcquire(c) PROVE TypeOK'
  <2>1. loop' \in LoopRecord
    <3>1. DispatchReturn \/ \E at \in {"reject", "admit"} : loop' = [loop EXCEPT !.at = at]
      BY <1>15 DEF DispatchAcquire
    <3> QED
      BY <1>14, <1>p, <3>1 DEF LoopRecord
  <2>2. lease' \in [Leases -> LeaseRecord]
    BY SMTT(20), <1>15, <1>l, LeaseOperators DEF DispatchAcquire
  <2>3. conn' \in [Conns -> ConnRecord] /\ globalPermits' \in SUBSET Conns
    BY <1>15, <1>c, BuiltRecords DEF DispatchAcquire, TypeOK
  <2> QED
    BY <1>15, <2>1, <2>2, <2>3 DEF DispatchAcquire, hostVars, TypeOK
<1>16. ASSUME NEW c \in Conns, Refuse(c)
       PROVE  /\ lease' \in [Leases -> LeaseRecord] /\ waiter' \in [Waiters -> WaiterRecord]
              /\ conn' \in [Conns -> ConnRecord] /\ globalPermits' \in SUBSET Conns
  <2>1. lease' \in [Leases -> LeaseRecord]
    BY <1>16, <1>l, LeaseOperators DEF Refuse
  <2>2. waiter' \in [Waiters -> WaiterRecord]
    BY <1>16, <1>w DEF Refuse, WaiterRecord
  <2>3. conn' \in [Conns -> ConnRecord] /\ globalPermits' \in SUBSET Conns
    BY <1>16, <1>c, BuiltRecords DEF Refuse, TypeOK
  <2> QED
    BY <2>1, <2>2, <2>3
<1>17. ASSUME NEW c \in Conns, DispatchAdmit(c) PROVE TypeOK'
  <2>1. Target(c) \in Leases \cup {0}
    BY <1>r, AddressAssumption DEF Target
  <2>2. /\ lease' \in [Leases -> LeaseRecord] /\ waiter' \in [Waiters -> WaiterRecord]
        /\ conn' \in [Conns -> ConnRecord] /\ globalPermits' \in SUBSET Conns
    <3>1. CASE Refuse(c)
      BY <1>16, <3>1
    <3>2. CASE /\ lease' = [lease EXCEPT ![Target(c)] = Admit(@, c)]
               /\ conn' = [conn EXCEPT ![c].at = "serving", ![c].lease = Target(c)]
               /\ UNCHANGED <<globalPermits, waiter>>
      <4>1. lease' \in [Leases -> LeaseRecord]
        BY <1>l, <3>2, LeaseOperators
      <4>2. conn' \in [Conns -> ConnRecord]
        BY <1>c, <2>1, <3>2 DEF ConnRecord, LiveTask
      <4> QED
        BY <3>2, <4>1, <4>2 DEF TypeOK
    <3> QED
      BY <1>17, <3>1, <3>2 DEF DispatchAdmit
  <2> QED
    BY <1>14, <1>17, <2>2 DEF DispatchAdmit, hostVars, TypeOK
<1>18. ASSUME NEW c \in Conns, DispatchReject(c) PROVE TypeOK'
  BY <1>14, <1>16, <1>18 DEF DispatchReject, hostVars, TypeOK
<1>19. ASSUME NEW l \in Leases, ShutdownClose(l) PROVE TypeOK'
  <2>1. lease' \in [Leases -> LeaseRecord] /\ loop' \in LoopRecord
    BY <1>19, <1>l, <1>p, LeaseOperators DEF ShutdownClose, LoopRecord
  <2> QED
    BY <1>19, <2>1 DEF ShutdownClose, hostVars, taskVars, TypeOK
<1>20. CASE ShutdownDecide
  <2>1. loop' \in LoopRecord
    BY <1>20, <1>p DEF ShutdownDecide, LoopRecord
  <2> QED
    BY <1>20, <2>1 DEF ShutdownDecide, hostVars, taskVars, TypeOK
<1>21. CASE ShutdownReply
  <2>1. [Idle EXCEPT !.at = "exited"] \in LoopRecord
    BY BuiltRecords DEF LoopRecord
  <2>2. /\ loop' \in LoopRecord /\ commands' \in Seq(Commands) /\ backlog' \in Seq(Conns)
        /\ conn' \in [Conns -> ConnRecord]
    <3>1. CASE Exit
      BY SMTT(20), <1>c, <2>1, <3>1, BuiltRecords, Channels DEF Exit
    <3>2. CASE Continue
      BY <1>c, <1>q, <3>2, BuiltRecords DEF Continue
    <3> QED
      BY <1>21, <3>1, <3>2 DEF ShutdownReply
  <2>3. proxy' \in ProxyRecord
    BY <1>21 DEF ShutdownReply, ProxyRecord, TypeOK
  <2> QED
    BY <1>21, <2>2, <2>3 DEF ShutdownReply, TypeOK
<1> QED
  BY <1>1, <1>2, <1>3, <1>4, <1>5, <1>6, <1>7, <1>10, <1>11, <1>12, <1>13, <1>15, <1>17, <1>18,
     <1>19, <1>20, <1>21 DEF OwnerNext

\* Type correctness: whatever the interleaving of callers, peers, tasks and the
\* listener owner, every variable keeps its shape; in particular the revocation
\* generation, the lease sequence and the drain batch never leave their ranges.
THEOREM TypeCorrect == Spec => []TypeOK
<1>1. TypeOK /\ [Next]_vars => TypeOK'
  <2> SUFFICES ASSUME TypeOK, [Next]_vars PROVE TypeOK'
    OBVIOUS
  <2>1. CASE UNCHANGED vars
    BY <2>1 DEF vars, hostVars, ownerVars, taskVars, TypeOK
  <2> QED
    BY <2>1, TypeHost, TypeTask, TypeOwner DEF Next, Settled
<1> QED
  BY <1>1, TypeInit, PTL DEF Spec

-------------------------------------------------------------------------------
(***************************************************************************)
(* Sockets before admission: the accept queue holds distinct queued        *)
(* sockets, and the listener owner dispatches one socket at a time, which  *)
(* has a lease once its permits are taken.                                 *)
(***************************************************************************)

Dispatching == {"dispatch", "admit", "reject"}

SocketInv ==
  /\ \A i \in 1..Len(backlog) : conn[backlog[i]].at = "queued"
  /\ \A i, j \in 1..Len(backlog) : backlog[i] = backlog[j] => i = j
  /\ \A c \in Conns : conn[c].at = "dispatch" => loop.at \in Dispatching
  /\ \A c, d \in Conns : conn[c].at = "dispatch" /\ conn[d].at = "dispatch" => c = d
  /\ \A c \in Conns : loop.at \in {"admit", "reject"} /\ conn[c].at = "dispatch" => Target(c) # 0

\* No socket is queued, held or served when the listener starts (run_proxy).
LEMMA SocketInit == Init => SocketInv
BY SMTT(20) DEF Init, SocketInv, GoneSocket, Dispatching

\* Steps of the callers.
LEMMA SocketHost == TypeOK /\ SocketInv /\ HostNext => SocketInv'
<1> SUFFICES ASSUME TypeOK, SocketInv, HostNext PROVE SocketInv'
  OBVIOUS
<1>t. conn \in [Conns -> ConnRecord] /\ backlog \in Seq(Conns)
  BY DEF TypeOK
<1>1. ASSUME NEW c \in Conns, Connect(c) PROVE SocketInv'
  <2>1. /\ conn[c].at = "away" /\ conn'[c].at = "queued"
        /\ \A d \in Conns \ {c} : conn'[d] = conn[d]
        /\ backlog' = Append(backlog, c) /\ registry' = registry /\ loop' = loop
    BY <1>1, <1>t DEF Connect, ownerVars
  <2>2. /\ Len(backlog') = Len(backlog) + 1 /\ backlog'[Len(backlog) + 1] = c
        /\ \A i \in 1..Len(backlog) : backlog'[i] = backlog[i] /\ backlog[i] \in Conns \ {c}
    BY SMTT(20), <1>t, <2>1 DEF SocketInv
  <2>3. \A i \in 1..Len(backlog)' : i \in 1..Len(backlog) \/ i = Len(backlog) + 1
    BY SMTT(20), <1>t, <2>2
  <2>4. \A i \in 1..Len(backlog)' : conn'[backlog'[i]].at = "queued"
    BY SMTT(20), <2>1, <2>2, <2>3 DEF SocketInv
  <2>5. \A i, j \in 1..Len(backlog)' : backlog'[i] = backlog'[j] => i = j
    BY <2>2, <2>3 DEF SocketInv
  <2> QED
    BY SMTT(20), <2>1, <2>4, <2>5 DEF SocketInv, Target
<1>2. CASE UNCHANGED <<conn, backlog, registry, loop>>
  BY SMTT(20), <1>2 DEF SocketInv, Target
<1>3. (\E c \in Conns : Connect(c)) \/ UNCHANGED <<conn, backlog, registry, loop>>
  BY DEF HostNext, AttachCall, CloseBegin, CloseSend, CloseCommit, CloseRelease, CloseFail,
         CloseTimeout, CloseDisconnected, DropBegin, DropSend, ShutdownCall, ShutdownExpire,
         ShutdownJoin, ProxyDrop, ownerVars, taskVars
<1> QED
  BY <1>1, <1>2, <1>3

\* Steps of connection tasks, waiters and reapers.
LEMMA SocketTask == TypeOK /\ SocketInv /\ TaskNext => SocketInv'
<1> SUFFICES ASSUME TypeOK, SocketInv, TaskNext PROVE SocketInv'
  OBVIOUS
<1>t. conn \in [Conns -> ConnRecord] /\ backlog \in Seq(Conns)
  BY DEF TypeOK
<1>1. UNCHANGED <<backlog, registry, loop>>
  BY DEF TaskNext, ConnDeny, ConnEnd, ConnFinish, ConnUntrack, WaiterTracked, WaiterTop,
         WaiterPhase, WaiterGeneration, WaiterQuiet, WaiterCheck, WaiterRedrained,
         WaiterDeadline, WaiterStopped, WaiterAbort, ReaperMark, ReaperRelease, ownerVars
<1>2. \A c \in Conns : /\ conn'[c].at = "queued" <=> conn[c].at = "queued"
                       /\ conn'[c].at = "dispatch" <=> conn[c].at = "dispatch"
  <2>1. ASSUME NEW d \in Conns, ConnDeny(d) \/ ConnEnd(d) \/ ConnFinish(d) \/ ConnUntrack(d),
               NEW c \in Conns
        PROVE  /\ conn'[c].at = "queued" <=> conn[c].at = "queued"
               /\ conn'[c].at = "dispatch" <=> conn[c].at = "dispatch"
    <3>1. /\ conn[d].at \in LiveTask
          /\ conn'[d].at \in {"denied", "ended", "finished", "gone"}
          /\ c # d => conn'[c] = conn[c]
      <4>1. /\ conn[d].at \in LiveTask
            /\ \/ \E at \in {"denied", "ended", "finished"} : conn' = [conn EXCEPT ![d].at = at]
               \/ conn' = [conn EXCEPT ![d] = GoneSocket("gone")]
        BY <2>1 DEF ConnDeny, ConnEnd, ConnFinish, ConnUntrack, LiveTask
      <4> QED
        BY SMTT(20), <1>t, <4>1 DEF GoneSocket, ConnRecord
    <3> QED
      BY <3>1 DEF LiveTask
  <2>2. \/ \E d \in Conns : ConnDeny(d) \/ ConnEnd(d) \/ ConnFinish(d) \/ ConnUntrack(d)
        \/ UNCHANGED conn
    BY DEF TaskNext, WaiterTracked, WaiterTop, WaiterPhase, WaiterGeneration, WaiterQuiet,
           WaiterCheck, WaiterRedrained, WaiterDeadline, WaiterStopped, WaiterAbort, ReaperMark,
           ReaperRelease
  <2> QED
    BY <2>1, <2>2
<1>3. \A i \in 1..Len(backlog) : backlog[i] \in Conns
  BY SMTT(20), <1>t
<1> QED
  BY <1>1, <1>2, <1>3 DEF SocketInv, Target

\* Steps of the listener owner.
LEMMA SocketOwner == TypeOK /\ SocketInv /\ OwnerNext => SocketInv'
<1> SUFFICES ASSUME TypeOK, SocketInv, OwnerNext PROVE SocketInv'
  OBVIOUS
<1>t. conn \in [Conns -> ConnRecord] /\ backlog \in Seq(Conns) /\ loop \in LoopRecord
  BY DEF TypeOK
<1>b. \A i \in 1..Len(backlog) : backlog[i] \in Conns
  BY SMTT(20), <1>t
<1>1. ASSUME UNCHANGED <<conn, backlog>>, loop.at \notin Dispatching PROVE SocketInv'
  BY <1>1 DEF SocketInv, Dispatching
<1>2. CASE \/ RunAttach \/ RunClose("Close") \/ RunClose("Reap") \/ RunRelease \/ RunDrain
           \/ RunShutdown \/ RunRetry \/ RunAcceptError
  <2>1. UNCHANGED <<conn, backlog>> /\ loop.at = "select"
    BY <1>2 DEF RunAttach, RunClose, RunRelease, RunDrain, RunShutdown, RunRetry,
                RunAcceptError, Receive, Accepting, taskVars
  <2> QED
    BY <1>1, <2>1 DEF Dispatching
<1>3. CASE RunAccept \/ DrainAccept
  <2> DEFINE c == Head(backlog)
  <2>1. /\ loop.at \in {"select", "drain"} /\ loop'.at = "dispatch" /\ backlog # <<>>
        /\ backlog' = Tail(backlog) /\ registry' = registry
    BY <1>3, <1>t DEF RunAccept, DrainAccept, TakeSocket, Accepting, LoopRecord
  <2>2. c \in Conns /\ c = backlog[1] /\ Len(backlog) >= 1
    BY SMTT(20), <1>t, <2>1
  <2>3. conn'[c].at = "dispatch" /\ \A d \in Conns \ {c} : conn'[d] = conn[d]
    <3>1. conn' = [conn EXCEPT ![c].at = "dispatch", ![c].late = FALSE]
      BY <1>3 DEF RunAccept, DrainAccept, TakeSocket
    <3> QED
      BY <1>t, <2>2, <3>1 DEF ConnRecord
  <2>4. /\ Len(backlog') = Len(backlog) - 1
        /\ \A i \in 1..Len(backlog)' :
             i + 1 \in 1..Len(backlog) /\ i + 1 # 1 /\ backlog'[i] = backlog[i + 1]
    BY SMTT(20), <1>t, <2>1
  <2>5. \A i \in 1..Len(backlog)' : backlog'[i] \in Conns \ {c}
    <3> SUFFICES ASSUME NEW i \in 1..Len(backlog)' PROVE backlog'[i] \in Conns /\ backlog'[i] # c
      OBVIOUS
    <3>1. 1 \in 1..Len(backlog)
      BY SMTT(20), <1>t, <2>2
    <3> QED
      BY <1>b, <2>2, <2>4, <3>1 DEF SocketInv
  <2>6. \A i \in 1..Len(backlog)' : conn'[backlog'[i]].at = "queued"
    BY SMTT(20), <2>3, <2>4, <2>5 DEF SocketInv
  <2>7. \A i, j \in 1..Len(backlog)' : backlog'[i] = backlog'[j] => i = j
    <3> SUFFICES ASSUME NEW i \in 1..Len(backlog)', NEW j \in 1..Len(backlog)',
                        backlog'[i] = backlog'[j]
                 PROVE  i = j
      OBVIOUS
    <3>1. i + 1 = j + 1
      BY SMTT(20), <2>4 DEF SocketInv
    <3> QED
      BY SMTT(20), <3>1
  <2>8. \A d \in Conns : conn[d].at # "dispatch"
    BY <2>1 DEF SocketInv, Dispatching
  <2> QED
    BY SMTT(20), <2>1, <2>2, <2>3, <2>6, <2>7, <2>8 DEF SocketInv, Dispatching
<1>4. ASSUME NEW r \in Results, AttachDrained(r) \/ DrainAnswered(r) \/ DrainAbandoned(r)
      PROVE  SocketInv'
  <2>1. UNCHANGED <<conn, backlog>> /\ loop.at = "drain"
    BY <1>4 DEF AttachDrained, DrainAnswered, DrainAbandoned, DrainReady
  <2> QED
    BY <1>1, <2>1 DEF Dispatching
<1>5. CASE AttachInstall
  BY <1>1, <1>5 DEF AttachInstall, taskVars, Dispatching
<1>6. ASSUME NEW c \in Conns, DispatchAcquire(c) PROVE SocketInv'
  <2>1. /\ conn[c].at = "dispatch" /\ loop.at = "dispatch" /\ UNCHANGED <<backlog, registry>>
        /\ \/ conn' = [conn EXCEPT ![c] = GoneSocket("refused")]
           \/ UNCHANGED conn /\ Target(c) # 0 /\ loop'.at \in {"admit", "reject"}
    BY <1>6, <1>t DEF DispatchAcquire, LoopRecord
  <2>2. CASE conn' = [conn EXCEPT ![c] = GoneSocket("refused")]
    BY SMTT(20), <1>b, <1>t, <2>1, <2>2 DEF SocketInv, GoneSocket
  <2>3. CASE UNCHANGED conn /\ Target(c) # 0 /\ loop'.at \in {"admit", "reject"}
    BY <2>1, <2>3 DEF SocketInv, Target, Dispatching
  <2> QED
    BY <2>1, <2>2, <2>3
<1>7. ASSUME NEW c \in Conns, DispatchAdmit(c) \/ DispatchReject(c) PROVE SocketInv'
  <2>1. /\ conn[c].at = "dispatch" /\ UNCHANGED backlog
        /\ conn'[c].at \in {"refused", "serving"} /\ \A d \in Conns \ {c} : conn'[d] = conn[d]
    <3>1. /\ conn[c].at = "dispatch" /\ UNCHANGED backlog
          /\ \/ conn' = [conn EXCEPT ![c] = GoneSocket("refused")]
             \/ conn' = [conn EXCEPT ![c].at = "serving", ![c].lease = Target(c)]
      BY <1>7 DEF DispatchAdmit, DispatchReject, Refuse
    <3> QED
      BY SMTT(20), <1>t, <3>1 DEF GoneSocket, ConnRecord
  <2>2. \A d \in Conns : conn'[d].at # "dispatch"
    BY <2>1 DEF SocketInv
  <2> QED
    BY SMTT(20), <1>b, <2>1, <2>2 DEF SocketInv
<1>8. CASE (\E l \in Leases : ShutdownClose(l)) \/ ShutdownDecide
  <2>1. UNCHANGED <<conn, backlog>> /\ loop.at = "shutdown"
    BY <1>8 DEF ShutdownClose, ShutdownDecide, taskVars
  <2> QED
    BY <1>1, <2>1 DEF Dispatching
<1>9. CASE ShutdownReply
  <2>1. loop.at \in {"success", "failure"} /\ (Exit \/ Continue)
    BY <1>9 DEF ShutdownReply
  <2>2. CASE Continue
    BY <1>1, <2>1, <2>2 DEF Continue, Dispatching
  <2>3. CASE Exit
    <3>1. backlog' = <<>> /\ \A c \in Conns : conn'[c].at = "dispatch" => conn[c].at = "dispatch"
      BY <2>3 DEF Exit, GoneSocket
    <3>2. \A c \in Conns : conn'[c].at # "dispatch"
      BY <2>1, <3>1 DEF SocketInv, Dispatching
    <3> QED
      BY SMTT(20), <3>1, <3>2 DEF SocketInv
  <2> QED
    BY <2>1, <2>2, <2>3
<1> QED
  BY <1>2, <1>3, <1>4, <1>5, <1>6, <1>7, <1>8, <1>9 DEF OwnerNext

\* In every behaviour a socket is in one place: the accept queue, the owner's hands
\* (dispatch) or one connection task.
LEMMA SocketsOrdered == Spec => []SocketInv
<1>1. TypeOK /\ SocketInv /\ [Next]_vars => SocketInv'
  <2> SUFFICES ASSUME TypeOK, SocketInv, [Next]_vars PROVE SocketInv'
    OBVIOUS
  <2>1. CASE UNCHANGED vars
    BY <2>1 DEF vars, ownerVars, taskVars, SocketInv, Target
  <2> QED
    BY <2>1, SocketHost, SocketTask, SocketOwner DEF Next, Settled
<1> QED
  BY <1>1, SocketInit, TypeCorrect, PTL DEF Spec

-------------------------------------------------------------------------------
(***************************************************************************)
(* The inductive invariant behind certificates.  A lease's tracker holds   *)
(* exactly its live tasks and its active count the unfinished ones; the    *)
(* counters are final only when the tracker is done; a waiter past its     *)
(* wait for the tracker knows it is done; and a waiter that holds a        *)
(* FinalUsage holds the lease's final counters.                            *)
(***************************************************************************)

Coherent(s) == s.cancelled <=> s.phase # "Open"

TrackInv ==
  /\ \A l \in Leases : Coherent(lease[l])
  /\ \A l \in Leases, c \in Conns :
       c \in lease[l].tracker <=> conn[c].at \in LiveTask /\ conn[c].lease = l
  /\ \A c \in Conns : conn[c].at \in LiveTask => conn[c].lease \in Leases
  /\ \A c \in Conns : conn[c].at \notin LiveTask => conn[c].lease = 0

Unfinished(l) == {c \in Conns : conn[c].lease = l /\ conn[c].at # "finished"}

ActiveInv == \A l \in Leases : lease[l].usage.active = Cardinality(Unfinished(l))

FinalInv == \A l \in Leases : IsFinal(lease[l]) => TrackerDone(lease[l])

PastTracker == (LiveWaiter \ {"track"}) \cup {"ok"}

Holding == {"ok", "redrain", "redrained"}

WaiterInv ==
  \A w \in Waiters :
    /\ waiter[w].at \in PastTracker => TrackerDone(lease[w[1]])
    /\ waiter[w].at \in Holding =>
         IsFinal(lease[w[1]]) /\ waiter[w].final = {lease[w[1]].usage}

CertInv == TrackInv /\ ActiveInv /\ FinalInv /\ WaiterInv /\ CertificateFinal

\* What no step of the program undoes.
Monotone(s, t) ==
  /\ TrackerDone(s) => TrackerDone(t)
  /\ IsFinal(s) => IsFinal(t) /\ t.usage = s.usage
  /\ IsClosed(s) => IsClosed(t)

\* The changes of a lease that come with no change of a task.
Kept(s, t) ==
  \/ t = s \/ t = BeginClose(s)
  \/ TrackerDone(s) /\ t = MarkClosed(s)
  \/ TrackerDone(s) /\ s.phase = "Revoking" /\ t = Quiesce(s)
  \/ \E c \in Conns : t = DropPermit(RecordUnadmitted(s), c) \/ t = TakePermit(s, c)

\* The critical sections of LeaseState other than an admission leave tracker and
\* active count alone, keep a lease coherent and undo nothing.
LEMMA KeptFacts ==
  ASSUME NEW s \in LeaseRecord, NEW t, Kept(s, t), Coherent(s),
         IsFinal(s) => TrackerDone(s)
  PROVE  /\ t.tracker = s.tracker /\ t.usage.active = s.usage.active
         /\ Coherent(t) /\ (IsFinal(t) => TrackerDone(t)) /\ Monotone(s, t)
<1> USE DEF Coherent, Monotone, TrackerDone, IsFinal, IsClosed
<1>1. CASE t = s \/ t = BeginClose(s)
  BY <1>1 DEF BeginClose, LeaseRecord
<1>2. CASE TrackerDone(s) /\ t = MarkClosed(s)
  BY <1>2 DEF MarkClosed, LeaseRecord
<1>3. CASE TrackerDone(s) /\ s.phase = "Revoking" /\ t = Quiesce(s)
  BY <1>3 DEF Quiesce, LeaseRecord
<1>4. ASSUME NEW c \in Conns, t = TakePermit(s, c)
      PROVE  /\ t.tracker = s.tracker /\ t.usage.active = s.usage.active
             /\ Coherent(t) /\ (IsFinal(t) => TrackerDone(t)) /\ Monotone(s, t)
  BY <1>4 DEF TakePermit, LeaseRecord
<1>5. ASSUME NEW c \in Conns, t = DropPermit(RecordUnadmitted(s), c)
      PROVE  /\ t.tracker = s.tracker /\ t.usage.active = s.usage.active
             /\ Coherent(t) /\ (IsFinal(t) => TrackerDone(t)) /\ Monotone(s, t)
  <2> DEFINE u == RecordUnadmitted(s)
  <2>1. /\ u \in LeaseRecord /\ u.phase = s.phase /\ u.cancelled = s.cancelled
        /\ u.tracker = s.tracker /\ u.usage.active = s.usage.active
        /\ IsFinal(s) => u.usage = s.usage
    <3>1. u \in LeaseRecord
      BY LeaseOperators
    <3>2. u.phase = s.phase /\ u.cancelled = s.cancelled /\ u.tracker = s.tracker
      BY DEF RecordUnadmitted, LeaseRecord
    <3>3. u.usage = [s.usage EXCEPT !.denied = IF IsFinal(s) THEN @ ELSE @ + 1]
      BY DEF RecordUnadmitted, LeaseRecord
    <3> QED
      BY SMTT(20), <3>1, <3>2, <3>3 DEF LeaseRecord, Usage
  <2>2. t = DropPermit(u, c)
    BY <1>5
  <2> HIDE DEF u
  <2> QED
    BY <2>1, <2>2 DEF DropPermit, LeaseRecord
<1> QED
  BY <1>1, <1>2, <1>3, <1>4, <1>5 DEF Kept

\* A task keeps its lease and stays live, finished or neither.
SameTask(c) ==
  /\ conn'[c].lease = conn[c].lease
  /\ conn'[c].at \in LiveTask <=> conn[c].at \in LiveTask
  /\ conn'[c].at = "finished" <=> conn[c].at = "finished"

Calm == /\ \A l \in Leases : Kept(lease[l], lease'[l])
        /\ \A c \in Conns : SameTask(c)

\* A calm step preserves the invariant of leases and tasks.
LEMMA CalmStep ==
  ASSUME TypeOK, TrackInv, ActiveInv, FinalInv, Calm
  PROVE  TrackInv' /\ ActiveInv' /\ FinalInv' /\ \A l \in Leases : Monotone(lease[l], lease'[l])
<1>1. ASSUME NEW l \in Leases
      PROVE  /\ lease'[l].tracker = lease[l].tracker
             /\ lease'[l].usage.active = lease[l].usage.active
             /\ Coherent(lease'[l]) /\ (IsFinal(lease'[l]) => TrackerDone(lease'[l]))
             /\ Monotone(lease[l], lease'[l])
  <2>1. lease[l] \in LeaseRecord
    BY DEF TypeOK
  <2> QED
    BY <2>1, KeptFacts DEF Calm, TrackInv, FinalInv
<1>2. TrackInv'
  BY <1>1 DEF TrackInv, Calm, SameTask
<1>3. ASSUME NEW l \in Leases PROVE Unfinished(l)' = Unfinished(l)
  BY DEF Unfinished, Calm, SameTask
<1>4. ActiveInv'
  BY <1>1, <1>3 DEF ActiveInv
<1> QED
  BY <1>1, <1>2, <1>4 DEF FinalInv

\* Every step of a caller is calm.
LEMMA CalmHost == TypeOK /\ TrackInv /\ WaiterInv /\ HostNext => Calm
<1> SUFFICES ASSUME TypeOK, TrackInv, WaiterInv, HostNext PROVE Calm
  OBVIOUS
<1>t. lease \in [Leases -> LeaseRecord] /\ conn \in [Conns -> ConnRecord]
  BY DEF TypeOK
<1>1. ASSUME NEW c \in Conns, Connect(c) PROVE Calm
  <2>1. \A l \in Leases : lease'[l] = lease[l]
    BY <1>1 DEF Connect
  <2>2. /\ conn[c].at = "away" /\ conn'[c].at = "queued" /\ conn'[c].lease = 0
        /\ \A d \in Conns \ {c} : conn'[d] = conn[d]
    BY <1>1, <1>t DEF Connect
  <2>3. \A d \in Conns : SameTask(d)
    BY <2>2 DEF SameTask, LiveTask, TrackInv
  <2> QED
    BY <2>1, <2>3 DEF Calm, Kept
<1>2. ASSUME UNCHANGED conn,
             \/ UNCHANGED lease
             \/ \E l \in Leases : lease' = [lease EXCEPT ![l] = BeginClose(@)]
             \/ \E l \in Leases :
                  TrackerDone(lease[l]) /\ lease' = [lease EXCEPT ![l] = MarkClosed(@)]
      PROVE  Calm
  <2>1. \A c \in Conns : SameTask(c)
    BY <1>2 DEF SameTask
  <2>2. \A l \in Leases : Kept(lease[l], lease'[l])
    BY <1>2, <1>t DEF Kept
  <2> QED
    BY <2>1, <2>2 DEF Calm
<1>3. ASSUME NEW l \in Leases, CloseCommit(l) PROVE Calm
  <2>1. Current(l) \in Waiters /\ Current(l)[1] = l
    BY DEF Current, Waiters, TypeOK, HandleRecord
  <2>2. TrackerDone(lease[l])
    BY <1>3, <2>1 DEF CloseCommit, WaiterInv, PastTracker
  <2> QED
    BY <1>2, <1>3, <2>2 DEF CloseCommit
<1>4. ASSUME NEW l \in Leases, CloseBegin(l) \/ DropBegin(l) PROVE Calm
  BY <1>2, <1>4 DEF CloseBegin, DropBegin, taskVars
<1>5. ASSUME NEW l \in Leases,
             \/ CloseSend(l) \/ CloseRelease(l) \/ CloseFail(l) \/ CloseTimeout(l)
             \/ CloseDisconnected(l) \/ DropSend(l)
      PROVE  Calm
  BY <1>2, <1>5 DEF CloseSend, CloseRelease, CloseFail, CloseTimeout, CloseDisconnected,
                    DropSend, taskVars
<1>6. CASE (\E a \in Addresses : AttachCall(a)) \/ ShutdownCall \/ ShutdownExpire
           \/ ShutdownJoin \/ ProxyDrop
  BY <1>2, <1>6 DEF AttachCall, ShutdownCall, ShutdownExpire, ShutdownJoin, ProxyDrop, taskVars
<1> QED
  BY <1>1, <1>3, <1>4, <1>5, <1>6 DEF HostNext

WaiterNext(w) ==
  \/ WaiterTracked(w) \/ WaiterTop(w) \/ WaiterPhase(w) \/ WaiterGeneration(w) \/ WaiterQuiet(w)
  \/ WaiterCheck(w) \/ WaiterRedrained(w) \/ WaiterDeadline(w) \/ WaiterStopped(w)
  \/ WaiterAbort(w) \/ ReaperMark(w) \/ ReaperRelease(w)

\* Every step of a waiter or reaper is calm: it quiesces or closes a lease only
\* after the tracker was done.
LEMMA CalmWaiter == \A w \in Waiters : TypeOK /\ WaiterInv /\ WaiterNext(w) => Calm
<1> SUFFICES ASSUME NEW w \in Waiters, TypeOK, WaiterInv, WaiterNext(w) PROVE Calm
  OBVIOUS
<1>t. lease \in [Leases -> LeaseRecord] /\ w[1] \in Leases
  BY DEF TypeOK, Waiters
<1>1. \A c \in Conns : SameTask(c)
  BY DEF WaiterNext, WaiterTracked, WaiterTop, WaiterPhase, WaiterGeneration, WaiterQuiet,
         WaiterCheck, WaiterRedrained, WaiterDeadline, WaiterStopped, WaiterAbort, ReaperMark,
         ReaperRelease, SameTask
<1>2. CASE WaiterCheck(w) \/ ReaperMark(w)
  <2>1. TrackerDone(lease[w[1]])
    BY <1>2 DEF WaiterCheck, ReaperMark, WaiterInv, PastTracker, LiveWaiter
  <2>2. \/ UNCHANGED lease \/ lease' = [lease EXCEPT ![w[1]] = MarkClosed(@)]
        \/ lease[w[1]].phase = "Revoking" /\ lease' = [lease EXCEPT ![w[1]] = Quiesce(@)]
    BY <1>2 DEF WaiterCheck, ReaperMark, GenerationUnchanged
  <2>3. \A l \in Leases : Kept(lease[l], lease'[l])
    BY <1>t, <2>1, <2>2 DEF Kept
  <2> QED
    BY <1>1, <2>3 DEF Calm
<1>3. CASE UNCHANGED lease
  BY <1>1, <1>3 DEF Calm, Kept
<1> QED
  BY <1>2, <1>3
  DEF WaiterNext, WaiterTracked, WaiterTop, WaiterPhase, WaiterGeneration, WaiterQuiet,
      WaiterRedrained, WaiterDeadline, WaiterStopped, WaiterAbort, ReaperRelease

\* An admission, the one step of the listener owner that is not calm.
Admission(c) ==
  /\ conn[c].at = "dispatch" /\ Target(c) \in Leases /\ lease[Target(c)].phase = "Open"
  /\ lease' = [lease EXCEPT ![Target(c)] = Admit(@, c)]
  /\ conn' = [conn EXCEPT ![c].at = "serving", ![c].lease = Target(c)]
  /\ UNCHANGED waiter

\* The listener owner's steps are calm, unless the step admits a socket
\* (ConnectionRuntime::dispatch).
LEMMA CalmOwner ==
  TypeOK /\ SocketInv /\ TrackInv /\ OwnerNext => Calm \/ \E c \in Conns : Admission(c)
<1> SUFFICES ASSUME TypeOK, SocketInv, TrackInv, OwnerNext,
                    ~ \E c \in Conns : Admission(c)
             PROVE  Calm
  OBVIOUS
<1>t. lease \in [Leases -> LeaseRecord] /\ conn \in [Conns -> ConnRecord]
  BY DEF TypeOK
<1>g. \A c \in Conns : Target(c) \in Leases \cup {0}
  BY AddressAssumption DEF Target, TypeOK
<1>1. ASSUME UNCHANGED lease PROVE \A l \in Leases : Kept(lease[l], lease'[l])
  BY <1>1 DEF Kept
<1>2. ASSUME UNCHANGED conn PROVE \A c \in Conns : SameTask(c)
  BY <1>2 DEF SameTask
<1>3. ASSUME NEW c \in Conns, conn[c].at = "dispatch",
             conn' = [conn EXCEPT ![c] = GoneSocket("refused")]
      PROVE  \A d \in Conns : SameTask(d)
  BY SMTT(20), <1>3, <1>t DEF SameTask, GoneSocket, TrackInv, LiveTask
<1>4. ASSUME NEW c \in Conns, conn[c].at = "dispatch", Refuse(c) PROVE Calm
  <2>1. \A l \in Leases : Kept(lease[l], lease'[l])
    BY <1>4, <1>t DEF Refuse, Kept
  <2> QED
    BY <1>3, <1>4, <2>1 DEF Refuse, Calm
<1>5. ASSUME NEW c \in Conns, DispatchAdmit(c) \/ DispatchReject(c) PROVE Calm
  <2>1. Target(c) \in Leases
    BY <1>5, <1>g DEF SocketInv, DispatchAdmit, DispatchReject
  <2> QED
    BY <1>4, <1>5, <2>1 DEF DispatchAdmit, DispatchReject, Admission
<1>6. ASSUME NEW c \in Conns, DispatchAcquire(c) PROVE Calm
  <2>1. \/ UNCHANGED lease
        \/ lease' = [lease EXCEPT ![Target(c)] = TakePermit(@, c)]
    BY <1>6 DEF DispatchAcquire
  <2>2. \A l \in Leases : Kept(lease[l], lease'[l])
    BY <1>t, <2>1 DEF Kept
  <2>3. \A d \in Conns : SameTask(d)
    BY <1>2, <1>3, <1>6 DEF DispatchAcquire
  <2> QED
    BY <2>2, <2>3 DEF Calm
<1>7. CASE RunAccept \/ DrainAccept
  <2>1. UNCHANGED lease /\ backlog # <<>>
        /\ conn' = [conn EXCEPT ![Head(backlog)].at = "dispatch", ![Head(backlog)].late = FALSE]
    BY <1>7 DEF RunAccept, DrainAccept, TakeSocket
  <2>2. Head(backlog) \in Conns /\ conn[Head(backlog)].at = "queued"
    BY SMTT(20), <2>1 DEF TypeOK, SocketInv
  <2>3. \A d \in Conns : SameTask(d)
    BY <1>t, <2>1, <2>2 DEF SameTask, LiveTask, ConnRecord
  <2> QED
    BY <1>1, <2>1, <2>3 DEF Calm
<1>8. ASSUME NEW kind, RunClose(kind) PROVE Calm
  <2>1. \A l \in Leases : Kept(lease[l], lease'[l])
    BY <1>8, <1>t DEF RunClose, Kept
  <2> QED
    BY SMTT(20), <1>2, <1>8, <2>1 DEF RunClose, Calm
<1>9. CASE RunShutdown
  <2>1. \A l \in Leases : Kept(lease[l], lease'[l])
    BY <1>9 DEF RunShutdown, Kept
  <2> QED
    BY <1>2, <1>9, <2>1 DEF RunShutdown, taskVars, Calm
<1>10. ASSUME NEW l \in Leases, ShutdownClose(l) PROVE Calm
  <2>1. \A m \in Leases : Kept(lease[m], lease'[m])
    BY <1>10, <1>t DEF ShutdownClose, Kept
  <2> QED
    BY <1>2, <1>10, <2>1 DEF ShutdownClose, taskVars, Calm
<1>11. CASE ShutdownReply
  <2>1. UNCHANGED lease /\ (Exit \/ UNCHANGED conn)
    BY <1>11 DEF ShutdownReply, Continue
  <2>2. ASSUME Exit, NEW c \in Conns PROVE SameTask(c)
    <3>1. CASE conn[c].at = "queued"
      <4>1. conn'[c].at = "refused" /\ conn'[c].lease = 0
        BY <2>2, <3>1 DEF Exit, GoneSocket
      <4> QED
        BY <3>1, <4>1 DEF SameTask, TrackInv, LiveTask
    <3>2. CASE conn[c].at # "queued"
      BY <2>2, <3>2 DEF Exit, SameTask
    <3> QED
      BY <3>1, <3>2
  <2> QED
    BY <1>1, <1>2, <2>1, <2>2 DEF Calm
<1>12. CASE \/ RunAttach \/ RunRelease \/ RunDrain \/ RunRetry \/ RunAcceptError
            \/ AttachInstall \/ ShutdownDecide
            \/ \E r \in Results : AttachDrained(r) \/ DrainAnswered(r) \/ DrainAbandoned(r)
  <2>1. UNCHANGED <<lease, conn>>
    BY <1>12 DEF RunAttach, RunRelease, RunDrain, RunRetry, RunAcceptError, AttachInstall,
                 ShutdownDecide, AttachDrained, DrainAnswered, DrainAbandoned, DrainReady, taskVars
  <2> QED
    BY SMTT(20), <1>1, <1>2, <2>1 DEF Calm
<1> QED
  BY <1>5, <1>6, <1>7, <1>8, <1>9, <1>10, <1>11, <1>12 DEF OwnerNext

\* A step of the one task c, under a lease m whose tracker is not done.
LEMMA TaskStep ==
  ASSUME TypeOK, TrackInv, ActiveInv, FinalInv, NEW c \in Conns, NEW m \in Leases,
         ~TrackerDone(lease[m]),
         \A l \in Leases \ {m} : lease'[l] = lease[l],
         \A d \in Conns \ {c} : conn'[d] = conn[d],
         lease'[m].phase = lease[m].phase, lease'[m].cancelled = lease[m].cancelled,
         \A d \in Conns \ {c} : d \in lease'[m].tracker <=> d \in lease[m].tracker,
         c \in lease'[m].tracker <=> conn'[c].at \in LiveTask,
         conn[c].lease \in {0, m},
         conn'[c].lease = IF conn'[c].at \in LiveTask THEN m ELSE 0,
         lease'[m].usage.active = Cardinality(Unfinished(m)')
  PROVE  TrackInv' /\ ActiveInv' /\ FinalInv' /\ \A l \in Leases : Monotone(lease[l], lease'[l])
<1>0. 0 \notin Leases
  BY SMTT(20) DEF Leases
<1>1. ASSUME NEW l \in Leases PROVE Coherent(lease'[l])
  BY SMTT(20) DEF TrackInv, Coherent
<1>2. ASSUME NEW l \in Leases, NEW d \in Conns
      PROVE  d \in lease'[l].tracker <=> conn'[d].at \in LiveTask /\ conn'[d].lease = l
  <2>1. CASE l = m
    BY SMTT(20), <2>1 DEF TrackInv
  <2>2. CASE l # m /\ d # c
    BY SMTT(20), <2>2 DEF TrackInv
  <2>3. CASE l # m /\ d = c
    BY SMTT(20), <1>0, <2>3 DEF TrackInv
  <2> QED
    BY SMTT(20), <2>1, <2>2, <2>3
<1>3. TrackInv'
  BY SMTT(20), <1>0, <1>1, <1>2 DEF TrackInv
<1>4. ASSUME NEW l \in Leases \ {m} PROVE Unfinished(l)' = Unfinished(l)
  <2>1. conn[c].lease # l /\ conn'[c].lease # l
    BY SMTT(20), <1>0
  <2> QED
    BY <2>1 DEF Unfinished
<1>5. ActiveInv'
  BY SMTT(20), <1>4 DEF ActiveInv
<1>6. ~IsFinal(lease[m]) /\ ~IsClosed(lease[m]) /\ ~IsFinal(lease'[m])
  BY DEF FinalInv, IsFinal, IsClosed
<1>7. FinalInv'
  BY SMTT(20), <1>6 DEF FinalInv
<1>8. ASSUME NEW l \in Leases PROVE Monotone(lease[l], lease'[l])
  BY SMTT(20), <1>6 DEF Monotone
<1> QED
  BY SMTT(20), <1>3, <1>5, <1>7, <1>8

\* An admission adds a task and its count together.
LEMMA AdmissionStep ==
  ASSUME TypeOK, TrackInv, ActiveInv, FinalInv, NEW c \in Conns, Admission(c)
  PROVE  TrackInv' /\ ActiveInv' /\ FinalInv' /\ \A l \in Leases : Monotone(lease[l], lease'[l])
<1>m. PICK m \in Leases : m = Target(c)
  BY DEF Admission
<1>0. m \in Leases /\ 0 \notin Leases
  BY SMTT(20) DEF Leases
<1>t. lease[m] \in LeaseRecord /\ conn[c] \in ConnRecord
      /\ lease \in [Leases -> LeaseRecord] /\ conn \in [Conns -> ConnRecord]
  BY <1>0 DEF TypeOK
<1>1. /\ lease'[m] = Admit(lease[m], c) /\ \A l \in Leases \ {m} : lease'[l] = lease[l]
      /\ \A d \in Conns \ {c} : conn'[d] = conn[d]
  BY <1>m, <1>t DEF Admission
<1>2. conn'[c].at = "serving" /\ conn'[c].lease = m /\ conn[c].at = "dispatch"
  BY SMTT(20), <1>m, <1>t DEF Admission, ConnRecord
<1>3. conn[c].lease = 0
  BY <1>2 DEF TrackInv, LiveTask
<1>4. ~TrackerDone(lease[m])
  BY <1>m DEF Admission, TrackInv, Coherent, TrackerDone
<1>5. /\ lease'[m].phase = lease[m].phase /\ lease'[m].cancelled = lease[m].cancelled
      /\ lease'[m].tracker = lease[m].tracker \cup {c}
      /\ lease'[m].usage.active = lease[m].usage.active + 1
  BY <1>1, <1>t DEF Admit, CountAdmission, LeaseRecord, Usage
<1>6. Unfinished(m)' = Unfinished(m) \cup {c} /\ c \notin Unfinished(m)
  BY SMTT(20), <1>0, <1>1, <1>2, <1>3 DEF Unfinished
<1>7. IsFiniteSet(Unfinished(m))
  BY FS_Subset, FiniteAssumption DEF Unfinished
<1>8. lease'[m].usage.active = Cardinality(Unfinished(m)')
  BY <1>0, <1>5, <1>6, <1>7, FS_AddElement DEF ActiveInv
<1>9. "serving" \in LiveTask
  BY DEF LiveTask
<1> QED
  BY SMTT(20), <1>0, <1>1, <1>2, <1>3, <1>4, <1>5, <1>8, <1>9, TaskStep

\* A task counts its denial, gives up its count, then its tracker token.
LEMMA ConnStep ==
  ASSUME TypeOK, TrackInv, ActiveInv, FinalInv, NEW c \in Conns,
         ConnDeny(c) \/ ConnFinish(c) \/ ConnUntrack(c)
  PROVE  TrackInv' /\ ActiveInv' /\ FinalInv' /\ \A l \in Leases : Monotone(lease[l], lease'[l])
<1>m. conn[c].at \in LiveTask
  BY DEF ConnDeny, ConnFinish, ConnUntrack, LiveTask
<1>p. PICK m \in Leases : m = conn[c].lease
  BY <1>m DEF TrackInv
<1>0. m \in Leases /\ 0 \notin Leases /\ conn[c].at \in LiveTask /\ conn[c].lease = m
  BY SMTT(20), <1>m, <1>p DEF Leases
<1>t. lease[m] \in LeaseRecord /\ conn[c] \in ConnRecord
      /\ lease \in [Leases -> LeaseRecord] /\ conn \in [Conns -> ConnRecord]
  BY <1>0 DEF TypeOK
<1>1. /\ \A l \in Leases \ {m} : lease'[l] = lease[l]
      /\ \A d \in Conns \ {c} : conn'[d] = conn[d]
  BY SMTT(20), <1>0, <1>t DEF ConnDeny, ConnFinish, ConnUntrack
<1>2. c \in lease[m].tracker /\ ~TrackerDone(lease[m])
  BY SMTT(20), <1>0 DEF TrackInv, TrackerDone
<1>3. IsFiniteSet(Unfinished(m))
  BY SMTT(20), FS_Subset, FiniteAssumption DEF Unfinished
<1>4. /\ lease'[m].phase = lease[m].phase /\ lease'[m].cancelled = lease[m].cancelled
      /\ \A d \in Conns \ {c} : d \in lease'[m].tracker <=> d \in lease[m].tracker
      /\ c \in lease'[m].tracker <=> conn'[c].at \in LiveTask
      /\ conn'[c].lease = IF conn'[c].at \in LiveTask THEN m ELSE 0
      /\ lease'[m].usage.active = Cardinality(Unfinished(m)')
  <2>1. CASE ConnDeny(c)
    <3>1. lease'[m] = RecordDenial(lease[m]) /\ conn'[c].at = "denied" /\ conn'[c].lease = m
          /\ conn[c].at = "serving"
      BY <1>0, <1>t, <2>1 DEF ConnDeny, ConnRecord
    <3>2. /\ lease'[m].phase = lease[m].phase /\ lease'[m].cancelled = lease[m].cancelled
          /\ lease'[m].tracker = lease[m].tracker
          /\ lease'[m].usage.active = lease[m].usage.active
      BY SMTT(20), <1>t, <3>1 DEF RecordDenial, LeaseRecord, Usage
    <3>3. Unfinished(m)' = Unfinished(m)
      BY SMTT(20), <1>0, <1>1, <3>1 DEF Unfinished
    <3> QED
      BY <1>0, <1>2, <3>1, <3>2, <3>3 DEF ActiveInv, LiveTask
  <2>2. CASE ConnFinish(c)
    <3>1. lease'[m] = FinishCounters(lease[m]) /\ conn'[c].at = "finished" /\ conn'[c].lease = m
          /\ conn[c].at = "ended"
      BY <1>0, <1>t, <2>2 DEF ConnFinish, ConnRecord
    <3>2. /\ lease'[m].phase = lease[m].phase /\ lease'[m].cancelled = lease[m].cancelled
          /\ lease'[m].tracker = lease[m].tracker
          /\ lease'[m].usage.active = lease[m].usage.active - 1
      BY SMTT(20), <1>t, <3>1 DEF FinishCounters, LeaseRecord, Usage
    <3>3. Unfinished(m)' = Unfinished(m) \ {c} /\ c \in Unfinished(m)
      BY <1>0, <1>1, <3>1 DEF Unfinished
    <3>4. Cardinality(Unfinished(m)') = Cardinality(Unfinished(m)) - 1
      BY <1>3, <3>3, FS_RemoveElement
    <3> QED
      BY <1>0, <1>2, <3>1, <3>2, <3>4 DEF ActiveInv, LiveTask
  <2>3. CASE ConnUntrack(c)
    <3>1. lease'[m] = DropAdmission(lease[m], c) /\ conn'[c].at = "gone" /\ conn'[c].lease = 0
          /\ conn[c].at = "finished"
      BY <1>0, <1>t, <2>3 DEF ConnUntrack, GoneSocket
    <3>2. /\ lease'[m].phase = lease[m].phase /\ lease'[m].cancelled = lease[m].cancelled
          /\ lease'[m].tracker = lease[m].tracker \ {c}
          /\ lease'[m].usage = lease[m].usage
      BY SMTT(20), <1>t, <3>1 DEF DropAdmission, LeaseRecord
    <3>3. Unfinished(m)' = Unfinished(m)
      BY SMTT(20), <1>0, <1>1, <3>1 DEF Unfinished
    <3> QED
      BY <1>0, <1>2, <3>1, <3>2, <3>3 DEF ActiveInv, LiveTask
  <2> QED
    BY SMTT(20), <2>1, <2>2, <2>3
<1> QED
  BY <1>0, <1>1, <1>2, <1>4, TaskStep

\* Every step preserves the invariant of leases and tasks, and undoes neither a
\* completed tracker nor final counters.
LEMMA LeaseStep ==
  TypeOK /\ SocketInv /\ CertInv /\ [Next]_vars =>
    TrackInv' /\ ActiveInv' /\ FinalInv' /\ \A l \in Leases : Monotone(lease[l], lease'[l])
<1> SUFFICES ASSUME TypeOK, SocketInv, CertInv, [Next]_vars
             PROVE  /\ TrackInv' /\ ActiveInv' /\ FinalInv'
                    /\ \A l \in Leases : Monotone(lease[l], lease'[l])
  OBVIOUS
<1>0. TrackInv /\ ActiveInv /\ FinalInv /\ WaiterInv
  BY DEF CertInv
<1>1. CASE Calm
  BY <1>0, <1>1, CalmStep
<1>2. CASE HostNext
  BY <1>0, <1>1, <1>2, CalmHost
<1>3. CASE OwnerNext
  BY <1>0, <1>1, <1>3, CalmOwner, AdmissionStep
<1>4. ASSUME NEW w \in Waiters, WaiterNext(w) PROVE Calm
  BY <1>0, <1>4, CalmWaiter
<1>5. ASSUME NEW c \in Conns, ConnEnd(c) PROVE Calm
  <2>1. conn \in [Conns -> ConnRecord]
    BY DEF TypeOK
  <2>2. /\ conn[c].at \in {"serving", "denied"} /\ conn'[c].at = "ended"
        /\ conn'[c].lease = conn[c].lease
        /\ \A d \in Conns \ {c} : conn'[d] = conn[d]
    BY <1>5, <2>1 DEF ConnEnd, ConnRecord
  <2>3. \A d \in Conns : SameTask(d)
    BY SMTT(20), <2>2 DEF SameTask, LiveTask
  <2> QED
    BY <1>5, <2>3 DEF ConnEnd, Calm, Kept
<1>6. CASE TaskNext
  BY <1>0, <1>1, <1>4, <1>5, <1>6, ConnStep DEF TaskNext, WaiterNext
<1>7. CASE UNCHANGED vars
  <2>1. Calm
    BY SMTT(20), <1>7 DEF vars, taskVars, Calm, Kept, SameTask
  <2> QED
    BY <1>1, <2>1
<1> QED
  BY SMTT(20), <1>2, <1>3, <1>6, <1>7 DEF Next, Settled

\* The moves of a waiter that keep its invariant.
Moves(w) ==
  \/ waiter'[w].at = waiter[w].at /\ waiter'[w].final = waiter[w].final
  \/ waiter'[w].at \notin PastTracker
  \/ TrackerDone(lease[w[1]]) /\ waiter'[w].at \in PastTracker \ Holding
  \/ /\ TrackerDone(lease[w[1]])
     /\ IsFinal(lease'[w[1]]) /\ waiter'[w].final = {lease'[w[1]].usage}

\* A waiter's invariant survives its moves and the changes of its lease.
LEMMA MovesStep ==
  ASSUME TypeOK, WaiterInv, \A l \in Leases : Monotone(lease[l], lease'[l]),
         \A w \in Waiters : Moves(w)
  PROVE  WaiterInv'
<1> SUFFICES ASSUME NEW w \in Waiters
             PROVE  /\ waiter'[w].at \in PastTracker => TrackerDone(lease'[w[1]])
                    /\ waiter'[w].at \in Holding =>
                         IsFinal(lease'[w[1]]) /\ waiter'[w].final = {lease'[w[1]].usage}
  BY DEF WaiterInv
<1>1. w[1] \in Leases /\ Holding \subseteq PastTracker
  BY DEF Waiters, Holding, PastTracker, LiveWaiter
<1>2. Monotone(lease[w[1]], lease'[w[1]])
  BY <1>1
<1> QED
  BY SMTT(20), <1>1, <1>2 DEF Moves, WaiterInv, Monotone

\* Where a result leaves a waiter: the caller's answer, a reaper's next step, or
\* nothing (Outcome); only an "ok" carries counters.
LEMMA SettleMoves ==
  ASSUME TypeOK, NEW w \in Waiters, NEW result \in Failures \cup {"ok"}, NEW final,
         Settle(w, result, final),
         \/ result \in Failures
         \/ /\ result = "ok" /\ TrackerDone(lease[w[1]])
            /\ IsFinal(lease'[w[1]]) /\ final = {lease'[w[1]].usage}
  PROVE  \A v \in Waiters : Moves(v)
<1>1. waiter \in [Waiters -> WaiterRecord]
  BY DEF TypeOK
<1>2. /\ waiter'[w].at = Outcome(w, result)
      /\ waiter'[w].final = IF Outcome(w, result) = "ok" THEN final ELSE {}
      /\ \A v \in Waiters \ {w} : waiter'[v] = waiter[v]
  BY <1>1 DEF Settle, IdleWaiter
<1>3. /\ result = "ok" => Outcome(w, result) \in {"ok", "mark", "done"}
      /\ result \in Failures => Outcome(w, result) \in Failures \cup {"done"}
  BY DEF Outcome, Failures
<1>4. Moves(w)
  BY <1>2, <1>3 DEF Moves, Failures, PastTracker, Holding, LiveWaiter
<1> QED
  BY <1>2, <1>4 DEF Moves

\* Waiters and reapers keep the invariant by their own steps.
LEMMA WaiterMoves ==
  ASSUME TypeOK, WaiterInv, NEW w \in Waiters, WaiterNext(w)
  PROVE  \A v \in Waiters : Moves(v)
<1>t. waiter \in [Waiters -> WaiterRecord] /\ lease \in [Leases -> LeaseRecord]
      /\ w[1] \in Leases
  BY DEF TypeOK, Waiters
<1>p. waiter[w].at \in LiveWaiter \ {"track"} => TrackerDone(lease[w[1]])
  BY DEF WaiterInv, PastTracker
<1>1. ASSUME NEW new, waiter' = [waiter EXCEPT ![w] = new],
             \/ new.at \notin PastTracker
             \/ TrackerDone(lease[w[1]]) /\ new.at \in PastTracker \ Holding
             \/ /\ TrackerDone(lease[w[1]])
                /\ IsFinal(lease'[w[1]]) /\ new.final = {lease'[w[1]].usage}
      PROVE  \A v \in Waiters : Moves(v)
  BY <1>1, <1>t DEF Moves
<1>2. ASSUME NEW at, waiter' = [waiter EXCEPT ![w].at = at],
             TrackerDone(lease[w[1]]), at \in PastTracker \ Holding
      PROVE  \A v \in Waiters : Moves(v)
  <2>1. waiter'[w].at = at /\ \A v \in Waiters \ {w} : waiter'[v] = waiter[v]
    BY <1>2, <1>t DEF WaiterRecord
  <2> QED
    BY <1>2, <2>1 DEF Moves
<1>3. CASE WaiterTracked(w) \/ ReaperMark(w)
  BY <1>2, <1>3, <1>p DEF WaiterTracked, ReaperMark, PastTracker, Holding, LiveWaiter
<1>4. CASE WaiterTop(w)
  <2>1. TrackerDone(lease[w[1]]) /\ UNCHANGED lease
    BY <1>4, <1>p DEF WaiterTop, LiveWaiter
  <2> QED
    BY <1>2, <1>4, <2>1, SettleMoves
    DEF WaiterTop, IsClosed, IsFinal, PastTracker, Holding, LiveWaiter
<1>5. ASSUME NEW next, NEW final, RequestDrain(w, next, final), TrackerDone(lease[w[1]]),
             \/ next = "drain"
             \/ next = "redrain" /\ IsFinal(lease'[w[1]]) /\ final = {lease'[w[1]].usage}
      PROVE  \A v \in Waiters : Moves(v)
  <2>1. CASE Running
    <3>1. /\ waiter'[w].at = next /\ waiter'[w].final = final
          /\ \A v \in Waiters \ {w} : waiter'[v] = waiter[v]
      BY SMTT(20), <1>5, <1>t, <2>1 DEF RequestDrain, WaiterRecord
    <3> QED
      BY <1>5, <3>1 DEF Moves, PastTracker, Holding, LiveWaiter
  <2>2. CASE ~Running
    BY <1>5, <2>2, SettleMoves DEF RequestDrain, Failures
  <2> QED
    BY SMTT(20), <2>1, <2>2
<1>6. CASE WaiterPhase(w)
  <2>1. TrackerDone(lease[w[1]]) /\ UNCHANGED lease
    BY <1>6, <1>p DEF WaiterPhase, LiveWaiter
  <2> QED
    BY <1>2, <1>5, <1>6, <2>1 DEF WaiterPhase, IsFinal, PastTracker, Holding, LiveWaiter
<1>7. CASE WaiterGeneration(w)
  <2>1. TrackerDone(lease[w[1]])
    BY <1>7, <1>p DEF WaiterGeneration, LiveWaiter
  <2> QED
    BY <1>1, <1>7, <2>1 DEF WaiterGeneration, PastTracker, Holding, LiveWaiter
<1>8. CASE WaiterQuiet(w)
  BY <1>5, <1>8, <1>p DEF WaiterQuiet, LiveWaiter
<1>9. CASE WaiterCheck(w)
  <2>1. TrackerDone(lease[w[1]])
    BY SMTT(20), <1>9, <1>p DEF WaiterCheck, LiveWaiter
  <2>2. CASE GenerationUnchanged(lease[w[1]], waiter[w].before)
    <3>1. lease'[w[1]] = Quiesce(lease[w[1]]) /\ Settle(w, "ok", {lease[w[1]].usage})
      BY <1>9, <1>t, <2>2 DEF WaiterCheck
    <3>2. IsFinal(lease'[w[1]]) /\ lease'[w[1]].usage = lease[w[1]].usage
      BY SMTT(20), <1>t, <3>1 DEF Quiesce, IsFinal, LeaseRecord
    <3> QED
      BY <2>1, <3>1, <3>2, SettleMoves
  <2>3. CASE ~GenerationUnchanged(lease[w[1]], waiter[w].before)
    BY SMTT(20), <1>1, <1>9, <2>1, <2>3 DEF WaiterCheck, IdleWaiter, PastTracker, Holding, LiveWaiter
  <2> QED
    BY <2>2, <2>3
<1>10. CASE WaiterRedrained(w)
  <2>1. /\ TrackerDone(lease[w[1]]) /\ IsFinal(lease[w[1]]) /\ UNCHANGED lease
        /\ waiter[w].final = {lease[w[1]].usage}
    BY SMTT(20), <1>10 DEF WaiterRedrained, WaiterInv, PastTracker, Holding, LiveWaiter
  <2> QED
    BY SMTT(20), <1>10, <2>1, SettleMoves DEF WaiterRedrained
<1>11. CASE WaiterDeadline(w) \/ WaiterStopped(w)
  BY SMTT(20), <1>11, SettleMoves DEF WaiterDeadline, WaiterStopped, Failures
<1>12. CASE WaiterAbort(w) \/ ReaperRelease(w)
  BY <1>1, <1>12 DEF WaiterAbort, ReaperRelease, IdleWaiter, PastTracker, LiveWaiter
<1> QED
  BY <1>3, <1>4, <1>6, <1>7, <1>8, <1>9, <1>10, <1>11, <1>12 DEF WaiterNext

\* The steps of callers, connection tasks and the listener owner keep it too.
LEMMA OtherMoves ==
  ASSUME TypeOK, WaiterInv,
         \/ HostNext \/ OwnerNext \/ UNCHANGED vars
         \/ \E c \in Conns : ConnDeny(c) \/ ConnEnd(c) \/ ConnFinish(c) \/ ConnUntrack(c)
  PROVE  \A v \in Waiters : Moves(v)
<1>t. waiter \in [Waiters -> WaiterRecord]
  BY DEF TypeOK
<1>1. CASE UNCHANGED waiter
  BY <1>1 DEF Moves
<1>2. ASSUME NEW w, NEW new, waiter' = [waiter EXCEPT ![w] = new],
             new = waiter[w] \/ new.at \notin PastTracker
      PROVE  \A v \in Waiters : Moves(v)
  BY <1>2, <1>t DEF Moves
<1>3. ASSUME NEW l \in Leases, CloseCommit(l) \/ CloseFail(l) \/ CloseTimeout(l)
      PROVE  \A v \in Waiters : Moves(v)
  BY <1>2, <1>3 DEF CloseCommit, CloseFail, CloseTimeout, IdleWaiter, PastTracker, LiveWaiter
<1>4. CASE HostNext
  <2>1. \/ \E l \in Leases : CloseCommit(l) \/ CloseFail(l) \/ CloseTimeout(l)
        \/ UNCHANGED waiter
    BY <1>4
    DEF HostNext, Connect, AttachCall, CloseBegin, CloseSend, CloseRelease, CloseDisconnected,
        DropBegin, DropSend, ShutdownCall, ShutdownExpire, ShutdownJoin, ProxyDrop, taskVars
  <2> QED
    BY <1>1, <1>3, <2>1
<1>5. ASSUME NEW kind, RunClose(kind) PROVE \A v \in Waiters : Moves(v)
  BY <1>2, <1>5 DEF RunClose, IdleWaiter, PastTracker, LiveWaiter
<1>6. ASSUME NEW c \in Conns, Refuse(c) PROVE \A v \in Waiters : Moves(v)
  <2>1. \A v \in Waiters : waiter'[v].at = waiter[v].at /\ waiter'[v].final = waiter[v].final
    BY <1>6, <1>t DEF Refuse, WaiterRecord
  <2> QED
    BY <2>1 DEF Moves
<1>7. ASSUME NEW r \in Results, DrainAnswered(r) PROVE \A v \in Waiters : Moves(v)
  <2> DEFINE w == <<loop.cur.lease, loop.cur.n>>
  <2>1. /\ Asking(w) /\ UNCHANGED lease
        /\ \/ waiter' = [waiter EXCEPT ![w].at = IF @ = "drain" THEN "check" ELSE "redrained"]
           \/ UNCHANGED waiter
           \/ Settle(w, "listener", {})
    BY <1>7 DEF DrainAnswered, DrainReady
  <2> HIDE DEF w
  <2>2. CASE waiter' = [waiter EXCEPT ![w].at = IF @ = "drain" THEN "check" ELSE "redrained"]
    <3>1. ASSUME NEW v \in Waiters, v # w PROVE Moves(v)
      BY <2>2, <3>1, <1>t DEF Moves
    <3>2. ASSUME w \in Waiters PROVE Moves(w)
      <4>1. waiter'[w].at = (IF waiter[w].at = "drain" THEN "check" ELSE "redrained")
            /\ waiter'[w].final = waiter[w].final
        BY <2>2, <3>2, <1>t DEF WaiterRecord
      <4>2. TrackerDone(lease[w[1]])
        BY SMTT(20), <2>1, <3>2 DEF Asking, WaiterInv, PastTracker, LiveWaiter
      <4>3. CASE waiter[w].at = "drain"
        BY <4>1, <4>2, <4>3 DEF Moves, PastTracker, Holding, LiveWaiter
      <4>4. CASE waiter[w].at = "redrain"
        <5>1. IsFinal(lease[w[1]]) /\ waiter[w].final = {lease[w[1]].usage}
          BY <3>2, <4>4 DEF WaiterInv, Holding
        <5> QED
          BY SMTT(20), <2>1, <4>1, <4>2, <5>1 DEF Moves
      <4> QED
        BY <2>1, <4>3, <4>4 DEF Asking
    <3> QED
      BY <3>1, <3>2
  <2>3. CASE Settle(w, "listener", {}) /\ w \in Waiters
    BY <2>3, SettleMoves DEF Failures
  <2>4. CASE Settle(w, "listener", {}) /\ w \notin Waiters
    BY <2>4, <1>t DEF Settle, Moves
  <2> QED
    BY <1>1, <2>1, <2>2, <2>3, <2>4
<1>8. CASE OwnerNext
  <2>1. \/ RunClose("Close") \/ RunClose("Reap") \/ \E c \in Conns : Refuse(c)
        \/ \E r \in Results : DrainAnswered(r)
        \/ UNCHANGED waiter
    BY <1>8
    DEF OwnerNext, RunAttach, RunRelease, RunDrain, RunShutdown, RunRetry, RunAccept, DrainAccept,
        TakeSocket, RunAcceptError, AttachInstall, AttachDrained, DrainAbandoned, DispatchAcquire,
        DispatchAdmit, DispatchReject, ShutdownClose, ShutdownDecide, ShutdownReply, taskVars
  <2> QED
    BY SMTT(20), <1>1, <1>5, <1>6, <1>7, <2>1
<1> QED
  BY <1>1, <1>4, <1>8 DEF ConnDeny, ConnEnd, ConnFinish, ConnUntrack, vars, taskVars

\* A certificate, once issued, stays the truth; a new one is the frozen counters.
LEMMA CertificateStep ==
  ASSUME TypeOK, CertInv, [Next]_vars, \A l \in Leases : Monotone(lease[l], lease'[l])
  PROVE  CertificateFinal'
<1>t. /\ handle \in [Leases -> HandleRecord] /\ lease \in [Leases -> LeaseRecord]
      /\ loop.cur.lease \in Leases \cup {0}
  BY SMTT(20) DEF TypeOK, LoopRecord, Commands
<1> SUFFICES ASSUME NEW l \in Leases
             PROVE  handle'[l].certificate \subseteq
                      (IF IsClosed(lease'[l]) THEN {lease'[l].usage} ELSE {})
  BY DEF CertificateFinal
<1>1. CASE handle'[l].certificate = handle[l].certificate
  <2>1. handle[l].certificate \subseteq (IF IsClosed(lease[l]) THEN {lease[l].usage} ELSE {})
    BY DEF CertInv, CertificateFinal
  <2>2. IsClosed(lease[l]) => IsClosed(lease'[l]) /\ lease'[l].usage = lease[l].usage
    BY DEF Monotone, IsClosed, IsFinal
  <2> QED
    BY <1>1, <2>1, <2>2
<1>2. ASSUME IsClosed(lease[l]), UNCHANGED lease, handle'[l].certificate = {lease[l].usage}
      PROVE  handle'[l].certificate \subseteq
               (IF IsClosed(lease'[l]) THEN {lease'[l].usage} ELSE {})
  BY <1>2
<1>3. ASSUME CloseCommit(l)
      PROVE  handle'[l].certificate \subseteq
               (IF IsClosed(lease'[l]) THEN {lease'[l].usage} ELSE {})
  <2>1. Current(l) \in Waiters /\ Current(l)[1] = l
    BY <1>t DEF Current, Waiters, HandleRecord
  <2>2. waiter[Current(l)].final = {lease[l].usage}
    BY <1>3, <2>1 DEF CertInv, WaiterInv, Holding, CloseCommit
  <2>3. lease'[l].phase = "Closed" /\ lease'[l].usage = lease[l].usage
    BY <1>3, <1>t DEF CloseCommit, MarkClosed, LeaseRecord
  <2>4. handle'[l].certificate = waiter[Current(l)].final
    BY SMTT(20), <1>3, <1>t DEF CloseCommit, HandleRecord
  <2> QED
    BY <2>2, <2>3, <2>4 DEF IsClosed
<1>4. ASSUME NEW m \in Leases, TakeClosedUsage(m), IsClosed(lease[m]), UNCHANGED lease
      PROVE  handle'[l].certificate \subseteq
               (IF IsClosed(lease'[l]) THEN {lease'[l].usage} ELSE {})
  <2>1. IF m = l THEN handle'[l].certificate = {lease[l].usage} ELSE handle'[l] = handle[l]
    BY <1>4, <1>t DEF TakeClosedUsage, HandleRecord
  <2> QED
    BY <1>1, <1>2, <1>4, <2>1
<1>5. ASSUME NEW m \in Leases,
             \/ CloseSend(m) \/ CloseRelease(m) \/ CloseFail(m) \/ CloseTimeout(m)
             \/ CloseDisconnected(m) \/ DropBegin(m) \/ DropSend(m) \/ CloseBegin(m)
      PROVE  handle'[l].certificate \subseteq
               (IF IsClosed(lease'[l]) THEN {lease'[l].usage} ELSE {})
  <2>1. \/ TakeClosedUsage(m) /\ IsClosed(lease[m]) /\ UNCHANGED lease
        \/ \E a : handle' = [handle EXCEPT ![m].at = a]
        \/ \E a, b : handle' = [handle EXCEPT ![m].at = a, ![m].closes = b]
    BY <1>5 DEF CloseSend, CloseRelease, CloseFail, CloseTimeout, CloseDisconnected, DropBegin,
                DropSend, CloseBegin, RuntimeStoppedOrClosed
  <2>2. ASSUME NEW a, NEW b, \/ handle' = [handle EXCEPT ![m].at = a]
                             \/ handle' = [handle EXCEPT ![m].at = a, ![m].closes = b]
        PROVE  handle'[l].certificate = handle[l].certificate
    BY SMTT(20), <2>2, <1>t DEF HandleRecord
  <2> QED
    BY <1>1, <1>4, <2>1, <2>2
<1>6. ASSUME NEW m \in Leases, m # l, CloseCommit(m)
      PROVE  handle'[l].certificate = handle[l].certificate
  BY <1>6, <1>t DEF CloseCommit
<1>7. ASSUME NEW a \in Addresses, AttachCall(a)
      PROVE  handle'[l].certificate = handle[l].certificate
  BY <1>7, <1>t DEF AttachCall, HandleRecord
<1>8. CASE HostNext
  BY SMTT(20), <1>1, <1>3, <1>5, <1>6, <1>7, <1>8
  DEF HostNext, Connect, ShutdownCall, ShutdownExpire, ShutdownJoin, ProxyDrop, hostVars
<1>9. CASE OwnerNext
  <2>1. UNCHANGED handle \/ \E m, a : handle' = [handle EXCEPT ![m].at = a]
    BY <1>9
    DEF OwnerNext, RunAttach, RunClose, RunRelease, RunDrain, RunShutdown, RunRetry, RunAccept,
        DrainAccept, TakeSocket, RunAcceptError, AttachInstall, AttachDrained, DrainAnswered,
        DrainAbandoned, DispatchAcquire, DispatchAdmit, DispatchReject, ShutdownClose,
        ShutdownDecide, ShutdownReply, hostVars
  <2>2. handle'[l].certificate = handle[l].certificate
    BY SMTT(20), <2>1, <1>t DEF HandleRecord
  <2> QED
    BY SMTT(20), <1>1, <2>2
<1>10. CASE TaskNext
  <2>1. UNCHANGED handle
    BY <1>10
    DEF TaskNext, ConnDeny, ConnEnd, ConnFinish, ConnUntrack, WaiterTracked, WaiterTop,
        WaiterPhase, WaiterGeneration, WaiterQuiet, WaiterCheck, WaiterRedrained, WaiterDeadline,
        WaiterStopped, WaiterAbort, ReaperMark, ReaperRelease, hostVars
  <2> QED
    BY SMTT(20), <1>1, <2>1
<1>11. CASE UNCHANGED vars
  BY <1>1, <1>11 DEF vars, hostVars
<1> QED
  BY <1>8, <1>9, <1>10, <1>11 DEF Next, Settled

\* Nothing is admitted, final or certified at the start.
LEMMA CertInit == Init => CertInv
<1> SUFFICES ASSUME Init PROVE CertInv
  OBVIOUS
<1>1. TrackInv /\ FinalInv
  BY SMTT(20) DEF Init, TrackInv, FinalInv, Coherent, NewLease, GoneSocket, LiveTask, IsFinal
<1>2. ASSUME NEW l \in Leases PROVE Unfinished(l) = {}
  BY SMTT(20) DEF Init, Unfinished, GoneSocket, Leases
<1>3. ActiveInv
  BY <1>2, FS_EmptySet DEF Init, ActiveInv, NewLease
<1>4. WaiterInv
  BY DEF Init, WaiterInv, IdleWaiter, PastTracker, Holding, LiveWaiter
<1>5. CertificateFinal
  BY DEF Init, CertificateFinal
<1> QED
  BY <1>1, <1>3, <1>4, <1>5 DEF CertInv

\* The invariant behind a certificate holds in every reachable state: tracker
\* tokens, active counts and tasks agree, and whoever is past the tracker's wait
\* finds it done.
THEOREM CertificateInvariant == Spec => []CertInv
<1>1. TypeOK /\ SocketInv /\ CertInv /\ [Next]_vars => CertInv'
  <2> SUFFICES ASSUME TypeOK, SocketInv, CertInv, [Next]_vars PROVE CertInv'
    OBVIOUS
  <2>1. TrackInv' /\ ActiveInv' /\ FinalInv' /\ \A l \in Leases : Monotone(lease[l], lease'[l])
    BY SMTT(20), LeaseStep
  <2>2. \A v \in Waiters : Moves(v)
    BY WaiterMoves, OtherMoves DEF CertInv, Next, TaskNext, WaiterNext, Settled
  <2>3. WaiterInv'
    BY SMTT(20), <2>1, <2>2, MovesStep DEF CertInv
  <2>4. CertificateFinal'
    BY <2>1, CertificateStep
  <2> QED
    BY <2>1, <2>3, <2>4 DEF CertInv
<1> QED
  BY <1>1, CertInit, TypeCorrect, SocketsOrdered, PTL DEF Spec

\* Once a lease is quiesced or closed no connection task of it is left and its
\* active count is zero, for any number of sockets, leases, limits and callers.
THEOREM CertifiedQuiescence == Spec => []CertifiedQuiescent
<1>1. TypeOK /\ CertInv => CertifiedQuiescent
  <2> SUFFICES ASSUME TypeOK, CertInv, NEW l \in Leases, IsFinal(lease[l])
               PROVE  /\ lease[l].tracker = {} /\ lease[l].usage.active = 0
                      /\ \A c \in Conns : conn[c].lease # l
    BY DEF CertifiedQuiescent
  <2>1. lease[l].tracker = {}
    BY DEF CertInv, FinalInv, TrackerDone
  <2>2. \A c \in Conns : conn[c].lease # l
    BY SMTT(20), <2>1 DEF CertInv, TrackInv, Leases
  <2>3. Unfinished(l) = {}
    BY <2>2 DEF Unfinished
  <2> QED
    BY <2>1, <2>2, <2>3, FS_EmptySet DEF CertInv, ActiveInv
<1> QED
  BY <1>1, TypeCorrect, CertificateInvariant, PTL

\* The counters a close has returned are final: the lease stays closed and its
\* counters never change again.
THEOREM CertificateIsFinal == Spec => []CertificateFinal
<1>1. CertInv => CertificateFinal
  BY DEF CertInv
<1> QED
  BY <1>1, CertificateInvariant, PTL

\* What is known of the runtime so far.
CloseInv == TypeOK /\ SocketInv /\ CertInv

\* Types, sockets and certificates, in one invariant.
LEMMA CloseInvariant == Spec => []CloseInv
<1>1. TypeOK /\ SocketInv /\ CertInv => CloseInv
  BY DEF CloseInv
<1> QED
  BY <1>1, TypeCorrect, SocketsOrdered, CertificateInvariant, PTL

===============================================================================
