---------------------------- MODULE ContractProofs ----------------------------
(***************************************************************************)
(* The runtime implements LeaseContract: every step of run_proxy, of a     *)
(* task or of a caller is a step the management API promises, or none it   *)
(* can see.  And no lease inherits a socket from the one before it.        *)
(***************************************************************************)
EXTENDS GrantProofs, PermitProofs

USE ZenonT(30), SMTT(20)

-------------------------------------------------------------------------------
(***************************************************************************)
(* The contract.                                                           *)
(***************************************************************************)

\* The identity the contract sees.
Holder(l) == IF Granted(l) THEN handle[l].identity ELSE NoIdentity

\* The API sees no change of the handle, or of its grant.
HandleSame(l) ==
  (Granted(l)' <=> Granted(l)) /\ Holder(l)' = Holder(l)

CertificateSame(l) == handle'[l].certificate = handle[l].certificate

\* A caller collects the counters of a lease that is closed already.
Collects(m) ==
  /\ IsClosed(lease[m]) /\ UNCHANGED lease /\ Granted(m)
  /\ handle'[m].certificate = {lease[m].usage}
  /\ \A l \in Leases \ {m} : CertificateSame(l)

\* A handle's grant and identity change only when its attachment is installed.
LEMMA HoldersStay ==
  ASSUME TypeOK, OwnInv, TicketInv, [Next]_vars, NEW l \in Leases,
         ~(AttachInstall /\ l = loop.cur.lease)
  PROVE  HandleSame(l)
<1>1. Granted(l)' <=> Granted(l)
  BY GrantStep, GrantStays
<1>2. ASSUME Granted(l) PROVE handle'[l].identity = handle[l].identity
  <2>1. l < nextLeaseId
    BY <1>2 DEF Granted, OwnInv
  <2> QED
    BY <2>1, IdentityStays
<1>3. Holder(l)' = Holder(l)
  BY <1>1, <1>2 DEF Holder
<1> QED
  BY <1>1, <1>3 DEF HandleSame

\* A certificate is issued by a close that commits, or collected.
LEMMA CertificatesMove ==
  ASSUME TypeOK, [Next]_vars
  PROVE  \/ \A l \in Leases : CertificateSame(l)
         \/ \E m \in Leases : CloseCommit(m) \/ Collects(m)
<1>t. handle \in [Leases -> HandleRecord]
  BY DEF TypeOK
<1> DEFINE Goal == \/ \A l \in Leases : CertificateSame(l)
                   \/ \E m \in Leases : CloseCommit(m) \/ Collects(m)
<1>1. CASE UNCHANGED handle
  BY <1>1 DEF CertificateSame
<1>2. ASSUME NEW m, NEW a, NEW b,
             \/ handle' = [handle EXCEPT ![m].at = a]
             \/ handle' = [handle EXCEPT ![m].at = a, ![m].closes = b]
             \/ handle' = [handle EXCEPT ![m].at = a, ![m].identity = b]
      PROVE  \A l \in Leases : CertificateSame(l)
  BY SMTT(20), <1>2, <1>t DEF HandleRecord, CertificateSame
<1>3. ASSUME NEW m \in Leases, TakeClosedUsage(m), IsClosed(lease[m]), UNCHANGED lease, Granted(m)
      PROVE  Collects(m)
  BY <1>3, <1>t DEF TakeClosedUsage, HandleRecord, Collects, CertificateSame
<1>4. ASSUME NEW m \in Leases,
             \/ CloseSend(m) \/ CloseRelease(m) \/ CloseFail(m) \/ CloseTimeout(m)
             \/ CloseDisconnected(m) \/ DropBegin(m) \/ DropSend(m) \/ CloseBegin(m)
      PROVE  Goal
  <2>1. \/ TakeClosedUsage(m) /\ IsClosed(lease[m]) /\ UNCHANGED lease /\ Granted(m)
        \/ \E a : handle' = [handle EXCEPT ![m].at = a]
        \/ \E a, b : handle' = [handle EXCEPT ![m].at = a, ![m].closes = b]
    BY <1>4 DEF CloseSend, CloseRelease, CloseFail, CloseTimeout, CloseDisconnected, DropBegin,
                DropSend, CloseBegin, RuntimeStoppedOrClosed, Granted
  <2> QED
    BY <1>2, <1>3, <2>1
<1>5. ASSUME NEW a \in Addresses, AttachCall(a) PROVE Goal
  BY <1>2, <1>5 DEF AttachCall
<1>6. CASE HostNext
  BY <1>1, <1>4, <1>5, <1>6
  DEF HostNext, Connect, ShutdownCall, ShutdownExpire, ShutdownJoin, ProxyDrop, hostVars
<1>7. CASE OwnerNext
  <2>1. UNCHANGED handle \/ \E m, a : handle' = [handle EXCEPT ![m].at = a]
    BY <1>7
    DEF OwnerNext, RunAttach, RunClose, RunRelease, RunDrain, RunShutdown, RunRetry, RunAccept,
        DrainAccept, TakeSocket, RunAcceptError, AttachInstall, AttachDrained, DrainAnswered,
        DrainAbandoned, DispatchAcquire, DispatchAdmit, DispatchReject, ShutdownClose,
        ShutdownDecide, ShutdownReply, hostVars
  <2> QED
    BY <1>1, <1>2, <2>1
<1> QED
  BY <1>1, <1>6, <1>7, TaskFrame DEF Next, Settled, vars, hostVars

\* The phases of LeaseState, as the contract names them.
LEMMA PhaseStages ==
  /\ StageOfPhase["Open"] = "open" /\ StageOfPhase["Revoking"] = "revoked"
  /\ StageOfPhase["Quiesced"] = "frozen" /\ StageOfPhase["Closed"] = "closed"
BY DEF StageOfPhase

\* What the contract sees of a lease depends on its handle and its phase.
LEMMA StageSame ==
  ASSUME NEW l \in Leases, HandleSame(l), lease'[l].phase = lease[l].phase
  PROVE  Stage(l)' = Stage(l)
BY DEF Stage, HandleSame

\* The stage of a granted lease is that of its phase.
LEMMA StageOf ==
  ASSUME NEW l \in Leases, Granted(l)
  PROVE  /\ lease[l].phase = "Open" => Stage(l) = "open"
         /\ lease[l].phase = "Revoking" => Stage(l) = "revoked"
         /\ lease[l].phase = "Quiesced" => Stage(l) = "frozen"
         /\ lease[l].phase = "Closed" => Stage(l) = "closed"
BY PhaseStages DEF Stage

\* The contract's variables.
StageF == [l \in Leases |-> Stage(l)]
HolderF == [l \in Leases |-> IF Granted(l) THEN handle[l].identity ELSE NoIdentity]
TallyF == [l \in Leases |-> lease[l].usage]
IssuedF == [l \in Leases |-> handle[l].certificate]

\* Who keeps grants and certificates keeps these two.
LEMMA FrameSame ==
  /\ (\A l \in Leases : HandleSame(l)) => HolderF' = HolderF
  /\ (\A l \in Leases : CertificateSame(l)) => IssuedF' = IssuedF
BY DEF HandleSame, CertificateSame, Holder, HolderF, IssuedF

\* A change of one lease is a step of the contract.
LEMMA MoveIsPromised ==
  ASSUME TypeOK, NEW m \in Leases, Granted(m), LeaseMove(m),
         \A l \in Leases : HandleSame(l) /\ CertificateSame(l),
         \A l \in Leases \ {m} : Same(l)
  PROVE  Promise!ContractNext
<1>t. lease[m] \in LeaseRecord /\ lease[m].usage \in Usage
  BY DEF TypeOK, LeaseRecord
<1>h. HolderF' = HolderF /\ IssuedF' = IssuedF
  BY FrameSame
<1>g. Granted(m)'
  BY DEF HandleSame
<1>o. \A l \in Leases \ {m} : Stage(l)' = Stage(l) /\ lease'[l].usage = lease[l].usage
  BY StageSame DEF Same
<1>s. /\ lease[m].phase = "Open" => Stage(m) = "open"
      /\ lease[m].phase = "Revoking" => Stage(m) = "revoked"
      /\ lease[m].phase = "Quiesced" => Stage(m) = "frozen"
      /\ lease[m].phase = "Closed" => Stage(m) = "closed"
  BY StageOf
<1>z. /\ lease'[m].phase = "Revoking" => Stage(m)' = "revoked"
      /\ lease'[m].phase = "Quiesced" => Stage(m)' = "frozen"
      /\ lease'[m].phase = "Closed" => Stage(m)' = "closed"
  BY <1>g, PhaseStages DEF Stage
<1>p. lease[m].phase \in {"Open", "Revoking", "Quiesced", "Closed"}
  BY <1>t DEF LeaseRecord, Phases
<1>e. StageF[m] = Stage(m) /\ TallyF[m] = lease[m].usage
  BY DEF StageF, TallyF
<1>u. ASSUME NEW phase, Turns(m, phase)
      PROVE  TallyF' = TallyF /\ \A st : Stage(m)' = st => StageF' = [StageF EXCEPT ![m] = st]
  BY <1>o, <1>u DEF Turns, TallyF, StageF
<1>c. ASSUME NEW u, Counts(m, u)
      PROVE  StageF' = StageF /\ TallyF' = [TallyF EXCEPT ![m] = u]
  <2>1. Stage(m)' = Stage(m)
    BY <1>c, StageSame DEF Counts
  <2> QED
    BY <1>c, <1>o, <2>1 DEF Counts, TallyF, StageF
<1>1. CASE lease[m].phase = "Open" /\ Turns(m, "Revoking")
  <2>1. StageF' = [l \in Leases |-> IF l \in {m} /\ StageF[l] = "open" THEN "revoked" ELSE StageF[l]]
    BY <1>1, <1>o, <1>s, <1>z DEF Turns, StageF
  <2>2. Promise!Revoke({m})
    BY <1>1, <1>h, <1>u, <2>1 DEF Promise!Revoke, StageF, HolderF, TallyF, IssuedF
  <2> QED
    BY <2>2 DEF Promise!ContractNext
<1>2. CASE lease[m].phase = "Revoking" /\ lease[m].usage.active = 0 /\ Turns(m, "Quiesced")
  <2>1. StageF' = [StageF EXCEPT ![m] = "frozen"] /\ StageF[m] = "revoked" /\ TallyF' = TallyF
        /\ TallyF[m].active = 0
    BY <1>2, <1>e, <1>s, <1>z, <1>u DEF Turns
  <2>2. Promise!Freeze(m)
    BY <1>h, <2>1 DEF Promise!Freeze, StageF, HolderF, TallyF, IssuedF
  <2> QED
    BY <2>2 DEF Promise!ContractNext
<1>3. CASE lease[m].phase \in {"Revoking", "Quiesced"} /\ lease[m].usage.active = 0
           /\ Turns(m, "Closed")
  <2>1. StageF' = [StageF EXCEPT ![m] = "closed"] /\ StageF[m] \in {"revoked", "frozen"}
        /\ TallyF' = TallyF /\ TallyF[m].active = 0
    BY <1>3, <1>e, <1>s, <1>z, <1>u DEF Turns
  <2>2. Promise!Close(m)
    BY <1>h, <2>1 DEF Promise!Close, StageF, HolderF, TallyF, IssuedF
  <2> QED
    BY <2>2 DEF Promise!ContractNext
<1>4. CASE lease[m].phase = "Closed" /\ Turns(m, "Closed")
  <2>1. StageF' = [l \in Leases |-> IF l \in {} /\ StageF[l] = "open" THEN "revoked" ELSE StageF[l]]
    BY <1>4, <1>o, <1>s, <1>z DEF Turns, StageF
  <2>2. Promise!Revoke({})
    BY <1>4, <1>h, <1>u, <2>1 DEF Promise!Revoke, StageF, HolderF, TallyF, IssuedF
  <2> QED
    BY <2>2 DEF Promise!ContractNext
<1>5. CASE lease[m].phase = "Open" /\ Counts(m, CountAdmission(lease[m].usage))
  <2>1. TallyF' = [TallyF EXCEPT ![m].accepted = @ + 1, ![m].active = @ + 1]
    BY <1>5, <1>c, <1>e DEF CountAdmission
  <2>2. Promise!Admit(m)
    BY <1>5, <1>c, <1>e, <1>h, <1>s, <1>z, <2>1 DEF Promise!Admit, StageF, HolderF, TallyF, IssuedF
  <2> QED
    BY <2>2 DEF Promise!ContractNext
<1>n. ~IsFinal(lease[m]) => StageF[m] \in {"open", "revoked"}
  BY <1>e, <1>p, <1>s, <1>z DEF IsFinal
<1>6. CASE ~IsFinal(lease[m]) /\ Counts(m, [lease[m].usage EXCEPT !.denied = @ + 1])
  <2>1. TallyF' = [TallyF EXCEPT ![m].denied = @ + 1]
    BY <1>6, <1>c, <1>e
  <2>2. Promise!Deny(m)
    BY <1>6, <1>c, <1>h, <1>n, <2>1
    DEF Promise!Deny, Promise!Counting, StageF, HolderF, TallyF, IssuedF
  <2> QED
    BY <2>2 DEF Promise!ContractNext
<1>7. CASE ~IsFinal(lease[m]) /\ lease[m].usage.active > 0
           /\ Counts(m, [lease[m].usage EXCEPT !.active = @ - 1])
  <2>1. TallyF' = [TallyF EXCEPT ![m].active = @ - 1] /\ TallyF[m].active > 0
    BY <1>7, <1>c, <1>e
  <2>2. Promise!Finish(m)
    BY <1>7, <1>c, <1>h, <1>n, <2>1
    DEF Promise!Finish, Promise!Counting, StageF, HolderF, TallyF, IssuedF
  <2> QED
    BY <2>2 DEF Promise!ContractNext
<1> QED
  BY <1>p, <1>1, <1>2, <1>3, <1>4, <1>5, <1>6, <1>7 DEF LeaseMove

\* An installation grants the identity: no open lease holds it.
LEMMA InstallIsPromised ==
  ASSUME TypeOK, OwnInv, GrantInv, [Next]_vars, AttachInstall
  PROVE  Promise!ContractNext
<1>t. handle \in [Leases -> HandleRecord] /\ lease \in [Leases -> LeaseRecord]
  BY DEF TypeOK
<1>1. loop.cur.kind = "Attach"
  BY DEF AttachInstall, OwnInv
<1>2. PICK m \in Leases : m = loop.cur.lease /\ m < nextLeaseId
  BY <1>1 DEF OwnInv, Sound
<1>3. PICK i \in Identities : i = handle[m].identity
  BY <1>2 DEF OwnInv
<1>4. ~Granted(m) /\ Granted(m)' /\ lease[m].phase = "Open" /\ UNCHANGED lease
  <2>1. handle[m].at = "attaching"
    BY <1>1, <1>2 DEF GrantInv, TicketInv, Backed
  <2>2. handle'[m].at = "held"
    BY SMTT(20), <1>2, <1>t DEF AttachInstall, HandleRecord
  <2> QED
    BY <2>1, <2>2 DEF Granted, GrantInv, AttachInstall
<1>5. handle'[m].identity = i /\ \A l \in Leases : CertificateSame(l)
  BY <1>2, <1>3, <1>t DEF AttachInstall, HandleRecord, CertificateSame
<1>6. \A l \in Leases \ {m} : HandleSame(l) /\ Stage(l)' = Stage(l)
  <2>1. \A l \in Leases \ {m} : HandleSame(l)
    BY <1>2, HoldersStay DEF GrantInv
  <2> QED
    BY <1>4, <2>1, StageSame
<1>7. Stage(m) = "absent" /\ Stage(m)' = "open"
  BY <1>4, PhaseStages DEF Stage
<1>8. /\ StageF' = [StageF EXCEPT ![m] = "open"] /\ StageF[m] = "absent"
      /\ HolderF' = [HolderF EXCEPT ![m] = i]
      /\ TallyF' = TallyF /\ IssuedF' = IssuedF
  <2>1. StageF' = [StageF EXCEPT ![m] = "open"] /\ StageF[m] = "absent"
    BY <1>6, <1>7 DEF StageF
  <2>2. Holder(m)' = i /\ \A l \in Leases \ {m} : Holder(l)' = Holder(l)
    BY <1>4, <1>5, <1>6 DEF HandleSame, Holder
  <2>3. HolderF' = [HolderF EXCEPT ![m] = i]
    BY <2>2 DEF HolderF, Holder
  <2> QED
    BY <1>4, <1>5, <2>1, <2>3, FrameSame DEF TallyF
<1>9. ASSUME NEW l \in Leases, HolderF[l] = i PROVE StageF[l] = "closed"
  <2>1. Granted(l) /\ handle[l].identity = i
    BY <1>9, AddressAssumption DEF HolderF
  <2>2. registry[i] \in {0} \cup {k \in Leases : IsClosed(lease[k])}
    BY <1>1, <1>2, <1>3 DEF OwnInv, Replaceable
  <2>3. IsClosed(lease[l])
    BY SMTT(20), <2>1, <2>2 DEF OwnInv, ExclusiveIdentity, Leases
  <2> QED
    BY <2>1, <2>3, StageOf DEF IsClosed, StageF
<1>10. Promise!Grant(m, i)
  BY <1>8, <1>9 DEF Promise!Grant, StageF, HolderF, TallyF, IssuedF
<1> QED
  BY <1>10 DEF Promise!ContractNext

\* A certificate is issued with the final counters of a lease that is closed, or
\* that this step closes.
LEMMA IssueIsPromised ==
  ASSUME TypeOK, CertInv, OwnInv, GrantInv, [Next]_vars, ~AttachInstall,
         NEW m \in Leases, CloseCommit(m) \/ Collects(m)
  PROVE  Promise!ContractNext
<1>t. handle \in [Leases -> HandleRecord] /\ lease \in [Leases -> LeaseRecord]
  BY DEF TypeOK
<1>1. \A l \in Leases : HandleSame(l)
  BY HoldersStay DEF GrantInv
<1>h. HolderF' = HolderF
  BY <1>1, FrameSame
<1>e. StageF[m] = Stage(m) /\ TallyF[m] = lease[m].usage
  BY DEF StageF, TallyF
<1>i. ASSUME handle'[m].certificate = {lease[m].usage}, \A l \in Leases \ {m} : CertificateSame(l)
      PROVE  IssuedF' = [IssuedF EXCEPT ![m] = {TallyF[m]}]
  BY <1>e, <1>i DEF IssuedF, CertificateSame
<1>2. CASE Collects(m)
  <2>1. \A l \in Leases : Stage(l)' = Stage(l)
    BY <1>1, <1>2, StageSame DEF Collects
  <2>2. StageF' = StageF /\ TallyF' = TallyF /\ StageF[m] = "closed"
    BY <1>2, <1>e, <2>1, StageOf DEF Collects, StageF, TallyF, IsClosed
  <2>3. Promise!Collect(m)
    BY <1>2, <1>h, <1>i, <2>2
    DEF Collects, Promise!Collect, Promise!Issue, StageF, HolderF, TallyF, IssuedF
  <2> QED
    BY <2>3 DEF Promise!ContractNext
<1>3. CASE CloseCommit(m)
  <2>1. Current(m) \in Waiters /\ Current(m)[1] = m
    BY <1>t DEF Current, Waiters, HandleRecord
  <2>2. waiter[Current(m)].final = {lease[m].usage} /\ TrackerDone(lease[m])
    BY <1>3, <2>1 DEF CertInv, WaiterInv, Holding, PastTracker, CloseCommit
  <2>3. handle'[m].certificate = {lease[m].usage} /\ \A l \in Leases \ {m} : CertificateSame(l)
    BY <1>3, <1>t, <2>2 DEF CloseCommit, HandleRecord, CertificateSame
  <2>4. /\ lease'[m].phase = "Closed" /\ lease'[m].usage = lease[m].usage
        /\ \A l \in Leases \ {m} : lease'[l] = lease[l]
    BY <1>3, <1>t DEF CloseCommit, MarkClosed, LeaseRecord
  <2>5. Granted(m) /\ Granted(m)'
    BY <1>1, <1>3 DEF CloseCommit, Granted, HandleSame
  <2>6. \A l \in Leases \ {m} : Stage(l)' = Stage(l)
    BY <1>1, <2>4, StageSame
  <2>7. Stage(m)' = "closed"
    BY <2>4, <2>5, PhaseStages DEF Stage
  <2>8. StageF' = [StageF EXCEPT ![m] = "closed"] /\ TallyF' = TallyF
    BY <2>4, <2>6, <2>7 DEF StageF, TallyF
  <2>9. TallyF[m].active = 0 /\ StageF[m] \in {"revoked", "frozen", "closed"}
    <3>1. lease[m].phase \in {"Revoking", "Quiesced", "Closed"}
      BY <1>t, <2>2, DoneIsIdle DEF LeaseRecord, Phases
    <3> QED
      BY <1>e, <2>2, <2>5, <3>1, DoneIsIdle, StageOf
  <2>10. IssuedF' = [IssuedF EXCEPT ![m] = {TallyF[m]}]
    BY <1>i, <2>3
  <2>11. CASE StageF[m] = "closed"
    <3>1. StageF' = StageF
      BY <2>8, <2>11 DEF StageF
    <3>2. Promise!Collect(m)
      BY <1>h, <2>8, <2>10, <2>11, <3>1
      DEF Promise!Collect, Promise!Issue, StageF, HolderF, TallyF, IssuedF
    <3> QED
      BY <3>2 DEF Promise!ContractNext
  <2>12. CASE StageF[m] \in {"revoked", "frozen"}
    <3>1. Promise!Close(m)
      BY <1>h, <2>8, <2>9, <2>10, <2>12
      DEF Promise!Close, Promise!Issue, StageF, HolderF, TallyF, IssuedF
    <3> QED
      BY <3>1 DEF Promise!ContractNext
  <2> QED
    BY <2>9, <2>11, <2>12
<1> QED
  BY <1>2, <1>3

\* A shutdown revokes every registered lease at once.
LEMMA ShutdownIsPromised ==
  ASSUME TypeOK, OwnInv, GrantInv, RunShutdown,
         \A l \in Leases : HandleSame(l) /\ CertificateSame(l)
  PROVE  Promise!ContractNext
<1>t. lease \in [Leases -> LeaseRecord] /\ registry \in [Identities -> Leases \cup {0}]
  BY DEF TypeOK
<1>1. HolderF' = HolderF /\ IssuedF' = IssuedF
  BY FrameSame
<1>2. PICK S : S = Registered
  OBVIOUS
<1>3. S \in SUBSET Leases /\ \A l \in S : Granted(l)
  BY <1>t, <1>2 DEF Registered, GrantInv
<1>4. lease' = [l \in Leases |-> IF l \in S THEN BeginClose(lease[l]) ELSE lease[l]]
  BY <1>2 DEF RunShutdown
<1>5. ASSUME NEW l \in Leases
      PROVE  /\ lease'[l].usage = lease[l].usage
             /\ Stage(l)' = IF l \in S /\ Stage(l) = "open" THEN "revoked" ELSE Stage(l)
  <2>1. lease[l] \in LeaseRecord
    BY <1>t
  <2>2. CASE l \in S /\ lease[l].phase = "Open"
    <3>1. lease'[l].usage = lease[l].usage /\ lease'[l].phase = "Revoking"
      BY <1>4, <2>1, <2>2 DEF BeginClose, LeaseRecord
    <3>2. Granted(l) /\ Granted(l)'
      BY <1>3, <2>2 DEF HandleSame
    <3> QED
      BY <2>2, <3>1, <3>2, PhaseStages DEF Stage
  <2>3. CASE l \in S /\ lease[l].phase # "Open"
    <3>1. lease'[l] = lease[l]
      BY <1>4, <2>3 DEF BeginClose
    <3>2. Stage(l) # "open"
      BY <1>3, <2>1, <2>3, StageOf DEF LeaseRecord, Phases
    <3> QED
      BY <3>1, <3>2, StageSame
  <2>4. CASE l \notin S
    BY <1>4, <2>4, StageSame
  <2> QED
    BY <2>2, <2>3, <2>4
<1>6. /\ TallyF' = TallyF
      /\ StageF' = [l \in Leases |-> IF l \in S /\ StageF[l] = "open" THEN "revoked" ELSE StageF[l]]
  BY <1>5 DEF TallyF, StageF
<1>7. Promise!Revoke(S)
  BY <1>1, <1>6 DEF Promise!Revoke, StageF, HolderF, TallyF, IssuedF
<1> QED
  BY <1>3, <1>7 DEF Promise!ContractNext

\* Every step of the runtime is a step of the contract or changes nothing it sees.
LEMMA StepIsPromised ==
  ASSUME TypeOK, SocketInv, CertInv, OwnInv, GrantInv, [Next]_vars
  PROVE  Promise!ContractNext \/ UNCHANGED Promise!contractVars
<1>1. CASE AttachInstall
  BY <1>1, InstallIsPromised
<1>2. CASE ~AttachInstall /\ \E m \in Leases : CloseCommit(m) \/ Collects(m)
  BY <1>2, IssueIsPromised
<1>3. CASE ~AttachInstall /\ \A l \in Leases : CertificateSame(l)
  <2>1. \A l \in Leases : HandleSame(l) /\ CertificateSame(l)
    BY <1>3, HoldersStay DEF GrantInv
  <2>2. CASE \A l \in Leases : Same(l)
    <3>1. \A l \in Leases : Stage(l)' = Stage(l) /\ lease'[l].usage = lease[l].usage
      BY <2>1, <2>2, StageSame DEF Same
    <3>2. StageF' = StageF /\ TallyF' = TallyF /\ HolderF' = HolderF /\ IssuedF' = IssuedF
      BY <2>1, <3>1, FrameSame DEF StageF, TallyF
    <3> QED
      BY <3>2 DEF Promise!contractVars, StageF, HolderF, TallyF, IssuedF
  <2> QED
    BY <2>1, <2>2, LeasesMove, MoveIsPromised, ShutdownIsPromised DEF LeaseMoves
<1> QED
  BY <1>1, <1>2, <1>3, CertificatesMove

\* The runtime keeps the promises of the management API, for any number of leases,
\* sockets, identities and calls: it implements LeaseContract.
THEOREM RuntimeKeepsContract == Spec => KeepsContract
<1>1. Init => Promise!ContractInit
  <2> SUFFICES ASSUME Init PROVE Promise!ContractInit
    OBVIOUS
  <2>1. \A l \in Leases : ~Granted(l) /\ Stage(l) = "absent"
    BY DEF Init, Granted, Stage
  <2> QED
    BY <2>1 DEF Init, Promise!ContractInit, NewLease
<1>2. RuntimeInv /\ GrantInv /\ [Next]_vars => [Promise!ContractNext]_(Promise!contractVars)
  BY StepIsPromised DEF RuntimeInv
<1> QED
  BY <1>1, <1>2, RuntimeInvariant, GrantInvariant, PTL
  DEF Spec, KeepsContract, Promise!Contract

-------------------------------------------------------------------------------
(***************************************************************************)
(* Sockets and successive leases.  A pending socket is younger than the    *)
(* lease registered for its address: an attachment drains the queue        *)
(* between the call and the installation, and a waiter drains it between   *)
(* the revocation and the check.                                           *)
(***************************************************************************)

Pending == {"queued", "dispatch"}

\* A waiter of the lease has had its drain answered, and may have quiesced the lease.
Drained(l) == lease[l].phase = "Quiesced" \/ \E n \in 0..MaxCloses : waiter[<<l, n>>].at = "check"

BornInv ==
  /\ \A c \in Conns : conn[c].at = "queued" => \E i \in 1..Len(backlog) : backlog[i] = c
  /\ \A c \in Conns : conn[c].at \in Pending => Target(c) = 0 \/ conn[c].born > Target(c)
  /\ \A c \in Conns : loop.at = "install" /\ conn[c].at = "queued" => conn[c].born > loop.cur.lease
  /\ \A c \in Conns : conn[c].at \in LiveTask => conn[c].born > conn[c].lease
  /\ \A c \in Conns : conn[c].at = "queued" /\ Target(c) # 0 /\ Drained(Target(c)) => conn[c].late

\* The steps that change the accept queue.
LEMMA QueueMoves ==
  ASSUME TypeOK, [Next]_vars
  PROVE  UNCHANGED backlog \/ (\E c \in Conns : Connect(c)) \/ TakeSocket \/ Exit
<1>1. CASE HostNext
  BY <1>1, ZenonT(60)
  DEF HostNext, AttachCall, CloseBegin, CloseSend, CloseCommit, CloseRelease, CloseFail,
      CloseTimeout, CloseDisconnected, DropBegin, DropSend, ShutdownCall, ShutdownExpire,
      ShutdownJoin, ProxyDrop
<1>2. CASE TaskNext
  BY <1>2, ZenonT(60)
  DEF TaskNext, ConnDeny, ConnEnd, ConnFinish, ConnUntrack, WaiterTracked, WaiterTop, WaiterPhase,
      WaiterGeneration, WaiterQuiet, WaiterCheck, WaiterRedrained, WaiterDeadline, WaiterStopped,
      WaiterAbort, ReaperMark, ReaperRelease
<1>3. CASE OwnerNext
  BY <1>3, ZenonT(60)
  DEF OwnerNext, RunAttach, RunClose, RunRelease, RunDrain, RunShutdown, RunRetry, RunAccept,
      RunAcceptError, DrainAccept, AttachInstall, AttachDrained, DrainAnswered, DrainAbandoned,
      DrainReady, DispatchAcquire, DispatchAdmit, DispatchReject, ShutdownClose, ShutdownDecide,
      ShutdownReply, Continue
<1> QED
  BY <1>1, <1>2, <1>3 DEF Next, Settled, vars

\* A queued socket is in the queue.
LEMMA QueueStep ==
  ASSUME TypeOK, SocketInv, BornInv, [Next]_vars, NEW c \in Conns, conn'[c].at = "queued"
  PROVE  \E i \in 1..Len(backlog') : backlog'[i] = c
<1>t. conn \in [Conns -> ConnRecord] /\ backlog \in Seq(Conns) /\ Len(backlog) \in Nat
  BY SMTT(20) DEF TypeOK
<1>1. CASE Connect(c)
  <2>1. backlog' = Append(backlog, c)
    BY <1>1 DEF Connect
  <2>2. Len(backlog') = Len(backlog) + 1 /\ backlog'[Len(backlog) + 1] = c
    BY SMTT(20), <1>t, <2>1
  <2> QED
    BY SMTT(20), <1>t, <2>2
<1>2. CASE conn'[c] = conn[c]
  <2>1. PICK i \in 1..Len(backlog) : backlog[i] = c
    BY <1>2 DEF BornInv
  <2>2. CASE UNCHANGED backlog
    BY <2>1, <2>2
  <2>3. ASSUME NEW d \in Conns, Connect(d) PROVE \E j \in 1..Len(backlog') : backlog'[j] = c
    <3>1. backlog' = Append(backlog, d)
      BY <2>3 DEF Connect
    <3>2. Len(backlog') = Len(backlog) + 1 /\ backlog'[i] = backlog[i]
      BY SMTT(20), <1>t, <2>1, <3>1
    <3> QED
      BY SMTT(20), <1>t, <2>1, <3>2
  <2>4. CASE TakeSocket
    <3>1. i # 1
      BY SMTT(20), <1>2, <1>t, <2>1, <2>4 DEF TakeSocket, SocketInv, ConnRecord
    <3>2. Len(backlog') = Len(backlog) - 1 /\ backlog'[i - 1] = backlog[i]
      BY SMTT(20), <1>t, <2>1, <2>4, <3>1 DEF TakeSocket
    <3> QED
      BY SMTT(20), <1>t, <2>1, <3>1, <3>2
  <2>5. CASE Exit
    BY <1>2, <2>5 DEF Exit, GoneSocket
  <2> QED
    BY <2>2, <2>3, <2>4, <2>5, QueueMoves
<1> QED
  BY <1>1, <1>2, SocketMoves DEF SocketMove, LiveTask

\* The lease that a socket would be given to changes only by a release, which leaves
\* none, or by an installation.
LEMMA TargetMoves ==
  ASSUME TypeOK, OwnInv, [Next]_vars, NEW c \in Conns
  PROVE  Target(c)' \in {Target(c), 0} \/ (AttachInstall /\ Target(c)' = loop.cur.lease)
<1>t. registry \in [Identities -> Leases \cup {0}] /\ Canonical[Peer[c]] \in Identities
  BY AddressAssumption DEF TypeOK
<1>1. CASE registry' = registry
  BY <1>1 DEF Target
<1>2. CASE RunRelease
  BY <1>2, <1>t DEF RunRelease, ReleaseIfCurrent, Target
<1>3. CASE AttachInstall
  BY <1>3, <1>t DEF AttachInstall, Target
<1> QED
  BY <1>1, <1>2, <1>3, LoopStep DEF Continues, Finishes, Starts

\* A pending socket is younger than its lease, also after an installation.
LEMMA PendingStep ==
  ASSUME TypeOK, SocketInv, OwnInv, GrantInv, BornInv, [Next]_vars, NEW c \in Conns,
         conn'[c].at \in Pending, Target(c)' # 0
  PROVE  conn'[c].born > Target(c)'
<1>t. /\ registry \in [Identities -> Leases \cup {0}] /\ Canonical[Peer[c]] \in Identities
      /\ backlog \in Seq(Conns) /\ nextLeaseId \in Nat
  BY SMTT(20), AddressAssumption, LimitAssumption DEF TypeOK
<1>1. CASE Connect(c)
  <2>1. conn'[c].born = nextLeaseId /\ Target(c)' = Target(c)
    BY <1>1 DEF Connect, Target, ownerVars, TypeOK
  <2>2. Target(c) \in Leases /\ Granted(Target(c))
    BY <1>t, <2>1 DEF GrantInv, Target
  <2>3. Target(c) < nextLeaseId
    BY <2>2 DEF OwnInv, Granted
  <2>4. Target(c) \in Nat
    BY SMTT(20), <2>2 DEF Leases
  <2> QED
    BY <1>t, <2>1, <2>3, <2>4
<1>2. CASE /\ TakeSocket /\ backlog # <<>> /\ c = Head(backlog) /\ conn'[c].born = conn[c].born
  <2>1. conn[c].at = "queued"
    BY SMTT(20), <1>2, <1>t DEF SocketInv
  <2>2. Target(c)' = Target(c)
    BY <1>2 DEF TakeSocket, Target
  <2> QED
    BY <1>2, <2>1, <2>2 DEF BornInv, Pending
<1>3. CASE conn'[c] = conn[c]
  <2>1. CASE Target(c)' = Target(c)
    BY <1>3, <2>1 DEF BornInv
  <2>2. CASE AttachInstall /\ Target(c)' = loop.cur.lease
    <3>1. conn[c].at = "queued"
      BY <1>3, <2>2 DEF AttachInstall, SocketInv, Pending, Dispatching
    <3> QED
      BY <1>3, <2>2, <3>1 DEF AttachInstall, BornInv
  <2> QED
    BY <2>1, <2>2, TargetMoves
<1> QED
  BY <1>1, <1>2, <1>3, SocketMoves DEF SocketMove, Pending, LiveTask

\* So is every socket queued between an attachment's drain and its installation.
LEMMA InstallStep ==
  ASSUME TypeOK, OwnInv, BornInv, [Next]_vars, NEW c \in Conns,
         loop'.at = "install", conn'[c].at = "queued"
  PROVE  conn'[c].born > loop'.cur.lease
<1>t. loop \in LoopRecord /\ conn \in [Conns -> ConnRecord] /\ nextLeaseId \in Nat
  BY SMTT(20), LimitAssumption DEF TypeOK
<1>1. CASE UNCHANGED loop
  <2>1. CASE Connect(c)
    <3>1. conn'[c].born = nextLeaseId
      BY <2>1, <1>t DEF Connect
    <3>2. loop.cur.lease \in Leases /\ loop.cur.lease < nextLeaseId
      BY <1>1 DEF OwnInv, Sound
    <3>3. loop.cur.lease \in Nat
      BY SMTT(20), <3>2 DEF Leases
    <3> QED
      BY <1>1, <1>t, <3>1, <3>2, <3>3
  <2>2. CASE conn'[c] = conn[c]
    BY <1>1, <2>2 DEF BornInv
  <2> QED
    BY <2>1, <2>2, SocketMoves DEF SocketMove, LiveTask
<1>2. CASE AttachDrained("Drained")
  <2>1. backlog = <<>> /\ UNCHANGED conn
    BY <1>2 DEF AttachDrained, DrainReady
  <2>2. Len(backlog) = 0
    BY <2>1
  <2> QED
    BY SMTT(20), <2>1, <2>2 DEF BornInv
<1>3. CASE RunShutdown \/ ShutdownDecide \/ ShutdownReply \/ \E l \in Leases : ShutdownClose(l)
  BY <1>3, LoopPlaces
<1> QED
  BY <1>1, <1>2, <1>3, LoopMoves DEF LoopMove

\* A task was admitted under a lease older than its socket, and keeps both.
LEMMA ServedStep ==
  ASSUME TypeOK, SocketInv, BornInv, [Next]_vars, NEW c \in Conns, conn'[c].at \in LiveTask
  PROVE  conn'[c].born > conn'[c].lease
<1>1. CASE conn'[c] = conn[c]
  BY <1>1 DEF BornInv
<1>2. CASE /\ DispatchAdmit(c)
           /\ conn'[c].at = "serving" /\ conn'[c].lease = Target(c) /\ conn'[c].born = conn[c].born
  BY <1>2 DEF DispatchAdmit, SocketInv, BornInv, Pending
<1>3. CASE /\ conn[c].at \in LiveTask
           /\ conn'[c].born = conn[c].born /\ conn'[c].lease = conn[c].lease
  BY <1>3 DEF BornInv
<1>4. CASE Connect(c)
  BY <1>4 DEF Connect, LiveTask, TypeOK
<1> QED
  BY <1>1, <1>2, <1>3, <1>4, SocketMoves DEF SocketMove, LiveTask

\* Whoever is queued when the drain has been answered came after the revocation.
LEMMA LateStep ==
  ASSUME TypeOK, CertInv, OwnInv, GrantInv, BornInv, [Next]_vars, NEW c \in Conns,
         conn'[c].at = "queued", Target(c)' # 0, Drained(Target(c))'
  PROVE  conn'[c].late
<1>t. /\ registry \in [Identities -> Leases \cup {0}] /\ Canonical[Peer[c]] \in Identities
      /\ conn \in [Conns -> ConnRecord]
  BY AddressAssumption DEF TypeOK
<1>p. PICK m : m = Target(c)'
  OBVIOUS
<1>d. m # 0 /\ (lease'[m].phase = "Quiesced" \/ \E n \in 0..MaxCloses : waiter'[<<m, n>>].at = "check")
  BY <1>p DEF Drained
<1>o. ASSUME NEW l \in Leases, Drained(l) PROVE lease[l].phase # "Open"
  <2>1. ASSUME NEW n \in 0..MaxCloses, waiter[<<l, n>>].at = "check" PROVE lease[l].phase # "Open"
    <3>1. <<l, n>> \in Waiters /\ <<l, n>>[1] = l
      BY DEF Waiters
    <3>2. TrackerDone(lease[l])
      BY <2>1, <3>1 DEF CertInv, WaiterInv, PastTracker, LiveWaiter
    <3> QED
      BY <3>2, DoneIsIdle
  <2> QED
    BY <1>o, <2>1 DEF Drained
<1>1. CASE Connect(c)
  <2>1. conn'[c].late = (Target(c) # 0 /\ lease[Target(c)].phase # "Open")
    BY <1>1, <1>t DEF Connect
  <2>2. UNCHANGED <<lease, waiter, registry>>
    BY <1>1 DEF Connect, ownerVars
  <2>3. m = Target(c) /\ m \in Leases
    BY <1>d, <1>p, <1>t, <2>2 DEF Target
  <2>4. Drained(m)
    BY <1>d, <2>2 DEF Drained
  <2> QED
    BY <1>d, <1>o, <2>1, <2>3, <2>4
<1>2. CASE conn'[c] = conn[c] /\ Target(c) = m
  <2>0. m \in Leases
    BY <1>2, <1>d, <1>t DEF Target
  <2>1. CASE Drained(m)
    BY <1>2, <1>d, <2>1 DEF BornInv
  <2>2. CASE ~Drained(m)
    <3>1. CASE lease'[m].phase = "Quiesced"
      <4>1. lease[m].phase # "Quiesced" /\ \A n \in 0..MaxCloses : waiter[<<m, n>>].at # "check"
        BY <2>2 DEF Drained
      <4>2. PICK w \in Waiters : WaiterCheck(w) /\ w[1] = m
        BY <2>0, <3>1, <4>1, PhaseStep
      <4>3. w = <<m, w[2]>> /\ w[2] \in 0..MaxCloses /\ waiter[w].at = "check"
        BY SMTT(20), <4>2 DEF Waiters, WaiterCheck
      <4> QED
        BY <4>1, <4>3
    <3>2. ASSUME NEW n \in 0..MaxCloses, waiter'[<<m, n>>].at = "check" PROVE FALSE
      <4>1. <<m, n>> \in Waiters /\ waiter[<<m, n>>].at # "check"
        BY <2>0, <2>2 DEF Drained, Waiters
      <4>2. Keeps(<<m, n>>)
        BY <4>1, VigilStep
      <4>3. backlog = <<>>
        BY <3>2, <4>1, <4>2 DEF Keeps, Vigil
      <4>4. Len(backlog) = 0
        BY <4>3
      <4> QED
        BY SMTT(20), <1>2, <4>4 DEF BornInv
    <3> QED
      BY <1>d, <3>1, <3>2
  <2> QED
    BY <2>1, <2>2
<1>3. CASE AttachInstall /\ m = loop.cur.lease
  <2>1. m \in Leases /\ handle[m].at = "attaching"
    BY <1>3 DEF AttachInstall, OwnInv, Sound, GrantInv, TicketInv, Backed
  <2>2. lease[m].phase = "Open"
    BY <2>1 DEF GrantInv, Granted
  <2>3. Drained(m)
    BY <1>3, <1>d DEF AttachInstall, taskVars, Drained
  <2> QED
    BY <1>o, <2>1, <2>2, <2>3
<1> QED
  BY <1>d, <1>p, <1>1, <1>2, <1>3, SocketMoves, TargetMoves DEF SocketMove, LiveTask

\* The order of sockets and leases, kept by every step.
THEOREM BornInvariant == Spec => []BornInv
<1>1. Init => BornInv
  BY SMTT(20) DEF Init, BornInv, GoneSocket, Pending, LiveTask
<1>2. RuntimeInv /\ GrantInv /\ BornInv /\ [Next]_vars => BornInv'
  <2> SUFFICES ASSUME TypeOK, SocketInv, CertInv, OwnInv, GrantInv, BornInv, [Next]_vars
               PROVE  BornInv'
    BY DEF RuntimeInv
  <2>1. \A c \in Conns : conn'[c].at = "queued" => \E i \in 1..Len(backlog') : backlog'[i] = c
    BY QueueStep
  <2>2. \A c \in Conns : conn'[c].at \in Pending => Target(c)' = 0 \/ conn'[c].born > Target(c)'
    BY PendingStep
  <2>3. \A c \in Conns : loop'.at = "install" /\ conn'[c].at = "queued" => conn'[c].born > loop'.cur.lease
    BY InstallStep
  <2>4. \A c \in Conns : conn'[c].at \in LiveTask => conn'[c].born > conn'[c].lease
    BY ServedStep
  <2>5. \A c \in Conns : conn'[c].at = "queued" /\ Target(c)' # 0 /\ Drained(Target(c))' => conn'[c].late
    BY LateStep
  <2> QED
    BY <2>1, <2>2, <2>3, <2>4, <2>5 DEF BornInv
<1> QED
  BY <1>1, <1>2, RuntimeInvariant, GrantInvariant, PTL DEF Spec

\* No socket crosses from one lease of an identity to the next.
THEOREM NothingInherited == Spec => []NoInheritedSocket
<1>1. TypeOK /\ SocketInv /\ BornInv => NoInheritedSocket
  <2> SUFFICES ASSUME TypeOK, SocketInv, BornInv, NEW l \in Leases, NEW i \in DOMAIN backlog,
                      lease[l].phase = "Quiesced", Target(backlog[i]) = l
               PROVE  conn[backlog[i]].late
    BY DEF NoInheritedSocket, BornInv
  <2>1. i \in 1..Len(backlog) /\ backlog[i] \in Conns /\ 0 \notin Leases
    BY SMTT(20) DEF TypeOK, Leases
  <2>2. conn[backlog[i]].at = "queued"
    BY <2>1 DEF SocketInv
  <2> QED
    BY <2>1, <2>2 DEF BornInv, Drained
<1> QED
  BY <1>1, TypeCorrect, SocketsOrdered, BornInvariant, PTL

===============================================================================
