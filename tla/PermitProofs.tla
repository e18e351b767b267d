----------------------------- MODULE PermitProofs -----------------------------
(***************************************************************************)
(* Who holds a permit: the sockets in service, as many as the limits       *)
(* allow.  What a quiet period shows, and what a shutdown leaves.          *)
(***************************************************************************)
EXTENDS OwnershipProofs

USE ZenonT(30), SMTT(20)

-------------------------------------------------------------------------------
(***************************************************************************)
(* Most steps leave a lease's permits and generation alone and quiesce     *)
(* nothing.                                                                *)
(***************************************************************************)

\* The steps that dispatch a socket: look up, admit or refuse.
Dispatches(c) == DispatchAcquire(c) \/ DispatchAdmit(c) \/ DispatchReject(c)

Plain(l) ==
  /\ lease'[l].permits = lease[l].permits /\ lease'[l].generation = lease[l].generation
  /\ lease'[l].phase \in {lease[l].phase, "Revoking", "Closed"}

\* The critical sections that are plain.
LEMMA PlainOperators ==
  ASSUME NEW s \in LeaseRecord,
         NEW t \in {s, BeginClose(s), MarkClosed(s), RecordDenial(s), FinishCounters(s)}
  PROVE  t.permits = s.permits /\ t.generation = s.generation
         /\ t.phase \in {s.phase, "Revoking", "Closed"}
<1>1. CASE t = s
  BY <1>1
<1>2. CASE t = BeginClose(s)
  BY <1>2 DEF BeginClose, LeaseRecord
<1>3. CASE t = MarkClosed(s)
  BY <1>3 DEF MarkClosed, LeaseRecord
<1>4. CASE t = RecordDenial(s)
  BY <1>4 DEF RecordDenial, LeaseRecord
<1>5. CASE t = FinishCounters(s)
  BY <1>5 DEF FinishCounters, LeaseRecord
<1> QED
  BY <1>1, <1>2, <1>3, <1>4, <1>5

\* Every step is plain but the check after a quiet period, the end of a task and
\* those of dispatch.
LEMMA PlainStep ==
  ASSUME TypeOK, [Next]_vars
  PROVE  \/ \A l \in Leases : Plain(l)
         \/ \E w \in Waiters : WaiterCheck(w)
         \/ \E c \in Conns : ConnUntrack(c) \/ Dispatches(c)
<1>t. lease \in [Leases -> LeaseRecord]
  BY DEF TypeOK
<1>1. CASE UNCHANGED lease
  BY <1>1, <1>t, PlainOperators DEF Plain
<1>2. ASSUME NEW m, NEW r, lease' = [lease EXCEPT ![m] = r],
             r \in {lease[m], BeginClose(lease[m]), MarkClosed(lease[m]),
                    RecordDenial(lease[m]), FinishCounters(lease[m])}
      PROVE  \A l \in Leases : Plain(l)
  <2> SUFFICES ASSUME NEW l \in Leases PROVE Plain(l)
    OBVIOUS
  <2>1. lease'[l] = IF l = m THEN r ELSE lease[l]
    BY <1>2, <1>t
  <2> QED
    BY SMTT(20), <1>2, <1>t, <2>1, PlainOperators DEF Plain
<1>3. CASE HostNext
  <2>1. \/ \E m, r : /\ lease' = [lease EXCEPT ![m] = r]
                                /\ r \in {BeginClose(lease[m]), MarkClosed(lease[m])}
        \/ UNCHANGED lease
    BY <1>3, ZenonT(60)
    DEF HostNext, Connect, AttachCall, CloseBegin, CloseSend, CloseCommit, CloseRelease,
        CloseFail, CloseTimeout, CloseDisconnected, DropBegin, DropSend, ShutdownCall,
        ShutdownExpire, ShutdownJoin, ProxyDrop
  <2> QED
    BY <1>1, <1>2, <2>1
<1>4. CASE TaskNext
  <2>1. \/ \E m, r : /\ lease' = [lease EXCEPT ![m] = r]
                     /\ r \in {MarkClosed(lease[m]), RecordDenial(lease[m]), FinishCounters(lease[m])}
        \/ UNCHANGED lease
        \/ \E w \in Waiters : WaiterCheck(w)
        \/ \E c \in Conns : ConnUntrack(c)
    BY <1>4, ZenonT(60)
    DEF TaskNext, ConnDeny, ConnEnd, ConnFinish, WaiterTracked, WaiterTop, WaiterPhase,
        WaiterGeneration, WaiterQuiet, WaiterRedrained, WaiterDeadline, WaiterStopped,
        WaiterAbort, ReaperMark, ReaperRelease
  <2> QED
    BY <1>1, <1>2, <2>1
<1>5. CASE RunShutdown
  <2>1. \A l \in Leases : lease'[l] \in {lease[l], BeginClose(lease[l])}
    BY <1>5 DEF RunShutdown
  <2> QED
    BY <1>t, <2>1, PlainOperators DEF Plain
<1>6. CASE OwnerNext /\ ~RunShutdown
  <2>1. \/ \E m, r : /\ lease' = [lease EXCEPT ![m] = r]
                     /\ r \in {BeginClose(lease[m]), MarkClosed(lease[m])}
        \/ UNCHANGED lease
        \/ \E c \in Conns : Dispatches(c)
    BY <1>6, ZenonT(60)
    DEF OwnerNext, RunAttach, RunClose, RunRelease, RunDrain, RunRetry, RunAccept,
        RunAcceptError, DrainAccept, TakeSocket, AttachInstall, AttachDrained, DrainAnswered,
        DrainAbandoned, DrainReady, ShutdownClose, ShutdownDecide, ShutdownReply, Dispatches
  <2> QED
    BY <1>1, <1>2, <2>1
<1> QED
  BY <1>1, <1>3, <1>4, <1>5, <1>6 DEF Next, Settled, vars

-------------------------------------------------------------------------------
(***************************************************************************)
(* Permits.                                                                *)
(***************************************************************************)

\* With the permit of the socket that is about to be admitted.
PermitInv ==
  /\ PermitsConserved
  /\ \A c \in Conns : conn[c].at = "dispatch" /\ loop.at = "admit" => c \in globalPermits

Served == {"serving", "denied"}

\* Nobody takes or gives up a permit.
NoPermits ==
  /\ UNCHANGED globalPermits /\ \A l \in Leases : lease'[l].permits = lease[l].permits
  /\ \A c \in Conns :
       /\ conn'[c].at \in Served <=> conn[c].at \in Served
       /\ conn[c].at \in LiveTask => conn'[c].at \in LiveTask /\ conn'[c].lease = conn[c].lease
       /\ conn[c].at = "dispatch" /\ loop.at \in {"admit", "reject"} =>
            conn'[c].at = "dispatch" /\ loop'.at = loop.at /\ Target(c)' = Target(c)
       /\ conn'[c].at = "dispatch" /\ loop'.at = "admit" =>
            conn[c].at = "dispatch" /\ loop.at = "admit"

\* Then permits stay conserved.
LEMMA NoPermitsStep == TypeOK /\ PermitInv /\ NoPermits => PermitInv'
<1> SUFFICES ASSUME TypeOK, PermitInv, NoPermits PROVE PermitInv'
  OBVIOUS
<1>t. globalPermits \subseteq Conns /\ \A l \in Leases : lease[l].permits \subseteq Conns
  BY DEF TypeOK, LeaseRecord
<1>1. Cardinality(globalPermits') <= MaxConnections
  BY DEF NoPermits, PermitInv, PermitsConserved
<1>2. \A c \in Conns : conn'[c].at \in {"serving", "denied"} => c \in globalPermits'
  BY DEF NoPermits, PermitInv, PermitsConserved, Served
<1>3. \A c \in globalPermits' :
        \/ conn'[c].at \in {"serving", "denied"}
        \/ conn'[c].at = "dispatch" /\ loop'.at \in {"admit", "reject"}
  BY <1>t DEF NoPermits, PermitInv, PermitsConserved, Served
<1>4. ASSUME NEW l \in Leases
      PROVE  /\ Cardinality(lease'[l].permits) <= MaxLeaseConnections
             /\ \A c \in lease'[l].permits :
                  \/ conn'[c].at \in LiveTask /\ conn'[c].lease = l
                  \/ conn'[c].at = "dispatch" /\ loop'.at = "admit" /\ Target(c)' = l
  BY SMTT(20), <1>t DEF NoPermits, PermitInv, PermitsConserved
<1>5. \A c \in Conns : conn'[c].at = "dispatch" /\ loop'.at = "admit" => c \in globalPermits'
  BY DEF NoPermits, PermitInv
<1> QED
  BY <1>1, <1>2, <1>3, <1>4, <1>5 DEF PermitInv, PermitsConserved

\* So it is for most steps: the callers', the waiters', and the owner's outside dispatch.
LEMMA FreePermits ==
  ASSUME TypeOK, SocketInv, [Next]_vars
  PROVE  \/ NoPermits
         \/ \E c \in Conns : ConnEnd(c) \/ ConnUntrack(c) \/ Dispatches(c)
<1> SUFFICES ASSUME ~ \E c \in Conns : ConnEnd(c) \/ ConnUntrack(c) \/ Dispatches(c)
             PROVE  NoPermits
  OBVIOUS
<1>t. conn \in [Conns -> ConnRecord] /\ backlog \in Seq(Conns) /\ loop \in LoopRecord
      /\ lease \in [Leases -> LeaseRecord]
  BY DEF TypeOK
<1>l. \A l \in Leases : lease'[l].permits = lease[l].permits
  <2>1. ASSUME NEW w \in Waiters, WaiterCheck(w), NEW l \in Leases
        PROVE  lease'[l].permits = lease[l].permits
    <3>1. UNCHANGED lease \/ lease' = [lease EXCEPT ![w[1]] = Quiesce(@)]
      BY <2>1 DEF WaiterCheck
    <3>2. lease'[l] = lease[l] \/ lease'[l] = Quiesce(lease[l])
      BY <1>t, <3>1
    <3>3. \A s \in LeaseRecord : Quiesce(s).permits = s.permits
      BY DEF Quiesce, LeaseRecord
    <3> QED
      BY <1>t, <3>2, <3>3
  <2> QED
    BY <2>1, PlainStep DEF Plain
<1>1. ASSUME UNCHANGED globalPermits, UNCHANGED <<conn, registry, loop>>
      PROVE  NoPermits
  BY <1>1, <1>l DEF NoPermits, Target
<1>2. ASSUME UNCHANGED globalPermits, UNCHANGED conn, loop.at \notin Dispatching, loop'.at # "admit"
      PROVE  NoPermits
  BY <1>2, <1>l DEF NoPermits, Dispatching
<1>3. CASE HostNext
  <2>1. ASSUME NEW c \in Conns, Connect(c) PROVE NoPermits
    <3>1. /\ conn[c].at = "away" /\ conn'[c].at = "queued" /\ UNCHANGED <<registry, loop, globalPermits>>
          /\ \A d \in Conns \ {c} : conn'[d] = conn[d]
      BY <1>t, <2>1 DEF Connect, ownerVars
    <3> QED
      BY <1>l, <3>1 DEF NoPermits, Target, Served, LiveTask
  <2>2. \/ \E c \in Conns : Connect(c)
        \/ UNCHANGED globalPermits /\ UNCHANGED <<conn, registry, loop>>
    BY <1>3, ZenonT(60)
    DEF HostNext, AttachCall, CloseBegin, CloseSend, CloseCommit, CloseRelease,
        CloseFail, CloseTimeout, CloseDisconnected, DropBegin, DropSend, ShutdownCall,
        ShutdownExpire, ShutdownJoin, ProxyDrop, ownerVars, taskVars
  <2> QED
    BY <1>1, <2>1, <2>2
<1>4. CASE TaskNext
  <2>1. ASSUME NEW c \in Conns, ConnDeny(c) \/ ConnFinish(c) PROVE NoPermits
    <3>1. /\ UNCHANGED <<registry, loop, globalPermits>>
          /\ \/ conn[c].at = "serving" /\ conn' = [conn EXCEPT ![c].at = "denied"]
             \/ conn[c].at = "ended" /\ conn' = [conn EXCEPT ![c].at = "finished"]
      BY <2>1 DEF ConnDeny, ConnFinish, ownerVars
    <3>2. /\ \A d \in Conns \ {c} : conn'[d] = conn[d]
          /\ conn'[c].lease = conn[c].lease
          /\ \/ conn[c].at = "serving" /\ conn'[c].at = "denied"
             \/ conn[c].at = "ended" /\ conn'[c].at = "finished"
      BY <1>t, <3>1 DEF ConnRecord
    <3> QED
      BY <1>l, <3>1, <3>2 DEF NoPermits, Target, Served, LiveTask
  <2>2. \/ \E c \in Conns : ConnDeny(c) \/ ConnFinish(c)
        \/ UNCHANGED globalPermits /\ UNCHANGED <<conn, registry, loop>>
    BY <1>4, ZenonT(60)
    DEF TaskNext, WaiterTracked, WaiterTop, WaiterPhase, WaiterGeneration, WaiterQuiet,
        WaiterCheck, WaiterRedrained, WaiterDeadline, WaiterStopped, WaiterAbort, ReaperMark,
        ReaperRelease, ownerVars
  <2> QED
    BY <1>1, <2>1, <2>2
<1>5. CASE RunAccept \/ DrainAccept
  <2> DEFINE c == Head(backlog)
  <2>0. TakeSocket /\ loop.at \in {"select", "drain"} /\ loop'.at = "dispatch"
    BY <1>5, <1>t DEF RunAccept, DrainAccept, Accepting, LoopRecord
  <2>1. /\ loop.at \in {"select", "drain"} /\ loop'.at = "dispatch" /\ c \in Conns
        /\ c = backlog[1] /\ 1 \in 1..Len(backlog)
        /\ UNCHANGED <<registry, globalPermits>>
        /\ conn' = [conn EXCEPT ![c].at = "dispatch", ![c].late = FALSE]
    <3>1. backlog # <<>> /\ UNCHANGED <<registry, globalPermits>>
          /\ conn' = [conn EXCEPT ![c].at = "dispatch", ![c].late = FALSE]
      BY <2>0 DEF TakeSocket
    <3>2. c \in Conns /\ c = backlog[1] /\ 1 \in 1..Len(backlog)
      BY SMTT(20), <1>t, <3>1
    <3> QED
      BY <2>0, <3>1, <3>2
  <2>2. /\ conn[c].at = "queued" /\ conn'[c].at = "dispatch"
        /\ \A d \in Conns \ {c} : conn'[d] = conn[d]
    <3>1. conn[c].at = "queued"
      BY <2>1 DEF SocketInv
    <3>2. \A r \in ConnRecord : [r EXCEPT !.at = "dispatch", !.late = FALSE].at = "dispatch"
      BY DEF ConnRecord
    <3> HIDE DEF c
    <3> QED
      BY <1>t, <2>1, <3>1, <3>2
  <2> HIDE DEF c
  <2> QED
    BY <1>l, <2>1, <2>2 DEF NoPermits, Served, LiveTask
<1>6. CASE ShutdownReply
  <2>1. UNCHANGED globalPermits /\ loop.at \in {"success", "failure"}
        /\ loop'.at \in {"select", "exited"}
        /\ \A c \in Conns : conn'[c] = conn[c] \/ (conn[c].at = "queued" /\ conn'[c].at = "refused")
    BY SMTT(20), <1>6 DEF ShutdownReply, Exit, Continue, Idle, GoneSocket
  <2> QED
    BY <1>l, <2>1 DEF NoPermits, Served, LiveTask
<1>7. CASE OwnerNext /\ ~(RunAccept \/ DrainAccept \/ ShutdownReply)
  <2>1. UNCHANGED globalPermits /\ UNCHANGED conn /\ loop.at \notin Dispatching
    BY <1>7, ZenonT(60)
    DEF OwnerNext, RunAttach, RunClose, RunRelease, RunDrain, RunShutdown, RunRetry,
        RunAcceptError, AttachInstall, AttachDrained, DrainAnswered, DrainAbandoned, DrainReady,
        ShutdownClose, ShutdownDecide, Dispatches, Dispatching, Receive, Accepting, taskVars
  <2>2. loop'.at # "admit"
    <3>1. CASE \/ RunClose("Close") \/ RunClose("Reap") \/ RunRelease \/ RunRetry \/ RunAcceptError
      BY <2>1, <3>1 DEF RunClose, RunRelease, RunRetry, RunAcceptError, ownerVars, Dispatching
    <3>2. CASE RunAttach \/ RunDrain \/ RunShutdown
      BY <1>t, <2>1, <3>2 DEF RunAttach, RunDrain, RunShutdown, LoopRecord, Dispatching
    <3>3. CASE \/ AttachInstall
               \/ \E r \in Results : AttachDrained(r) \/ DrainAnswered(r) \/ DrainAbandoned(r)
      <4>1. loop' = Idle \/ loop' = [loop EXCEPT !.at = "install", !.batch = 0]
        BY <3>3 DEF AttachInstall, AttachDrained, DrainAnswered, DrainAbandoned
      <4>2. loop' = Idle => loop'.at = "select"
        BY SMTT(20) DEF Idle
      <4>3. [loop EXCEPT !.at = "install", !.batch = 0].at = "install"
        BY <1>t DEF LoopRecord
      <4> QED
        BY <4>1, <4>2, <4>3
    <3>4. CASE ShutdownDecide \/ \E l \in Leases : ShutdownClose(l)
      BY <1>t, <2>1, <3>4 DEF ShutdownDecide, ShutdownClose, LoopRecord, Dispatching
    <3> QED
      BY <1>7, <3>1, <3>2, <3>3, <3>4 DEF OwnerNext, Dispatches
  <2> QED
    BY <1>2, <2>1, <2>2
<1> QED
  BY <1>1, <1>3, <1>4, <1>5, <1>6, <1>7 DEF Next, Settled, vars, ownerVars, taskVars

\* Sets of sockets: a part of a set within a limit is within it, and one more socket fits
\* under a limit not yet reached.
LEMMA SmallerSets ==
  ASSUME NEW S \in SUBSET Conns, NEW n \in Nat
  PROVE  /\ Cardinality(S) \in Nat
         /\ \A R \in SUBSET S : Cardinality(S) <= n => Cardinality(R) <= n
         /\ \A c \in Conns : Cardinality(S) < n => Cardinality(S \cup {c}) <= n
<1>1. IsFiniteSet(S) /\ Cardinality(S) \in Nat
  BY FiniteAssumption, FS_Subset, FS_CardinalityType
<1>2. ASSUME NEW R \in SUBSET S, Cardinality(S) <= n PROVE Cardinality(R) <= n
  <2>1. Cardinality(R) \in Nat /\ Cardinality(R) <= Cardinality(S)
    BY <1>1, FS_Subset, FS_CardinalityType
  <2> QED
    BY SMTT(20), <1>1, <1>2, <2>1
<1>3. ASSUME NEW c \in Conns, Cardinality(S) < n PROVE Cardinality(S \cup {c}) <= n
  <2>1. Cardinality(S \cup {c}) \in {Cardinality(S), Cardinality(S) + 1}
    BY <1>1, FS_AddElement
  <2> QED
    BY SMTT(20), <1>1, <1>3, <2>1
<1> QED
  BY <1>1, <1>2, <1>3

\* A task that ends gives up the process-wide permit.
LEMMA EndPermits ==
  ASSUME TypeOK, PermitInv, NEW c \in Conns, ConnEnd(c)
  PROVE  PermitInv'
<1>t. conn \in [Conns -> ConnRecord] /\ globalPermits \subseteq Conns
  BY DEF TypeOK
<1>1. /\ UNCHANGED <<lease, registry, loop>> /\ globalPermits' = globalPermits \ {c}
      /\ conn[c].at \in Served /\ conn'[c].at = "ended" /\ conn'[c].lease = conn[c].lease
      /\ \A d \in Conns \ {c} : conn'[d] = conn[d]
  BY <1>t DEF ConnEnd, ownerVars, ConnRecord, Served
<1>2. Cardinality(globalPermits') <= MaxConnections
  BY <1>t, <1>1, SmallerSets, LimitAssumption DEF PermitInv, PermitsConserved
<1>3. \A d \in Conns : conn'[d].at \in {"serving", "denied"} => d \in globalPermits'
  BY <1>1 DEF PermitInv, PermitsConserved
<1>4. \A d \in globalPermits' :
        \/ conn'[d].at \in {"serving", "denied"}
        \/ conn'[d].at = "dispatch" /\ loop'.at \in {"admit", "reject"}
  BY <1>t, <1>1 DEF PermitInv, PermitsConserved
<1>5. ASSUME NEW l \in Leases
      PROVE  /\ Cardinality(lease'[l].permits) <= MaxLeaseConnections
             /\ \A d \in lease'[l].permits :
                  \/ conn'[d].at \in LiveTask /\ conn'[d].lease = l
                  \/ conn'[d].at = "dispatch" /\ loop'.at = "admit" /\ Target(d)' = l
  <2>1. lease[l].permits \subseteq Conns
    BY DEF TypeOK, LeaseRecord
  <2> QED
    BY SMTT(20), <1>1, <2>1 DEF PermitInv, PermitsConserved, Target, LiveTask, Served
<1>6. \A d \in Conns : conn'[d].at = "dispatch" /\ loop'.at = "admit" => d \in globalPermits'
  BY <1>1 DEF PermitInv
<1> QED
  BY <1>2, <1>3, <1>4, <1>5, <1>6 DEF PermitInv, PermitsConserved

\* The last fields of Admission give up the lease's permit.
LEMMA UntrackPermits ==
  ASSUME TypeOK, TrackInv, PermitInv, NEW c \in Conns, ConnUntrack(c)
  PROVE  PermitInv'
<1>t. conn \in [Conns -> ConnRecord] /\ globalPermits \subseteq Conns
      /\ lease \in [Leases -> LeaseRecord]
  BY DEF TypeOK
<1>m. PICK m \in Leases : m = conn[c].lease
  BY DEF TrackInv, ConnUntrack, LiveTask
<1>1. /\ UNCHANGED <<globalPermits, registry, loop>>
      /\ conn[c].at = "finished" /\ conn'[c].at = "gone"
      /\ \A d \in Conns \ {c} : conn'[d] = conn[d]
  BY <1>t DEF ConnUntrack, ownerVars, GoneSocket
<1>2. /\ lease'[m].permits = lease[m].permits \ {c}
      /\ \A l \in Leases \ {m} : lease'[l] = lease[l]
  BY <1>t, <1>m DEF ConnUntrack, DropAdmission, LeaseRecord
<1>3. Cardinality(globalPermits') <= MaxConnections
  BY <1>1 DEF PermitInv, PermitsConserved
<1>4. \A d \in Conns : conn'[d].at \in {"serving", "denied"} => d \in globalPermits'
  BY <1>1 DEF PermitInv, PermitsConserved
<1>5. \A d \in globalPermits' :
        \/ conn'[d].at \in {"serving", "denied"}
        \/ conn'[d].at = "dispatch" /\ loop'.at \in {"admit", "reject"}
  BY <1>t, <1>1 DEF PermitInv, PermitsConserved
<1>6. ASSUME NEW l \in Leases
      PROVE  /\ Cardinality(lease'[l].permits) <= MaxLeaseConnections
             /\ \A d \in lease'[l].permits :
                  \/ conn'[d].at \in LiveTask /\ conn'[d].lease = l
                  \/ conn'[d].at = "dispatch" /\ loop'.at = "admit" /\ Target(d)' = l
  <2>1. lease[l].permits \subseteq Conns /\ lease'[l].permits \subseteq lease[l].permits
    BY <1>t, <1>2 DEF LeaseRecord
  <2>2. Cardinality(lease'[l].permits) <= MaxLeaseConnections
    BY <2>1, SmallerSets, LimitAssumption DEF PermitInv, PermitsConserved
  <2>3. c \notin lease'[l].permits
    BY <1>1, <1>2, <1>m, <2>1 DEF PermitInv, PermitsConserved
  <2> QED
    BY SMTT(20), <1>1, <2>1, <2>2, <2>3 DEF PermitInv, PermitsConserved, Target
<1>7. \A d \in Conns : conn'[d].at = "dispatch" /\ loop'.at = "admit" => d \in globalPermits'
  BY <1>1 DEF PermitInv
<1> QED
  BY <1>3, <1>4, <1>5, <1>6, <1>7 DEF PermitInv, PermitsConserved

\* dispatch takes the two permits, if both are free.
LEMMA AcquirePermits ==
  ASSUME TypeOK, SocketInv, PermitInv, NEW c \in Conns, DispatchAcquire(c)
  PROVE  PermitInv'
<1>t. conn \in [Conns -> ConnRecord] /\ globalPermits \subseteq Conns /\ loop \in LoopRecord
      /\ lease \in [Leases -> LeaseRecord] /\ \A l \in Leases : lease[l].permits \subseteq Conns
  BY DEF TypeOK, LeaseRecord
<1>r. Target(c) \in Leases \cup {0} /\ Target(c)' = Target(c) /\ \A d \in Conns : Target(d)' = Target(d)
  BY AddressAssumption DEF TypeOK, Target, DispatchAcquire
<1>u. conn[c].at = "dispatch" /\ loop.at = "dispatch" /\ \A d \in Conns \ {c} : conn[d].at # "dispatch"
  BY DEF SocketInv, DispatchAcquire
<1>0. /\ \A d \in globalPermits : conn[d].at \in {"serving", "denied"}
      /\ \A l \in Leases : \A d \in lease[l].permits : conn[d].at \in LiveTask /\ conn[d].lease = l
  BY <1>u DEF PermitInv, PermitsConserved
<1>1. CASE /\ conn' = [conn EXCEPT ![c] = GoneSocket("refused")] /\ DispatchReturn
           /\ UNCHANGED <<lease, globalPermits>>
  <2>1. conn'[c].at = "refused" /\ (\A d \in Conns \ {c} : conn'[d] = conn[d]) /\ loop'.at # "admit"
    BY <1>1, <1>t DEF GoneSocket, DispatchReturn, LoopRecord
  <2>2. c \notin globalPermits /\ \A l \in Leases : c \notin lease[l].permits
    BY <1>u, <1>0 DEF LiveTask
  <2> QED
    BY ZenonT(90), <1>0, <1>1, <1>t, <2>1, <2>2 DEF PermitInv, PermitsConserved
<1>2. CASE loop' = [loop EXCEPT !.at = "reject"] /\ UNCHANGED <<lease, conn, globalPermits>>
  <2>1. loop'.at = "reject"
    BY <1>2, <1>t DEF LoopRecord
  <2> QED
    BY <1>0, <1>2, <2>1 DEF PermitInv, PermitsConserved
<1>3. CASE /\ Target(c) # 0 /\ Cardinality(globalPermits) < MaxConnections
           /\ globalPermits' = globalPermits \cup {c}
           /\ \/ loop' = [loop EXCEPT !.at = "reject"] /\ UNCHANGED lease
              \/ /\ Cardinality(lease[Target(c)].permits) < MaxLeaseConnections
                 /\ lease' = [lease EXCEPT ![Target(c)] = TakePermit(@, c)]
                 /\ loop' = [loop EXCEPT !.at = "admit"]
           /\ UNCHANGED conn
  <2>1. Cardinality(globalPermits') <= MaxConnections
    BY <1>3, <1>t, SmallerSets, LimitAssumption
  <2>2. loop'.at \in {"admit", "reject"}
    BY <1>3, <1>t DEF LoopRecord
  <2>3. \A d \in globalPermits' :
          \/ conn'[d].at \in {"serving", "denied"}
          \/ conn'[d].at = "dispatch" /\ loop'.at \in {"admit", "reject"}
    BY <1>0, <1>3, <1>u, <2>2
  <2>4. ASSUME NEW l \in Leases
        PROVE  /\ Cardinality(lease'[l].permits) <= MaxLeaseConnections
               /\ \A d \in lease'[l].permits :
                    \/ conn'[d].at \in LiveTask /\ conn'[d].lease = l
                    \/ conn'[d].at = "dispatch" /\ loop'.at = "admit" /\ Target(d)' = l
    <3>1. CASE UNCHANGED lease \/ l # Target(c)
      <4>1. lease'[l] = lease[l]
        BY <1>3, <1>t, <3>1
      <4> QED
        BY <1>0, <1>3, <4>1 DEF PermitInv, PermitsConserved
    <3>2. CASE /\ Cardinality(lease[l].permits) < MaxLeaseConnections /\ l = Target(c)
               /\ lease' = [lease EXCEPT ![l] = TakePermit(@, c)]
               /\ loop' = [loop EXCEPT !.at = "admit"]
      <4>1. lease'[l].permits = lease[l].permits \cup {c} /\ loop'.at = "admit"
        BY <1>t, <3>2 DEF TakePermit, LeaseRecord, LoopRecord
      <4>2. Cardinality(lease'[l].permits) <= MaxLeaseConnections
        BY SMTT(20), <1>t, <3>2, <4>1, SmallerSets, LimitAssumption
      <4> QED
        BY <1>0, <1>3, <1>r, <1>u, <3>2, <4>1, <4>2
    <3> QED
      BY <1>3, <3>1, <3>2
  <2>5. \A d \in Conns : /\ conn'[d].at \in {"serving", "denied"} => d \in globalPermits'
                         /\ conn'[d].at = "dispatch" => d \in globalPermits'
    BY <1>3, <1>u DEF PermitInv, PermitsConserved
  <2> QED
    BY <2>1, <2>3, <2>4, <2>5 DEF PermitInv, PermitsConserved
<1> QED
  BY <1>1, <1>2, <1>3 DEF DispatchAcquire

\* A refusal gives both permits up; an admission leaves them with the task.
LEMMA AnswerPermits ==
  ASSUME TypeOK, SocketInv, PermitInv, NEW c \in Conns, DispatchAdmit(c) \/ DispatchReject(c)
  PROVE  PermitInv'
<1>t. conn \in [Conns -> ConnRecord] /\ globalPermits \subseteq Conns /\ loop \in LoopRecord
      /\ lease \in [Leases -> LeaseRecord] /\ \A l \in Leases : lease[l].permits \subseteq Conns
  BY DEF TypeOK, LeaseRecord
<1>u. conn[c].at = "dispatch" /\ loop.at \in {"admit", "reject"} /\ UNCHANGED registry
      /\ \A d \in Conns \ {c} : conn[d].at # "dispatch"
  BY DEF SocketInv, DispatchAdmit, DispatchReject
<1>m. PICK m \in Leases : m = Target(c)
  BY <1>u, AddressAssumption DEF TypeOK, Target, SocketInv
<1>0. /\ \A d \in globalPermits \ {c} : conn[d].at \in {"serving", "denied"}
      /\ \A l \in Leases : \A d \in lease[l].permits \ {c} : conn[d].at \in LiveTask /\ conn[d].lease = l
      /\ \A l \in Leases : c \in lease[l].permits => l = m
  BY <1>t, <1>m, <1>u DEF PermitInv, PermitsConserved, LiveTask
<1>d. loop'.at # "admit"
  BY <1>t DEF DispatchAdmit, DispatchReject, DispatchReturn, LoopRecord
<1>1. CASE Refuse(c)
  <2>1. /\ globalPermits' = globalPermits \ {c} /\ conn'[c].at = "refused"
        /\ \A d \in Conns \ {c} : conn'[d] = conn[d]
    BY <1>1, <1>t DEF Refuse, GoneSocket
  <2>2. \A l \in Leases : lease'[l].permits = lease[l].permits \ {c}
    <3> DEFINE r == RecordUnadmitted(lease[m])
    <3>1. r \in LeaseRecord /\ r.permits = lease[m].permits
      BY <1>t, LeaseOperators DEF RecordUnadmitted, LeaseRecord
    <3>2. lease' = [lease EXCEPT ![m] = DropPermit(r, c)]
      BY <1>1, <1>m, <1>t DEF Refuse
    <3> HIDE DEF r
    <3>3. lease'[m].permits = lease[m].permits \ {c}
      BY <1>t, <3>1, <3>2 DEF DropPermit, LeaseRecord
    <3>4. \A l \in Leases \ {m} : lease'[l].permits = lease[l].permits /\ c \notin lease[l].permits
      BY <1>0, <1>t, <3>2
    <3> QED
      BY <3>3, <3>4
  <2>3. Cardinality(globalPermits') <= MaxConnections
    BY <1>t, <2>1, SmallerSets, LimitAssumption DEF PermitInv, PermitsConserved
  <2>4. ASSUME NEW l \in Leases
        PROVE  /\ Cardinality(lease'[l].permits) <= MaxLeaseConnections
               /\ \A d \in lease'[l].permits : conn'[d].at \in LiveTask /\ conn'[d].lease = l
    <3>1. Cardinality(lease'[l].permits) <= MaxLeaseConnections
      BY <1>t, <2>2, SmallerSets, LimitAssumption DEF PermitInv, PermitsConserved
    <3> QED
      BY SMTT(20), <1>0, <1>t, <2>1, <2>2, <3>1
  <2>5. /\ \A d \in globalPermits' : conn'[d].at \in {"serving", "denied"}
        /\ \A d \in Conns : conn'[d].at \in {"serving", "denied"} => d \in globalPermits'
    BY <1>0, <1>t, <2>1 DEF PermitInv, PermitsConserved
  <2> QED
    BY <1>d, <2>3, <2>4, <2>5 DEF PermitInv, PermitsConserved
<1>2. CASE /\ loop.at = "admit" /\ lease' = [lease EXCEPT ![Target(c)] = Admit(@, c)]
           /\ conn' = [conn EXCEPT ![c].at = "serving", ![c].lease = Target(c)]
           /\ UNCHANGED globalPermits
  <2>1. /\ conn'[c].at = "serving" /\ conn'[c].lease = m /\ c \in globalPermits
        /\ \A d \in Conns \ {c} : conn'[d] = conn[d]
    BY <1>2, <1>m, <1>t, <1>u DEF ConnRecord, PermitInv
  <2>2. \A l \in Leases : lease'[l].permits = lease[l].permits
    BY <1>2, <1>m, <1>t DEF Admit, LeaseRecord
  <2>3. ASSUME NEW l \in Leases
        PROVE  /\ Cardinality(lease'[l].permits) <= MaxLeaseConnections
               /\ \A d \in lease'[l].permits : conn'[d].at \in LiveTask /\ conn'[d].lease = l
    BY SMTT(20), <1>0, <1>t, <2>1, <2>2 DEF PermitInv, PermitsConserved, LiveTask
  <2>4. /\ \A d \in globalPermits' : conn'[d].at \in {"serving", "denied"}
        /\ \A d \in Conns : conn'[d].at \in {"serving", "denied"} => d \in globalPermits'
    BY <1>0, <1>2, <1>t, <2>1 DEF PermitInv, PermitsConserved
  <2> QED
    BY <1>2, <1>d, <2>3, <2>4 DEF PermitInv, PermitsConserved
<1> QED
  BY <1>1, <1>2 DEF DispatchAdmit, DispatchReject

\* No more sockets are served than the limits of the proxy and of each lease allow, and
\* no permit is lost or held twice, for any limits.
THEOREM PermitInvariant == Spec => []PermitInv
<1>1. Init => PermitInv
  <2> SUFFICES ASSUME Init PROVE PermitInv
    OBVIOUS
  <2>1. Cardinality({}) = 0
    BY FS_EmptySet
  <2>2. globalPermits = {} /\ (\A l \in Leases : lease[l].permits = {})
        /\ (\A c \in Conns : conn[c].at = "away") /\ loop.at = "select"
    BY DEF Init, GoneSocket, NewLease
  <2>3. Cardinality({}) <= MaxConnections /\ Cardinality({}) <= MaxLeaseConnections
    BY SMTT(20), <2>1, LimitAssumption
  <2>4. Cardinality(globalPermits) <= MaxConnections
        /\ \A l \in Leases : Cardinality(lease[l].permits) <= MaxLeaseConnections
    BY <2>2, <2>3, Zenon
  <2>5. PermitsConserved
    BY <2>2, <2>4, Zenon DEF PermitsConserved
  <2> QED
    BY <2>2, <2>5 DEF PermitInv
<1>2. CloseInv /\ PermitInv /\ [Next]_vars => PermitInv'
  BY FreePermits, NoPermitsStep, EndPermits, UntrackPermits, AcquirePermits, AnswerPermits
  DEF Dispatches, CertInv, CloseInv
<1> QED
  BY <1>1, <1>2, CloseInvariant, PTL DEF Spec

\* The processwide and the per-lease permits are held by exactly the sockets in service.
THEOREM PermitsAreConserved == Spec => []PermitsConserved
<1>1. PermitInv => PermitsConserved
  BY DEF PermitInv
<1> QED
  BY <1>1, PermitInvariant, PTL

-------------------------------------------------------------------------------
(***************************************************************************)
(* Quiet periods.  A waiter compares the generation it read with the       *)
(* lease's; a refusal in between has moved it, or has found it at its      *)
(* maximum, which is never taken for quiet.                                *)
(***************************************************************************)

Vigil == {"quiet", "drain", "check"}

\* The generation r.before is still evidence only if no refusal was counted.
Reading(s, r) ==
  \/ IsFinal(s) \/ r.before = MaxGeneration \/ r.before < s.generation
  \/ r.quiet /\ r.before = s.generation

QuietInv == \A w \in Waiters : waiter[w].at \in Vigil => Reading(lease[w[1]], waiter[w])

\* A waiter's vigil begins with the generation it reads and is never resumed; its
\* question is answered when the accept queue is empty.
Keeps(w) ==
  waiter'[w].at \in Vigil =>
    \/ waiter'[w].at = "quiet" /\ WaiterGeneration(w)
    \/ /\ waiter[w].at \in Vigil /\ waiter'[w].before = waiter[w].before
       /\ waiter'[w].quiet = waiter[w].quiet \/ \E c \in Conns : Refuse(c)
       /\ waiter'[w].at = "check" /\ waiter[w].at # "check" => backlog = <<>> /\ UNCHANGED backlog

\* So it is in every step.
LEMMA VigilStep ==
  ASSUME TypeOK, [Next]_vars
  PROVE  \A v \in Waiters : Keeps(v)
<1>t. waiter \in [Waiters -> WaiterRecord]
  BY DEF TypeOK
<1>1. CASE UNCHANGED waiter
  BY <1>1 DEF Keeps
<1>2. ASSUME NEW w, NEW new, waiter' = [waiter EXCEPT ![w] = new],
             new = waiter[w] \/ new.at \notin Vigil
      PROVE  \A v \in Waiters : Keeps(v)
  BY <1>2, <1>t DEF Keeps
<1>3. ASSUME NEW w, NEW at, at \notin Vigil, waiter' = [waiter EXCEPT ![w].at = at]
      PROVE  \A v \in Waiters : Keeps(v)
  <2>1. \A v \in Waiters : waiter'[v] = waiter[v] \/ waiter'[v].at = at
    BY <1>3, <1>t DEF WaiterRecord
  <2> QED
    BY <1>3, <2>1 DEF Keeps
<1>4. ASSUME NEW w, NEW result \in Failures \cup {"ok"}, NEW final, Settle(w, result, final)
      PROVE  \A v \in Waiters : Keeps(v)
  <2> DEFINE new == [IdleWaiter(Outcome(w, result)) EXCEPT
                       !.final = IF Outcome(w, result) = "ok" THEN final ELSE {}]
  <2>1. new.at = Outcome(w, result) /\ waiter' = [waiter EXCEPT ![w] = new]
    BY <1>4 DEF IdleWaiter, Settle
  <2>2. Outcome(w, result) \notin Vigil
    BY DEF Outcome, Failures, Vigil
  <2> HIDE DEF new
  <2> QED
    BY <1>2, <2>1, <2>2
<1>5. ASSUME NEW w \in Waiters, WaiterPhase(w) PROVE \A v \in Waiters : Keeps(v)
  <2>1. CASE waiter' = [waiter EXCEPT ![w].at = "redrain", ![w].final = {lease[w[1]].usage}]
    <3>1. \A v \in Waiters : waiter'[v] = waiter[v] \/ waiter'[v].at = "redrain"
      BY <2>1, <1>t DEF WaiterRecord
    <3> QED
      BY <3>1 DEF Keeps, Vigil
  <2>2. \/ waiter' = [waiter EXCEPT ![w].at = "redrain", ![w].final = {lease[w[1]].usage}]
        \/ Settle(w, "stopped", {})
        \/ waiter' = [waiter EXCEPT ![w].at = "generation"]
    BY <1>5 DEF WaiterPhase, RequestDrain
  <2>3. "stopped" \in Failures \cup {"ok"} /\ "generation" \notin Vigil
    BY DEF Failures, Vigil
  <2> QED
    BY <1>3, <1>4, <2>1, <2>2, <2>3
<1>6. ASSUME NEW w \in Waiters, WaiterQuiet(w) PROVE \A v \in Waiters : Keeps(v)
  <2>1. CASE waiter' = [waiter EXCEPT ![w].at = "drain", ![w].final = {}]
    <3>1. /\ waiter[w].at = "quiet" /\ waiter'[w].at = "drain" /\ waiter'[w].before = waiter[w].before
          /\ waiter'[w].quiet = waiter[w].quiet
          /\ \A v \in Waiters \ {w} : waiter'[v] = waiter[v]
      BY <1>6, <2>1, <1>t DEF WaiterRecord, WaiterQuiet
    <3> QED
      BY <3>1 DEF Keeps, Vigil
  <2> QED
    BY <1>4, <1>6, <2>1 DEF WaiterQuiet, RequestDrain, Failures
<1>7. ASSUME NEW w \in Waiters, WaiterGeneration(w) PROVE \A v \in Waiters : Keeps(v)
  <2>1. waiter'[w].at = "quiet" /\ \A v \in Waiters \ {w} : waiter'[v] = waiter[v]
    BY <1>7, <1>t DEF WaiterGeneration
  <2> QED
    BY <1>7, <2>1 DEF Keeps
<1>8. ASSUME NEW w \in Waiters,
             \/ WaiterTracked(w) \/ WaiterTop(w) \/ WaiterCheck(w) \/ WaiterAbort(w)
             \/ ReaperMark(w) \/ ReaperRelease(w)
      PROVE  \A v \in Waiters : Keeps(v)
  <2>1. \/ \E at \in {"top", "phase", "release"} : waiter' = [waiter EXCEPT ![w].at = at]
        \/ \E at \in {"top", "done"} : waiter' = [waiter EXCEPT ![w] = IdleWaiter(at)]
        \/ Settle(w, "ok", {lease[w[1]].usage})
    BY <1>8, ZenonT(60)
    DEF WaiterTracked, WaiterTop, WaiterCheck, WaiterAbort, ReaperMark, ReaperRelease
  <2>2. \A at \in {"top", "done"} : IdleWaiter(at).at \notin Vigil
    BY DEF IdleWaiter, Vigil
  <2>3. \A at \in {"top", "phase", "release"} : at \notin Vigil
    BY DEF Vigil
  <2> QED
    BY <1>2, <1>3, <1>4, <2>1, <2>2, <2>3
<1>9. ASSUME NEW w \in Waiters, WaiterRedrained(w) \/ WaiterDeadline(w) \/ WaiterStopped(w)
      PROVE  \A v \in Waiters : Keeps(v)
  BY <1>4, <1>9 DEF WaiterRedrained, WaiterDeadline, WaiterStopped, Failures
<1>10. CASE TaskNext
  BY <1>1, <1>5, <1>6, <1>7, <1>8, <1>9, <1>10
  DEF TaskNext, ConnDeny, ConnEnd, ConnFinish, ConnUntrack
<1>11. CASE HostNext
  <2>1. \/ \E w, new : /\ waiter' = [waiter EXCEPT ![w] = new]
                       /\ new = waiter[w] \/ new = IdleWaiter("done")
        \/ UNCHANGED waiter
    BY <1>11, ZenonT(60)
    DEF HostNext, Connect, AttachCall, CloseBegin, CloseSend, CloseRelease, CloseDisconnected,
        CloseCommit, CloseFail, CloseTimeout,
        DropBegin, DropSend, ShutdownCall, ShutdownExpire, ShutdownJoin, ProxyDrop, taskVars
  <2>2. IdleWaiter("done").at \notin Vigil
    BY DEF IdleWaiter, Vigil
  <2> QED
    BY <1>1, <1>2, <2>1, <2>2
<1>12. ASSUME NEW kind, RunClose(kind) PROVE \A v \in Waiters : Keeps(v)
  BY <1>2, <1>12 DEF RunClose, IdleWaiter, Vigil
<1>13. ASSUME NEW c \in Conns, Refuse(c) PROVE \A v \in Waiters : Keeps(v)
  <2>1. \A v \in Waiters : waiter'[v].at = waiter[v].at /\ waiter'[v].before = waiter[v].before
    BY <1>13, <1>t DEF Refuse, WaiterRecord
  <2> QED
    BY <1>13, <2>1 DEF Keeps
<1>14. ASSUME NEW r \in Results, DrainAnswered(r) PROVE \A v \in Waiters : Keeps(v)
  <2> DEFINE w == <<loop.cur.lease, loop.cur.n>>
             at == IF waiter[w].at = "drain" THEN "check" ELSE "redrained"
  <2>1. \/ waiter' = [waiter EXCEPT ![w].at = at] /\ backlog = <<>> /\ UNCHANGED backlog
        \/ UNCHANGED waiter
        \/ Settle(w, "listener", {})
    BY <1>14 DEF DrainAnswered, DrainReady
  <2>2. CASE waiter' = [waiter EXCEPT ![w].at = at] /\ backlog = <<>> /\ UNCHANGED backlog
    <3>1. \A v \in Waiters :
            \/ waiter'[v] = waiter[v]
            \/ /\ waiter'[v].at = at /\ waiter'[v].before = waiter[v].before
               /\ waiter'[v].quiet = waiter[v].quiet /\ v = w
      BY <2>2, <1>t DEF WaiterRecord
    <3>2. \A v \in Waiters : v = w /\ at \in Vigil => waiter[v].at \in Vigil
      BY DEF Vigil
    <3> HIDE DEF w, at
    <3> QED
      BY <2>2, <3>1, <3>2 DEF Keeps
  <2> HIDE DEF w, at
  <2> QED
    BY <1>1, <1>4, <2>1, <2>2 DEF Failures
<1>15. CASE OwnerNext
  <2>1. \/ RunClose("Close") \/ RunClose("Reap") \/ \E c \in Conns : Refuse(c)
        \/ \E r \in Results : DrainAnswered(r)
        \/ UNCHANGED waiter
    BY <1>15
    DEF OwnerNext, RunAttach, RunRelease, RunDrain, RunShutdown, RunRetry, RunAccept, DrainAccept,
        TakeSocket, RunAcceptError, AttachInstall, AttachDrained, DrainAbandoned, DispatchAcquire,
        DispatchAdmit, DispatchReject, ShutdownClose, ShutdownDecide, ShutdownReply, taskVars
  <2> QED
    BY <1>1, <1>12, <1>13, <1>14, <2>1
<1> QED
  BY <1>1, <1>10, <1>11, <1>15 DEF Next, Settled, vars, taskVars

\* Outside the waiters' checks no step quiesces a lease, and only a refusal moves its generation.
LEMMA PhaseStep ==
  ASSUME TypeOK, [Next]_vars, NEW l \in Leases
  PROVE  /\ \/ lease'[l].generation = lease[l].generation
            \/ \E c \in Conns : Refuse(c)
         /\ \/ lease'[l].phase \in {lease[l].phase, "Revoking", "Closed"}
            \/ \E w \in Waiters : WaiterCheck(w) /\ w[1] = l /\ GenerationUnchanged(lease[l], waiter[w].before)
<1>t. lease \in [Leases -> LeaseRecord] /\ lease[l] \in LeaseRecord
  BY DEF TypeOK
<1>1. ASSUME NEW w \in Waiters, WaiterCheck(w)
      PROVE  /\ lease'[l].generation = lease[l].generation
             /\ \/ lease'[l].phase = lease[l].phase
                \/ w[1] = l /\ GenerationUnchanged(lease[l], waiter[w].before)
  <2>1. CASE UNCHANGED lease
    BY <2>1
  <2>2. CASE /\ GenerationUnchanged(lease[w[1]], waiter[w].before)
             /\ lease' = [lease EXCEPT ![w[1]] = Quiesce(@)]
    <3>1. CASE w[1] = l
      BY <1>t, <2>2, <3>1 DEF Quiesce, LeaseRecord
    <3>2. CASE w[1] # l
      BY <1>t, <2>2, <3>2
    <3> QED
      BY <3>1, <3>2
  <2> QED
    BY <1>1, <2>1, <2>2 DEF WaiterCheck
<1>2. ASSUME NEW c \in Conns, ConnUntrack(c)
      PROVE  lease'[l].generation = lease[l].generation /\ lease'[l].phase = lease[l].phase
  BY <1>2, <1>t DEF ConnUntrack, DropAdmission, LeaseRecord
<1>3. ASSUME NEW c \in Conns, Refuse(c) PROVE lease'[l].phase = lease[l].phase
  <2> DEFINE r == RecordUnadmitted(lease[l])
  <2>1. r \in LeaseRecord /\ r.phase = lease[l].phase
    BY <1>t, LeaseOperators DEF RecordUnadmitted, LeaseRecord
  <2>2. lease'[l] = lease[l] \/ lease'[l] = DropPermit(r, c)
    BY <1>3, <1>t DEF Refuse
  <2> HIDE DEF r
  <2> QED
    BY <2>1, <2>2 DEF DropPermit, LeaseRecord
<1>4. ASSUME NEW c \in Conns, Dispatches(c), ~Refuse(c)
      PROVE  lease'[l].generation = lease[l].generation /\ lease'[l].phase = lease[l].phase
  <2>1. lease'[l] \in {lease[l], TakePermit(lease[l], c), Admit(lease[l], c)}
    BY <1>4, <1>t, ZenonT(60) DEF Dispatches, DispatchAcquire, DispatchAdmit, DispatchReject
  <2> QED
    BY <1>t, <2>1 DEF TakePermit, Admit, LeaseRecord
<1> QED
  BY <1>1, <1>2, <1>3, <1>4, PlainStep DEF Plain

\* What a waiter has read stays as good as it was, whatever the lease goes through.
LEMMA QuietStep ==
  ASSUME TypeOK, SocketInv, CertInv, QuietInv, [Next]_vars
  PROVE  QuietInv'
<1> SUFFICES ASSUME NEW w \in Waiters, waiter'[w].at \in Vigil
             PROVE  Reading(lease'[w[1]], waiter'[w])
  BY DEF QuietInv, Reading
<1>l. PICK l \in Leases : l = w[1]
  BY DEF Waiters
<1>t. /\ lease \in [Leases -> LeaseRecord] /\ waiter \in [Waiters -> WaiterRecord]
      /\ lease[l].generation \in 0..MaxGeneration /\ waiter[w].before \in 0..MaxGeneration
      /\ waiter[w].quiet \in BOOLEAN
  BY DEF TypeOK, LeaseRecord, WaiterRecord
<1>m. IsFinal(lease[l]) => IsFinal(lease'[l])
  BY LeaseStep DEF Monotone
<1>1. CASE WaiterGeneration(w)
  <2>1. lease' = lease /\ waiter'[w].quiet = TRUE
        /\ waiter'[w].before = RevocationGeneration(lease[l])
    BY <1>1, <1>l, <1>t DEF WaiterGeneration
  <2> QED
    BY <1>l, <2>1 DEF Reading, RevocationGeneration
<1>2. CASE /\ waiter[w].at \in Vigil /\ waiter'[w].before = waiter[w].before
           /\ waiter'[w].quiet = waiter[w].quiet /\ lease'[l].generation = lease[l].generation
  BY <1>2, <1>l, <1>m DEF QuietInv, Reading
<1>3. ASSUME waiter[w].at \in Vigil, waiter'[w].before = waiter[w].before, NEW c \in Conns, Refuse(c)
      PROVE  Reading(lease'[l], waiter'[w])
  <2>q. waiter'[w].quiet = (waiter[w].quiet /\ ~(l = Target(c) /\ lease[Target(c)].phase = "Revoking"))
    BY <1>3, <1>l, <1>t DEF Refuse, WaiterRecord
  <2>1. CASE l # Target(c)
    BY <1>2, <1>3, <1>l, <1>t, <2>1, <2>q DEF Refuse
  <2>2. CASE l = Target(c)
    <3> DEFINE r == RecordUnadmitted(lease[l])
    <3>1. /\ r \in LeaseRecord
          /\ r.generation = IF lease[l].phase = "Revoking" /\ lease[l].generation < MaxGeneration
                            THEN lease[l].generation + 1 ELSE lease[l].generation
      BY <1>t, LeaseOperators DEF RecordUnadmitted, LeaseRecord
    <3>2. lease'[l] = DropPermit(r, c)
      BY <1>3, <1>t, <2>2 DEF Refuse
    <3> HIDE DEF r
    <3>3. lease'[l].generation = r.generation
      BY <3>1, <3>2 DEF DropPermit, LeaseRecord
    <3>4. CASE lease[l].phase # "Revoking"
      BY SMTT(20), <1>2, <1>3, <1>l, <1>t, <2>q, <2>2, <3>1, <3>3, <3>4
    <3>5. CASE lease[l].phase = "Revoking"
      <4>1. \/ waiter[w].before = MaxGeneration \/ waiter[w].before < lease[l].generation
            \/ waiter[w].before = lease[l].generation
        BY <1>3, <1>l, <3>5 DEF QuietInv, Reading, IsFinal
      <4>2. waiter'[w].before = MaxGeneration \/ waiter'[w].before < lease'[l].generation
        BY SMTT(20), <1>3, <1>t, <3>1, <3>3, <3>5, <4>1, GenerationAssumption
      <4> QED
        BY <4>2 DEF Reading
    <3> QED
      BY <3>4, <3>5
  <2> QED
    BY <2>1, <2>2
<1> QED
  BY <1>1, <1>2, <1>3, <1>l, VigilStep, PhaseStep DEF Keeps

\* The evidence of every quiet period in progress is sound.
THEOREM QuietInvariant == Spec => []QuietInv
<1>1. Init => QuietInv
  BY SMTT(20) DEF Init, QuietInv, IdleWaiter, Vigil
<1>2. CloseInv /\ QuietInv /\ [Next]_vars => QuietInv'
  BY QuietStep DEF CloseInv
<1> QED
  BY <1>1, <1>2, CloseInvariant, PTL DEF Spec

\* A lease becomes quiesced only by a waiter that saw no refusal counted since it
\* started its quiet period, for every limit of the generation.
THEOREM QuiescedAfterQuiet == Spec => QuietBeforeQuiesced
<1> DEFINE A == \A l \in Leases :
                  lease[l].phase # "Quiesced" /\ lease'[l].phase = "Quiesced" =>
                    \E n \in 0..MaxCloses :
                      /\ waiter[<<l, n>>].at = "check" /\ waiter'[<<l, n>>].at # "check"
                      /\ waiter[<<l, n>>].quiet
<1>1. TypeOK /\ QuietInv /\ [Next]_vars => [A]_vars
  <2> SUFFICES ASSUME TypeOK, QuietInv, [Next]_vars, NEW l \in Leases,
                      lease[l].phase # "Quiesced", lease'[l].phase = "Quiesced"
               PROVE  \E n \in 0..MaxCloses :
                        /\ waiter[<<l, n>>].at = "check" /\ waiter'[<<l, n>>].at # "check"
                        /\ waiter[<<l, n>>].quiet
    OBVIOUS
  <2>1. PICK w \in Waiters :
          WaiterCheck(w) /\ w[1] = l /\ GenerationUnchanged(lease[l], waiter[w].before)
    BY PhaseStep
  <2>2. waiter[w].at = "check" /\ w[2] \in 0..MaxCloses /\ w = <<l, w[2]>>
    BY SMTT(20), <2>1 DEF WaiterCheck, Waiters
  <2>t. waiter \in [Waiters -> WaiterRecord] /\ lease[l].generation \in Nat
    BY SMTT(20), GenerationAssumption DEF TypeOK, LeaseRecord
  <2>3. waiter[w].quiet
    BY SMTT(20), <2>1, <2>2, <2>t DEF QuietInv, Reading, GenerationUnchanged, Vigil, IsFinal
  <2>4. waiter'[w].at # "check"
    <3>1. ASSUME Settle(w, "ok", {lease[w[1]].usage}) PROVE waiter'[w].at # "check"
      <4>1. waiter'[w].at = Outcome(w, "ok")
        BY <2>t, <3>1 DEF Settle, IdleWaiter
      <4> QED
        BY <4>1 DEF Outcome
    <3>2. ASSUME waiter' = [waiter EXCEPT ![w] = IdleWaiter("top")] PROVE waiter'[w].at # "check"
      BY <2>t, <3>2 DEF IdleWaiter
    <3> QED
      BY <2>1, <3>1, <3>2 DEF WaiterCheck
  <2> QED
    BY <2>2, <2>3, <2>4
<1> QED
  BY <1>1, TypeCorrect, QuietInvariant, PTL DEF Spec, QuietBeforeQuiesced

-------------------------------------------------------------------------------
(***************************************************************************)
(* What becomes of sockets and of the loop's control point.                *)
(***************************************************************************)

\* The steps that move a socket.
SocketMove(c) ==
  \/ conn'[c] = conn[c]
  \/ Connect(c)
  \/ /\ TakeSocket /\ loop.at \in {"select", "drain"} /\ backlog # <<>> /\ c = Head(backlog)
     /\ conn'[c].at = "dispatch" /\ conn'[c].born = conn[c].born
  \/ /\ DispatchAdmit(c)
     /\ conn'[c].at = "serving" /\ conn'[c].lease = Target(c) /\ conn'[c].born = conn[c].born
  \/ /\ conn[c].at \in LiveTask /\ conn'[c].at \in LiveTask
     /\ conn'[c].born = conn[c].born /\ conn'[c].lease = conn[c].lease
  \/ /\ conn'[c].at \in {"gone", "refused"}
     /\ conn[c].at # "queued" \/ (Exit /\ ShutdownReply)

\* There are no others.
LEMMA SocketMoves ==
  ASSUME TypeOK, [Next]_vars, NEW c \in Conns
  PROVE  SocketMove(c)
<1>t. conn \in [Conns -> ConnRecord] /\ backlog \in Seq(Conns)
  BY DEF TypeOK
<1>0. CASE UNCHANGED conn
  BY <1>0 DEF SocketMove
<1>1. ASSUME NEW d \in Conns, Connect(d) PROVE SocketMove(c)
  BY <1>1, <1>t DEF Connect, SocketMove
<1>2. ASSUME NEW d \in Conns, ConnDeny(d) \/ ConnEnd(d) \/ ConnFinish(d) PROVE SocketMove(c)
  <2>1. /\ conn[d].at \in LiveTask
        /\ \E at \in {"denied", "ended", "finished"} : conn' = [conn EXCEPT ![d].at = at]
    BY <1>2 DEF ConnDeny, ConnEnd, ConnFinish, LiveTask
  <2> QED
    BY SMTT(20), <1>t, <2>1 DEF SocketMove, ConnRecord, LiveTask
<1>3. ASSUME NEW d \in Conns, conn[d].at # "queued",
             \E at \in {"gone", "refused"} : conn' = [conn EXCEPT ![d] = GoneSocket(at)]
      PROVE  SocketMove(c)
  BY SMTT(20), <1>3, <1>t DEF SocketMove, GoneSocket
<1>4. CASE TakeSocket /\ loop.at \in {"select", "drain"}
  <2> DEFINE d == Head(backlog)
  <2>1. d \in Conns /\ backlog # <<>> /\ conn' = [conn EXCEPT ![d].at = "dispatch", ![d].late = FALSE]
    BY SMTT(20), <1>4, <1>t DEF TakeSocket
  <2> HIDE DEF d
  <2>2. \/ conn'[c] = conn[c]
        \/ c = d /\ conn'[c].at = "dispatch" /\ conn'[c].born = conn[c].born
    BY <1>t, <2>1 DEF ConnRecord
  <2> QED
    BY <1>4, <2>1, <2>2 DEF SocketMove, d
<1>5. ASSUME NEW d \in Conns, DispatchAdmit(d),
             conn' = [conn EXCEPT ![d].at = "serving", ![d].lease = Target(d)]
      PROVE  SocketMove(c)
  <2>1. \/ conn'[c] = conn[c]
        \/ c = d /\ conn'[c].at = "serving" /\ conn'[c].lease = Target(c)
           /\ conn'[c].born = conn[c].born
    BY <1>5, <1>t DEF ConnRecord
  <2> QED
    BY <1>5, <2>1 DEF SocketMove
<1>6. CASE ShutdownReply
  <2>1. CASE Exit
    <3>1. conn'[c] = conn[c] \/ conn'[c].at = "refused"
      BY <2>1 DEF Exit, GoneSocket
    <3> QED
      BY <1>6, <2>1, <3>1 DEF SocketMove
  <2> QED
    BY <1>0, <1>6, <2>1 DEF ShutdownReply, Continue
<1>7. CASE HostNext
  <2>1. UNCHANGED conn \/ \E d \in Conns : Connect(d)
    BY <1>7, ZenonT(60)
    DEF HostNext, AttachCall, CloseBegin, CloseSend, CloseCommit, CloseRelease,
        CloseFail, CloseTimeout, CloseDisconnected, DropBegin, DropSend, ShutdownCall,
        ShutdownExpire, ShutdownJoin, ProxyDrop, taskVars
  <2> QED
    BY <1>0, <1>1, <2>1
<1>8. CASE TaskNext
  <2>1. ASSUME NEW d \in Conns, ConnUntrack(d) PROVE SocketMove(c)
    BY <1>3, <2>1 DEF ConnUntrack
  <2>2. UNCHANGED conn \/ \E d \in Conns : ConnDeny(d) \/ ConnEnd(d) \/ ConnFinish(d) \/ ConnUntrack(d)
    BY <1>8, ZenonT(60)
    DEF TaskNext, WaiterTracked, WaiterTop, WaiterPhase, WaiterGeneration, WaiterQuiet,
        WaiterCheck, WaiterRedrained, WaiterDeadline, WaiterStopped, WaiterAbort, ReaperMark,
        ReaperRelease
  <2> QED
    BY <1>0, <1>2, <2>1, <2>2
<1>9. ASSUME NEW d \in Conns, Dispatches(d) PROVE SocketMove(c)
  <2>1. /\ conn[d].at = "dispatch"
        /\ \/ UNCHANGED conn
           \/ conn' = [conn EXCEPT ![d] = GoneSocket("refused")]
           \/ DispatchAdmit(d) /\ conn' = [conn EXCEPT ![d].at = "serving", ![d].lease = Target(d)]
    BY <1>9, ZenonT(60) DEF Dispatches, DispatchAcquire, DispatchAdmit, DispatchReject, Refuse
  <2> QED
    BY <1>0, <1>3, <1>5, <2>1
<1>10. CASE OwnerNext
  <2>1. \/ UNCHANGED conn \/ ShutdownReply \/ \E d \in Conns : Dispatches(d)
        \/ TakeSocket /\ loop.at \in {"select", "drain"}
    BY <1>10, ZenonT(60)
    DEF OwnerNext, RunAttach, RunClose, RunRelease, RunDrain, RunShutdown, RunRetry, RunAccept,
        RunAcceptError, DrainAccept, AttachInstall, AttachDrained, DrainAnswered, DrainAbandoned,
        DrainReady, ShutdownClose, ShutdownDecide, Dispatches, Accepting, taskVars
  <2> QED
    BY <1>0, <1>4, <1>6, <1>9, <2>1
<1> QED
  BY <1>0, <1>7, <1>8, <1>10 DEF Next, Settled, vars, taskVars

\* The steps that lead the loop to installing, closing or the end, or on from there.
LoopMove ==
  \/ UNCHANGED loop
  \/ RunShutdown \/ ShutdownDecide \/ ShutdownReply \/ \E l \in Leases : ShutdownClose(l)
  \/ AttachDrained("Drained")
  \/ /\ loop'.at \in {"select", "drain", "dispatch", "admit", "reject"}
     /\ loop.at \notin Stopping \cup {"exited"}

\* There are no others.
LEMMA LoopMoves == TypeOK /\ [Next]_vars => LoopMove
<1> SUFFICES ASSUME TypeOK, [Next]_vars PROVE LoopMove
  OBVIOUS
<1>t. loop \in LoopRecord
  BY DEF TypeOK
<1>1. CASE UNCHANGED loop
  BY <1>1 DEF LoopMove
<1>2. CASE OwnerNext
  <2>1. CASE RunAttach \/ RunDrain
    <3>1. UNCHANGED loop \/ (loop.at = "select" /\ loop'.at = "drain")
      BY <1>t, <2>1 DEF RunAttach, RunDrain, Receive, LoopRecord
    <3> QED
      BY <3>1 DEF LoopMove, Stopping
  <2>2. CASE \/ RunClose("Close") \/ RunClose("Reap") \/ RunRelease \/ RunRetry \/ RunAcceptError
    BY <1>1, <2>2 DEF RunClose, RunRelease, RunRetry, RunAcceptError, ownerVars
  <2>3. CASE RunAccept \/ DrainAccept
    <3>1. loop.at \in {"select", "drain"} /\ loop'.at = "dispatch"
      BY <1>t, <2>3 DEF RunAccept, DrainAccept, Accepting, LoopRecord
    <3> QED
      BY <3>1 DEF LoopMove, Stopping
  <2>4. CASE AttachInstall \/ \E r \in Results : DrainAnswered(r) \/ DrainAbandoned(r)
    <3>1. loop.at \in {"install", "drain"} /\ loop'.at = "select"
      BY SMTT(20), <2>4 DEF AttachInstall, DrainAnswered, DrainAbandoned, DrainReady, Idle
    <3> QED
      BY <3>1 DEF LoopMove, Stopping
  <2>5. ASSUME NEW r \in Results, AttachDrained(r) PROVE LoopMove
    <3>1. r # "Drained" => loop.at = "drain" /\ loop'.at = "select"
      BY <2>5 DEF AttachDrained, DrainReady, Idle
    <3> QED
      BY <2>5, <3>1 DEF LoopMove, Stopping
  <2>6. ASSUME NEW c \in Conns, Dispatches(c) PROVE LoopMove
    <3>1. loop.at \in Dispatching /\ loop'.at \in {"select", "drain", "admit", "reject"}
      BY <1>t, <2>6
      DEF Dispatches, DispatchAcquire, DispatchAdmit, DispatchReject, DispatchReturn, LoopRecord,
          Dispatching
    <3> QED
      BY <3>1 DEF LoopMove, Stopping, Dispatching
  <2> QED
    BY <1>2, <2>1, <2>2, <2>3, <2>4, <2>5, <2>6 DEF OwnerNext, LoopMove, Dispatches
<1> QED
  BY <1>1, <1>2, HostFrame, TaskFrame DEF Next, Settled, vars, ownerVars

\* Where each of them leads.
LEMMA LoopPlaces ==
  ASSUME TypeOK
  PROVE  /\ RunShutdown => loop'.at = "shutdown"
         /\ ShutdownDecide => loop'.at \in {"success", "failure"}
         /\ ShutdownReply => loop'.at \in {"select", "exited"}
         /\ \A l \in Leases : ShutdownClose(l) => loop'.at = "shutdown"
         /\ AttachDrained("Drained") => loop'.at = "install"
<1>t. loop \in LoopRecord
  BY DEF TypeOK
<1>1. RunShutdown => loop'.at = "shutdown"
  BY <1>t DEF RunShutdown, LoopRecord
<1>2. ShutdownDecide => loop'.at \in {"success", "failure"}
  BY <1>t DEF ShutdownDecide, LoopRecord
<1>3. ShutdownReply => loop'.at \in {"select", "exited"}
  <2>1. ShutdownReply => loop' = Idle \/ loop' = [Idle EXCEPT !.at = "exited"]
    BY DEF ShutdownReply, Exit, Continue
  <2> QED
    BY SMTT(20), <2>1 DEF Idle
<1>4. ASSUME NEW l \in Leases, ShutdownClose(l) PROVE loop'.at = "shutdown"
  BY <1>4, <1>t DEF ShutdownClose, LoopRecord
<1>5. AttachDrained("Drained") => loop'.at = "install"
  <2>1. AttachDrained("Drained") => loop' = [loop EXCEPT !.at = "install", !.batch = 0]
    BY DEF AttachDrained
  <2> QED
    BY <1>t, <2>1 DEF LoopRecord
<1> QED
  BY <1>1, <1>2, <1>3, <1>4, <1>5

-------------------------------------------------------------------------------
(***************************************************************************)
(* Shutdown.  While the owner waits for the trackers it serves no other    *)
(* command, so no lease is granted that it has not seen; a caller whose    *)
(* shutdown succeeded has waited for the end of the runtime.               *)
(***************************************************************************)

Ended(l) == Granted(l) => IsClosed(lease[l])

StopInv ==
  /\ loop.at = "shutdown" => \A l \in Leases : Ended(l) \/ l \in loop.todo
  /\ loop.at = "success" => \A l \in Leases : Ended(l)
  /\ proxy.at \in {"joining", "done"} => ~Running /\ \A l \in Leases : Ended(l)
  /\ ~Running => \A c \in Conns : conn[c].at # "queued"
  /\ proxy.at = "done" => \A c \in Conns : conn[c].at \notin LiveTask

\* Only an installation makes a lease that is not closed.
LEMMA EndedStays ==
  ASSUME TypeOK, OwnInv, [Next]_vars, \A l \in Leases : Monotone(lease[l], lease'[l]),
         loop.at # "install", NEW l \in Leases, Ended(l)
  PROVE  Ended(l)'
<1>1. Granted(l)' => Granted(l)
  BY GrantStep DEF AttachInstall
<1> QED
  BY <1>1 DEF Ended, Monotone

\* The proxy's owner receives the success, and joins the runtime's thread.
LEMMA ProxyMoves ==
  ASSUME TypeOK, [Next]_vars, proxy'.at \in {"joining", "done"}
  PROVE  \/ UNCHANGED proxy
         \/ ShutdownJoin
         \/ ShutdownReply /\ Exit /\ loop.at = "success" /\ proxy'.at = "joining"
<1>t. proxy \in ProxyRecord
  BY DEF TypeOK
<1>1. CASE ShutdownReply
  BY <1>1, <1>t DEF ShutdownReply, ProxyRecord
<1>2. CASE ShutdownCall \/ ShutdownExpire \/ ProxyDrop
  BY SMTT(20), <1>2, <1>t DEF ShutdownCall, ShutdownExpire, ProxyDrop, ProxyRecord
<1>3. CASE HostNext
  <2>1. ShutdownCall \/ ShutdownExpire \/ ProxyDrop \/ ShutdownJoin \/ UNCHANGED proxy
    BY <1>3, ZenonT(60)
    DEF HostNext, Connect, AttachCall, CloseBegin, CloseSend, CloseCommit, CloseRelease,
        CloseFail, CloseTimeout, CloseDisconnected, DropBegin, DropSend, hostVars
  <2> QED
    BY <1>2, <2>1
<1>4. CASE OwnerNext
  <2>1. ShutdownReply \/ UNCHANGED proxy
    BY <1>4, ZenonT(60)
    DEF OwnerNext, RunAttach, RunClose, RunRelease, RunDrain, RunShutdown, RunRetry, RunAccept,
        RunAcceptError, DrainAccept, TakeSocket, AttachInstall, AttachDrained, DrainAnswered,
        DrainAbandoned, DrainReady, DispatchAcquire, DispatchAdmit, DispatchReject,
        ShutdownClose, ShutdownDecide, hostVars
  <2> QED
    BY <1>1, <2>1
<1> QED
  BY <1>3, <1>4, TaskFrame DEF Next, Settled, vars, hostVars

\* A shutdown in progress, its success and what follows it stay as promised.
LEMMA StopStep ==
  ASSUME TypeOK, SocketInv, OwnInv, StopInv, [Next]_vars,
         \A l \in Leases : Monotone(lease[l], lease'[l])
  PROVE  StopInv'
<1>t. loop \in LoopRecord /\ lease \in [Leases -> LeaseRecord] /\ 0 \notin Leases
  BY SMTT(20) DEF TypeOK, Leases
<1>m. LoopMove
  BY LoopMoves
<1>x. loop.at = "exited" => UNCHANGED loop
  BY <1>m
  DEF LoopMove, RunShutdown, Receive, ShutdownDecide, ShutdownReply, ShutdownClose, AttachDrained,
      DrainReady
<1>1. ASSUME loop'.at = "shutdown" PROVE \A l \in Leases : Ended(l)' \/ l \in loop'.todo
  <2>1. CASE UNCHANGED loop
    BY <1>1, <2>1, EndedStays DEF StopInv
  <2>2. CASE RunShutdown
    <3> SUFFICES ASSUME NEW l \in Leases, ~Ended(l)' PROVE l \in loop'.todo
      OBVIOUS
    <3>1. Granted(l) /\ ~IsClosed(lease[l])
      BY <2>2 DEF Ended, RunShutdown, hostVars, Granted, Monotone
    <3>2. registry[handle[l].identity] = l /\ handle[l].identity \in Identities
      BY <3>1 DEF OwnInv, ExclusiveIdentity, Granted
    <3>3. l \in Registered
      BY <1>t, <3>2 DEF Registered
    <3> QED
      BY <1>t, <2>2, <3>3 DEF RunShutdown, LoopRecord
  <2>3. ASSUME NEW m \in Leases, ShutdownClose(m) PROVE \A l \in Leases : Ended(l)' \/ l \in loop'.todo
    <3>1. loop.at = "shutdown" /\ loop'.todo = loop.todo \ {m}
      BY <1>t, <2>3 DEF ShutdownClose, LoopRecord
    <3>2. IsClosed(lease'[m])
      BY <1>t, <2>3 DEF ShutdownClose, MarkClosed, IsClosed, LeaseRecord
    <3>3. \A l \in Leases : Ended(l) => Ended(l)'
      BY <3>1, EndedStays
    <3> QED
      BY <3>1, <3>2, <3>3 DEF StopInv, Ended
  <2>4. CASE ShutdownDecide \/ ShutdownReply \/ AttachDrained("Drained")
    BY <1>1, <2>4, LoopPlaces
  <2> QED
    BY <1>1, <1>m, <2>1, <2>2, <2>3, <2>4 DEF LoopMove
<1>2. ASSUME loop'.at = "success" PROVE \A l \in Leases : Ended(l)'
  <2>1. CASE UNCHANGED loop
    BY <1>2, <2>1, EndedStays DEF StopInv
  <2>2. CASE ShutdownDecide
    <3>1. loop.at = "shutdown" /\ loop.todo = {}
      BY <1>2, <1>t, <2>2 DEF ShutdownDecide, LoopRecord
    <3> QED
      BY <3>1, EndedStays DEF StopInv
  <2>3. CASE ShutdownReply \/ AttachDrained("Drained") \/ RunShutdown
             \/ \E l \in Leases : ShutdownClose(l)
    BY <1>2, <2>3, LoopPlaces
  <2> QED
    BY <1>2, <1>m, <2>1, <2>2, <2>3 DEF LoopMove
<1>3. ASSUME proxy'.at \in {"joining", "done"} PROVE loop'.at = "exited" /\ \A l \in Leases : Ended(l)'
  <2>1. CASE proxy.at \in {"joining", "done"}
    <3>1. loop.at = "exited" /\ \A l \in Leases : Ended(l)
      BY <2>1 DEF StopInv, Running
    <3> QED
      BY <1>x, <3>1, EndedStays
  <2>2. CASE ShutdownReply /\ Exit /\ loop.at = "success"
    BY <2>2, EndedStays DEF StopInv, Exit, Idle
  <2> QED
    BY <1>3, <2>1, <2>2, ProxyMoves DEF ShutdownJoin
<1>4. ASSUME loop'.at = "exited", NEW c \in Conns PROVE conn'[c].at # "queued"
  <2>1. CASE loop.at = "exited"
    BY <2>1, SocketMoves DEF StopInv, Running, SocketMove, Connect, LiveTask
  <2>2. CASE loop.at # "exited"
    <3>1. ShutdownReply
      BY <1>4, <1>m, <1>t, <2>2
      DEF LoopMove, RunShutdown, ShutdownDecide, ShutdownClose, AttachDrained, LoopRecord
    <3>2. Exit
      BY SMTT(20), <1>4, <3>1 DEF ShutdownReply, Continue, Idle
    <3> QED
      BY <3>2 DEF Exit, GoneSocket
  <2> QED
    BY <2>1, <2>2
<1>5. ASSUME proxy'.at = "done", NEW c \in Conns PROVE conn'[c].at \notin LiveTask
  <2>1. CASE ShutdownJoin
    BY <2>1 DEF ShutdownJoin, taskVars
  <2>2. CASE UNCHANGED proxy
    <3>1. conn[c].at \notin LiveTask /\ loop.at = "exited"
      BY <1>5, <2>2 DEF StopInv, Running
    <3> QED
      BY <3>1, SocketMoves DEF SocketMove, Connect, DispatchAdmit, LiveTask, Running
  <2> QED
    BY <1>5, <2>1, <2>2, ProxyMoves
<1> QED
  BY <1>1, <1>2, <1>3, <1>4, <1>5 DEF StopInv, Running

\* Which leases are closed during and after a shutdown.
THEOREM StopInvariant == Spec => []StopInv
<1>1. Init => StopInv
  BY SMTT(20) DEF Init, StopInv, Running
<1>2. RuntimeInv /\ StopInv /\ [Next]_vars => StopInv'
  BY LeaseStep, StopStep DEF RuntimeInv
<1> QED
  BY <1>1, <1>2, RuntimeInvariant, PTL DEF Spec

\* When shutdown returns success every lease ever granted is closed, and no socket, task
\* or permit is left.
THEOREM ShutdownIsComplete == Spec => []ShutdownCertifies
<1>1. TypeOK /\ SocketInv /\ PermitInv /\ StopInv => ShutdownCertifies
  <2> SUFFICES ASSUME TypeOK, SocketInv, PermitInv, StopInv, proxy.at = "done"
               PROVE  /\ \A l \in Leases : Granted(l) => IsClosed(lease[l])
                      /\ \A c \in Conns : conn[c].at \notin LiveTask \cup {"queued", "dispatch"}
                      /\ globalPermits = {}
    BY DEF ShutdownCertifies
  <2>1. ~Running /\ \A l \in Leases : Ended(l)
    BY DEF StopInv
  <2>2. \A c \in Conns : conn[c].at \notin LiveTask \cup {"queued", "dispatch"}
    BY <2>1 DEF StopInv, SocketInv, Running, Dispatching
  <2>3. globalPermits = {}
    BY <2>2 DEF TypeOK, PermitInv, PermitsConserved, LiveTask
  <2> QED
    BY <2>1, <2>2, <2>3 DEF Ended
<1> QED
  BY <1>1, TypeCorrect, SocketsOrdered, PermitInvariant, StopInvariant, PTL

===============================================================================
