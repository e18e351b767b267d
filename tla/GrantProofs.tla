----------------------------- MODULE GrantProofs ------------------------------
(***************************************************************************)
(* When a lease is granted: each attach call is answered once, and nothing *)
(* happens to a lease before, nor afterwards but what the management API   *)
(* promises.                                                               *)
(***************************************************************************)
EXTENDS OwnershipProofs

USE ZenonT(30), SMTT(20)

-------------------------------------------------------------------------------
(***************************************************************************)
(* Attachments.  Each attach sends one command, which is in the channel or *)
(* in service, never both and never twice, however often a full batch      *)
(* requeues it; until then its caller waits.                               *)
(***************************************************************************)

\* Two commands of one attachment.
Twins(m, k) == m.kind = "Attach" /\ k.kind = "Attach" /\ m.lease = k.lease

\* An attachment still has its caller, and a close or a reap is of a granted lease.
Backed(m) ==
  /\ m.kind = "Attach" => handle[m.lease].at = "attaching"
  /\ m.kind \in {"Close", "Reap"} => m.lease \in Leases /\ Granted(m.lease)

TicketInv ==
  /\ \A i \in 1..Len(commands) : Backed(commands[i])
  /\ Backed(loop.cur)
  /\ \A i, j \in 1..Len(commands) : Twins(commands[i], commands[j]) => i = j
  /\ \A i \in 1..Len(commands) : ~Twins(commands[i], loop.cur)

\* Whoever waits for an attachment, other than of the leases S, goes on waiting.
Patient(S) ==
  \A l \in Leases \ S : handle[l].at = "attaching" => handle'[l].at = "attaching"

\* No attachment enters service.
NoneStarts == loop'.cur = loop.cur \/ loop'.cur.kind \notin {"Attach", "Close", "Reap"}

\* What a step may do to the attachments.
Tickets ==
  \/ commands' = commands /\ NoneStarts /\ Patient({})
  \/ /\ commands' = commands /\ loop'.cur = NoCommand
     /\ loop.cur.kind = "Attach" /\ Patient({loop.cur.lease})
  \/ commands # <<>> /\ commands' = Tail(commands) /\ NoneStarts /\ Patient({})
  \/ /\ commands # <<>> /\ commands' = Tail(commands) /\ loop'.cur = loop.cur
     /\ Head(commands).kind = "Attach" /\ Patient({Head(commands).lease})
  \/ commands # <<>> /\ commands' = Tail(commands) /\ loop'.cur = Head(commands) /\ Patient({})
  \/ commands' = <<>> /\ loop'.cur = NoCommand /\ Patient({})
  \/ \E m \in Commands :
       /\ commands' = Append(commands, m) /\ Backed(m)' /\ m.kind # "Attach"
       /\ NoneStarts /\ Patient({})
  \/ /\ commands' = Append(commands, loop.cur) /\ loop.cur.kind \in {"Attach", "Drain"}
     /\ loop'.cur = NoCommand /\ Patient({})
  \/ \E a \in Addresses : AttachCall(a) /\ UNCHANGED loop

\* A granted lease stays granted.
LEMMA GrantStays ==
  ASSUME TypeOK, OwnInv, TicketInv, [Next]_vars, NEW l \in Leases, Granted(l)
  PROVE  Granted(l)'
<1>1. HandleMoves
  BY HandleStep
<1>t. handle \in [Leases -> HandleRecord] /\ commands \in Seq(Commands) /\ nextLeaseId \in Nat
  BY SMTT(20), LimitAssumption DEF TypeOK
<1>2. ASSUME NEW m \in Leases, NEW at, Changes(m, at),
             at \in {"held", "sending", "waiting", "releasing", "dropping", "gone"}
      PROVE  Granted(l)'
  BY <1>2 DEF Changes, Granted
<1>3. ASSUME NEW m \in Leases, Changes(m, "refused"), Answering(m) PROVE Granted(l)'
  <2>1. handle[m].at = "attaching"
    <3>1. commands # <<>> => Head(commands) = commands[1] /\ 1 \in 1..Len(commands)
      BY SMTT(20), <1>t
    <3> QED
      BY SMTT(20), <1>3, <3>1 DEF Answering, TicketInv, Backed
  <2>2. m # l
    BY <2>1 DEF Granted
  <2> QED
    BY <1>3, <2>2 DEF Changes, Granted
<1>4. ASSUME NEW a \in Addresses, AttachCall(a) PROVE Granted(l)'
  <2>1. l # nextLeaseId
    BY SMTT(20), <1>t DEF OwnInv, Granted
  <2> QED
    BY <1>4, <1>t, <2>1 DEF AttachCall, Granted
<1>5. CASE AttachInstall /\ Changes(loop.cur.lease, "held")
  BY <1>2, <1>5 DEF Changes
<1>6. CASE UNCHANGED <<handle, nextLeaseId>>
  BY <1>6 DEF Granted
<1> QED
  BY <1>1, <1>2, <1>3, <1>4, <1>5, <1>6 DEF HandleMoves

\* Every such step keeps one command per attachment.
LEMMA TicketFlow ==
  ASSUME TypeOK, OwnInv, TicketInv, Tickets, \A l \in Leases : Granted(l) => Granted(l)'
  PROVE  TicketInv'
<1>t. /\ commands \in Seq(Commands) /\ loop.cur \in Commands /\ nextLeaseId \in Nat
      /\ handle \in [Leases -> HandleRecord]
  BY SMTT(20), LimitAssumption DEF TypeOK, LoopRecord
<1>a. /\ \A i \in 1..Len(commands) : commands[i].kind = "Attach" => commands[i].lease \in Leases
      /\ loop.cur.kind = "Attach" => loop.cur.lease \in Leases
  BY DEF OwnInv, Sound
<1>s. ASSUME \A i \in 1..Len(commands') : \A m : m = commands'[i] => Backed(m)',
             \A m : m = loop'.cur => Backed(m)',
             \A i, j \in 1..Len(commands') : Twins(commands'[i], commands'[j]) => i = j,
             \A i \in 1..Len(commands') : ~Twins(commands'[i], loop'.cur)
      PROVE  TicketInv'
  BY <1>s DEF TicketInv, Backed, Twins, Granted
<1>b. ASSUME NEW S, Patient(S), NEW m, Backed(m),
             m.kind = "Attach" => m.lease \in Leases \ S
      PROVE  Backed(m)'
  BY <1>b DEF Backed, Patient
<1>c. ASSUME NEW S, Patient(S), NEW i \in 1..Len(commands), NEW m, m = commands[i],
             m.kind = "Attach" => m.lease \notin S
      PROVE  Backed(m)'
  <2>1. Backed(m) /\ (m.kind = "Attach" => m.lease \in Leases)
    BY <1>a, <1>c DEF TicketInv
  <2> QED
    BY <1>b, <1>c, <2>1
<1>n. ASSUME Patient({}), NEW m, m = loop.cur PROVE Backed(m)'
  <2>1. Backed(m) /\ (m.kind = "Attach" => m.lease \in Leases)
    BY <1>a, <1>n DEF TicketInv
  <2> QED
    BY SMTT(20), <1>b, <1>n, <2>1
<1>o. /\ \A m : m.kind \notin {"Attach", "Close", "Reap"} => Backed(m)'
      /\ NoCommand.kind = "None"
  BY DEF Backed, NoCommand, Command
<1>p. ASSUME NoneStarts, Patient({})
      PROVE  /\ \A m : m = loop'.cur => Backed(m)'
             /\ \A m : Twins(m, loop'.cur) => Twins(m, loop.cur)
  BY <1>n, <1>o, <1>p DEF NoneStarts, Twins
<1>q. ASSUME loop'.cur = NoCommand
      PROVE  /\ \A m : m = loop'.cur => Backed(m)'
             /\ \A m : ~Twins(m, loop'.cur)
  BY <1>o, <1>q DEF Twins
<1>1. CASE commands' = commands /\ NoneStarts /\ Patient({})
  BY SMTT(20), <1>1, <1>c, <1>p, <1>s DEF TicketInv
<1>2. CASE commands' = commands /\ loop'.cur = NoCommand /\ loop.cur.kind = "Attach"
           /\ Patient({loop.cur.lease})
  <2>1. ASSUME NEW i \in 1..Len(commands), NEW m, m = commands[i] PROVE Backed(m)'
    <3>1. m.kind = "Attach" => m.lease \notin {loop.cur.lease}
      BY <1>2, <2>1 DEF TicketInv, Twins
    <3> QED
      BY <1>2, <1>c, <2>1, <3>1
  <2> QED
    BY <1>2, <1>q, <1>s, <2>1 DEF TicketInv
<1>d. ASSUME commands # <<>>, commands' = Tail(commands)
      PROVE  /\ Head(commands) = commands[1] /\ 1 \in 1..Len(commands)
             /\ \A i \in 1..Len(commands') :
                  /\ i + 1 \in 1..Len(commands) /\ i + 1 # 1
                  /\ commands'[i] = commands[i + 1]
             /\ \A i, j \in 1..Len(commands') : Twins(commands'[i], commands'[j]) => i = j
  <2>1. /\ Head(commands) = commands[1] /\ 1 \in 1..Len(commands)
        /\ \A i \in 1..Len(commands') :
             i \in Nat /\ i + 1 \in 1..Len(commands) /\ i + 1 # 1 /\ commands'[i] = commands[i + 1]
    BY SMTT(20), <1>d, <1>t
  <2>2. \A i, j \in 1..Len(commands') : Twins(commands'[i], commands'[j]) => i + 1 = j + 1
    BY <2>1 DEF TicketInv
  <2> QED
    BY SMTT(20), <2>1, <2>2
<1>3. CASE commands # <<>> /\ commands' = Tail(commands) /\ NoneStarts /\ Patient({})
  <2>1. \A i \in 1..Len(commands') : \A m : m = commands'[i] => Backed(m)'
    BY SMTT(20), <1>3, <1>c, <1>d
  <2>2. \A i \in 1..Len(commands') : ~Twins(commands'[i], loop'.cur)
    BY <1>3, <1>d, <1>p DEF TicketInv
  <2> QED
    BY <1>3, <1>d, <1>p, <1>s, <2>1, <2>2
<1>4. CASE commands # <<>> /\ commands' = Tail(commands) /\ loop'.cur = loop.cur
           /\ Head(commands).kind = "Attach" /\ Patient({Head(commands).lease})
  <2> DEFINE h == Head(commands).lease
  <2>1. ASSUME NEW i \in 1..Len(commands'), NEW m, m = commands'[i] PROVE Backed(m)'
    <3>1. i + 1 \in 1..Len(commands) /\ m = commands[i + 1]
      BY <1>4, <1>d, <2>1
    <3>2. m.kind = "Attach" => m.lease \notin {h}
      BY <1>4, <1>d, <3>1 DEF TicketInv, Twins
    <3> QED
      BY <1>4, <1>c, <3>1, <3>2
  <2>2. ASSUME NEW m, m = loop'.cur PROVE Backed(m)'
    <3>1. m.kind = "Attach" => m.lease \in Leases \ {h}
      BY <1>4, <1>a, <1>d, <2>2 DEF TicketInv, Twins
    <3>2. Backed(m)
      BY <1>4, <2>2 DEF TicketInv
    <3> QED
      BY <1>4, <1>b, <3>1, <3>2
  <2>3. \A i \in 1..Len(commands') : ~Twins(commands'[i], loop'.cur)
    BY <1>4, <1>d DEF TicketInv
  <2> QED
    BY <1>4, <1>d, <1>s, <2>1, <2>2, <2>3
<1>5. CASE commands # <<>> /\ commands' = Tail(commands) /\ loop'.cur = Head(commands) /\ Patient({})
  <2>1. \A i \in 1..Len(commands') : \A m : m = commands'[i] => Backed(m)'
    BY SMTT(20), <1>5, <1>c, <1>d
  <2>2. \A m : m = loop'.cur => Backed(m)'
    BY SMTT(20), <1>5, <1>c, <1>d
  <2>3. \A i \in 1..Len(commands') : ~Twins(commands'[i], loop'.cur)
    BY <1>5, <1>d DEF TicketInv
  <2> QED
    BY <1>5, <1>d, <1>s, <2>1, <2>2, <2>3
<1>6. CASE commands' = <<>> /\ loop'.cur = NoCommand
  <2>1. Len(commands') = 0
    BY <1>6
  <2> QED
    BY SMTT(20), <1>6, <1>q, <1>s, <2>1
<1>e. ASSUME NEW m \in Commands, commands' = Append(commands, m)
      PROVE  /\ Len(commands') = Len(commands) + 1
             /\ \A i \in 1..Len(commands') :
                  \/ i \in 1..Len(commands) /\ commands'[i] = commands[i]
                  \/ i = Len(commands) + 1 /\ commands'[i] = m
  BY SMTT(20), <1>e, <1>t
<1>f. ASSUME Patient({}), NEW m \in Commands, commands' = Append(commands, m), Backed(m)',
             \A i \in 1..Len(commands) : ~Twins(commands[i], m) /\ ~Twins(m, commands[i])
      PROVE  /\ \A i \in 1..Len(commands') : \A k : k = commands'[i] => Backed(k)'
             /\ \A i, j \in 1..Len(commands') : Twins(commands'[i], commands'[j]) => i = j
  BY SMTT(20), <1>c, <1>e, <1>f DEF TicketInv
<1>7. ASSUME NEW m \in Commands, commands' = Append(commands, m), Backed(m)', m.kind # "Attach",
             NoneStarts, Patient({})
      PROVE  TicketInv'
  <2>1. \A i \in 1..Len(commands) : ~Twins(commands[i], m) /\ ~Twins(m, commands[i])
    BY <1>7 DEF Twins
  <2>2. \A i \in 1..Len(commands') : ~Twins(commands'[i], loop'.cur)
    BY SMTT(20), <1>7, <1>e, <1>p DEF TicketInv, Twins
  <2> QED
    BY <1>7, <1>f, <1>p, <1>s, <2>1, <2>2
<1>8. CASE commands' = Append(commands, loop.cur) /\ loop'.cur = NoCommand /\ Patient({})
  <2>1. PICK m \in Commands : m = loop.cur
    BY <1>t
  <2>2. Backed(m)'
    BY <1>8, <1>n, <2>1
  <2>3. \A i \in 1..Len(commands) : ~Twins(commands[i], m) /\ ~Twins(m, commands[i])
    BY <2>1 DEF TicketInv, Twins
  <2> QED
    BY <1>8, <1>f, <1>q, <1>s, <2>1, <2>2, <2>3
<1>9. ASSUME NEW a \in Addresses, AttachCall(a), UNCHANGED loop PROVE TicketInv'
  <2>1. PICK k : k = nextLeaseId
    OBVIOUS
  <2>2. k \in Leases /\ handle[k].at = "unborn"
    BY SMTT(20), <1>9, <1>t, <2>1, LimitAssumption DEF AttachCall, TypeOK, Leases, OwnInv
  <2>3. handle'[k].at = "attaching" /\ \A l \in Leases \ {k} : handle'[l] = handle[l]
    BY <1>9, <1>t, <2>1, <2>2 DEF AttachCall, HandleRecord
  <2>4. Patient({}) /\ NoneStarts
    BY <1>9, <2>3 DEF Patient, NoneStarts
  <2> DEFINE m == Command("Attach", k, 0)
  <2>5. m \in Commands /\ m.kind = "Attach" /\ m.lease = k
    BY <2>2 DEF Commands, Command
  <2>6. commands' = commands \/ commands' = Append(commands, m)
    BY <1>9, <2>1 DEF AttachCall, Send
  <2> HIDE DEF m
  <2>7. Backed(m)'
    BY <2>3, <2>5 DEF Backed
  <2>8. \A i \in 1..Len(commands) : ~Twins(commands[i], m) /\ ~Twins(m, commands[i])
    BY <2>2, <2>5 DEF Twins, TicketInv, Backed
  <2>9. ~Twins(m, loop'.cur)
    BY <1>9, <2>2, <2>5 DEF Twins, TicketInv, Backed
  <2>10. CASE commands' = Append(commands, m)
    <3>1. \A i \in 1..Len(commands') : ~Twins(commands'[i], loop'.cur)
      BY <1>9, <1>e, <2>5, <2>9, <2>10 DEF TicketInv
    <3> QED
      BY <1>f, <1>p, <1>s, <2>4, <2>5, <2>7, <2>8, <2>10, <3>1
  <2> QED
    BY <1>1, <2>4, <2>6, <2>10
<1> QED
  BY <1>1, <1>2, <1>3, <1>4, <1>5, <1>6, <1>7, <1>8, <1>9 DEF Tickets

\* A caller moves only the handle of a lease it holds, or of a new attachment.
LEMMA HostPatient == TypeOK /\ HostNext => Patient({}) \/ \E a \in Addresses : AttachCall(a)
<1> SUFFICES ASSUME TypeOK, HostNext, ~ \E a \in Addresses : AttachCall(a) PROVE Patient({})
  OBVIOUS
<1>t. handle \in [Leases -> HandleRecord]
  BY DEF TypeOK
<1>1. ASSUME NEW m \in Leases, handle[m].at # "attaching",
             \A l \in Leases \ {m} : handle'[l] = handle[l]
      PROVE  Patient({})
  BY <1>1 DEF Patient
<1>2. ASSUME NEW m \in Leases,
             \/ CloseBegin(m) \/ CloseSend(m) \/ CloseCommit(m) \/ CloseRelease(m)
             \/ CloseFail(m) \/ CloseTimeout(m) \/ CloseDisconnected(m)
             \/ DropBegin(m) \/ DropSend(m)
      PROVE  Patient({})
  <2>1. handle[m].at # "attaching"
    BY <1>2 DEF CloseBegin, CloseSend, CloseCommit, CloseRelease, CloseFail, CloseTimeout,
                CloseDisconnected, DropBegin, DropSend
  <2>2. \A l \in Leases \ {m} : handle'[l] = handle[l]
    BY <1>2, <1>t DEF CloseBegin, CloseSend, CloseCommit, CloseRelease, CloseFail, CloseTimeout,
                CloseDisconnected, DropBegin, DropSend, TakeClosedUsage, RuntimeStoppedOrClosed
  <2> QED
    BY <1>1, <2>1, <2>2
<1>3. CASE UNCHANGED handle
  BY <1>3 DEF Patient
<1> QED
  BY <1>2, <1>3
  DEF HostNext, Connect, ShutdownCall, ShutdownExpire, ShutdownJoin, ProxyDrop, hostVars

\* Callers send one command for each attachment, and closes of their own leases.
LEMMA TicketHost ==
  ASSUME TypeOK, HostNext, \A l \in Leases : Granted(l) => Granted(l)'
  PROVE  Tickets
<1>l. UNCHANGED loop
  BY HostFrame
<1>p. NoneStarts
  BY <1>l DEF NoneStarts
<1>1. ASSUME NEW a \in Addresses, AttachCall(a) PROVE Tickets
  BY <1>l, <1>1 DEF Tickets
<1> SUFFICES ASSUME Patient({}) PROVE Tickets
  BY <1>1, HostPatient
<1>2. CASE UNCHANGED commands
  BY <1>p, <1>2 DEF Tickets
<1>3. ASSUME NEW m \in Commands, Send(m), Backed(m)', m.kind # "Attach" PROVE Tickets
  BY <1>p, <1>2, <1>3 DEF Send, Tickets
<1>4. ASSUME NEW kind \in {"Release", "Shutdown", "Close", "Reap"}, NEW l \in Leases \cup {0},
             NEW n \in Nat, Send(Command(kind, l, n)),
             kind \in {"Close", "Reap"} => l \in Leases /\ Granted(l)
      PROVE  Tickets
  <2> DEFINE m == Command(kind, l, n)
  <2>1. m \in Commands /\ m.kind = kind /\ m.lease = l
    BY DEF Commands, Command
  <2>2. Send(m)
    BY <1>4
  <2> HIDE DEF m
  <2>3. Backed(m)'
    BY <1>4, <2>1 DEF Backed
  <2> QED
    BY <1>3, <2>1, <2>2, <2>3
<1>5. ASSUME NEW l \in Leases, CloseSend(l) PROVE Tickets
  <2>1. PICK n : n = handle[l].closes
    OBVIOUS
  <2>2. n \in Nat
    BY SMTT(20), <2>1, BoundAssumption DEF TypeOK, HandleRecord
  <2> QED
    BY <1>4, <1>5, <2>1, <2>2 DEF CloseSend, Granted
<1>6. ASSUME NEW l \in Leases, CloseRelease(l) \/ DropSend(l) PROVE Tickets
  BY <1>4, <1>6 DEF CloseRelease, DropSend, Granted
<1>7. CASE ShutdownCall \/ ProxyDrop
  <2>1. PICK n : n = proxy.shutdowns + 1
    OBVIOUS
  <2>2. n \in Nat
    BY SMTT(20), <2>1, BoundAssumption DEF TypeOK, ProxyRecord
  <2> QED
    BY <1>4, <1>7, <2>1, <2>2 DEF ShutdownCall, ProxyDrop
<1> QED
  BY <1>1, <1>2, <1>5, <1>6, <1>7
  DEF HostNext, Connect, CloseBegin, CloseCommit, CloseFail, CloseTimeout, CloseDisconnected,
      DropBegin, ShutdownExpire, ShutdownJoin

\* Tasks send neither attachments nor closes.
LEMMA TicketTask == TypeOK /\ TaskNext => Tickets
<1> SUFFICES ASSUME TypeOK, TaskNext PROVE Tickets
  OBVIOUS
<1>p. NoneStarts /\ Patient({})
  BY TaskFrame DEF NoneStarts, Patient
<1>1. CASE UNCHANGED commands
  BY <1>p, <1>1 DEF Tickets
<1>2. ASSUME NEW kind \in {"Release", "Drain"}, NEW l \in Leases, NEW n \in Nat,
             commands' = Append(commands, Command(kind, l, n))
      PROVE  Tickets
  <2> DEFINE m == Command(kind, l, n)
  <2>1. m \in Commands /\ m.kind = kind /\ commands' = Append(commands, m)
    BY <1>2 DEF Commands, Command
  <2> HIDE DEF m
  <2>2. Backed(m)'
    BY <2>1 DEF Backed
  <2> QED
    BY <1>p, <2>1, <2>2 DEF Tickets
<1>3. ASSUME NEW w \in Waiters, WaiterPhase(w) \/ WaiterQuiet(w) \/ ReaperRelease(w) PROVE Tickets
  <2>1. w[1] \in Leases /\ w[2] \in Nat
    BY SMTT(20), BoundAssumption DEF Waiters
  <2>2. \/ UNCHANGED commands
        \/ commands' = Append(commands, Command("Drain", w[1], w[2]))
        \/ commands' = Append(commands, Command("Release", w[1], 0))
    BY <1>3 DEF WaiterPhase, WaiterQuiet, ReaperRelease, RequestDrain, Send
  <2> QED
    BY <1>1, <1>2, <2>1, <2>2
<1> QED
  BY <1>1, <1>3
  DEF TaskNext, ConnDeny, ConnEnd, ConnFinish, ConnUntrack, WaiterTracked, WaiterTop,
      WaiterGeneration, WaiterCheck, WaiterRedrained, WaiterDeadline, WaiterStopped, WaiterAbort,
      ReaperMark

\* The listener owner takes a command off the channel, requeues it or answers it.
LEMMA TicketOwner == TypeOK /\ OwnInv /\ OwnerNext => Tickets
<1> SUFFICES ASSUME TypeOK, OwnInv, OwnerNext PROVE Tickets
  OBVIOUS
<1>t. loop \in LoopRecord /\ handle \in [Leases -> HandleRecord]
  BY DEF TypeOK
<1>u. ASSUME NEW r \in LoopRecord
      PROVE  \A at, b : /\ [r EXCEPT !.at = at].cur = r.cur
                        /\ [r EXCEPT !.at = at, !.batch = b].cur = r.cur
                        /\ [r EXCEPT !.at = at, !.todo = b].cur = r.cur
                        /\ [r EXCEPT !.todo = b].cur = r.cur
                        /\ [r EXCEPT !.at = at, !.cur = b].cur = b
                        /\ \A d : [r EXCEPT !.at = at, !.cur = b, !.todo = d].cur = b
  BY <1>u DEF LoopRecord
<1>v. Idle.cur = NoCommand /\ NoCommand.kind = "None"
  BY DEF Idle, NoCommand, Command
<1>p. ASSUME UNCHANGED handle PROVE Patient({})
  BY <1>p DEF Patient
<1>r. ASSUME NEW m, NEW at, handle' = [handle EXCEPT ![m].at = at] PROVE Patient({m})
  BY <1>r, <1>t DEF Patient
<1>1. ASSUME UNCHANGED <<handle, commands>>, loop'.cur = loop.cur \/ loop'.cur = NoCommand
      PROVE  Tickets
  BY <1>1, <1>p, <1>v DEF Tickets, NoneStarts
<1>2. CASE RunAttach
  <2>1. CASE UNCHANGED loop /\ handle' = [handle EXCEPT ![Head(commands).lease].at = "refused"]
    BY <1>2, <1>r, <2>1 DEF RunAttach, Receive, Tickets
  <2>2. CASE UNCHANGED handle /\ loop' = [loop EXCEPT !.at = "drain", !.cur = Head(commands)]
    <3>1. loop'.cur = Head(commands)
      BY SMTT(20), <1>t, <1>u, <2>2
    <3> QED
      BY <1>2, <1>p, <2>2, <3>1 DEF RunAttach, Receive, Tickets
  <2> QED
    BY <1>2, <2>1, <2>2 DEF RunAttach
<1>3. CASE RunClose("Close") \/ RunClose("Reap") \/ RunRelease
  BY <1>3, <1>p DEF RunClose, RunRelease, Receive, Tickets, NoneStarts, hostVars, ownerVars
<1>4. CASE RunDrain \/ RunShutdown
  <2>1. /\ UNCHANGED handle /\ commands # <<>> /\ commands' = Tail(commands)
        /\ Head(commands).kind \in {"Drain", "Shutdown"}
        /\ \/ UNCHANGED loop \/ loop' = [loop EXCEPT !.at = "drain", !.cur = Head(commands)]
           \/ loop' = [loop EXCEPT !.at = "shutdown", !.cur = Head(commands), !.todo = Registered]
    BY <1>4 DEF RunDrain, RunShutdown, Receive, hostVars
  <2>2. CASE UNCHANGED loop
    BY <1>p, <2>1, <2>2 DEF Tickets, NoneStarts
  <2>3. CASE loop' = [loop EXCEPT !.at = "drain", !.cur = Head(commands)]
    <3>1. loop'.cur = Head(commands)
      BY SMTT(20), <1>t, <1>u, <2>3
    <3> QED
      BY <1>p, <2>1, <3>1 DEF Tickets, NoneStarts
  <2>4. CASE loop' = [loop EXCEPT !.at = "shutdown", !.cur = Head(commands), !.todo = Registered]
    <3>1. loop'.cur = Head(commands)
      BY SMTT(20), <1>t, <1>u, <2>4
    <3> QED
      BY <1>p, <2>1, <3>1 DEF Tickets, NoneStarts
  <2> QED
    BY <2>1, <2>2, <2>3, <2>4
<1>5. ASSUME NEW r \in Results, AttachDrained(r) PROVE Tickets
  <2>1. CASE r = "Drained"
    <3>1. /\ UNCHANGED <<handle, commands>>
          /\ loop' = [loop EXCEPT !.at = "install", !.batch = 0]
      BY <1>5, <2>1 DEF AttachDrained, DrainNoted
    <3> QED
      BY SMTT(20), <1>1, <1>t, <1>u, <3>1
  <2>2. CASE r = "BatchFull"
    <3>1. /\ UNCHANGED handle /\ commands' = Append(commands, loop.cur)
          /\ loop' = Idle /\ loop.cur.kind = "Attach"
      BY <1>5, <2>2 DEF AttachDrained, DrainNoted
    <3> QED
      BY <1>p, <1>v, <3>1 DEF Tickets
  <2>3. CASE r = "AcceptFailed"
    <3>1. /\ UNCHANGED commands /\ handle' = [handle EXCEPT ![loop.cur.lease].at = "refused"]
          /\ loop' = Idle /\ loop.cur.kind = "Attach"
      BY <1>5, <2>3 DEF AttachDrained, DrainNoted
    <3> QED
      BY <1>r, <1>v, <3>1 DEF Tickets
  <2> QED
    BY <1>5, <2>1, <2>2, <2>3 DEF Results
<1>6. ASSUME NEW r \in Results, DrainAnswered(r) PROVE Tickets
  <2>1. /\ UNCHANGED handle /\ loop' = Idle /\ loop.cur.kind = "Drain"
        /\ commands' \in {commands, Append(commands, loop.cur)}
    BY <1>6 DEF DrainAnswered, DrainNoted
  <2> QED
    BY <1>1, <1>p, <1>v, <2>1 DEF Tickets
<1>7. CASE AttachInstall
  <2>1. loop.cur.kind = "Attach" /\ loop' = Idle /\ UNCHANGED commands
        /\ handle' = [handle EXCEPT ![loop.cur.lease].at = "held"]
    BY <1>7 DEF AttachInstall, OwnInv
  <2> QED
    BY <1>r, <1>v, <2>1 DEF Tickets
<1>8. CASE ShutdownReply
  <2>1. CASE Continue
    BY <1>1, <1>8, <1>v, <2>1 DEF ShutdownReply, Continue
  <2>2. CASE Exit
    <3>1. loop'.cur = NoCommand /\ commands' = <<>> /\ UNCHANGED handle
      BY <1>8, <2>2 DEF ShutdownReply, Exit, Idle
    <3> QED
      BY <1>p, <3>1 DEF Tickets
  <2> QED
    BY <1>8, <2>1, <2>2 DEF ShutdownReply
<1>9. CASE \/ RunRetry \/ RunAccept \/ RunAcceptError \/ DrainAccept \/ ShutdownDecide
           \/ \E r \in Results : DrainAbandoned(r)
           \/ \E c \in Conns : DispatchAcquire(c) \/ DispatchAdmit(c) \/ DispatchReject(c)
           \/ \E l \in Leases : ShutdownClose(l)
  <2>1. UNCHANGED <<handle, commands>>
    BY <1>9
    DEF RunRetry, RunAccept, RunAcceptError, DrainAccept, ShutdownDecide, DrainAbandoned,
        DispatchAcquire, DispatchAdmit, DispatchReject, ShutdownClose, TakeSocket, DrainReady,
        hostVars
  <2>2. \/ UNCHANGED loop \/ loop' = Idle \/ \E at : loop' = [loop EXCEPT !.at = at]
        \/ \E at, b : loop' = [loop EXCEPT !.at = at, !.batch = b]
        \/ \E at, b : loop' = [loop EXCEPT !.at = at, !.todo = b]
        \/ \E b : loop' = [loop EXCEPT !.todo = b]
    BY <1>9
    DEF RunRetry, RunAccept, RunAcceptError, DrainAccept, ShutdownDecide, DrainAbandoned,
        DispatchAcquire, DispatchAdmit, DispatchReject, DispatchReturn, ShutdownClose
  <2>3. CASE UNCHANGED loop \/ loop' = Idle
    BY <1>1, <1>v, <2>1, <2>3
  <2>4. ASSUME NEW at, NEW b,
               \/ loop' = [loop EXCEPT !.at = at]
               \/ loop' = [loop EXCEPT !.at = at, !.batch = b]
               \/ loop' = [loop EXCEPT !.at = at, !.todo = b]
               \/ loop' = [loop EXCEPT !.todo = b]
        PROVE  Tickets
    <3>1. loop'.cur = loop.cur
      BY <1>t, <2>4 DEF LoopRecord
    <3> QED
      BY <1>1, <2>1, <3>1
  <2> QED
    BY ONLY <2>2, <2>3, <2>4, ZenonT(60)
<1> QED
  BY <1>2, <1>3, <1>4, <1>5, <1>6, <1>7, <1>8, <1>9 DEF OwnerNext

\* So the invariant of attachments survives every step.
LEMMA TicketStep ==
  ASSUME TypeOK, OwnInv, TicketInv, [Next]_vars
  PROVE  TicketInv'
<1>1. \A l \in Leases : Granted(l) => Granted(l)'
  BY GrantStays
<1>2. CASE UNCHANGED vars
  BY <1>1, <1>2, TicketFlow DEF vars, hostVars, ownerVars, Tickets, NoneStarts, Patient
<1> QED
  BY <1>1, <1>2, TicketHost, TicketTask, TicketOwner, TicketFlow DEF Next, Settled

-------------------------------------------------------------------------------
(***************************************************************************)
(* Leases.  Nothing happens to a lease before it is granted, and what may  *)
(* happen to one afterwards is what the contract allows.                   *)
(***************************************************************************)

\* Only granted leases are registered, serve connections or have been revoked.
GrantInv ==
  /\ TicketInv
  /\ \A l \in Leases : Granted(l) \/ lease[l].phase = "Open"
  /\ \A i \in Identities : registry[i] # 0 => Granted(registry[i])
  /\ \A c \in Conns : conn[c].lease # 0 => Granted(conn[c].lease)

\* The API sees no change of the lease.
Same(l) == lease'[l].phase = lease[l].phase /\ lease'[l].usage = lease[l].usage

\* The changes it may see.
Turns(m, phase) == lease'[m].phase = phase /\ lease'[m].usage = lease[m].usage

Counts(m, u) == lease'[m].phase = lease[m].phase /\ lease'[m].usage = u

LeaseMove(m) ==
  \/ lease[m].phase = "Open" /\ Turns(m, "Revoking")
  \/ lease[m].phase = "Revoking" /\ lease[m].usage.active = 0 /\ Turns(m, "Quiesced")
  \/ lease[m].phase # "Open" /\ lease[m].usage.active = 0 /\ Turns(m, "Closed")
  \/ lease[m].phase = "Open" /\ Counts(m, CountAdmission(lease[m].usage))
  \/ ~IsFinal(lease[m]) /\ Counts(m, [lease[m].usage EXCEPT !.denied = @ + 1])
  \/ /\ ~IsFinal(lease[m]) /\ lease[m].usage.active > 0
     /\ Counts(m, [lease[m].usage EXCEPT !.active = @ - 1])

LeaseMoves ==
  \/ \A l \in Leases : Same(l)
  \/ \E m \in Leases : Granted(m) /\ LeaseMove(m) /\ \A l \in Leases \ {m} : Same(l)
  \/ RunShutdown

\* begin_close revokes an open lease and changes no other, whoever calls it.
LEMMA RevokeMove ==
  ASSUME TypeOK, NEW m \in Leases, Granted(m), lease' = [lease EXCEPT ![m] = BeginClose(@)]
  PROVE  LeaseMoves
<1>1. lease \in [Leases -> LeaseRecord] /\ lease[m] \in LeaseRecord
  BY DEF TypeOK
<1>2. \A l \in Leases \ {m} : Same(l)
  BY <1>1 DEF Same
<1>3. lease'[m] = BeginClose(lease[m])
  BY <1>1
<1>4. CASE lease[m].phase = "Open"
  <2>1. Turns(m, "Revoking")
    BY <1>1, <1>3, <1>4 DEF BeginClose, Turns, LeaseRecord
  <2> QED
    BY <1>2, <1>4, <2>1 DEF LeaseMoves, LeaseMove
<1>5. CASE lease[m].phase # "Open"
  BY <1>2, <1>3, <1>5 DEF BeginClose, LeaseMoves, Same
<1> QED
  BY <1>4, <1>5

\* No connection is active under a lease whose tracker is done.
LEMMA DoneIsIdle ==
  ASSUME TypeOK, CertInv, NEW m \in Leases, TrackerDone(lease[m])
  PROVE  lease[m].usage.active = 0 /\ lease[m].phase # "Open"
<1>1. lease[m].tracker = {} /\ lease[m].cancelled
  BY DEF TrackerDone
<1>2. \A c \in Conns : conn[c].lease # m
  BY SMTT(20), <1>1 DEF CertInv, TrackInv, Leases
<1>3. Unfinished(m) = {}
  BY <1>2 DEF Unfinished
<1>4. lease[m].usage.active = 0
  BY <1>3, FS_EmptySet DEF CertInv, ActiveInv
<1> QED
  BY <1>1, <1>4 DEF CertInv, TrackInv, Coherent

\* quiesce and mark_closed, on a lease whose tracker is done, are moves of one idle lease.
LEMMA CloseMove ==
  ASSUME TypeOK, CertInv, GrantInv, NEW m \in Leases, TrackerDone(lease[m]),
         \/ lease' = [lease EXCEPT ![m] = MarkClosed(@)]
         \/ lease[m].phase = "Revoking" /\ lease' = [lease EXCEPT ![m] = Quiesce(@)]
  PROVE  LeaseMoves
<1>1. lease \in [Leases -> LeaseRecord] /\ lease[m] \in LeaseRecord
  BY DEF TypeOK
<1>2. \A l \in Leases \ {m} : Same(l)
  BY <1>1 DEF Same
<1>3. lease[m].usage.active = 0 /\ lease[m].phase # "Open" /\ Granted(m)
  BY DoneIsIdle DEF GrantInv
<1>4. CASE lease' = [lease EXCEPT ![m] = MarkClosed(@)]
  <2>1. Turns(m, "Closed")
    BY <1>1, <1>4 DEF MarkClosed, Turns, LeaseRecord
  <2> QED
    BY <1>2, <1>3, <2>1 DEF LeaseMoves, LeaseMove
<1>5. CASE lease[m].phase = "Revoking" /\ lease' = [lease EXCEPT ![m] = Quiesce(@)]
  <2>1. Turns(m, "Quiesced")
    BY <1>1, <1>5 DEF Quiesce, Turns, LeaseRecord
  <2> QED
    BY <1>2, <1>3, <1>5, <2>1 DEF LeaseMoves, LeaseMove
<1> QED
  BY <1>4, <1>5

\* The callers' steps.
LEMMA HostLeases == TypeOK /\ CertInv /\ GrantInv /\ HostNext => LeaseMoves
<1> SUFFICES ASSUME TypeOK, CertInv, GrantInv, HostNext PROVE LeaseMoves
  OBVIOUS
<1>1. CASE UNCHANGED lease
  BY <1>1 DEF LeaseMoves, Same
<1>2. ASSUME NEW l \in Leases, CloseBegin(l) \/ DropBegin(l) PROVE LeaseMoves
  <2>1. Granted(l) /\ (UNCHANGED lease \/ lease' = [lease EXCEPT ![l] = BeginClose(@)])
    BY <1>2 DEF CloseBegin, DropBegin, Granted
  <2> QED
    BY <1>1, <2>1, RevokeMove
<1>3. ASSUME NEW l \in Leases, CloseCommit(l) PROVE LeaseMoves
  <2>1. Current(l) \in Waiters /\ Current(l)[1] = l
    BY DEF Current, Waiters, TypeOK, HandleRecord
  <2>2. TrackerDone(lease[l])
    BY <1>3, <2>1 DEF CloseCommit, CertInv, WaiterInv, PastTracker
  <2> QED
    BY <1>3, <2>2, CloseMove DEF CloseCommit
<1> QED
  BY <1>1, <1>2, <1>3
  DEF HostNext, Connect, AttachCall, CloseSend, CloseRelease, CloseFail, CloseTimeout,
      CloseDisconnected, DropSend, ShutdownCall, ShutdownExpire, ShutdownJoin, ProxyDrop

\* The tasks' steps.
LEMMA TaskLeases == TypeOK /\ CertInv /\ GrantInv /\ TaskNext => LeaseMoves
<1> SUFFICES ASSUME TypeOK, CertInv, GrantInv, TaskNext PROVE LeaseMoves
  OBVIOUS
<1>t. lease \in [Leases -> LeaseRecord] /\ conn \in [Conns -> ConnRecord]
  BY DEF TypeOK
<1>1. CASE UNCHANGED lease
  BY <1>1 DEF LeaseMoves, Same
<1>2. ASSUME NEW w \in Waiters, WaiterCheck(w) \/ ReaperMark(w) PROVE LeaseMoves
  <2>1. w[1] \in Leases
    BY DEF Waiters
  <2>2. TrackerDone(lease[w[1]])
    BY <1>2 DEF WaiterCheck, ReaperMark, CertInv, WaiterInv, PastTracker, LiveWaiter
  <2>3. \/ UNCHANGED lease \/ lease' = [lease EXCEPT ![w[1]] = MarkClosed(@)]
        \/ lease[w[1]].phase = "Revoking" /\ lease' = [lease EXCEPT ![w[1]] = Quiesce(@)]
    BY <1>2 DEF WaiterCheck, ReaperMark, GenerationUnchanged
  <2> QED
    BY <1>1, <2>1, <2>2, <2>3, CloseMove
<1>3. ASSUME NEW c \in Conns, ConnDeny(c) \/ ConnFinish(c) \/ ConnUntrack(c) PROVE LeaseMoves
  <2>1. PICK m \in Leases : m = conn[c].lease
    BY <1>3 DEF ConnDeny, ConnFinish, ConnUntrack, LiveTask, CertInv, TrackInv
  <2>2. Granted(m) /\ lease[m] \in LeaseRecord
    BY SMTT(20), <1>t, <2>1 DEF GrantInv, Leases
  <2>3. ~IsFinal(lease[m])
    <3>1. c \in lease[m].tracker
      BY <1>3, <2>1 DEF ConnDeny, ConnFinish, ConnUntrack, LiveTask, CertInv, TrackInv
    <3> QED
      BY <3>1 DEF CertInv, FinalInv, TrackerDone
  <2>4. \A l \in Leases \ {m} : Same(l)
    BY <1>3, <1>t, <2>1 DEF ConnDeny, ConnFinish, ConnUntrack, Same
  <2>5. CASE ConnDeny(c)
    <3>1. lease'[m] = RecordDenial(lease[m])
      BY <1>t, <2>1, <2>5 DEF ConnDeny
    <3>2. Counts(m, [lease[m].usage EXCEPT !.denied = @ + 1])
      BY <2>2, <3>1 DEF RecordDenial, Counts, LeaseRecord
    <3> QED
      BY <2>2, <2>3, <2>4, <3>2 DEF LeaseMoves, LeaseMove
  <2>6. CASE ConnFinish(c)
    <3>1. lease'[m] = FinishCounters(lease[m]) /\ conn[c].at = "ended"
      BY <1>t, <2>1, <2>6 DEF ConnFinish
    <3>2. Counts(m, [lease[m].usage EXCEPT !.active = @ - 1])
      BY <2>2, <3>1 DEF FinishCounters, Counts, LeaseRecord
    <3>3. c \in Unfinished(m) /\ IsFiniteSet(Unfinished(m))
      BY <2>1, <3>1, FS_Subset, FiniteAssumption DEF Unfinished
    <3>4. Cardinality(Unfinished(m)) > 0
      BY SMTT(20), <3>3, FS_EmptySet, FS_CardinalityType
    <3>5. lease[m].usage.active > 0
      BY <3>4 DEF CertInv, ActiveInv
    <3> QED
      BY <2>2, <2>3, <2>4, <3>2, <3>5 DEF LeaseMoves, LeaseMove
  <2>7. CASE ConnUntrack(c)
    <3>1. lease'[m] = DropAdmission(lease[m], c)
      BY <1>t, <2>1, <2>7 DEF ConnUntrack
    <3>2. Same(m)
      BY <2>2, <3>1 DEF DropAdmission, Same, LeaseRecord
    <3> QED
      BY <2>4, <3>2 DEF LeaseMoves
  <2> QED
    BY <1>3, <2>5, <2>6, <2>7
<1> QED
  BY <1>1, <1>2, <1>3
  DEF TaskNext, ConnEnd, WaiterTracked, WaiterTop, WaiterPhase, WaiterGeneration, WaiterQuiet,
      WaiterRedrained, WaiterDeadline, WaiterStopped, WaiterAbort, ReaperRelease

\* The listener owner's steps.
LEMMA OwnerLeases == TypeOK /\ SocketInv /\ CertInv /\ GrantInv /\ OwnerNext => LeaseMoves
<1> SUFFICES ASSUME TypeOK, SocketInv, CertInv, GrantInv, OwnerNext PROVE LeaseMoves
  OBVIOUS
<1>t. /\ lease \in [Leases -> LeaseRecord] /\ commands \in Seq(Commands)
      /\ registry \in [Identities -> Leases \cup {0}]
  BY DEF TypeOK
<1>1. CASE UNCHANGED lease
  BY <1>1 DEF LeaseMoves, Same
<1>2. ASSUME NEW kind \in {"Close", "Reap"}, RunClose(kind) PROVE LeaseMoves
  <2>1. PICK m : m = Head(commands).lease
    OBVIOUS
  <2>2. Head(commands) = commands[1] /\ 1 \in 1..Len(commands)
        /\ Head(commands).kind = kind
    BY SMTT(20), <1>2, <1>t DEF RunClose, Receive
  <2>3. m \in Leases /\ Granted(m)
    BY <2>1, <2>2 DEF GrantInv, TicketInv, Backed
  <2>4. lease' = [lease EXCEPT ![m] = BeginClose(@)]
    BY <1>2, <2>1 DEF RunClose
  <2> QED
    BY <2>3, <2>4, RevokeMove
<1>3. ASSUME NEW l \in Leases, ShutdownClose(l) PROVE LeaseMoves
  BY <1>3, CloseMove DEF ShutdownClose
<1>g. ASSUME NEW c \in Conns, Target(c) # 0 PROVE Target(c) \in Leases /\ Granted(Target(c))
  BY <1>g, <1>t, AddressAssumption DEF Target, GrantInv
<1>4. ASSUME NEW c \in Conns, DispatchAcquire(c) PROVE LeaseMoves
  <2>1. CASE Target(c) # 0 /\ lease' = [lease EXCEPT ![Target(c)] = TakePermit(@, c)]
    <3>1. PICK m \in Leases : m = Target(c)
      BY <1>g, <2>1
    <3>2. Same(m) /\ \A l \in Leases \ {m} : Same(l)
      BY <1>t, <2>1, <3>1 DEF TakePermit, Same, LeaseRecord
    <3> QED
      BY <3>2 DEF LeaseMoves
  <2> QED
    BY <1>1, <1>4, <2>1 DEF DispatchAcquire
<1>5. ASSUME NEW c \in Conns, DispatchAdmit(c) \/ DispatchReject(c) PROVE LeaseMoves
  <2>1. PICK m \in Leases : m = Target(c)
    BY <1>5, <1>g DEF SocketInv, DispatchAdmit, DispatchReject
  <2>2. Granted(m) /\ lease[m] \in LeaseRecord
    BY SMTT(20), <1>g, <1>t, <2>1 DEF Leases
  <2>3. CASE lease[m].phase = "Open" /\ lease' = [lease EXCEPT ![m] = Admit(@, c)]
    <3>1. lease'[m] = Admit(lease[m], c) /\ \A l \in Leases \ {m} : Same(l)
      BY <1>t, <2>3 DEF Same
    <3>2. Counts(m, CountAdmission(lease[m].usage))
      BY <2>2, <3>1 DEF Admit, Counts, LeaseRecord
    <3> QED
      BY <2>2, <2>3, <3>1, <3>2 DEF LeaseMoves, LeaseMove
  <2>4. CASE lease' = [lease EXCEPT ![m] = DropPermit(RecordUnadmitted(@), c)]
    <3> DEFINE u == RecordUnadmitted(lease[m])
    <3>1. lease'[m] = DropPermit(u, c) /\ \A l \in Leases \ {m} : Same(l)
      BY <1>t, <2>4 DEF Same
    <3>2. /\ u \in LeaseRecord /\ u.phase = lease[m].phase
          /\ u.usage = [lease[m].usage EXCEPT !.denied = IF IsFinal(lease[m]) THEN @ ELSE @ + 1]
      BY <2>2, LeaseOperators DEF RecordUnadmitted, LeaseRecord
    <3> HIDE DEF u
    <3>3. lease'[m].phase = lease[m].phase /\ lease'[m].usage = u.usage
      BY <3>1, <3>2 DEF DropPermit, LeaseRecord
    <3>4. CASE IsFinal(lease[m])
      <4>1. u.usage = lease[m].usage
        BY <2>2, <3>2, <3>4 DEF LeaseRecord, Usage
      <4> QED
        BY <3>1, <3>3, <4>1 DEF Same, LeaseMoves
    <3>5. CASE ~IsFinal(lease[m])
      <4>1. Counts(m, [lease[m].usage EXCEPT !.denied = @ + 1])
        BY <3>2, <3>3, <3>5 DEF Counts
      <4> QED
        BY <2>2, <3>1, <3>5, <4>1 DEF LeaseMoves, LeaseMove
    <3> QED
      BY <3>4, <3>5
  <2> QED
    BY <1>5, <2>1, <2>3, <2>4 DEF DispatchAdmit, DispatchReject, Refuse
<1>6. CASE RunShutdown
  BY <1>6 DEF LeaseMoves
<1>7. CASE \/ RunAttach \/ RunRelease \/ RunDrain \/ RunRetry \/ RunAccept \/ RunAcceptError
           \/ DrainAccept \/ AttachInstall \/ ShutdownDecide \/ ShutdownReply
           \/ \E r \in Results : AttachDrained(r) \/ DrainAnswered(r) \/ DrainAbandoned(r)
  <2>1. UNCHANGED lease
    BY <1>7
    DEF RunAttach, RunRelease, RunDrain, RunRetry, RunAccept, RunAcceptError, DrainAccept,
        AttachInstall, ShutdownDecide, ShutdownReply, AttachDrained, DrainAnswered,
        DrainAbandoned, DrainReady, TakeSocket
  <2> QED
    BY <1>1, <2>1
<1> QED
  BY <1>2, <1>3, <1>4, <1>5, <1>6, <1>7 DEF OwnerNext

\* The same of every step.
LEMMA LeasesMove ==
  TypeOK /\ SocketInv /\ CertInv /\ GrantInv /\ [Next]_vars => LeaseMoves
<1>1. UNCHANGED vars => LeaseMoves
  BY DEF vars, LeaseMoves, Same
<1> QED
  BY <1>1, HostLeases, TaskLeases, OwnerLeases DEF Next, Settled

\* A connection keeps its lease, loses it, or is admitted under a registered one.
LEMMA ConnLeases ==
  ASSUME TypeOK, SocketInv, CertInv, [Next]_vars, NEW c \in Conns
  PROVE  conn'[c].lease \in {conn[c].lease, 0, Target(c)}
<1>t. conn \in [Conns -> ConnRecord]
  BY DEF TypeOK
<1>0. TrackInv /\ WaiterInv
  BY DEF CertInv
<1>1. CASE Calm
  BY <1>1 DEF Calm, SameTask
<1>2. ASSUME NEW d \in Conns, Admission(d) PROVE conn'[c].lease \in {conn[c].lease, 0, Target(c)}
  <2>1. conn' = [conn EXCEPT ![d].at = "serving", ![d].lease = Target(d)]
    BY <1>2 DEF Admission
  <2>2. CASE d = c
    BY <1>t, <2>1, <2>2 DEF ConnRecord
  <2> QED
    BY <1>t, <2>1, <2>2
<1>3. ASSUME NEW d \in Conns, ConnDeny(d) \/ ConnEnd(d) \/ ConnFinish(d) \/ ConnUntrack(d)
      PROVE  conn'[c].lease \in {conn[c].lease, 0, Target(c)}
  <2>1. \/ \E at : conn' = [conn EXCEPT ![d].at = at]
        \/ conn' = [conn EXCEPT ![d] = GoneSocket("gone")]
    BY <1>3 DEF ConnDeny, ConnEnd, ConnFinish, ConnUntrack
  <2> QED
    BY SMTT(20), <1>t, <2>1 DEF ConnRecord, GoneSocket
<1>4. CASE UNCHANGED vars
  BY <1>4 DEF vars, taskVars
<1>5. ASSUME NEW w \in Waiters, WaiterNext(w) PROVE Calm
  BY <1>0, <1>5, CalmWaiter
<1>6. CASE TaskNext
  BY <1>1, <1>3, <1>5, <1>6 DEF TaskNext, WaiterNext
<1> QED
  BY <1>0, <1>1, <1>2, <1>4, <1>6, CalmHost, CalmOwner DEF Next, Settled

\* Every step keeps the invariant.
LEMMA GrantKept ==
  ASSUME TypeOK, SocketInv, CertInv, OwnInv, GrantInv, [Next]_vars
  PROVE  GrantInv'
<1>g. \A l \in Leases : Granted(l) => Granted(l)'
  BY GrantStays DEF GrantInv
<1>t. /\ registry \in [Identities -> Leases \cup {0}] /\ 0 \notin Leases
      /\ \A c \in Conns : conn[c].lease \in Leases \cup {0} /\ Target(c) \in Leases \cup {0}
  BY SMTT(20), AddressAssumption DEF TypeOK, Leases, ConnRecord, Target
<1>1. TicketInv'
  BY TicketStep DEF GrantInv
<1>2. ASSUME NEW l \in Leases, ~Granted(l)' PROVE lease'[l].phase = "Open"
  <2>1. ~Granted(l) /\ lease[l].phase = "Open"
    BY <1>g, <1>2 DEF GrantInv
  <2>2. ASSUME RunShutdown PROVE lease'[l] = lease[l]
    <3>1. l \notin Registered
      BY <2>1 DEF Registered, GrantInv
    <3> QED
      BY <2>2, <3>1 DEF RunShutdown
  <2>3. Same(l) \/ RunShutdown
    BY <2>1, LeasesMove DEF LeaseMoves
  <2> QED
    BY <2>1, <2>2, <2>3 DEF Same
<1>3. ASSUME NEW i \in Identities, NEW l, l = registry'[i], l # 0 PROVE Granted(l)'
  <2>1. CASE AttachInstall
    <3>1. loop.cur.lease \in Leases /\ handle \in [Leases -> HandleRecord]
      BY <2>1 DEF AttachInstall, OwnInv, Sound, TypeOK
    <3>2. PICK m \in Leases : m = loop.cur.lease
      BY <3>1
    <3>3. handle'[m].at = "held"
      BY SMTT(20), <2>1, <3>1, <3>2 DEF AttachInstall, HandleRecord
    <3>4. l = m \/ l = registry[i]
      BY <1>3, <1>t, <2>1, <3>2 DEF AttachInstall
    <3> QED
      BY <1>g, <1>t, <1>3, <3>3, <3>4 DEF GrantInv, Granted
  <2>2. CASE registry' = registry \/ RunRelease
    <3>1. l = registry[i]
      BY <1>3, <1>t, <2>2 DEF RunRelease, ReleaseIfCurrent
    <3> QED
      BY <1>g, <1>t, <1>3, <3>1 DEF GrantInv
  <2> QED
    BY <2>1, <2>2, LoopStep DEF Continues, Finishes, Starts
<1>4. ASSUME NEW c \in Conns, NEW l, l = conn'[c].lease, l # 0 PROVE Granted(l)'
  <2>1. l \in {conn[c].lease, Target(c)}
    BY <1>4, ConnLeases
  <2>2. l \in Leases /\ Granted(l)
    BY SMTT(20), <1>4, <1>t, <2>1, AddressAssumption DEF GrantInv, Target
  <2> QED
    BY <1>g, <2>2
<1> QED
  BY <1>1, <1>2, <1>3, <1>4 DEF GrantInv, Granted

\* The invariant of grants holds in every reachable state.
THEOREM GrantInvariant == Spec => []GrantInv
<1>1. Init => GrantInv
  <2> SUFFICES ASSUME Init PROVE GrantInv
    OBVIOUS
  <2>1. commands = <<>> /\ Len(commands) = 0 /\ loop.cur.kind = "None"
    BY DEF Init, NoCommand, Command
  <2>2. TicketInv
    BY SMTT(20), <2>1 DEF TicketInv, Backed, Twins
  <2> QED
    BY <2>2 DEF Init, GrantInv, NewLease, GoneSocket
<1>2. RuntimeInv /\ GrantInv /\ [Next]_vars => GrantInv'
  BY GrantKept DEF RuntimeInv
<1> QED
  BY <1>1, <1>2, RuntimeInvariant, PTL DEF Spec

===============================================================================
