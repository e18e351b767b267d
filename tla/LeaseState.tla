------------------------------ MODULE LeaseState ------------------------------
(***************************************************************************)
(* One lease as the runtime and its callers share it (`LeaseState` in      *)
(* proxy.rs): the phase behind a mutex, the payload of Phase::Revoking, the*)
(* cancellation token, the task tracker, the connection permits and the    *)
(* usage counters.  Each operator maps the record before a critical        *)
(* section, or before an atomic update, to the record after it;            *)
(* ProxyRuntime says who executes it and when.                             *)
(***************************************************************************)
EXTENDS Integers, FiniteSets

CONSTANTS
  MaxGeneration,  \* stands for u64::MAX in the revocation generation
  Conns           \* the sockets peers may open

ASSUME GenerationAssumption == MaxGeneration \in Nat

Phases == {"Open", "Revoking", "Quiesced", "Closed"}

\* `active` is decremented without a check.  The completed counter moves with
\* it and the byte counters only while a task serves, so three counters stand
\* for the six of `Counters`.
Usage == [accepted: Nat, active: Int, denied: Nat]

\* `cancelled` is both the cancellation token and the tracker's closed flag;
\* `tracker` and `permits` are the connections holding a token or a permit.
LeaseRecord ==
  [phase: Phases, generation: 0..MaxGeneration, cancelled: BOOLEAN,
   tracker: SUBSET Conns, permits: SUBSET Conns, usage: Usage]

\* LeaseState::new
NewLease ==
  [phase |-> "Open", generation |-> 0, cancelled |-> FALSE,
   tracker |-> {}, permits |-> {},
   usage |-> [accepted |-> 0, active |-> 0, denied |-> 0]]

IsClosed(s) == s.phase = "Closed"

\* The counters can no longer change.
IsFinal(s) == s.phase \in {"Quiesced", "Closed"}

\* TaskTracker::wait returns once the tracker is closed and holds no token.
TrackerDone(s) == s.cancelled /\ s.tracker = {}

BeginClose(s) ==
  IF s.phase = "Open" THEN [s EXCEPT !.phase = "Revoking", !.cancelled = TRUE] ELSE s

MarkClosed(s) == [s EXCEPT !.phase = "Closed"]

RevocationGeneration(s) == IF s.phase = "Revoking" THEN s.generation ELSE MaxGeneration

\* Mutant of GenerationUnchanged: an exhausted generation counts as unchanged.
GenerationUnchangedExhausted(s, expected) == s.phase = "Revoking" /\ s.generation = expected

\* The condition of quiesce_if_generation; an exhausted generation is never
\* evidence of a quiet interval.
GenerationUnchanged(s, expected) ==
  s.phase = "Revoking" /\ s.generation = expected /\ expected # MaxGeneration

Quiesce(s) == [s EXCEPT !.phase = "Quiesced"]

\* Mutant of RecordUnadmitted: the generation is not checked for overflow.
RecordUnadmittedUnsaturated(s) ==
  [s EXCEPT
    !.usage.denied = IF IsFinal(s) THEN @ ELSE @ + 1,
    !.generation = IF s.phase = "Revoking" THEN @ + 1 ELSE @]

\* record_unadmitted_locked: a refused socket is counted until the counters are
\* final; while revoking it moves the generation, which sticks at its maximum.
RecordUnadmitted(s) ==
  [s EXCEPT
    !.usage.denied = IF IsFinal(s) THEN @ ELSE @ + 1,
    !.generation = IF s.phase = "Revoking" /\ @ < MaxGeneration THEN @ + 1 ELSE @]

TakePermit(s, c) == [s EXCEPT !.permits = @ \cup {c}]

DropPermit(s, c) == [s EXCEPT !.permits = @ \ {c}]

\* Counters::admit
CountAdmission(u) == [u EXCEPT !.accepted = @ + 1, !.active = @ + 1]

\* The admission half of `admit`, inside the phase's critical section.
Admit(s, c) == [s EXCEPT !.tracker = @ \cup {c}, !.usage = CountAdmission(@)]

\* record_denial, by a connection task: no phase check.
RecordDenial(s) == [s EXCEPT !.usage.denied = @ + 1]

\* Counters::finish, run by Admission::drop before its fields are dropped.
FinishCounters(s) == [s EXCEPT !.usage.active = @ - 1]

\* The fields of Admission: the tracker token, then the permit.
DropAdmission(s, c) == [s EXCEPT !.tracker = @ \ {c}, !.permits = @ \ {c}]

===============================================================================
