------------------------------ MODULE Diagnostics -----------------------------
(***************************************************************************)
(* DiagnosticReporter::report_at: connection tasks and the listener owner  *)
(* report denials at once to one bounded channel, under one rate window.   *)
(* The rate state is locked twice around a send that holds no lock.        *)
(***************************************************************************)
EXTENDS Clock, Integers, Sequences

CONSTANTS
  ReporterCount,       \* how many tasks report
  ChannelCapacity,     \* of the channel
  MaxEventsPerSecond,  \* max_events_per_second
  DiagnosticWindow,    \* DIAGNOSTIC_WINDOW
  MaxSuppressed,       \* stands for u64::MAX
  MaxReports           \* bound: reports

ASSUME DiagnosticsAssumption == ReporterCount \in Nat /\ MaxSuppressed \in Nat

VARIABLES
  connected,   \* ReporterInner::connected
  receiver,    \* the host still holds the receiving end
  state,       \* RateState
  channel,     \* the suppressed_before of every event in the channel
  task,        \* per reporter: progress, its clock reading, suppressed_before
  reported,    \* history: reports begun on a connected reporter,
  delivered    \*   and those accounted for by events received

Reporters == 1..ReporterCount

diagnosticsVars == <<now, connected, receiver, state, channel, task, reported, delivered>>

Resting == [at |-> "idle", now |-> 0, before |-> 0]

DiagnosticsInit ==
  /\ now = 0 /\ connected = TRUE /\ receiver = TRUE
  /\ state = [windowStarted |-> 0, emitted |-> 0, suppressed |-> 0]
  /\ channel = <<>> /\ task = [r \in Reporters |-> Resting]
  /\ reported = 0 /\ delivered = 0

DiagnosticsTick == Advance /\ UNCHANGED <<connected, receiver, state, channel, task, reported, delivered>>

\* report reads the clock; a disconnected reporter stops here.
Report(r) ==
  /\ task[r].at = "idle" /\ connected /\ reported < MaxReports
  /\ task' = [task EXCEPT ![r] = [at |-> "rate", now |-> now, before |-> 0]]
  /\ reported' = reported + 1
  /\ UNCHANGED <<now, connected, receiver, state, channel, delivered>>

\* The window that a report read at time t falls into.
Window(t) ==
  IF t >= state.windowStarted + DiagnosticWindow
  THEN [state EXCEPT !.windowStarted = t, !.emitted = 0] ELSE state

SaturatedCount(x) == IF x > MaxSuppressed THEN MaxSuppressed ELSE x

\* The first critical section: suppressed, or an event that takes the
\* suppressed count with it.
Rate(r) ==
  /\ task[r].at = "rate"
  /\ LET s == Window(task[r].now) IN
     \/ /\ s.emitted >= MaxEventsPerSecond
        /\ state' = [s EXCEPT !.suppressed = SaturatedCount(@ + 1)]
        /\ task' = [task EXCEPT ![r] = Resting]
     \/ /\ s.emitted < MaxEventsPerSecond
        /\ state' = [s EXCEPT !.emitted = @ + 1, !.suppressed = 0]
        /\ task' = [task EXCEPT ![r].at = "send", ![r].before = s.suppressed]
  /\ UNCHANGED <<now, connected, receiver, channel, reported, delivered>>

\* try_send: delivered to the channel, disconnected, or full.
TrySend(r) ==
  /\ task[r].at = "send"
  /\ \/ /\ receiver /\ Len(channel) < ChannelCapacity
        /\ channel' = Append(channel, task[r].before)
        /\ task' = [task EXCEPT ![r] = Resting]
        /\ UNCHANGED connected
     \/ /\ ~receiver
        /\ connected' = FALSE
        /\ task' = [task EXCEPT ![r] = Resting]
        /\ UNCHANGED channel
     \/ /\ receiver /\ Len(channel) = ChannelCapacity
        /\ task' = [task EXCEPT ![r].at = "full"]
        /\ UNCHANGED <<channel, connected>>
  /\ UNCHANGED <<now, receiver, state, reported, delivered>>

\* Mutant of ChannelFull: the count that the event carried is dropped with it.
ChannelFullForgetful(r) ==
  /\ task[r].at = "full"
  /\ state' = [state EXCEPT !.suppressed = SaturatedCount(@ + 1)]
  /\ task' = [task EXCEPT ![r] = Resting]
  /\ UNCHANGED <<now, connected, receiver, channel, reported, delivered>>

\* The second critical section, for an event that found the channel full.
ChannelFull(r) ==
  /\ task[r].at = "full"
  /\ state' = [state EXCEPT !.suppressed = SaturatedCount(SaturatedCount(@ + task[r].before) + 1)]
  /\ task' = [task EXCEPT ![r] = Resting]
  /\ UNCHANGED <<now, connected, receiver, channel, reported, delivered>>

\* The host takes an event, or drops the receiver and what is queued.
ReceiveEvent ==
  /\ receiver /\ channel # <<>>
  /\ channel' = Tail(channel)
  /\ delivered' = delivered + 1 + Head(channel)
  /\ UNCHANGED <<now, connected, receiver, state, task, reported>>

Disconnect ==
  /\ receiver
  /\ receiver' = FALSE /\ channel' = <<>>
  /\ UNCHANGED <<now, connected, state, task, reported, delivered>>

DiagnosticsNext ==
  \/ DiagnosticsTick \/ ReceiveEvent \/ Disconnect
  \/ \E r \in Reporters : Report(r) \/ Rate(r) \/ TrySend(r) \/ ChannelFull(r)

DiagnosticsSpec == DiagnosticsInit /\ [][DiagnosticsNext]_diagnosticsVars

-------------------------------------------------------------------------------

Total(numbers) ==
  LET upto[n \in 0..Len(numbers)] == IF n = 0 THEN 0 ELSE upto[n - 1] + numbers[n]
  IN  upto[Len(numbers)]

\* The reports that a task still has in its hands.
Held(t) ==
  CASE t.at = "idle" -> 0
    [] t.at = "rate" -> 1
    [] OTHER -> 1 + t.before

\* What the reporter still has to account for: its suppressed count, the events
\* in the channel and those in the hands of reporters, with the counts they carry.
Pending ==
  state.suppressed
  + Total([i \in 1..Len(channel) |-> 1 + channel[i]])
  + Total([r \in Reporters |-> Held(task[r])])

\* No denial is lost and none is counted twice while the host listens: every
\* report is an event of its own or one of the suppressed_before of another,
\* whatever the rate window, the channel and other reporters do in between.
EveryDenialAccounted ==
  receiver =>
    /\ delivered + Pending <= reported
    /\ reported <= MaxSuppressed => delivered + Pending = reported

===============================================================================
