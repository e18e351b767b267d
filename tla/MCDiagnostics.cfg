SPECIFICATION DiagnosticsSpec
CONSTANTS
  ReporterCount = 2
  ChannelCapacity = 1
  MaxEventsPerSecond = 2
  DiagnosticWindow = 1
  MaxSuppressed = 3
  MaxTime = 2
  MaxReports = 6
INVARIANTS
  EveryDenialAccounted
CHECK_DEADLOCK FALSE
