SPECIFICATION FairSpec
CONSTANTS
  UploadLimits = {{}, {0}, {3}}
  DownloadLimits = {{2}}
  IdleTimeouts = {{}, {2}, {9}}
  MaxClientHello = 4
  BufSize = 2
  MaxBuffered = 1
  MaxBytes = 5
  MaxInstant = 8
  Silence = 3
  MaxTime = 5
INVARIANTS
  LimitIsExact
  
  IdleDenialIsJust
PROPERTIES
  SilentTunnelEnds
CHECK_DEADLOCK FALSE
