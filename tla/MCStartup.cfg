SPECIFICATION StartupSpec
CONSTANTS
    Settings <- MCSettings
    DnsServers <- MCDnsServers
    Nat64Prefixes <- MCNat64Prefixes
    Networks <- MCNetworks
    Ports = {53, 54}
    Identities <- MCIdentities
    MaxCalls = 3
    MaxDnsServers = 2
    MaxPermits = 2048
    MaxTimeout = 10000
INVARIANTS
    FailureLeavesNothing
    StartedIsSound
    OneLeasePerHost
PROPERTIES
    StartReturns
\* A failed start is over.
CHECK_DEADLOCK FALSE
