\* Liveness of the accepted-then-retry protocol of Export across a SIGTERM
\* whose grace period may cut handlers, answers lost to the write deadline,
\* and failed startups.
CONSTANTS
    r1 = r1  r2 = r2  e1 = e1  e2 = e2  e3 = e3  e4 = e4  p1 = p1  p2 = p2  p3 = p3
    Requests <- MCRequests
    ExportNames <- MCLiveNames
    Policies <- MCPolicies
    Config <- MCConfig
    HasTTL = {}
    ObjectResults <- MCPolicies
    BadURLPolicies = {}
    MaxFaults = 2
    AuthEnabled = TRUE
    MaxSignals = 1
SPECIFICATION FairServerSpec
PROPERTY CallerEventuallyExported
