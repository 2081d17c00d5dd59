\* Safety of Export under concurrency, TTL expiry, failures and a result
\* that does not decode as a JSON object.
CONSTANTS
    r1 = r1  r2 = r2  e1 = e1  e2 = e2  e3 = e3  e4 = e4  p1 = p1  p2 = p2  p3 = p3
    Requests <- MCRequests
    ExportNames <- MCSafetyExportNames
    Policies <- MCAllPolicies
    Config <- MCSafetyConfig
    HasTTL <- MCHasTTL
    ObjectResults <- MCObjectResults
    BadURLPolicies <- MCBadURLPolicies
    MaxFaults = 2
SYMMETRY RequestSymmetry
SPECIFICATION Spec
INVARIANT TypeOK
INVARIANT ResponseContract
INVARIANT NoCallsAfterCancel
