\* Spec P7: a structurally bad credential leaves no Cache write behind.
CONSTANTS
    i1 = i1  i2 = i2
    Requests <- MCRequests
    MaxCreds = 2
    MaxFaults = 0
SPECIFICATION Spec
INVARIANT NoWritesOnFatalImport
