\* The ids returned by concurrent imports against a Cache that may fail,
\* and a caller that re-sends after a failure, a lost answer or a short result.
CONSTANTS
    i1 = i1  i2 = i2
    Requests <- MCRequests
    MaxCreds = 2
    MaxFaults = 2
SPECIFICATION FairSpec
INVARIANT TypeOK
INVARIANT ImportResultStored
PROPERTY ImportEventuallyComplete
