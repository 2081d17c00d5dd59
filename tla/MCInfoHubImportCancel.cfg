\* Spec section 5: no collaborator call after the request context is canceled.
CONSTANTS
    i1 = i1  i2 = i2
    Requests <- MCRequests
    MaxCreds = 2
    MaxFaults = 1
SPECIFICATION Spec
INVARIANT NoCallsAfterCancel
