\* Attempts that may outlast the grace period, as uploads and queued writes do.
SPECIFICATION Spec
CONSTANTS
    Keys = {k1}
    Clients = {c1}
    Bodies = {b1}
    RequestIds = {r1, r2}
    NoClient = NoClient
    NoRequest = NoRequest
    NoBody = NoBody
    Grace = 1
    MaxAttempt = 2
    Settle = 1
    ReadTime = 1
    DiskFaults = FALSE
PROPERTY RewriteWaitsAfterLoss
