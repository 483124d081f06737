CONSTANTS
    \* Three handlers of one mutation id.
    Keys = {k1}
    Clients = {c1, c2, c3}
    Bodies = {b1, b2}
    RequestIds = {r1, r2}
    NoClient = NoClient
    NoRequest = NoRequest
    NoBody = NoBody
    Grace = 4
    MaxAttempt = 1
    Settle = 1
    ReadTime = 1
    DiskFaults = TRUE

    \* A read, that the page repeats, and a write, that it does not.
    Reads = {g1}
    Writes = {p1}
SPECIFICATION WritesSpec
INVARIANTS
    AtMostOneObject
PROPERTIES
    ContractSpec
    LoginIsAskedJustly
