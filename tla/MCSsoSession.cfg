\* A write and a read against one provider that is also closed, under fairness of the
\* callers and of their time.  Each request is one
\* call and a retired provider is not used again: it may stop.
CONSTANTS
    w1 = w1
    u1 = u1
    c1 = c1
    Closers = {c1}
    NoRequest = NoRequest
    Requests = {w1, u1}
    Writes = {w1}
    Priority <- PriorityDef
    Limit = 1
SPECIFICATION FairSpec
CHECK_DEADLOCK FALSE
INVARIANTS
    NoneStranded
    OwnerIsWoken
PROPERTIES
    ContractSpec
    CallersAreAnswered
