\* A key that a batch read fills by Cache.set: the fence does not guard it.
CONSTANTS
    Worker = Worker
    NoCopy = NoCopy
    Readers = {r1}
    MaxTime = 0
    Ttl = 0
    DisplayTtl = 1
    MaxVersion = 1
    MaxFence = 2
    Keys = {k1}
    ThroughKeys = {k1}
    Modes = {TRUE, FALSE}
    PurgeEvery = 1
SPECIFICATION Spec
INVARIANTS
    ResurrectionAnywhere
