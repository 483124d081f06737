\* Two resources taken away while both are being refreshed.
CONSTANTS
    Worker = Worker
    NoCopy = NoCopy
    Readers = {r1, r2}
    MaxTime = 1
    Ttl = 0
    DisplayTtl = 1
    MaxVersion = 0
    MaxFence = 1
    Keys = {k1, k2}
    ThroughKeys = {}
    Modes = {TRUE, FALSE}
    PurgeEvery = 1
SYMMETRY ReaderSymmetry
SPECIFICATION Spec
INVARIANTS
    DenialRemovesCopies
