CONSTANTS
    \* Two readers and a refresher while the rows of a key go stale and are denied.
    Worker = Worker
    NoCopy = NoCopy
    Readers = {r1, r2}
    MaxTime = 1
    Ttl = 0
    DisplayTtl = 1
    MaxVersion = 0
    MaxFence = 1
    Keys = {k1}
    ThroughKeys = {}
    Modes = {FALSE}
    PurgeEvery = 1

    \* One forced prober and the recheck, one login.
    Probers = {recheck, mcp}
    Forced = {mcp}
    Recheck = recheck
    NoProber = NoProber
    MaxLogins = 1
SPECIFICATION ReadersSpec
PROPERTIES
    AgeIsHonest
    ReadsAreAnswered
    VerdictIsEarned
    DeadHeals
