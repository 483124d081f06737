\* Two keys under the one fence, the second also filled by list reads, and a reader; or two
\* readers of the first, who join each other's flights and the refresher's and are shown stale
\* copies while it is written and invalidated.  Two searches with list reads beside them and
\* a command that writes twice, or two that write once, with a restart.
CONSTANTS
    Worker = Worker
    NoCopy = NoCopy
    Readers = {r1, r2}
    strict = r2
    MaxTime = 1
    Ttl = 0
    DisplayTtl = 1
    MaxVersion = 1
    MaxFence = 2
    Keys = {k1, k2}
    ThroughKeys = {k2}
    Modes = {TRUE, FALSE}
    PurgeEvery = 1

    Searches = {s1, s2}
    other = s2
    Writers = {w1}
    MaxWrites = 2
    MaxRestarts = 1

    \* Two screens that save while people are looked up.
    Screens = {ui, mcp}
    Lookups = {l1}
    Plans = {p1, p2}
    NoPlan = NoPlan
    Rosters = {old, new}
    NoRoster = NoRoster
    MaxReplaced = 2
SPECIFICATION ReadsSpec
INVARIANTS
    NoResurrection
    ReadYourWrites
    ForgottenStays
    SearchSeesWrites
PROPERTIES
    NothingUnseenIsLost
