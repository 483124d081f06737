\* Nine machines side by side; see the README for the bounds.
CONSTANTS
    Callers = {c1, c2}
    Savers = {c1}
    Logins = {l1, l2}
    Nobody = Nobody

    r1 = r1
    r2 = r2
    Rows = {r1, r2}
    Chunkings <- ChunkDef
    RunIds = {1, 2}
    Window = 1
    Life = 2
    MaxSends = 3
    MaxDays = 3

    Executors = {e1, e2}
    Contents = {x, y}

    Turns = {ask, stream}
    Streams = {stream}
    Workers = {w1, w2}
    NoThread = NoThread
    Challenges = {1, 2}
    MaxSaves = 3

    Requests = {q1, q2, q3}
    HttpCapacity = 2
    LaneCapacity = 1

    Paths = {p1, p2}
    MaxRows = 1
    MaxRevisions = 2
    MaxWrites = 1

    above = above
    below = below
    Bulks = {b1, b2}
    Batches <- BatchDef
    Pages = {above, below}
    Root = Root
    MaxVersion = 3

    top = top
    left = left
    right = right
    far = far
    Tickets = {top, left, right, far}
    RootTicket = top
    InScope = {top, left, right}
    Epics = {left}
    Shapes <- ShapeDef
    MaxMoves = 2

    Starts = {first, second, third}
    First = first
    NoProcess = NoProcess
    RestartLimit = 1
    MaxFaults = 1

SPECIFICATION ProtocolsSpec

\* Every machine may come to its end.
CHECK_DEADLOCK FALSE

INVARIANTS
    NoneAbandoned
    SingleLaunch
    PendingIsUnderWay
    NewLoginIsUsed
    OneTicketPerRow
    NothingSentIsForgotten
    WrittenAsApproved
    LoserLeavesComment
    AnswerIsUsedOnce
    AnswersAreKept
    CapacityIsKept
    DisplayNotOlder
    OrderIsKept
    SuccessIsKept
    NothingBelowIsLost
    OneApplicationStays
PROPERTIES
    LoginIsKeptOutsideReset
    FailedMeansUnwritten
