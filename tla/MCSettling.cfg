CONSTANTS
    \* Receipts: one handler, so that strong fairness stays checkable; crashes, lost
    \* responses, workers and late commits are present, and storage works.
    Keys = {k1}
    Clients = {c1}
    Bodies = {b1}
    RequestIds = {r1, r2}
    NoClient = NoClient
    NoRequest = NoRequest
    NoBody = NoBody
    Grace = 4
    MaxAttempt = 1
    Settle = 1
    ReadTime = 1
    DiskFaults = FALSE

    \* Logins: two services, three attempts.
    Services = {jiraService, wikiService}
    MaxAttempts = 3
    Tray = TRUE

    \* The page without its requests.
    Reads = {}
    Writes = {}
SPECIFICATION SettlingSpec
\* The attempts come to their end.
CHECK_DEADLOCK FALSE
INVARIANTS
    OneLoginWindow
PROPERTIES
    HandlerAnswers
    OpenIsSettled
    FailedMeansNothing
    LoginEnds
    NoticeIsLifted
