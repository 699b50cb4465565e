CONSTANTS
    Concurrency = 2
    Input <- ThreeServers
    Requests <- AllRequests
    MayLeave = TRUE
    MayCancel = TRUE
    MayFailOpen = TRUE
SPECIFICATION FairSpec
INVARIANTS
    TypeOK
    NoSendOnClosed
    OneResultEach
    NothingLeftOpen
PROPERTIES
    StreamCloses
