CONSTANTS
    Listed = 2
    PageSize = 2
    MaxStrays = 1
    Concurrency = 2
    MayCancel = TRUE
    MayLeave = TRUE
SPECIFICATION FairSpec
INVARIANTS
    NoSilentEnd
PROPERTIES
    BothEnd
    EachEndsByItsContext
