CONSTANTS
    Streams = {1}
    Queries = {3, 4}
    Closers = {k1}
    Servers = {"a", "b", "c", "d"}
    Zero = "0.0.0.0:0"
    Cut = "cut"
    List <- MCList
    From <- MCFrom
    Invalid = {4}
    MayCancel = {1}
    MayLeave = {1}
    BufferEntries = 2
    BufferRagged = FALSE
    PageSize = 3
    Faults = {"cut"}
    MaxBlanks = 1
    MaxDups = 0
    None = None
SPECIFICATION FairSpec
PROPERTIES
    StreamsTheList
    EveryCallEnds
