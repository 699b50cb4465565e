CONSTANTS
    Streams = {1}
    Queries = {2}
    Closers = {k1}
    Servers = {"a", "b", "c", "d"}
    Zero = "0.0.0.0:0"
    Cut = "cut"
    List <- MCList
    From <- MCFromMiddle
    Invalid = {}
    MayCancel = {}
    MayLeave = {}
    BufferEntries = 2
    BufferRagged = TRUE
    PageSize = 2
    Faults = {"header", "trailing"}
    MaxBlanks = 0
    MaxDups = 1
    None = None
SPECIFICATION Spec
INVARIANTS
    TypeOK
    DeliversTheList
    CloseCutsNoExchange
    EndsForAReason
