CONSTANTS
    MaxPlain = 0
    Room = 2
    Inflate <- NoInflate
    Checksum <- NoChecksum
    Queries = {1}
    Kind <- SameKind
    Closers = {k1}
    Connected = TRUE
    MayCancel = {1}
    Former <- NobodyBefore
    Noise <- Stranger
    Forms <- InTwo
    Faults = {}
    MaxChallenges = 0
    MaxDups = 0
    None = None
SPECIFICATION Spec
INVARIANTS
    TimeoutReported
