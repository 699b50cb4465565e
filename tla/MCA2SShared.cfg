CONSTANTS
    MaxPlain = 0
    Room = 2
    Inflate <- NoInflate
    Checksum <- NoChecksum
    Queries = {1, 2}
    Kind <- MixedKind
    Closers = {k1}
    Connected = FALSE
    MayCancel = {}
    Former <- Before
    Noise <- Leftovers
    Forms <- InTwo
    Faults = {}
    MaxChallenges = 0
    MaxDups = 0
    None = None
SPECIFICATION FairSpec
INVARIANTS
    AnswerFromTarget
PROPERTIES
    EveryCallReturns
    RetryCarriesToken
