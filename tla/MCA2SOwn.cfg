CONSTANTS
    MaxPlain = 0
    Room = 2
    Inflate <- NoInflate
    Checksum <- NoChecksum
    Queries = {q1, q2}
    Kind <- SameKind
    Closers = {k1}
    Connected = TRUE
    MayCancel = {q1, q2}
    Former <- NobodyBefore
    Noise <- Stranger
    Forms <- AllForms
    Faults = {"emptyChallenge", "garbage"}
    MaxChallenges = 1
    MaxDups = 1
    None = None
SYMMETRY Interchangeable
SPECIFICATION Spec
INVARIANTS
    TypeOK
    AnswerOfOneResponse
    OwnAnswer
    CloseCutsNoExchange
PROPERTIES
    ServesOneAtATime
