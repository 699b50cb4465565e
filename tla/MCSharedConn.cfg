CONSTANTS
    q1 = q1
    q2 = q2
    NoQuery = NoQuery
    Queries <- Pair
    Target <- OneTarget
    Timeout <- PairTimeout
    CtxDeadline <- PairContext
    Stranger = "x"
    MaxExtra = 1
    MaxNoise = 1
SPECIFICATION Spec
INVARIANTS
    InItsTime
    OwnReplyUnlessGivenUp
    LatestDeadline
