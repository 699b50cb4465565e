CONSTANTS
    MaxPlain = 3
    Inflate <- MCInflate
    Checksum <- MCChecksum
    Responses <- MCResponses
    Stray <- MCStray
    Room = 5
    MaxDups = 1
SPECIFICATION Spec
INVARIANTS
    TypeOK
    NoPanic
    Faithful
    OrderFree
    CompressedIntact
