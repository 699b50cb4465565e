CONSTANTS
    Readers <- TwoReaders
    Size <- Sizes
    Datagrams <- ThreeDatagrams
    MaxReads = 3
SPECIFICATION PoolSpec
INVARIANTS
    OneBorrower
    ResultsIntact
