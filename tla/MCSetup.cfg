CONSTANTS
    V4 <- Hosts4
    V6 <- Hosts6
    Names <- HostNames
    Ports <- PortNumbers
    Calls <- AllCalls
    Resolutions <- NamesMean
    MaxChanges = 1
    MayFailDial = TRUE
SPECIFICATION Spec
INVARIANTS
    FailureLeavesNoSocket
    ProbeClientsAreMade
    BatchAsGiven
