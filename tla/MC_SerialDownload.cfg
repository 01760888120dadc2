SPECIFICATION FairSpec
CONSTANTS
    Blocks <- ThreeBlocks
    MaxRead = 3
    MaxInFlight = 4
    MaxFaults = 3
    LastAckLost = FALSE
    LateErrors = FALSE
CHECK_DEADLOCK FALSE
INVARIANTS AckedBlocksArrived
PROPERTIES ImplementsTransfer EventuallyLaunched
