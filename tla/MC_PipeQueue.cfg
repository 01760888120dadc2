SPECIFICATION FairSpec
CONSTANTS
    c = c
    q = q
    None = None
    Pipes <- MCPipes
    Transfers = {x1, x2, x3}
    Control <- MCControl
    Reclamation <- MCReclamation
    Closable <- MCClosable
    Depth <- MCDepth
INVARIANTS
    ControllerSeesLiveTDs
    BusyWhileInProgress
    LastIsTail
    ReclamationExact
PROPERTIES
    ImplementsService
    EventuallyNotified
