SPECIFICATION Spec
CONSTANTS
    c = c
    q = q
    None = None
    Pipes <- OnePipe
    Transfers = {x1, x2}
    Control <- OnePipe
    Reclamation <- OnePipe
    Closable <- OnePipe
    Depth <- Deep
INVARIANT
    CloseFindsPipeIdle
