SPECIFICATION Spec
CONSTANTS
    Packet = 2
    SetupLength = 8
    Sizes <- MCSizes
    MaxOutstanding = 2
INVARIANTS
    ToggleInStep
    BulkReportsMoved
    ReportedAfterStatusStage
