SPECIFICATION RingsSpec
CONSTANTS
    NT = 2
    NR = 3
    Watermark = 2
    MaxPackets = 4
    MaxFrames = 3
    MaxBad = 2
    MaxResets = 1
    MaxStops = 1
CHECK_DEADLOCK FALSE
INVARIANTS SentInOrder IndicatedInOrder NotDeaf
PROPERTY EverySendAnswered
