SPECIFICATION Spec
CONSTANTS
    Half = 4
    Wrap = 4
    MaxGap = 4
    Builders = {t1, t2}
    MaxCycles = 2
INVARIANTS
    FrameNumberExact
    SingleRebuild
    SignalsOnlyLivePipes
    RestartedOrMissed
