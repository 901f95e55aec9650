SPECIFICATION FairSpec
CONSTANTS
    Places <- MCPlaces
    Nowhere = Nowhere
    Far <- MCFar
    SafetyGround = TRUE
    BuildTicks = 1
    RetryTicks = 4
    OverlapTicks = 1
    SafetyTicks = 2
    MaxMoves = 2
    MaxFailures = 1
    MaxRefusals = 1
INVARIANTS
    TypeOK
    GenerationsOrdered
    NothingForgotten
    GroundAlways
    PatchesTracked
PROPERTIES
    MakeBeforeBreak
    RemovalsComplete
    Settles
