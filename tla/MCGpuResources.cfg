SPECIFICATION FairSpec
CONSTANTS
    Near = n
    Outer = o
    Pages <- MCPages
    Resident <- MCResident
    Levels <- MCLevels
    OffscreenFrames = 1
    Snapshots <- MCSnapshots
    MaxLate = 1
    MaxAtOnce = 2
    MaxRefusals = 1
CHECK_DEADLOCK FALSE
INVARIANTS
    CountsMatchHolders
    LoadedWhileHeld
    ShownOnce
PROPERTIES
    Recovers
    TeardownReleases
