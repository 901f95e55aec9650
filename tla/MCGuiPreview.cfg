SPECIFICATION FairSpec
CONSTANTS
    Near = Near
    Outer = Outer
    Places = {Near, Outer}
    Resident = {Outer}
    Levels = {1, 2}
    Snapshots <- MCSnapshots
    MaxUpdates = 2
    MaxLosses = 3
    MaxInvalidations = 1
INVARIANTS
    AssembledWhole
    ViewConsistent
PROPERTIES
    DetailKept
    CatchesUp
