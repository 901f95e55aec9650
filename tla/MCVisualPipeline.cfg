SPECIFICATION FairSpec
CONSTANTS
    Places <- MCPlaces
    Nowhere = Nowhere
    Far <- MCFar
    NearPages = 2
    OuterPages = 1
    Progressive = TRUE
    MaxRequests <- MCRequests
    MaxMoves = 1
    MaxFailures = 1
    MaxGpuFailures = 1
INVARIANTS
    NothingForgotten
    AcknowledgedIsVisible
    ReplacementsWhole
PROPERTIES
    PictureNeverRegresses
    Settles
