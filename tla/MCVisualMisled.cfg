SPECIFICATION Spec
CONSTANTS
    Places <- MCPlaces
    Nowhere = Nowhere
    Far <- MCFar
    NearPages = 2
    OuterPages = 0
    Progressive = TRUE
    MaxRequests <- TwoRequests
    MaxMoves = 0
    MaxFailures = 1
    MaxGpuFailures = 1
PROPERTIES
    RetriesLater
