SPECIFICATION FairSpec
CONSTANTS
    Pages = {p, q}
    Target = 2
    MaxGenerations = 2
    MaxOutages = 1
    MaxRejects = 1
INVARIANTS
    NothingLost
PROPERTIES
    DetailKept
    DetailArrives
