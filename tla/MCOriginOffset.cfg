SPECIFICATION FairSpec
CONSTANTS
    I1 = I1  I2 = I2  I3 = I3  E1 = E1  E2 = E2
    Imagery = {}
    Elevation = {E1, E2}
    Origins = {E1}
    Workers = {Visual, Other}
    Visual = Visual  Other = Other
    Jobs <- MCMosaicJobs
    Stripe <- MCStripe
    Size <- MCSize
    Limit <- MCLimit
    Fragile = {}
    Faults = {"cancel"}
PROPERTIES
    OriginAligned
