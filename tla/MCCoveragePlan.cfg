SPECIFICATION Spec
CONSTANTS
    FineZoom = 4
    InnerRects <- MCInnerRects
    OuterZooms = {0, 1}
    Margins = {0, 1}
    Limits = {25, 40, 64}
    NearCells = 5
    CoarseCells = 4
INVARIANTS
    PartitionKept
    SeamsMatch
PROPERTIES
    Ends
