SPECIFICATION Spec
CONSTANTS
    Values <- MCValues
    Percent = 19
    Scale = 20
    MaxCount = 9
INVARIANTS
    TypeOK
    MarkersInOrder
    HeightsAscend
    ExtremesAreExact
CHECK_DEADLOCK FALSE
