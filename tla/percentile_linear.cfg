SPECIFICATION Spec
CONSTANTS
    Values <- MCValues
    Percent = 19
    Scale = 20
    MaxCount = 9
PROPERTIES
    HeightsFollowPositions
CHECK_DEADLOCK FALSE
