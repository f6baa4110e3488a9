SPECIFICATION HomeFairSpec
CONSTANTS
    k1 = k1
    k2 = k2
    Keys = {k1, k2}
    SysOf <- OneSystem
    Platforms = {"binary_sensor"}
    Valid <- SomeValid
    MaxBackoff = 3
    MaxWire = 2
    MaxVersion = 2
    MaxStatus = 3
    MaxBreaks = 1
    MaxFailures = 4
INVARIANTS HomeTypeOK DelayFollowsFailures RefusesOnceNoticed NothingUndiscovered
PROPERTIES DataMovesForward AlertMovesForward AwayTurnsOnForNews ViewsSettle
CHECK_DEADLOCK FALSE
