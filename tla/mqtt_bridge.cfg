SPECIFICATION FairSpec
CONSTANTS
    Zones = {z1, z2}
    MaxVersion = 2
    MaxCommands = 2
    MaxFaults = 2
INVARIANTS TypeOK
PROPERTIES RetainedMovesForward SettlesWithBroker
CHECK_DEADLOCK FALSE
