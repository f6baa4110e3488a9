SPECIFICATION FairSpec
CONSTANTS
    None = None
    Degrees = {68, 70}
    Modes = {0, 1, 2, 3, 4}
    TTL = 2
    SampleEvery = 2
    Regular = TRUE
    Clamps = TRUE
    LinkFails = TRUE
    MaxAsks = 2
    MaxEdits = 1
INVARIANTS TypeOK OverlayExpires NoFlicker
PROPERTIES AsksInShownMode SettlesOnDevice
