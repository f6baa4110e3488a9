SPECIFICATION FairSpec
CONSTANTS
    None = None
    Conns = {c1, c2}
    Keys = {k1}
    BufCap = 1
    PipeCap = 0
    StdoutCap = 1
    MaxLines = 2
    MaxCommands = 1
    MaxExits = 1
PROPERTIES SamplesGetThrough Relaunched DrainsEnd 
CHECK_DEADLOCK FALSE
