SPECIFICATION Spec
CONSTANTS
    None = None
    Conns = {c1, c2}
    Keys = {k1}
    BufCap = 0
    PipeCap = 1
    StdoutCap = 1
    MaxLines = 2
    MaxCommands = 0
    MaxExits = 0
INVARIANTS AlwaysOn
CHECK_DEADLOCK FALSE
