SPECIFICATION Spec
CONSTANTS
    None = None
    Conns = {c1, c2}
    Keys = {k1, k2}
    BufCap = 0
    PipeCap = 1
    StdoutCap = 1
    MaxLines = 4
    MaxCommands = 0
    MaxExits = 0
SYMMETRY SameConns
INVARIANTS TypeOK ClientsCurrent
PROPERTIES NeverGoesBack
CHECK_DEADLOCK FALSE
