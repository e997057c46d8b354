SPECIFICATION Spec
CONSTANTS
    Channels = {c1, c2}
    Streams = {out}
    Grants = {g1, g2}
    None = None
    Capacity = 1
    MaxOut = 1
    MaxKin = 0
    MaxIn = 0
SYMMETRY Symmetry
INVARIANTS
    ReportsAreTrue
CHECK_DEADLOCK FALSE
