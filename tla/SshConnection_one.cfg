SPECIFICATION FairSpec
CONSTANTS
    Channels = {c1}
    Streams = {out, err}
    Grants = {}
    None = None
    Capacity = 1
    MaxOut = 2
    MaxKin = 1
    MaxIn = 2
INVARIANTS
    ExitAfterOutput
PROPERTIES
    RunsEnd
    ElevatedEnds
CHECK_DEADLOCK FALSE
