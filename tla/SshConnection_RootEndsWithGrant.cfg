SPECIFICATION Spec
CONSTANTS
    Channels = {c1}
    Streams = {out}
    Grants = {}
    None = None
    Capacity = 1
    MaxOut = 1
    MaxKin = 1
    MaxIn = 0
INVARIANTS
    RootEndsWithGrant
CHECK_DEADLOCK FALSE
