SPECIFICATION Spec
CONSTANTS
    Outcomes = {o1, o2, o3}
    MaxQueued = 2
    MaxRotations = 1
    MaxFailures = 2
    MaxRestarts = 0
    None = None
INVARIANT LedgerInOrder
