SPECIFICATION FairSpec
CONSTANTS
    Outcomes = {o1, o2, o3}
    MaxQueued = 2
    MaxRotations = 1
    MaxFailures = 1
    MaxRestarts = 1
    None = None
INVARIANTS
    HeldExactlyOnce
    BoundedMemory
    AckedIsRecorded
    OnlyFailedAreOvertaken
PROPERTIES
    EverySettled
    KeepsPromise
