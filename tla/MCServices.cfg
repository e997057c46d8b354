SPECIFICATION MCSpec
CONSTANTS
    MaxRows = 5
    Page = 2
    MaxPages = 2
    Names = {"a"}
    MaxSerial = 2
    MaxPolls = 2
    MaxRestarts = 1
    Queries = {q1, q2, q3}
    Unreadable = {q3}
    Window = 1
    MaxUp = 2
    MaxDown = 2
    SockBuf = 1
INVARIANTS
    DemandIsHeard
    CompleteMeansAll
    OneDemo
    KeyMatchesCert
    NothingLost
PROPERTIES
    CallsEnd
    RenewalIsServed
    EveryExitAnswers
CHECK_DEADLOCK FALSE
