SPECIFICATION FairSpec
CONSTANTS
    MaxTokens = 3
    MaxCrls = 2
    MaxFaults = 2
    Enrolments = 2
INVARIANTS
    QuietFileIsWhole
    
    FileNeverAhead
    
PROPERTIES
    CrlArrives
