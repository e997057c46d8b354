SPECIFICATION Spec
CONSTANTS
    MaxTokens = 3
    MaxCrls = 2
    MaxFaults = 0
    Enrolments = 1
PROPERTIES
    RenewalKeepsCrl
