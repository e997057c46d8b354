SPECIFICATION Spec
CONSTANTS
    MaxSessions = 2
    MaxKeys = 2
    MaxCommands = 2
    MaxFaults = 1
PROPERTY
    ReauthRespectsSignOut
CHECK_DEADLOCK FALSE
