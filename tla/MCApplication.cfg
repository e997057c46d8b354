SPECIFICATION MCSpec
CONSTANTS
    MaxSessions = 2
    MaxKeys = 2
    MaxFaults = 1
    MaxCommands = 2
    Flows = {f, g}
    MaxPlatformKeys = 2
    Clients = {c1, c2}
    Creds = {k1, k2}
    MaxChildren = 3
    Tokens = {t1, t2}
    MaxPids = 3
    MaxNodes = 2
    MaxGen = 3
    MaxCrashes = 1
INVARIANTS
    SignedOutStaysOut
    KeysAgree
    SomeoneAnswers
    NoCodeAfterKey
    StatusMeansRegistered
    OneWindowsAgent
    OneMacAgent
    LivingCredential
PROPERTIES
    VouchedStaysIn
CHECK_DEADLOCK FALSE
