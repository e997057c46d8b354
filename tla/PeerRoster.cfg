SPECIFICATION FairSpec
CONSTANTS
    Nodes = {n1, n2}
    MaxKeys = 2
    MaxChanges = 3
    Lossy = TRUE
INVARIANTS
    OneTunnelPerPeer
    NothingOlderThanTheFetch
PROPERTIES
    OnlyUnlistedAreDropped
    Converges
    StatusConverges
