SPECIFICATION FairSpec
CONSTANTS
    Nodes = {a, b}
    Publics = {{}, {a}}
    MaxAddress = 2
    MaxFlight = 1
    MaxFaults = 1
INVARIANTS
    DirectIsProven
PROPERTIES
    PairUpgrades
    RoamingIsFollowed
