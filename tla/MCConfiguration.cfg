CONSTANTS
    d = d
    n = n
    dhcp = dhcp
    Value = {d, n, dhcp}
    Default = d
    Dhcp = dhcp
    Posts <- MCPosts
    SaveDelay = 2
    PressTime = 1
    Wrap = 16
    MaxTime = 4
    MaxPosts = 1
    MaxBoots = 1
SPECIFICATION FairSpec
INVARIANTS
    TypeOK
    NothingForgotten
    InterfaceIsCurrent
    ResetHolds
PROPERTIES
    DueIsSaved
