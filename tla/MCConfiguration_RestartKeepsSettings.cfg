CONSTANTS
    d = d
    n = n
    dhcp = dhcp
    Value = {d, n, dhcp}
    Default = d
    Dhcp = dhcp
    Posts <- MCOnePost
    SaveDelay = 2
    PressTime = 1
    Wrap = 16
    MaxTime = 5
    MaxPosts = 1
    MaxBoots = 0
SPECIFICATION Spec
INVARIANTS
    RestartKeepsSettings
