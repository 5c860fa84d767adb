SPECIFICATION FairSpec
CONSTANTS
    warm = warm
    Degrees = {warm}
    Disconnected = Disconnected
    Off = Off
    FailureMax = 2
    PageDelay = 1
    ButtonDelay = 2
    Frames = 2
    Hues = 2
INVARIANTS
    TypeOK
    ProbeRecovers
PROPERTIES
    PressHolds
    RemovalIsShown
