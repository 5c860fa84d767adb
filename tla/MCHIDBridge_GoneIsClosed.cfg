SPECIFICATION FairSpec
CONSTANTS
    smallUps = smallUps
    largeUps = largeUps
    keyfob = keyfob
    NoModel = NoModel
    Endpoints <- MCEndpoints
    Mps <- MCMps
    Model <- MCUps
    Addr = {1}
    MaxMsg = 5
    MaxPlug = 2
PROPERTY
    GoneIsClosed
