SPECIFICATION FairGatewaySpec
CONSTANTS
    smallUps = smallUps
    largeUps = largeUps
    keyfob = keyfob
    NoModel = NoModel
    Endpoints <- MCEndpoints
    Mps <- MCMps
    Model <- MCModel
    Addr = {1, 2}
    MaxMsg = 2
    MaxPlug = 3
    Ups <- MCModel
    NumData = 2
    Fields <- MCFields
    ReportId = {0, 1, 2}
    MaxDev = 3
INVARIANTS
    TypeOK
    HandleDiscipline
    HandleMatchesLibrary
    OneTransfer
    GoneIsTheOpenDevice
    EndpointIsCurrent
    ConnectedIsHeld
PROPERTIES
    NoAbortWhileAttached
    AttachedIsKept
    CallbackProtocol
    StoreProtocol
    EnumeratedIsOpened
    PollingContinues
    GoneIsClosedOrRetried
    GoneIsDisconnected
