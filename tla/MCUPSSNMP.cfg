SPECIFICATION FairSpec
CONSTANTS
    full = full
    partial = partial
    Ups <- MCUps
    NumData = 3
    Fields <- MCFields
    ReportId = {0, 1, 2}
    MaxDev = 2
    Published <- MCPublished
    TrapSet = TRUE
INVARIANTS
    TypeOK
    ReportsUseOwnLayout
    LayoutIsOfDevice
    ConnectedMeansData
    NoDuplicateOid
    TrapsNeverExceedLosses
    StatusIsOfDevice
PROPERTIES
    OidsWithdrawn
