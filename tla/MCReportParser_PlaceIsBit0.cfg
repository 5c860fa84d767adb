CONSTANTS
    Usages <- MCUsages
    ItemsAt <- MCItemsAt
    Reports <- MCReports
    Garbage = {0, 7}
    NaN = NaN
SPECIFICATION Spec
INVARIANTS
    PlaceIsBit0
