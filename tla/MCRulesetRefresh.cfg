SPECIFICATION Spec
CONSTANTS
    MaxTime = 4
    MaxDoc = 3
    Summer = 1
INVARIANTS
    IInv
PROPERTIES
    NotModifiedMeans
    DatedMeans
