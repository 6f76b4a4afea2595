SPECIFICATION FairSpec
CONSTANTS
    BuiltIn <- MCBuiltIn
    Environment <- MCEnvironment
    NaN = NaN
    Documents <- MCDocuments
    FirstDoc <- WebOnly
    MaxEdits = 2
    MaxRestarts = 1
INVARIANTS
    InstalledUsable
    OwedOnItsWay
PROPERTIES
    StoreConverges
    UnionReconciled
