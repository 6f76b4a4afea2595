SPECIFICATION Spec
CONSTANTS
    BuiltIn <- MCBuiltIn
    Environment <- MCEnvironment
    NaN = NaN
    Documents <- MCDocuments
    FirstDoc <- WebOnly
    MaxEdits = 1
    MaxRestarts = 0
PROPERTIES
    BuildUsesInstalled
