SPECIFICATION Spec
CONSTANTS
    NoKey = "none"
    Policies = {"web", "batch"}
    Known = {"web"}
    Pods = {"pod1", "pod2"}
    PolicyOf <- MCPolicyOf
    Threshold = 1
    InformerResync = 2
    MayStop = TRUE
    MaxTime = 2
    MaxChanges = 0
    MaxFailures = 0
    MaxBackoff = 1
INVARIANTS
    StopDrains
