SPECIFICATION FairSpec
CONSTANTS
    NoKey = "none"
    Policies = {"web", "batch"}
    Known = {"web"}
    Pods = {"pod1", "pod2"}
    PolicyOf <- MCPolicyOf
    Threshold = 1
    InformerResync = 2
    MayStop = TRUE
    MaxTime = 5
    MaxChanges = 2
    MaxFailures = 1
    MaxBackoff = 1
INVARIANTS
    TypeOK
    StalePodRevisited
    DeadlineBacked
    WorkerDrains
PROPERTIES
    EnqueueServed
