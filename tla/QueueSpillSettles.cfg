SPECIFICATION FairSpec
CONSTANTS
    Second = 2
    Policy <- MCQuickPolicy
    Hazards = {"stale", "fail", "crash", "late", "edit", "delete"}
    Modes = {"Patch", "Nope"}
    StartTime = 2
    MaxTime = 4
    Pods = {pod}
    Nodes = {node}
    NoNode = NoNode
    StartSignals <- MCStartSignals
    MaxChanges = 1
    MaxFaults = 1
    MaxFeed = 2
INVARIANTS
    TypeOK
    HashVouchesForLedger
PROPERTIES
    NoRedundantWrite
    Quiesces
    Converges
