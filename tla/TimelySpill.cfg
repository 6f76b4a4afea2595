SPECIFICATION TimelySpec
CONSTANTS
    Second = 2
    Policy <- MCQuickOnPolicy
    Hazards = {"fail", "crash"}
    Modes = {"Patch"}
    StartTime = 2
    MaxTime = 11
    Pods = {a, b}
    Nodes = {node}
    NoNode = NoNode
    StartSignals <- MCStartSignals
    MaxChanges = 2
    MaxFaults = 1
    MaxFeed = 2
    Period = 2
INVARIANTS
    FlipsInTime
