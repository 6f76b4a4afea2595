SPECIFICATION TimelySpec
CONSTANTS
    Second = 2
    Policy <- MCPolicy
    Hazards = {}
    Modes = {"Nope"}
    StartTime = 2
    MaxTime = 14
    Pods = {a, b}
    Nodes = {node}
    NoNode = NoNode
    StartSignals <- MCStartSignals
    MaxChanges = 2
    MaxFaults = 0
    MaxFeed = 2
    Period = 2
INVARIANTS
    FlipsReported
