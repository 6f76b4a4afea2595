SPECIFICATION Spec
CONSTANTS
    Second = 2
    Policy <- MCPolicy
    Hazards = {"stale"}
    Modes = {"Patch"}
    StartTime = 2
    MaxTime = 10
    Pods = {pod}
    Nodes = {node}
    NoNode = NoNode
    StartSignals <- MCStartSignals
    MaxChanges = 2
    MaxFaults = 0
    MaxFeed = 2
INVARIANTS
    SwitchbackDrained
