SPECIFICATION FairSpec
CONSTANTS
    Second = 2
    Policy <- MCPolicy
    Hazards = {"edit"}
    Modes = {"Patch"}
    StartTime = 2
    MaxTime = 4
    Pods = {pod}
    Nodes = {node}
    NoNode = NoNode
    StartSignals <- MCStartSignals
    MaxChanges = 0
    MaxFaults = 1
    MaxFeed = 2
PROPERTIES
    DriftCorrected
