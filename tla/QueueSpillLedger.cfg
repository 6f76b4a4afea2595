SPECIFICATION Spec
CONSTANTS
    Second = 2
    Policy <- MCPolicy
    Hazards = {"fail", "crash", "edit"}
    Modes = {"Patch"}
    StartTime = 2
    MaxTime = 9
    Pods = {pod}
    Nodes = {node}
    NoNode = NoNode
    StartSignals <- MCStartSignals
    MaxChanges = 2
    MaxFaults = 1
    MaxFeed = 2
INVARIANTS
    SwitchbackDrained
    MinimumDwell
    ConditionSustained
PROPERTIES
    LedgerSpec
