SPECIFICATION Spec
CONSTANTS
    Policies = {"web"}
    Registry <- MCRegistry
    Namespaces = {"ns1"}
    PodNames = {"pod1"}
    GroupNames = {"g1"}
    NodeNames = {"n1"}
    Queues = {"q1"}
    NodeGroups = {"ded1", "ded2", "over"}
    Supplies = {"s1"}
    Ledgers = {"l1", "l2"}
    None = None
    AtStart <- MCAtStart
    MaxChanges = 2
INVARIANTS
    TypeOK
    OverflowKnown
    StuckKnown
    LedgerKnown
PROPERTIES
    SilentMovesOnePod
