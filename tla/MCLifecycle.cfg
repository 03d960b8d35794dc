SPECIFICATION FairSpec
CONSTANTS
    MaxFails = 2
    MaxFaults = 2
    MaxOps = 2
    Faults <- AllFaults
    Ops <- AllOps
INVARIANTS
    TypeOK
    
    DormantHasSnapshot
    NeverNeedsOperator
    RunningHasBudget
    CallersAnswered
PROPERTIES
    OrphanReaped
    StrandedResolved
