SPECIFICATION Spec
CONSTANTS
    GoodLabels <- MCGoodLabels
    Lower <- MCLower
    ConfigFiles <- MCConfigFiles
    Hosts <- MCHosts
    Down = Down
    Exited = Exited
    Error = Error
    NoName = NoName
    Life = 3
    RenewBefore = 2
    FailWithin = 1
    Budgets <- MCBudgets
    CliNames <- MCCliNames
INVARIANTS
    ConfigSound
    CertSound
PROPERTIES
    SwapCoversSnapshot
    NamesEventuallyCovered
CHECK_DEADLOCK FALSE
