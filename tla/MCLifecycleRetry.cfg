SPECIFICATION FairSpec
CONSTANTS
    MaxFails = 2
    MaxFaults = 1
    MaxOps = 0
    Faults = {"hypervisor"}
    Ops = {}
PROPERTIES
    RetriesEnd
