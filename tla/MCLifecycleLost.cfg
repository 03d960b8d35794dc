SPECIFICATION Spec
CONSTANTS
    MaxFails = 2
    MaxFaults = 1
    MaxOps = 2
    Faults = {"hypervisor"}
    Ops = {"done", "wake"}
INVARIANTS
    NeverLost
