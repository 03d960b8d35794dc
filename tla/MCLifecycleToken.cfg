SPECIFICATION Spec
CONSTANTS
    MaxFails = 2
    MaxFaults = 3
    MaxOps = 1
    Faults = {"hypervisor", "timeout"}
    Ops = {"revive"}
PROPERTIES
    ReviveOnce
