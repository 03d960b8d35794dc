SPECIFICATION Spec
CONSTANTS
    MaxFails = 2
    MaxFaults = 0
    MaxOps = 2
    Faults = {}
    Ops = {"done", "wake"}
INVARIANTS
    RestoringIsRestored
