SPECIFICATION Spec
CONSTANTS
    MaxFails = 2
    MaxFaults = 1
    MaxOps = 1
    Faults = {"beam"}
    Ops = {"stop"}
PROPERTIES
    TeardownStopsScope
