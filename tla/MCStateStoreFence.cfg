SPECIFICATION Spec
CONSTANTS
    vm1 = vm1
    vm2 = vm2
    b1 = b1
    b2 = b2
    NoBody = NoBody
    Ids <- MCIds
    Bodies <- MCBodies
    Labels = {"purpose"}
    MaxGen = 3
    DiskFaults = {}
SYMMETRY MCSymmetry
INVARIANT
    FenceSound
