SPECIFICATION Spec
CONSTANTS
    Channels = {c1, c2}
    Keys = {k1, k2}
    Digests = {d1, d2}
    NoDigest = NoDigest
    MaxInsts = 2
    MaxGrants = 2
    MaxClasses = 2
    MaxGen = 3
SYMMETRY Symmetry
CHECK_DEADLOCK FALSE
INVARIANTS
    TypeOK
    OwnerExclusive
    ExposedIsDurable
    GenerationNotReused
    WrittenOnce
    CurrentCoversAll
    LeaseIsOwners
PROPERTY
    JournalOnlyGrows
