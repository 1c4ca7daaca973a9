SPECIFICATION Spec
CONSTANTS
    f1 = f1
    f2 = f2
    Files = {f1, f2}
    MaxBatches = 3
    MaxFaults = 2
    Provider = "kuzu"
    Transactional = FALSE
INVARIANTS
    TypeOK
    RecoveredBeforeWriting
    WritesLand
PROPERTIES
    RecoverySparesCommitted
CHECK_DEADLOCK FALSE
