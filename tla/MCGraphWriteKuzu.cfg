SPECIFICATION Spec
CONSTANTS
    f1 = f1
    f2 = f2
    Files = {f1, f2}
    MaxBatches = 3
    MaxFaults = 2
    Provider = "kuzu"
    Transactional = TRUE
INVARIANTS
    NothingToRecover
PROPERTIES
    ImplementsAtomicIndex
CHECK_DEADLOCK FALSE
