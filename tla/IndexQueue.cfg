\* Four jobs and one onIdle caller: two jobs can wait behind a running one
\* after one has ended, so that an overtaking or a lost tail shows.
SPECIFICATION FairSpec
CONSTANTS
    MaxJobs = 4
    Waiters = {w1}
INVARIANTS
    TypeOK
    SerialExecution
    IdleMeansDrained
PROPERTIES
    EverythingEnds
    ImplementsSerialQueue
CHECK_DEADLOCK FALSE
