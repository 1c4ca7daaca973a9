SPECIFICATION Spec
CONSTANTS
    w1 = w1
    w2 = w2
    client = client
    Workers <- TwoWorkers
    Connections <- TwoWorkers
    ConnectionOf <- Own
    NumRepos = 3
    MaxFaults = 3
INVARIANTS
    SuccessIsReal
    CommittedAsAUnit
