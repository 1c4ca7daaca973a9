SPECIFICATION Spec
CONSTANTS
    w1 = w1
    w2 = w2
    client = client
    Workers <- TwoWorkers
    Connections <- OneConnection
    ConnectionOf <- Shared
    NumRepos = 2
    MaxFaults = 2
INVARIANTS
    SucceededReposKept
