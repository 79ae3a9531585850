\* Two devices, one guardian, two nodes of which one is enough; a first backup and
\* one more split of any kind; two mishaps, one change by another client.
CONSTANTS
    d1 = d1
    d2 = d2
    g1 = g1
    n1 = n1
    n2 = n2
    NoDevice = NoDevice
    Device = {d1, d2}
    Guardian = {g1}
    Node = {n1, n2}
    NodeThreshold = 1
    MaxRuns = 2
    MaxMishaps = 2
    MaxOthers = 1
    Overtaking = FALSE
SPECIFICATION FairSpec
\* Nothing need happen once no more runs may be started.
CHECK_DEADLOCK FALSE
INVARIANTS TypeOK  NoPieceLost   
PROPERTIES  Made
