\* Edits that overlap, one other device.
CONSTANTS
    a = a
    b = b
    p1 = p1
    p2 = p2
    x = x
    NoProc = NoProc
    Edit = {a, b}
    Pass = {}
    Foreign = {x}
    MAX_CONFLICT_RECONCILE_ATTEMPTS = 1
    MaxStops = 0
    Environment = {"answersLost"}
SPECIFICATION Spec
INVARIANT RetriesStartOver
PROPERTY NothingUndone
SYMMETRY Symmetric
\* Calls end, and nobody need make another edit.
CHECK_DEADLOCK FALSE
