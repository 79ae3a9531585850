\* One edit, a recovery pass, a stop: it arrives.
CONSTANTS
    a = a
    b = b
    p1 = p1
    p2 = p2
    x = x
    NoProc = NoProc
    Edit = {a}
    Pass = {p1}
    Foreign = {x}
    MAX_CONFLICT_RECONCILE_ATTEMPTS = 1
    MaxStops = 1
    Environment = {"offline", "answersLost"}
SPECIFICATION FairSpec
PROPERTY EditsArrive
\* Calls end, and nobody need make another edit.
CHECK_DEADLOCK FALSE
