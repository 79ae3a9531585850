\* One edit, two recovery passes, another device, calls that stop.
CONSTANTS
    a = a
    b = b
    p1 = p1
    p2 = p2
    x = x
    NoProc = NoProc
    Edit = {a}
    Pass = {p1, p2}
    Foreign = {x}
    MAX_CONFLICT_RECONCILE_ATTEMPTS = 1
    MaxStops = 1
    Environment = {"locked", "offline", "answersLost"}
SPECIFICATION Spec
INVARIANTS TypeOK QueuedOnce EditsKept
SYMMETRY Symmetric
\* Calls end, and nobody need make another edit.
CHECK_DEADLOCK FALSE
