\* One write, two tabs: what two tabs write back at once.
CONSTANTS
    t1 = t1
    t2 = t2
    e1 = e1
    e2 = e2
    dialog = dialog
    NoTab = NoTab
    Tab = {t1, t2}
    Entry = {e1}
    Shape = {dialog}
    ShapeOf <- MCShapeOf
    Prerequisites <- MCPrerequisites
    DRAIN_CONCURRENCY = 2
    Environment = {"answersLost", "requeue", "discard", "online", "keysUnavailable"}
    MaxCloses = 0
SPECIFICATION Spec
INVARIANTS VerdictsAreReal NeverCorrupts
SYMMETRY SymmetricTabs
\* The system may stop: users need not do anything, and every write ends.
CHECK_DEADLOCK FALSE
