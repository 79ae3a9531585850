\* Two dependent writes, two workers: any write to the storage may fail.
CONSTANTS
    t1 = t1
    t2 = t2
    e1 = e1
    e2 = e2
    dialog = dialog
    NoTab = NoTab
    Tab = {t1}
    Entry = {e1, e2}
    Shape = {dialog}
    ShapeOf <- MCShapeOf
    Prerequisites <- MCPrerequisites
    DRAIN_CONCURRENCY = 2
    Environment = {"discoveryFails", "probe", "storageFails"}
    MaxCloses = 0
SPECIFICATION Spec
INVARIANTS PrerequisitesFirst NeverCorrupts
PROPERTY DeliversAsPromised
\* The system may stop: users need not do anything, and every write ends.
CHECK_DEADLOCK FALSE
