\* Two streams of two shapes, one account; one logout or one change of the server, and
\* any number of failing requests. Nothing need happen once every stream has stopped.
CONSTANTS
    s1 = s1
    s2 = s2
    a = a
    b = b
    alice = alice
    NoUser = NoUser
    NoGen = NoGen
    Stream = {s1, s2}
    Shape = {a, b}
    User = {alice}
    ShapeOf <- MCShapeOf
    Starting <- MCStarting
    MaxEvents = 1
    MayFail = TRUE
SPECIFICATION FairSpec
CHECK_DEADLOCK FALSE
INVARIANTS TypeOK SingleFlight NoForeignToken NoParkedForgotten
PROPERTIES CardNotRepeated Approved
