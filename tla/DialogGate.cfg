\* A message, a forged presentation of it and an answer; two loops.
CONSTANTS
    k1 = k1
    k2 = k2
    k3 = k3
    al = al
    bo = bo
    l1 = l1
    l2 = l2
    NoRow = NoRow
    Me = bo
    Row = {1, 2, 3}
    Rev = {k1, k2}
    Author = {al, bo}
    KeyOf <- MCKeyOf
    AuthorOf <- MCAuthorOf
    Refs <- MCRefs
    Genuine = {1, 3}
    Breakable = {1}
    maxPending = 1
    maxAwaitingCard = 1
    Caller = {l1, l2}
SPECIFICATION FairSpec
INVARIANTS TypeOK CausalOrder NobodyWaitsInVain OnlyDoomedEnds ShownIsGenuine
PROPERTY AllShown
\* The dialog is idle once every row is verified.
CHECK_DEADLOCK FALSE
