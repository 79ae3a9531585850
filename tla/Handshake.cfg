\* Two phones, three sessions; one signature may fail once, the next ends the session.
CONSTANTS
    alice = alice
    bob = bob
    Phone = {alice, bob}
    MaxStarts <- MCMaxStarts
    SIGN_ATTEMPTS = 2
    Trouble <- MCTrouble
    NoSession = NoSession
    NoCode = NoCode
SPECIFICATION FairSpec
INVARIANTS TypeOK ProvenInPerson Agreement CurrentUndisturbed
PROPERTY Meet
\* Two sessions that ended, and no start left.
CHECK_DEADLOCK FALSE
