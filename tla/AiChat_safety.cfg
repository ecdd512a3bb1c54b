SPECIFICATION Spec
CONSTANTS
    Turns = {t1, t2}
    RetryLimit = 1
    Nobody = Nobody
SYMMETRY Symmetry
INVARIANTS
    SessionsHold
    DeletionNeedsQuiet
    TurnsAreWhole
\* A behaviour ends when every turn has ended.
CHECK_DEADLOCK FALSE
