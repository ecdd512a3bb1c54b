SPECIFICATION TokenSpec
CONSTANTS
    Requests = {r1, r2, r3}
    None = None
    TicksPerSecond = 2
    AccessTtl = 2
    RefreshTtl = 3
    MaxTime = 4
SYMMETRY Symmetry
INVARIANTS
    TokenInv
    PasswordChangeBites
PROPERTIES
    RotationIsAtomic
