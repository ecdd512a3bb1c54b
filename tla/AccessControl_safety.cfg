SPECIFICATION Spec
CONSTANTS
    Requests = {r1, r2}
    Users = {u1}
    Roles = {g1, g2}
    Names = {n1, n2}
    Perms = {p1}
    None = None
SYMMETRY Symmetry
INVARIANTS
    
    PermissionsAreTheLastSelection
    AnswersAreExplained
\* A behaviour ends when every request has been served.
CHECK_DEADLOCK FALSE
