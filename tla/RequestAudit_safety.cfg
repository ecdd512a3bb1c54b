SPECIFICATION Spec
CONSTANTS
    Requests = {r1, r2}
    Addresses = {a1, a2}
    None = None
    MaxChanges = 2
    MaxRecipients = 1
SYMMETRY Symmetry
INVARIANTS
    IInv
    CommittedIsAudited
    MisattributionNeedsOverlap
PROPERTIES
    AuditedOnce
    EveryRequestEnds
\* A behaviour ends when every request has been served.
CHECK_DEADLOCK FALSE
