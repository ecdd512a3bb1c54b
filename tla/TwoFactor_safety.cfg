SPECIFICATION Spec
CONSTANTS
    Requests = {r1, r2, r3, r4}
    None = None
    CodesPerBatch = 2
SYMMETRY Symmetry
INVARIANTS
    IInv
    
\* A behaviour ends when every request has been served.
CHECK_DEADLOCK FALSE
