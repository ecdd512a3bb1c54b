SPECIFICATION Spec
CONSTANTS
    Requests = {r1, r2}
    Keys = {k1, k2, k3}
    Notes = {n1, n2}
    Sheets <- MCSheets
    Selections <- MCSelections
    MaxId = 4
    Bad = Bad
    None = None
SYMMETRY Symmetry
INVARIANTS
    FilesFollowRows
    
PROPERTIES
    RevertsNeedStaleForms
\* A behaviour ends when every request has been served.
CHECK_DEADLOCK FALSE
