SPECIFICATION ListSpec
CONSTANTS
    Junk = Junk
    Missing = Missing
    Readers = {r1}
    Writers = {w1, w2}
    Groups = {0, 1}
    Queries <- MCQueries
    Lists <- MCLists
    Groups0 <- MCGroups0
    MaxId = 4
    PerPage = 1
    Threshold = 2
    MaxPages = 4
SYMMETRY MCSymmetry
INVARIANTS
    CursorPagesHold
    PageWalksAreExplained
PROPERTIES
    SortStands
CHECK_DEADLOCK FALSE
