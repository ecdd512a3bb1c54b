---------------------------- MODULE MCChangelist ----------------------------
EXTENDS Changelist, TLC

\* Filters that parse, that do not, and a half of each; a search; an ordering of
\* the client's, and one that names no column; a cursor that pages back.
MCQueries ==
    {NoQuery,
     [NoQuery EXCEPT !.filter = [exact |-> 1]],
     [NoQuery EXCEPT !.filter = [gte |-> 1, lte |-> Junk], !.ordering = "id"],
     [NoQuery EXCEPT !.ordering = "unknown", !.q = 1],
     [NoQuery EXCEPT !.before = 3]}
MCGroups0 == <<1, 1, 0>>
\* An item is there twice: only the last counts.
MCLists == {<<2, 1, 2>>}
MCSymmetry == Permutations(Writers)
=============================================================================
