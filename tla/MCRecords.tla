------------------------------ MODULE MCRecords ------------------------------
(* The instance TLC checks: sheets of one or two lines, the two with one note, *)
(* and selections of the two rows there are at the start.                      *)
EXTENDS Records, TLC

MCSheets == {<<Bad>>} \cup {<<Bad, l>> : l \in Line}
            \cup {s \in Line \X Line : s[1].note = s[2].note}
MCSelections == {<<1, 2>>, <<2, 1>>}

Symmetry == Permutations(Requests) \cup Permutations(Keys) \cup Permutations(Notes)
=============================================================================
