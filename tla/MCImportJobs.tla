---------------------------- MODULE MCImportJobs ----------------------------
(* Two rows that can match the same title and disagree about it: row 1 may  *)
(* be ambiguous, row 2 may find nothing.                                    *)
EXTENDS ImportJobs, TLC

CONSTANTS m1, v1, v2

MCMedia == {m1}
MCRowValue == (1 :> v1) @@ (2 :> v2)
MCMatches == (1 :> {m1, Ambiguous}) @@ (2 :> {m1, NoMatch})

Symmetry == Permutations(Workers) \cup Permutations(Requests)
=============================================================================
