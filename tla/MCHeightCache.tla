---------------------------- MODULE MCHeightCache ----------------------------
(***************************************************************************)
(* Instances of HeightCache for TLC.                                        *)
(***************************************************************************)
EXTENDS HeightCache

CONSTANTS short, tall

\* The app loads nothing, or one section of three rows.
FewTables == {<<>>} \cup {<<<<c, d, c>>>> : c, d \in {short, tall}}

\* Which content is which does not matter.
Symmetry == Permutations({short, tall})

==============================================================================
