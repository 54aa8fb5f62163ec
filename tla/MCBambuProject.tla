--------------------------- MODULE MCBambuProject ---------------------------
(***************************************************************************)
(* Small instances of BambuProject.                                        *)
(***************************************************************************)
EXTENDS BambuProject, TLC

Symmetry == Permutations(Requests) \cup Permutations(Recipes) \cup Permutations(Bytes)

=============================================================================
