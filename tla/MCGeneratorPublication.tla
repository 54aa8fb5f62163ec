----------------------- MODULE MCGeneratorPublication -----------------------
(***************************************************************************)
(* Small instances of GeneratorPublication.                                *)
(***************************************************************************)
EXTENDS GeneratorPublication, TLC

Symmetry == Permutations(Publishers) \cup Permutations(Recipes) \cup Permutations(Outputs)

=============================================================================
