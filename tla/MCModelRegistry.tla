-------------------------- MODULE MCModelRegistry --------------------------
(* Small instances of ModelRegistry for TLC. *)
EXTENDS ModelRegistry, TLC

symmetry_Txs == Permutations(Txs)

=============================================================================
