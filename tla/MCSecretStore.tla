--------------------------- MODULE MCSecretStore ----------------------------
(* SecretStore on a small instance: values are interchangeable. *)
EXTENDS SecretStore, TLC

Symmetry == Permutations(Values)
=============================================================================
