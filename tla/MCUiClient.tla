----------------------------- MODULE MCUiClient -----------------------------
(* One tab on small instances: slots are interchangeable. *)
EXTENDS UiClient, TLC

Symmetry == Permutations(Slots)
=============================================================================
