----------------------------- MODULE MCUiLogin ------------------------------
(* UiLogin on a small instance: the settings move between both rules and none. *)
EXTENDS UiLogin, TLC

BothOrNone == {[absolute |-> 3, idle |-> 2], [absolute |-> 0, idle |-> 0]}

Symmetry == Permutations(Requests) \cup Permutations(Tokens)
=============================================================================
