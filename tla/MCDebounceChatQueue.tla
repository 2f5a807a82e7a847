------------------------ MODULE MCDebounceChatQueue ------------------------
(* Instances of DebounceChatQueue for TLC. *)
EXTENDS DebounceChatQueue, TLC

Symmetry == Permutations(Users)
=============================================================================
