----------------------------- MODULE MCChatTurn -----------------------------
(* Instances of ChatTurn for TLC. *)
EXTENDS ChatTurn, TLC

Symmetry == Permutations(Messages) \cup Permutations(Workers)
=============================================================================
