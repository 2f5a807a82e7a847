-------------------------- MODULE MCRedisChatQueue --------------------------
(* Instances of RedisChatQueue for TLC. *)
EXTENDS RedisChatQueue, TLC

Symmetry == Permutations(Messages) \cup Permutations(Workers)
=============================================================================
