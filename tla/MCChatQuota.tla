----------------------------- MODULE MCChatQuota -----------------------------
EXTENDS ChatQuota, TLC

CONSTANTS k1, k2, c1, c2, w1, w2

\* Every key comes from a channel of its own.
OnePerChannel == (k1 :> c1) @@ (k2 :> c2)

\* Every key comes from one channel.
SameChannel == [k \in Keys |-> c1]

Symmetry == Permutations({w1, w2})
=============================================================================
