--------------------------- MODULE MCDatingMatch ---------------------------
\* DatingMatch for TLC: two threads, and keys that fall on locks of their own.
EXTENDS DatingMatch, TLC

CONSTANTS u1, u2

MCUsers == {u1, u2}
MCShard == (u1 :> 1) @@ (u2 :> 2) @@ (PairKey :> 3)
MCSymmetry == Permutations(MCUsers) \cup Permutations(Threads) \cup Permutations(Slots)
=============================================================================
