---------------------------- MODULE MCPartnerPair ----------------------------
\* PartnerPair for TLC: one user greets and goes on writing.
EXTENDS PartnerPair, TLC

CONSTANTS u1, u2, m1, m2

MCUsers == {u1, u2}
MCMsgs == {m1, m2}
MCSender == [m \in MCMsgs |-> u1]
MCSymmetry == Permutations(MCMsgs)
=============================================================================
