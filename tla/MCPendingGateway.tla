-------------------------- MODULE MCPendingGateway --------------------------
\* PendingGateway for TLC: the requester may have more messages in hand than
\* the limit allows, the receiver has one, and two attempts run at a time.
EXTENDS PendingGateway, TLC

CONSTANTS u1, u2, m1, m2, m3, r1

MCUsers == {u1, u2}
MCMsgs == {m1, m2, m3, r1}
MCSender == [m \in MCMsgs |-> IF m = r1 THEN u2 ELSE u1]
MCSmallMsgs == {m1, r1}
MCSmallSender == [m \in MCSmallMsgs |-> IF m = r1 THEN u2 ELSE u1]
MCTwoMsgs == {m1, m2}
MCTwoSender == [m \in MCTwoMsgs |-> u1]
MCTwoSymmetry == Permutations({m1, m2}) \cup Permutations(Attempts)
MCSymmetry == Permutations({m1, m2, m3}) \cup Permutations(Attempts)
=============================================================================
