---------------------------- MODULE MCConnections ----------------------------
(* A node for two peers, bootstrapping or not: a node that is listed by    *)
(* the user and also calls, and a node with another behind the same IP.    *)
EXTENDS Connections, TLC

CONSTANTS t1, t2

MCTasks == {t1, t2}
MCIp == [cli |-> "i", caller |-> "i", other |-> "j"]
MCListen == [cli |-> "cli", caller |-> "cli", other |-> "none"]
MCReports == [cli |-> {"x", "y"}, caller |-> {"x"}, other |-> {"z", "own"}]
MCGossip == {[address |-> "cli", instance_id |-> "x"]}
MCSeverities == {-1, 1}
MCSymmetry == Permutations(MCTasks)
==============================================================================
