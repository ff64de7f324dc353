---------------------------- MODULE MCBalanceSync ----------------------------
\* Instances of BalanceSync for TLC: without liveness, nodes and addresses are
\* interchangeable.
EXTENDS BalanceSync, TLC

NodesAndAddresses == Permutations(Node) \cup Permutations(Addr)
=============================================================================
