--------------------------- MODULE MCTcpConnection ---------------------------
EXTENDS TcpConnection, TLC

Symmetry == Permutations(Threads) \cup Permutations(Messages)
=============================================================================
