----------------------------- MODULE MCTcpClient -----------------------------
EXTENDS TcpClient, TLC

Symmetry == Permutations(Threads)
=============================================================================
