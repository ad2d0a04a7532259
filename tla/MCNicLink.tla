------------------------------ MODULE MCNicLink ------------------------------
EXTENDS NicLink, TLC
CONSTANTS a, b, c, d
AnyReader == Permutations(Reader)
\* Four requests, one more than it takes to go through a window of two services
\* and meet the lag it leaves.
AllPrograms == {"fin", "rdma2", "rdma3", "fixed"}
=============================================================================
