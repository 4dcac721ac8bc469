------------------------------ MODULE MCPlatform ------------------------------
EXTENDS Platform, TLC

Symmetry == Permutations(Accounts) \cup Permutations(Bots) \cup Permutations(Requests)
=============================================================================
