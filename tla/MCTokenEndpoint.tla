--------------------------- MODULE MCTokenEndpoint --------------------------
EXTENDS TokenEndpoint, TLC

Symmetry == Permutations(Req) \cup Permutations(Token)
=============================================================================
