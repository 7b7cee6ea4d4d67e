---------------------------- MODULE MCAuthorize -----------------------------
EXTENDS Authorize, TLC

Symmetry == Permutations(Req) \cup Permutations(Session) \cup Permutations(URI)
=============================================================================
