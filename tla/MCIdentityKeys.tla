--------------------------- MODULE MCIdentityKeys ---------------------------
EXTENDS IdentityKeys, TLC

Symmetry == Permutations(Key) \cup Permutations(Typed) \cup Permutations(Request)
=============================================================================
