------------------------------ MODULE MCOAuth ------------------------------
EXTENDS OAuth
RequestSymmetry == Permutations(Requests)
=============================================================================
