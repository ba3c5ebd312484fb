------------------------------ MODULE MCWrites ------------------------------
EXTENDS Writes, TLC
RequestSymmetry == Permutations(Requests)
=============================================================================
