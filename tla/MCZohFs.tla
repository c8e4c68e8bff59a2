------------------------------ MODULE MCZohFs -------------------------------
EXTENDS ZohFs, TLC

NameSymmetry == Permutations(Names)
=============================================================================
