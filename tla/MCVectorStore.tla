---------------------------- MODULE MCVectorStore ----------------------------
EXTENDS VectorStore, TLC

Symmetry == Permutations(Proc) \cup Permutations(Id)
=============================================================================
