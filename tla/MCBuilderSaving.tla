---------------------------- MODULE MCBuilderSaving ----------------------------
EXTENDS BuilderSaving, TLC

Symmetry == Permutations(Editors) \cup Permutations(Posts)
=============================================================================
