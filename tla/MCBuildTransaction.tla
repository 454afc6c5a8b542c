------------------------- MODULE MCBuildTransaction -------------------------
EXTENDS BuildTransaction, TLC

NonemptySelections == SUBSET Blob \ {{}}

Symmetry == Permutations(Process) \cup Permutations(SnapName)
              \cup Permutations(Blob)
=============================================================================
