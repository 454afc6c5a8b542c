---------------------------- MODULE MCArtifactCache ----------------------------
EXTENDS ArtifactCache, FiniteSets, TLC

NonemptySelections == SUBSET Blob \ {{}}

Symmetry == Permutations(Process) \cup Permutations(Blob)
=============================================================================
