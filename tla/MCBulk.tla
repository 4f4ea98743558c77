------------------------------- MODULE MCBulk -------------------------------
\* BulkVerify with small sets for TLC.
EXTENDS BulkVerify, TLC

Symmetry == Permutations(Jobs) \cup Permutations(Workers)
=============================================================================
