------------------------------ MODULE MCMonitor ------------------------------
\* Monitor with small sets for TLC.
EXTENDS Monitor, TLC

Symmetry == Permutations(Workers) \cup Permutations(Statuses) \cup Permutations(Rechecks)
            \cup Permutations(Requests)
=============================================================================
