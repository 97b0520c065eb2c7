----------------------------- MODULE MCSmbSafe -----------------------------
EXTENDS SmbSafe, TLC

\* The threads are interchangeable: sound for the safety run only.
Symmetry == Permutations(Threads)
=============================================================================
