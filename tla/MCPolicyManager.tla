-------------------------- MODULE MCPolicyManager --------------------------
EXTENDS PolicyManager, TLC

\* Updates are interchangeable, and so are users: sound for the safety runs.
Symmetry == Permutations(Procs) \cup Permutations(Users)
=============================================================================
