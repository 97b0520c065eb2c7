-------------------------------- MODULE MCAD --------------------------------
EXTENDS ADClient, TLC

\* Calls, GPOs, sessions and types of rules are interchangeable: sound for safety.
Symmetry ==
  Permutations(Procs) \cup Permutations(Gpos) \cup Permutations(Paths) \cup Permutations(Types)
=============================================================================
