------------------------------ MODULE MCDaemon ------------------------------
EXTENDS Daemon, TLC

\* Streams are interchangeable: sound for the runs without liveness.
Symmetry == Permutations(Requests)
=============================================================================
