------------------------------ MODULE MCDaemon ------------------------------
EXTENDS Daemon, TLC

MCSymmetry == Permutations(Pids) \cup Permutations(Clients)
=============================================================================
