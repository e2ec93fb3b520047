------------------------------- MODULE MCLog -------------------------------
\* Small instances of Log for TLC.
EXTENDS Log, TLC

ProcSymmetry == Permutations(Procs)
BlockSymmetry == Permutations(Blocks)
DiskSymmetry == Permutations(Procs) \cup Permutations(Blocks)
=============================================================================
