------------------------------- MODULE MCDisk -------------------------------
EXTENDS Disk

\* Nothing tells two processes or two blocks apart.
Symmetry == Permutations(Clients) \cup Permutations(Blocks)
=============================================================================
