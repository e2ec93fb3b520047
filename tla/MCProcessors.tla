---------------------------- MODULE MCProcessors ----------------------------
\* The instance of Processors for TLC.
EXTENDS Processors, TLC

CpuSymmetry == Permutations(Cpus)
=============================================================================
