---------------------------- MODULE MCFileWrite ----------------------------
\* Instances of FileWrite with the sizes of param.h and fs.h.
EXTENDS FileWrite, TLC

CONSTANTS p1, p2, p3

\* Everybody has a file of his own.
OwnFiles == p1 :> 1 @@ p2 :> 2 @@ p3 :> 3
=============================================================================
