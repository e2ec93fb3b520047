------------------------------ MODULE MCUnits ------------------------------
\* The instance of Units for TLC, with the sizes of param.h and fs.h for files.
EXTENDS Units, TLC

CONSTANTS p1, p2, p3

\* p1 and p2 share a file, p3 has its own.
SharedFile == p1 :> 1 @@ p2 :> 1 @@ p3 :> 2

\* Every line of at most four tokens, and some longer ones.
SmallLines ==
  UNION {[1..n -> {"a", "|", ";", "&", "<", ">", "(", ")"}] : n \in 0..4} \cup
  { <<"a", "|", "b", "|", "a">>, <<"a", "|", "b", ";", "a", "|", "b">>,
    <<"(", "a", ";", "b", ")", "|", "a">>, <<"a", "|", "(", "a", ";", "b", ")", ";", "b">>,
    <<"a", "<", "b", "|", "a", ">", "b">>, <<"(", "a", "|", "b", ")", ">", "a">>,
    <<"a", "&", ";", "a", "|", "b">>, <<"(", "a", "&", ")", "|", "b", ";", "a">> }

\* Processes with the same end of the pipe are alike.
EndSymmetry == Permutations(Readers) \cup Permutations(Writers)
=============================================================================
