------------------------------- MODULE Mutex -------------------------------
\* What a lock promises: one owner at a time, and only the owner gives it up.
CONSTANTS Procs, None

VARIABLE owner

Init == owner = None

Acquire(p) == owner = None /\ owner' = p
Release(p) == owner = p /\ owner' = None

Next == \E p \in Procs : Acquire(p) \/ Release(p)

Spec == Init /\ [][Next]_owner
=============================================================================
