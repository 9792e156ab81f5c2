------------------------------ MODULE MCEngine ------------------------------
(* Instances of Engine for TLC.  Two properties need three calls: one being *)
(* matched, one queued behind it and one that has not been sent yet.        *)
EXTENDS Engine, TLC

Symmetry == Permutations(Calls) \cup Permutations(Waiters)
=============================================================================
