---------------------------- MODULE MCSimpleMode ----------------------------
(* Instances of SimpleMode for TLC.                                         *)
EXTENDS SimpleMode, TLC

CONSTANTS a1, a2, s1, s2, t1, t2, t3

OneSource == [t \in Tasks |-> s1]
Interchangeable == Permutations(Accounts) \cup Permutations(Tasks)
=============================================================================
