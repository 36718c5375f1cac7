-------------------------- MODULE MCSnapshotCache --------------------------
(* SnapshotCache for TLC: readers and operators are interchangeable.        *)
EXTENDS SnapshotCache, TLC

Threads == Permutations(Reader) \cup Permutations(Operator)
=============================================================================
