---------------------------- MODULE MCRecovery ----------------------------
(* The instance of Recovery that TLC checks. *)
EXTENDS Recovery, TLC

\* Job, archive and content identities are interchangeable.
Identities == Permutations(Job) \cup Permutations(Archive) \cup Permutations(Content)
              \cup Permutations(Data)
=============================================================================
