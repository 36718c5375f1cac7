----------------------------- MODULE MCSettings -----------------------------
(* Settings for TLC: which threads, passwords, values and certificates are  *)
(* which does not matter.                                                   *)
EXTENDS Settings, TLC

Identities == Permutations(Request) \cup Permutations(Password)
              \cup Permutations(Value) \cup Permutations(Cert)
=============================================================================
