----------------------------- MODULE MCAdminApp -----------------------------
(* AdminApp for TLC: two planes, asked one after the other.                 *)
EXTENDS AdminApp

MCPlanes == <<"trusted", "iot">>
=============================================================================
