---------------------------- MODULE MCSetupPage ----------------------------
(* SetupPage for TLC.                                                       *)
EXTENDS SetupPage
=============================================================================
