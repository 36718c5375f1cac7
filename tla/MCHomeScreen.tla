---------------------------- MODULE MCHomeScreen ----------------------------
(* HomeScreen for TLC.                                                      *)
EXTENDS HomeScreen
=============================================================================
