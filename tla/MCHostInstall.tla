---------------------------- MODULE MCHostInstall ----------------------------
(* Two launchers and two installations: enough for a launcher that outlives  *)
(* its session and for two POSTs that both pass the 409 check.               *)
EXTENDS HostInstall
=============================================================================
