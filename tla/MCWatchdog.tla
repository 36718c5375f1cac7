----------------------------- MODULE MCWatchdog -----------------------------
(* Watchdog for TLC: two channels, as in the script.                        *)
EXTENDS Watchdog
=============================================================================
