------------------------------- MODULE MCTimer -------------------------------
(* Thread timers and one driver timer, for TLC.                            *)
EXTENDS Timer
=============================================================================
