------------------------------ MODULE MCRxQueue ------------------------------
(* The notification queue of the esp32 thread for TLC.                     *)
EXTENDS RxQueue
=============================================================================
