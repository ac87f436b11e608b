--------------------------- MODULE MCUartReceiver ---------------------------
(* A small serial line for TLC.                                            *)
EXTENDS UartReceiver
=============================================================================
