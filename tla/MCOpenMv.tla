------------------------------ MODULE MCOpenMv ------------------------------
(* A small instance of the camera's threads for TLC.                       *)
EXTENDS OpenMv
=============================================================================
