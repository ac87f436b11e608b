--------------------------- MODULE MCMessageQueue ---------------------------
(* Small instances of the message queue for TLC.                           *)
EXTENDS MessageQueue, TLC

Sym == Permutations(Thread) \cup Permutations(Mail \ Oversize)
=============================================================================
