------------------------------ MODULE MCMailbox ------------------------------
(* Small instances of the mailbox for TLC.                                 *)
EXTENDS Mailbox, TLC

Sym == Permutations(Thread) \cup Permutations(Mail)
=============================================================================
