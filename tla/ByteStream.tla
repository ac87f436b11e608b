----------------------------- MODULE ByteStream -----------------------------
(***************************************************************************)
(* What the receive buffer of a serial device promises: the bytes come out *)
(* in the order they arrived, each once; when more arrive than fit, the    *)
(* oldest ones not yet read are discarded and nothing else is.             *)
(***************************************************************************)
EXTENDS Naturals, Sequences

CONSTANTS Byte, NoByte,
          Capacity    \* bytes that can wait

VARIABLES queue,      \* the bytes waiting, oldest first
          got         \* the byte read last

bvars == <<queue, got>>

BInit == queue = <<>> /\ got = NoByte

Put(c) == /\ queue' = IF Len(queue) < Capacity THEN Append(queue, c)
                                               ELSE Append(Tail(queue), c)
          /\ UNCHANGED got

Take == /\ queue # <<>>
        /\ got' = Head(queue)
        /\ queue' = Tail(queue)

BSpec == BInit /\ [][Take \/ \E c \in Byte : Put(c)]_bvars
=============================================================================
