---------------------------- MODULE UartReceiver ----------------------------
(***************************************************************************)
(* How a byte from the UART reaches its thread: the interrupt handler      *)
(* (drivers/drv_uart.c, rt_hw_serial_isr) empties the UART into the FIFO   *)
(* and calls rx_indicate with the number of bytes now waiting; uart_input  *)
(* puts that number in rx_mq, without waiting and without looking at the   *)
(* result; the thread takes a number, reads at most that many bytes, at    *)
(* most ReadMax, and parses them.  The same for openmv_uart_input and      *)
(* openmv_thread_entry with ReadMax = 63.                                  *)
(*                                                                         *)
(* rx_mq is the bounded channel of module MsgChannel, in which a slot is   *)
(* occupied while its message is copied out; module RxQueue looks at the   *)
(* memory it is made of.                                                   *)
(***************************************************************************)
EXTENDS SerialRx

CONSTANTS MaxMsgs,    \* slots of rx_mq
          ReadMax,    \* sizeof(uart_rx_buffer) - 1
          Burst       \* most bytes one interrupt finds (depth of the UART's own FIFO)

ASSUME MsgsAssumption  == MaxMsgs \in Nat \ {0}
ASSUME ReadAssumption  == ReadMax \in Nat
ASSUME BurstAssumption == Burst \in Nat /\ Burst <= ReadMax

VARIABLES opened,     \* the device is open, its interrupt enabled
          indicate,   \* rx_indicate is set to uart_input
          in_isr,     \* the handler runs; no thread does
          burst,      \* bytes it has taken so far
          rx_mq,      \* sizes notified and not yet taken
          thread,     \* where the receiving thread is
          left,       \* bytes it may still read for this notification
          got,        \* the last byte read
          lost        \* an interrupt has ended without its notification queued

rest == <<opened, indicate, in_isr, burst, rx_mq, thread, left, got, lost>>
vars == <<fifo, rest>>

-----------------------------------------------------------------------------
(* uart_irq_handler and rt_hw_serial_isr.                                  *)

\* the cause register may also announce what is no received byte
IsrEnter ==
    /\ opened
    /\ ~ in_isr
    /\ in_isr' = TRUE
    /\ burst' = 0
    /\ UNCHANGED <<fifo, opened, indicate, rx_mq, thread, left, got, lost>>

IsrPut(c) ==
    /\ in_isr
    /\ burst < Burst
    /\ burst' = burst + 1
    /\ PutChar(c)
    /\ UNCHANGED <<opened, indicate, in_isr, rx_mq, thread, left, got, lost>>

Occupied == Len(rx_mq) + IF thread = "copy" THEN 1 ELSE 0

\* rx_indicate(rx_length): rt_mq_send refuses when all slots are occupied
IsrNotify ==
    /\ in_isr
    /\ in_isr' = FALSE
    /\ burst' = 0
    /\ IF indicate /\ RxLength # 0 /\ Occupied < MaxMsgs
       THEN rx_mq' = Append(rx_mq, RxLength) /\ UNCHANGED lost
       ELSE lost' = (lost \/ RxLength # 0) /\ UNCHANGED rx_mq
    /\ UNCHANGED <<fifo, opened, indicate, thread, left, got>>

-----------------------------------------------------------------------------
(* The threads.                                                            *)

Step(from, to) == ~ in_isr /\ thread = from /\ thread' = to

\* the thread of the other serial line opens this device too, for writing,
\* and without a callback
OtherOpen ==
    /\ ~ in_isr
    /\ ~ opened
    /\ opened' = TRUE
    /\ UNCHANGED <<fifo, indicate, in_isr, burst, rx_mq, thread, left, got, lost>>

\* rt_device_set_rx_indicate, after rt_mq_init
SetIndicate ==
    /\ Step("start", "open")
    /\ indicate' = TRUE
    /\ UNCHANGED <<fifo, opened, in_isr, burst, rx_mq, left, got, lost>>

\* rt_device_open: an open device keeps its FIFO
Open ==
    /\ Step("open", "recv")
    /\ opened' = TRUE
    /\ UNCHANGED <<fifo, indicate, in_isr, burst, rx_mq, left, got, lost>>

\* rt_mq_recv takes a message; its slot is free only after the copy
Recv ==
    /\ Step("recv", "copy")
    /\ rx_mq # <<>>
    /\ left' = Head(rx_mq)
    /\ rx_mq' = Tail(rx_mq)
    /\ UNCHANGED <<fifo, opened, indicate, in_isr, burst, got, lost>>

\* mutant: one byte of every notification is not read
LimitShort(size) == IF size = 0 THEN 0 ELSE size - 1

\* rx_length = min(msg.size, sizeof(uart_rx_buffer) - 1)
Limit(size) == IF ReadMax > size THEN size ELSE ReadMax

Copied ==
    /\ Step("copy", "read")
    /\ left' = Limit(left)
    /\ UNCHANGED <<fifo, opened, indicate, in_isr, burst, rx_mq, got, lost>>

\* rt_device_read: byte by byte, each with interrupts disabled
ReadChar ==
    /\ Step("read", "read")
    /\ left > 0
    /\ GetChar
    /\ got' = Oldest
    /\ left' = left - 1
    /\ UNCHANGED <<opened, indicate, in_isr, burst, rx_mq, lost>>

ReadEnd ==
    /\ Step("read", "parse")
    /\ left = 0 \/ NoData
    /\ left' = 0
    /\ UNCHANGED <<fifo, opened, indicate, in_isr, burst, rx_mq, got, lost>>

\* mutant: the loop over the bytes does not end
AfterParseStays == "parse"

AfterParse == "recv"

\* the loop over the bytes read, which sleeps five ticks and more per byte
Parse ==
    /\ Step("parse", AfterParse)
    /\ UNCHANGED <<fifo, opened, indicate, in_isr, burst, rx_mq, left, got, lost>>

-----------------------------------------------------------------------------
Init == /\ FifoInit
        /\ opened = FALSE
        /\ indicate = FALSE
        /\ in_isr = FALSE
        /\ burst = 0
        /\ rx_mq = <<>>
        /\ thread = "start"
        /\ left = 0
        /\ got = NoByte
        /\ lost = FALSE

Isr     == IsrEnter \/ IsrNotify \/ \E c \in Byte : IsrPut(c)
Threads == SetIndicate \/ Open \/ Recv \/ Copied \/ ReadChar \/ ReadEnd \/ Parse

Next == Isr \/ Threads \/ OtherOpen

\* the handler ends and a ready thread is scheduled; no assumption on the UART
Fairness == WF_vars(IsrNotify) /\ WF_vars(Threads)

Spec == Init /\ [][Next]_vars /\ Fairness

-----------------------------------------------------------------------------
(* Properties.                                                             *)

\* The variables have their types; the indexes stay in the ring.
TypeOK == /\ FifoTypeOK
          /\ opened \in BOOLEAN /\ indicate \in BOOLEAN /\ in_isr \in BOOLEAN
          /\ burst \in 0 .. Burst
          /\ rx_mq \in Seq(1 .. bufsz - 1) /\ Len(rx_mq) <= MaxMsgs
          /\ thread \in {"start", "open", "recv", "copy", "read", "parse"}
          /\ left \in 0 .. bufsz - 1
          /\ got \in Byte \cup {NoByte}
          /\ lost \in BOOLEAN

\* The ring is in order whenever the handler interrupts the reading thread: its
\* indexes stay inside, and is_full tells a full ring from an empty one.
ReceiverInv == TypeOK /\ FullFlagIsExact

\* The FIFO, written by the handler between any two bytes the thread reads,
\* delivers the bytes in order and discards only the oldest.
B == INSTANCE ByteStream WITH Capacity <- bufsz - 1, queue <- Unread
IsByteStream == B!BSpec

\* When the thread has caught up, no byte is left behind in the FIFO, unless
\* a notification was lost (rx_mq full, or no callback yet): one notification
\* read in part, or for bytes read already, never leaves bytes uncovered.
StrandedOnlyAfterLoss ==
    (thread = "recv" /\ rx_mq = <<>> /\ ~ in_isr /\ ~ lost) => Stored = 0

\* When the handler does not run again, the waiting bytes are all read in the
\* end, unless a notification was lost.
BytesAreRead == (Stored > 0) ~> (Stored = 0 \/ lost \/ in_isr)
=============================================================================
