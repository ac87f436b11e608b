------------------------------ MODULE SerialRx ------------------------------
(***************************************************************************)
(* The receive FIFO of an RT-Thread serial device in interrupt mode        *)
(* (struct rt_serial_rx_fifo, components/drivers/serial/serial.c): a ring  *)
(* with a put index, a get index and the flag is_full.                     *)
(***************************************************************************)
EXTENDS Naturals, Sequences

CONSTANTS Byte, NoByte,
          bufsz       \* serial->config.bufsz (4096 in the configuration)

ASSUME ByteAssumption == NoByte \notin Byte
ASSUME BufszAssumption == bufsz \in Nat /\ bufsz >= 2

VARIABLES buffer, put_index, get_index, is_full

fifo == <<buffer, put_index, get_index, is_full>>

\* mutant: the wrap test is off by one
AdvanceLate(index) == IF index + 1 > bufsz THEN 0 ELSE index + 1

\* index += 1; if (index >= bufsz) index = 0
Advance(index) == IF index + 1 >= bufsz THEN 0 ELSE index + 1

\* mutant: the flag is not cleared by a read
FlagAfterGetKept == is_full

FlagAfterGet == FALSE

\* a byte from the UART goes to the FIFO (rt_hw_serial_isr); when the put index
\* reaches the get index the oldest byte is discarded
PutChar(c) ==
    /\ buffer' = [buffer EXCEPT ![put_index] = c]
    /\ put_index' = Advance(put_index)
    /\ IF put_index' = get_index
       THEN get_index' = Advance(get_index) /\ is_full' = TRUE
       ELSE UNCHANGED <<get_index, is_full>>

NoData == get_index = put_index /\ ~ is_full

\* one round of _serial_int_rx
GetChar == /\ ~ NoData
           /\ get_index' = Advance(get_index)
           /\ is_full' = FlagAfterGet
           /\ UNCHANGED <<buffer, put_index>>

\* mutant: the byte is read after the index has moved on
OldestLate == buffer[Advance(get_index)]

\* ch = rx_fifo->buffer[rx_fifo->get_index]
Oldest == buffer[get_index]

\* rx_length, as the handler computes it for rx_indicate
RxLength == IF put_index >= get_index THEN put_index - get_index
                                      ELSE bufsz - (get_index - put_index)

\* the FIFO as rt_serial_open makes it
FifoInit == /\ buffer = [i \in 0 .. bufsz - 1 |-> NoByte]
            /\ put_index = 0
            /\ get_index = 0
            /\ is_full = FALSE

FifoTypeOK == /\ buffer \in [0 .. bufsz - 1 -> Byte \cup {NoByte}]
              /\ put_index \in 0 .. bufsz - 1
              /\ get_index \in 0 .. bufsz - 1
              /\ is_full \in BOOLEAN

\* the bytes not yet read, oldest first, found without the handler's formula
Wrap(i) == IF i >= bufsz THEN i - bufsz ELSE i
Stored == (put_index + bufsz - get_index) % bufsz
Unread == [i \in 1 .. Stored |-> buffer[Wrap(get_index + i - 1)]]

\* is_full is set only while the ring holds all it can hold, bufsz - 1 bytes:
\* otherwise _serial_int_rx would deliver bytes from an empty ring, once for
\* each time the writer has lapped the reader.
FullFlagIsExact == is_full => Stored = bufsz - 1
=============================================================================
