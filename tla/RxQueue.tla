------------------------------ MODULE RxQueue ------------------------------
(***************************************************************************)
(* The queue rx_mq as esp32_thread_entry makes it (openmv_thread_entry     *)
(* makes openmv_mq the same way): rt_mq_init gets as its pool the address  *)
(* of the local variable msg, one struct rx_msg of two words, and          *)
(* sizeof(struct rx_msg) * 20 as its size.  The first slot of the pool     *)
(* therefore is the variable that rt_mq_recv copies every message to: its  *)
(* next pointer is msg.dev, its first data word is msg.size.               *)
(*                                                                         *)
(* One interrupt handler sends without waiting, one thread receives.  The  *)
(* slots behind the first lie in the rest of the thread's stack frame and  *)
(* are taken to be unused by anybody else.                                 *)
(***************************************************************************)
EXTENDS MessageQueue

CONSTANTS isr, reader   \* uart_input in interrupt context, esp32_thread_entry

First  == 1              \* the slot at the start of the pool
Device == max_msgs + 1   \* a pointer to the serial device, no slot

\* rt_mq_recv copies dev and size to msg, that is to the next pointer and
\* the first data word of slot First (a message queued there is garbled: its
\* device is now a size), and then frees the received slot
RxFree ==
    /\ pc[reader] = "recv_copy"
    /\ LET s == msg[reader] IN
       /\ next' = [next EXCEPT ![First] = Device, ![s] = msg_queue_free]
       /\ data' = [data EXCEPT ![First] = NoMail]
       /\ msg_queue_free' = s
       /\ msg' = [msg EXCEPT ![reader] = Null]
       /\ ReturnToSender(reader, Ok(data[s]))
    /\ UNCHANGED <<msg_queue_head, msg_queue_tail, entry>>

\* the handler runs to its end before the thread goes on
InIsr == pc[isr] # "idle"

RxIsr == \/ \E v \in Mail : SendCall(isr, v, 0)
         \/ SendFirst(isr)
         \/ SendLink(isr)

RxReader == /\ ~ InIsr
            /\ \/ RecvCall(reader, MaxTimeout)
               \/ RecvFirst(reader) \/ RecvAgain(reader)
               \/ RxFree
               \/ RecvFailed(reader) /\ UNCHANGED pool
               \/ TimerStep(reader)

\* no step is taken once the queue points outside its pool: what it would
\* overwrite is the device structure
Inside == {msg_queue_head, msg_queue_tail, msg_queue_free} \subseteq {Null} \cup Slots

RxNext == Inside /\ (RxIsr \/ RxReader)
RxSpec == Init /\ [][RxNext]_vars

\* The queue's head, tail and free pointers stay in the buffer that
\* rt_mq_init was given to save messages.
StaysInPool == Inside
=============================================================================
