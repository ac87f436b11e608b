---------------------------- MODULE MessageQueue ----------------------------
(***************************************************************************)
(* The message queue of the RT-Thread kernel (src/rt-thread/src/ipc.c),    *)
(* through which the UART interrupt handlers of the mirror notify their    *)
(* threads: max_msgs slots of a pool, each linked by its next pointer in   *)
(* the free list or in the message list, or held by the one call that      *)
(* copies its message with interrupts enabled.                             *)
(***************************************************************************)
EXTENDS IpcObject

CONSTANTS max_msgs,  \* slots in the pool
          Oversize   \* the messages longer than msg_size

ASSUME SlotAssumption == max_msgs \in Nat \ {0}
ASSUME OversizeAssumption == Oversize \subseteq Mail

VARIABLES next,            \* next[s]: next pointer of slot s
          data,            \* data[s]: the message stored in slot s
          msg_queue_head, msg_queue_tail, msg_queue_free, entry,
          msg              \* msg[t]: the slot t has taken off a list

pool == <<next, data, msg_queue_head, msg_queue_tail, msg_queue_free, entry, msg>>
vars == <<ipcvars, pool>>

Null  == 0
Slots == 1 .. max_msgs

PC == IpcPC \cup {"urgent", "send_copy", "urgent_copy", "recv_copy"}

-----------------------------------------------------------------------------
(* rt_mq_send_wait; rt_mq_send is the call with timeout 0.                 *)

SendCall(t, v, to) == Call(t, "send", v, to) /\ UNCHANGED pool

SendTooLong(t) == /\ pc[t] \in {"send", "urgent"}
                  /\ value[t] \in Oversize
                  /\ Return(t, Failed("ERROR"))
                  /\ UNCHANGED pool

\* the first free slot leaves the free list; interrupts are enabled again
TakeFree(t, p) ==
    /\ msg_queue_free # Null
    /\ msg' = [msg EXCEPT ![t] = msg_queue_free]
    /\ msg_queue_free' = next[msg_queue_free]
    /\ Goto(t, p)
    /\ UNCHANGED <<next, data, msg_queue_head, msg_queue_tail, entry,
                   attached, lists, timeout, error, value, result>>

SendRefuse(t, to)  == /\ msg_queue_free = Null
                      /\ to = 0
                      /\ Return(t, Failed("EFULL"))
                      /\ UNCHANGED pool
SendSuspend(t, to) == msg_queue_free = Null /\ SuspendSender(t, to) /\ UNCHANGED pool

SendTry(t, to) == TakeFree(t, "send_copy") \/ SendRefuse(t, to) \/ SendSuspend(t, to)

SendFirst(t) == pc[t] = "send" /\ value[t] \notin Oversize /\ SendTry(t, timeout[t])
SendAgain(t) == /\ pc[t] = "send_resumed"
                /\ error[t] = "EOK"
                /\ \E to \in Remaining(t) : SendTry(t, to)

\* mutant: the copy goes to the tail of the list instead of the new slot
CopyToTail(s, v) == [data EXCEPT ![IF msg_queue_tail # Null THEN msg_queue_tail ELSE s] = v]

\* rt_memcpy(msg + 1, buffer, size)
CopyIn(s, v) == [data EXCEPT ![s] = v]

\* msg->next = NULL; the old tail, if there is one, points to the new one
TailLink(s) == [x \in Slots |-> IF x = s THEN Null
                                ELSE IF x = msg_queue_tail THEN s ELSE next[x]]

\* mutant: rt_mq_send links at the head, as rt_mq_urgent does
SendLinkAtHead(t) ==
    /\ pc[t] = "send_copy"
    /\ LET s == msg[t] IN
       /\ data' = CopyIn(s, value[t])
       /\ next' = [next EXCEPT ![s] = msg_queue_head]
       /\ msg_queue_head' = s
       /\ msg_queue_tail' = IF msg_queue_tail = Null THEN s ELSE msg_queue_tail
    /\ entry' = entry + 1
    /\ msg' = [msg EXCEPT ![t] = Null]
    /\ ReturnToReceiver(t, Ok(value[t]))
    /\ UNCHANGED msg_queue_free

\* copy the message, link the slot at the tail, resume a receiver
SendLink(t) ==
    /\ pc[t] = "send_copy"
    /\ LET s == msg[t] IN
       /\ data' = CopyIn(s, value[t])
       /\ next' = TailLink(s)
       /\ msg_queue_tail' = s
       /\ msg_queue_head' = IF msg_queue_head = Null THEN s ELSE msg_queue_head
    /\ entry' = entry + 1
    /\ msg' = [msg EXCEPT ![t] = Null]
    /\ ReturnToReceiver(t, Ok(value[t]))
    /\ UNCHANGED msg_queue_free

-----------------------------------------------------------------------------
(* rt_mq_urgent never waits and links at the head.                         *)

UrgentCall(t, v) == Call(t, "urgent", v, 0) /\ UNCHANGED pool

UrgentTake(t) == /\ pc[t] = "urgent"
                 /\ value[t] \notin Oversize
                 /\ TakeFree(t, "urgent_copy") \/ SendRefuse(t, 0)

UrgentLink(t) ==
    /\ pc[t] = "urgent_copy"
    /\ LET s == msg[t] IN
       /\ data' = CopyIn(s, value[t])
       /\ next' = [next EXCEPT ![s] = msg_queue_head]
       /\ msg_queue_head' = s
       /\ msg_queue_tail' = IF msg_queue_tail = Null THEN s ELSE msg_queue_tail
    /\ entry' = entry + 1
    /\ msg' = [msg EXCEPT ![t] = Null]
    /\ ReturnToReceiver(t, Ok(value[t]))
    /\ UNCHANGED msg_queue_free

-----------------------------------------------------------------------------
(* rt_mq_recv.                                                             *)

RecvCall(t, to) == Call(t, "recv", NoMail, to) /\ UNCHANGED pool

\* mutant: the tail still points to the slot that was received
TailAfterTakeStale(s) == msg_queue_tail

TailAfterTake(s) == IF msg_queue_tail = s THEN Null ELSE msg_queue_tail

\* mutant: the slot is on the free list while the message is copied out of it
FreeWhileCopying(s) == s

FreeAfterTake(s) == msg_queue_free

RecvTake(t) ==
    /\ entry # 0
    /\ msg' = [msg EXCEPT ![t] = msg_queue_head]
    /\ msg_queue_head' = next[msg_queue_head]
    /\ msg_queue_tail' = TailAfterTake(msg_queue_head)
    /\ msg_queue_free' = FreeAfterTake(msg_queue_head)
    /\ entry' = entry - 1
    /\ Goto(t, "recv_copy")
    /\ UNCHANGED <<next, data, attached, lists, timeout, error, value, result>>

RecvRefuse(t, to)  == entry = 0 /\ to = 0 /\ Return(t, Failed("ETIMEOUT")) /\ UNCHANGED pool
RecvSuspend(t, to) == entry = 0 /\ SuspendReceiver(t, to) /\ UNCHANGED pool

RecvTry(t, to) == RecvTake(t) \/ RecvRefuse(t, to) \/ RecvSuspend(t, to)

RecvFirst(t) == pc[t] = "recv" /\ RecvTry(t, timeout[t])
RecvAgain(t) == /\ pc[t] = "recv_resumed"
                /\ error[t] = "EOK"
                /\ \E to \in Remaining(t) : RecvTry(t, to)

\* copy the message out, put the slot on the free list, resume a sender
RecvFree(t) ==
    /\ pc[t] = "recv_copy"
    /\ next' = [next EXCEPT ![msg[t]] = msg_queue_free]
    /\ msg_queue_free' = msg[t]
    /\ msg' = [msg EXCEPT ![t] = Null]
    /\ ReturnToSender(t, Ok(data[msg[t]]))
    /\ UNCHANGED <<data, msg_queue_head, msg_queue_tail, entry>>

-----------------------------------------------------------------------------
\* q goes along the next pointers from p to the end of the list, or over as
\* many slots as there are
Follows(q, p) ==
    /\ p = IF q = <<>> THEN Null ELSE q[1]
    /\ \A i \in 1 .. Len(q) - 1 : next[q[i]] = q[i + 1]
    /\ Len(q) \in {0, max_msgs} \/ next[q[Len(q)]] = Null

\* the slots of the list that begins at p, in order
Linked(p) == CHOOSE q \in UNION {[1 .. n -> Slots] : n \in 0 .. max_msgs} : Follows(q, p)

\* rt_mq_control(RT_IPC_CMD_RESET): queued slots go to the free list one by one
ControlReset(t) ==
    LET q == Linked(msg_queue_head) IN
    /\ ResumeAll(t)
    /\ next' = [s \in Slots |-> IF \E i \in 1 .. Len(q) : q[i] = s
                                THEN LET i == CHOOSE j \in 1 .. Len(q) : q[j] = s
                                     IN IF i = 1 THEN msg_queue_free ELSE q[i - 1]
                                ELSE next[s]]
    /\ msg_queue_free' = IF q = <<>> THEN msg_queue_free ELSE q[Len(q)]
    /\ msg_queue_head' = Null
    /\ msg_queue_tail' = IF q = <<>> THEN msg_queue_tail ELSE Null
    /\ entry' = 0
    /\ UNCHANGED <<data, msg>>

\* mutant: the free list is linked the other way, past the end of the pool
FreeNextUp(s) == s + 1

FreeNext(s) == s - 1

\* rt_mq_init: slot max_msgs is the first of the free list, slot 1 the last
Init == /\ IpcInit
        /\ next = [s \in Slots |-> FreeNext(s)]
        /\ data = [s \in Slots |-> NoMail]
        /\ msg_queue_head = Null
        /\ msg_queue_tail = Null
        /\ msg_queue_free = max_msgs
        /\ entry = 0
        /\ msg = [t \in Thread |-> Null]

Continue(t) == \/ SendTooLong(t) \/ SendFirst(t) \/ SendAgain(t) \/ SendLink(t)
               \/ UrgentTake(t) \/ UrgentLink(t)
               \/ RecvFirst(t) \/ RecvAgain(t) \/ RecvFree(t)
               \/ ControlReset(t)
               \/ IpcContinue(t) /\ UNCHANGED pool

Start(t) == \/ \E to \in Timeout : \/ \E v \in Mail : SendCall(t, v, to)
                                   \/ RecvCall(t, to)
            \/ \E v \in Mail : UrgentCall(t, v)
            \/ (DetachCall(t) \/ ControlCall(t) \/ AssertType(t)) /\ UNCHANGED pool

TimerStep(t) == Expire(t) /\ UNCHANGED pool

Step == \E t \in Thread : Start(t) \/ Continue(t) \/ TimerStep(t)

Next == ~ Frozen /\ Step

Spec == Init /\ [][Next]_vars

-----------------------------------------------------------------------------
(* Properties.                                                             *)

\* The variables have the types of struct rt_messagequeue and of the locals.
TypeOK == /\ IpcTypeOK
          /\ pc \in [Thread -> PC]
          /\ next \in [Slots -> 0 .. max_msgs]
          /\ data \in [Slots -> Mail \cup {NoMail}]
          /\ {msg_queue_head, msg_queue_tail, msg_queue_free} \subseteq 0 .. max_msgs
          /\ entry \in 0 .. max_msgs
          /\ msg \in [Thread -> 0 .. max_msgs]

Copying == {t \in Thread : pc[t] \in {"send_copy", "urgent_copy", "recv_copy"}}

\* Every slot of the pool is in exactly one place: on the free list, on the
\* message list, or in the hands of one call that copies its message with
\* interrupts enabled.  No slot is leaked, linked twice or copied by two.
SlotsPartitioned ==
    LET fr == Linked(msg_queue_free)
        q  == Linked(msg_queue_head)
    IN  \A s \in Slots : /\ Cardinality({i \in DOMAIN fr : fr[i] = s})
                           + Cardinality({i \in DOMAIN q : q[i] = s})
                           + Cardinality({t \in Copying : msg[t] = s}) = 1

\* The entry count rt_mq_recv decides by is the length of the message list,
\* and the tail pointer is the end of that list, however sends, urgent sends,
\* receives and resets interleave.
ListIsConsistent ==
    LET q == Linked(msg_queue_head)
    IN  /\ entry = Len(q)
        /\ msg_queue_tail = IF q = <<>> THEN Null ELSE q[Len(q)]

\* The queue is in order: its threads are on its waiting lists exactly while they
\* sleep, every slot is in one place, and the count and the tail agree with the
\* message list, also while messages are copied with interrupts enabled.
QueueInv == TypeOK /\ SuspendedExactlyOnce /\ SlotsPartitioned /\ ListIsConsistent

\* No lost wakeup: while a receiver sleeps every queued message is spoken for
\* by a receiver already made ready, and while a sender sleeps every free slot
\* is spoken for by a sender already made ready.
NoLostWakeup ==
    /\ suspend_thread # <<>> => entry <= Cardinality(Woken("recv_resumed"))
    /\ suspend_sender_thread # <<>> =>
          Len(Linked(msg_queue_free)) <= Cardinality(Woken("send_resumed"))

\* the messages queued, the threads copying one in, and the ones being copied out
Messages == LET q == Linked(msg_queue_head) IN [i \in 1 .. Len(q) |-> data[q[i]]]
Filling  == {t \in Thread : pc[t] \in {"send_copy", "urgent_copy"}}
Holds    == [t \in Thread |-> IF pc[t] = "recv_copy" THEN data[msg[t]] ELSE NoMail]

\* the operation of a call that is at p
Operation(p) ==
    IF p \in {"send", "send_suspended", "send_resumed", "send_copy"} THEN "send"
    ELSE IF p \in {"urgent", "urgent_copy"} THEN "urgent"
    ELSE IF p \in {"recv", "recv_suspended", "recv_resumed", "recv_copy"} THEN "recv"
    ELSE IF p = "control" THEN "reset"
    ELSE IF p = "assert_type" THEN "assert"
    ELSE IF p = "idle" THEN "none" ELSE "detach"

\* a call that is at p, with the message it was given
CallAt(p, v) == [op   |-> Operation(p),
                 mail |-> IF Operation(p) \in {"send", "urgent"} THEN v ELSE NoMail]
Doing == [t \in Thread |-> CallAt(pc[t], value[t])]

\* The linked slots with their copies in flight are a bounded channel: the
\* message rt_mq_send was given goes behind the queued ones and the one
\* rt_mq_urgent was given before them, whatever other calls do between the
\* taking of a slot, the copy and the linking, and each is received once.
M == INSTANCE MsgChannel WITH Places <- max_msgs,
                              queue <- Messages, filling <- Filling, held <- Holds,
                              call <- Doing
IsMsgChannel == M!MSpec
=============================================================================
