------------------------------- MODULE Mailbox -------------------------------
(***************************************************************************)
(* The mailbox of the RT-Thread kernel (src/rt-thread/src/ipc.c), used by  *)
(* the threads of the mirror to hand over JSON text and schedule tables: a *)
(* ring of machine words with an input and an output offset.               *)
(***************************************************************************)
EXTENDS IpcObject

CONSTANT Size      \* mb->size

ASSUME SizeAssumption == Size \in Nat \ {0}

VARIABLES msg_pool, in_offset, out_offset, entry

ring == <<msg_pool, in_offset, out_offset, entry>>
vars == <<ipcvars, ring>>

\* mutant: the wrap test is off by one
AdvanceLate(offset) == IF offset + 1 > Size THEN 0 ELSE offset + 1

\* ++offset; if (offset >= mb->size) offset = 0
Advance(offset) == IF offset + 1 >= Size THEN 0 ELSE offset + 1

Full  == entry = Size
Empty == entry = 0

-----------------------------------------------------------------------------
(* rt_mb_send_wait; rt_mb_send is the call with timeout 0.                 *)

SendCall(t, v, to) == Call(t, "send", v, to) /\ UNCHANGED ring

SendStore(t) ==
    /\ ~ Full
    /\ msg_pool' = [msg_pool EXCEPT ![in_offset] = value[t]]
    /\ in_offset' = Advance(in_offset)
    /\ entry' = entry + 1
    /\ ReturnToReceiver(t, Ok(value[t]))
    /\ UNCHANGED out_offset

SendRefuse(t, to)  == Full /\ to = 0 /\ Return(t, Failed("EFULL")) /\ UNCHANGED ring
SendSuspend(t, to) == Full /\ SuspendSender(t, to) /\ UNCHANGED ring

SendTry(t, to) == SendStore(t) \/ SendRefuse(t, to) \/ SendSuspend(t, to)

SendFirst(t) == pc[t] = "send" /\ SendTry(t, timeout[t])
SendAgain(t) == /\ pc[t] = "send_resumed"
                /\ error[t] = "EOK"
                /\ \E to \in Remaining(t) : SendTry(t, to)

-----------------------------------------------------------------------------
(* rt_mb_recv.                                                             *)

RecvCall(t, to) == Call(t, "recv", NoMail, to) /\ UNCHANGED ring

\* mutant: the mail is read after the output offset has moved on
FetchLate == msg_pool[Advance(out_offset)]

Fetch == msg_pool[out_offset]

RecvTake(t) ==
    /\ ~ Empty
    /\ out_offset' = Advance(out_offset)
    /\ entry' = entry - 1
    /\ ReturnToSender(t, Ok(Fetch))
    /\ UNCHANGED <<msg_pool, in_offset>>

RecvRefuse(t, to)  == Empty /\ to = 0 /\ Return(t, Failed("ETIMEOUT")) /\ UNCHANGED ring
RecvSuspend(t, to) == Empty /\ SuspendReceiver(t, to) /\ UNCHANGED ring

RecvTry(t, to) == RecvTake(t) \/ RecvRefuse(t, to) \/ RecvSuspend(t, to)

RecvFirst(t) == pc[t] = "recv" /\ RecvTry(t, timeout[t])
RecvAgain(t) == /\ pc[t] = "recv_resumed"
                /\ error[t] = "EOK"
                /\ \E to \in Remaining(t) : RecvTry(t, to)

-----------------------------------------------------------------------------
\* mutant: waiters are resumed, the count and the offsets stay
ControlResetKeeps(t) == ResumeAll(t) /\ in_offset' = 0 /\ out_offset' = 0 /\ UNCHANGED <<msg_pool, entry>>

\* rt_mb_control(RT_IPC_CMD_RESET)
ControlReset(t) ==
    /\ ResumeAll(t)
    /\ entry' = 0
    /\ in_offset' = 0
    /\ out_offset' = 0
    /\ UNCHANGED msg_pool

\* rt_mb_init
Init == /\ IpcInit
        /\ msg_pool = [i \in 0 .. Size - 1 |-> NoMail]
        /\ in_offset = 0
        /\ out_offset = 0
        /\ entry = 0

\* what a thread does inside a call it has made
Continue(t) == \/ SendFirst(t) \/ SendAgain(t)
               \/ RecvFirst(t) \/ RecvAgain(t)
               \/ ControlReset(t)
               \/ IpcContinue(t) /\ UNCHANGED ring

\* a new call, with every timeout up to MaxTimeout
Start(t) == \/ \E to \in Timeout : \/ \E v \in Mail : SendCall(t, v, to)
                                   \/ RecvCall(t, to)
            \/ (DetachCall(t) \/ ControlCall(t) \/ AssertType(t)) /\ UNCHANGED ring

TimerStep(t) == Expire(t) /\ UNCHANGED ring

Step == \E t \in Thread : Start(t) \/ Continue(t) \/ TimerStep(t)

Next == ~ Frozen /\ Step

\* the scheduler runs every ready thread in the end and the tick interrupt
\* fires; nobody is forced to make a call
Fairness == \A t \in Thread : /\ WF_vars(~ Frozen /\ Continue(t))
                              /\ WF_vars(~ Frozen /\ TimerStep(t))

Spec     == Init /\ [][Next]_vars
FairSpec == Spec /\ Fairness

-----------------------------------------------------------------------------
(* Properties.                                                             *)

\* The variables have the types of struct rt_mailbox and of the calls' locals.
TypeOK == /\ IpcTypeOK
          /\ pc \in [Thread -> IpcPC]
          /\ msg_pool \in [0 .. Size - 1 -> Mail \cup {NoMail}]
          /\ in_offset \in 0 .. Size - 1
          /\ out_offset \in 0 .. Size - 1
          /\ entry \in 0 .. Size

\* No lost wakeup: while a receiver sleeps on the list, every mail in the
\* pool is spoken for by a receiver a send has already made ready, and while
\* a sender sleeps every free place is spoken for by a ready sender.
NoLostWakeup ==
    /\ suspend_thread # <<>> => entry <= Cardinality(Woken("recv_resumed"))
    /\ suspend_sender_thread # <<>> => Size - entry <= Cardinality(Woken("send_resumed"))

\* A timeout racing with a wakeup: once a send, a receive, a reset or a detach
\* has made a sleeping thread ready, what that thread will find in
\* thread->error no longer changes before it has read it.
WakeupIsFinal == [][\A t \in Thread : /\ pc[t] \in {"recv_resumed", "send_resumed"}
                                      /\ pc'[t] = pc[t]
                                      => error'[t] = error[t]]_vars

\* The mails in the pool, oldest first.
Slot(i) == IF i >= Size THEN i - Size ELSE i
Contents == [i \in 1 .. entry |-> msg_pool[Slot(out_offset + i - 1)]]

\* The inductive invariant: the above, and the offsets agree with the count.
RingInv == in_offset = Slot(out_offset + entry)
IInv == TypeOK /\ SuspendedExactlyOnce /\ NoLostWakeup /\ RingInv /\ CallInv

\* The ring buffer with its two offsets, its blocking calls and its timeouts
\* is a bounded first-in first-out channel.
C == INSTANCE Channel WITH queue <- Contents
IsChannel == C!CSpec

\* A mail in the pool does not wait for ever beside a sleeping receiver
\* (unless the assertion in rt_thread_resume has stopped the system).
MailReachesReceiver == (entry > 0 /\ suspend_thread # <<>>)
                          ~> (entry = 0 \/ suspend_thread = <<>> \/ Frozen)

\* A free place in the pool does not wait for ever beside a sleeping sender.
RoomReachesSender == (entry < Size /\ suspend_sender_thread # <<>>)
                        ~> (entry = Size \/ suspend_sender_thread = <<>> \/ Frozen)
=============================================================================
