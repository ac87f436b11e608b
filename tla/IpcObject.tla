------------------------------ MODULE IpcObject ------------------------------
(***************************************************************************)
(* What the mailbox and the message queue of src/rt-thread/src/ipc.c share:*)
(* an object with a list of waiting receivers and a list of waiting        *)
(* senders, the suspension of a caller, its resumption by a peer, by its   *)
(* timer, by a reset or by a detach, and its return.  The modules Mailbox  *)
(* and MessageQueue add the buffer.                                        *)
(*                                                                         *)
(* One action is one section the code runs with interrupts disabled, or    *)
(* one step between two such sections.  The waiting lists are in           *)
(* RT_IPC_FLAG_FIFO order, the flag every queue and mailbox of the mirror  *)
(* is created with.                                                        *)
(***************************************************************************)
EXTENDS Integers, Sequences, FiniteSets

CONSTANTS Thread,     \* threads (and interrupt handlers) that call the object
          Mail,       \* the values sent
          NoMail,     \* no value
          MaxTimeout  \* bound on the timeouts enumerated, in ticks

ASSUME ThreadAssumption == IsFiniteSet(Thread)
ASSUME MailAssumption   == NoMail \notin Mail
ASSUME TimeAssumption   == MaxTimeout \in Nat

VARIABLES attached,              \* the object still has its type
          suspend_thread,        \* receivers waiting for something to take
          suspend_sender_thread, \* senders waiting for room
          pc,                    \* where each thread is
          timeout,               \* ticks each call may still wait, Forever: no limit
          error,                 \* thread->error
          value,                 \* what each sender sends
          result                 \* what the last call of each thread returned

lists   == <<suspend_thread, suspend_sender_thread>>
calls   == <<pc, timeout, error, value, result>>
ipcvars == <<attached, lists, calls>>

Forever == -1
Timeout == Forever .. MaxTimeout

IpcPC == {"idle",
          "send", "send_suspended", "send_resumed",
          "recv", "recv_suspended", "recv_resumed",
          "detach_recv", "detach_recv_locked", "detach_send", "detach_send_locked",
          "control",
          "assert_type",    \* spins in rt_assert_handler: the object has no type
          "assert_thread"}  \* spins in rt_assert_handler: resumed what is no thread

Error  == {"EOK", "ETIMEOUT", "ERROR"}
Code   == Error \cup {"EFULL", "pending"}
Result == [code : Code, mail : Mail \cup {NoMail}]

Ok(v)     == [code |-> "EOK", mail |-> v]
Failed(c) == [code |-> c, mail |-> NoMail]
Pending   == Failed("pending")

-----------------------------------------------------------------------------
(* Calls and returns.                                                      *)

Goto(t, p) == pc' = [pc EXCEPT ![t] = p]

\* entry of a call: its arguments become local variables of the thread
Enter(t, p, v, to) ==
    /\ pc[t] = "idle"
    /\ Goto(t, p)
    /\ timeout' = [timeout EXCEPT ![t] = to]
    /\ value'   = [value EXCEPT ![t] = v]
    /\ error'   = [error EXCEPT ![t] = "EOK"]
    /\ result'  = [result EXCEPT ![t] = Pending]
    /\ UNCHANGED <<attached, lists>>

\* a call on an object that has its type, and RT_ASSERT on one that has not
Call(t, p, v, to) == attached /\ Enter(t, p, v, to)
AssertType(t)     == ~ attached /\ Enter(t, "assert_type", NoMail, 0)

\* thread t returns r; woken (a set with at most one thread) is made ready
\* by the same section, at pc wakepc
ReturnWaking(t, r, woken, wakepc) ==
    /\ pc' = [x \in Thread |-> IF x = t THEN "idle"
                               ELSE IF x \in woken THEN wakepc ELSE pc[x]]
    /\ timeout' = [timeout EXCEPT ![t] = 0]
    /\ value'   = [value EXCEPT ![t] = NoMail]
    /\ error'   = [error EXCEPT ![t] = "EOK"]
    /\ result'  = [result EXCEPT ![t] = r]

Return(t, r) == ReturnWaking(t, r, {}, "idle") /\ UNCHANGED <<attached, lists>>

\* mutants: a receiver, a sender is never resumed
ResumeReceiverNever == FALSE
ResumeSenderNever   == FALSE

ResumeReceiver == suspend_thread # <<>>
ResumeSender   == suspend_sender_thread # <<>>

\* a successful send resumes the first receiver, if any waits
ReturnToReceiver(t, r) ==
    /\ IF ResumeReceiver
       THEN /\ suspend_thread' = Tail(suspend_thread)
            /\ ReturnWaking(t, r, {Head(suspend_thread)}, "recv_resumed")
       ELSE /\ suspend_thread' = suspend_thread
            /\ ReturnWaking(t, r, {}, "recv_resumed")
    /\ UNCHANGED <<attached, suspend_sender_thread>>

\* a successful receive resumes the first sender, if any waits
ReturnToSender(t, r) ==
    /\ IF ResumeSender
       THEN /\ suspend_sender_thread' = Tail(suspend_sender_thread)
            /\ ReturnWaking(t, r, {Head(suspend_sender_thread)}, "send_resumed")
       ELSE /\ suspend_sender_thread' = suspend_sender_thread
            /\ ReturnWaking(t, r, {}, "send_resumed")
    /\ UNCHANGED <<attached, suspend_thread>>

-----------------------------------------------------------------------------
(* Waiting.                                                                *)

SuspendSender(t, to) ==
    /\ to # 0
    /\ suspend_sender_thread' = Append(suspend_sender_thread, t)
    /\ Goto(t, "send_suspended")
    /\ timeout' = [timeout EXCEPT ![t] = to]
    /\ error'   = [error EXCEPT ![t] = "EOK"]
    /\ UNCHANGED <<attached, suspend_thread, value, result>>

SuspendReceiver(t, to) ==
    /\ to # 0
    /\ suspend_thread' = Append(suspend_thread, t)
    /\ Goto(t, "recv_suspended")
    /\ timeout' = [timeout EXCEPT ![t] = to]
    /\ error'   = [error EXCEPT ![t] = "EOK"]
    /\ UNCHANGED <<attached, suspend_sender_thread, value, result>>

\* the ticks left when t runs again: a limited timeout shrinks by the ticks
\* spent asleep and stops at 0
Remaining(t) == IF timeout[t] > 0 THEN 0 .. timeout[t] ELSE {timeout[t]}

SendFailed(t) == pc[t] = "send_resumed" /\ error[t] # "EOK" /\ Return(t, Failed(error[t]))
RecvFailed(t) == pc[t] = "recv_resumed" /\ error[t] # "EOK" /\ Return(t, Failed(error[t]))

\* list without its i-th node (rt_list_remove)
Remove(list, i) == [j \in 1 .. Len(list) - 1 |-> IF j < i THEN list[j] ELSE list[j + 1]]

\* mutant: the thread is made ready but stays linked
UnlinkForgotten(t) ==
    /\ pc[t] \in {"recv_suspended", "send_suspended"}
    /\ Goto(t, IF pc[t] = "recv_suspended" THEN "recv_resumed" ELSE "send_resumed")
    /\ UNCHANGED lists

\* rt_list_remove and rt_schedule_insert_thread
Unlink(t) ==
    \/ \E i \in 1 .. Len(suspend_thread) :
          /\ suspend_thread[i] = t
          /\ suspend_thread' = Remove(suspend_thread, i)
          /\ Goto(t, "recv_resumed")
          /\ UNCHANGED suspend_sender_thread
    \/ \E i \in 1 .. Len(suspend_sender_thread) :
          /\ suspend_sender_thread[i] = t
          /\ suspend_sender_thread' = Remove(suspend_sender_thread, i)
          /\ Goto(t, "send_resumed")
          /\ UNCHANGED suspend_thread

\* mutant: resuming does not stop the timer, it fires before the thread runs
ExpireUnstopped(t) ==
    /\ timeout[t] > 0
    /\ pc[t] \in {"recv_resumed", "send_resumed"}
    /\ error' = [error EXCEPT ![t] = "ETIMEOUT"]
    /\ UNCHANGED <<attached, lists, pc, timeout, value, result>>

\* rt_thread_timeout: the thread timer of a suspended thread runs out.
\* rt_thread_resume stops the timer, so a thread already made ready keeps
\* its RT_EOK.
Expire(t) ==
    /\ timeout[t] > 0
    /\ Unlink(t)
    /\ error' = [error EXCEPT ![t] = "ETIMEOUT"]
    /\ UNCHANGED <<attached, timeout, value, result>>

-----------------------------------------------------------------------------
(* rt_mb_detach, rt_mq_detach: rt_ipc_list_resume_all of the receivers,    *)
(* then of the senders, then rt_object_detach.  resume_all tests the list  *)
(* with interrupts enabled and resumes its head with interrupts disabled.  *)

DetachCall(t) == Call(t, "detach_recv", NoMail, 0)

\* mutant: the list is looked at once, if for while, and only its head resumed
DetachResumeRecvOnce(t) ==
    /\ pc[t] = "detach_recv_locked"
    /\ suspend_thread # <<>>
    /\ suspend_thread' = Tail(suspend_thread)
    /\ pc' = [pc EXCEPT ![t] = "detach_send", ![Head(suspend_thread)] = "recv_resumed"]
    /\ error' = [error EXCEPT ![Head(suspend_thread)] = "ERROR"]
    /\ UNCHANGED <<attached, suspend_sender_thread, timeout, value, result>>

DetachTestRecv(t) ==
    /\ pc[t] = "detach_recv"
    /\ Goto(t, IF suspend_thread # <<>> THEN "detach_recv_locked" ELSE "detach_send")
    /\ UNCHANGED <<attached, lists, timeout, error, value, result>>

DetachResumeRecv(t) ==
    /\ pc[t] = "detach_recv_locked"
    /\ IF suspend_thread # <<>>
       THEN LET w == Head(suspend_thread) IN
            /\ suspend_thread' = Tail(suspend_thread)
            /\ pc' = [pc EXCEPT ![t] = "detach_recv", ![w] = "recv_resumed"]
            /\ error' = [error EXCEPT ![w] = "ERROR"]
       ELSE \* list->next is the list head, inside the object itself: its type
            \* is not RT_Object_Class_Thread and rt_thread_resume asserts
            /\ Goto(t, "assert_thread")
            /\ UNCHANGED <<suspend_thread, error>>
    /\ UNCHANGED <<attached, suspend_sender_thread, timeout, value, result>>

DetachTestSend(t) ==
    /\ pc[t] = "detach_send"
    /\ suspend_sender_thread # <<>>
    /\ Goto(t, "detach_send_locked")
    /\ UNCHANGED <<attached, lists, timeout, error, value, result>>

DetachResumeSend(t) ==
    /\ pc[t] = "detach_send_locked"
    /\ IF suspend_sender_thread # <<>>
       THEN LET w == Head(suspend_sender_thread) IN
            /\ suspend_sender_thread' = Tail(suspend_sender_thread)
            /\ pc' = [pc EXCEPT ![t] = "detach_send", ![w] = "send_resumed"]
            /\ error' = [error EXCEPT ![w] = "ERROR"]
       ELSE /\ Goto(t, "assert_thread")
            /\ UNCHANGED <<suspend_sender_thread, error>>
    /\ UNCHANGED <<attached, suspend_thread, timeout, value, result>>

DetachObject(t) ==
    /\ pc[t] = "detach_send"
    /\ suspend_sender_thread = <<>>
    /\ attached' = FALSE
    /\ ReturnWaking(t, Ok(NoMail), {}, "idle")
    /\ UNCHANGED lists

\* the resume_all part of RT_IPC_CMD_RESET, one section
ControlCall(t) == Call(t, "control", NoMail, 0)

ResumeAll(t) ==
    /\ pc[t] = "control"
    /\ pc' = [x \in Thread |-> IF x = t THEN "idle"
                               ELSE IF pc[x] = "recv_suspended" THEN "recv_resumed"
                               ELSE IF pc[x] = "send_suspended" THEN "send_resumed"
                               ELSE pc[x]]
    /\ error' = [x \in Thread |-> IF pc[x] \in {"recv_suspended", "send_suspended"}
                                  THEN "ERROR" ELSE error[x]]
    /\ suspend_thread' = <<>>
    /\ suspend_sender_thread' = <<>>
    /\ result' = [result EXCEPT ![t] = Ok(NoMail)]
    /\ UNCHANGED <<attached, timeout, value>>

-----------------------------------------------------------------------------
IpcInit == /\ attached = TRUE
           /\ suspend_thread = <<>>
           /\ suspend_sender_thread = <<>>
           /\ pc = [t \in Thread |-> "idle"]
           /\ timeout = [t \in Thread |-> 0]
           /\ error = [t \in Thread |-> "EOK"]
           /\ value = [t \in Thread |-> NoMail]
           /\ result = [t \in Thread |-> Ok(NoMail)]

\* rt_thread_resume asserts with interrupts disabled: nothing runs any more
Frozen == \E t \in Thread : pc[t] = "assert_thread"

\* the steps inside a call that do not touch the buffer
IpcContinue(t) == \/ SendFailed(t) \/ RecvFailed(t)
                  \/ DetachTestRecv(t) \/ DetachResumeRecv(t)
                  \/ DetachTestSend(t) \/ DetachResumeSend(t) \/ DetachObject(t)

-----------------------------------------------------------------------------
(* Properties of the waiting lists.                                        *)

IpcTypeOK == /\ attached \in BOOLEAN
             /\ suspend_thread \in Seq(Thread)
             /\ suspend_sender_thread \in Seq(Thread)
             /\ timeout \in [Thread -> Timeout]
             /\ error \in [Thread -> Error]
             /\ value \in [Thread -> Mail \cup {NoMail}]
             /\ result \in [Thread -> Result]

\* list enumerates the set S without repetition
Enumerates(list, S) == /\ \A i \in 1 .. Len(list) : list[i] \in S
                       /\ \A i, j \in 1 .. Len(list) : list[i] = list[j] => i = j
                       /\ \A t \in S : \E i \in 1 .. Len(list) : list[i] = t

At(p)    == {t \in Thread : pc[t] = p}
Woken(p) == {t \in At(p) : error[t] = "EOK"}

\* A thread is on a waiting list exactly while it is suspended in that call,
\* and once: sends, receives, timeouts, reset and detach, which all move
\* threads off the lists, never leave a ready thread linked or a suspended
\* one unlinked.
SuspendedExactlyOnce == /\ Enumerates(suspend_thread, At("recv_suspended"))
                        /\ Enumerates(suspend_sender_thread, At("send_suspended"))

\* What makes the invariants inductive: a sender carries a value, a sleeping
\* thread has no error yet, a call is pending exactly while its thread is in it.
CallInv == \A t \in Thread :
    /\ pc[t] \in {"send", "send_suspended", "send_resumed"} => value[t] \in Mail
    /\ pc[t] \in {"recv_suspended", "send_suspended"} => error[t] = "EOK"
    /\ pc[t] = "idle" <=> result[t] # Pending

\* rt_ipc_list_resume_all resumes threads only: the RT_ASSERT on the object
\* type in rt_thread_resume does not fail.
ResumesOnlyThreads == \A t \in Thread : pc[t] # "assert_thread"

\* A detach wakes the threads it finds waiting, whoever else comes, leaves or
\* times out meanwhile: a receiver that sleeps when the receivers' list is
\* looked at, a sender that sleeps when the senders' list is, does not sleep on.
DetachWakesWaiters == \A w \in Thread :
    /\ (pc[w] = "recv_suspended" /\ At("detach_recv") # {}) ~> (pc[w] # "recv_suspended" \/ Frozen)
    /\ (pc[w] = "send_suspended" /\ At("detach_send") # {}) ~> (pc[w] # "send_suspended" \/ Frozen)
=============================================================================
