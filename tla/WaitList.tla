------------------------------ MODULE WaitList ------------------------------
(***************************************************************************)
(* What the semaphore, the mutex and the event of src/rt-thread/src/ipc.c  *)
(* share: one list of waiting threads, in RT_IPC_FLAG_FIFO or in           *)
(* RT_IPC_FLAG_PRIO order, the suspension of a caller, its resumption by a *)
(* peer, by its timer, by a reset or by a detach, and its return.          *)
(*                                                                         *)
(* A call first asserts that the object has its type and then runs a       *)
(* section with interrupts disabled; one action is one such section, or    *)
(* one step between two of them.  A smaller priority number is a higher    *)
(* priority.                                                               *)
(***************************************************************************)
EXTENDS Integers, Sequences, FiniteSets

CONSTANTS Thread,        \* threads that call the object
          NoThread,      \* RT_NULL
          InitPriority,  \* InitPriority[t]: the priority t was created with
          Made           \* the classes and flags of the objects to look at

Kind == {"semaphore", "mutex", "event",
         "heap"}     \* the heap, and the semaphore it is locked with

ASSUME ThreadAssumption   == IsFiniteSet(Thread) /\ NoThread \notin Thread
ASSUME PriorityAssumption == InitPriority \in [Thread -> Nat]
ASSUME MadeAssumption     == Made \subseteq Kind \X {"FIFO", "PRIO"}

VARIABLES kind,             \* the class of the object
          attached,         \* it still has its type
          flag,
          suspend_thread,   \* the waiting threads
          pc,               \* where each thread is
          call,             \* call[t]: operation and arguments of its call
          error,            \* thread->error
          current_priority

waitVars == <<kind, attached, flag, suspend_thread, pc, call, error, current_priority>>

Wait   == {"no", "timed", "forever"}
NoCall == [op |-> "none", wait |-> "no", value |-> 0,       \* of a reset
           set |-> {}, all |-> FALSE, clear |-> FALSE]      \* of an event call
WaitPC == {"idle", "call", "suspended", "resumed", "detach", "detach_locked",
           "assert_type",    \* spins in rt_assert_handler: the object has no type
           "assert_thread"}  \* as above, interrupts disabled: resumed no thread

-----------------------------------------------------------------------------
(* Calls and returns.                                                      *)

Enter(t, c) ==
    /\ pc[t] = "idle"
    /\ pc' = [pc EXCEPT ![t] = IF ~ attached THEN "assert_type"
                               ELSE IF c.op = "detach" THEN "detach" ELSE "call"]
    /\ call' = [call EXCEPT ![t] = IF attached THEN c ELSE NoCall]
    /\ UNCHANGED <<kind, attached, flag, suspend_thread, error, current_priority>>

Plain(op)   == [NoCall EXCEPT !.op = op]
Timed(op, w) == [NoCall EXCEPT !.op = op, !.wait = w]

In(t, op) == pc[t] = "call" /\ call[t].op = op

\* thread t returns and the threads of woken are made ready; its error is in
\* the return code now, and reset before it is looked at again
ReturnWaking(t, woken) ==
    /\ pc' = [x \in Thread |-> IF x = t THEN "idle" ELSE IF x \in woken THEN "resumed" ELSE pc[x]]
    /\ call' = [call EXCEPT ![t] = NoCall]
    /\ UNCHANGED <<kind, attached, flag>>

Return(t) ==
    /\ ReturnWaking(t, {})
    /\ error' = [error EXCEPT ![t] = "EOK"]
    /\ UNCHANGED suspend_thread

\* rt_ipc_list_resume
ReturnResuming(t) ==
    /\ suspend_thread' = Tail(suspend_thread)
    /\ ReturnWaking(t, {Head(suspend_thread)})
    /\ UNCHANGED error

\* RT_IPC_CMD_RESET: rt_ipc_list_resume_all within one section
ReturnResumingAll(t) ==
    /\ suspend_thread' = <<>>
    /\ ReturnWaking(t, {x \in Thread : pc[x] = "suspended"})
    /\ error' = [x \in Thread |-> IF pc[x] = "suspended" THEN "ERROR" ELSE error[x]]

-----------------------------------------------------------------------------
(* Waiting.                                                                *)

\* rt_ipc_list_suspend, RT_IPC_FLAG_PRIO: insert before the first of lower
\* priority
Before(t, i) == current_priority[t] < current_priority[suspend_thread[i]]

\* mutant: the flag is not looked at
PlaceLast(t) == Len(suspend_thread) + 1

Place(t) == CHOOSE p \in 1 .. Len(suspend_thread) + 1 :
               /\ p <= Len(suspend_thread) => flag = "PRIO" /\ Before(t, p)
               /\ flag = "PRIO" => \A i \in 1 .. p - 1 : ~ Before(t, i)

Inserted(t) == [i \in 1 .. Len(suspend_thread) + 1 |->
                   IF i < Place(t) THEN suspend_thread[i]
                   ELSE IF i = Place(t) THEN t ELSE suspend_thread[i - 1]]

Suspend(t) ==
    /\ call[t].wait # "no"
    /\ suspend_thread' = Inserted(t)
    /\ pc' = [pc EXCEPT ![t] = "suspended"]
    /\ error' = [error EXCEPT ![t] = "EOK"]
    /\ UNCHANGED <<kind, attached, flag, call>>

\* no waiting: -RT_ETIMEOUT
Refuse(t) == call[t].wait = "no" /\ Return(t)

\* the list without t (rt_list_remove)
Without(t) == LET p == CHOOSE i \in 1 .. Len(suspend_thread) : suspend_thread[i] = t
              IN  [i \in 1 .. Len(suspend_thread) - 1 |->
                      IF i < p THEN suspend_thread[i] ELSE suspend_thread[i + 1]]

\* mutant: resuming does not stop the timer, it fires before the thread runs
ExpireUnstopped(t) ==
    /\ pc[t] \in {"suspended", "resumed"}
    /\ call[t].wait = "timed"
    /\ suspend_thread' = IF pc[t] = "suspended" THEN Without(t) ELSE suspend_thread
    /\ pc' = [pc EXCEPT ![t] = "resumed"]
    /\ error' = [error EXCEPT ![t] = "ETIMEOUT"]
    /\ UNCHANGED <<kind, attached, flag, call, current_priority>>

\* mutant: the thread is made ready but stays linked
ExpireLinked(t) ==
    /\ pc[t] = "suspended"
    /\ call[t].wait = "timed"
    /\ pc' = [pc EXCEPT ![t] = "resumed"]
    /\ error' = [error EXCEPT ![t] = "ETIMEOUT"]
    /\ UNCHANGED <<kind, attached, flag, suspend_thread, call, current_priority>>

\* mutant: the thread is not put into the ready list
ExpireAsleep(t) ==
    /\ pc[t] = "suspended"
    /\ call[t].wait = "timed"
    /\ error' = [error EXCEPT ![t] = "ETIMEOUT"]
    /\ UNCHANGED <<kind, attached, flag, suspend_thread, pc, call, current_priority>>

\* rt_thread_timeout; rt_thread_resume stops the timer of a thread it wakes
Expire(t) ==
    /\ pc[t] = "suspended"
    /\ call[t].wait = "timed"
    /\ suspend_thread' = Without(t)
    /\ pc' = [pc EXCEPT ![t] = "resumed"]
    /\ error' = [error EXCEPT ![t] = "ETIMEOUT"]
    /\ UNCHANGED <<kind, attached, flag, call, current_priority>>

-----------------------------------------------------------------------------
(* rt_sem_detach, rt_mutex_detach, rt_event_detach: rt_ipc_list_resume_all,*)
(* then rt_object_detach.  resume_all tests the list with interrupts       *)
(* enabled and resumes its head with interrupts disabled.                  *)

DetachTest(t) ==
    /\ pc[t] = "detach"
    /\ suspend_thread # <<>>
    /\ pc' = [pc EXCEPT ![t] = "detach_locked"]
    /\ UNCHANGED <<kind, attached, flag, suspend_thread, call, error, current_priority>>

DetachResume(t) ==
    /\ pc[t] = "detach_locked"
    /\ IF suspend_thread # <<>>
       THEN LET w == Head(suspend_thread) IN
            /\ suspend_thread' = Tail(suspend_thread)
            /\ pc' = [pc EXCEPT ![t] = "detach", ![w] = "resumed"]
            /\ error' = [error EXCEPT ![w] = "ERROR"]
       ELSE \* list->next is the list head, inside the object: rt_thread_resume
            \* asserts on its type
            /\ pc' = [pc EXCEPT ![t] = "assert_thread"]
            /\ UNCHANGED <<suspend_thread, error>>
    /\ UNCHANGED <<kind, attached, flag, call, current_priority>>

DetachObject(t) ==
    /\ pc[t] = "detach"
    /\ suspend_thread = <<>>
    /\ attached' = FALSE
    /\ pc' = [pc EXCEPT ![t] = "idle"]
    /\ call' = [call EXCEPT ![t] = NoCall]
    /\ UNCHANGED <<kind, flag, suspend_thread, error, current_priority>>

Detach(t) == DetachTest(t) \/ DetachResume(t) \/ DetachObject(t)

\* rt_thread_resume asserts with interrupts disabled: nothing runs any more
Frozen == \E t \in Thread : pc[t] = "assert_thread"

WaitInit == /\ \E m \in Made : kind = m[1] /\ flag = m[2]
            /\ attached = TRUE
            /\ suspend_thread = <<>>
            /\ pc = [t \in Thread |-> "idle"]
            /\ call = [t \in Thread |-> NoCall]
            /\ error = [t \in Thread |-> "EOK"]
            /\ current_priority = InitPriority

-----------------------------------------------------------------------------
(* Properties of the waiting list.                                         *)

WaitTypeOK == /\ kind \in Kind
              /\ attached \in BOOLEAN
              /\ flag \in {"FIFO", "PRIO"}
              /\ suspend_thread \in Seq(Thread)
              /\ pc \in [Thread -> WaitPC]
              /\ DOMAIN call = Thread /\ \A t \in Thread : call[t].wait \in Wait
              /\ error \in [Thread -> {"EOK", "ETIMEOUT", "ERROR"}]
              /\ current_priority \in [Thread -> Nat]

Suspended == {t \in Thread : pc[t] = "suspended"}

\* threads that were resumed by a peer and have not run yet
Granted == {t \in Thread : pc[t] = "resumed" /\ error[t] = "EOK"}

\* The list holds exactly the suspended threads, each once: releases, sends,
\* timeouts, reset and detach, which all take threads off it, never leave a
\* ready thread linked or a suspended one unlinked.
ListIsExact ==
    /\ \A i \in 1 .. Len(suspend_thread) : suspend_thread[i] \in Suspended
    /\ \A i, j \in 1 .. Len(suspend_thread) : suspend_thread[i] = suspend_thread[j] => i = j
    /\ \A t \in Suspended : \E i \in 1 .. Len(suspend_thread) : suspend_thread[i] = t

\* A list in priority order stays in it.
ListIsSorted ==
    flag = "PRIO" => \A i, j \in 1 .. Len(suspend_thread) :
        i < j => current_priority[suspend_thread[i]] <= current_priority[suspend_thread[j]]
=============================================================================
