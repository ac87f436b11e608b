-------------------------------- MODULE Mutex --------------------------------
(***************************************************************************)
(* The recursive mutex of src/rt-thread/src/ipc.c.  A thread that has to   *)
(* wait lends the owner its priority; the last release of the owner gives  *)
(* the priority back and hands the mutex to the first waiting thread.      *)
(***************************************************************************)
EXTENDS WaitList

CONSTANT MaxHold       \* bound on nested takes; hold is an rt_uint8_t

ASSUME HoldAssumption == MaxHold \in Nat \ {0}

VARIABLES mutex,       \* value, owner, hold, original_priority
          holds        \* history: holds[t], takes of t that returned RT_EOK
                       \* less its releases

mutexVars == <<mutex, holds>>

NoPriority == 255      \* 0xff

MutexInit == /\ mutex = [value |-> 1, owner |-> NoThread, hold |-> 0,
                         original_priority |-> NoPriority]
             /\ holds = [t \in Thread |-> 0]

MutexCall(t) ==
    /\ \/ holds[t] < MaxHold /\ \E w \in Wait : Enter(t, Timed("take", w))
       \/ Enter(t, Plain("release"))
       \/ Enter(t, Plain("detach"))
    /\ UNCHANGED mutexVars

\* the mutex as held once by w
OwnedBy(w, v) == [value |-> v, owner |-> w, hold |-> 1,
                  original_priority |-> current_priority[w]]

\* mutant: the owner keeps its priority
LentNever(t) == current_priority

\* the owner gets the priority of t, if that is higher
Lent(t) == IF current_priority[t] < current_priority[mutex.owner]
           THEN [current_priority EXCEPT ![mutex.owner] = current_priority[t]]
           ELSE current_priority

MutexTake(t) ==
    /\ In(t, "take")
    /\ \/ /\ mutex.owner = t
          /\ Return(t)
          /\ mutex' = [mutex EXCEPT !.hold = @ + 1]
          /\ holds' = [holds EXCEPT ![t] = @ + 1]
          /\ UNCHANGED current_priority
       \/ /\ mutex.owner # t /\ mutex.value > 0
          /\ Return(t)
          /\ mutex' = OwnedBy(t, mutex.value - 1)
          /\ holds' = [holds EXCEPT ![t] = @ + 1]
          /\ UNCHANGED current_priority
       \/ /\ mutex.owner # t /\ mutex.value = 0
          /\ Refuse(t)
          /\ UNCHANGED <<mutexVars, current_priority>>
       \/ /\ mutex.owner # t /\ mutex.value = 0
          /\ Suspend(t)
          /\ current_priority' = Lent(t)
          /\ UNCHANGED mutexVars

\* mutant: the priority is given back only when nobody waits
RestoredIfFree(t) == IF suspend_thread = <<>>
                     THEN [current_priority EXCEPT ![t] = mutex.original_priority]
                     ELSE current_priority

\* change the owner thread to original priority
Restored(t) == [current_priority EXCEPT ![t] = mutex.original_priority]

\* mutant: the mutex becomes free when it is handed over
HandedOverValueFree == 1

HandedOverValue == mutex.value

MutexRelease(t) ==
    /\ In(t, "release")
    /\ \/ /\ mutex.owner # t          \* -RT_ERROR
          /\ Return(t)
          /\ UNCHANGED <<mutexVars, current_priority>>
       \/ /\ mutex.owner = t /\ mutex.hold > 1
          /\ Return(t)
          /\ mutex' = [mutex EXCEPT !.hold = @ - 1]
          /\ holds' = [holds EXCEPT ![t] = @ - 1]
          /\ UNCHANGED current_priority
       \/ /\ mutex.owner = t /\ mutex.hold = 1
          /\ current_priority' = Restored(t)
          /\ IF suspend_thread # <<>>
             THEN /\ ReturnResuming(t)
                  /\ mutex' = OwnedBy(Head(suspend_thread), HandedOverValue)
             ELSE /\ Return(t)
                  /\ mutex' = [value |-> mutex.value + 1, owner |-> NoThread, hold |-> 0,
                               original_priority |-> NoPriority]
          /\ holds' = [holds EXCEPT ![t] = @ - 1]

\* a resumed thread returns thread->error
MutexReturn(t) ==
    /\ pc[t] = "resumed"
    /\ Return(t)
    /\ holds' = [holds EXCEPT ![t] = IF error[t] = "EOK" THEN @ + 1 ELSE @]
    /\ UNCHANGED <<mutex, current_priority>>

MutexStep(t) == MutexTake(t) \/ MutexRelease(t) \/ MutexReturn(t)

-----------------------------------------------------------------------------
(* Properties.                                                             *)

MutexTypeOK == /\ mutex.value \in 0 .. 1 /\ mutex.owner \in Thread \cup {NoThread}
               /\ mutex.hold \in Nat /\ mutex.original_priority \in Nat
               /\ holds \in [Thread -> Nat]

\* One thread at a time has the mutex, and it has it as often as it took it: a
\* thread whose take returned RT_EOK is the owner until its last release, the
\* thread the mutex is handed to counts as having taken it once, and a thread
\* whose wait timed out is never made the owner.
OwnerIsExact == kind = "mutex" =>
    /\ \A t \in Thread : mutex.owner # t => holds[t] = 0 /\ t \notin Granted
    /\ \A t \in Thread : mutex.owner = t =>
          mutex.hold = holds[t] + (IF t \in Granted THEN 1 ELSE 0) /\ mutex.hold > 0
    /\ mutex.value = 1 <=> mutex.owner = NoThread
    /\ mutex.value = 1 => suspend_thread = <<>>

\* With RT_IPC_FLAG_PRIO no thread waits for an owner of lower priority, also
\* after a hand-over.  (With RT_IPC_FLAG_FIFO a hand-over to a thread of lower
\* priority than the next one leaves it so.)
NoInversion ==
    kind = "mutex" /\ flag = "PRIO" /\ mutex.owner # NoThread =>
        \A t \in Suspended : current_priority[mutex.owner] <= current_priority[t]

\* A thread that does not own the mutex has the priority it was created with,
\* however many threads lent it theirs and timed out since.
PriorityIsRestored ==
    \A t \in Thread : current_priority[t] # InitPriority[t] => mutex.owner = t

\* A priority is lent to the owner as long as it owns the mutex, and no longer.
PriorityInv == NoInversion /\ PriorityIsRestored
=============================================================================
