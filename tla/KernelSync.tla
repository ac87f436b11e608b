----------------------------- MODULE KernelSync -----------------------------
(***************************************************************************)
(* A semaphore, a mutex, an event or the heap with its semaphore, as the   *)
(* initial state chooses, and the threads that use it.                     *)
(***************************************************************************)
EXTENDS Heap, Mutex, Event

vars == <<waitVars, semVars, mutexVars, eventVars, heapVars>>

Init == /\ WaitInit /\ SemInit /\ MutexInit /\ EventInit /\ HeapInit

\* thread t calls
Call(t) ==
    \/ kind = "semaphore" /\ SemCall(t) /\ UNCHANGED <<mutexVars, eventVars, heapVars>>
    \/ kind = "mutex"     /\ MutexCall(t) /\ UNCHANGED <<semVars, eventVars, heapVars>>
    \/ kind = "event"     /\ EventCall(t) /\ UNCHANGED <<semVars, mutexVars, heapVars>>
    \/ kind = "heap"      /\ HeapCall(t) /\ UNCHANGED <<mutexVars, eventVars>>

\* thread t goes on inside a call
Step(t) ==
    \/ kind = "semaphore" /\ SemStep(t) /\ UNCHANGED <<mutexVars, eventVars, heapVars>>
    \/ kind = "mutex"     /\ MutexStep(t) /\ UNCHANGED <<semVars, eventVars, heapVars>>
    \/ kind = "event"     /\ EventStep(t) /\ UNCHANGED <<semVars, mutexVars, heapVars>>
    \/ kind = "heap"      /\ HeapStep(t) /\ UNCHANGED <<mutexVars, eventVars>>
    \/ Detach(t) /\ UNCHANGED <<semVars, mutexVars, eventVars, heapVars>>

\* the timer of thread t runs out
Tick(t) == Expire(t) /\ UNCHANGED <<semVars, mutexVars, eventVars, heapVars>>

Next == ~ Frozen /\ \E t \in Thread : Call(t) \/ Step(t) \/ Tick(t)

\* a thread that is ready inside a call runs in the end, and a started timer
\* runs out; nobody has to call
Fairness == \A t \in Thread : /\ WF_vars(~ Frozen /\ Step(t))
                              /\ WF_vars(~ Frozen /\ Tick(t))

Spec == Init /\ [][Next]_vars /\ Fairness

-----------------------------------------------------------------------------
(* Properties.                                                             *)

\* The variables have their types.
TypeOK == WaitTypeOK /\ SemTypeOK /\ MutexTypeOK /\ EventTypeOK /\ HeapTypeOK

\* The waiting list of each object is exactly its sleeping threads, in its order,
\* and no field leaves its type.
WaitInv == TypeOK /\ ListIsExact /\ ListIsSorted

\* A call with a time limit returns: somebody grants it what it waits for, or
\* its timer runs out, or the object is reset or detached under it.
TimedCallReturns ==
    \A t \in Thread : (pc[t] = "suspended" /\ call[t].wait = "timed")
                         ~> (pc[t] = "idle" \/ Frozen)
=============================================================================
