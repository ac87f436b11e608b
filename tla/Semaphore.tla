------------------------------ MODULE Semaphore ------------------------------
(***************************************************************************)
(* The counting semaphore of src/rt-thread/src/ipc.c.  A release hands its *)
(* token to the first waiting thread, without passing through value.       *)
(***************************************************************************)
EXTENDS WaitList

CONSTANTS SemMax,      \* the largest value, 65535: value is an rt_uint16_t
          SemValue     \* initial values and values given to a reset

ASSUME SemAssumption == SemMax \in Nat \ {0} /\ SemValue \subseteq 0 .. SemMax

VARIABLES value,       \* sem->value
          ledger       \* history: tokens released or given, less those taken

semVars == <<value, ledger>>

\* rt_uint16_t arithmetic
Up(n)   == (n + 1) % (SemMax + 1)
Down(n) == (n + SemMax) % (SemMax + 1)

\* an object with a semaphore
IsSem == kind \in {"semaphore", "heap"}

SemInit == /\ value \in CASE kind = "semaphore" -> SemValue
                         [] kind = "heap"      -> {1}
                         [] OTHER              -> {0}
           /\ ledger = value

SemCall(t) ==
    /\ \/ \E w \in Wait : Enter(t, Timed("take", w))
       \/ Enter(t, Plain("release"))
       \/ \E v \in SemValue : Enter(t, [Plain("reset") EXCEPT !.value = v])
       \/ Enter(t, Plain("detach"))
    /\ UNCHANGED semVars

SemTake(t) ==
    /\ In(t, "take")
    /\ IF value > 0
       THEN Return(t) /\ value' = Down(value) /\ ledger' = Down(ledger)
       ELSE (Refuse(t) \/ Suspend(t)) /\ UNCHANGED semVars
    /\ UNCHANGED current_priority

\* mutant: the token is counted as well as handed over
AfterHandOverCounted == Up(value)

AfterHandOver == value

SemRelease(t) ==
    /\ In(t, "release")
    /\ IF suspend_thread # <<>>
       THEN ReturnResuming(t) /\ value' = AfterHandOver
       ELSE Return(t) /\ value' = Up(value)
    /\ ledger' = Up(ledger)
    /\ UNCHANGED current_priority

\* rt_sem_control(RT_IPC_CMD_RESET); tokens already handed over stay so
SemReset(t) ==
    /\ In(t, "reset")
    /\ ReturnResumingAll(t)
    /\ value' = call[t].value
    /\ ledger' = (call[t].value + Cardinality(Granted)) % (SemMax + 1)
    /\ UNCHANGED current_priority

\* a resumed thread returns thread->error
SemReturn(t) ==
    /\ pc[t] = "resumed"
    /\ Return(t)
    /\ ledger' = IF error[t] = "EOK" THEN Down(ledger) ELSE ledger
    /\ UNCHANGED <<value, current_priority>>

SemStep(t) == SemTake(t) \/ SemRelease(t) \/ SemReset(t) \/ SemReturn(t)

-----------------------------------------------------------------------------
(* Properties.                                                             *)

SemTypeOK == value \in 0 .. SemMax /\ ledger \in 0 .. SemMax

\* No token is lost or doubled between a release, the thread it is handed to
\* and a timeout, reset or detach at the same time: the value and the tokens
\* handed over and not yet returned are what was released and not taken.
\* (Both count modulo 2^16, as the code does.)
TokensConserved ==
    IsSem => ledger = (value + Cardinality(Granted)) % (SemMax + 1)

\* No thread waits while a token is free.
NoWaiterAtToken == IsSem /\ value > 0 => suspend_thread = <<>>

\* A token is in one place: in value, or with the thread it was handed to, and in
\* value only when nobody waits for it.
SemInv == TokensConserved /\ NoWaiterAtToken
=============================================================================
