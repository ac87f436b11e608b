------------------------------- MODULE Channel -------------------------------
(***************************************************************************)
(* What the RT-Thread mailbox promises the threads that use it: a bounded  *)
(* first-in first-out channel.  A call is pending from its entry to its    *)
(* return; it takes effect in one step, the step that also decides what it *)
(* returns.  A mail is in the channel exactly when its send has returned   *)
(* (or will return) RT_EOK and no receive has returned it; a call that     *)
(* fails leaves the channel alone; -RT_EFULL is only returned by a call    *)
(* that found the channel full.                                            *)
(***************************************************************************)
EXTENDS Naturals, Sequences

CONSTANTS Thread,   \* the threads that call the channel
          Mail,     \* the mails (a mail is one machine word)
          NoMail,   \* "no mail", not a mail
          Size      \* capacity

VARIABLES queue,    \* the mails in the channel, oldest first
          result    \* result[t]: what the last call of t returned

cvars == <<queue, result>>

Pending   == [code |-> "pending", mail |-> NoMail]
Ok(v)     == [code |-> "EOK", mail |-> v]
Failed(c) == [code |-> c, mail |-> NoMail]

CInit == /\ queue = <<>>
         /\ result = [t \in Thread |-> Ok(NoMail)]

Return(t, r) == result' = [result EXCEPT ![t] = r]

Call(t) == /\ result[t] # Pending
           /\ Return(t, Pending)
           /\ UNCHANGED queue

Put(t, v) == /\ result[t] = Pending
             /\ Len(queue) < Size
             /\ queue' = Append(queue, v)
             /\ Return(t, Ok(v))

Take(t) == /\ result[t] = Pending
           /\ queue # <<>>
           /\ queue' = Tail(queue)
           /\ Return(t, Ok(Head(queue)))

\* the caller gave up (-RT_ETIMEOUT) or the channel was taken away (-RT_ERROR)
Fail(t) == /\ result[t] = Pending
           /\ \E c \in {"ETIMEOUT", "ERROR"} : Return(t, Failed(c))
           /\ UNCHANGED queue

Full(t) == /\ result[t] = Pending
           /\ Len(queue) = Size
           /\ Return(t, Failed("EFULL"))
           /\ UNCHANGED queue

\* RT_IPC_CMD_RESET drops every mail; a detach drops none
Reset(t) == /\ result[t] = Pending
            /\ queue' = <<>>
            /\ Return(t, Ok(NoMail))

Done(t) == /\ result[t] = Pending
           /\ Return(t, Ok(NoMail))
           /\ UNCHANGED queue

CNext == \E t \in Thread : \/ Call(t)
                           \/ \E v \in Mail : Put(t, v)
                           \/ Take(t)
                           \/ Fail(t)
                           \/ Full(t)
                           \/ Reset(t)
                           \/ Done(t)

CSpec == CInit /\ [][CNext]_cvars
=============================================================================
