------------------------------ MODULE MsgChannel ------------------------------
(***************************************************************************)
(* What the RT-Thread message queue promises: a bounded channel whose      *)
(* places are also occupied while a sender copies its message in or a      *)
(* receiver copies one out.  The message of a send goes behind all others, *)
(* the one of an urgent send in front of them; a receiver takes the first  *)
(* and gets exactly the message it took; and -RT_EFULL is returned only to *)
(* a sender and only while every place is occupied.                        *)
(***************************************************************************)
EXTENDS Naturals, Sequences, FiniteSets

CONSTANTS Thread, Mail, NoMail,
          Places        \* number of messages the queue was made for

VARIABLES queue,    \* the messages queued, next to be received first
          filling,  \* the threads copying a message in
          held,     \* held[t]: the message t is copying out, or NoMail
          call,     \* call[t]: the call t is in, with the message it sends
          result    \* what the last call of each thread returned

mvars == <<queue, filling, held, call, result>>

NoCall    == [op |-> "none", mail |-> NoMail]
SendCalls == [op : {"send", "urgent"}, mail : Mail]
\* "assert": on an object that has lost its type, it does not return
BareCalls == [op : {"recv", "reset", "detach", "assert"}, mail : {NoMail}]

Pending   == [code |-> "pending", mail |-> NoMail]
Ok(v)     == [code |-> "EOK", mail |-> v]
Failed(c) == [code |-> c, mail |-> NoMail]

Holding  == {t \in Thread : held[t] # NoMail}
Occupied == Len(queue) + Cardinality(filling) + Cardinality(Holding)

MInit == /\ queue = <<>>
         /\ filling = {}
         /\ held = [t \in Thread |-> NoMail]
         /\ call = [t \in Thread |-> NoCall]
         /\ result = [t \in Thread |-> Ok(NoMail)]

Return(t, r) == /\ result' = [result EXCEPT ![t] = r]
                /\ call' = [call EXCEPT ![t] = NoCall]

Call(t) == /\ call[t] = NoCall
           /\ \E c \in SendCalls \cup BareCalls : call' = [call EXCEPT ![t] = c]
           /\ result' = [result EXCEPT ![t] = Pending]
           /\ UNCHANGED <<queue, filling, held>>

Claim(t) == /\ call[t].op \in {"send", "urgent"}
            /\ t \notin filling
            /\ Occupied < Places
            /\ filling' = filling \cup {t}
            /\ UNCHANGED <<queue, held, call, result>>

\* the operation decides the end of the queue its message goes to
Put(t) == /\ t \in filling
          /\ filling' = filling \ {t}
          /\ \/ call[t].op = "send"   /\ queue' = Append(queue, call[t].mail)
             \/ call[t].op = "urgent" /\ queue' = <<call[t].mail>> \o queue
          /\ Return(t, Ok(call[t].mail))
          /\ UNCHANGED held

Take(t) == /\ call[t].op = "recv"
           /\ held[t] = NoMail
           /\ queue # <<>>
           /\ held' = [held EXCEPT ![t] = Head(queue)]
           /\ queue' = Tail(queue)
           /\ UNCHANGED <<filling, call, result>>

Release(t) == /\ held[t] # NoMail
              /\ held' = [held EXCEPT ![t] = NoMail]
              /\ Return(t, Ok(held[t]))
              /\ UNCHANGED <<queue, filling>>

\* a call of one of the operations ops returns r without a copy in its hands
Quit(t, ops, r) == /\ call[t].op \in ops
                   /\ t \notin filling
                   /\ held[t] = NoMail
                   /\ Return(t, r)
                   /\ UNCHANGED <<filling, held>>

Fail(t)  == /\ \/ Quit(t, {"send", "recv"}, Failed("ETIMEOUT"))
               \/ Quit(t, {"send", "urgent", "recv"}, Failed("ERROR"))
            /\ UNCHANGED queue
Full(t)  == Occupied = Places /\ Quit(t, {"send", "urgent"}, Failed("EFULL")) /\ UNCHANGED queue
Done(t)  == Quit(t, {"detach"}, Ok(NoMail)) /\ UNCHANGED queue
Reset(t) == Quit(t, {"reset"}, Ok(NoMail)) /\ queue' = <<>>

MNext == \E t \in Thread : \/ Call(t) \/ Claim(t) \/ Put(t) \/ Take(t) \/ Release(t)
                           \/ Fail(t) \/ Full(t) \/ Done(t) \/ Reset(t)

MSpec == MInit /\ [][MNext]_mvars
=============================================================================
