-------------------------------- MODULE Event --------------------------------
(***************************************************************************)
(* The event set of src/rt-thread/src/ipc.c: a send adds events and wakes, *)
(* in the order of the list, every thread whose condition holds; a thread  *)
(* with RT_EVENT_FLAG_CLEAR takes its events away before the next one is   *)
(* looked at.  The 32-bit set is a set of events.                          *)
(***************************************************************************)
EXTENDS WaitList

CONSTANTS Bit,         \* the events
          Asked,       \* what is waited for: all or one of a set, with or without CLEAR
          MaxSends     \* bound: sends

ASSUME BitAssumption   == IsFiniteSet(Bit) /\ MaxSends \in Nat
ASSUME AskedAssumption == Asked \subseteq [all : BOOLEAN, clear : BOOLEAN, set : (SUBSET Bit) \ {{}}]

VARIABLES set,         \* event->set
          event_set,   \* thread->event_set
          sends,
          credit       \* history: credit[b], sends of b less its takings with CLEAR

eventVars == <<set, event_set, sends, credit>>

EventInit == /\ set = {}
             /\ event_set = [t \in Thread |-> {}]
             /\ sends = 0
             /\ credit = [b \in Bit |-> 0]

\* option: RT_EVENT_FLAG_AND (all) or _OR, with or without _CLEAR
EventCall(t) ==
    /\ \/ /\ \E w \in Wait, a \in Asked :
               Enter(t, [Timed("recv", w) EXCEPT !.all = a.all, !.clear = a.clear, !.set = a.set])
          /\ UNCHANGED sends
       \/ /\ sends < MaxSends
          /\ sends' = sends + 1
          /\ \E s \in (SUBSET Bit) \ {{}} : Enter(t, [Plain("send") EXCEPT !.set = s])
       \/ Enter(t, Plain("reset")) /\ UNCHANGED sends
       \/ Enter(t, Plain("detach")) /\ UNCHANGED sends
    /\ UNCHANGED <<set, event_set, credit>>

\* mutant: RT_EVENT_FLAG_AND is not looked at
SatisfiedAny(o, s) == o.set \cap s # {}

\* the condition of call o holds for the events s
Satisfied(o, s) == IF o.all THEN o.set \subseteq s ELSE o.set \cap s # {}

Taken(c, bits) == [b \in Bit |-> IF b \in bits THEN c[b] - 1 ELSE c[b]]

EventRecv(t) ==
    /\ In(t, "recv")
    /\ LET o == call[t] IN
       IF Satisfied(o, set)
       THEN /\ Return(t)
            /\ UNCHANGED event_set
            /\ set' = IF o.clear THEN set \ o.set ELSE set
            /\ credit' = IF o.clear THEN Taken(credit, set \cap o.set) ELSE credit
       ELSE /\ \/ Refuse(t) /\ UNCHANGED event_set
               \/ Suspend(t) /\ event_set' = [event_set EXCEPT ![t] = o.set]
            /\ UNCHANGED <<set, credit>>
    /\ UNCHANGED <<sends, current_priority>>

\* mutant: the events a thread took are cleared after the scan
ClearedLate(s, w, got) == s

\* event->set after thread w was given got
Cleared(s, w, got) == IF call[w].clear THEN s \ got ELSE s

\* mutant: the scan ends with the first thread that is resumed
GoesOnOnce(r) == r.woken = {}

GoesOn(r) == TRUE

\* the scan reaches w: it is resumed with its events, or it stays on the list
Scan(r, w) ==
    LET o   == call[w]
        got == o.set \cap r.set
    IN  IF GoesOn(r) /\ Satisfied(o, r.set)
        THEN [set    |-> Cleared(r.set, w, got),
              woken  |-> r.woken \cup {w},
              given  |-> [r.given EXCEPT ![w] = got],
              credit |-> IF o.clear THEN Taken(r.credit, got) ELSE r.credit,
              list   |-> r.list]
        ELSE [r EXCEPT !.list = Append(@, w)]

\* the events s and the threads resumed, what they are given and those passed so far
ScanStart(s) ==
    [set |-> s, woken |-> {}, given |-> event_set, list |-> <<>>,
     credit |-> [b \in Bit |-> IF b \in s \ set THEN credit[b] + 1 ELSE credit[b]]]

Scanned(s) ==
    LET scan[i \in 0 .. Len(suspend_thread)] ==
          IF i = 0 THEN ScanStart(s) ELSE Scan(scan[i - 1], suspend_thread[i])
    IN  scan[Len(suspend_thread)]

EventSend(t) ==
    /\ In(t, "send")
    /\ LET r == Scanned(set \cup call[t].set) IN
       /\ set' = r.set
       /\ event_set' = r.given
       /\ credit' = r.credit
       /\ ReturnWaking(t, r.woken)
       /\ suspend_thread' = r.list
    /\ UNCHANGED <<error, sends, current_priority>>

\* rt_event_control(RT_IPC_CMD_RESET)
EventReset(t) ==
    /\ In(t, "reset")
    /\ ReturnResumingAll(t)
    /\ set' = {}
    /\ credit' = [b \in Bit |-> 0]
    /\ UNCHANGED <<event_set, sends, current_priority>>

\* a resumed thread returns thread->error; *recved is its event_set, which is
\* not used again and forgotten
EventReturn(t) ==
    /\ pc[t] = "resumed"
    /\ Return(t)
    /\ event_set' = [event_set EXCEPT ![t] = {}]
    /\ UNCHANGED <<set, sends, credit, current_priority>>

EventStep(t) == EventRecv(t) \/ EventSend(t) \/ EventReset(t) \/ EventReturn(t)

-----------------------------------------------------------------------------
(* Properties.                                                             *)

EventTypeOK == /\ set \subseteq Bit
               /\ event_set \in [Thread -> SUBSET Bit]
               /\ sends \in 0 .. MaxSends
               /\ credit \in [Bit -> Int]

\* No thread sleeps on events that are there, in whatever order the scan met
\* it and whatever the threads before it cleared.
NoSatisfiedSleeper ==
    \A t \in Suspended : call[t].op = "recv" => ~ Satisfied(call[t], set)

\* An event is taken with RT_EVENT_FLAG_CLEAR at most once for each time it
\* was set, and while it is set it has not been taken.
TakenOnce == /\ \A b \in Bit : credit[b] >= 0
             /\ \A b \in set : credit[b] >= 1

\* What a thread resumed by a send was given is what it asked for: one of its
\* events at least, and all of them with RT_EVENT_FLAG_AND.
GivenAsAsked ==
    \A t \in Granted : call[t].op = "recv" =>
        /\ event_set[t] # {} /\ event_set[t] \subseteq call[t].set
        /\ call[t].all => event_set[t] = call[t].set

\* Every event that was sent goes to the threads that asked for it, and to one
\* thread that clears it at most; nobody sleeps who should have been woken.
EventInv == NoSatisfiedSleeper /\ TakenOnce /\ GivenAsAsked
=============================================================================
