---------------------------- MODULE MailboxProofs ----------------------------
(***************************************************************************)
(* Proofs about the mailbox, for every set of threads, every set of mails, *)
(* every capacity and every bound on the timeouts.                         *)
(***************************************************************************)
EXTENDS Mailbox, FiniteSetTheorems, SequenceTheorems, TLAPS

-----------------------------------------------------------------------------
(* Waiting lists.                                                          *)

\* Unlinking the i-th node of a waiting list leaves a list of threads.
LEMMA RemoveType ==
  ASSUME NEW S, NEW s \in Seq(S), NEW i \in 1 .. Len(s)
  PROVE  /\ Remove(s, i) \in Seq(S)
         /\ Len(Remove(s, i)) = Len(s) - 1
         /\ \A j \in 1 .. Len(s) - 1 : Remove(s, i)[j] = IF j < i THEN s[j] ELSE s[j + 1]
BY DEF Remove

\* The head and the tail of a waiting list that is not empty.
LEMMA HeadTailType ==
  ASSUME NEW S, NEW s \in Seq(S), s # <<>>
  PROVE  Head(s) \in S /\ Tail(s) \in Seq(S)
OBVIOUS

\* Suspending a thread that is not yet waiting appends it once.
LEMMA EnumeratesAppend ==
  ASSUME NEW T, NEW s \in Seq(T), NEW S, NEW x \in T, x \notin S, Enumerates(s, S)
  PROVE  Enumerates(Append(s, x), S \cup {x})
BY DEF Enumerates

\* Resuming the head of a waiting list takes exactly that thread off it.
LEMMA EnumeratesTail ==
  ASSUME NEW T, NEW s \in Seq(T), NEW S, s # <<>>, Enumerates(s, S)
  PROVE  /\ Head(s) \in S
         /\ Head(s) \in T
         /\ Tail(s) \in Seq(T)
         /\ Enumerates(Tail(s), S \ {Head(s)})
<1>1. /\ Head(s) = s[1] /\ Len(s) >= 1 /\ Len(Tail(s)) = Len(s) - 1
      /\ Tail(s) \in Seq(T)
      /\ \A i \in 1 .. Len(s) - 1 : Tail(s)[i] = s[i + 1]
  OBVIOUS
<1>2. Head(s) \in S /\ Head(s) \in T
  BY <1>1 DEF Enumerates
<1>3. ASSUME NEW t \in S \ {Head(s)} PROVE \E i \in 1 .. Len(Tail(s)) : Tail(s)[i] = t
  <2>1. PICK k \in 1 .. Len(s) : s[k] = t
    BY DEF Enumerates
  <2>2. k # 1
    BY <2>1, <1>1
  <2>3. k - 1 \in 1 .. Len(Tail(s)) /\ Tail(s)[k - 1] = t
    BY <2>1, <2>2, <1>1
  <2> QED BY <2>3
<1> QED BY <1>1, <1>2, <1>3 DEF Enumerates

\* A timeout takes exactly the thread that timed out off its list.
LEMMA EnumeratesRemove ==
  ASSUME NEW T, NEW s \in Seq(T), NEW S, NEW i \in 1 .. Len(s), Enumerates(s, S)
  PROVE  Enumerates(Remove(s, i), S \ {s[i]})
<1>1. /\ Len(Remove(s, i)) = Len(s) - 1
      /\ \A j \in 1 .. Len(s) - 1 : Remove(s, i)[j] = IF j < i THEN s[j] ELSE s[j + 1]
  BY RemoveType
<1>2. ASSUME NEW t \in S \ {s[i]} PROVE \E j \in 1 .. Len(Remove(s, i)) : Remove(s, i)[j] = t
  <2>1. PICK k \in 1 .. Len(s) : s[k] = t
    BY DEF Enumerates
  <2>2. k # i
    BY <2>1
  <2>3. CASE k < i
    BY <2>1, <2>3, <1>1
  <2>4. CASE k > i
    <3>1. k - 1 \in 1 .. Len(s) - 1 /\ Remove(s, i)[k - 1] = s[k]
      BY <2>4, <1>1
    <3> QED BY <3>1, <2>1, <1>1
  <2> QED BY <2>2, <2>3, <2>4
<1>3. \A j \in 1 .. Len(Remove(s, i)) : Remove(s, i)[j] \in S \ {s[i]}
  BY <1>1 DEF Enumerates
<1>4. \A j, k \in 1 .. Len(Remove(s, i)) : Remove(s, i)[j] = Remove(s, i)[k] => j = k
  <2> SUFFICES ASSUME NEW j \in 1 .. Len(s) - 1, NEW k \in 1 .. Len(s) - 1,
                      Remove(s, i)[j] = Remove(s, i)[k]
               PROVE  j = k
    BY <1>1
  <2>1. PICK a \in 1 .. Len(s) : a = IF j < i THEN j ELSE j + 1
    OBVIOUS
  <2>2. PICK b \in 1 .. Len(s) : b = IF k < i THEN k ELSE k + 1
    OBVIOUS
  <2>3. s[a] = s[b]
    BY <1>1, <2>1, <2>2
  <2>4. a = b
    BY <2>3 DEF Enumerates
  <2> QED BY <2>1, <2>2, <2>4
<1> QED BY <1>2, <1>3, <1>4 DEF Enumerates

-----------------------------------------------------------------------------
(* Counting the threads made ready.                                        *)

\* Sets of threads are finite, so they can be counted.
LEMMA CardType ==
  ASSUME NEW S \in SUBSET Thread
  PROVE  IsFiniteSet(S) /\ Cardinality(S) \in Nat
BY ThreadAssumption, FS_Subset, FS_CardinalityType

\* One more ready thread.
LEMMA CardAdd ==
  ASSUME NEW S \in SUBSET Thread, NEW w \in Thread, w \notin S
  PROVE  Cardinality(S \cup {w}) = Cardinality(S) + 1
BY CardType, FS_AddElement

\* At most one ready thread fewer.
LEMMA CardRemove ==
  ASSUME NEW S \in SUBSET Thread, NEW t \in Thread
  PROVE  Cardinality(S) <= Cardinality(S \ {t}) + 1
<1>1. CASE t \in S
  <2>1. Cardinality(S \ {t}) = Cardinality(S) - 1
    BY <1>1, CardType, FS_RemoveElement
  <2> QED BY <2>1, CardType
<1>2. CASE t \notin S
  <2>1. S \ {t} = S
    BY <1>2
  <2> QED BY <2>1, CardType
<1> QED BY <1>1, <1>2

\* The sets of threads counted are sets of threads.
LEMMA SetTypes == \A p : At(p) \in SUBSET Thread /\ Woken(p) \in SUBSET Thread
BY DEF At, Woken

-----------------------------------------------------------------------------
(* Typing.                                                                 *)

USE DEF Forever, Timeout, IpcTypeOK

\* A call returns and possibly wakes a thread: the calls' variables keep
\* their types.
LEMMA ReturnType ==
  ASSUME TypeOK, NEW t \in Thread, NEW r \in Result,
         NEW w, NEW p \in IpcPC, ReturnWaking(t, r, w, p)
  PROVE  /\ pc' \in [Thread -> IpcPC]
         /\ timeout' \in [Thread -> Timeout]
         /\ error' \in [Thread -> Error]
         /\ value' \in [Thread -> Mail \cup {NoMail}]
         /\ result' \in [Thread -> Result]
BY TimeAssumption DEF TypeOK, ReturnWaking, IpcPC, Error

\* Init establishes the type invariant.
LEMMA TypeInit == Init => TypeOK
BY SizeAssumption, TimeAssumption DEF Init, IpcInit, TypeOK, IpcPC, Error, Code, Result, Ok

\* What a call of the mailbox returns is a well-formed result.
LEMMA ResultType ==
  ASSUME TypeOK, NEW t \in Thread
  PROVE  /\ \A v \in Mail \cup {NoMail} : Ok(v) \in Result
         /\ \A c \in Code : Failed(c) \in Result
         /\ Pending \in Result
BY DEF Ok, Failed, Pending, Result, Code, Error

\* Starting a call keeps the types.
LEMMA CallType ==
  ASSUME TypeOK, NEW t \in Thread, NEW p \in IpcPC, NEW v \in Mail \cup {NoMail},
         NEW to \in Timeout, Enter(t, p, v, to), UNCHANGED ring
  PROVE  TypeOK'
BY ResultType DEF Enter, Goto, TypeOK, Error, ring, lists

\* The loop of rt_mb_send_wait keeps the types.
LEMMA SendTryType ==
  ASSUME TypeOK, NEW t \in Thread, NEW to \in Timeout, SendTry(t, to)
  PROVE  TypeOK'
<1>1. CASE SendStore(t)
  <2>1. entry + 1 \in 0 .. Size /\ Advance(in_offset) \in 0 .. Size - 1
    BY <1>1, SizeAssumption DEF SendStore, Full, TypeOK, Advance
  <2>2. Ok(value[t]) \in Result
    BY ResultType DEF TypeOK
  <2>3. PICK w : ReturnWaking(t, Ok(value[t]), w, "recv_resumed")
    BY <1>1 DEF SendStore, ReturnToReceiver
  <2>4. suspend_thread' \in Seq(Thread)
    <3>1. suspend_thread \in Seq(Thread)
      BY DEF TypeOK
    <3>2. suspend_thread # <<>> => Tail(suspend_thread) \in Seq(Thread)
      BY <3>1, HeadTailType
    <3>3. \/ suspend_thread' = suspend_thread
          \/ suspend_thread # <<>> /\ suspend_thread' = Tail(suspend_thread)
      BY <1>1 DEF SendStore, ReturnToReceiver, ResumeReceiver
    <3> QED BY <3>1, <3>2, <3>3
  <2> QED BY <1>1, <2>1, <2>2, <2>3, <2>4, ReturnType DEF SendStore, ReturnToReceiver, TypeOK, IpcPC
<1>2. CASE SendRefuse(t, to)
  <2>1. Failed("EFULL") \in Result
    BY ResultType DEF Code
  <2> QED BY <1>2, <2>1, ReturnType DEF SendRefuse, Return, TypeOK, IpcPC, ring, lists
<1>3. CASE SendSuspend(t, to)
  BY <1>3 DEF SendSuspend, SuspendSender, Goto, TypeOK, IpcPC, Error, ring
<1> QED BY <1>1, <1>2, <1>3 DEF SendTry

\* The loop of rt_mb_recv keeps the types.
LEMMA RecvTryType ==
  ASSUME TypeOK, NEW t \in Thread, NEW to \in Timeout, RecvTry(t, to)
  PROVE  TypeOK'
<1>1. CASE RecvTake(t)
  <2>1. entry - 1 \in 0 .. Size /\ Advance(out_offset) \in 0 .. Size - 1
    BY <1>1, SizeAssumption DEF RecvTake, Empty, TypeOK, Advance
  <2>2. Ok(Fetch) \in Result
    BY ResultType DEF TypeOK, Fetch
  <2>3. PICK w : ReturnWaking(t, Ok(Fetch), w, "send_resumed")
    BY <1>1 DEF RecvTake, ReturnToSender
  <2>4. suspend_sender_thread' \in Seq(Thread)
    <3>1. suspend_sender_thread \in Seq(Thread)
      BY DEF TypeOK
    <3>2. suspend_sender_thread # <<>> => Tail(suspend_sender_thread) \in Seq(Thread)
      BY <3>1, HeadTailType
    <3>3. \/ suspend_sender_thread' = suspend_sender_thread
          \/ suspend_sender_thread # <<>> /\ suspend_sender_thread' = Tail(suspend_sender_thread)
      BY <1>1 DEF RecvTake, ReturnToSender, ResumeSender
    <3> QED BY <3>1, <3>2, <3>3
  <2> QED BY <1>1, <2>1, <2>2, <2>3, <2>4, ReturnType DEF RecvTake, ReturnToSender, TypeOK, IpcPC
<1>2. CASE RecvRefuse(t, to)
  <2>1. Failed("ETIMEOUT") \in Result
    BY ResultType DEF Code, Error
  <2> QED BY <1>2, <2>1, ReturnType DEF RecvRefuse, Return, TypeOK, IpcPC, ring, lists
<1>3. CASE RecvSuspend(t, to)
  BY <1>3 DEF RecvSuspend, SuspendReceiver, Goto, TypeOK, IpcPC, Error, ring
<1> QED BY <1>1, <1>2, <1>3 DEF RecvTry

\* The ticks left after a sleep are a timeout again.
LEMMA RemainingType ==
  ASSUME TypeOK, NEW t \in Thread
  PROVE  Remaining(t) \subseteq Timeout
BY TimeAssumption DEF Remaining, TypeOK

\* A frozen system takes no step; the others are steps of some thread.
LEMMA NextIsStep == [Next]_vars => [Step]_vars
BY DEF Next

\* Every step keeps the types.
LEMMA TypeNext == TypeOK /\ [Step]_vars => TypeOK'
<1> SUFFICES ASSUME TypeOK, [Step]_vars PROVE TypeOK'
  OBVIOUS
<1>1. CASE UNCHANGED vars
  BY <1>1 DEF TypeOK, vars, ipcvars, ring, lists, calls
<1>2. ASSUME NEW t \in Thread, Start(t) PROVE TypeOK'
  <2>1. /\ {"send", "recv", "detach_recv", "control", "assert_type"} \subseteq IpcPC
        /\ 0 \in Timeout
    BY TimeAssumption DEF IpcPC
  <2> QED BY <1>2, <2>1, CallType
         DEF Start, SendCall, RecvCall, DetachCall, ControlCall, AssertType, Call
<1>3. ASSUME NEW t \in Thread, Continue(t) PROVE TypeOK'
  <2>0. timeout[t] \in Timeout /\ Remaining(t) \subseteq Timeout
    BY RemainingType DEF TypeOK
  <2>1. CASE SendFirst(t) \/ SendAgain(t)
    BY <2>1, <2>0, SendTryType DEF SendFirst, SendAgain
  <2>2. CASE RecvFirst(t) \/ RecvAgain(t)
    BY <2>2, <2>0, RecvTryType DEF RecvFirst, RecvAgain
  <2>3. CASE (SendFailed(t) \/ RecvFailed(t)) /\ UNCHANGED ring
    <3>1. Failed(error[t]) \in Result
      BY ResultType DEF TypeOK, Code
    <3> QED BY <2>3, <3>1, ReturnType
           DEF SendFailed, RecvFailed, Return, TypeOK, IpcPC, ring, lists
  <2>4. CASE (DetachTestRecv(t) \/ DetachTestSend(t)) /\ UNCHANGED ring
    BY <2>4 DEF DetachTestRecv, DetachTestSend, Goto, TypeOK, IpcPC, ring, lists
  <2>5. CASE DetachResumeRecv(t) /\ UNCHANGED ring
    <3>1. suspend_thread # <<>> => /\ Head(suspend_thread) \in Thread
                                  /\ Tail(suspend_thread) \in Seq(Thread)
      BY HeadTailType DEF TypeOK
    <3>2. /\ suspend_thread' \in Seq(Thread)
          /\ pc' \in [Thread -> IpcPC]
          /\ error' \in [Thread -> Error]
      BY <2>5, <3>1 DEF DetachResumeRecv, Goto, TypeOK, IpcPC, Error
    <3> QED BY <2>5, <3>2 DEF DetachResumeRecv, TypeOK, ring
  <2>6. CASE DetachResumeSend(t) /\ UNCHANGED ring
    <3>1. suspend_sender_thread # <<>> => /\ Head(suspend_sender_thread) \in Thread
                                  /\ Tail(suspend_sender_thread) \in Seq(Thread)
      BY HeadTailType DEF TypeOK
    <3>2. /\ suspend_sender_thread' \in Seq(Thread)
          /\ pc' \in [Thread -> IpcPC]
          /\ error' \in [Thread -> Error]
      BY <2>6, <3>1 DEF DetachResumeSend, Goto, TypeOK, IpcPC, Error
    <3> QED BY <2>6, <3>2 DEF DetachResumeSend, TypeOK, ring
  <2>7. CASE DetachObject(t) /\ UNCHANGED ring
    <3>1. Ok(NoMail) \in Result
      BY ResultType
    <3> QED BY <2>7, <3>1, ReturnType DEF DetachObject, TypeOK, IpcPC, ring, lists
  <2>8. CASE ControlReset(t)
    <3>1. Ok(NoMail) \in Result
      BY ResultType
    <3> QED BY <2>8, <3>1, SizeAssumption DEF ControlReset, ResumeAll, TypeOK, IpcPC, Error
  <2> QED BY <1>3, <2>1, <2>2, <2>3, <2>4, <2>5, <2>6, <2>7, <2>8 DEF Continue, IpcContinue
<1>4. ASSUME NEW t \in Thread, TimerStep(t) PROVE TypeOK'
  <2>1. /\ suspend_thread' \in Seq(Thread)
        /\ suspend_sender_thread' \in Seq(Thread)
        /\ pc' \in [Thread -> IpcPC]
    <3>1. ASSUME NEW i \in 1 .. Len(suspend_thread)
          PROVE  Remove(suspend_thread, i) \in Seq(Thread)
      BY RemoveType DEF TypeOK
    <3>2. ASSUME NEW i \in 1 .. Len(suspend_sender_thread)
          PROVE  Remove(suspend_sender_thread, i) \in Seq(Thread)
      BY RemoveType DEF TypeOK
    <3> QED BY <1>4, <3>1, <3>2 DEF TimerStep, Expire, Unlink, Goto, TypeOK, IpcPC
  <2> QED BY <1>4, <2>1 DEF TimerStep, Expire, TypeOK, Error, ring
<1> QED BY <1>1, <1>2, <1>3, <1>4 DEF Step

\* Type correctness: offsets, entry count, lists and calls of the mailbox stay
\* within their ranges whatever calls, timeouts and detaches interleave.
THEOREM TypeCorrect == Spec => []TypeOK
BY TypeInit, TypeNext, NextIsStep, PTL DEF Spec

-----------------------------------------------------------------------------
(* The inductive invariant, one lemma per kind of step.                    *)

\* The initial state satisfies the inductive invariant.
LEMMA InvInit == Init => IInv
<1> SUFFICES ASSUME Init PROVE IInv
  OBVIOUS
<1>1. TypeOK
  BY TypeInit
<1>2. SuspendedExactlyOnce
  BY DEF Init, IpcInit, SuspendedExactlyOnce, Enumerates, At
<1>3. NoLostWakeup
  BY DEF Init, IpcInit, NoLostWakeup
<1>4. RingInv
  BY SizeAssumption DEF Init, IpcInit, RingInv, Slot
<1>5. CallInv
  BY DEF Init, IpcInit, CallInv, Ok, Pending, Failed
<1> QED BY <1>1, <1>2, <1>3, <1>4, <1>5 DEF IInv

\* A step that changes neither lists nor ring, nor who is suspended or woken,
\* keeps the invariants about them.
LEMMA InvQuiet ==
  ASSUME IInv, UNCHANGED <<ring, lists>>,
         At("recv_suspended")' = At("recv_suspended"),
         At("send_suspended")' = At("send_suspended"),
         Woken("recv_resumed")' = Woken("recv_resumed"),
         Woken("send_resumed")' = Woken("send_resumed")
  PROVE  SuspendedExactlyOnce' /\ NoLostWakeup' /\ RingInv'
<1>1. SuspendedExactlyOnce'
  BY DEF IInv, SuspendedExactlyOnce, lists, Enumerates
<1>2. NoLostWakeup'
  BY DEF IInv, NoLostWakeup, lists, ring
<1>3. RingInv'
  BY DEF IInv, RingInv, ring, Slot
<1> QED BY <1>1, <1>2, <1>3

\* Entering a call.
LEMMA InvCall ==
  ASSUME IInv, NEW t \in Thread, NEW v \in Mail \cup {NoMail}, NEW to \in Timeout,
         NEW p \in {"send", "recv", "detach_recv", "control", "assert_type"},
         p = "send" => v \in Mail, Enter(t, p, v, to), UNCHANGED ring
  PROVE  IInv'
<1>1. TypeOK'
  BY CallType DEF IInv, IpcPC
<1>2. /\ At("recv_suspended")' = At("recv_suspended")
      /\ At("send_suspended")' = At("send_suspended")
  BY DEF Enter, Goto, IInv, TypeOK, At
<1>3. /\ Woken("recv_resumed")' = Woken("recv_resumed")
      /\ Woken("send_resumed")' = Woken("send_resumed")
  BY DEF Enter, Goto, IInv, TypeOK, At, Woken
<1>4. CallInv'
  BY DEF Enter, Goto, IInv, TypeOK, CallInv
<1>5. UNCHANGED <<ring, lists>>
  BY DEF Enter
<1> QED BY <1>1, <1>2, <1>3, <1>4, <1>5, InvQuiet DEF IInv

\* A return keeps what CallInv says of every thread, if the thread it wakes
\* was suspended in the same kind of call.
LEMMA CallInvReturn ==
  ASSUME TypeOK, CallInv, NEW t \in Thread, NEW r, r # Pending,
         NEW w \in SUBSET Thread, NEW p \in {"recv_resumed", "send_resumed"},
         \A x \in w : x # t /\ pc[x] = (IF p = "recv_resumed" THEN "recv_suspended" ELSE "send_suspended"),
         ReturnWaking(t, r, w, p)
  PROVE  CallInv'
BY DEF TypeOK, CallInv, ReturnWaking

\* Storing a mail keeps the invariant, whether or not it wakes a recv.
LEMMA InvSendStore ==
  ASSUME IInv, NEW t \in Thread, pc[t] \in {"send", "send_resumed"}, SendStore(t)
  PROVE  IInv'
<1> DEFINE r == Ok(value[t])
<1> USE DEF IInv
<1>0. r # Pending
  BY DEF Ok, Pending, Failed
<1>t. TypeOK'
  <2>1. 0 \in Timeout /\ SendTry(t, 0)
    BY TimeAssumption DEF SendTry
  <2> HIDE DEF IInv
  <2> QED BY <2>1, SendTryType DEF IInv
<1>r. RingInv'
  BY SizeAssumption DEF SendStore, Full, TypeOK, RingInv, Slot, Advance
<1>c. \A S \in SUBSET Thread : Cardinality(S) \in Nat
  BY CardType
<1>1. CASE suspend_thread = <<>>
  <2>1. suspend_thread' = <<>> /\ suspend_sender_thread' = suspend_sender_thread /\ ReturnWaking(t, r, {}, "recv_resumed")
    BY <1>1 DEF SendStore, ReturnToReceiver, ResumeReceiver
  <2>2. CallInv'
    BY <2>1, <1>0, CallInvReturn
  <2>3. /\ At("recv_suspended")' = At("recv_suspended")
        /\ At("send_suspended")' = At("send_suspended")
        /\ Woken("send_resumed")' = Woken("send_resumed") \ {t}
    BY <2>1 DEF ReturnWaking, TypeOK, At, Woken
  <2>4. SuspendedExactlyOnce'
    BY <1>1, <2>1, <2>3 DEF SuspendedExactlyOnce, Enumerates
  <2>5. NoLostWakeup'
    <3>1. Cardinality(Woken("send_resumed")) <= Cardinality(Woken("send_resumed")') + 1
      BY <2>3, SetTypes, CardRemove
    <3>2. Cardinality(Woken("send_resumed")) \in Nat /\ Cardinality(Woken("send_resumed")') \in Nat
      BY <2>3, <1>c, SetTypes
    <3>3. entry' = entry + 1
      BY DEF SendStore
    <3> QED BY <2>1, <3>1, <3>2, <3>3, SizeAssumption DEF NoLostWakeup, TypeOK
  <2> QED BY <1>t, <1>r, <2>2, <2>4, <2>5
<1>2. CASE suspend_thread # <<>>
  <2> DEFINE w == Head(suspend_thread)
  <2>1. /\ suspend_thread' = Tail(suspend_thread)
        /\ suspend_sender_thread' = suspend_sender_thread
        /\ ReturnWaking(t, r, {w}, "recv_resumed")
    BY <1>2 DEF SendStore, ReturnToReceiver, ResumeReceiver
  <2>2. /\ w \in Thread
        /\ pc[w] = "recv_suspended"
        /\ Enumerates(suspend_thread', At("recv_suspended") \ {w})
    <3>1. suspend_thread \in Seq(Thread) /\ Enumerates(suspend_thread, At("recv_suspended"))
      BY DEF TypeOK, SuspendedExactlyOnce
    <3>2. w \in Thread /\ w \in At("recv_suspended") /\ Enumerates(Tail(suspend_thread), At("recv_suspended") \ {w})
      BY <1>2, <3>1, EnumeratesTail
    <3> QED BY <2>1, <3>2 DEF At
  <2>3. w # t /\ error[w] = "EOK"
    BY <2>2 DEF CallInv
  <2>4. CallInv'
    <3> HIDE DEF w, r
    <3> QED BY <2>1, <2>2, <2>3, <1>0 DEF ReturnWaking, TypeOK, CallInv
  <2>5. /\ At("recv_suspended")' = At("recv_suspended") \ {w}
        /\ At("send_suspended")' = At("send_suspended")
        /\ Woken("send_resumed")' = Woken("send_resumed") \ {t}
        /\ Woken("recv_resumed")' = Woken("recv_resumed") \cup {w}
        /\ w \notin Woken("recv_resumed")
    <3> HIDE DEF w, r
    <3> QED BY <2>1, <2>2, <2>3 DEF ReturnWaking, TypeOK, At, Woken
  <2>6. SuspendedExactlyOnce'
    BY <2>1, <2>2, <2>5 DEF SuspendedExactlyOnce, Enumerates
  <2>7. NoLostWakeup'
    <3>1. Cardinality(Woken("send_resumed")) <= Cardinality(Woken("send_resumed")') + 1
      BY <2>5, SetTypes, CardRemove
    <3>2. Cardinality(Woken("recv_resumed")') = Cardinality(Woken("recv_resumed")) + 1
      BY <2>2, <2>5, SetTypes, CardAdd
    <3>3. /\ Cardinality(Woken("send_resumed")) \in Nat
          /\ Cardinality(Woken("send_resumed")') \in Nat
          /\ Cardinality(Woken("recv_resumed")) \in Nat
      BY <2>5, <1>c, SetTypes
    <3>4. entry' = entry + 1
      BY DEF SendStore
    <3> QED BY <1>2, <2>1, <3>1, <3>2, <3>3, <3>4, SizeAssumption DEF NoLostWakeup, TypeOK
  <2> QED BY <1>t, <1>r, <2>4, <2>6, <2>7
<1> QED BY <1>1, <1>2

\* Taking a mail keeps the invariant, whether or not it wakes a send.
LEMMA InvRecvTake ==
  ASSUME IInv, NEW t \in Thread, pc[t] \in {"recv", "recv_resumed"}, RecvTake(t)
  PROVE  IInv'
<1> DEFINE r == Ok(Fetch)
<1> USE DEF IInv
<1>0. r # Pending
  BY DEF Ok, Pending, Failed
<1>t. TypeOK'
  <2>1. 0 \in Timeout /\ RecvTry(t, 0)
    BY TimeAssumption DEF RecvTry
  <2> HIDE DEF IInv
  <2> QED BY <2>1, RecvTryType DEF IInv
<1>r. RingInv'
  BY SizeAssumption DEF RecvTake, Empty, TypeOK, RingInv, Slot, Advance
<1>c. \A S \in SUBSET Thread : Cardinality(S) \in Nat
  BY CardType
<1>1. CASE suspend_sender_thread = <<>>
  <2>1. suspend_sender_thread' = <<>> /\ suspend_thread' = suspend_thread /\ ReturnWaking(t, r, {}, "send_resumed")
    BY <1>1 DEF RecvTake, ReturnToSender, ResumeSender
  <2>2. CallInv'
    BY <2>1, <1>0, CallInvReturn
  <2>3. /\ At("send_suspended")' = At("send_suspended")
        /\ At("recv_suspended")' = At("recv_suspended")
        /\ Woken("recv_resumed")' = Woken("recv_resumed") \ {t}
    BY <2>1 DEF ReturnWaking, TypeOK, At, Woken
  <2>4. SuspendedExactlyOnce'
    BY <1>1, <2>1, <2>3 DEF SuspendedExactlyOnce, Enumerates
  <2>5. NoLostWakeup'
    <3>1. Cardinality(Woken("recv_resumed")) <= Cardinality(Woken("recv_resumed")') + 1
      BY <2>3, SetTypes, CardRemove
    <3>2. Cardinality(Woken("recv_resumed")) \in Nat /\ Cardinality(Woken("recv_resumed")') \in Nat
      BY <2>3, <1>c, SetTypes
    <3>3. entry' = entry - 1
      BY DEF RecvTake
    <3> QED BY <2>1, <3>1, <3>2, <3>3, SizeAssumption DEF NoLostWakeup, TypeOK
  <2> QED BY <1>t, <1>r, <2>2, <2>4, <2>5
<1>2. CASE suspend_sender_thread # <<>>
  <2> DEFINE w == Head(suspend_sender_thread)
  <2>1. /\ suspend_sender_thread' = Tail(suspend_sender_thread)
        /\ suspend_thread' = suspend_thread
        /\ ReturnWaking(t, r, {w}, "send_resumed")
    BY <1>2 DEF RecvTake, ReturnToSender, ResumeSender
  <2>2. /\ w \in Thread
        /\ pc[w] = "send_suspended"
        /\ Enumerates(suspend_sender_thread', At("send_suspended") \ {w})
    <3>1. suspend_sender_thread \in Seq(Thread) /\ Enumerates(suspend_sender_thread, At("send_suspended"))
      BY DEF TypeOK, SuspendedExactlyOnce
    <3>2. w \in Thread /\ w \in At("send_suspended") /\ Enumerates(Tail(suspend_sender_thread), At("send_suspended") \ {w})
      BY <1>2, <3>1, EnumeratesTail
    <3> QED BY <2>1, <3>2 DEF At
  <2>3. w # t /\ error[w] = "EOK"
    BY <2>2 DEF CallInv
  <2>4. CallInv'
    <3> HIDE DEF w, r
    <3> QED BY <2>1, <2>2, <2>3, <1>0 DEF ReturnWaking, TypeOK, CallInv
  <2>5. /\ At("send_suspended")' = At("send_suspended") \ {w}
        /\ At("recv_suspended")' = At("recv_suspended")
        /\ Woken("recv_resumed")' = Woken("recv_resumed") \ {t}
        /\ Woken("send_resumed")' = Woken("send_resumed") \cup {w}
        /\ w \notin Woken("send_resumed")
    <3> HIDE DEF w, r
    <3> QED BY <2>1, <2>2, <2>3 DEF ReturnWaking, TypeOK, At, Woken
  <2>6. SuspendedExactlyOnce'
    BY <2>1, <2>2, <2>5 DEF SuspendedExactlyOnce, Enumerates
  <2>7. NoLostWakeup'
    <3>1. Cardinality(Woken("recv_resumed")) <= Cardinality(Woken("recv_resumed")') + 1
      BY <2>5, SetTypes, CardRemove
    <3>2. Cardinality(Woken("send_resumed")') = Cardinality(Woken("send_resumed")) + 1
      BY <2>2, <2>5, SetTypes, CardAdd
    <3>3. /\ Cardinality(Woken("recv_resumed")) \in Nat
          /\ Cardinality(Woken("recv_resumed")') \in Nat
          /\ Cardinality(Woken("send_resumed")) \in Nat
      BY <2>5, <1>c, SetTypes
    <3>4. entry' = entry - 1
      BY DEF RecvTake
    <3> QED BY <1>2, <2>1, <3>1, <3>2, <3>3, <3>4, SizeAssumption DEF NoLostWakeup, TypeOK
  <2> QED BY <1>t, <1>r, <2>4, <2>6, <2>7
<1> QED BY <1>1, <1>2

\* A sender goes to sleep.
LEMMA InvSendSuspend ==
  ASSUME IInv, NEW t \in Thread, pc[t] \in {"send", "send_resumed"}, NEW to \in Timeout,
         SendSuspend(t, to)
  PROVE  IInv'
<1>1. TypeOK'
  BY SendTryType DEF IInv, SendTry
<1> USE DEF IInv
<1>2. /\ At("send_suspended")' = At("send_suspended") \cup {t}
      /\ At("recv_suspended")' = At("recv_suspended")
      /\ t \notin At("send_suspended")
      /\ Woken("recv_resumed")' = Woken("recv_resumed")
  BY DEF SendSuspend, SuspendSender, Goto, TypeOK, At, Woken
<1>3. SuspendedExactlyOnce'
  <2>1. Enumerates(suspend_sender_thread', At("send_suspended")')
    <3>1. suspend_sender_thread \in Seq(Thread) /\ Enumerates(suspend_sender_thread, At("send_suspended"))
      BY DEF TypeOK, SuspendedExactlyOnce
    <3>2. suspend_sender_thread' = Append(suspend_sender_thread, t)
      BY DEF SendSuspend, SuspendSender
    <3> HIDE DEF IInv
    <3> QED BY <1>2, <3>1, <3>2, EnumeratesAppend
  <2>2. Enumerates(suspend_thread', At("recv_suspended")')
    BY <1>2 DEF SendSuspend, SuspendSender, SuspendedExactlyOnce
  <2> QED BY <2>1, <2>2 DEF SuspendedExactlyOnce
<1>4. NoLostWakeup'
  <2>1. Cardinality(Woken("send_resumed")') \in Nat
    BY <1>1, CardType DEF Woken, At
  <2> QED BY <1>2, <2>1, SizeAssumption DEF SendSuspend, SuspendSender, Full, NoLostWakeup, TypeOK, ring
<1>5. RingInv'
  BY DEF SendSuspend, RingInv, Slot, ring
<1>6. CallInv'
  BY DEF SendSuspend, SuspendSender, Goto, CallInv, TypeOK
<1> QED BY <1>1, <1>3, <1>4, <1>5, <1>6

\* A sender gives up without waiting.
LEMMA InvSendRefuse ==
  ASSUME IInv, NEW t \in Thread, pc[t] \in {"send", "send_resumed"}, NEW to \in Timeout,
         SendRefuse(t, to)
  PROVE  IInv'
<1>1. TypeOK'
  BY SendTryType DEF IInv, SendTry
<1> USE DEF IInv
<1>0. /\ ReturnWaking(t, Failed("EFULL"), {}, "idle")
      /\ UNCHANGED <<ring, lists>>
      /\ Failed("EFULL") # Pending
  BY DEF SendRefuse, Return, Failed, Pending
<1>2. /\ At("send_suspended")' = At("send_suspended")
      /\ At("recv_suspended")' = At("recv_suspended")
      /\ Woken("recv_resumed")' = Woken("recv_resumed")
  BY <1>0 DEF ReturnWaking, TypeOK, At, Woken
<1>3. SuspendedExactlyOnce'
  BY <1>0, <1>2 DEF lists, SuspendedExactlyOnce
<1>4. NoLostWakeup'
  <2>1. Cardinality(Woken("send_resumed")') \in Nat
    BY CardType DEF Woken, At
  <2> QED BY <1>0, <1>2, <2>1, SizeAssumption DEF SendRefuse, Full, NoLostWakeup, TypeOK, ring, lists
<1>5. RingInv'
  BY <1>0 DEF RingInv, Slot, ring
<1>6. CallInv'
  BY <1>0 DEF ReturnWaking, CallInv, TypeOK
<1> QED BY <1>1, <1>3, <1>4, <1>5, <1>6

\* A receiver goes to sleep.
LEMMA InvRecvSuspend ==
  ASSUME IInv, NEW t \in Thread, pc[t] \in {"recv", "recv_resumed"}, NEW to \in Timeout,
         RecvSuspend(t, to)
  PROVE  IInv'
<1>1. TypeOK'
  BY RecvTryType DEF IInv, RecvTry
<1> USE DEF IInv
<1>2. /\ At("recv_suspended")' = At("recv_suspended") \cup {t}
      /\ At("send_suspended")' = At("send_suspended")
      /\ t \notin At("recv_suspended")
      /\ Woken("send_resumed")' = Woken("send_resumed")
  BY DEF RecvSuspend, SuspendReceiver, Goto, TypeOK, At, Woken
<1>3. SuspendedExactlyOnce'
  <2>1. Enumerates(suspend_thread', At("recv_suspended")')
    <3>1. suspend_thread \in Seq(Thread) /\ Enumerates(suspend_thread, At("recv_suspended"))
      BY DEF TypeOK, SuspendedExactlyOnce
    <3>2. suspend_thread' = Append(suspend_thread, t)
      BY DEF RecvSuspend, SuspendReceiver
    <3> HIDE DEF IInv
    <3> QED BY <1>2, <3>1, <3>2, EnumeratesAppend
  <2>2. Enumerates(suspend_sender_thread', At("send_suspended")')
    BY <1>2 DEF RecvSuspend, SuspendReceiver, SuspendedExactlyOnce
  <2> QED BY <2>1, <2>2 DEF SuspendedExactlyOnce
<1>4. NoLostWakeup'
  <2>1. Cardinality(Woken("recv_resumed")') \in Nat
    BY <1>1, CardType DEF Woken, At
  <2> QED BY <1>2, <2>1, SizeAssumption DEF RecvSuspend, SuspendReceiver, Empty, NoLostWakeup, TypeOK, ring
<1>5. RingInv'
  BY DEF RecvSuspend, RingInv, Slot, ring
<1>6. CallInv'
  BY DEF RecvSuspend, SuspendReceiver, Goto, CallInv, TypeOK
<1> QED BY <1>1, <1>3, <1>4, <1>5, <1>6

\* A receiver gives up without waiting.
LEMMA InvRecvRefuse ==
  ASSUME IInv, NEW t \in Thread, pc[t] \in {"recv", "recv_resumed"}, NEW to \in Timeout,
         RecvRefuse(t, to)
  PROVE  IInv'
<1>1. TypeOK'
  BY RecvTryType DEF IInv, RecvTry
<1> USE DEF IInv
<1>0. /\ ReturnWaking(t, Failed("ETIMEOUT"), {}, "idle")
      /\ UNCHANGED <<ring, lists>>
      /\ Failed("ETIMEOUT") # Pending
  BY DEF RecvRefuse, Return, Failed, Pending
<1>2. /\ At("recv_suspended")' = At("recv_suspended")
      /\ At("send_suspended")' = At("send_suspended")
      /\ Woken("send_resumed")' = Woken("send_resumed")
  BY <1>0 DEF ReturnWaking, TypeOK, At, Woken
<1>3. SuspendedExactlyOnce'
  BY <1>0, <1>2 DEF lists, SuspendedExactlyOnce
<1>4. NoLostWakeup'
  <2>1. Cardinality(Woken("recv_resumed")') \in Nat
    BY CardType DEF Woken, At
  <2> QED BY <1>0, <1>2, <2>1, SizeAssumption DEF RecvRefuse, Empty, NoLostWakeup, TypeOK, ring, lists
<1>5. RingInv'
  BY <1>0 DEF RingInv, Slot, ring
<1>6. CallInv'
  BY <1>0 DEF ReturnWaking, CallInv, TypeOK
<1> QED BY <1>1, <1>3, <1>4, <1>5, <1>6

\* A thread that woke up with an error returns it.
LEMMA InvFailed ==
  ASSUME IInv, NEW t \in Thread, SendFailed(t) \/ RecvFailed(t), UNCHANGED ring
  PROVE  IInv'
<1>0. /\ ReturnWaking(t, Failed(error[t]), {}, "idle")
      /\ UNCHANGED <<ring, lists>>
      /\ pc[t] \in {"send_resumed", "recv_resumed"} /\ error[t] # "EOK"
      /\ Failed(error[t]) # Pending
  <2>1. error[t] # "pending"
    BY DEF IInv, TypeOK, Error
  <2> QED BY <2>1 DEF SendFailed, RecvFailed, Return, Failed, Pending
<1>1. TypeOK'
  <2>1. Step
    BY DEF Step, Continue, IpcContinue
  <2> QED BY <2>1, TypeNext DEF IInv
<1>2. /\ At("recv_suspended")' = At("recv_suspended")
      /\ At("send_suspended")' = At("send_suspended")
      /\ Woken("recv_resumed")' = Woken("recv_resumed")
      /\ Woken("send_resumed")' = Woken("send_resumed")
  BY <1>0 DEF IInv, ReturnWaking, TypeOK, At, Woken
<1>3. CallInv'
  BY <1>0 DEF IInv, ReturnWaking, CallInv, TypeOK
<1> QED BY <1>0, <1>1, <1>2, <1>3, InvQuiet DEF IInv

\* A step of rt_mb_detach that only tests a list, or detaches the object.
LEMMA InvDetachQuiet ==
  ASSUME IInv, NEW t \in Thread,
         DetachTestRecv(t) \/ DetachTestSend(t) \/ DetachObject(t), UNCHANGED ring
  PROVE  IInv'
<1>0. /\ pc[t] \in {"detach_recv", "detach_send"}
      /\ UNCHANGED <<ring, lists>>
      /\ \/ /\ \E p \in {"detach_recv_locked", "detach_send", "detach_send_locked"} : Goto(t, p)
            /\ UNCHANGED <<error, value, result>>
         \/ ReturnWaking(t, Ok(NoMail), {}, "idle")
  BY DEF DetachTestRecv, DetachTestSend, DetachObject
<1>1. TypeOK'
  <2>1. Step
    BY DEF Step, Continue, IpcContinue
  <2> QED BY <2>1, TypeNext DEF IInv
<1>2. /\ At("recv_suspended")' = At("recv_suspended")
      /\ At("send_suspended")' = At("send_suspended")
      /\ Woken("recv_resumed")' = Woken("recv_resumed")
      /\ Woken("send_resumed")' = Woken("send_resumed")
  BY <1>0 DEF IInv, ReturnWaking, Goto, TypeOK, At, Woken
<1>3. CallInv'
  <2>1. Ok(NoMail) # Pending
    BY DEF Ok, Pending, Failed
  <2> QED BY <1>0, <2>1 DEF IInv, ReturnWaking, Goto, CallInv, TypeOK
<1> QED BY <1>0, <1>1, <1>2, <1>3, InvQuiet DEF IInv

\* rt_ipc_list_resume_all wakes one receiver with an error, or finds the list empty.
LEMMA InvDetachResumeRecv ==
  ASSUME IInv, NEW t \in Thread, DetachResumeRecv(t), UNCHANGED ring
  PROVE  IInv'
<1>1. TypeOK'
  <2>1. Step
    BY DEF Step, Continue, IpcContinue
  <2> QED BY <2>1, TypeNext DEF IInv
<1>2. CASE suspend_thread = <<>>
  <2>1. /\ UNCHANGED <<ring, lists, error, value, result>>
        /\ pc[t] = "detach_recv_locked" /\ Goto(t, "assert_thread")
    BY <1>2 DEF DetachResumeRecv, lists
  <2>2. /\ At("recv_suspended")' = At("recv_suspended")
        /\ At("send_suspended")' = At("send_suspended")
        /\ Woken("recv_resumed")' = Woken("recv_resumed")
        /\ Woken("send_resumed")' = Woken("send_resumed")
    BY <2>1 DEF IInv, Goto, TypeOK, At, Woken
  <2>3. CallInv'
    BY <2>1 DEF IInv, Goto, CallInv, TypeOK
  <2> QED BY <1>1, <2>1, <2>2, <2>3, InvQuiet DEF IInv
<1>3. CASE suspend_thread # <<>>
  <2> DEFINE w == Head(suspend_thread)
  <2>1. /\ w \in Thread
        /\ w \in At("recv_suspended")
        /\ Enumerates(Tail(suspend_thread), At("recv_suspended") \ {w})
    <3>1. suspend_thread \in Seq(Thread) /\ Enumerates(suspend_thread, At("recv_suspended"))
      BY DEF IInv, TypeOK, SuspendedExactlyOnce
    <3> QED BY <1>3, <3>1, EnumeratesTail
  <2>2. /\ pc[t] = "detach_recv_locked"
        /\ suspend_thread' = Tail(suspend_thread)
        /\ pc' = [pc EXCEPT ![t] = "detach_recv", ![w] = "recv_resumed"]
        /\ error' = [error EXCEPT ![w] = "ERROR"]
        /\ UNCHANGED <<ring, suspend_sender_thread, value, result>>
    BY <1>3 DEF DetachResumeRecv
  <2> HIDE DEF w
  <2>3. /\ At("recv_suspended")' = At("recv_suspended") \ {w}
        /\ At("send_suspended")' = At("send_suspended")
        /\ Woken("recv_resumed")' = Woken("recv_resumed")
        /\ Woken("send_resumed")' = Woken("send_resumed")
    BY <2>1, <2>2 DEF IInv, TypeOK, At, Woken
  <2>4. SuspendedExactlyOnce'
    BY <2>1, <2>2, <2>3 DEF IInv, SuspendedExactlyOnce
  <2>5. NoLostWakeup'
    BY <1>3, <2>2, <2>3 DEF IInv, NoLostWakeup, ring
  <2>6. RingInv'
    BY <2>2 DEF IInv, RingInv, Slot, ring
  <2>7. CallInv'
    BY <2>1, <2>2 DEF IInv, CallInv, TypeOK, At
  <2> QED BY <1>1, <2>4, <2>5, <2>6, <2>7 DEF IInv
<1> QED BY <1>2, <1>3

\* The timer of a sleeping receiver runs out.
LEMMA InvExpireRecv ==
  ASSUME IInv, NEW t \in Thread, TimerStep(t), NEW i \in 1 .. Len(suspend_thread),
         suspend_thread[i] = t, suspend_thread' = Remove(suspend_thread, i),
         Goto(t, "recv_resumed"), UNCHANGED suspend_sender_thread
  PROVE  SuspendedExactlyOnce' /\ NoLostWakeup' /\ CallInv'
<1>1. /\ t \in At("recv_suspended")
      /\ Enumerates(Remove(suspend_thread, i), At("recv_suspended") \ {t})
  <2>1. suspend_thread \in Seq(Thread) /\ Enumerates(suspend_thread, At("recv_suspended"))
    BY DEF IInv, TypeOK, SuspendedExactlyOnce
  <2>2. t \in At("recv_suspended")
    BY <2>1 DEF Enumerates
  <2> QED BY <2>1, <2>2, EnumeratesRemove
<1>2. /\ error' = [error EXCEPT ![t] = "ETIMEOUT"]
      /\ UNCHANGED <<ring, value, result>>
  BY DEF TimerStep, Expire
<1>3. /\ At("recv_suspended")' = At("recv_suspended") \ {t}
      /\ At("send_suspended")' = At("send_suspended")
      /\ Woken("recv_resumed")' = Woken("recv_resumed")
      /\ Woken("send_resumed")' = Woken("send_resumed")
  BY <1>1, <1>2 DEF Goto, IInv, TypeOK, At, Woken
<1>4. SuspendedExactlyOnce'
  BY <1>1, <1>3 DEF IInv, SuspendedExactlyOnce
<1>5. suspend_thread # <<>>
  BY DEF IInv, TypeOK
<1>6. NoLostWakeup'
  BY <1>2, <1>3, <1>5 DEF IInv, NoLostWakeup, ring
<1>7. CallInv'
  BY <1>1, <1>2 DEF Goto, IInv, CallInv, TypeOK, At
<1> QED BY <1>4, <1>6, <1>7

\* rt_ipc_list_resume_all wakes one sender with an error, or finds the list empty.
LEMMA InvDetachResumeSend ==
  ASSUME IInv, NEW t \in Thread, DetachResumeSend(t), UNCHANGED ring
  PROVE  IInv'
<1>1. TypeOK'
  <2>1. Step
    BY DEF Step, Continue, IpcContinue
  <2> QED BY <2>1, TypeNext DEF IInv
<1>2. CASE suspend_sender_thread = <<>>
  <2>1. /\ UNCHANGED <<ring, lists, error, value, result>>
        /\ pc[t] = "detach_send_locked" /\ Goto(t, "assert_thread")
    BY <1>2 DEF DetachResumeSend, lists
  <2>2. /\ At("recv_suspended")' = At("recv_suspended")
        /\ At("send_suspended")' = At("send_suspended")
        /\ Woken("recv_resumed")' = Woken("recv_resumed")
        /\ Woken("send_resumed")' = Woken("send_resumed")
    BY <2>1 DEF IInv, Goto, TypeOK, At, Woken
  <2>3. CallInv'
    BY <2>1 DEF IInv, Goto, CallInv, TypeOK
  <2> QED BY <1>1, <2>1, <2>2, <2>3, InvQuiet DEF IInv
<1>3. CASE suspend_sender_thread # <<>>
  <2> DEFINE w == Head(suspend_sender_thread)
  <2>1. /\ w \in Thread
        /\ w \in At("send_suspended")
        /\ Enumerates(Tail(suspend_sender_thread), At("send_suspended") \ {w})
    <3>1. suspend_sender_thread \in Seq(Thread) /\ Enumerates(suspend_sender_thread, At("send_suspended"))
      BY DEF IInv, TypeOK, SuspendedExactlyOnce
    <3> QED BY <1>3, <3>1, EnumeratesTail
  <2>2. /\ pc[t] = "detach_send_locked"
        /\ suspend_sender_thread' = Tail(suspend_sender_thread)
        /\ pc' = [pc EXCEPT ![t] = "detach_send", ![w] = "send_resumed"]
        /\ error' = [error EXCEPT ![w] = "ERROR"]
        /\ UNCHANGED <<ring, suspend_thread, value, result>>
    BY <1>3 DEF DetachResumeSend
  <2> HIDE DEF w
  <2>3. /\ At("send_suspended")' = At("send_suspended") \ {w}
        /\ At("recv_suspended")' = At("recv_suspended")
        /\ Woken("recv_resumed")' = Woken("recv_resumed")
        /\ Woken("send_resumed")' = Woken("send_resumed")
    BY <2>1, <2>2 DEF IInv, TypeOK, At, Woken
  <2>4. SuspendedExactlyOnce'
    BY <2>1, <2>2, <2>3 DEF IInv, SuspendedExactlyOnce
  <2>5. NoLostWakeup'
    BY <1>3, <2>2, <2>3 DEF IInv, NoLostWakeup, ring
  <2>6. RingInv'
    BY <2>2 DEF IInv, RingInv, Slot, ring
  <2>7. CallInv'
    BY <2>1, <2>2 DEF IInv, CallInv, TypeOK, At
  <2> QED BY <1>1, <2>4, <2>5, <2>6, <2>7 DEF IInv
<1> QED BY <1>2, <1>3

\* The timer of a sleeping sender runs out.
LEMMA InvExpireSend ==
  ASSUME IInv, NEW t \in Thread, TimerStep(t), NEW i \in 1 .. Len(suspend_sender_thread),
         suspend_sender_thread[i] = t, suspend_sender_thread' = Remove(suspend_sender_thread, i),
         Goto(t, "send_resumed"), UNCHANGED suspend_thread
  PROVE  SuspendedExactlyOnce' /\ NoLostWakeup' /\ CallInv'
<1>1. /\ t \in At("send_suspended")
      /\ Enumerates(Remove(suspend_sender_thread, i), At("send_suspended") \ {t})
  <2>1. suspend_sender_thread \in Seq(Thread) /\ Enumerates(suspend_sender_thread, At("send_suspended"))
    BY DEF IInv, TypeOK, SuspendedExactlyOnce
  <2>2. t \in At("send_suspended")
    BY <2>1 DEF Enumerates
  <2> QED BY <2>1, <2>2, EnumeratesRemove
<1>2. /\ error' = [error EXCEPT ![t] = "ETIMEOUT"]
      /\ UNCHANGED <<ring, value, result>>
  BY DEF TimerStep, Expire
<1>3. /\ At("send_suspended")' = At("send_suspended") \ {t}
      /\ At("recv_suspended")' = At("recv_suspended")
      /\ Woken("recv_resumed")' = Woken("recv_resumed")
      /\ Woken("send_resumed")' = Woken("send_resumed")
  BY <1>1, <1>2 DEF Goto, IInv, TypeOK, At, Woken
<1>4. SuspendedExactlyOnce'
  BY <1>1, <1>3 DEF IInv, SuspendedExactlyOnce
<1>5. suspend_sender_thread # <<>>
  BY DEF IInv, TypeOK
<1>6. NoLostWakeup'
  BY <1>2, <1>3, <1>5 DEF IInv, NoLostWakeup, ring
<1>7. CallInv'
  BY <1>1, <1>2 DEF Goto, IInv, CallInv, TypeOK, At
<1> QED BY <1>4, <1>6, <1>7

\* RT_IPC_CMD_RESET empties the pool and both lists.
LEMMA InvControlReset ==
  ASSUME IInv, NEW t \in Thread, ControlReset(t)
  PROVE  IInv'
<1>1. TypeOK'
  <2>1. Step
    BY DEF Step, Continue, IpcContinue
  <2> QED BY <2>1, TypeNext DEF IInv
<1>2. At("recv_suspended")' = {} /\ At("send_suspended")' = {}
  BY DEF ControlReset, ResumeAll, IInv, TypeOK, At
<1>3. SuspendedExactlyOnce'
  BY <1>2 DEF ControlReset, ResumeAll, SuspendedExactlyOnce, Enumerates
<1>4. NoLostWakeup'
  BY DEF ControlReset, ResumeAll, NoLostWakeup
<1>5. RingInv'
  BY SizeAssumption DEF ControlReset, ResumeAll, RingInv, Slot
<1>6. CallInv'
  <2>1. Ok(NoMail) # Pending
    BY DEF Ok, Pending, Failed
  <2> QED BY <2>1 DEF ControlReset, ResumeAll, IInv, CallInv, TypeOK
<1> QED BY <1>1, <1>3, <1>4, <1>5, <1>6 DEF IInv

\* Every step keeps the inductive invariant.
LEMMA InvNext == IInv /\ [Step]_vars => IInv'
<1> SUFFICES ASSUME IInv, [Step]_vars PROVE IInv'
  OBVIOUS
<1>1. CASE UNCHANGED vars
  <2>1. /\ UNCHANGED <<ring, lists, calls>>
        /\ TypeOK'
    BY <1>1, TypeNext DEF vars, ipcvars, IInv
  <2>2. /\ At("recv_suspended")' = At("recv_suspended")
        /\ At("send_suspended")' = At("send_suspended")
        /\ Woken("recv_resumed")' = Woken("recv_resumed")
        /\ Woken("send_resumed")' = Woken("send_resumed")
    BY <2>1 DEF calls, At, Woken
  <2>3. CallInv'
    BY <2>1 DEF calls, IInv, CallInv
  <2> QED BY <2>1, <2>2, <2>3, InvQuiet DEF IInv
<1>2. ASSUME NEW t \in Thread, Start(t) PROVE IInv'
  <2>1. 0 \in Timeout
    BY TimeAssumption
  <2> QED BY <1>2, <2>1, InvCall DEF Start, SendCall, RecvCall, DetachCall, ControlCall, AssertType, Call
<1>3. ASSUME NEW t \in Thread, Continue(t) PROVE IInv'
  <2>0. timeout[t] \in Timeout /\ Remaining(t) \subseteq Timeout
    BY RemainingType DEF TypeOK, IInv
  <2>1. CASE SendFirst(t) \/ SendAgain(t)
    BY <2>1, <2>0, InvSendStore, InvSendRefuse, InvSendSuspend DEF SendFirst, SendAgain, SendTry
  <2>2. CASE RecvFirst(t) \/ RecvAgain(t)
    BY <2>2, <2>0, InvRecvTake, InvRecvRefuse, InvRecvSuspend DEF RecvFirst, RecvAgain, RecvTry
  <2> QED BY <1>3, <2>1, <2>2, InvFailed, InvDetachQuiet, InvDetachResumeRecv,
             InvDetachResumeSend, InvControlReset DEF Continue, IpcContinue
<1>4. ASSUME NEW t \in Thread, TimerStep(t) PROVE IInv'
  <2>1. TypeOK'
    BY <1>4, TypeNext DEF IInv, Step
  <2>2. RingInv'
    BY <1>4 DEF TimerStep, Expire, IInv, RingInv, Slot, ring
  <2>3. SuspendedExactlyOnce' /\ NoLostWakeup' /\ CallInv'
    BY <1>4, InvExpireRecv, InvExpireSend DEF TimerStep, Expire, Unlink
  <2> QED BY <2>1, <2>2, <2>3 DEF IInv
<1> QED BY <1>1, <1>2, <1>3, <1>4 DEF Step

\* The inductive invariant holds in every reachable state.
THEOREM Invariance == Spec => []IInv
BY InvInit, InvNext, NextIsStep, PTL DEF Spec

\* A thread is linked in a waiting list exactly while it is suspended there,
\* for any number of threads.
THEOREM ListsAreExact == Spec => []SuspendedExactlyOnce
<1>1. IInv => SuspendedExactlyOnce
  BY DEF IInv
<1> QED BY Invariance, <1>1, PTL

\* No send, receive, timeout, reset or detach loses a wakeup.
THEOREM WakeupsAreNotLost == Spec => []NoLostWakeup
<1>1. IInv => NoLostWakeup
  BY DEF IInv
<1> QED BY Invariance, <1>1, PTL

-----------------------------------------------------------------------------
(* A wakeup is final.                                                      *)

Final(t) == pc[t] \in {"recv_resumed", "send_resumed"} /\ pc'[t] = pc[t] => error'[t] = error[t]

\* No step changes the error code of a thread that is ready but has not run.
LEMMA WakeupStep ==
  ASSUME IInv, Step, NEW x \in Thread
  PROVE  Final(x)
<1> SUFFICES ASSUME pc[x] \in {"recv_resumed", "send_resumed"}, pc'[x] = pc[x]
             PROVE  error'[x] = error[x]
  BY DEF Final
<1> USE DEF IInv, TypeOK
<1>1. ASSUME NEW t \in Thread, Start(t) PROVE error'[x] = error[x]
  BY <1>1 DEF Start, SendCall, RecvCall, DetachCall, ControlCall, AssertType, Call, Enter, Goto
<1>2. ASSUME NEW t \in Thread, Continue(t) PROVE error'[x] = error[x]
  <2>1. ASSUME NEW r, NEW w, NEW p, ReturnWaking(t, r, w, p) PROVE error'[x] = error[x]
    BY <2>1 DEF ReturnWaking
  <2>2. CASE SendFirst(t) \/ SendAgain(t)
    BY <2>2, <2>1 DEF SendFirst, SendAgain, SendTry, SendStore, SendRefuse, SendSuspend, SuspendSender, ReturnToReceiver, Return, Goto
  <2>3. CASE RecvFirst(t) \/ RecvAgain(t)
    BY <2>3, <2>1 DEF RecvFirst, RecvAgain, RecvTry, RecvTake, RecvRefuse, RecvSuspend, SuspendReceiver, ReturnToSender, Return, Goto
  <2>4. CASE SendFailed(t) \/ RecvFailed(t) \/ DetachObject(t)
    BY <2>4, <2>1 DEF SendFailed, RecvFailed, DetachObject, Return
  <2>5. CASE (DetachTestRecv(t) \/ DetachTestSend(t)) /\ UNCHANGED ring
    BY <2>5 DEF DetachTestRecv, DetachTestSend
  <2>6. CASE DetachResumeRecv(t) /\ UNCHANGED ring
    <3>1. suspend_thread # <<>> => Head(suspend_thread) \in At("recv_suspended")
      BY EnumeratesTail DEF SuspendedExactlyOnce
    <3> QED BY <2>6, <3>1 DEF DetachResumeRecv, At
  <2>7. CASE DetachResumeSend(t) /\ UNCHANGED ring
    <3>1. suspend_sender_thread # <<>> => Head(suspend_sender_thread) \in At("send_suspended")
      BY EnumeratesTail DEF SuspendedExactlyOnce
    <3> QED BY <2>7, <3>1 DEF DetachResumeSend, At
  <2>8. CASE ControlReset(t)
    BY <2>8 DEF ControlReset, ResumeAll
  <2> QED BY <1>2, <2>2, <2>3, <2>4, <2>5, <2>6, <2>7, <2>8 DEF Continue, IpcContinue
<1>3. ASSUME NEW t \in Thread, TimerStep(t) PROVE error'[x] = error[x]
  <2>1. pc[t] \in {"recv_suspended", "send_suspended"}
    BY <1>3 DEF TimerStep, Expire, Unlink, SuspendedExactlyOnce, Enumerates, At
  <2> QED BY <1>3, <2>1 DEF TimerStep, Expire
<1> QED BY <1>1, <1>2, <1>3 DEF Step

\* Once made ready, a waiter's outcome is settled: no later timeout, send,
\* reset or detach rewrites thread->error before the thread has read it.
THEOREM WakeupsAreFinal == Spec => WakeupIsFinal
<1>1. IInv /\ [Step]_vars =>
        [\A t \in Thread : /\ pc[t] \in {"recv_resumed", "send_resumed"}
                           /\ pc'[t] = pc[t]
                           => error'[t] = error[t]]_vars
  BY WakeupStep DEF Final
<1> QED BY Invariance, NextIsStep, <1>1, PTL DEF Spec, WakeupIsFinal

-----------------------------------------------------------------------------
(* The mailbox is a bounded first-in first-out channel.                    *)

\* The contents of the pool as a sequence.
LEMMA ContentsType ==
  ASSUME IInv
  PROVE  /\ Contents \in Seq(Mail \cup {NoMail})
         /\ Len(Contents) = entry
         /\ \A i \in 1 .. entry : Contents[i] = msg_pool[Slot(out_offset + i - 1)]
BY SizeAssumption DEF IInv, TypeOK, Contents, Slot

\* The same after a step.
LEMMA ContentsTypeNext ==
  ASSUME IInv'
  PROVE  Contents' \in Seq(Mail \cup {NoMail}) /\ Len(Contents') = entry'
<1>0. /\ msg_pool' \in [0 .. Size - 1 -> Mail \cup {NoMail}]
      /\ out_offset' \in 0 .. Size - 1 /\ entry' \in 0 .. Size
  BY DEF IInv, TypeOK
<1>1. /\ entry' \in Nat
      /\ \A i \in 1 .. entry' : msg_pool'[Slot(out_offset' + i - 1)] \in Mail \cup {NoMail}
  <2>1. ASSUME NEW o \in 0 .. Size - 1, NEW n \in 0 .. Size, NEW i \in 1 .. n
        PROVE  Slot(o + i - 1) \in 0 .. Size - 1
    BY SizeAssumption DEF Slot
  <2>2. entry' \in Nat
    BY <1>0, SizeAssumption
  <2>3. \A i \in 1 .. entry' : Slot(out_offset' + i - 1) \in 0 .. Size - 1
    BY <1>0, <2>1
  <2> QED BY <1>0, <2>2, <2>3
<1>2. Contents' = [i \in 1 .. entry' |-> msg_pool'[Slot(out_offset' + i - 1)]]
  BY DEF Contents, Slot
<1>3. Contents' \in [1 .. entry' -> Mail \cup {NoMail}]
  BY <1>1, <1>2
<1> QED BY <1>1, <1>3

\* A stored mail becomes the last of the contents.
LEMMA StoreAppends ==
  ASSUME IInv, IInv', NEW v \in Mail, entry < Size,
         msg_pool' = [msg_pool EXCEPT ![in_offset] = v],
         entry' = entry + 1, out_offset' = out_offset
  PROVE  Contents' = Append(Contents, v)
<1>1. Contents' \in Seq(Mail \cup {NoMail}) /\ Len(Contents') = entry + 1
  BY ContentsTypeNext
<1>2. Append(Contents, v) \in Seq(Mail \cup {NoMail}) /\ Len(Append(Contents, v)) = entry + 1
  <2>1. Contents \in Seq(Mail \cup {NoMail}) /\ Len(Contents) = entry
    BY ContentsType
  <2> QED BY <2>1
<1>3. ASSUME NEW i \in 1 .. entry + 1 PROVE Contents'[i] = Append(Contents, v)[i]
  <2>0. Contents'[i] = msg_pool'[Slot(out_offset + i - 1)]
    BY DEF Contents, Slot
  <2>1. CASE i = entry + 1
    <3>1. Slot(out_offset + i - 1) = in_offset /\ in_offset \in 0 .. Size - 1
      BY <2>1 DEF IInv, RingInv, TypeOK
    <3> QED BY <2>0, <2>1, <3>1, ContentsType DEF IInv, TypeOK
  <2>2. CASE i \in 1 .. entry
    <3>1. Slot(out_offset + i - 1) # in_offset /\ Slot(out_offset + i - 1) \in 0 .. Size - 1
      BY <2>2, SizeAssumption DEF IInv, RingInv, TypeOK, Slot
    <3>2. msg_pool'[Slot(out_offset + i - 1)] = msg_pool[Slot(out_offset + i - 1)]
      BY <3>1 DEF IInv, TypeOK
    <3>3. Append(Contents, v)[i] = Contents[i]
      BY <2>2, ContentsType
    <3> QED BY <2>0, <2>2, <3>2, <3>3, ContentsType
  <2>3. entry \in Int
    BY SizeAssumption DEF IInv, TypeOK
  <2>4. i = entry + 1 \/ i \in 1 .. entry
    BY <2>3
  <2> QED BY <2>1, <2>2, <2>4
<1>4. /\ Len(Contents') = Len(Append(Contents, v))
      /\ \A i \in 1 .. Len(Contents') : Contents'[i] = Append(Contents, v)[i]
  BY <1>1, <1>2, <1>3
<1> QED BY <1>1, <1>2, <1>4, SeqEqual

\* The mail fetched is the first of the contents and leaves them.
LEMMA TakeRemovesHead ==
  ASSUME IInv, IInv', entry > 0, msg_pool' = msg_pool,
         entry' = entry - 1, out_offset' = Advance(out_offset)
  PROVE  Contents # <<>> /\ Contents' = Tail(Contents) /\ Fetch = Head(Contents)
<1>0. Contents \in Seq(Mail \cup {NoMail}) /\ Len(Contents) = entry /\ entry \in Nat
  BY ContentsType DEF IInv, TypeOK
<1>1. Contents' \in Seq(Mail \cup {NoMail}) /\ Len(Contents') = entry - 1
  BY ContentsTypeNext
<1>2. Tail(Contents) \in Seq(Mail \cup {NoMail}) /\ Len(Tail(Contents)) = entry - 1 /\ Contents # <<>>
  BY <1>0
<1>3. ASSUME NEW i \in 1 .. entry - 1 PROVE Contents'[i] = Tail(Contents)[i]
  <2>0. Contents'[i] = msg_pool[Slot(out_offset' + i - 1)]
    BY DEF Contents, Slot
  <2>1. Slot(out_offset' + i - 1) = Slot(out_offset + (i + 1) - 1)
    BY <1>0, SizeAssumption DEF Slot, Advance, IInv, TypeOK
  <2>2. Tail(Contents)[i] = Contents[i + 1]
    BY <1>0, <1>2
  <2>3. Contents[i + 1] = msg_pool[Slot(out_offset + (i + 1) - 1)]
    BY <1>0, ContentsType
  <2> QED BY <2>0, <2>1, <2>2, <2>3
<1>4. Fetch = Head(Contents)
  <2>1. Contents[1] = msg_pool[Slot(out_offset + 1 - 1)]
    BY <1>0, ContentsType
  <2>2. Slot(out_offset + 1 - 1) = out_offset
    BY SizeAssumption DEF Slot, IInv, TypeOK
  <2> QED BY <1>0, <2>1, <2>2 DEF Fetch
<1>5. Contents' = Tail(Contents)
  BY <1>1, <1>2, <1>3, SeqEqual
<1> QED BY <1>2, <1>4, <1>5

\* A step that leaves ring offsets, count and pool alone leaves the contents.
LEMMA ContentsSame ==
  ASSUME UNCHANGED ring
  PROVE  Contents' = Contents
BY DEF ring, Contents, Slot

\* The initial state of the mailbox is the initial state of the channel.
LEMMA ChannelInit == Init => C!CInit
<1> SUFFICES ASSUME Init PROVE C!CInit
  OBVIOUS
<1>1. Contents = <<>>
  BY DEF Init, IpcInit, Contents
<1> QED BY <1>1 DEF Init, IpcInit, C!CInit, Ok, C!Ok

\* What a mailbox call returns is what a channel call returns.
LEMMA SameResults == /\ Pending = C!Pending
                     /\ \A v : Ok(v) = C!Ok(v)
                     /\ \A c : Failed(c) = C!Failed(c)
BY DEF Pending, Ok, Failed, C!Pending, C!Ok, C!Failed

\* A returning call sets exactly its own thread's result.
LEMMA ReturnIsReturn ==
  ASSUME NEW t, NEW r, NEW w, NEW p, ReturnWaking(t, r, w, p)
  PROVE  C!Return(t, r)
BY DEF ReturnWaking, C!Return

\* A call that fails without touching the pool is a failing channel call.
LEMMA FailStep ==
  ASSUME NEW t \in Thread, NEW c \in {"ETIMEOUT", "ERROR"}, result[t] = Pending,
         UNCHANGED ring, NEW w, NEW p, ReturnWaking(t, Failed(c), w, p)
  PROVE  C!CNext
<1>1. Contents' = Contents
  BY ContentsSame
<1>2. C!Return(t, C!Failed(c)) /\ result[t] = C!Pending
  BY ReturnIsReturn, SameResults
<1> QED BY <1>1, <1>2 DEF C!CNext, C!Fail

\* Every step of the mailbox is a step of the channel or leaves it unchanged.
LEMMA ChannelStep ==
  ASSUME IInv, IInv', [Step]_vars
  PROVE  [C!CNext]_(C!cvars)
<1>p. \A t \in Thread : pc[t] # "idle" => result[t] = Pending
  BY DEF IInv, CallInv
<1>1. CASE UNCHANGED vars
  BY <1>1, ContentsSame DEF vars, ipcvars, calls, C!cvars
<1>2. ASSUME NEW t \in Thread, Start(t) PROVE C!CNext
  <2>1. PICK p, v, to : Enter(t, p, v, to) /\ UNCHANGED ring
    BY <1>2 DEF Start, SendCall, RecvCall, DetachCall, ControlCall, AssertType, Call
  <2>2. Contents' = Contents
    BY <2>1, ContentsSame
  <2>3. result[t] # C!Pending /\ C!Return(t, C!Pending)
    BY <2>1, SameResults DEF Enter, IInv, CallInv, C!Return
  <2> QED BY <2>2, <2>3 DEF C!CNext, C!Call
<1>3. ASSUME NEW t \in Thread, pc[t] \in {"send", "send_resumed"}, NEW to, SendTry(t, to)
      PROVE  [C!CNext]_(C!cvars)
  <2>0. result[t] = C!Pending /\ value[t] \in Mail
    BY <1>3, <1>p, SameResults DEF IInv, CallInv
  <2>1. CASE SendStore(t)
    <3>1. entry < Size /\ Len(Contents) = entry
      BY <2>1, SizeAssumption, ContentsType DEF SendStore, Full, IInv, TypeOK
    <3>2. Contents' = Append(Contents, value[t])
      BY <2>0, <2>1, <3>1, StoreAppends DEF SendStore
    <3>3. C!Return(t, C!Ok(value[t]))
      BY <2>1, ReturnIsReturn, SameResults DEF SendStore, ReturnToReceiver
    <3> QED BY <2>0, <3>1, <3>2, <3>3 DEF C!CNext, C!Put
  <2>2. CASE SendRefuse(t, to)
    <3>1. Contents' = Contents /\ Len(Contents) = Size
      BY <2>2, ContentsSame, ContentsType DEF SendRefuse, Return, Full
    <3>2. C!Return(t, C!Failed("EFULL"))
      BY <2>2, ReturnIsReturn, SameResults DEF SendRefuse, Return
    <3> QED BY <2>0, <3>1, <3>2 DEF C!CNext, C!Full
  <2>3. CASE SendSuspend(t, to)
    BY <2>3, ContentsSame DEF SendSuspend, SuspendSender, C!cvars
  <2> QED BY <1>3, <2>1, <2>2, <2>3 DEF SendTry
<1>4. ASSUME NEW t \in Thread, pc[t] \in {"recv", "recv_resumed"}, NEW to, RecvTry(t, to)
      PROVE  [C!CNext]_(C!cvars)
  <2>0. result[t] = C!Pending /\ result[t] = Pending
    BY <1>4, <1>p, SameResults
  <2>1. CASE RecvTake(t)
    <3>1. entry > 0
      BY <2>1 DEF RecvTake, Empty, IInv, TypeOK
    <3>2. Contents # <<>> /\ Contents' = Tail(Contents) /\ Fetch = Head(Contents)
      BY <2>1, <3>1, TakeRemovesHead DEF RecvTake
    <3>3. C!Return(t, C!Ok(Fetch))
      BY <2>1, ReturnIsReturn, SameResults DEF RecvTake, ReturnToSender
    <3> QED BY <2>0, <3>2, <3>3 DEF C!CNext, C!Take
  <2>2. CASE RecvRefuse(t, to)
    BY <2>0, <2>2, FailStep DEF RecvRefuse, Return
  <2>3. CASE RecvSuspend(t, to)
    BY <2>3, ContentsSame DEF RecvSuspend, SuspendReceiver, C!cvars
  <2> QED BY <1>4, <2>1, <2>2, <2>3 DEF RecvTry
<1>5. ASSUME NEW t \in Thread, Continue(t) PROVE [C!CNext]_(C!cvars)
  <2>1. CASE SendFirst(t) \/ SendAgain(t)
    BY <2>1, <1>3 DEF SendFirst, SendAgain
  <2>2. CASE RecvFirst(t) \/ RecvAgain(t)
    BY <2>2, <1>4 DEF RecvFirst, RecvAgain
  <2>3. CASE (SendFailed(t) \/ RecvFailed(t)) /\ UNCHANGED ring
    <3>1. error[t] \in {"ETIMEOUT", "ERROR"} /\ result[t] = Pending
      BY <2>3, <1>p DEF SendFailed, RecvFailed, IInv, TypeOK, Error
    <3> QED BY <2>3, <3>1, FailStep DEF SendFailed, RecvFailed, Return
  <2>4. CASE /\ DetachTestRecv(t) \/ DetachTestSend(t) \/ DetachResumeRecv(t) \/ DetachResumeSend(t)
            /\ UNCHANGED ring
    BY <2>4, ContentsSame
       DEF DetachTestRecv, DetachTestSend, DetachResumeRecv, DetachResumeSend, C!cvars
  <2>5. CASE DetachObject(t) /\ UNCHANGED ring
    <3>1. C!Return(t, C!Ok(NoMail)) /\ Contents' = Contents /\ result[t] = C!Pending
      BY <2>5, <1>p, ReturnIsReturn, SameResults, ContentsSame DEF DetachObject
    <3> QED BY <3>1 DEF C!CNext, C!Done
  <2>6. CASE ControlReset(t)
    <3>1. Contents' = <<>>
      BY <2>6 DEF ControlReset, ResumeAll, Contents
    <3>2. C!Return(t, C!Ok(NoMail)) /\ result[t] = C!Pending
      BY <2>6, <1>p, SameResults DEF ControlReset, ResumeAll, C!Return
    <3> QED BY <3>1, <3>2 DEF C!CNext, C!Reset
  <2> QED BY <1>5, <2>1, <2>2, <2>3, <2>4, <2>5, <2>6 DEF Continue, IpcContinue
<1>6. ASSUME NEW t \in Thread, TimerStep(t) PROVE [C!CNext]_(C!cvars)
  BY <1>6, ContentsSame DEF TimerStep, Expire, C!cvars
<1> QED BY <1>1, <1>2, <1>5, <1>6 DEF Step

\* For every capacity, every set of threads and every interleaving, the ring
\* buffer of rt_mb_send_wait and rt_mb_recv implements a bounded first-in
\* first-out channel: no mail is lost, duplicated, reordered or invented.
THEOREM MailboxIsChannel == Spec => IsChannel
<1>1. Init => C!CInit
  BY ChannelInit
<1>2. IInv /\ IInv' /\ [Step]_vars => [C!CNext]_(C!cvars)
  BY ChannelStep
<1> QED BY <1>1, <1>2, Invariance, NextIsStep, PTL DEF Spec, IsChannel, C!CSpec

=============================================================================
