-------------------------- MODULE KernelSyncProofs --------------------------
(***************************************************************************)
(* Proofs about the semaphore, the mutex, the event and the heap, for      *)
(* every finite set of threads with any priorities, every width of the     *)
(* counters, every set of events and every size of the heap.               *)
(***************************************************************************)
EXTENDS KernelSync, FiniteSetTheorems, SequenceTheorems, WellFoundedInduction, TLAPS

-----------------------------------------------------------------------------
(* Numbers.                                                                *)

\* A set of numbers has a least one.
LEMMA LeastNat ==
  ASSUME NEW S \in SUBSET Nat, S # {}
  PROVE  \E m \in S : \A k \in S : m <= k
<1>1. PICK m \in S : \A k \in S : ~ (<<k, m>> \in OpToRel(<, Nat))
  BY NatLessThanWellFounded, WFMin
<1>2. \A k \in S : ~ (k < m)
  BY <1>1 DEF OpToRel
<1> QED BY <1>2

\* No multiple of n lies strictly between -n and n but 0.
LEMMA SmallMultiple ==
  ASSUME NEW n \in Nat, n > 0, NEW k \in Int, n * k < n, n * k > -n
  PROVE  k = 0
<1>1. CASE k >= 1
  <2>1. n * k >= n
    BY <1>1
  <2> QED BY <2>1
<1>2. CASE k <= -1
  <2>1. n * k <= -n
    BY <1>2
  <2> QED BY <2>1
<1> QED BY <1>1, <1>2

\* Quotient and remainder.
LEMMA Division ==
  ASSUME NEW n \in Nat, n > 0, NEW a \in Nat
  PROVE  a = n * (a \div n) + (a % n) /\ a % n \in 0 .. n - 1 /\ a \div n \in Int
OBVIOUS

\* A number has one remainder.
LEMMA RemainderIs ==
  ASSUME NEW n \in Nat, n > 0, NEW a \in Nat, NEW q \in Int, NEW r \in 0 .. n - 1,
         a = n * q + r
  PROVE  a % n = r
<1>1. a = n * (a \div n) + (a % n) /\ a % n \in 0 .. n - 1 /\ a \div n \in Int
  OBVIOUS
<1> DEFINE d == a \div n
           s == a % n
<1>2. n * (q - d) = s - r
  BY <1>1
<1>3. q - d = 0
  BY <1>1, <1>2, SmallMultiple
<1> QED BY <1>1, <1>2, <1>3

\* The remainder of the next number.
LEMMA NextRemainder ==
  ASSUME NEW n \in Nat, n > 0, NEW a \in Nat
  PROVE  (a + 1) % n = IF a % n = n - 1 THEN 0 ELSE (a % n) + 1
<1>1. PICK q \in Int, r \in 0 .. n - 1 : a = n * q + r /\ r = a % n
  <2>1. a = n * (a \div n) + (a % n) /\ a % n \in 0 .. n - 1 /\ a \div n \in Int
    OBVIOUS
  <2> QED BY <2>1
<1>2. CASE r = n - 1
  <2>1. a + 1 = n * (q + 1) + 0 /\ a + 1 \in Nat /\ q + 1 \in Int /\ 0 \in 0 .. n - 1
    BY <1>1, <1>2
  <2>2. (a + 1) % n = 0
    BY <2>1, RemainderIs, Zenon
  <2> QED BY <1>1, <1>2, <2>2
<1>3. CASE r # n - 1
  <2>1. a + 1 = n * q + (r + 1) /\ a + 1 \in Nat /\ r + 1 \in 0 .. n - 1
    BY <1>1, <1>3
  <2>2. (a + 1) % n = r + 1
    BY <2>1, RemainderIs, Zenon
  <2> QED BY <1>1, <1>3, <2>2
<1> QED BY <1>2, <1>3

-----------------------------------------------------------------------------
(* Lists.                                                                  *)

\* s lists the elements of S, each once
Lists(s, S) == /\ \A i \in 1 .. Len(s) : s[i] \in S
               /\ \A i, j \in 1 .. Len(s) : s[i] = s[j] => i = j
               /\ \A t \in S : \E i \in 1 .. Len(s) : s[i] = t

\* s is in the order of the priorities c
InOrder(s, c) == \A i, j \in 1 .. Len(s) : i < j => c[s[i]] <= c[s[j]]

PutIn(s, x, p) == [i \in 1 .. Len(s) + 1 |-> IF i < p THEN s[i] ELSE IF i = p THEN x ELSE s[i - 1]]
TakeOut(s, p)  == [i \in 1 .. Len(s) - 1 |-> IF i < p THEN s[i] ELSE s[i + 1]]

\* A list with one element more.
LEMMA PutInType ==
  ASSUME NEW T, NEW s \in Seq(T), NEW x \in T, NEW p \in 1 .. Len(s) + 1
  PROVE  /\ PutIn(s, x, p) \in Seq(T)
         /\ Len(PutIn(s, x, p)) = Len(s) + 1
         /\ \A i \in 1 .. Len(s) + 1 :
              PutIn(s, x, p)[i] = IF i < p THEN s[i] ELSE IF i = p THEN x ELSE s[i - 1]
BY DEF PutIn

\* A list with one element less.
LEMMA TakeOutType ==
  ASSUME NEW T, NEW s \in Seq(T), NEW p \in 1 .. Len(s)
  PROVE  /\ TakeOut(s, p) \in Seq(T)
         /\ Len(TakeOut(s, p)) = Len(s) - 1
         /\ \A i \in 1 .. Len(s) - 1 : TakeOut(s, p)[i] = IF i < p THEN s[i] ELSE s[i + 1]
BY DEF TakeOut

\* The list with x lists one element more.
LEMMA PutInLists ==
  ASSUME NEW T, NEW s \in Seq(T), NEW S, NEW x \in T, x \notin S, Lists(s, S),
         NEW p \in 1 .. Len(s) + 1
  PROVE  Lists(PutIn(s, x, p), S \cup {x})
<1> DEFINE q == PutIn(s, x, p)
<1>1. /\ Len(q) = Len(s) + 1 /\ Len(s) \in Nat
      /\ \A i \in 1 .. Len(s) + 1 : q[i] = IF i < p THEN s[i] ELSE IF i = p THEN x ELSE s[i - 1]
  BY PutInType
<1> HIDE DEF q
<1>2. \A i \in 1 .. Len(q) : q[i] \in S \cup {x}
  BY <1>1 DEF Lists
<1>3. \A i, j \in 1 .. Len(q) : q[i] = q[j] => i = j
  <2>1. SUFFICES ASSUME NEW i \in 1 .. Len(q), NEW j \in 1 .. Len(q), q[i] = q[j], i < j PROVE FALSE
    BY <1>1
  <2>2. CASE i = p \/ j = p
    BY <1>1, <2>1, <2>2 DEF Lists
  <2>3. CASE i # p /\ j # p
    <3> DEFINE ii == IF i < p THEN i ELSE i - 1
               jj == IF j < p THEN j ELSE j - 1
    <3>1. /\ ii \in 1 .. Len(s) /\ jj \in 1 .. Len(s) /\ ii < jj
          /\ q[i] = s[ii] /\ q[j] = s[jj]
      BY <1>1, <2>1, <2>3
    <3> HIDE DEF ii, jj
    <3>2. s[ii] = s[jj]
      BY <2>1, <3>1
    <3>3. ii = jj
      BY <3>1, <3>2 DEF Lists
    <3> QED BY <3>1, <3>3
  <2> QED BY <2>2, <2>3
<1>4. ASSUME NEW t \in S \cup {x} PROVE \E i \in 1 .. Len(q) : q[i] = t
  <2>1. CASE t = x
    BY <1>1, <2>1
  <2>2. CASE t \in S
    <3>1. PICK k \in 1 .. Len(s) : s[k] = t
      BY <2>2 DEF Lists
    <3>2. CASE k < p
      BY <1>1, <3>1, <3>2
    <3>3. CASE k >= p
      <4>1. k + 1 \in 1 .. Len(q) /\ q[k + 1] = s[k]
        BY <1>1, <3>3
      <4> QED BY <3>1, <4>1
    <3> QED BY <3>2, <3>3
  <2> QED BY <2>1, <2>2
<1>5. Lists(q, S \cup {x})
  BY <1>2, <1>3, <1>4 DEF Lists
<1> QED BY <1>5 DEF q

\* Inserted before the first of lower priority, x keeps the order.
LEMMA PutInOrder ==
  ASSUME NEW T, NEW s \in Seq(T), NEW x \in T, NEW c \in [T -> Nat], InOrder(s, c),
         NEW p \in 1 .. Len(s) + 1,
         p <= Len(s) => c[x] < c[s[p]],
         \A i \in 1 .. p - 1 : ~ (c[x] < c[s[i]])
  PROVE  InOrder(PutIn(s, x, p), c)
<1> DEFINE q == PutIn(s, x, p)
<1>1. /\ Len(q) = Len(s) + 1 /\ Len(s) \in Nat
      /\ \A i \in 1 .. Len(s) + 1 : q[i] = IF i < p THEN s[i] ELSE IF i = p THEN x ELSE s[i - 1]
  BY PutInType
<1> HIDE DEF q
<1>0. /\ \A i \in 1 .. Len(s) : c[s[i]] \in Nat
      /\ c[x] \in Nat
  OBVIOUS
<1>2. ASSUME NEW i \in 1 .. Len(q), NEW j \in 1 .. Len(q), i < j PROVE c[q[i]] <= c[q[j]]
  <2>1. CASE i < p /\ j < p
    <3>1. i \in 1 .. Len(s) /\ j \in 1 .. Len(s) /\ q[i] = s[i] /\ q[j] = s[j]
      BY <1>1, <2>1
    <3> QED BY <1>2, <3>1 DEF InOrder
  <2>2. CASE i < p /\ j = p
    <3>1. i \in 1 .. Len(s) /\ i \in 1 .. p - 1 /\ q[i] = s[i] /\ q[j] = x
      BY <1>1, <2>2
    <3> QED BY <1>0, <3>1
  <2>3. CASE i < p /\ j > p
    <3>1. i \in 1 .. Len(s) /\ j - 1 \in 1 .. Len(s) /\ i < j - 1 /\ q[i] = s[i] /\ q[j] = s[j - 1]
      BY <1>1, <1>2, <2>3
    <3> QED BY <3>1 DEF InOrder
  <2>4. CASE i = p
    <3>1. j - 1 \in 1 .. Len(s) /\ p \in 1 .. Len(s) /\ p <= j - 1 /\ q[j] = s[j - 1] /\ q[i] = x
      BY <1>1, <1>2, <2>4
    <3>2. c[s[p]] <= c[s[j - 1]]
      BY <1>0, <3>1 DEF InOrder
    <3> QED BY <1>0, <3>1, <3>2
  <2>5. CASE i > p
    <3>1. /\ i - 1 \in 1 .. Len(s) /\ j - 1 \in 1 .. Len(s) /\ i - 1 < j - 1
          /\ q[i] = s[i - 1] /\ q[j] = s[j - 1]
      BY <1>1, <1>2, <2>5
    <3> QED BY <3>1 DEF InOrder
  <2> QED BY <2>1, <2>2, <2>3, <2>4, <2>5
<1>3. InOrder(q, c)
  BY <1>2 DEF InOrder
<1> QED BY <1>3 DEF q

\* The list without its p-th element lists one element less, in the same order.
LEMMA TakeOutLists ==
  ASSUME NEW T, NEW s \in Seq(T), NEW S, Lists(s, S), NEW p \in 1 .. Len(s)
  PROVE  /\ Lists(TakeOut(s, p), S \ {s[p]})
         /\ \A c : InOrder(s, c) => InOrder(TakeOut(s, p), c)
<1> DEFINE q == TakeOut(s, p)
<1>1. /\ Len(q) = Len(s) - 1 /\ Len(s) \in Nat
      /\ \A i \in 1 .. Len(s) - 1 : q[i] = IF i < p THEN s[i] ELSE s[i + 1]
  <2>1. Len(s) \in Nat
    OBVIOUS
  <2> QED BY <2>1, TakeOutType, Zenon
<1> HIDE DEF q
<1>2. \A i \in 1 .. Len(q) : q[i] \in S \ {s[p]}
  BY <1>1 DEF Lists
<1>3. \A i, j \in 1 .. Len(q) : q[i] = q[j] => i = j
  <2> SUFFICES ASSUME NEW i \in 1 .. Len(q), NEW j \in 1 .. Len(q), q[i] = q[j] PROVE i = j
    OBVIOUS
  <2>1. PICK a \in 1 .. Len(s) : a = (IF i < p THEN i ELSE i + 1) /\ q[i] = s[a]
    BY <1>1
  <2>2. PICK b \in 1 .. Len(s) : b = (IF j < p THEN j ELSE j + 1) /\ q[j] = s[b]
    BY <1>1
  <2>3. a = b
    BY <2>1, <2>2 DEF Lists
  <2> QED BY <1>1, <2>1, <2>2, <2>3
<1>4. ASSUME NEW t \in S \ {s[p]} PROVE \E i \in 1 .. Len(q) : q[i] = t
  <2>1. PICK k \in 1 .. Len(s) : s[k] = t
    BY DEF Lists
  <2>2. CASE k < p
    BY <1>1, <2>1, <2>2
  <2>3. CASE k > p
    <3>1. k - 1 \in 1 .. Len(q) /\ q[k - 1] = s[k]
      BY <1>1, <2>3
    <3> QED BY <2>1, <3>1
  <2> QED BY <2>1, <2>2, <2>3
<1>5. \A c : InOrder(s, c) => InOrder(q, c)
  BY <1>1 DEF InOrder
<1>6. Lists(q, S \ {s[p]})
  BY <1>2, <1>3, <1>4 DEF Lists
<1> QED BY <1>5, <1>6 DEF q

\* The tail is the list without its first element.
LEMMA TailTakesOut ==
  ASSUME NEW T, NEW s \in Seq(T), s # <<>>
  PROVE  /\ Tail(s) = TakeOut(s, 1) /\ Head(s) = s[1] /\ Head(s) \in T
         /\ Tail(s) \in Seq(T) /\ Len(s) >= 1 /\ Len(s) \in Nat
<1>1. /\ Len(s) \in Nat /\ Len(s) >= 1 /\ Head(s) = s[1] /\ Tail(s) \in Seq(T)
      /\ Len(Tail(s)) = Len(s) - 1
      /\ \A i \in 1 .. Len(s) - 1 : Tail(s)[i] = s[i + 1]
      /\ Head(s) \in T
  OBVIOUS
<1>2. /\ TakeOut(s, 1) \in Seq(T) /\ Len(TakeOut(s, 1)) = Len(s) - 1
      /\ \A i \in 1 .. Len(s) - 1 : TakeOut(s, 1)[i] = s[i + 1]
  <2>1. 1 \in 1 .. Len(s)
    BY <1>1
  <2>2. /\ TakeOut(s, 1) \in Seq(T) /\ Len(TakeOut(s, 1)) = Len(s) - 1
        /\ \A i \in 1 .. Len(s) - 1 : TakeOut(s, 1)[i] = IF i < 1 THEN s[i] ELSE s[i + 1]
    BY <2>1, TakeOutType, Zenon
  <2>3. \A i \in 1 .. Len(s) - 1 : ~ (i < 1)
    BY <1>1
  <2> QED BY <2>2, <2>3, Zenon
<1> QED BY <1>1, <1>2, SeqEqual

\* The order depends on the priorities of the listed threads only.
LEMMA OrderSame ==
  ASSUME NEW s, NEW c, NEW d, InOrder(s, c), \A i \in 1 .. Len(s) : d[s[i]] = c[s[i]]
  PROVE  InOrder(s, d)
BY DEF InOrder

-----------------------------------------------------------------------------
(* The waiting list and the threads on it.                                 *)

Op    == {"none", "take", "release", "reset", "detach", "recv", "send"}
Calls == [op : Op, wait : Wait, value : 0 .. SemMax,
          set : SUBSET Bit, all : BOOLEAN, clear : BOOLEAN]

\* the list is exact, and no suspended thread has been told of an error yet
WaitCore == /\ WaitTypeOK
            /\ call \in [Thread -> Calls]
            /\ ListIsExact
            /\ \A t \in Suspended : error[t] = "EOK"

\* the list stays in order, by the priorities before the step
KeepsOrder == flag = "PRIO" /\ InOrder(suspend_thread, current_priority)
                 => InOrder(suspend_thread', current_priority)

\* ListIsExact and ListIsSorted in terms of lists.
LEMMA ListDefs ==
  /\ ListIsExact <=> Lists(suspend_thread, Suspended)
  /\ ListIsSorted <=> (flag = "PRIO" => InOrder(suspend_thread, current_priority))
BY DEF ListIsExact, ListIsSorted, Lists, InOrder

\* The same after a step.
LEMMA ListDefsNext ==
  /\ ListIsExact' <=> Lists(suspend_thread', Suspended')
  /\ ListIsSorted' <=> (flag' = "PRIO" => InOrder(suspend_thread', current_priority'))
BY DEF ListIsExact, ListIsSorted, Lists, InOrder, Suspended

\* The call that is no call is a call.
LEMMA NoCallType == NoCall \in Calls
BY SemAssumption DEF NoCall, Calls, Op, Wait

\* What is left to show when the list and the threads of a step are known.
LEMMA CoreNext ==
  ASSUME WaitCore,
         kind' \in Kind, attached' \in BOOLEAN, flag' \in {"FIFO", "PRIO"},
         suspend_thread' \in Seq(Thread), pc' \in [Thread -> WaitPC],
         call' \in [Thread -> Calls],
         error' \in [Thread -> {"EOK", "ETIMEOUT", "ERROR"}],
         current_priority' \in [Thread -> Nat],
         Lists(suspend_thread', Suspended'),
         \A x \in Suspended' : error'[x] = "EOK"
  PROVE  WaitCore'
<1>1. DOMAIN call' = Thread /\ \A t \in Thread : call'[t].wait \in Wait
  BY DEF Calls
<1>2. WaitTypeOK'
  BY <1>1 DEF WaitTypeOK
<1>3. ListIsExact'
  BY ListDefsNext
<1> QED BY <1>2, <1>3 DEF WaitCore

\* A call begins.
LEMMA EnterKeeps ==
  ASSUME WaitCore, NEW t \in Thread, NEW c \in Calls, Enter(t, c)
  PROVE  /\ WaitCore' /\ Suspended' = Suspended /\ Granted' = Granted /\ KeepsOrder
         /\ suspend_thread' = suspend_thread
<1>1. pc' \in [Thread -> WaitPC] /\ call' \in [Thread -> Calls]
  BY NoCallType DEF WaitCore, WaitTypeOK, Enter, WaitPC
<1>2. Suspended' = Suspended /\ Granted' = Granted
  BY DEF WaitCore, WaitTypeOK, Enter, Suspended, Granted
<1>3. /\ suspend_thread' = suspend_thread /\ kind' = kind /\ attached' = attached /\ flag' = flag
      /\ error' = error /\ current_priority' = current_priority
  BY DEF Enter
<1>4. WaitCore'
  BY <1>1, <1>2, <1>3, ListDefs, CoreNext DEF WaitCore, WaitTypeOK
<1> QED BY <1>2, <1>3, <1>4 DEF KeepsOrder

\* A call returns, the others are not touched.
LEMMA ReturnKeeps ==
  ASSUME WaitCore, NEW t \in Thread, pc[t] # "suspended", Return(t),
         current_priority' \in [Thread -> Nat]
  PROVE  /\ WaitCore' /\ Suspended' = Suspended /\ Granted' = Granted \ {t} /\ KeepsOrder
         /\ suspend_thread' = suspend_thread
<1>1. pc' \in [Thread -> WaitPC] /\ call' \in [Thread -> Calls]
  BY NoCallType DEF WaitCore, WaitTypeOK, Return, ReturnWaking, WaitPC
<1>2. Suspended' = Suspended /\ Granted' = Granted \ {t}
  BY DEF WaitCore, WaitTypeOK, Return, ReturnWaking, Suspended, Granted
<1>3. /\ suspend_thread' = suspend_thread /\ kind' = kind /\ attached' = attached /\ flag' = flag
      /\ error' \in [Thread -> {"EOK", "ETIMEOUT", "ERROR"}]
  BY DEF Return, ReturnWaking, WaitCore, WaitTypeOK
<1>4. \A x \in Suspended' : error'[x] = "EOK"
  BY <1>2 DEF Return, WaitCore, WaitTypeOK, Suspended
<1>5. WaitCore'
  BY <1>1, <1>2, <1>3, <1>4, ListDefs, CoreNext DEF WaitCore, WaitTypeOK
<1> QED BY <1>2, <1>3, <1>5 DEF KeepsOrder

\* A call returns and hands what it had to the first waiting thread.
LEMMA ResumeKeeps ==
  ASSUME WaitCore, NEW t \in Thread, pc[t] = "call", suspend_thread # <<>>, ReturnResuming(t),
         current_priority' \in [Thread -> Nat]
  PROVE  /\ WaitCore' /\ KeepsOrder
         /\ Head(suspend_thread) \in Suspended /\ Head(suspend_thread) # t
         /\ Head(suspend_thread) = suspend_thread[1] /\ 1 \in 1 .. Len(suspend_thread)
         /\ Suspended' = Suspended \ {Head(suspend_thread)}
         /\ Granted' = Granted \cup {Head(suspend_thread)} /\ Head(suspend_thread) \notin Granted
<1>0. suspend_thread \in Seq(Thread) /\ Lists(suspend_thread, Suspended)
  BY ListDefs DEF WaitCore, WaitTypeOK
<1>1. PICK w : w = Head(suspend_thread)
  OBVIOUS
<1>2. /\ suspend_thread' = TakeOut(suspend_thread, 1) /\ w = suspend_thread[1] /\ w \in Thread
      /\ suspend_thread' \in Seq(Thread) /\ 1 \in 1 .. Len(suspend_thread)
  BY <1>0, <1>1, TailTakesOut DEF ReturnResuming
<1>3. w \in Suspended
  BY <1>0, <1>2 DEF Lists
<1>4. pc[w] = "suspended" /\ w # t /\ error[w] = "EOK"
  BY <1>3 DEF Suspended, WaitCore
<1>5. pc' \in [Thread -> WaitPC] /\ call' \in [Thread -> Calls]
  BY NoCallType DEF WaitCore, WaitTypeOK, ReturnResuming, ReturnWaking, WaitPC
<1>6. Suspended' = Suspended \ {w} /\ Granted' = Granted \cup {w} /\ w \notin Granted
  BY <1>1, <1>2, <1>4 DEF WaitCore, WaitTypeOK, ReturnResuming, ReturnWaking, Suspended, Granted
<1>7. /\ Lists(suspend_thread', Suspended')
      /\ InOrder(suspend_thread, current_priority) => InOrder(suspend_thread', current_priority)
  BY <1>0, <1>2, <1>6, TakeOutLists
<1>8. error' = error /\ kind' = kind /\ attached' = attached /\ flag' = flag
  BY DEF ReturnResuming, ReturnWaking
<1>9. WaitCore'
  BY <1>2, <1>5, <1>6, <1>7, <1>8, CoreNext DEF WaitCore, WaitTypeOK
<1> QED BY <1>1, <1>2, <1>3, <1>4, <1>6, <1>7, <1>9 DEF KeepsOrder

\* A reset returns and resumes every waiting thread with an error.
LEMMA ResumeAllKeeps ==
  ASSUME WaitCore, NEW t \in Thread, pc[t] = "call", ReturnResumingAll(t),
         current_priority' \in [Thread -> Nat]
  PROVE  /\ WaitCore' /\ KeepsOrder /\ suspend_thread' = <<>>
         /\ Suspended' = {} /\ Granted' = Granted
<1>1. pc' \in [Thread -> WaitPC] /\ call' \in [Thread -> Calls]
  BY NoCallType DEF WaitCore, WaitTypeOK, ReturnResumingAll, ReturnWaking, WaitPC
<1>2. Suspended' = {}
  BY DEF WaitCore, WaitTypeOK, ReturnResumingAll, ReturnWaking, Suspended
<1>3. Granted' = Granted
  BY DEF WaitCore, WaitTypeOK, ReturnResumingAll, ReturnWaking, Suspended, Granted
<1>4. /\ suspend_thread' = <<>> /\ kind' = kind /\ attached' = attached /\ flag' = flag
      /\ error' \in [Thread -> {"EOK", "ETIMEOUT", "ERROR"}]
  BY DEF ReturnResumingAll, ReturnWaking, WaitCore, WaitTypeOK
<1>5. suspend_thread' \in Seq(Thread) /\ Lists(suspend_thread', {}) /\ InOrder(suspend_thread', current_priority)
  BY <1>4 DEF Lists, InOrder
<1>6. WaitCore'
  BY <1>1, <1>2, <1>4, <1>5, CoreNext DEF WaitCore, WaitTypeOK
<1> QED BY <1>2, <1>3, <1>4, <1>5, <1>6 DEF KeepsOrder

\* There is a place for a thread on the list: at the end, or before the first
\* thread of lower priority.
LEMMA PlaceIs ==
  ASSUME WaitCore, NEW t \in Thread
  PROVE  /\ Place(t) \in 1 .. Len(suspend_thread) + 1
         /\ Place(t) <= Len(suspend_thread) => flag = "PRIO" /\ Before(t, Place(t))
         /\ flag = "PRIO" => \A i \in 1 .. Place(t) - 1 : ~ Before(t, i)
<1> DEFINE P(p) == /\ p <= Len(suspend_thread) => flag = "PRIO" /\ Before(t, p)
                   /\ flag = "PRIO" => \A i \in 1 .. p - 1 : ~ Before(t, i)
           S == {p \in 1 .. Len(suspend_thread) : Before(t, p)}
<1>1. Len(suspend_thread) \in Nat
  BY DEF WaitCore, WaitTypeOK
<1>2. \E p \in 1 .. Len(suspend_thread) + 1 : P(p)
  <2>1. CASE flag # "PRIO"
    <3>1. P(Len(suspend_thread) + 1) /\ Len(suspend_thread) + 1 \in 1 .. Len(suspend_thread) + 1
      BY <1>1, <2>1
    <3> QED BY <3>1
  <2>2. CASE S = {}
    <3>1. P(Len(suspend_thread) + 1) /\ Len(suspend_thread) + 1 \in 1 .. Len(suspend_thread) + 1
      BY <1>1, <2>2
    <3> QED BY <3>1
  <2>3. CASE flag = "PRIO" /\ S # {}
    <3>1. S \in SUBSET Nat
      BY <1>1
    <3>2. PICK m \in S : \A k \in S : m <= k
      BY <2>3, <3>1, LeastNat
    <3>3. m \in 1 .. Len(suspend_thread) /\ Before(t, m)
      OBVIOUS
    <3>4. ASSUME NEW i \in 1 .. m - 1, Before(t, i) PROVE FALSE
      <4>1. i \in S
        BY <1>1, <3>3, <3>4
      <4> QED BY <1>1, <3>2, <3>3, <4>1
    <3>5. P(m) /\ m \in 1 .. Len(suspend_thread) + 1
      BY <1>1, <2>3, <3>3, <3>4
    <3> QED BY <3>5
  <2> QED BY <2>1, <2>2, <2>3
<1>3. Place(t) = CHOOSE p \in 1 .. Len(suspend_thread) + 1 : P(p)
  BY DEF Place
<1> HIDE DEF P
<1>4. Place(t) \in 1 .. Len(suspend_thread) + 1 /\ P(Place(t))
  BY <1>2, <1>3, Zenon
<1> QED BY <1>4 DEF P

\* A thread goes to sleep.
LEMMA SuspendKeeps ==
  ASSUME WaitCore, NEW t \in Thread, pc[t] = "call", Suspend(t),
         current_priority' \in [Thread -> Nat]
  PROVE  /\ WaitCore' /\ KeepsOrder
         /\ Suspended' = Suspended \cup {t} /\ t \notin Suspended /\ Granted' = Granted
         /\ suspend_thread' # <<>>
<1>0. /\ suspend_thread \in Seq(Thread) /\ Lists(suspend_thread, Suspended)
      /\ current_priority \in [Thread -> Nat]
  BY ListDefs DEF WaitCore, WaitTypeOK
<1>1. PICK p : p = Place(t)
  OBVIOUS
<1>2. p \in 1 .. Len(suspend_thread) + 1
  BY <1>1, PlaceIs
<1>3. suspend_thread' = PutIn(suspend_thread, t, p)
  BY <1>1 DEF Suspend, Inserted, PutIn
<1>4. Suspended' = Suspended \cup {t} /\ t \notin Suspended
  BY DEF WaitCore, WaitTypeOK, Suspend, Suspended
<1>5. Granted' = Granted
  BY DEF WaitCore, WaitTypeOK, Suspend, Granted
<1>6. /\ suspend_thread' \in Seq(Thread) /\ Lists(suspend_thread', Suspended')
      /\ Len(suspend_thread') = Len(suspend_thread) + 1
  BY <1>0, <1>2, <1>3, <1>4, PutInType, PutInLists
<1>7. suspend_thread' # <<>>
  BY <1>0, <1>6
<1>8. /\ pc' \in [Thread -> WaitPC] /\ kind' = kind /\ attached' = attached /\ flag' = flag
      /\ error' \in [Thread -> {"EOK", "ETIMEOUT", "ERROR"}] /\ call' = call
  BY DEF Suspend, WaitCore, WaitTypeOK, WaitPC
<1>9. \A x \in Suspended' : error'[x] = "EOK"
  BY <1>4 DEF Suspend, WaitCore, WaitTypeOK, Suspended
<1>10. WaitCore'
  BY <1>6, <1>8, <1>9, CoreNext DEF WaitCore, WaitTypeOK
<1>11. KeepsOrder
  <2> SUFFICES ASSUME flag = "PRIO", InOrder(suspend_thread, current_priority)
               PROVE  InOrder(suspend_thread', current_priority)
    BY DEF KeepsOrder
  <2>1. /\ p <= Len(suspend_thread) => current_priority[t] < current_priority[suspend_thread[p]]
        /\ \A i \in 1 .. p - 1 : ~ (current_priority[t] < current_priority[suspend_thread[i]])
    BY <1>1, PlaceIs DEF Before
  <2> QED BY <1>0, <1>2, <1>3, <2>1, PutInOrder
<1> QED BY <1>4, <1>5, <1>7, <1>10, <1>11

\* A sleeping thread is taken off the list, wherever it is, and resumed.
LEMMA UnlinkKeeps ==
  ASSUME WaitCore, NEW p \in 1 .. Len(suspend_thread),
         NEW e \in {"ETIMEOUT", "ERROR"}, NEW w \in Thread, w = suspend_thread[p],
         suspend_thread' = TakeOut(suspend_thread, p),
         pc' \in [Thread -> WaitPC], pc'[w] = "resumed",
         \A x \in Thread \ {w} : \/ pc'[x] = pc[x]
                                 \/ pc[x] \notin {"suspended", "resumed"} /\ pc'[x] \notin {"suspended", "resumed"},
         error' = [error EXCEPT ![w] = e],
         UNCHANGED <<kind, attached, flag, call, current_priority>>
  PROVE  /\ WaitCore' /\ KeepsOrder /\ w \in Suspended
         /\ Suspended' = Suspended \ {w} /\ Granted' = Granted
<1>0. suspend_thread \in Seq(Thread) /\ Lists(suspend_thread, Suspended)
  BY ListDefs DEF WaitCore, WaitTypeOK
<1>1. w \in Suspended
  BY <1>0 DEF Lists
<1>2. Suspended' = Suspended \ {w}
  BY DEF Suspended
<1>3. Granted' = Granted
  BY <1>1 DEF Granted, Suspended, WaitCore, WaitTypeOK
<1>4. /\ suspend_thread' \in Seq(Thread) /\ Lists(suspend_thread', Suspended')
      /\ InOrder(suspend_thread, current_priority) => InOrder(suspend_thread', current_priority)
  BY <1>0, <1>2, TakeOutType, TakeOutLists
<1>5. /\ error' \in [Thread -> {"EOK", "ETIMEOUT", "ERROR"}]
      /\ \A x \in Suspended' : error'[x] = "EOK"
  BY <1>2 DEF WaitCore, WaitTypeOK, Suspended
<1>6. WaitCore'
  BY <1>4, <1>5, CoreNext DEF WaitCore, WaitTypeOK
<1> QED BY <1>1, <1>2, <1>3, <1>4, <1>6 DEF KeepsOrder

\* A timer takes its thread off the list and resumes it.
LEMMA ExpireKeeps ==
  ASSUME WaitCore, NEW t \in Thread, Expire(t)
  PROVE  WaitCore' /\ KeepsOrder /\ Suspended' \subseteq Suspended /\ Granted' = Granted
<1>0. suspend_thread \in Seq(Thread) /\ Lists(suspend_thread, Suspended) /\ t \in Suspended
  BY ListDefs DEF WaitCore, WaitTypeOK, Expire, Suspended
<1>1. \E i \in 1 .. Len(suspend_thread) : suspend_thread[i] = t
  BY <1>0 DEF Lists
<1>2. PICK p \in 1 .. Len(suspend_thread) :
           suspend_thread[p] = t /\ p = CHOOSE i \in 1 .. Len(suspend_thread) : suspend_thread[i] = t
  BY <1>1
<1>3. suspend_thread' = TakeOut(suspend_thread, p)
  BY <1>2 DEF Expire, Without, TakeOut
<1>4. /\ pc' \in [Thread -> WaitPC] /\ pc'[t] = "resumed" /\ \A x \in Thread \ {t} : pc'[x] = pc[x]
      /\ error' = [error EXCEPT ![t] = "ETIMEOUT"]
      /\ UNCHANGED <<kind, attached, flag, call, current_priority>>
  BY DEF Expire, WaitCore, WaitTypeOK, WaitPC
<1> QED BY <1>2, <1>3, <1>4, UnlinkKeeps

\* The steps of a detach.
LEMMA DetachKeeps ==
  ASSUME WaitCore, NEW t \in Thread, Detach(t)
  PROVE  /\ WaitCore' /\ KeepsOrder /\ Suspended' \subseteq Suspended /\ Granted' = Granted
         /\ suspend_thread = <<>> => suspend_thread' = <<>>
<1>0. suspend_thread \in Seq(Thread) /\ Lists(suspend_thread, Suspended)
  BY ListDefs DEF WaitCore, WaitTypeOK
<1>1. CASE DetachResume(t) /\ suspend_thread # <<>>
  <2>1. PICK w : w = Head(suspend_thread)
    OBVIOUS
  <2>2. /\ suspend_thread' = TakeOut(suspend_thread, 1) /\ w = suspend_thread[1] /\ w \in Thread
        /\ 1 \in 1 .. Len(suspend_thread)
    BY <1>0, <1>1, <2>1, TailTakesOut DEF DetachResume
  <2>3. pc[w] = "suspended"
    BY <1>0, <2>2 DEF Lists, Suspended
  <2>4. /\ pc' \in [Thread -> WaitPC] /\ pc'[w] = "resumed"
        /\ \A x \in Thread \ {w} : \/ pc'[x] = pc[x]
                                   \/ pc[x] \notin {"suspended", "resumed"} /\ pc'[x] \notin {"suspended", "resumed"}
    <3>1. pc[t] = "detach_locked" /\ pc' = [pc EXCEPT ![t] = "detach", ![w] = "resumed"]
      BY <1>1, <2>1 DEF DetachResume
    <3>2. t # w /\ pc \in [Thread -> WaitPC] /\ {"detach", "resumed"} \subseteq WaitPC
      BY <2>3, <3>1 DEF WaitCore, WaitTypeOK, WaitPC
    <3>3. pc' \in [Thread -> WaitPC] /\ pc'[w] = "resumed" /\ pc'[t] = "detach"
      BY <2>2, <3>1, <3>2
    <3>4. \A x \in Thread \ {w, t} : pc'[x] = pc[x]
      BY <3>1, <3>2
    <3> QED BY <3>1, <3>3, <3>4
  <2>5. error' = [error EXCEPT ![w] = "ERROR"] /\ UNCHANGED <<kind, attached, flag, call, current_priority>>
    BY <1>1, <2>1 DEF DetachResume
  <2> QED BY <1>1, <2>2, <2>4, <2>5, UnlinkKeeps
<1>2. CASE DetachTest(t) \/ DetachObject(t) \/ (DetachResume(t) /\ suspend_thread = <<>>)
  <2>1. /\ pc' \in [Thread -> WaitPC]
        /\ \A x \in Thread : \/ pc'[x] = pc[x]
                             \/ pc[x] \notin {"suspended", "resumed"} /\ pc'[x] \notin {"suspended", "resumed"}
    BY <1>2 DEF DetachTest, DetachObject, DetachResume, WaitCore, WaitTypeOK, WaitPC
  <2>2. call' \in [Thread -> Calls]
    BY <1>2, NoCallType DEF DetachTest, DetachObject, DetachResume, WaitCore
  <2>3. /\ suspend_thread' = suspend_thread /\ error' = error /\ kind' = kind /\ flag' = flag
        /\ current_priority' = current_priority
    BY <1>2 DEF DetachTest, DetachObject, DetachResume
  <2>4. attached' \in BOOLEAN
    BY <1>2 DEF DetachTest, DetachObject, DetachResume, WaitCore, WaitTypeOK
  <2>5. Suspended' = Suspended /\ Granted' = Granted
    BY <2>1, <2>3 DEF Suspended, Granted
  <2>6. WaitCore'
    BY <1>0, <2>1, <2>2, <2>3, <2>4, <2>5, CoreNext DEF WaitCore, WaitTypeOK
  <2> QED BY <2>3, <2>5, <2>6 DEF KeepsOrder
<1> QED BY <1>1, <1>2 DEF Detach, DetachResume

-----------------------------------------------------------------------------
(* The scan of the list by rt_event_send.                                  *)

\* The scan is the function its recursive definition says: one exists for every
\* length of the list, as a shortest one without would have one by one more step.
LEMMA ScannedIs ==
  ASSUME NEW s, Len(suspend_thread) \in Nat
  PROVE  \E f : /\ f = [i \in 0 .. Len(suspend_thread) |->
                          IF i = 0 THEN ScanStart(s) ELSE Scan(f[i - 1], suspend_thread[i])]
                /\ Scanned(s) = f[Len(suspend_thread)]
<1> DEFINE F(f, m) == [i \in 0 .. m |-> IF i = 0 THEN ScanStart(s) ELSE Scan(f[i - 1], suspend_thread[i])]
           Bad == {m \in Nat : ~ \E f : f = F(f, m)}
<1>1. Bad = {}
  <2> SUFFICES ASSUME Bad # {} PROVE FALSE
    OBVIOUS
  <2>1. PICK m \in Bad : \A k \in Bad : m <= k
    <3>1. Bad \in SUBSET Nat
      OBVIOUS
    <3> QED BY <3>1, LeastNat
  <2>2. m # 0
    <3>1. PICK f : f = [i \in 0 .. 0 |-> ScanStart(s)]
      OBVIOUS
    <3>2. f = F(f, 0)
      BY <3>1
    <3> QED BY <3>2
  <2>3. m - 1 \in Nat /\ m - 1 \notin Bad
    BY <2>1, <2>2
  <2>4. PICK f : f = F(f, m - 1)
    BY <2>3
  <2>5. PICK g : g = [i \in 0 .. m |-> IF i = m THEN Scan(f[m - 1], suspend_thread[m]) ELSE f[i]]
    OBVIOUS
  <2>6. ASSUME NEW i \in 0 .. m
        PROVE  g[i] = IF i = 0 THEN ScanStart(s) ELSE Scan(g[i - 1], suspend_thread[i])
    <3>1. CASE i = m
      <4>1. g[m - 1] = f[m - 1]
        BY <2>2, <2>5
      <4> QED BY <2>2, <2>5, <3>1, <4>1
    <3>2. CASE i # m
      <4>1. i \in 0 .. m - 1 /\ g[i] = f[i]
        BY <2>5, <3>2
      <4>2. f[i] = IF i = 0 THEN ScanStart(s) ELSE Scan(f[i - 1], suspend_thread[i])
        BY <2>4, <4>1
      <4>3. i # 0 => g[i - 1] = f[i - 1]
        BY <2>5, <3>2
      <4> QED BY <4>1, <4>2, <4>3
    <3> QED BY <3>1, <3>2
  <2>7. g = F(g, m)
    BY <2>5, <2>6
  <2> QED BY <2>7
<1>2. \E f : f = F(f, Len(suspend_thread))
  BY <1>1
<1>3. PICK f : f = F(f, Len(suspend_thread)) /\ f = CHOOSE h : h = F(h, Len(suspend_thread))
  BY <1>2
<1>4. Scanned(s) = f[Len(suspend_thread)]
  BY <1>3 DEF Scanned
<1> QED BY <1>3, <1>4

Passed(k) == {suspend_thread[i] : i \in 1 .. k}

ScanRecord == [set : SUBSET Bit, woken : SUBSET Thread, given : [Thread -> SUBSET Bit],
               list : Seq(Thread), credit : [Bit -> Int]]

\* the scan after k threads: who was passed over stays asleep, in order, and is
\* not satisfied; who was resumed was given what it asked for
ScanOK(r, k) ==
    /\ r \in ScanRecord
    /\ r.woken \subseteq Passed(k)
    /\ Lists(r.list, Passed(k) \ r.woken)
    /\ InOrder(suspend_thread, current_priority) => InOrder(r.list, current_priority)
    /\ \A x \in Passed(k) \ r.woken : ~ Satisfied(call[x], r.set)
    /\ \A b \in Bit : r.credit[b] >= 0
    /\ \A b \in r.set : r.credit[b] >= 1
    /\ \A x \in Thread \ r.woken : r.given[x] = event_set[x]
    /\ \A x \in r.woken : call[x].set # {} =>
          /\ r.given[x] # {} /\ r.given[x] \subseteq call[x].set
          /\ call[x].all => r.given[x] = call[x].set

\* A condition that does not hold for s does not hold for fewer events.
LEMMA SatisfiedMonotone ==
  ASSUME NEW o, NEW s, NEW r, r \subseteq s, Satisfied(o, r)
  PROVE  Satisfied(o, s)
BY DEF Satisfied

\* The list up to the k-th thread.
LEMMA PassedNext ==
  ASSUME WaitCore, NEW k \in 1 .. Len(suspend_thread)
  PROVE  /\ Passed(k) = Passed(k - 1) \cup {suspend_thread[k]}
         /\ suspend_thread[k] \notin Passed(k - 1)
         /\ suspend_thread[k] \in Thread /\ Passed(k - 1) \subseteq Thread
<1>1. suspend_thread \in Seq(Thread) /\ Lists(suspend_thread, Suspended) /\ Len(suspend_thread) \in Nat
  BY ListDefs DEF WaitCore, WaitTypeOK
<1>2. ASSUME NEW i \in 1 .. k PROVE i = k \/ i \in 1 .. k - 1
  BY <1>1
<1>3. ASSUME NEW i \in 1 .. k - 1 PROVE i \in 1 .. k /\ i # k /\ i \in 1 .. Len(suspend_thread)
  BY <1>1
<1>4. suspend_thread[k] \notin Passed(k - 1)
  BY <1>1, <1>3 DEF Passed, Lists
<1>5. Passed(k) = Passed(k - 1) \cup {suspend_thread[k]}
  BY <1>1, <1>2, <1>3 DEF Passed
<1>6. suspend_thread[k] \in Thread /\ Passed(k - 1) \subseteq Thread
  BY <1>1, <1>3 DEF Passed
<1> QED BY <1>4, <1>5, <1>6

\* The scan passes over a thread.
LEMMA ScanPass ==
  ASSUME WaitCore, NEW k \in 1 .. Len(suspend_thread), NEW r, ScanOK(r, k - 1),
         ~ Satisfied(call[suspend_thread[k]], r.set)
  PROVE  ScanOK(Scan(r, suspend_thread[k]), k)
<1>0. /\ suspend_thread \in Seq(Thread) /\ Len(suspend_thread) \in Nat
      /\ Passed(k) = Passed(k - 1) \cup {suspend_thread[k]} /\ suspend_thread[k] \notin Passed(k - 1)
      /\ suspend_thread[k] \in Thread
  BY PassedNext DEF WaitCore, WaitTypeOK
<1>1. PICK w \in Thread : w = suspend_thread[k]
  BY <1>0
<1>2. PICK q : q = Scan(r, w)
  OBVIOUS
<1>3. q = [r EXCEPT !.list = Append(r.list, w)]
  BY <1>1, <1>2 DEF Scan
<1>4. /\ r \in ScanRecord /\ r.list \in Seq(Thread) /\ Lists(r.list, Passed(k - 1) \ r.woken)
      /\ r.woken \subseteq Passed(k - 1)
  BY DEF ScanOK, ScanRecord
<1>5. /\ q \in ScanRecord /\ q.set = r.set /\ q.woken = r.woken /\ q.given = r.given
      /\ q.credit = r.credit /\ q.list = Append(r.list, w)
  <2>1. PICK l : l = Append(r.list, w)
    OBVIOUS
  <2>2. l \in Seq(Thread)
    BY <1>4, <2>1
  <2>3. q = [r EXCEPT !.list = l]
    BY <1>3, <2>1
  <2> QED BY <1>4, <2>1, <2>2, <2>3 DEF ScanRecord
<1>6. /\ Len(q.list) = Len(r.list) + 1 /\ Len(r.list) \in Nat
      /\ q.list[Len(r.list) + 1] = w
      /\ \A i \in 1 .. Len(r.list) : q.list[i] = r.list[i]
  BY <1>4, <1>5
<1>7. Passed(k) \ q.woken = (Passed(k - 1) \ r.woken) \cup {w} /\ w \notin Passed(k - 1) \ r.woken
  BY <1>0, <1>1, <1>4, <1>5
<1>8. Lists(q.list, Passed(k) \ q.woken)
  <2>1. \A i \in 1 .. Len(q.list) : i = Len(r.list) + 1 \/ i \in 1 .. Len(r.list)
    BY <1>6
  <2>2. \A i \in 1 .. Len(r.list) : i # Len(r.list) + 1 /\ i \in 1 .. Len(q.list)
    BY <1>6
  <2>3. Len(r.list) + 1 \in 1 .. Len(q.list)
    BY <1>6
  <2>4. \A i \in 1 .. Len(q.list) : q.list[i] \in Passed(k) \ q.woken
    BY <1>4, <1>6, <1>7, <2>1 DEF Lists
  <2>5. \A i, j \in 1 .. Len(q.list) : q.list[i] = q.list[j] => i = j
    BY <1>4, <1>6, <1>7, <2>1 DEF Lists
  <2>6. \A x \in Passed(k) \ q.woken : \E i \in 1 .. Len(q.list) : q.list[i] = x
    BY <1>4, <1>6, <1>7, <2>2, <2>3 DEF Lists
  <2> QED BY <2>4, <2>5, <2>6 DEF Lists
<1>9. ASSUME InOrder(suspend_thread, current_priority) PROVE InOrder(q.list, current_priority)
  <2>1. InOrder(r.list, current_priority)
    BY <1>9 DEF ScanOK
  <2>2. ASSUME NEW i \in 1 .. Len(r.list) PROVE current_priority[r.list[i]] <= current_priority[w]
    <3>1. r.list[i] \in Passed(k - 1)
      BY <1>4 DEF Lists
    <3>2. PICK j \in 1 .. k - 1 : r.list[i] = suspend_thread[j]
      BY <3>1 DEF Passed
    <3>3. j \in 1 .. Len(suspend_thread) /\ j < k
      BY <1>0
    <3> QED BY <1>1, <1>9, <3>2, <3>3 DEF InOrder
  <2>3. ASSUME NEW i \in 1 .. Len(q.list), NEW j \in 1 .. Len(q.list), i < j
        PROVE  current_priority[q.list[i]] <= current_priority[q.list[j]]
    <3>1. i \in 1 .. Len(r.list)
      BY <1>6, <2>3
    <3>2. CASE j = Len(r.list) + 1
      BY <1>6, <2>2, <3>1, <3>2
    <3>3. CASE j \in 1 .. Len(r.list)
      BY <1>6, <2>1, <2>3, <3>1, <3>3 DEF InOrder
    <3> QED BY <1>6, <3>2, <3>3
  <2> QED BY <2>3 DEF InOrder
<1>10. \A x \in Passed(k) \ q.woken : ~ Satisfied(call[x], q.set)
  BY <1>1, <1>5, <1>7 DEF ScanOK
<1>11. ScanOK(q, k)
  BY <1>0, <1>5, <1>8, <1>9, <1>10 DEF ScanOK
<1> QED BY <1>1, <1>2, <1>11

\* The scan resumes a thread.
LEMMA ScanWake ==
  ASSUME WaitCore, NEW k \in 1 .. Len(suspend_thread), NEW r, ScanOK(r, k - 1),
         Satisfied(call[suspend_thread[k]], r.set)
  PROVE  ScanOK(Scan(r, suspend_thread[k]), k)
<1>0. /\ Passed(k) = Passed(k - 1) \cup {suspend_thread[k]} /\ suspend_thread[k] \notin Passed(k - 1)
      /\ suspend_thread[k] \in Thread /\ Passed(k - 1) \subseteq Thread
  BY PassedNext
<1>1. PICK w \in Thread : w = suspend_thread[k]
  BY <1>0
<1>2. PICK q : q = Scan(r, w)
  OBVIOUS
<1>3. PICK o : o = call[w]
  OBVIOUS
<1>4. PICK got : got = o.set \cap r.set
  OBVIOUS
<1>5. /\ o \in Calls
      /\ r \in ScanRecord /\ r.woken \subseteq Passed(k - 1)
      /\ r.set \subseteq Bit /\ r.given \in [Thread -> SUBSET Bit] /\ r.credit \in [Bit -> Int]
      /\ r.list \in Seq(Thread) /\ r.woken \subseteq Thread
  BY <1>3 DEF ScanOK, ScanRecord, WaitCore
<1>6. q = [set    |-> IF o.clear THEN r.set \ got ELSE r.set,
           woken  |-> r.woken \cup {w},
           given  |-> [r.given EXCEPT ![w] = got],
           credit |-> IF o.clear THEN Taken(r.credit, got) ELSE r.credit,
           list   |-> r.list]
  BY <1>1, <1>2, <1>3, <1>4 DEF Scan, GoesOn, Cleared
<1>7. /\ q.set = (IF o.clear THEN r.set \ got ELSE r.set) /\ q.woken = r.woken \cup {w}
      /\ q.given = [r.given EXCEPT ![w] = got] /\ q.list = r.list
      /\ q.credit = (IF o.clear THEN Taken(r.credit, got) ELSE r.credit)
  BY <1>6
<1>8. got \subseteq Bit /\ got \subseteq r.set
  BY <1>4, <1>5
<1>9. /\ q.set \subseteq r.set /\ q.set \subseteq Bit /\ q.woken \subseteq Thread
      /\ q.given \in [Thread -> SUBSET Bit]
  BY <1>5, <1>7, <1>8
<1>10. /\ q.credit \in [Bit -> Int]
       /\ \A b \in Bit : q.credit[b] >= 0
       /\ \A b \in q.set : q.credit[b] >= 1
  <2>1. /\ \A b \in Bit : r.credit[b] \in Int /\ r.credit[b] >= 0
        /\ \A b \in r.set : r.credit[b] >= 1
    BY <1>5 DEF ScanOK
  <2>2. CASE ~ o.clear
    BY <1>5, <1>7, <2>1, <2>2
  <2>3. CASE o.clear
    <3>1. q.credit = [b \in Bit |-> IF b \in got THEN r.credit[b] - 1 ELSE r.credit[b]]
      BY <1>7, <2>3 DEF Taken
    <3>2. \A b \in Bit : q.credit[b] = IF b \in got THEN r.credit[b] - 1 ELSE r.credit[b]
      BY <3>1
    <3>3. q.credit \in [Bit -> Int]
      BY <2>1, <3>1
    <3>4. \A b \in q.set : b \in Bit /\ b \in r.set /\ b \notin got
      BY <1>5, <1>7, <2>3
    <3>5. \A b \in Bit : q.credit[b] >= 0
      BY <1>8, <2>1, <3>2
    <3>6. \A b \in q.set : q.credit[b] >= 1
      BY <2>1, <3>2, <3>4
    <3> QED BY <3>3, <3>5, <3>6
  <2> QED BY <2>2, <2>3
<1>11. q \in ScanRecord
  BY <1>5, <1>6, <1>7, <1>9, <1>10 DEF ScanRecord
<1>12. Passed(k) \ q.woken = Passed(k - 1) \ r.woken /\ q.woken \subseteq Passed(k)
  BY <1>0, <1>1, <1>5, <1>7
<1>13. \A x \in Passed(k) \ q.woken : ~ Satisfied(call[x], q.set)
  BY <1>9, <1>12, SatisfiedMonotone DEF ScanOK
<1>14. \A x \in Thread \ q.woken : q.given[x] = event_set[x]
  BY <1>5, <1>7 DEF ScanOK
<1>15. ASSUME NEW x \in q.woken, call[x].set # {}
       PROVE  /\ q.given[x] # {} /\ q.given[x] \subseteq call[x].set
              /\ call[x].all => q.given[x] = call[x].set
  <2>1. CASE x = w
    <3>1. q.given[x] = got
      BY <1>5, <1>7, <2>1
    <3>2. Satisfied(o, r.set)
      BY <1>1, <1>3
    <3> QED BY <1>3, <1>4, <1>15, <2>1, <3>1, <3>2 DEF Satisfied
  <2>2. CASE x # w
    <3>1. x \in r.woken /\ q.given[x] = r.given[x]
      BY <1>5, <1>7, <2>2
    <3> QED BY <1>15, <3>1 DEF ScanOK
  <2> QED BY <2>1, <2>2
<1>16. ScanOK(q, k)
  BY <1>7, <1>10, <1>11, <1>12, <1>13, <1>14, <1>15 DEF ScanOK
<1> QED BY <1>1, <1>2, <1>16

\* The whole scan, from a state in which events are credited as they should be.
LEMMA ScannedOK ==
  ASSUME WaitCore, EventTypeOK, TakenOnce, NEW s \in SUBSET Bit, set \subseteq s
  PROVE  ScanOK(Scanned(s), Len(suspend_thread))
<1>0. suspend_thread \in Seq(Thread) /\ Len(suspend_thread) \in Nat
  BY DEF WaitCore, WaitTypeOK
<1>1. PICK f : /\ f = [i \in 0 .. Len(suspend_thread) |->
                         IF i = 0 THEN ScanStart(s) ELSE Scan(f[i - 1], suspend_thread[i])]
               /\ Scanned(s) = f[Len(suspend_thread)]
  BY <1>0, ScannedIs
<1>2. /\ f[0] = ScanStart(s)
      /\ \A i \in 1 .. Len(suspend_thread) : f[i] = Scan(f[i - 1], suspend_thread[i])
  BY <1>0, <1>1
<1>3. ScanOK(ScanStart(s), 0)
  <2>1. PICK q : q = ScanStart(s)
    OBVIOUS
  <2>2. /\ q.set = s /\ q.woken = {} /\ q.given = event_set /\ q.list = <<>>
        /\ q.credit = [b \in Bit |-> IF b \in s \ set THEN credit[b] + 1 ELSE credit[b]]
    BY <2>1 DEF ScanStart
  <2>3. \A b \in Bit : credit[b] \in Int /\ credit[b] >= 0 /\ (b \in set => credit[b] >= 1)
    BY DEF EventTypeOK, TakenOnce
  <2>4. /\ q.credit \in [Bit -> Int]
        /\ \A b \in Bit : q.credit[b] >= 0
        /\ \A b \in q.set : q.credit[b] >= 1
    BY <2>2, <2>3
  <2>5. q \in ScanRecord
    BY <2>1, <2>2, <2>4 DEF ScanStart, ScanRecord, EventTypeOK
  <2>6. Passed(0) = {}
    BY DEF Passed
  <2>7. Lists(q.list, Passed(0) \ q.woken) /\ InOrder(q.list, current_priority)
    BY <2>2, <2>6 DEF Lists, InOrder
  <2>8. ScanOK(q, 0)
    BY <2>2, <2>4, <2>5, <2>6, <2>7 DEF ScanOK
  <2> QED BY <2>1, <2>8
<1> DEFINE Bad == {k \in 0 .. Len(suspend_thread) : ~ ScanOK(f[k], k)}
<1>4. Bad = {}
  <2> SUFFICES ASSUME Bad # {} PROVE FALSE
    OBVIOUS
  <2>1. PICK m \in Bad : \A k \in Bad : m <= k
    <3>1. Bad \in SUBSET Nat
      BY <1>0
    <3> QED BY <3>1, LeastNat
  <2>2. m # 0
    BY <1>2, <1>3
  <2>3. m \in 1 .. Len(suspend_thread) /\ m - 1 \in 0 .. Len(suspend_thread) /\ m - 1 \notin Bad
    BY <1>0, <2>1, <2>2
  <2>4. ScanOK(f[m - 1], m - 1)
    BY <2>3
  <2>5. ScanOK(Scan(f[m - 1], suspend_thread[m]), m)
    BY <2>3, <2>4, ScanPass, ScanWake
  <2> QED BY <1>2, <2>3, <2>5
<1>5. ScanOK(f[Len(suspend_thread)], Len(suspend_thread))
  BY <1>0, <1>4
<1> QED BY <1>1, <1>5

\* What a send does: it wakes some of the sleeping threads, and the others stay
\* on the list.
LEMMA SendKeeps ==
  ASSUME WaitCore, EventTypeOK, TakenOnce, NEW t \in Thread, EventSend(t)
  PROVE  /\ WaitCore' /\ KeepsOrder
         /\ Suspended' \subseteq Suspended
         /\ \A x \in Granted' : x \in Suspended \/ x \in Granted
         /\ \A x \in Suspended : \/ x \in Suspended' /\ event_set'[x] = event_set[x]
                                   /\ ~ Satisfied(call[x], set')
                                 \/ x \in Granted' /\ (call[x].set # {} =>
                                       /\ event_set'[x] # {} /\ event_set'[x] \subseteq call[x].set
                                       /\ call[x].all => event_set'[x] = call[x].set)
         /\ \A x \in Thread \ Suspended : event_set'[x] = event_set[x]
         /\ \A x \in Thread \ {t} : call'[x] = call[x]
         /\ EventTypeOK' /\ TakenOnce'
<1>1. PICK r : r = Scanned(set \cup call[t].set)
  OBVIOUS
<1>2. set \cup call[t].set \in SUBSET Bit
  BY DEF WaitCore, Calls, EventTypeOK
<1>3. ScanOK(r, Len(suspend_thread))
  BY <1>1, <1>2, ScannedOK
<1>4. /\ set' = r.set /\ event_set' = r.given /\ credit' = r.credit /\ suspend_thread' = r.list
      /\ ReturnWaking(t, r.woken) /\ pc[t] = "call"
      /\ UNCHANGED <<error, sends, current_priority>>
  BY <1>1 DEF EventSend, In
<1>5. suspend_thread \in Seq(Thread) /\ Lists(suspend_thread, Suspended) /\ t \notin Suspended
  BY <1>4, ListDefs DEF WaitCore, WaitTypeOK, Suspended
<1>6. Passed(Len(suspend_thread)) = Suspended
  BY <1>5 DEF Passed, Lists, Suspended
<1>7. /\ r \in ScanRecord /\ r.woken \subseteq Suspended /\ Lists(r.list, Suspended \ r.woken)
      /\ InOrder(suspend_thread, current_priority) => InOrder(r.list, current_priority)
  BY <1>3, <1>6 DEF ScanOK
<1>8. /\ pc' = [x \in Thread |-> IF x = t THEN "idle" ELSE IF x \in r.woken THEN "resumed" ELSE pc[x]]
      /\ call' = [call EXCEPT ![t] = NoCall] /\ kind' = kind /\ attached' = attached /\ flag' = flag
  BY <1>4 DEF ReturnWaking
<1>9. pc' \in [Thread -> WaitPC] /\ call' \in [Thread -> Calls]
  BY <1>8, NoCallType DEF WaitCore, WaitTypeOK, WaitPC
<1>10. Suspended' = Suspended \ r.woken
  BY <1>4, <1>5, <1>8 DEF Suspended
<1>11. WaitCore'
  BY <1>4, <1>7, <1>8, <1>9, <1>10, CoreNext DEF WaitCore, WaitTypeOK, ScanRecord
<1>12. KeepsOrder
  BY <1>4, <1>7 DEF KeepsOrder
<1>13. r.woken \subseteq Granted' /\ Granted' \subseteq Granted \cup r.woken
  BY <1>4, <1>5, <1>7, <1>8 DEF Granted, Suspended, WaitCore
<1>14. EventTypeOK'
  BY <1>4, <1>7 DEF EventTypeOK, ScanRecord
<1>15. TakenOnce'
  BY <1>3, <1>4 DEF ScanOK, TakenOnce
<1>16. /\ \A x \in Suspended \ r.woken : ~ Satisfied(call[x], set')
       /\ \A x \in Thread \ r.woken : event_set'[x] = event_set[x]
       /\ \A x \in r.woken : call[x].set # {} =>
             /\ event_set'[x] # {} /\ event_set'[x] \subseteq call[x].set
             /\ call[x].all => event_set'[x] = call[x].set
  BY <1>3, <1>4, <1>6 DEF ScanOK
<1>17. \A x \in Thread \ {t} : call'[x] = call[x]
  BY <1>8 DEF WaitCore
<1>18. \A x \in Suspended : x \in Thread
  BY DEF Suspended
<1> QED BY <1>7, <1>10, <1>11, <1>12, <1>13, <1>14, <1>15, <1>16, <1>17, <1>18

-----------------------------------------------------------------------------
(* The semaphore.                                                          *)

\* Counting up and down without the remainder.
LEMMA UpDownIs ==
  ASSUME NEW x \in 0 .. SemMax
  PROVE  /\ Up(x) = IF x = SemMax THEN 0 ELSE x + 1
         /\ Down(x) = IF x = 0 THEN SemMax ELSE x - 1
BY SemAssumption DEF Up, Down

\* One more and one less, of a number counted modulo SemMax + 1.
LEMMA UpDownCount ==
  ASSUME NEW a \in Nat
  PROVE  /\ a % (SemMax + 1) \in 0 .. SemMax
         /\ Up(a % (SemMax + 1)) = (a + 1) % (SemMax + 1)
         /\ Down((a + 1) % (SemMax + 1)) = a % (SemMax + 1)
         /\ (a + SemMax + 1) % (SemMax + 1) = a % (SemMax + 1)
<1>0. PICK n \in Nat : n = SemMax + 1 /\ n > 0
  BY SemAssumption
<1>1. PICK r \in 0 .. SemMax : r = a % n
  <2>1. a % n \in 0 .. n - 1
    BY <1>0, Division, Zenon
  <2>2. n - 1 = SemMax
    BY <1>0, SemAssumption
  <2> QED BY <2>1, <2>2
<1>2. (a + 1) % n = IF r = SemMax THEN 0 ELSE r + 1
  <2>1. (a + 1) % n = IF a % n = n - 1 THEN 0 ELSE (a % n) + 1
    BY <1>0, NextRemainder
  <2>2. n - 1 = SemMax
    BY <1>0, SemAssumption
  <2> QED BY <1>1, <2>1, <2>2
<1>3. Up(r) = IF r = SemMax THEN 0 ELSE r + 1
  BY UpDownIs
<1>4. Down(IF r = SemMax THEN 0 ELSE r + 1) = r
  <2>1. CASE r = SemMax
    <3>1. Down(0) = SemMax
      BY SemAssumption, UpDownIs
    <3> QED BY <2>1, <3>1
  <2>2. CASE r # SemMax
    <3>1. r + 1 \in 0 .. SemMax /\ r + 1 # 0 /\ r + 1 - 1 = r
      BY <2>2, SemAssumption
    <3>2. Down(r + 1) = r
      BY <3>1, UpDownIs
    <3> QED BY <2>2, <3>2
  <2> QED BY <2>1, <2>2
<1>5. (a + SemMax + 1) % n = r
  <2>1. PICK q \in Int : a = n * q + r
    <3>1. a = n * (a \div n) + (a % n) /\ a \div n \in Int
      BY <1>0, Division, Zenon
    <3> QED BY <1>1, <3>1
  <2>2. PICK b \in Nat : b = a + SemMax + 1
    BY SemAssumption
  <2>3. b = n * (q + 1) + r /\ q + 1 \in Int /\ r \in 0 .. n - 1
    <3>1. SemMax \in Nat /\ b = a + n
      BY <1>0, <2>2, SemAssumption
    <3>2. n * (q + 1) = n * q + n
      BY <1>0
    <3> QED BY <1>0, <2>1, <3>1, <3>2
  <2>4. b % n = r
    BY <1>0, <2>3, RemainderIs, Zenon
  <2> QED BY <2>2, <2>4
<1> QED BY <1>0, <1>1, <1>2, <1>3, <1>4, <1>5

\* The threads a token was handed to can be counted.
LEMMA GrantedCount ==
  /\ Cardinality(Granted) \in Nat
  /\ \A w \in Thread : w \notin Granted => Cardinality(Granted \cup {w}) = Cardinality(Granted) + 1
  /\ \A w \in Granted : Cardinality(Granted) = Cardinality(Granted \ {w}) + 1
<1>1. Granted \in SUBSET Thread
  BY DEF Granted
<1>2. IsFiniteSet(Granted)
  BY <1>1, ThreadAssumption, FS_Subset
<1>3. Cardinality(Granted) \in Nat
  BY <1>2, FS_CardinalityType
<1>4. \A w \in Granted : Cardinality(Granted \ {w}) = Cardinality(Granted) - 1
  BY <1>2, FS_RemoveElement
<1>5. \A w \in Thread : w \notin Granted => Cardinality(Granted \cup {w}) = Cardinality(Granted) + 1
  BY <1>2, FS_AddElement
<1> QED BY <1>3, <1>4, <1>5

SemCore == SemTypeOK /\ SemInv


\* Every section of the semaphore keeps the list exact and its tokens in one
\* place.
LEMMA SemStepKeeps ==
  ASSUME WaitCore, SemCore, IsSem, NEW t \in Thread, SemStep(t)
  PROVE  /\ WaitCore' /\ KeepsOrder /\ SemCore' /\ kind' = kind /\ flag' = flag
         /\ current_priority' = current_priority
         /\ \A x \in Thread : call'[x] \in {call[x], NoCall}
<1> DEFINE n == SemMax + 1
           C == Cardinality(Granted)
<1>0. /\ SemMax \in Nat /\ value \in 0 .. SemMax /\ ledger \in 0 .. SemMax /\ value \in Nat
      /\ C \in Nat /\ ledger = (value + C) % n /\ (value > 0 => suspend_thread = <<>>)
  BY SemAssumption, GrantedCount DEF SemCore, SemTypeOK, SemInv, TokensConserved, NoWaiterAtToken
<1>p. current_priority' = current_priority /\ current_priority' \in [Thread -> Nat]
  BY DEF SemStep, SemTake, SemRelease, SemReset, SemReturn, WaitCore, WaitTypeOK
<1>f. pc[t] = "call" => t \notin Granted /\ Granted \ {t} = Granted
  BY DEF Granted
<1>1. CASE SemTake(t) /\ value > 0
  <2>1. Return(t) /\ pc[t] = "call" /\ value' = Down(value) /\ ledger' = Down(ledger)
    BY <1>1 DEF SemTake, In
  <2>2. /\ WaitCore' /\ KeepsOrder /\ suspend_thread' = suspend_thread /\ Granted' = Granted
        /\ kind' = kind /\ flag' = flag /\ \A x \in Thread : call'[x] \in {call[x], NoCall}
    BY <1>p, <1>f, <2>1, ReturnKeeps DEF Return, ReturnWaking, WaitCore
  <2>3. value' = value - 1 /\ value' \in 0 .. SemMax
    BY <1>0, <1>1, <2>1, UpDownIs
  <2>4. PICK a \in Nat : a = value - 1 + C /\ a + 1 = value + C
    BY <1>0, <1>1
  <2>5. ledger' = a % n /\ ledger' \in 0 .. SemMax
    BY <1>0, <2>1, <2>4, UpDownCount
  <2>6. SemCore'
    BY <1>0, <1>1, <2>2, <2>3, <2>4, <2>5
       DEF SemCore, SemTypeOK, SemInv, TokensConserved, NoWaiterAtToken
  <2> QED BY <1>p, <2>2, <2>6
<1>2. CASE SemTake(t) /\ ~ (value > 0)
  <2>0. value = 0 /\ UNCHANGED semVars /\ pc[t] = "call" /\ (Return(t) \/ Suspend(t))
    BY <1>0, <1>2 DEF SemTake, Refuse, In
  <2>1. /\ WaitCore' /\ KeepsOrder /\ Granted' = Granted
        /\ kind' = kind /\ flag' = flag /\ \A x \in Thread : call'[x] \in {call[x], NoCall}
    <3>1. CASE Return(t)
      BY <1>p, <1>f, <2>0, <3>1, ReturnKeeps DEF Return, ReturnWaking, WaitCore
    <3>2. CASE Suspend(t)
      BY <1>p, <2>0, <3>2, SuspendKeeps DEF Suspend
    <3> QED BY <2>0, <3>1, <3>2
  <2>2. SemCore'
    BY <1>0, <2>0, <2>1 DEF SemCore, SemTypeOK, SemInv, TokensConserved, NoWaiterAtToken, semVars
  <2> QED BY <1>p, <2>1, <2>2
<1>3. CASE SemRelease(t) /\ suspend_thread # <<>>
  <2>1. ReturnResuming(t) /\ pc[t] = "call" /\ value' = value /\ ledger' = Up(ledger) /\ value = 0
    BY <1>0, <1>3 DEF SemRelease, AfterHandOver, In
  <2>2. /\ WaitCore' /\ KeepsOrder /\ Head(suspend_thread) \in Thread
        /\ Granted' = Granted \cup {Head(suspend_thread)} /\ Head(suspend_thread) \notin Granted
        /\ kind' = kind /\ flag' = flag /\ \A x \in Thread : call'[x] \in {call[x], NoCall}
    BY <1>3, <1>p, <2>1, ResumeKeeps DEF ReturnResuming, ReturnWaking, WaitCore, Suspended
  <2>3. Cardinality(Granted') = C + 1
    BY <2>2, GrantedCount
  <2>4. ledger' = (value + (C + 1)) % n /\ ledger' \in 0 .. SemMax
    <3>1. PICK a \in Nat : a = value + C /\ a + 1 = value + (C + 1)
      BY <1>0
    <3>2. ledger = a % n
      BY <1>0, <3>1
    <3>3. ledger' = (a + 1) % n
      BY <2>1, <3>2, UpDownCount
    <3>4. a + 1 \in Nat
      OBVIOUS
    <3> QED BY <3>1, <3>3, <3>4, UpDownCount
  <2>5. SemCore'
    BY <1>0, <2>1, <2>2, <2>3, <2>4
       DEF SemCore, SemTypeOK, SemInv, TokensConserved, NoWaiterAtToken
  <2> QED BY <1>p, <2>2, <2>5
<1>4. CASE SemRelease(t) /\ suspend_thread = <<>>
  <2>1. Return(t) /\ pc[t] = "call" /\ value' = Up(value) /\ ledger' = Up(ledger)
    BY <1>4 DEF SemRelease, In
  <2>2. /\ WaitCore' /\ KeepsOrder /\ suspend_thread' = <<>> /\ Granted' = Granted
        /\ kind' = kind /\ flag' = flag /\ \A x \in Thread : call'[x] \in {call[x], NoCall}
    BY <1>4, <1>p, <1>f, <2>1, ReturnKeeps DEF Return, ReturnWaking, WaitCore
  <2>3. ledger' = (value + C + 1) % n /\ ledger' \in 0 .. SemMax
    <3>1. PICK a \in Nat : a = value + C /\ a + 1 = value + C + 1
      BY <1>0
    <3>2. ledger = a % n
      BY <1>0, <3>1
    <3>3. ledger' = (a + 1) % n
      BY <2>1, <3>2, UpDownCount
    <3>4. a + 1 \in Nat
      OBVIOUS
    <3> QED BY <3>1, <3>3, <3>4, UpDownCount
  <2>4. value' \in 0 .. SemMax /\ ledger' = (value' + C) % n
    <3>1. CASE value < SemMax
      <4>1. value' = value + 1
        BY <1>0, <2>1, <3>1, UpDownIs
      <4>2. value + C + 1 = value' + C
        BY <1>0, <4>1
      <4> QED BY <1>0, <2>3, <3>1, <4>1, <4>2
    <3>2. CASE value = SemMax
      <4>1. value' = 0
        BY <1>0, <2>1, <3>2, UpDownIs
      <4>2. value + C + 1 = C + SemMax + 1 /\ value' + C = C
        BY <1>0, <3>2, <4>1
      <4>3. (C + SemMax + 1) % n = C % n
        BY <1>0, UpDownCount
      <4>4. value' \in 0 .. SemMax
        BY <1>0, <4>1
      <4> QED BY <2>3, <4>2, <4>3, <4>4
    <3> QED BY <1>0, <3>1, <3>2
  <2>5. SemCore'
    BY <2>2, <2>3, <2>4 DEF SemCore, SemTypeOK, SemInv, TokensConserved, NoWaiterAtToken
  <2> QED BY <1>p, <2>2, <2>5
<1>5. CASE SemReset(t)
  <2>1. /\ ReturnResumingAll(t) /\ pc[t] = "call" /\ value' = call[t].value
        /\ ledger' = (call[t].value + C) % n
    BY <1>5 DEF SemReset, In
  <2>2. /\ WaitCore' /\ KeepsOrder /\ suspend_thread' = <<>> /\ Granted' = Granted
        /\ kind' = kind /\ flag' = flag /\ \A x \in Thread : call'[x] \in {call[x], NoCall}
    BY <1>p, <2>1, ResumeAllKeeps DEF ReturnResumingAll, ReturnWaking, WaitCore
  <2>3. value' \in 0 .. SemMax /\ value' + C \in Nat
    <3>1. call[t].value \in 0 .. SemMax
      BY DEF WaitCore, Calls
    <3>2. PICK v \in Nat : v = value' /\ v \in 0 .. SemMax
      BY <1>0, <2>1, <3>1
    <3>3. v + C \in Nat
      BY <1>0
    <3> QED BY <3>2, <3>3
  <2>4. ledger' \in 0 .. SemMax
    BY <2>1, <2>3, UpDownCount
  <2>5. SemCore'
    BY <2>1, <2>2, <2>3, <2>4 DEF SemCore, SemTypeOK, SemInv, TokensConserved, NoWaiterAtToken
  <2> QED BY <1>p, <2>2, <2>5
<1>6. CASE SemReturn(t)
  <2>1. Return(t) /\ pc[t] = "resumed" /\ value' = value
    BY <1>6 DEF SemReturn
  <2>2. /\ WaitCore' /\ KeepsOrder /\ suspend_thread' = suspend_thread /\ Granted' = Granted \ {t}
        /\ kind' = kind /\ flag' = flag /\ \A x \in Thread : call'[x] \in {call[x], NoCall}
    BY <1>p, <2>1, ReturnKeeps DEF Return, ReturnWaking, WaitCore
  <2>3. ledger' = (value + Cardinality(Granted')) % n /\ ledger' \in 0 .. SemMax
    <3>1. CASE error[t] = "EOK"
      <4>1. t \in Granted /\ ledger' = Down(ledger)
        BY <1>6, <2>1, <3>1 DEF SemReturn, Granted
      <4>2. C = Cardinality(Granted') + 1
        BY <2>2, <4>1, GrantedCount
      <4>3. Cardinality(Granted') \in Nat
        BY <2>2, ThreadAssumption, FS_Subset, FS_CardinalityType DEF Granted
      <4>4. PICK a \in Nat : a = value + Cardinality(Granted') /\ a + 1 = value + C
        BY <1>0, <4>2, <4>3
      <4> QED BY <1>0, <4>1, <4>4, UpDownCount
    <3>2. CASE error[t] # "EOK"
      <4>1. Granted' = Granted /\ ledger' = ledger
        BY <1>6, <2>2, <3>2 DEF SemReturn, Granted
      <4> QED BY <1>0, <4>1
    <3> QED BY <3>1, <3>2
  <2>4. SemCore'
    BY <1>0, <2>1, <2>2, <2>3 DEF SemCore, SemTypeOK, SemInv, TokensConserved, NoWaiterAtToken
  <2> QED BY <1>p, <2>2, <2>4
<1> QED BY <1>1, <1>2, <1>3, <1>4, <1>5, <1>6 DEF SemStep, SemTake, SemRelease

-----------------------------------------------------------------------------
(* The mutex.                                                              *)

MutexRecord == [value : 0 .. 1, owner : Thread \cup {NoThread},
                hold : Nat, original_priority : Nat]

\* the owner is awake and its original priority is the one it was created with;
\* other objects have no owner
MutexCore ==
    /\ mutex \in MutexRecord /\ holds \in [Thread -> Nat]
    /\ OwnerIsExact /\ NoInversion /\ PriorityIsRestored
    /\ mutex.owner \notin Suspended
    /\ mutex.owner # NoThread => mutex.original_priority = InitPriority[mutex.owner]
    /\ kind # "mutex" => mutex.owner = NoThread

\* What the invariant says of the threads, conjunct by conjunct.
LEMMA MutexFacts ==
  ASSUME WaitCore, MutexCore, kind = "mutex"
  PROVE  /\ mutex \in MutexRecord /\ mutex.value \in 0 .. 1 /\ mutex.hold \in Nat
         /\ mutex.owner \in Thread \cup {NoThread} /\ mutex.original_priority \in Nat
         /\ holds \in [Thread -> Nat] /\ current_priority \in [Thread -> Nat]
         /\ InitPriority \in [Thread -> Nat]
         /\ NoThread \notin Thread
         /\ \A x \in Thread : mutex.owner # x => holds[x] = 0 /\ x \notin Granted
         /\ \A x \in Thread : mutex.owner = x =>
               mutex.hold = holds[x] + (IF x \in Granted THEN 1 ELSE 0) /\ mutex.hold > 0
         /\ mutex.value = 1 <=> mutex.owner = NoThread
         /\ mutex.value = 1 => suspend_thread = <<>>
         /\ \A x \in Thread : current_priority[x] # InitPriority[x] => mutex.owner = x
         /\ flag = "PRIO" /\ mutex.owner # NoThread =>
               \A x \in Suspended : current_priority[mutex.owner] <= current_priority[x]
         /\ mutex.owner \notin Suspended
         /\ mutex.owner # NoThread => mutex.original_priority = InitPriority[mutex.owner]
BY ThreadAssumption, PriorityAssumption
   DEF WaitCore, WaitTypeOK, MutexCore, MutexRecord, OwnerIsExact, NoInversion, PriorityIsRestored

\* The parts of the invariant after a step of the mutex.
LEMMA MutexNext ==
  ASSUME kind' = "mutex",
         mutex' \in MutexRecord, holds' \in [Thread -> Nat],
         \A x \in Thread : mutex'.owner # x => holds'[x] = 0 /\ x \notin Granted',
         \A x \in Thread : mutex'.owner = x =>
               mutex'.hold = holds'[x] + (IF x \in Granted' THEN 1 ELSE 0) /\ mutex'.hold > 0,
         mutex'.value = 1 <=> mutex'.owner = NoThread,
         mutex'.value = 1 => suspend_thread' = <<>>,
         \A x \in Thread : current_priority'[x] # InitPriority[x] => mutex'.owner = x,
         flag' = "PRIO" /\ mutex'.owner # NoThread =>
               \A x \in Suspended' : current_priority'[mutex'.owner] <= current_priority'[x],
         mutex'.owner \notin Suspended',
         mutex'.owner # NoThread => mutex'.original_priority = InitPriority[mutex'.owner]
  PROVE  MutexCore'
<1>1. OwnerIsExact'
  BY DEF OwnerIsExact
<1>2. NoInversion'
  BY DEF NoInversion
<1>3. PriorityIsRestored'
  BY DEF PriorityIsRestored
<1> QED BY <1>1, <1>2, <1>3 DEF MutexCore

\* rt_mutex_take keeps the owner exact, the list in order and no waiting thread
\* above the owner's priority.
LEMMA MutexTakeKeeps ==
  ASSUME WaitCore, MutexCore, kind = "mutex", NEW t \in Thread, MutexTake(t)
  PROVE  /\ WaitCore' /\ KeepsOrder /\ MutexCore' /\ kind' = kind /\ flag' = flag
         /\ \A x \in Suspended' : current_priority'[x] = current_priority[x]
         /\ \A x \in Thread : call'[x] \in {call[x], NoCall}
<1>0. pc[t] = "call" /\ t \notin Granted /\ t \notin Suspended /\ Granted \ {t} = Granted
  BY DEF MutexTake, In, Granted, Suspended
<1>1. CASE mutex.owner = t
  <2>1. /\ Return(t) /\ mutex' = [mutex EXCEPT !.hold = @ + 1]
        /\ holds' = [holds EXCEPT ![t] = @ + 1] /\ current_priority' = current_priority
    BY <1>1, ThreadAssumption DEF MutexTake
  <2>2. /\ WaitCore' /\ KeepsOrder /\ Suspended' = Suspended /\ Granted' = Granted
        /\ suspend_thread' = suspend_thread /\ kind' = kind /\ flag' = flag
        /\ \A x \in Thread : call'[x] \in {call[x], NoCall}
    BY <1>0, <2>1, ReturnKeeps DEF Return, ReturnWaking, WaitCore, WaitTypeOK
  <2>3. /\ mutex' \in MutexRecord /\ mutex'.hold = mutex.hold + 1 /\ mutex'.owner = t
        /\ mutex'.value = mutex.value /\ mutex'.original_priority = mutex.original_priority
    <3>1. PICK h \in Nat : h = mutex.hold + 1
      BY <1>1, MutexFacts
    <3>2. mutex' = [mutex EXCEPT !.hold = h] /\ mutex \in MutexRecord
      BY <2>1, <3>1, MutexFacts
    <3>3. mutex' \in MutexRecord /\ mutex'.hold = h
      BY <3>2 DEF MutexRecord
    <3> QED BY <1>1, <3>1, <3>2, <3>3 DEF MutexRecord
  <2>4. holds' \in [Thread -> Nat] /\ holds'[t] = holds[t] + 1 /\ \A x \in Thread \ {t} : holds'[x] = holds[x]
    BY <2>1, MutexFacts
  <2>5. MutexCore'
    BY <1>0, <1>1, <2>1, <2>2, <2>3, <2>4, MutexFacts, MutexNext
  <2> QED BY <2>1, <2>2, <2>5
<1>2. CASE mutex.owner # t /\ mutex.value > 0
  <2>0. mutex.value = 1 /\ mutex.owner = NoThread /\ suspend_thread = <<>>
    BY <1>2, MutexFacts
  <2>1. /\ Return(t) /\ mutex' = OwnedBy(t, mutex.value - 1)
        /\ holds' = [holds EXCEPT ![t] = @ + 1] /\ current_priority' = current_priority
    BY <1>2, MutexFacts DEF MutexTake
  <2>2. /\ WaitCore' /\ KeepsOrder /\ Suspended' = Suspended /\ Granted' = Granted
        /\ suspend_thread' = suspend_thread /\ kind' = kind /\ flag' = flag
        /\ \A x \in Thread : call'[x] \in {call[x], NoCall}
    BY <1>0, <2>1, ReturnKeeps DEF Return, ReturnWaking, WaitCore, WaitTypeOK
  <2>3. /\ mutex' \in MutexRecord /\ mutex'.hold = 1 /\ mutex'.owner = t
        /\ mutex'.value = 0 /\ mutex'.original_priority = current_priority[t]
    BY <2>0, <2>1, MutexFacts DEF MutexRecord, OwnedBy
  <2>4. holds' \in [Thread -> Nat] /\ holds'[t] = holds[t] + 1 /\ \A x \in Thread \ {t} : holds'[x] = holds[x]
    BY <2>1, MutexFacts
  <2>5. Suspended = {}
    BY <2>0, ListDefs DEF WaitCore, Lists
  <2>6. MutexCore'
    BY <1>0, <2>0, <2>1, <2>2, <2>3, <2>4, <2>5, MutexFacts, MutexNext
  <2> QED BY <2>1, <2>2, <2>6
<1>3. CASE mutex.owner # t /\ mutex.value = 0 /\ Refuse(t) /\ UNCHANGED <<mutexVars, current_priority>>
  <2>2. /\ WaitCore' /\ KeepsOrder /\ Suspended' = Suspended /\ Granted' = Granted
        /\ suspend_thread' = suspend_thread /\ kind' = kind /\ flag' = flag
        /\ \A x \in Thread : call'[x] \in {call[x], NoCall}
    BY <1>0, <1>3, ReturnKeeps DEF Refuse, Return, ReturnWaking, WaitCore, WaitTypeOK
  <2>3. MutexCore'
    BY <1>3, <2>2, MutexFacts, MutexNext DEF mutexVars
  <2> QED BY <1>3, <2>2, <2>3
<1>4. CASE mutex.owner # t /\ mutex.value = 0 /\ Suspend(t) /\ current_priority' = Lent(t) /\ UNCHANGED mutexVars
  <2>0. mutex.owner \in Thread /\ mutex.owner # NoThread
    BY <1>4, MutexFacts
  <2>1. PICK o \in Thread : o = mutex.owner
    BY <2>0
  <2>2. /\ current_priority' \in [Thread -> Nat]
        /\ \A x \in Thread \ {o} : current_priority'[x] = current_priority[x]
        /\ current_priority'[o] <= current_priority[o] /\ current_priority'[o] <= current_priority[t]
    BY <1>4, <2>1, MutexFacts DEF Lent
  <2>3. /\ WaitCore' /\ KeepsOrder /\ Suspended' = Suspended \cup {t} /\ Granted' = Granted
        /\ kind' = kind /\ flag' = flag /\ \A x \in Thread : call'[x] \in {call[x], NoCall}
    BY <1>0, <1>4, <2>2, SuspendKeeps DEF Suspend
  <2>4. \A x \in Suspended' : x \in Thread /\ x # o
    BY <1>4, <2>1, <2>3, MutexFacts DEF Suspended
  <2>5. flag' = "PRIO" => \A x \in Suspended' : current_priority'[o] <= current_priority'[x]
    <3> SUFFICES ASSUME flag' = "PRIO", NEW x \in Suspended'
                 PROVE  current_priority'[o] <= current_priority'[x]
      OBVIOUS
    <3>1. /\ current_priority'[x] = current_priority[x] /\ current_priority[x] \in Nat
          /\ current_priority[o] \in Nat /\ current_priority'[o] \in Nat
      BY <2>2, <2>4, MutexFacts
    <3>2. CASE x = t
      BY <2>2, <3>1, <3>2
    <3>3. CASE x \in Suspended
      <4>1. current_priority[o] <= current_priority[x]
        BY <2>0, <2>1, <2>3, <3>3, MutexFacts
      <4> QED BY <2>2, <3>1, <4>1
    <3> QED BY <2>3, <3>2, <3>3
  <2>6. mutex' = mutex /\ holds' = holds
    BY <1>4 DEF mutexVars
  <2>7. \A x \in Thread : current_priority'[x] # InitPriority[x] => mutex'.owner = x
    BY <2>1, <2>2, <2>6, MutexFacts
  <2>8. MutexCore'
    BY <1>4, <2>1, <2>3, <2>4, <2>5, <2>6, <2>7, MutexFacts, MutexNext
  <2> QED BY <2>2, <2>3, <2>4, <2>8
<1> QED BY <1>1, <1>2, <1>3, <1>4 DEF MutexTake

\* rt_mutex_release keeps it so, also when it hands the mutex over.
LEMMA MutexReleaseKeeps ==
  ASSUME WaitCore, ListIsSorted, MutexCore, kind = "mutex", NEW t \in Thread, MutexRelease(t)
  PROVE  /\ WaitCore' /\ KeepsOrder /\ MutexCore' /\ kind' = kind /\ flag' = flag
         /\ \A x \in Suspended' : current_priority'[x] = current_priority[x]
         /\ \A x \in Thread : call'[x] \in {call[x], NoCall}
<1>0. pc[t] = "call" /\ t \notin Granted /\ t \notin Suspended /\ Granted \ {t} = Granted
  BY DEF MutexRelease, In, Granted, Suspended
<1>1. CASE mutex.owner # t
  <2>1. Return(t) /\ UNCHANGED <<mutexVars, current_priority>>
    BY <1>1 DEF MutexRelease
  <2>2. /\ WaitCore' /\ KeepsOrder /\ Suspended' = Suspended /\ Granted' = Granted
        /\ suspend_thread' = suspend_thread /\ kind' = kind /\ flag' = flag
        /\ \A x \in Thread : call'[x] \in {call[x], NoCall}
    BY <1>0, <2>1, ReturnKeeps DEF Return, ReturnWaking, WaitCore, WaitTypeOK
  <2>3. MutexCore'
    BY <2>1, <2>2, MutexFacts, MutexNext DEF mutexVars
  <2> QED BY <2>1, <2>2, <2>3
<1>2. CASE mutex.owner = t /\ mutex.hold > 1
  <2>1. /\ Return(t) /\ mutex' = [mutex EXCEPT !.hold = @ - 1]
        /\ holds' = [holds EXCEPT ![t] = @ - 1] /\ current_priority' = current_priority
    BY <1>2, MutexFacts DEF MutexRelease
  <2>2. /\ WaitCore' /\ KeepsOrder /\ Suspended' = Suspended /\ Granted' = Granted
        /\ suspend_thread' = suspend_thread /\ kind' = kind /\ flag' = flag
        /\ \A x \in Thread : call'[x] \in {call[x], NoCall}
    BY <1>0, <2>1, ReturnKeeps DEF Return, ReturnWaking, WaitCore, WaitTypeOK
  <2>0. mutex.hold = holds[t]
    BY <1>0, <1>2, MutexFacts
  <2>3. /\ mutex' \in MutexRecord /\ mutex'.hold = mutex.hold - 1 /\ mutex'.owner = t
        /\ mutex'.value = mutex.value /\ mutex'.original_priority = mutex.original_priority
    <3>1. PICK h \in Nat : h = mutex.hold - 1
      BY <1>2, MutexFacts
    <3>2. mutex' = [mutex EXCEPT !.hold = h] /\ mutex \in MutexRecord
      BY <2>1, <3>1, MutexFacts
    <3>3. mutex' \in MutexRecord /\ mutex'.hold = h
      BY <3>2 DEF MutexRecord
    <3> QED BY <1>2, <3>1, <3>2, <3>3 DEF MutexRecord
  <2>4. holds' \in [Thread -> Nat] /\ holds'[t] = holds[t] - 1 /\ \A x \in Thread \ {t} : holds'[x] = holds[x]
    BY <1>2, <2>0, <2>1, MutexFacts
  <2>5. MutexCore'
    BY <1>0, <1>2, <2>0, <2>1, <2>2, <2>3, <2>4, MutexFacts, MutexNext
  <2> QED BY <2>1, <2>2, <2>5
<1>3. CASE mutex.owner = t /\ mutex.hold = 1
  <2>0. /\ current_priority' = [current_priority EXCEPT ![t] = mutex.original_priority]
        /\ holds' = [holds EXCEPT ![t] = @ - 1]
    BY <1>3, MutexFacts DEF MutexRelease, Restored
  <2>1. /\ mutex.hold = holds[t] /\ t # NoThread /\ mutex.value = 0
        /\ mutex.original_priority = InitPriority[t]
    BY <1>0, <1>3, MutexFacts
  <2>2. /\ current_priority' \in [Thread -> Nat] /\ current_priority'[t] = InitPriority[t]
        /\ \A x \in Thread \ {t} : current_priority'[x] = current_priority[x]
    BY <2>0, <2>1, MutexFacts
  <2>3. holds' \in [Thread -> Nat] /\ holds'[t] = 0 /\ \A x \in Thread \ {t} : holds'[x] = holds[x]
    BY <1>3, <2>0, <2>1, MutexFacts
  <2>4. CASE suspend_thread = <<>>
    <3>1. /\ Return(t)
          /\ mutex' = [value |-> mutex.value + 1, owner |-> NoThread, hold |-> 0,
                       original_priority |-> NoPriority]
      BY <1>3, <2>4, MutexFacts DEF MutexRelease
    <3>2. /\ WaitCore' /\ KeepsOrder /\ Suspended' = Suspended /\ Granted' = Granted
          /\ suspend_thread' = suspend_thread /\ kind' = kind /\ flag' = flag
          /\ \A x \in Thread : call'[x] \in {call[x], NoCall}
      BY <1>0, <2>2, <3>1, ReturnKeeps DEF Return, ReturnWaking, WaitCore
    <3>3. mutex' \in MutexRecord /\ mutex'.value = 1 /\ mutex'.owner = NoThread
      BY <2>1, <3>1 DEF MutexRecord, NoPriority
    <3>4. NoThread \notin Suspended' /\ \A x \in Suspended' : x \in Thread /\ x # t
      BY <1>0, <3>2, ThreadAssumption DEF Suspended
    <3>5. MutexCore'
      BY <1>0, <1>3, <2>2, <2>3, <2>4, <3>2, <3>3, <3>4, MutexFacts, MutexNext
    <3> QED BY <2>2, <3>2, <3>4, <3>5
  <2>5. CASE suspend_thread # <<>>
    <3>1. PICK w : w = Head(suspend_thread)
      OBVIOUS
    <3>2. ReturnResuming(t) /\ mutex' = OwnedBy(w, mutex.value)
      BY <1>3, <2>5, <3>1, MutexFacts DEF MutexRelease, HandedOverValue
    <3>3. /\ WaitCore' /\ KeepsOrder /\ w \in Suspended /\ w # t /\ w = suspend_thread[1]
          /\ 1 \in 1 .. Len(suspend_thread)
          /\ Suspended' = Suspended \ {w} /\ Granted' = Granted \cup {w} /\ w \notin Granted
      BY <1>0, <2>2, <2>5, <3>1, <3>2, ResumeKeeps
    <3>4. kind' = kind /\ flag' = flag /\ \A x \in Thread : call'[x] \in {call[x], NoCall}
      BY <3>2 DEF ReturnResuming, ReturnWaking, WaitCore
    <3>5. w \in Thread /\ w # NoThread /\ \A x \in Suspended : x \in Thread /\ x # t
      BY <1>0, <3>3, ThreadAssumption DEF Suspended
    <3>6. /\ mutex' \in MutexRecord /\ mutex'.owner = w /\ mutex'.value = 0 /\ mutex'.hold = 1
          /\ mutex'.original_priority = current_priority[w]
      BY <2>1, <3>2, <3>5, MutexFacts DEF MutexRecord, OwnedBy
    <3>7. current_priority[w] = InitPriority[w]
      BY <1>3, <3>3, <3>5, MutexFacts
    <3>8. flag' = "PRIO" => \A x \in Suspended' : current_priority'[w] <= current_priority'[x]
      <4> SUFFICES ASSUME flag' = "PRIO", NEW x \in Suspended'
                   PROVE  current_priority'[w] <= current_priority'[x]
        OBVIOUS
      <4>1. x \in Suspended /\ x # w
        BY <3>3
      <4>2. PICK j \in 1 .. Len(suspend_thread) : suspend_thread[j] = x
        BY <4>1, ListDefs DEF WaitCore, Lists
      <4>3. 1 < j
        BY <3>3, <4>1, <4>2
      <4>4. current_priority[w] <= current_priority[x]
        BY <3>3, <3>4, <4>2, <4>3, ListDefs DEF InOrder
      <4> QED BY <2>2, <3>3, <3>5, <4>1, <4>4
    <3>9. \A x \in Thread : current_priority'[x] # InitPriority[x] => mutex'.owner = x
      BY <1>3, <2>2, <3>6, MutexFacts
    <3>10. \A x \in Thread : mutex'.owner # x => holds'[x] = 0 /\ x \notin Granted'
      BY <1>0, <1>3, <2>3, <3>3, <3>6, MutexFacts
    <3>11. \A x \in Thread : mutex'.owner = x =>
              mutex'.hold = holds'[x] + (IF x \in Granted' THEN 1 ELSE 0) /\ mutex'.hold > 0
      BY <1>3, <2>3, <3>3, <3>5, <3>6, MutexFacts
    <3>12. MutexCore'
      BY <2>3, <3>3, <3>4, <3>5, <3>6, <3>7, <3>8, <3>9, <3>10, <3>11, MutexNext
    <3> QED BY <2>2, <3>3, <3>4, <3>5, <3>12
  <2> QED BY <2>4, <2>5
<1> QED BY <1>1, <1>2, <1>3, MutexFacts DEF MutexRelease

\* The thread the mutex was handed to has taken it once it returns.
LEMMA MutexReturnKeeps ==
  ASSUME WaitCore, MutexCore, kind = "mutex", NEW t \in Thread, MutexReturn(t)
  PROVE  /\ WaitCore' /\ KeepsOrder /\ MutexCore' /\ kind' = kind /\ flag' = flag
         /\ \A x \in Suspended' : current_priority'[x] = current_priority[x]
         /\ \A x \in Thread : call'[x] \in {call[x], NoCall}
<1>1. /\ pc[t] = "resumed" /\ Return(t) /\ mutex' = mutex /\ current_priority' = current_priority
      /\ t \in Granted <=> error[t] = "EOK"
  BY DEF MutexReturn, Granted
<1>2. /\ WaitCore' /\ KeepsOrder /\ Suspended' = Suspended /\ Granted' = Granted \ {t}
      /\ suspend_thread' = suspend_thread /\ kind' = kind /\ flag' = flag
      /\ \A x \in Thread : call'[x] \in {call[x], NoCall}
  BY <1>1, ReturnKeeps DEF Return, ReturnWaking, WaitCore, WaitTypeOK
<1>3. /\ holds' \in [Thread -> Nat] /\ \A x \in Thread \ {t} : holds'[x] = holds[x]
      /\ holds'[t] = holds[t] + (IF t \in Granted THEN 1 ELSE 0)
  BY <1>1, MutexFacts DEF MutexReturn
<1>4. \A x \in Thread : mutex'.owner # x => holds'[x] = 0 /\ x \notin Granted'
  BY <1>1, <1>2, <1>3, MutexFacts
<1>5. \A x \in Thread : mutex'.owner = x =>
         mutex'.hold = holds'[x] + (IF x \in Granted' THEN 1 ELSE 0) /\ mutex'.hold > 0
  BY <1>1, <1>2, <1>3, MutexFacts
<1>6. MutexCore'
  BY <1>1, <1>2, <1>3, <1>4, <1>5, MutexFacts, MutexNext
<1> QED BY <1>1, <1>2, <1>6

-----------------------------------------------------------------------------
(* The event.                                                              *)

\* who waits for events waits for some, and for events of an event object
EventCore ==
    /\ EventTypeOK /\ EventInv
    /\ \A t \in Thread : call[t].op = "recv" => kind = "event" /\ call[t].set # {}

\* Every section of the event keeps the list exact and the events where they
\* belong.
LEMMA EventStepKeeps ==
  ASSUME WaitCore, EventCore, kind = "event", NEW t \in Thread, EventStep(t)
  PROVE  /\ WaitCore' /\ KeepsOrder /\ EventCore' /\ kind' = kind /\ flag' = flag
         /\ current_priority' = current_priority
<1>p. current_priority' = current_priority /\ current_priority' \in [Thread -> Nat]
  BY DEF EventStep, EventRecv, EventSend, EventReset, EventReturn, WaitCore, WaitTypeOK
<1>f. pc[t] = "call" => t \notin Granted /\ Granted \ {t} = Granted /\ t \notin Suspended
  BY DEF Granted, Suspended
<1>i. /\ EventTypeOK /\ NoSatisfiedSleeper /\ TakenOnce /\ GivenAsAsked
      /\ \A x \in Thread : call[x].op = "recv" => call[x].set # {}
  BY DEF EventCore, EventInv
<1>1. CASE EventRecv(t)
  <2>0. pc[t] = "call" /\ call[t].set \subseteq Bit /\ sends' = sends
    BY <1>1 DEF EventRecv, In, WaitCore, Calls
  <2>1. CASE Satisfied(call[t], set)
    <3>1. /\ Return(t) /\ event_set' = event_set
          /\ set' = IF call[t].clear THEN set \ call[t].set ELSE set
          /\ credit' = IF call[t].clear THEN Taken(credit, set \cap call[t].set) ELSE credit
      BY <1>1, <2>1 DEF EventRecv
    <3>2. /\ WaitCore' /\ KeepsOrder /\ Suspended' = Suspended /\ Granted' = Granted
          /\ kind' = kind /\ flag' = flag
          /\ call' = [call EXCEPT ![t] = NoCall]
      BY <1>p, <1>f, <2>0, <3>1, ReturnKeeps DEF Return, ReturnWaking
    <3>3. \A x \in Thread : x # t => call'[x] = call[x]
      BY <3>2 DEF WaitCore
    <3>4. call'[t].op = "none"
      BY <3>2 DEF WaitCore, NoCall
    <3>5. set' \subseteq set /\ set' \subseteq Bit
      BY <1>i, <3>1 DEF EventTypeOK
    <3>6. \A b \in Bit : credit[b] \in Int /\ credit[b] >= 0 /\ (b \in set => credit[b] >= 1)
      BY <1>i DEF EventTypeOK, TakenOnce
    <3>7. credit' \in [Bit -> Int] /\ TakenOnce'
      <4>1. CASE ~ call[t].clear
        BY <1>i, <3>1, <4>1 DEF EventTypeOK, TakenOnce
      <4>2. CASE call[t].clear
        <5>1. credit' = [b \in Bit |-> IF b \in set \cap call[t].set THEN credit[b] - 1 ELSE credit[b]]
          BY <3>1, <4>2 DEF Taken
        <5>2. credit' \in [Bit -> Int]
          BY <3>6, <5>1
        <5>3. \A b \in Bit : credit'[b] >= 0
          BY <3>6, <5>1
        <5>4. \A b \in set' : credit'[b] >= 1
          BY <3>1, <3>5, <3>6, <4>2, <5>1
        <5> QED BY <5>2, <5>3, <5>4 DEF TakenOnce
      <4> QED BY <4>1, <4>2
    <3>8. NoSatisfiedSleeper'
      BY <1>f, <1>i, <2>0, <3>2, <3>3, <3>5, SatisfiedMonotone DEF NoSatisfiedSleeper, Suspended
    <3>9. GivenAsAsked'
      BY <1>f, <1>i, <2>0, <3>1, <3>2, <3>3 DEF GivenAsAsked, Granted
    <3>10. EventTypeOK'
      BY <1>i, <2>0, <3>1, <3>5, <3>7 DEF EventTypeOK
    <3>11. EventCore'
      BY <1>i, <3>2, <3>3, <3>4, <3>7, <3>8, <3>9, <3>10 DEF EventCore, EventInv
    <3> QED BY <1>p, <3>2, <3>11
  <2>2. CASE ~ Satisfied(call[t], set) /\ Return(t)
    <3>1. /\ WaitCore' /\ KeepsOrder /\ Suspended' = Suspended /\ Granted' = Granted
          /\ kind' = kind /\ flag' = flag
          /\ call' = [call EXCEPT ![t] = NoCall] /\ pc'[t] = "idle"
      BY <1>p, <1>f, <2>0, <2>2, ReturnKeeps DEF Return, ReturnWaking
    <3>2. UNCHANGED <<set, event_set, credit, sends>>
      BY <1>1, <2>0, <2>2, <3>1 DEF EventRecv, Suspend, WaitCore, WaitTypeOK
    <3>3. \A x \in Thread : x # t => call'[x] = call[x]
      BY <3>1 DEF WaitCore
    <3>4. call'[t].op = "none"
      BY <3>1 DEF WaitCore, NoCall
    <3>5. NoSatisfiedSleeper'
      BY <1>f, <1>i, <2>0, <3>1, <3>2, <3>3 DEF NoSatisfiedSleeper, Suspended
    <3>6. GivenAsAsked'
      BY <1>f, <1>i, <2>0, <3>1, <3>2, <3>3 DEF GivenAsAsked, Granted
    <3>7. EventTypeOK' /\ TakenOnce'
      BY <1>i, <3>2 DEF EventTypeOK, TakenOnce
    <3> QED BY <1>i, <1>p, <3>1, <3>3, <3>4, <3>5, <3>6, <3>7 DEF EventCore, EventInv
  <2>3. CASE ~ Satisfied(call[t], set) /\ Suspend(t)
    <3>1. /\ WaitCore' /\ KeepsOrder /\ Suspended' = Suspended \cup {t} /\ Granted' = Granted
          /\ kind' = kind /\ flag' = flag /\ call' = call /\ pc'[t] = "suspended"
      BY <1>p, <2>0, <2>3, SuspendKeeps DEF Suspend, WaitCore, WaitTypeOK
    <3>2. event_set' = [event_set EXCEPT ![t] = call[t].set] /\ UNCHANGED <<set, credit, sends>>
      BY <1>1, <2>0, <2>3, <3>1 DEF EventRecv, Refuse, Return, ReturnWaking, WaitCore, WaitTypeOK
    <3>3. NoSatisfiedSleeper'
      BY <1>i, <2>3, <3>1, <3>2 DEF NoSatisfiedSleeper
    <3>4. event_set' \in [Thread -> SUBSET Bit] /\ \A x \in Granted : event_set'[x] = event_set[x]
      BY <1>f, <1>i, <2>0, <3>2 DEF EventTypeOK, Granted
    <3>5. GivenAsAsked'
      BY <1>i, <3>1, <3>4 DEF GivenAsAsked
    <3>6. EventTypeOK' /\ TakenOnce'
      BY <1>i, <3>2, <3>4 DEF EventTypeOK, TakenOnce
    <3> QED BY <1>p, <3>1, <3>3, <3>5, <3>6 DEF EventCore, EventInv
  <2> QED BY <1>1, <2>1, <2>2, <2>3 DEF EventRecv, Refuse
<1>2. CASE EventSend(t)
  <2>1. /\ kind' = kind /\ flag' = flag /\ call' = [call EXCEPT ![t] = NoCall]
        /\ pc[t] = "call" /\ pc'[t] = "idle"
    BY <1>2 DEF EventSend, ReturnWaking, In
  <2>2. call'[t].op = "none" /\ t \notin Suspended' /\ t \notin Granted' /\ Suspended' \cap Granted' = {}
    BY <2>1 DEF WaitCore, NoCall, Suspended, Granted
  <2>3. NoSatisfiedSleeper'
    BY <1>2, <1>i, <2>2, SendKeeps DEF NoSatisfiedSleeper, Suspended
  <2>4. GivenAsAsked'
    <3> SUFFICES ASSUME NEW x \in Granted', call'[x].op = "recv"
                 PROVE  /\ event_set'[x] # {} /\ event_set'[x] \subseteq call'[x].set
                        /\ call'[x].all => event_set'[x] = call'[x].set
      BY DEF GivenAsAsked
    <3>1. x \in Thread /\ x # t /\ x \notin Suspended'
      BY <2>2 DEF Granted
    <3>2. call'[x] = call[x] /\ call[x].set # {}
      BY <1>2, <1>i, <3>1, SendKeeps
    <3>3. CASE x \in Suspended
      BY <1>2, <1>i, <3>1, <3>2, <3>3, SendKeeps
    <3>4. CASE x \notin Suspended
      <4>1. x \in Granted /\ event_set'[x] = event_set[x]
        BY <1>2, <1>i, <3>1, <3>4, SendKeeps
      <4> QED BY <1>i, <3>2, <4>1 DEF GivenAsAsked
    <3> QED BY <3>3, <3>4
  <2>5. \A x \in Thread : call'[x].op = "recv" => call'[x].set # {}
    BY <1>2, <1>i, <2>2, SendKeeps
  <2>6. WaitCore' /\ KeepsOrder /\ EventTypeOK' /\ TakenOnce'
    BY <1>2, <1>i, SendKeeps
  <2> QED BY <1>p, <2>1, <2>3, <2>4, <2>5, <2>6 DEF EventCore, EventInv
<1>3. CASE EventReset(t)
  <2>1. /\ pc[t] = "call" /\ ReturnResumingAll(t) /\ set' = {} /\ credit' = [b \in Bit |-> 0]
        /\ event_set' = event_set /\ sends' = sends
    BY <1>3 DEF EventReset, In
  <2>2. /\ WaitCore' /\ KeepsOrder /\ Suspended' = {} /\ Granted' = Granted
        /\ kind' = kind /\ flag' = flag /\ call' = [call EXCEPT ![t] = NoCall]
    BY <1>p, <2>1, ResumeAllKeeps DEF ReturnResumingAll, ReturnWaking
  <2>3. call'[t].op = "none" /\ \A x \in Thread : x # t => call'[x] = call[x]
    BY <2>2 DEF WaitCore, NoCall
  <2>4. GivenAsAsked'
    BY <1>f, <1>i, <2>1, <2>2, <2>3 DEF GivenAsAsked, Granted
  <2>5. NoSatisfiedSleeper' /\ TakenOnce' /\ EventTypeOK'
    BY <1>i, <2>1, <2>2 DEF NoSatisfiedSleeper, TakenOnce, EventTypeOK
  <2> QED BY <1>i, <1>p, <2>2, <2>3, <2>4, <2>5 DEF EventCore, EventInv
<1>4. CASE EventReturn(t)
  <2>1. /\ pc[t] = "resumed" /\ Return(t) /\ event_set' = [event_set EXCEPT ![t] = {}]
        /\ UNCHANGED <<set, sends, credit>>
    BY <1>4 DEF EventReturn
  <2>2. /\ WaitCore' /\ KeepsOrder /\ Suspended' = Suspended /\ Granted' = Granted \ {t}
        /\ kind' = kind /\ flag' = flag /\ call' = [call EXCEPT ![t] = NoCall]
    BY <1>p, <2>1, ReturnKeeps DEF Return, ReturnWaking
  <2>3. call'[t].op = "none" /\ \A x \in Thread : x # t => call'[x] = call[x]
    BY <2>2 DEF WaitCore, NoCall
  <2>4. event_set' \in [Thread -> SUBSET Bit] /\ \A x \in Thread : x # t => event_set'[x] = event_set[x]
    BY <1>i, <2>1 DEF EventTypeOK
  <2>5. GivenAsAsked'
    BY <1>i, <2>2, <2>3, <2>4 DEF GivenAsAsked, Granted
  <2>6. NoSatisfiedSleeper'
    BY <1>i, <2>1, <2>2, <2>3 DEF NoSatisfiedSleeper, Suspended
  <2>7. TakenOnce' /\ EventTypeOK'
    BY <1>i, <2>1, <2>4 DEF TakenOnce, EventTypeOK
  <2> QED BY <1>i, <1>p, <2>2, <2>3, <2>5, <2>6, <2>7 DEF EventCore, EventInv
<1> QED BY <1>1, <1>2, <1>3, <1>4 DEF EventStep

-----------------------------------------------------------------------------
(* The objects together.                                                   *)

SyncInv == WaitCore /\ ListIsSorted /\ SemCore /\ MutexCore /\ EventCore

\* A step that keeps the list in order and no priority of a waiting thread.
LEMMA SortedNext ==
  ASSUME WaitCore', ListIsSorted, KeepsOrder, flag' = flag,
         \A x \in Suspended' : current_priority'[x] = current_priority[x]
  PROVE  ListIsSorted'
<1>1. \A i \in 1 .. Len(suspend_thread') : current_priority'[suspend_thread'[i]] = current_priority[suspend_thread'[i]]
  BY ListDefsNext DEF WaitCore, Lists
<1> QED BY <1>1, ListDefs, ListDefsNext, OrderSame DEF KeepsOrder

\* The list is empty when nobody sleeps.
LEMMA EmptyNext ==
  ASSUME WaitCore, WaitCore', Suspended' \subseteq Suspended, suspend_thread = <<>>
  PROVE  suspend_thread' = <<>>
<1>1. Suspended = {}
  BY ListDefs DEF WaitCore, Lists
<1>2. suspend_thread' \in Seq(Thread)
  BY DEF WaitCore, WaitTypeOK
<1>3. \A i \in 1 .. Len(suspend_thread') : suspend_thread'[i] \in Suspended'
  BY ListDefsNext DEF WaitCore, Lists
<1> QED BY <1>1, <1>2, <1>3

\* A step of another object leaves the mutex alone.
LEMMA MutexOther ==
  ASSUME WaitCore, MutexCore, WaitCore', kind' = kind, flag' = flag, UNCHANGED <<mutexVars, current_priority>>,
         kind # "mutex" \/ (Suspended' \subseteq Suspended /\ Granted' = Granted)
  PROVE  MutexCore'
<1>1. CASE kind # "mutex"
  <2>1. mutex' = mutex /\ holds' = holds /\ current_priority' = current_priority /\ mutex.owner = NoThread
    BY <1>1 DEF mutexVars, MutexCore
  <2>2. NoThread \notin Suspended'
    BY ThreadAssumption DEF Suspended
  <2>3. OwnerIsExact' /\ NoInversion'
    BY <1>1 DEF OwnerIsExact, NoInversion
  <2>4. PriorityIsRestored'
    BY <2>1 DEF MutexCore, PriorityIsRestored
  <2> QED BY <2>1, <2>2, <2>3, <2>4 DEF MutexCore
<1>2. CASE kind = "mutex"
  <2>1. mutex' = mutex /\ holds' = holds /\ current_priority' = current_priority
    BY DEF mutexVars
  <2>2. suspend_thread = <<>> => suspend_thread' = <<>>
    BY <1>2, EmptyNext
  <2> QED BY <1>2, <2>1, <2>2, MutexFacts, MutexNext
<1> QED BY <1>1, <1>2

\* A step of another object leaves the semaphore alone.
LEMMA SemOther ==
  ASSUME WaitCore, SemCore, WaitCore', kind' = kind, UNCHANGED semVars,
         ~ IsSem \/ (Suspended' \subseteq Suspended /\ Granted' = Granted)
  PROVE  SemCore'
<1>1. value' = value /\ ledger' = ledger /\ (IsSem' <=> IsSem)
  BY DEF semVars, IsSem
<1>2. IsSem => Granted' = Granted /\ (suspend_thread = <<>> => suspend_thread' = <<>>)
  BY EmptyNext
<1> QED BY <1>1, <1>2 DEF SemCore, SemTypeOK, SemInv, TokensConserved, NoWaiterAtToken

\* A step of another object, and a step that only starts a call or takes threads
\* off the list without giving them anything, leave the event alone.
LEMMA EventOther ==
  ASSUME WaitCore, EventCore, WaitCore', kind' = kind,
         UNCHANGED <<set, event_set, credit>>, sends' \in 0 .. MaxSends,
         \A x \in Thread : call'[x].op = "recv" => kind = "event" /\ call'[x].set # {},
         kind # "event" \/ (/\ Suspended' \subseteq Suspended /\ Granted' = Granted
                            /\ \A x \in Suspended' \cup Granted' : call'[x] = call[x])
  PROVE  EventCore'
<1>1. EventTypeOK' /\ TakenOnce'
  BY DEF EventCore, EventTypeOK, EventInv, TakenOnce
<1>2. CASE kind # "event"
  <2>1. \A x \in Thread : call'[x].op # "recv"
    BY <1>2
  <2>2. NoSatisfiedSleeper' /\ GivenAsAsked'
    BY <2>1 DEF NoSatisfiedSleeper, GivenAsAsked, Suspended, Granted
  <2> QED BY <1>1, <2>2 DEF EventCore, EventInv
<1>3. CASE kind = "event"
  <2>1. NoSatisfiedSleeper'
    BY <1>3 DEF EventCore, EventInv, NoSatisfiedSleeper
  <2>2. GivenAsAsked'
    BY <1>3 DEF EventCore, EventInv, GivenAsAsked
  <2> QED BY <1>1, <2>1, <2>2 DEF EventCore, EventInv
<1> QED BY <1>2, <1>3

\* A step that starts a call, takes threads off the list without giving them
\* anything, or goes on inside a detach.
LEMMA SyncQuiet ==
  ASSUME SyncInv, WaitCore', KeepsOrder, kind' = kind, flag' = flag,
         Suspended' \subseteq Suspended, Granted' = Granted,
         \A x \in Suspended' \cup Granted' : call'[x] = call[x],
         \A x \in Thread : call'[x].op = "recv" => kind = "event" /\ call'[x].set # {},
         UNCHANGED <<semVars, mutexVars, current_priority, set, event_set, credit>>,
         sends' \in 0 .. MaxSends
  PROVE  SyncInv'
<1>1. ListIsSorted'
  BY SortedNext DEF SyncInv
<1>2. SemCore' /\ MutexCore' /\ EventCore'
  BY SemOther, MutexOther, EventOther DEF SyncInv
<1> QED BY <1>1, <1>2 DEF SyncInv

\* A call begins: Enter, whatever the object.
LEMMA SyncEnter ==
  ASSUME SyncInv, NEW t \in Thread, NEW c \in Calls, Enter(t, c),
         c.op = "recv" => kind = "event" /\ c.set # {},
         UNCHANGED <<semVars, mutexVars, set, event_set, credit>>, sends' \in 0 .. MaxSends
  PROVE  SyncInv'
<1>1. /\ WaitCore' /\ Suspended' = Suspended /\ Granted' = Granted /\ KeepsOrder
  BY EnterKeeps DEF SyncInv
<1>2. /\ kind' = kind /\ flag' = flag /\ current_priority' = current_priority
      /\ pc[t] = "idle" /\ call' = [call EXCEPT ![t] = IF attached THEN c ELSE NoCall]
  BY DEF Enter
<1>3. \A x \in Thread : x # t => call'[x] = call[x]
  BY <1>2 DEF SyncInv, WaitCore
<1>4. call'[t] = c \/ call'[t].op = "none"
  BY <1>2 DEF SyncInv, WaitCore, NoCall
<1>5. t \notin Suspended /\ t \notin Granted
  BY <1>2 DEF Suspended, Granted
<1>6. \A x \in Suspended' \cup Granted' : call'[x] = call[x]
  BY <1>1, <1>3, <1>5 DEF Suspended, Granted
<1>7. \A x \in Thread : call'[x].op = "recv" => kind = "event" /\ call'[x].set # {}
  BY <1>3, <1>4 DEF SyncInv, EventCore
<1> QED BY <1>1, <1>2, <1>6, <1>7, SyncQuiet

\* The calls are calls.
LEMMA CallsType ==
  /\ \A op \in Op \ {"recv"} : Plain(op) \in Calls /\ Plain(op).op = op
  /\ \A op \in Op, w \in Wait : Timed(op, w) \in Calls /\ Timed(op, w).op = op
  /\ \A v \in SemValue : [Plain("reset") EXCEPT !.value = v] \in Calls
                         /\ [Plain("reset") EXCEPT !.value = v].op = "reset"
  /\ \A s \in SUBSET Bit : [Plain("send") EXCEPT !.set = s] \in Calls
                           /\ [Plain("send") EXCEPT !.set = s].op = "send"
  /\ \A w \in Wait, a \in Asked :
        LET c == [Timed("recv", w) EXCEPT !.all = a.all, !.clear = a.clear, !.set = a.set]
        IN  c \in Calls /\ c.set # {}
<1>1. NoCall \in Calls /\ SemValue \subseteq 0 .. SemMax
  BY NoCallType, SemAssumption
<1>2. \A op \in Op \ {"recv"} : Plain(op) \in Calls /\ Plain(op).op = op
  BY <1>1 DEF Plain, Calls, Op
<1>3. \A op \in Op, w \in Wait : Timed(op, w) \in Calls /\ Timed(op, w).op = op
  BY <1>1 DEF Timed, Calls, Op
<1>4. Plain("reset") \in Calls /\ Plain("reset").op = "reset" /\ Plain("send") \in Calls /\ Plain("send").op = "send"
  BY <1>2 DEF Op
<1>5. \A v \in SemValue : [Plain("reset") EXCEPT !.value = v] \in Calls
                          /\ [Plain("reset") EXCEPT !.value = v].op = "reset"
  BY <1>1, <1>4 DEF Calls
<1>6. \A s \in SUBSET Bit : [Plain("send") EXCEPT !.set = s] \in Calls
                            /\ [Plain("send") EXCEPT !.set = s].op = "send"
  BY <1>4 DEF Calls
<1>7. ASSUME NEW w \in Wait, NEW a \in Asked, NEW c,
             c = [Timed("recv", w) EXCEPT !.all = a.all, !.clear = a.clear, !.set = a.set]
      PROVE  c \in Calls /\ c.set # {}
  <2>1. a.all \in BOOLEAN /\ a.clear \in BOOLEAN /\ a.set \in SUBSET Bit /\ a.set # {}
    BY AskedAssumption
  <2>2. Timed("recv", w) \in Calls
    BY <1>3 DEF Op
  <2> QED BY <1>7, <2>1, <2>2 DEF Calls
<1>8. \A w \in Wait, a \in Asked :
         LET c == [Timed("recv", w) EXCEPT !.all = a.all, !.clear = a.clear, !.set = a.set]
         IN  c \in Calls /\ c.set # {}
  BY <1>7
<1> QED BY <1>2, <1>3, <1>5, <1>6, <1>8, Zenon

\* What a thread calls.
LEMMA SyncCall ==
  ASSUME SyncInv, NEW t \in Thread, Call(t)
  PROVE  SyncInv'
<1>0. sends \in 0 .. MaxSends
  BY DEF SyncInv, EventCore, EventTypeOK
<1>1. CASE kind = "semaphore"
  <2>1. PICK c \in Calls : Enter(t, c) /\ c.op # "recv"
    <3>1. /\ \A w \in Wait : Timed("take", w) \in Calls /\ Timed("take", w).op = "take"
          /\ Plain("release") \in Calls /\ Plain("release").op = "release"
          /\ Plain("detach") \in Calls /\ Plain("detach").op = "detach"
      <4>1. /\ "take" \in Op /\ "release" \in Op \ {"recv"} /\ "detach" \in Op \ {"recv"}
            /\ "reset" \in Op \ {"recv"}
        BY DEF Op
      <4> QED BY <4>1, CallsType, Zenon
    <3>2. \A v \in SemValue : [Plain("reset") EXCEPT !.value = v] \in Calls
                              /\ [Plain("reset") EXCEPT !.value = v].op = "reset"
      BY CallsType
    <3> QED BY <1>1, <3>1, <3>2 DEF Call, SemCall
  <2>2. UNCHANGED <<semVars, mutexVars, set, event_set, credit, sends>>
    BY <1>1 DEF Call, SemCall, eventVars
  <2> QED BY <1>0, <2>1, <2>2, SyncEnter
<1>2. CASE kind = "mutex"
  <2>1. PICK c \in Calls : Enter(t, c) /\ c.op # "recv"
    <3>1. /\ \A w \in Wait : Timed("take", w) \in Calls /\ Timed("take", w).op = "take"
          /\ Plain("release") \in Calls /\ Plain("release").op = "release"
          /\ Plain("detach") \in Calls /\ Plain("detach").op = "detach"
      <4>1. /\ "take" \in Op /\ "release" \in Op \ {"recv"} /\ "detach" \in Op \ {"recv"}
            /\ "reset" \in Op \ {"recv"}
        BY DEF Op
      <4> QED BY <4>1, CallsType, Zenon
    <3> QED BY <1>2, <3>1 DEF Call, MutexCall
  <2>2. UNCHANGED <<semVars, mutexVars, set, event_set, credit, sends>>
    BY <1>2 DEF Call, MutexCall, eventVars
  <2> QED BY <1>0, <2>1, <2>2, SyncEnter
<1>3. CASE kind = "event"
  <2>1. PICK c \in Calls : Enter(t, c) /\ (c.op = "recv" => c.set # {})
    <3>1. /\ Plain("reset") \in Calls /\ Plain("reset").op = "reset"
          /\ Plain("detach") \in Calls /\ Plain("detach").op = "detach"
      <4>1. /\ "take" \in Op /\ "release" \in Op \ {"recv"} /\ "detach" \in Op \ {"recv"}
            /\ "reset" \in Op \ {"recv"}
        BY DEF Op
      <4> QED BY <4>1, CallsType, Zenon
    <3>2. \A s \in SUBSET Bit : [Plain("send") EXCEPT !.set = s] \in Calls
                                /\ [Plain("send") EXCEPT !.set = s].op = "send"
      BY CallsType
    <3>3. \A w \in Wait, a \in Asked :
            LET c == [Timed("recv", w) EXCEPT !.all = a.all, !.clear = a.clear, !.set = a.set]
            IN  c \in Calls /\ c.set # {}
      BY CallsType
    <3> QED BY <1>3, <3>1, <3>2, <3>3 DEF Call, EventCall
  <2>2. UNCHANGED <<semVars, mutexVars, set, event_set, credit>> /\ sends' \in 0 .. MaxSends
    <3>1. sends' = sends \/ (sends < MaxSends /\ sends' = sends + 1)
      BY <1>3 DEF Call, EventCall
    <3>2. UNCHANGED <<semVars, mutexVars, set, event_set, credit>>
      BY <1>3 DEF Call, EventCall
    <3>3. sends' \in 0 .. MaxSends
      BY <1>0, <3>1, BitAssumption
    <3> QED BY <3>2, <3>3
  <2> QED BY <1>3, <2>1, <2>2, SyncEnter
<1>4. CASE kind = "heap"
  <2>1. Enter(t, Timed("take", "forever")) /\ Timed("take", "forever") \in Calls
        /\ Timed("take", "forever").op = "take"
    <3>1. "take" \in Op /\ "forever" \in Wait
      BY DEF Op, Wait
    <3>2. Timed("take", "forever") \in Calls /\ Timed("take", "forever").op = "take"
      BY <3>1, CallsType, Zenon
    <3> QED BY <1>4, <3>2 DEF Call, HeapCall, Lock
  <2>2. UNCHANGED <<semVars, mutexVars, set, event_set, credit, sends>>
    BY <1>4 DEF Call, HeapCall, eventVars
  <2> QED BY <1>0, <2>1, <2>2, SyncEnter
<1> QED BY <1>1, <1>2, <1>3, <1>4 DEF Call

\* A section of the semaphore, alone or as the lock of the heap.
LEMMA SyncSem ==
  ASSUME SyncInv, IsSem, NEW t \in Thread, SemStep(t), UNCHANGED <<mutexVars, eventVars>>
  PROVE  SyncInv'
<1>1. /\ WaitCore' /\ KeepsOrder /\ SemCore' /\ kind' = kind /\ flag' = flag
      /\ current_priority' = current_priority
      /\ \A x \in Thread : call'[x] \in {call[x], NoCall}
  BY SemStepKeeps DEF SyncInv
<1>2. kind # "mutex" /\ kind # "event"
  BY DEF IsSem
<1>3. \A x \in Thread : call'[x].op = "recv" => kind = "event" /\ call'[x].set # {}
  BY <1>1 DEF SyncInv, EventCore, NoCall
<1>4. MutexCore'
  BY <1>1, <1>2, MutexOther DEF SyncInv
<1>5. EventCore'
  BY <1>1, <1>2, <1>3, EventOther DEF SyncInv, eventVars, EventCore, EventTypeOK
<1>6. ListIsSorted'
  BY <1>1, SortedNext DEF SyncInv
<1> QED BY <1>1, <1>4, <1>5, <1>6 DEF SyncInv

\* A section of the mutex.
LEMMA SyncMutex ==
  ASSUME SyncInv, kind = "mutex", NEW t \in Thread, MutexStep(t), UNCHANGED <<semVars, eventVars>>
  PROVE  SyncInv'
<1>1. /\ WaitCore' /\ KeepsOrder /\ MutexCore' /\ kind' = kind /\ flag' = flag
      /\ \A x \in Suspended' : current_priority'[x] = current_priority[x]
      /\ \A x \in Thread : call'[x] \in {call[x], NoCall}
  BY MutexTakeKeeps, MutexReleaseKeeps, MutexReturnKeeps DEF SyncInv, MutexStep
<1>2. \A x \in Thread : call'[x].op = "recv" => kind = "event" /\ call'[x].set # {}
  BY <1>1 DEF SyncInv, EventCore, NoCall
<1>3. SemCore'
  BY <1>1, SemOther DEF SyncInv, IsSem
<1>4. EventCore'
  BY <1>1, <1>2, EventOther DEF SyncInv, eventVars, EventCore, EventTypeOK
<1>5. ListIsSorted'
  BY <1>1, SortedNext DEF SyncInv
<1> QED BY <1>1, <1>3, <1>4, <1>5 DEF SyncInv

\* A section of the event.
LEMMA SyncEvent ==
  ASSUME SyncInv, kind = "event", NEW t \in Thread, EventStep(t), UNCHANGED <<semVars, mutexVars>>
  PROVE  SyncInv'
<1>1. /\ WaitCore' /\ KeepsOrder /\ EventCore' /\ kind' = kind /\ flag' = flag
      /\ current_priority' = current_priority
  BY EventStepKeeps DEF SyncInv
<1>2. SemCore'
  BY <1>1, SemOther DEF SyncInv, IsSem
<1>3. MutexCore'
  BY <1>1, MutexOther DEF SyncInv
<1>4. ListIsSorted'
  BY <1>1, SortedNext DEF SyncInv
<1> QED BY <1>1, <1>2, <1>3, <1>4 DEF SyncInv

\* A step of the heap is a section of its semaphore or starts a call.
LEMMA SyncHeap ==
  ASSUME SyncInv, kind = "heap", NEW t \in Thread, HeapStep(t), UNCHANGED <<mutexVars, eventVars>>
  PROVE  SyncInv'
<1>1. CASE HeapLock(t)
  BY <1>1, SyncSem DEF HeapLock, SemStep, IsSem
<1>2. CASE HeapAgain(t) \/ HeapMalloc(t) \/ HeapFree(t) \/ HeapRealloc(t)
  <2>1. /\ Enter(t, Timed("take", "forever")) \/ Enter(t, Plain("release"))
        /\ UNCHANGED <<semVars, mutexVars, set, event_set, credit, sends>>
    BY <1>2 DEF HeapAgain, HeapMalloc, HeapFree, HeapRealloc, Lock, Leave, eventVars
  <2>2. /\ Timed("take", "forever") \in Calls /\ Timed("take", "forever").op = "take"
        /\ Plain("release") \in Calls /\ Plain("release").op = "release"
    <3>1. "take" \in Op /\ "forever" \in Wait /\ "release" \in Op \ {"recv"}
      BY DEF Op, Wait
    <3> QED BY <3>1, CallsType, Zenon
  <2>3. sends' \in 0 .. MaxSends
    BY <2>1 DEF SyncInv, EventCore, EventTypeOK
  <2> QED BY <2>1, <2>2, <2>3, SyncEnter
<1> QED BY <1>1, <1>2 DEF HeapStep

\* Detach and timeout.
LEMMA SyncDetachExpire ==
  ASSUME SyncInv, NEW t \in Thread, Detach(t) \/ Expire(t), UNCHANGED <<semVars, mutexVars, eventVars>>
  PROVE  SyncInv'
<1>1. WaitCore' /\ KeepsOrder /\ Suspended' \subseteq Suspended /\ Granted' = Granted
  BY DetachKeeps, ExpireKeeps DEF SyncInv
<1>2. /\ kind' = kind /\ flag' = flag /\ current_priority' = current_priority
      /\ call' = call \/ (pc[t] = "detach" /\ call' = [call EXCEPT ![t] = NoCall])
  BY DEF Detach, DetachTest, DetachResume, DetachObject, Expire
<1>3. \A x \in Thread : call'[x] = call[x] \/ (x = t /\ pc[t] = "detach" /\ call'[x].op = "none")
  BY <1>2 DEF SyncInv, WaitCore, NoCall
<1>4. \A x \in Suspended' \cup Granted' : call'[x] = call[x]
  BY <1>1, <1>3 DEF Suspended, Granted
<1>5. \A x \in Thread : call'[x].op = "recv" => kind = "event" /\ call'[x].set # {}
  BY <1>3 DEF SyncInv, EventCore
<1>6. UNCHANGED <<semVars, mutexVars, set, event_set, credit>> /\ sends' \in 0 .. MaxSends
  BY DEF eventVars, SyncInv, EventCore, EventTypeOK
<1> QED BY <1>1, <1>2, <1>4, <1>5, <1>6, SyncQuiet

\* The initial state of each object.
LEMMA SyncInit == Init => SyncInv
<1> SUFFICES ASSUME Init PROVE SyncInv
  OBVIOUS
<1>1. /\ kind \in Kind /\ flag \in {"FIFO", "PRIO"} /\ attached = TRUE /\ suspend_thread = <<>>
      /\ pc = [t \in Thread |-> "idle"] /\ call = [t \in Thread |-> NoCall]
      /\ error = [t \in Thread |-> "EOK"] /\ current_priority = InitPriority
  BY MadeAssumption DEF Init, WaitInit
<1>2. Suspended = {} /\ Granted = {}
  BY <1>1 DEF Suspended, Granted
<1>3. WaitCore
  <2>1. WaitTypeOK
    <3>1. suspend_thread \in Seq(Thread) /\ pc \in [Thread -> WaitPC]
      BY <1>1 DEF WaitPC
    <3>2. DOMAIN call = Thread /\ \A t \in Thread : call[t].wait \in Wait
      BY <1>1 DEF NoCall, Wait
    <3> QED BY <1>1, <3>1, <3>2, PriorityAssumption DEF WaitTypeOK
  <2>2. call \in [Thread -> Calls]
    BY <1>1, NoCallType
  <2>3. ListIsExact
    BY <1>1, <1>2 DEF ListIsExact
  <2> QED BY <1>2, <2>1, <2>2, <2>3 DEF WaitCore
<1>4. ListIsSorted
  BY <1>1 DEF ListIsSorted
<1>5. SemCore
  <2>1. value \in 0 .. SemMax /\ ledger = value
    BY <1>1, SemAssumption DEF Init, SemInit, Kind
  <2>2. Cardinality(Granted) = 0
    BY <1>2, FS_EmptySet
  <2>3. ledger = (value + 0) % (SemMax + 1)
    <3>1. \A v \in 0 .. SemMax : v = (v + 0) % (SemMax + 1)
      BY SemAssumption
    <3> QED BY <2>1, <3>1
  <2> QED BY <1>1, <2>1, <2>2, <2>3 DEF SemCore, SemTypeOK, SemInv, TokensConserved, NoWaiterAtToken
<1>6. MutexCore
  <2>1. /\ mutex = [value |-> 1, owner |-> NoThread, hold |-> 0, original_priority |-> 255]
        /\ holds = [t \in Thread |-> 0]
    BY DEF Init, MutexInit, NoPriority
  <2>2. mutex \in MutexRecord /\ holds \in [Thread -> Nat] /\ mutex.owner = NoThread /\ mutex.value = 1
    BY <2>1 DEF MutexRecord
  <2>3. OwnerIsExact /\ NoInversion /\ PriorityIsRestored
    BY <1>1, <1>2, <2>1, <2>2, ThreadAssumption DEF OwnerIsExact, NoInversion, PriorityIsRestored
  <2> QED BY <1>2, <2>2, <2>3 DEF MutexCore
<1>7. EventCore
  <2>1. /\ set = {} /\ event_set = [t \in Thread |-> {}] /\ sends = 0 /\ credit = [b \in Bit |-> 0]
    BY DEF Init, EventInit
  <2>2. EventTypeOK /\ TakenOnce
    BY <2>1, BitAssumption DEF EventTypeOK, TakenOnce
  <2>3. NoSatisfiedSleeper /\ GivenAsAsked
    BY <1>2 DEF NoSatisfiedSleeper, GivenAsAsked
  <2>4. \A t \in Thread : call[t].op = "none"
    BY <1>1 DEF NoCall
  <2> QED BY <2>2, <2>3, <2>4 DEF EventCore, EventInv
<1> QED BY <1>3, <1>4, <1>5, <1>6, <1>7 DEF SyncInv

\* Every step of every object.
LEMMA SyncNext == SyncInv /\ [Next]_vars => SyncInv'
<1> SUFFICES ASSUME SyncInv, [Next]_vars PROVE SyncInv'
  OBVIOUS
<1>1. CASE UNCHANGED vars
  <2>1. /\ UNCHANGED <<kind, attached, flag, suspend_thread, pc, call, error, current_priority>>
        /\ UNCHANGED <<value, ledger, mutex, holds, set, event_set, sends, credit>>
    BY <1>1 DEF vars, waitVars, semVars, mutexVars, eventVars
  <2>2. Suspended' = Suspended /\ Granted' = Granted
    BY <2>1 DEF Suspended, Granted
  <2>3. WaitCore'
    BY <2>1, <2>2 DEF SyncInv, WaitCore, WaitTypeOK, ListIsExact
  <2>4. KeepsOrder
    BY <2>1 DEF KeepsOrder
  <2> QED BY <2>1, <2>2, <2>3, <2>4, SyncQuiet DEF semVars, mutexVars, SyncInv, EventCore, EventTypeOK
<1>2. ASSUME NEW t \in Thread, Call(t) PROVE SyncInv'
  BY <1>2, SyncCall
<1>3. ASSUME NEW t \in Thread, Step(t) PROVE SyncInv'
  BY <1>3, SyncSem, SyncMutex, SyncEvent, SyncHeap, SyncDetachExpire DEF Step, IsSem
<1>4. ASSUME NEW t \in Thread, Tick(t) PROVE SyncInv'
  BY <1>4, SyncDetachExpire DEF Tick
<1> QED BY <1>1, <1>2, <1>3, <1>4 DEF Next

\* The objects' inductive invariant holds.
THEOREM SyncInvariance == Spec => []SyncInv
BY SyncInit, SyncNext, PTL DEF Spec

\* For every number of threads, every width of value and every interleaving of
\* take, release, reset, detach and timeout: no token of a semaphore is lost or
\* doubled, and nobody waits while one is free.
THEOREM TokensAreConserved == Spec => []SemInv
<1>1. SyncInv => SemInv
  BY DEF SyncInv, SemCore
<1> QED BY <1>1, SyncInvariance, PTL

\* For every number of threads: a mutex has one owner, which holds it as often as
\* it took it, across hand-overs and timeouts.
THEOREM MutexHasOneOwner == Spec => []OwnerIsExact
<1>1. SyncInv => OwnerIsExact
  BY DEF SyncInv, MutexCore
<1> QED BY <1>1, SyncInvariance, PTL

\* For any priorities: no thread waits for an owner of lower priority on a list
\* in priority order, and a priority is lent no longer than the mutex is held.
THEOREM NoPriorityInversion == Spec => []PriorityInv
<1>1. SyncInv => PriorityInv
  BY DEF SyncInv, MutexCore, PriorityInv
<1> QED BY <1>1, SyncInvariance, PTL

\* For every set of events and every list of waiting threads: a send wakes all
\* whose condition holds, in the order of the list, each with what it asked for.
THEOREM EventsReachTheirThreads == Spec => []EventInv
<1>1. SyncInv => EventInv
  BY DEF SyncInv, EventCore
<1> QED BY <1>1, SyncInvariance, PTL
=============================================================================
