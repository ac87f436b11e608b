------------------------- MODULE MessageQueueProofs -------------------------
(***************************************************************************)
(* Proofs about the message queue, for every set of threads, every set of  *)
(* messages, every number of slots and every bound on the timeouts.        *)
(***************************************************************************)
EXTENDS MessageQueue, FiniteSetTheorems, SequenceTheorems, NaturalsInduction,
        WellFoundedInduction, TLAPS

-----------------------------------------------------------------------------
(* Waiting lists.                                                          *)

\* Unlinking the i-th node of a waiting list leaves a list of threads.
LEMMA RemoveType ==
  ASSUME NEW S, NEW s \in Seq(S), NEW i \in 1 .. Len(s)
  PROVE  /\ Remove(s, i) \in Seq(S)
         /\ Len(Remove(s, i)) = Len(s) - 1
         /\ \A j \in 1 .. Len(s) - 1 : Remove(s, i)[j] = IF j < i THEN s[j] ELSE s[j + 1]
BY DEF Remove

\* Suspending a thread that is not yet waiting appends it once.
LEMMA EnumeratesAppend ==
  ASSUME NEW T, NEW s \in Seq(T), NEW S, NEW x \in T, x \notin S, Enumerates(s, S)
  PROVE  Enumerates(Append(s, x), S \cup {x})
BY DEF Enumerates

\* Resuming the head of a waiting list takes exactly that thread off it.
LEMMA EnumeratesTail ==
  ASSUME NEW T, NEW s \in Seq(T), NEW S, s # <<>>, Enumerates(s, S)
  PROVE  /\ Head(s) \in S
         /\ Head(s) \in T
         /\ Tail(s) \in Seq(T)
         /\ Enumerates(Tail(s), S \ {Head(s)})
<1>1. /\ Head(s) = s[1] /\ Len(s) >= 1 /\ Len(Tail(s)) = Len(s) - 1
      /\ Tail(s) \in Seq(T)
      /\ \A i \in 1 .. Len(s) - 1 : Tail(s)[i] = s[i + 1]
  OBVIOUS
<1>2. Head(s) \in S /\ Head(s) \in T
  BY <1>1 DEF Enumerates
<1>3. ASSUME NEW t \in S \ {Head(s)} PROVE \E i \in 1 .. Len(Tail(s)) : Tail(s)[i] = t
  <2>1. PICK k \in 1 .. Len(s) : s[k] = t
    BY DEF Enumerates
  <2>2. k # 1
    BY <2>1, <1>1
  <2>3. k - 1 \in 1 .. Len(Tail(s)) /\ Tail(s)[k - 1] = t
    BY <2>1, <2>2, <1>1
  <2> QED BY <2>3
<1> QED BY <1>1, <1>2, <1>3 DEF Enumerates

\* A timeout takes exactly the thread that timed out off its list.
LEMMA EnumeratesRemove ==
  ASSUME NEW T, NEW s \in Seq(T), NEW S, NEW i \in 1 .. Len(s), Enumerates(s, S)
  PROVE  Enumerates(Remove(s, i), S \ {s[i]})
<1>1. /\ Len(Remove(s, i)) = Len(s) - 1
      /\ \A j \in 1 .. Len(s) - 1 : Remove(s, i)[j] = IF j < i THEN s[j] ELSE s[j + 1]
  BY RemoveType
<1>2. ASSUME NEW t \in S \ {s[i]} PROVE \E j \in 1 .. Len(Remove(s, i)) : Remove(s, i)[j] = t
  <2>1. PICK k \in 1 .. Len(s) : s[k] = t
    BY DEF Enumerates
  <2>2. k # i
    BY <2>1
  <2>3. CASE k < i
    BY <2>1, <2>3, <1>1
  <2>4. CASE k > i
    <3>1. k - 1 \in 1 .. Len(s) - 1 /\ Remove(s, i)[k - 1] = s[k]
      BY <2>4, <1>1
    <3> QED BY <3>1, <2>1, <1>1
  <2> QED BY <2>2, <2>3, <2>4
<1>3. \A j \in 1 .. Len(Remove(s, i)) : Remove(s, i)[j] \in S \ {s[i]}
  BY <1>1 DEF Enumerates
<1>4. \A j, k \in 1 .. Len(Remove(s, i)) : Remove(s, i)[j] = Remove(s, i)[k] => j = k
  <2> SUFFICES ASSUME NEW j \in 1 .. Len(s) - 1, NEW k \in 1 .. Len(s) - 1,
                      Remove(s, i)[j] = Remove(s, i)[k]
               PROVE  j = k
    BY <1>1
  <2>1. PICK a \in 1 .. Len(s) : a = IF j < i THEN j ELSE j + 1
    OBVIOUS
  <2>2. PICK b \in 1 .. Len(s) : b = IF k < i THEN k ELSE k + 1
    OBVIOUS
  <2>3. s[a] = s[b]
    BY <1>1, <2>1, <2>2
  <2>4. a = b
    BY <2>3 DEF Enumerates
  <2> QED BY <2>1, <2>2, <2>4
<1> QED BY <1>2, <1>3, <1>4 DEF Enumerates

-----------------------------------------------------------------------------
(* Counting the threads made ready.                                        *)

\* Sets of threads are finite, so they can be counted.
LEMMA CardType ==
  ASSUME NEW S \in SUBSET Thread
  PROVE  IsFiniteSet(S) /\ Cardinality(S) \in Nat
BY ThreadAssumption, FS_Subset, FS_CardinalityType

\* One more ready thread.
LEMMA CardAdd ==
  ASSUME NEW S \in SUBSET Thread, NEW w \in Thread, w \notin S
  PROVE  Cardinality(S \cup {w}) = Cardinality(S) + 1
BY CardType, FS_AddElement

\* At most one ready thread fewer.
LEMMA CardRemove ==
  ASSUME NEW S \in SUBSET Thread, NEW t \in Thread
  PROVE  Cardinality(S) <= Cardinality(S \ {t}) + 1
<1>1. CASE t \in S
  <2>1. Cardinality(S \ {t}) = Cardinality(S) - 1
    BY <1>1, CardType, FS_RemoveElement
  <2> QED BY <2>1, CardType
<1>2. CASE t \notin S
  <2>1. S \ {t} = S
    BY <1>2
  <2> QED BY <2>1, CardType
<1> QED BY <1>1, <1>2

\* The sets of threads counted are sets of threads.
LEMMA SetTypes == \A p : At(p) \in SUBSET Thread /\ Woken(p) \in SUBSET Thread
BY DEF At, Woken

-----------------------------------------------------------------------------
(* Linked lists.                                                           *)

USE DEF Null

Elems(q) == {q[i] : i \in 1 .. Len(q)}

\* q is the list that begins at p under the next pointers nx
IsList(nx, q, p) ==
    /\ q \in Seq(Slots)
    /\ \A i, j \in 1 .. Len(q) : q[i] = q[j] => i = j
    /\ p = IF q = <<>> THEN Null ELSE q[1]
    /\ \A i \in 1 .. Len(q) : nx[q[i]] = IF i = Len(q) THEN Null ELSE q[i + 1]

\* The beginning of a list is its first slot, and NULL if it is empty.
LEMMA ListBegin ==
  ASSUME NEW nx, NEW q, NEW p, IsList(nx, q, p)
  PROVE  /\ Len(q) \in Nat
         /\ p = Null <=> q = <<>>
         /\ q = <<>> <=> Len(q) = 0
         /\ p # Null => p = q[1] /\ p \in Slots /\ p \in Elems(q)
         /\ p \in 0 .. max_msgs
         /\ Elems(q) \subseteq Slots
         /\ q # <<>> => q[Len(q)] \in Elems(q)
<1>1. q \in Seq(Slots) /\ Len(q) \in Nat /\ (q = <<>> <=> Len(q) = 0)
  BY DEF IsList
<1>2. \A i \in 1 .. Len(q) : q[i] \in Slots
  BY <1>1
<1>3. Elems(q) \subseteq Slots
  BY <1>2 DEF Elems
<1>4. q # <<>> => 1 \in 1 .. Len(q) /\ Len(q) \in 1 .. Len(q)
  BY <1>1
<1>5. q # <<>> => q[1] \in Elems(q) /\ q[Len(q)] \in Elems(q) /\ p = q[1]
  BY <1>4 DEF Elems, IsList
<1>6. q = <<>> => p = Null
  BY DEF IsList
<1>7. q # <<>> => p \in Slots
  BY <1>3, <1>5
<1>8. \A s \in Slots : s # Null /\ s \in 0 .. max_msgs
  BY SlotAssumption DEF Slots
<1>9. Null \in 0 .. max_msgs
  BY SlotAssumption
<1> QED BY <1>1, <1>3, <1>5, <1>6, <1>7, <1>8, <1>9

\* A list does not change with the pointers of other slots.
LEMMA ListSame ==
  ASSUME NEW nx, NEW ny, NEW q, NEW p, IsList(nx, q, p), \A s \in Elems(q) : ny[s] = nx[s]
  PROVE  IsList(ny, q, p)
BY DEF IsList, Elems

\* The first slot is taken off.
LEMMA ListTail ==
  ASSUME NEW nx, NEW q, NEW p, IsList(nx, q, p), p # Null
  PROVE  /\ IsList(nx, Tail(q), nx[p])
         /\ Len(Tail(q)) = Len(q) - 1
         /\ \A i \in 1 .. Len(q) - 1 : Tail(q)[i] = q[i + 1]
         /\ Elems(Tail(q)) = Elems(q) \ {p}
         /\ (IF Tail(q) = <<>> THEN Null ELSE Tail(q)[Len(Tail(q))])
            = (IF q[Len(q)] = p THEN Null ELSE q[Len(q)])
<1>0. q \in Seq(Slots) /\ q # <<>> /\ Len(q) \in Nat /\ Len(q) >= 1 /\ p = q[1]
  BY ListBegin DEF IsList
<1>a. \A i \in 1 .. Len(q) : q[i] \in Slots
  BY <1>0
<1>b. \A i, j \in 1 .. Len(q) : q[i] = q[j] => i = j
  BY DEF IsList
<1>c. \A i \in 1 .. Len(q) : nx[q[i]] = IF i = Len(q) THEN Null ELSE q[i + 1]
  BY DEF IsList
<1>1. PICK r \in Seq(Slots) : /\ r = Tail(q) /\ Len(r) = Len(q) - 1
                              /\ \A i \in 1 .. Len(q) - 1 : r[i] = q[i + 1]
                              /\ r = <<>> <=> Len(q) = 1
  <2>1. /\ Tail(q) \in Seq(Slots) /\ Len(Tail(q)) = Len(q) - 1
        /\ \A i \in 1 .. Len(q) - 1 : Tail(q)[i] = q[i + 1]
    BY <1>0
  <2>2. \A r \in Seq(Slots) : r = <<>> <=> Len(r) = 0
    OBVIOUS
  <2>3. Len(q) - 1 = 0 <=> Len(q) = 1
    BY <1>0
  <2> QED BY <2>1, <2>2, <2>3, Zenon
<1>2. Elems(r) = Elems(q) \ {p}
  <2>1. ASSUME NEW i \in 1 .. Len(r) PROVE r[i] \in Elems(q) \ {p}
    <3>1. i + 1 \in 1 .. Len(q) /\ 1 \in 1 .. Len(q) /\ r[i] = q[i + 1] /\ i + 1 # 1
      BY <1>0, <1>1
    <3> QED BY <1>0, <1>b, <3>1 DEF Elems
  <2>2. ASSUME NEW i \in 1 .. Len(q), q[i] # p PROVE q[i] \in Elems(r)
    <3>1. i # 1
      BY <1>0, <2>2
    <3>2. i - 1 \in 1 .. Len(r) /\ r[i - 1] = q[i]
      BY <1>0, <1>1, <3>1
    <3> QED BY <3>2 DEF Elems
  <2> QED BY <2>1, <2>2 DEF Elems
<1>3. nx[p] = IF r = <<>> THEN Null ELSE r[1]
  <2>1. nx[q[1]] = IF 1 = Len(q) THEN Null ELSE q[1 + 1]
    <3>1. 1 \in 1 .. Len(q)
      BY <1>0
    <3> QED BY <3>1, <1>c, Zenon
  <2>2. Len(q) # 1 => r[1] = q[1 + 1]
    BY <1>0, <1>1
  <2> QED BY <1>0, <1>1, <2>1, <2>2
<1>4. ASSUME NEW i \in 1 .. Len(r) PROVE nx[r[i]] = IF i = Len(r) THEN Null ELSE r[i + 1]
  <2>1. i + 1 \in 1 .. Len(q) /\ r[i] = q[i + 1] /\ (i + 1 = Len(q) <=> i = Len(r))
    BY <1>0, <1>1
  <2>2. nx[q[i + 1]] = IF i + 1 = Len(q) THEN Null ELSE q[(i + 1) + 1]
    BY <2>1, <1>c
  <2>3. i # Len(r) => r[i + 1] = q[(i + 1) + 1]
    <3>0. Len(r) = Len(q) - 1 /\ Len(q) \in Nat
      BY <1>0, <1>1
    <3>1. i # Len(r) => i + 1 \in 1 .. Len(q) - 1
      BY ONLY <3>0, i \in 1 .. Len(r)
    <3> QED BY <3>1, <1>1, Zenon
  <2> QED BY <2>1, <2>2, <2>3
<1>5. \A i, j \in 1 .. Len(r) : r[i] = r[j] => i = j
  BY <1>0, <1>1, <1>b
<1>6. IsList(nx, r, nx[p])
  BY <1>3, <1>4, <1>5 DEF IsList
<1>7. (IF r = <<>> THEN Null ELSE r[Len(r)]) = (IF q[Len(q)] = p THEN Null ELSE q[Len(q)])
  <2>1. CASE Len(q) = 1
    BY <2>1, <1>0, <1>1
  <2>2. CASE Len(q) # 1
    <3>1. q[Len(q)] # p /\ r # <<>> /\ r[Len(r)] = q[Len(q)]
      BY <2>2, <1>0, <1>1, <1>b
    <3> QED BY <3>1
  <2> QED BY <2>1, <2>2
<1> QED BY <1>1, <1>2, <1>6, <1>7

\* slot s in front of, and behind, the slots of q
InFront(s, q) == <<s>> \o q
Behind(q, s)  == Append(q, s)

\* A slot is put in front.
LEMMA ListCons ==
  ASSUME NEW nx, NEW ny, NEW q, NEW p, IsList(nx, q, p), NEW s \in Slots, s \notin Elems(q),
         ny[s] = p, \A x \in Elems(q) : ny[x] = nx[x], NEW r, r = InFront(s, q)
  PROVE  /\ IsList(ny, r, s)
         /\ Len(r) = Len(q) + 1
         /\ r[1] = s
         /\ \A i \in 1 .. Len(q) : r[i + 1] = q[i]
         /\ Elems(r) = Elems(q) \cup {s}
<1>0. q \in Seq(Slots) /\ Len(q) \in Nat /\ (p = Null <=> Len(q) = 0) /\ (p # Null => p = q[1])
  BY ListBegin DEF IsList
<1>1. /\ r \in Seq(Slots) /\ Len(r) = Len(q) + 1 /\ r[1] = s /\ r # <<>>
      /\ \A i \in 1 .. Len(q) : r[i + 1] = q[i]
  <2>1. /\ <<s>> \o q \in Seq(Slots) /\ Len(<<s>> \o q) = Len(q) + 1
        /\ (<<s>> \o q)[1] = s
        /\ \A i \in 1 .. Len(q) : (<<s>> \o q)[i + 1] = q[i]
    BY <1>0
  <2>2. <<s>> \o q # <<>>
    BY <2>1, <1>0
  <2> QED BY <2>1, <2>2, Zenon DEF InFront
<1>2. ASSUME NEW i \in 1 .. Len(r), i # 1 PROVE i - 1 \in 1 .. Len(q) /\ r[i] = q[i - 1]
  <2>1. i - 1 \in 1 .. Len(q) /\ i = (i - 1) + 1
    BY <1>0, <1>1, <1>2
  <2> QED BY <1>1, <2>1
<1>3. Elems(r) = Elems(q) \cup {s}
  <2>1. ASSUME NEW i \in 1 .. Len(q) PROVE q[i] \in Elems(r)
    <3>1. i + 1 \in 1 .. Len(r) /\ r[i + 1] = q[i]
      BY <1>0, <1>1
    <3> QED BY <3>1 DEF Elems
  <2>2. s \in Elems(r)
    BY <1>0, <1>1 DEF Elems
  <2>3. \A i \in 1 .. Len(r) : r[i] \in Elems(q) \cup {s}
    BY <1>1, <1>2 DEF Elems
  <2> QED BY <2>1, <2>2, <2>3 DEF Elems
<1>4. ASSUME NEW i \in 1 .. Len(r), NEW j \in 1 .. Len(r), r[i] = r[j] PROVE i = j
  <2>1. \A k \in 1 .. Len(q) : q[k] # s
    BY DEF Elems
  <2>2. \A k, l \in 1 .. Len(q) : q[k] = q[l] => k = l
    BY DEF IsList
  <2>3. CASE i = 1 \/ j = 1
    BY <2>3, <2>1, <1>4, <1>1, <1>2
  <2>4. CASE i # 1 /\ j # 1
    <3>1. i - 1 = j - 1
      BY <2>4, <2>2, <1>4, <1>2
    <3> QED BY <3>1, <1>0, <1>1
  <2> QED BY <2>3, <2>4
<1>5. ASSUME NEW i \in 1 .. Len(r) PROVE ny[r[i]] = IF i = Len(r) THEN Null ELSE r[i + 1]
  <2>1. CASE i = 1
    <3>1. 1 = Len(r) <=> p = Null
      BY <1>0, <1>1
    <3>2. p # Null => r[2] = p
      <4>1. p # Null => 1 \in 1 .. Len(q) /\ p = q[1]
        BY <1>0
      <4>2. p # Null => r[1 + 1] = q[1]
        BY <4>1, <1>1
      <4> QED BY <4>1, <4>2
    <3> QED BY <2>1, <3>1, <3>2, <1>1
  <2>2. CASE i # 1
    <3>1. i - 1 \in 1 .. Len(q) /\ r[i] = q[i - 1]
      BY <2>2, <1>2
    <3>2. ny[r[i]] = nx[q[i - 1]]
      BY <3>1 DEF Elems
    <3>3. nx[q[i - 1]] = IF i - 1 = Len(q) THEN Null ELSE q[(i - 1) + 1]
      BY <3>1 DEF IsList
    <3>4. i # Len(r) => i \in 1 .. Len(q) /\ r[i + 1] = q[i]
      BY <1>0, <1>1
    <3> QED BY <3>2, <3>3, <3>4, <1>0, <1>1
  <2> QED BY <2>1, <2>2
<1>6. IsList(ny, r, s)
  BY <1>1, <1>4, <1>5 DEF IsList
<1> QED BY <1>1, <1>3, <1>6

\* ny is nx after slot s was linked at the end of q
EndLinked(nx, ny, q, s) == /\ ny[s] = Null
                           /\ q # <<>> => ny[q[Len(q)]] = s
                           /\ \A x \in Elems(q) : x # q[Len(q)] => ny[x] = nx[x]

\* the head after slot s was linked at the end
HeadWith(p, s) == IF p = Null THEN s ELSE p

IsBehind(r, q, s) == /\ r \in Seq(Slots) /\ Len(r) = Len(q) + 1 /\ r[Len(q) + 1] = s
                     /\ r # <<>>
                     /\ \A i \in 1 .. Len(q) : r[i] = q[i]
                     /\ Elems(r) = Elems(q) \cup {s}

\* A sequence with a slot behind it.
LEMMA BehindIs ==
  ASSUME NEW q \in Seq(Slots), NEW s \in Slots, NEW r, r = Behind(q, s)
  PROVE  IsBehind(r, q, s)
<1>0. q \in Seq(Slots) /\ Len(q) \in Nat
  OBVIOUS
<1>1. /\ r \in Seq(Slots) /\ Len(r) = Len(q) + 1 /\ r[Len(q) + 1] = s
      /\ r # <<>>
      /\ \A i \in 1 .. Len(q) : r[i] = q[i]
  <2>1. /\ Append(q, s) \in Seq(Slots) /\ Len(Append(q, s)) = Len(q) + 1
        /\ Append(q, s)[Len(q) + 1] = s
        /\ \A i \in 1 .. Len(q) : Append(q, s)[i] = q[i]
    BY <1>0
  <2>2. Append(q, s) # <<>>
    BY <2>1, <1>0
  <2> QED BY <2>1, <2>2, Zenon DEF Behind
<1>2. \A i \in 1 .. Len(r) : i = Len(q) + 1 \/ i \in 1 .. Len(q)
  BY <1>0, <1>1
<1>3. Elems(r) = Elems(q) \cup {s}
  <2>1. \A i \in 1 .. Len(q) : q[i] \in Elems(r)
    <3>1. \A i \in 1 .. Len(q) : i \in 1 .. Len(r) /\ r[i] = q[i]
      BY <1>0, <1>1
    <3> QED BY <3>1 DEF Elems
  <2>2. s \in Elems(r)
    <3>1. Len(q) + 1 \in 1 .. Len(r)
      BY <1>0, <1>1
    <3> QED BY <3>1, <1>1 DEF Elems
  <2>3. \A i \in 1 .. Len(r) : r[i] \in Elems(q) \cup {s}
    BY <1>1, <1>2 DEF Elems
  <2> QED BY <2>1, <2>2, <2>3 DEF Elems
<1> QED BY <1>1, <1>3 DEF IsBehind

\* A slot is put at the end.
LEMMA ListAppend ==
  ASSUME NEW nx, NEW ny, NEW q, NEW p, IsList(nx, q, p), NEW s \in Slots, s \notin Elems(q),
         EndLinked(nx, ny, q, s), NEW r, r = Behind(q, s)
  PROVE  IsList(ny, r, HeadWith(p, s))
<1>0. q \in Seq(Slots) /\ Len(q) \in Nat /\ (p = Null <=> Len(q) = 0) /\ (p # Null => p = q[1])
  BY ListBegin DEF IsList
<1>1. /\ r \in Seq(Slots) /\ Len(r) = Len(q) + 1 /\ r[Len(q) + 1] = s
      /\ r # <<>>
      /\ \A i \in 1 .. Len(q) : r[i] = q[i]
  <2>1. q \in Seq(Slots)
    BY <1>0
  <2>2. IsBehind(r, q, s)
    BY <2>1, BehindIs
  <2> QED BY <2>2 DEF IsBehind
<1>2. \A i \in 1 .. Len(r) : i = Len(q) + 1 \/ i \in 1 .. Len(q)
  BY <1>0, <1>1
<1>4. ASSUME NEW i \in 1 .. Len(r), NEW j \in 1 .. Len(r), r[i] = r[j] PROVE i = j
  <2>1. \A k \in 1 .. Len(q) : q[k] # s
    BY DEF Elems
  <2>2. \A k, l \in 1 .. Len(q) : q[k] = q[l] => k = l
    BY DEF IsList
  <2> QED BY <2>1, <2>2, <1>1, <1>2, <1>4
<1>5. ASSUME NEW i \in 1 .. Len(r) PROVE ny[r[i]] = IF i = Len(r) THEN Null ELSE r[i + 1]
  <2>1. CASE i = Len(q) + 1
    BY <2>1, <1>1 DEF EndLinked
  <2>2. CASE i \in 1 .. Len(q) /\ i = Len(q)
    <3>1. q # <<>> /\ r[i] = q[Len(q)] /\ i # Len(r) /\ r[i + 1] = s
      BY <2>2, <1>0, <1>1
    <3> QED BY <3>1 DEF EndLinked
  <2>3. CASE i \in 1 .. Len(q) /\ i # Len(q)
    <3>0. Len(q) \in 1 .. Len(q) /\ i + 1 \in 1 .. Len(q) /\ i # Len(r)
      BY <2>3, <1>0, <1>1
    <3>1. q[i] \in Elems(q) /\ q[i] # q[Len(q)]
      BY <2>3, <3>0 DEF Elems, IsList
    <3>2. ny[r[i]] = nx[q[i]]
      BY <3>1, <2>3, <1>1 DEF EndLinked
    <3>3. nx[q[i]] = q[i + 1]
      BY <2>3 DEF IsList
    <3>4. r[i + 1] = q[i + 1]
      BY <3>0, <1>1
    <3> QED BY <3>0, <3>2, <3>3, <3>4
  <2> QED BY <2>1, <2>2, <2>3, <1>2
<1>6. HeadWith(p, s) = r[1]
  BY <1>0, <1>1 DEF HeadWith
<1> QED BY <1>1, <1>4, <1>5, <1>6 DEF IsList

\* The slots of q, last one first, then those of fr.
Joined(q, fr) == [i \in 1 .. Len(q) + Len(fr) |->
                    IF i <= Len(q) THEN q[Len(q) + 1 - i] ELSE fr[i - Len(q)]]

\* RT_IPC_CMD_RESET puts the slots of a list in front of another one by one.
LEMMA ListJoin ==
  ASSUME NEW nx, NEW ny, NEW q, NEW p, NEW fr, NEW f,
         IsList(nx, q, p), IsList(nx, fr, f), Elems(q) \cap Elems(fr) = {},
         \A i \in 1 .. Len(q) : ny[q[i]] = IF i = 1 THEN f ELSE q[i - 1],
         \A x \in Elems(fr) : ny[x] = nx[x]
  PROVE  /\ IsList(ny, Joined(q, fr), IF q = <<>> THEN f ELSE q[Len(q)])
         /\ Len(Joined(q, fr)) = Len(q) + Len(fr)
         /\ Elems(Joined(q, fr)) = Elems(q) \cup Elems(fr)
<1> DEFINE m == Len(q)
           n == Len(fr)
<1>0. /\ q \in Seq(Slots) /\ m \in Nat /\ (q = <<>> <=> m = 0)
      /\ fr \in Seq(Slots) /\ n \in Nat /\ (f = Null <=> n = 0) /\ (f # Null => f = fr[1])
  BY ListBegin DEF IsList
<1>a. \A i \in 1 .. m : q[i] \in Slots
  BY <1>0
<1>b. \A i \in 1 .. n : fr[i] \in Slots
  BY <1>0
<1>1. PICK r : /\ r = Joined(q, fr)
               /\ r \in Seq(Slots) /\ Len(r) = m + n
               /\ \A i \in 1 .. m : r[i] = q[m + 1 - i]
               /\ \A i \in m + 1 .. m + n : r[i] = fr[i - m]
  <2>1. \A i \in 1 .. m + n : i <= m => m + 1 - i \in 1 .. m
    BY <1>0
  <2>2. \A i \in 1 .. m + n : ~ (i <= m) => i - m \in 1 .. n
    BY <1>0
  <2> HIDE DEF m, n
  <2>3. Joined(q, fr) = [i \in 1 .. m + n |-> IF i <= m THEN q[m + 1 - i] ELSE fr[i - m]]
    BY DEF Joined, m, n
  <2>4. Joined(q, fr) \in [1 .. m + n -> Slots]
    BY <1>a, <1>b, <2>1, <2>2, <2>3
  <2>5. Joined(q, fr) \in Seq(Slots) /\ Len(Joined(q, fr)) = m + n
    <3>1. PICK k \in Nat : k = m + n
      BY <1>0
    <3>2. ASSUME NEW g \in [1 .. k -> Slots] PROVE g \in Seq(Slots) /\ Len(g) = k
      OBVIOUS
    <3> QED BY <2>4, <3>1, <3>2
  <2>6. \A i \in 1 .. m : Joined(q, fr)[i] = q[m + 1 - i]
    BY <1>0, <2>3
  <2>7. \A i \in m + 1 .. m + n : Joined(q, fr)[i] = fr[i - m]
    BY <1>0, <2>3
  <2> QED BY <2>5, <2>6, <2>7, Zenon
<1> HIDE DEF m, n
<1>2. \A i \in 1 .. Len(r) : i \in 1 .. m \/ i \in m + 1 .. m + n
  BY <1>0, <1>1
<1>3. Elems(r) = Elems(q) \cup Elems(fr)
  <2>1. ASSUME NEW i \in 1 .. m PROVE q[i] \in Elems(r)
    <3>1. m + 1 - i \in 1 .. m /\ m + 1 - i \in 1 .. Len(r) /\ m + 1 - (m + 1 - i) = i
      BY <1>0, <1>1
    <3>2. r[m + 1 - i] = q[i]
      BY <3>1, <1>1
    <3> QED BY <3>1, <3>2 DEF Elems
  <2>2. ASSUME NEW i \in 1 .. n PROVE fr[i] \in Elems(r)
    <3>1. m + i \in m + 1 .. m + n /\ m + i \in 1 .. Len(r) /\ (m + i) - m = i
      BY <1>0, <1>1
    <3>2. r[m + i] = fr[i]
      BY <3>1, <1>1
    <3> QED BY <3>1, <3>2 DEF Elems
  <2>3. ASSUME NEW i \in 1 .. Len(r) PROVE r[i] \in Elems(q) \cup Elems(fr)
    <3>1. CASE i \in 1 .. m
      <4>1. m + 1 - i \in 1 .. m
        BY <3>1, <1>0
      <4> QED BY <3>1, <4>1, <1>1 DEF Elems, m
    <3>2. CASE i \in m + 1 .. m + n
      <4>1. i - m \in 1 .. n
        BY <3>2, <1>0
      <4> QED BY <3>2, <4>1, <1>1 DEF Elems, n
    <3> QED BY <3>1, <3>2, <1>2
  <2> QED BY <2>1, <2>2, <2>3 DEF Elems, m, n
<1>4. ASSUME NEW i \in 1 .. Len(r), NEW j \in 1 .. Len(r), r[i] = r[j] PROVE i = j
  <2>1. /\ \A k, l \in 1 .. m : q[k] = q[l] => k = l
        /\ \A k, l \in 1 .. n : fr[k] = fr[l] => k = l
    BY DEF IsList, m, n
  <2>2. \A k \in 1 .. m, l \in 1 .. n : q[k] # fr[l]
    <3>1. \A k \in 1 .. m : q[k] \in Elems(q)
      BY DEF Elems, m
    <3>2. \A l \in 1 .. n : fr[l] \in Elems(fr)
      BY DEF Elems, n
    <3> QED BY <3>1, <3>2
  <2>3. \A k \in 1 .. m : m + 1 - k \in 1 .. m
    BY <1>0
  <2>4. \A k \in m + 1 .. m + n : k - m \in 1 .. n
    BY <1>0
  <2>5. CASE i \in 1 .. m /\ j \in 1 .. m
    <3>1. q[m + 1 - i] = q[m + 1 - j]
      BY <1>1, <1>4, <2>5
    <3>2. m + 1 - i = m + 1 - j
      BY <3>1, <2>1, <2>3, <2>5
    <3> QED BY <3>2, <1>0
  <2>6. CASE i \in m + 1 .. m + n /\ j \in m + 1 .. m + n
    <3>1. fr[i - m] = fr[j - m]
      BY <1>1, <1>4, <2>6
    <3>2. i - m = j - m
      BY <3>1, <2>1, <2>4, <2>6
    <3> QED BY <3>2, <1>0
  <2>7. CASE i \in 1 .. m /\ j \in m + 1 .. m + n
    <3>1. r[i] = q[m + 1 - i] /\ r[j] = fr[j - m] /\ m + 1 - i \in 1 .. m /\ j - m \in 1 .. n
      BY <1>1, <2>3, <2>4, <2>7
    <3> QED BY <3>1, <1>4, <2>2
  <2>8. CASE j \in 1 .. m /\ i \in m + 1 .. m + n
    <3>1. r[j] = q[m + 1 - j] /\ r[i] = fr[i - m] /\ m + 1 - j \in 1 .. m /\ i - m \in 1 .. n
      BY <1>1, <2>3, <2>4, <2>8
    <3> QED BY <3>1, <1>4, <2>2
  <2> QED BY <2>5, <2>6, <2>7, <2>8, <1>2
<1>5. ASSUME NEW i \in 1 .. Len(r) PROVE ny[r[i]] = IF i = Len(r) THEN Null ELSE r[i + 1]
  <2>1. CASE i \in 1 .. m /\ i # m
    <3>1. /\ m + 1 - i \in 1 .. m /\ m + 1 - i # 1 /\ i # Len(r) /\ i + 1 \in 1 .. m
          /\ m + 1 - (i + 1) = (m + 1 - i) - 1
      BY <2>1, <1>0, <1>1
    <3>2. ny[q[m + 1 - i]] = q[(m + 1 - i) - 1]
      BY <3>1 DEF m
    <3>3. r[i] = q[m + 1 - i] /\ r[i + 1] = q[m + 1 - (i + 1)]
      BY <3>1, <2>1, <1>1
    <3> QED BY <3>1, <3>2, <3>3
  <2>2. CASE i = m
    <3>1. 1 \in 1 .. m /\ m \in 1 .. m /\ m + 1 - m = 1 /\ (n # 0 => m + 1 \in m + 1 .. m + n /\ (m + 1) - m = 1)
      BY <2>2, <1>0, <1>1
    <3>2. ny[q[1]] = f
      BY <3>1 DEF m
    <3>3. r[m] = q[1] /\ (n # 0 => r[m + 1] = fr[1])
      BY <3>1, <1>1
    <3>4. m = Len(r) <=> n = 0
      BY <1>0, <1>1
    <3> QED BY <2>2, <3>2, <3>3, <3>4, <1>0
  <2>3. CASE i \in m + 1 .. m + n
    <3>1. /\ i - m \in 1 .. n /\ (i = Len(r) <=> i - m = n)
          /\ i # Len(r) => i + 1 \in m + 1 .. m + n /\ (i + 1) - m = (i - m) + 1
      BY <2>3, <1>0, <1>1
    <3>2. r[i] = fr[i - m] /\ (i # Len(r) => r[i + 1] = fr[(i - m) + 1])
      BY <2>3, <3>1, <1>1
    <3>3. ny[fr[i - m]] = nx[fr[i - m]]
      BY <3>1 DEF Elems, n
    <3>4. nx[fr[i - m]] = IF i - m = n THEN Null ELSE fr[(i - m) + 1]
      BY <3>1 DEF IsList, n
    <3> QED BY <3>1, <3>2, <3>3, <3>4
  <2> QED BY <2>1, <2>2, <2>3, <1>2
<1>6. (IF q = <<>> THEN f ELSE q[m]) = IF r = <<>> THEN Null ELSE r[1]
  <2>0. r = <<>> <=> m + n = 0
    BY <1>1
  <2>1. CASE m = 0
    <3>1. n # 0 => 1 \in m + 1 .. m + n /\ 1 - m = 1 /\ r # <<>>
      BY <2>1, <2>0, <1>0
    <3>2. n # 0 => r[1] = fr[1]
      BY <3>1, <1>1
    <3>3. n = 0 => r = <<>>
      BY <2>0, <2>1
    <3> QED BY <2>1, <3>1, <3>2, <3>3, <1>0
  <2>2. CASE m # 0
    <3>1. 1 \in 1 .. m /\ m + 1 - 1 = m /\ r # <<>>
      BY <2>2, <2>0, <1>0
    <3>2. r[1] = q[m]
      BY <3>1, <1>1
    <3> QED BY <2>2, <3>1, <3>2, <1>0
  <2> QED BY <2>1, <2>2
<1>7. IsList(ny, r, IF q = <<>> THEN f ELSE q[m])
  BY <1>1, <1>4, <1>5, <1>6 DEF IsList
<1> QED BY <1>1, <1>3, <1>7 DEF m, n

\* A set of numbers has a least one.
LEMMA LeastNat ==
  ASSUME NEW S \in SUBSET Nat, S # {}
  PROVE  \E m \in S : \A k \in S : m <= k
<1>1. PICK m \in S : \A k \in S : ~ (<<k, m>> \in OpToRel(<, Nat))
  BY NatLessThanWellFounded, WFMin
<1>2. \A k \in S : ~ (k < m)
  BY <1>1 DEF OpToRel
<1> QED BY <1>2

\* The slots linked from p are those of the list that begins there: two ways
\* along the same pointers first part nowhere.
LEMMA LinkedIs ==
  ASSUME NEW q, NEW p, IsList(next, q, p), Len(q) <= max_msgs
  PROVE  Linked(p) = q
<1> DEFINE Ways == UNION {[1 .. n -> Slots] : n \in 0 .. max_msgs}
<1>0. q \in Seq(Slots) /\ Len(q) \in Nat /\ (q = <<>> <=> Len(q) = 0) /\ max_msgs \in Nat
  BY SlotAssumption DEF IsList
<1>1. q \in Ways
  <2>1. q \in [1 .. Len(q) -> Slots] /\ Len(q) \in 0 .. max_msgs
    BY <1>0
  <2> QED BY <2>1
<1>2. Follows(q, p)
  <2>1. \A i \in 1 .. Len(q) - 1 : next[q[i]] = q[i + 1]
    BY <1>0 DEF IsList
  <2>2. Len(q) # 0 => next[q[Len(q)]] = Null
    BY <1>0 DEF IsList
  <2> QED BY <2>1, <2>2 DEF IsList, Follows
<1>3. ASSUME NEW r \in Ways, Follows(r, p) PROVE r = q
  <2>1. r \in Seq(Slots) /\ Len(r) \in 0 .. max_msgs
    <3>1. PICK n \in 0 .. max_msgs : r \in [1 .. n -> Slots]
      OBVIOUS
    <3>2. n \in Nat
      BY <1>0
    <3> QED BY <3>1, <3>2
  <2>2. ASSUME NEW i \in Nat, i \in 1 .. Len(q), i \in 1 .. Len(r) PROVE r[i] = q[i]
    <3> DEFINE Bad == {k \in Nat : k \in 1 .. Len(q) /\ k \in 1 .. Len(r) /\ r[k] # q[k]}
    <3>1. SUFFICES ASSUME i \in Bad PROVE FALSE
      BY <2>2
    <3>2. PICK k \in Bad : \A l \in Bad : k <= l
      BY <3>1, LeastNat
    <3>3. r[1] = p /\ q[1] = p
      <4>1. r # <<>> /\ q # <<>>
        BY <1>0, <2>1, <2>2
      <4> QED BY <4>1, <1>3 DEF Follows, IsList
    <3>4. k # 1
      BY <3>2, <3>3
    <3>5. k - 1 \in Nat /\ k - 1 \in 1 .. Len(q) - 1 /\ k - 1 \in 1 .. Len(r) - 1 /\ ~ (k <= k - 1)
          /\ (k - 1) + 1 = k
      BY <3>2, <3>4, <1>0, <2>1
    <3>6. k - 1 \notin Bad
      BY <3>2, <3>5
    <3>7. k - 1 \in 1 .. Len(q) /\ k - 1 \in 1 .. Len(r)
      BY <3>5, <1>0, <2>1
    <3>8. r[k - 1] = q[k - 1]
      BY <3>5, <3>6, <3>7
    <3>9. next[r[k - 1]] = r[k]
      BY <3>5, <1>3 DEF Follows
    <3>10. next[q[k - 1]] = q[k]
      BY <3>5, <1>2 DEF Follows
    <3> QED BY <3>2, <3>8, <3>9, <3>10
  <2>n. \A s \in Slots : s # Null
    BY DEF Slots
  <2>3. CASE Len(r) < Len(q)
    <3>1. CASE Len(r) = 0
      BY <3>1, <2>1, <2>3, <2>n, <1>0, <1>3 DEF Follows, IsList
    <3>2. CASE Len(r) # 0
      <4>1. Len(r) \in Nat /\ Len(r) \in 1 .. Len(q) /\ Len(r) \in 1 .. Len(r) /\ Len(r) + 1 \in 1 .. Len(q)
            /\ Len(r) # Len(q) /\ Len(r) # max_msgs
        BY <3>2, <2>1, <2>3, <1>0
      <4>2. r[Len(r)] = q[Len(r)]
        BY <4>1, <2>2
      <4>3. next[q[Len(r)]] = q[Len(r) + 1] /\ q[Len(r) + 1] \in Slots
        BY <4>1, <1>0 DEF IsList
      <4>4. next[r[Len(r)]] = Null
        BY <4>1, <3>2, <1>3 DEF Follows
      <4> QED BY <4>2, <4>3, <4>4, <2>n
    <3> QED BY <3>1, <3>2
  <2>4. CASE Len(r) > Len(q)
    <3>1. CASE Len(q) = 0
      BY <3>1, <2>1, <2>4, <2>n, <1>0, <1>3 DEF Follows, IsList
    <3>2. CASE Len(q) # 0
      <4>1. Len(q) \in Nat /\ Len(q) \in 1 .. Len(r) - 1 /\ Len(q) \in 1 .. Len(q) /\ Len(q) + 1 \in 1 .. Len(r)
            /\ Len(q) \in 1 .. Len(r)
        BY <3>2, <2>1, <2>4, <1>0
      <4>2. r[Len(q)] = q[Len(q)]
        BY <4>1, <2>2
      <4>3. next[q[Len(q)]] = Null
        BY <4>1 DEF IsList
      <4>4. next[r[Len(q)]] = r[Len(q) + 1] /\ r[Len(q) + 1] \in Slots
        BY <4>1, <2>1, <1>3 DEF Follows
      <4> QED BY <4>2, <4>3, <4>4, <2>n
    <3> QED BY <3>1, <3>2
  <2>5. Len(r) = Len(q)
    BY <2>1, <2>3, <2>4, <1>0
  <2>6. \A i \in 1 .. Len(r) : r[i] = q[i]
    BY <2>1, <2>2, <2>5
  <2> QED BY <2>1, <2>5, <2>6, <1>0, SeqEqual
<1> HIDE DEF Ways
<1>4. Linked(p) = CHOOSE r \in Ways : Follows(r, p)
  BY DEF Linked, Ways
<1> QED BY <1>1, <1>2, <1>3, <1>4

-----------------------------------------------------------------------------
(* The threads: what a step of each kind does to the waiting lists and to  *)
(* who is ready, whatever it does to the slots.                            *)

USE DEF Forever, Timeout, IpcTypeOK

Holding == At("recv_copy")

\* a sender carries a message, a sleeping thread has no error yet, a call is
\* pending exactly while its thread is in it
Calls == \A t \in Thread :
    /\ pc[t] \in {"send", "send_suspended", "send_resumed", "urgent", "send_copy", "urgent_copy"}
         => value[t] \in Mail
    /\ pc[t] \in {"recv_suspended", "send_suspended"} => error[t] = "EOK"
    /\ pc[t] = "idle" <=> result[t] # Pending

Waits == IpcTypeOK /\ pc \in [Thread -> PC] /\ SuspendedExactlyOnce /\ Calls

\* e messages and f free slots are spoken for while somebody sleeps
Awake(e, f) == /\ suspend_thread # <<>> => e <= Cardinality(Woken("recv_resumed"))
               /\ suspend_sender_thread # <<>> => f <= Cardinality(Woken("send_resumed"))

\* t is no longer among the ready threads, and no other thread is affected
Left(t) == /\ Woken("recv_resumed")' = Woken("recv_resumed") \ {t}
           /\ Woken("send_resumed")' = Woken("send_resumed") \ {t}

\* Results of calls are results.
LEMMA ResultType ==
  /\ \A v \in Mail \cup {NoMail} : Ok(v) \in Result /\ Ok(v) # Pending
  /\ \A c \in {"ETIMEOUT", "ERROR", "EFULL"} : Failed(c) \in Result /\ Failed(c) # Pending
  /\ Pending \in Result
BY DEF Ok, Failed, Pending, Result, Code, Error

\* Who sleeps and who is on the lists does not change: the lists stay exact.
LEMMA ListsKept ==
  ASSUME SuspendedExactlyOnce, UNCHANGED lists,
         At("recv_suspended")' = At("recv_suspended"), At("send_suspended")' = At("send_suspended")
  PROVE  SuspendedExactlyOnce'
BY DEF SuspendedExactlyOnce, lists, Enumerates

\* The ready threads are counted.
LEMMA AwakeKept ==
  ASSUME UNCHANGED lists, NEW e, NEW f, Awake(e, f),
         Woken("recv_resumed")' = Woken("recv_resumed"), Woken("send_resumed")' = Woken("send_resumed")
  PROVE  Awake(e, f)'
BY DEF Awake, lists

\* When a ready receiver or sender leaves, one message or slot fewer may be
\* spoken for.
LEMMA AwakeLeft ==
  ASSUME UNCHANGED lists, NEW e \in Nat, NEW f \in Nat, Awake(e, f), NEW t \in Thread, Left(t)
  PROVE  /\ t \notin Woken("recv_resumed") /\ t \notin Woken("send_resumed") => Awake(e, f)'
         /\ e # 0 /\ t \notin Woken("send_resumed") => Awake(e - 1, f)'
         /\ f # 0 /\ t \notin Woken("recv_resumed") => Awake(e, f - 1)'
         /\ e = 0 /\ t \notin Woken("send_resumed") => Awake(e, f)'
         /\ f = 0 /\ t \notin Woken("recv_resumed") => Awake(e, f)'
<1>0. ASSUME NEW p PROVE Woken(p) \in SUBSET Thread /\ Cardinality(Woken(p)) \in Nat
  BY CardType, SetTypes
<1>1. PICK a \in Nat : a = Cardinality(Woken("recv_resumed"))
  BY <1>0
<1>2. PICK b \in Nat : b = Cardinality(Woken("send_resumed"))
  BY <1>0
<1>3. PICK c \in Nat : c = Cardinality(Woken("recv_resumed")')
  BY <1>0, CardType DEF Left
<1>4. PICK d \in Nat : d = Cardinality(Woken("send_resumed")')
  BY <1>0, CardType DEF Left
<1>5. a <= c + 1 /\ b <= d + 1
  BY <1>0, <1>1, <1>2, <1>3, <1>4, CardRemove DEF Left
<1>6. t \notin Woken("recv_resumed") => c = a
  <2>1. t \notin Woken("recv_resumed") => Woken("recv_resumed") \ {t} = Woken("recv_resumed")
    OBVIOUS
  <2> QED BY <2>1, <1>1, <1>3 DEF Left
<1>7. t \notin Woken("send_resumed") => d = b
  <2>1. t \notin Woken("send_resumed") => Woken("send_resumed") \ {t} = Woken("send_resumed")
    OBVIOUS
  <2> QED BY <2>1, <1>2, <1>4 DEF Left
<1>8. /\ suspend_thread' = suspend_thread /\ suspend_sender_thread' = suspend_sender_thread
      /\ suspend_thread # <<>> => e <= a
      /\ suspend_sender_thread # <<>> => f <= b
  BY <1>1, <1>2 DEF lists, Awake
<1>9. ASSUME NEW x, NEW y, suspend_thread # <<>> => x <= c, suspend_sender_thread # <<>> => y <= d
      PROVE  Awake(x, y)'
  BY <1>3, <1>4, <1>8, <1>9 DEF Awake
<1> QED BY <1>5, <1>6, <1>7, <1>8, <1>9

\* A call is entered.
LEMMA WaitsEnter ==
  ASSUME Waits, NEW t \in Thread, NEW v \in Mail \cup {NoMail}, NEW to \in Timeout,
         NEW p \in {"send", "urgent", "recv", "detach_recv", "control", "assert_type"},
         p \in {"send", "urgent"} => v \in Mail, Enter(t, p, v, to),
         NEW e, NEW f, Awake(e, f)
  PROVE  Waits' /\ Filling' = Filling /\ Holding' = Holding /\ Awake(e, f)'
<1>0. /\ pc \in [Thread -> PC] /\ timeout \in [Thread -> Timeout] /\ error \in [Thread -> Error]
      /\ value \in [Thread -> Mail \cup {NoMail}] /\ result \in [Thread -> Result]
      /\ pc[t] = "idle" /\ pc' = [pc EXCEPT ![t] = p] /\ UNCHANGED <<attached, lists>>
      /\ timeout' = [timeout EXCEPT ![t] = to] /\ value' = [value EXCEPT ![t] = v]
      /\ error' = [error EXCEPT ![t] = "EOK"] /\ result' = [result EXCEPT ![t] = Pending]
  BY DEF Enter, Goto, Waits
<1>1. IpcTypeOK' /\ pc' \in [Thread -> PC]
  BY <1>0, ResultType DEF Waits, PC, IpcPC, Error, lists
<1>2. /\ At("recv_suspended")' = At("recv_suspended") /\ At("send_suspended")' = At("send_suspended")
      /\ Holding' = Holding /\ Filling' = Filling
  BY <1>0 DEF At, Holding, Filling
<1>3. Woken("recv_resumed")' = Woken("recv_resumed") /\ Woken("send_resumed")' = Woken("send_resumed")
  BY <1>0 DEF At, Woken
<1>4. Calls'
  BY <1>0 DEF Waits, Calls
<1> QED BY <1>0, <1>1, <1>2, <1>3, <1>4, ListsKept, AwakeKept DEF Waits

\* A call returns and wakes nobody.
LEMMA WaitsReturn ==
  ASSUME Waits, NEW t \in Thread, NEW r \in Result, r # Pending, NEW q,
         pc[t] \notin {"recv_suspended", "send_suspended"}, attached' \in BOOLEAN,
         ReturnWaking(t, r, {}, q), UNCHANGED lists
  PROVE  /\ Waits' /\ Left(t)
         /\ Filling' = Filling \ {t} /\ Holding' = Holding \ {t}
<1>0. /\ pc \in [Thread -> PC] /\ timeout \in [Thread -> Timeout] /\ error \in [Thread -> Error]
      /\ value \in [Thread -> Mail \cup {NoMail}] /\ result \in [Thread -> Result]
      /\ pc' = [pc EXCEPT ![t] = "idle"]
      /\ timeout' = [timeout EXCEPT ![t] = 0] /\ value' = [value EXCEPT ![t] = NoMail]
      /\ error' = [error EXCEPT ![t] = "EOK"] /\ result' = [result EXCEPT ![t] = r]
  BY DEF ReturnWaking, Waits
<1>1. IpcTypeOK' /\ pc' \in [Thread -> PC]
  BY <1>0, TimeAssumption DEF Waits, PC, IpcPC, Error, lists
<1>2. /\ At("recv_suspended")' = At("recv_suspended") /\ At("send_suspended")' = At("send_suspended")
      /\ Holding' = Holding \ {t} /\ Filling' = Filling \ {t}
  BY <1>0 DEF At, Holding, Filling
<1>3. Left(t)
  BY <1>0 DEF At, Woken, Left
<1>4. Calls'
  BY <1>0 DEF Waits, Calls
<1> QED BY <1>1, <1>2, <1>3, <1>4, ListsKept DEF Waits

\* A call goes on to a place where nobody waits.
LEMMA WaitsGoto ==
  ASSUME Waits, NEW t \in Thread, pc[t] \notin {"idle", "recv_suspended", "send_suspended"},
         NEW p \in {"send_copy", "urgent_copy", "recv_copy", "detach_recv_locked",
                    "detach_send", "detach_send_locked", "assert_thread"},
         p \in {"send_copy", "urgent_copy"} => value[t] \in Mail,
         Goto(t, p), UNCHANGED <<attached, lists, timeout, error, value, result>>
  PROVE  /\ Waits' /\ Left(t)
         /\ Filling' = (IF p \in {"send_copy", "urgent_copy"} THEN Filling \cup {t} ELSE Filling \ {t})
         /\ Holding' = (IF p = "recv_copy" THEN Holding \cup {t} ELSE Holding \ {t})
<1>0. pc \in [Thread -> PC] /\ pc' = [pc EXCEPT ![t] = p]
  BY DEF Goto, Waits
<1>1. IpcTypeOK' /\ pc' \in [Thread -> PC]
  BY <1>0 DEF Waits, PC, IpcPC, lists
<1>2. At("recv_suspended")' = At("recv_suspended") /\ At("send_suspended")' = At("send_suspended")
  BY <1>0 DEF At
<1>3. Left(t)
  BY <1>0 DEF At, Woken, Left
<1>4. Calls'
  BY <1>0 DEF Waits, Calls
<1>5. Filling' = (IF p \in {"send_copy", "urgent_copy"} THEN Filling \cup {t} ELSE Filling \ {t})
  BY <1>0 DEF Filling
<1>6. Holding' = (IF p = "recv_copy" THEN Holding \cup {t} ELSE Holding \ {t})
  BY <1>0 DEF Holding, At
<1> QED BY <1>1, <1>2, <1>3, <1>4, <1>5, <1>6, ListsKept DEF Waits

\* A message is linked: its sender returns, and the first waiting receiver is
\* made ready for it.
LEMMA WaitsToReceiver ==
  ASSUME Waits, NEW t \in Thread, pc[t] \in {"send_copy", "urgent_copy"},
         NEW r \in Result, r # Pending, ReturnToReceiver(t, r),
         NEW e \in Nat, NEW f, Awake(e, f)
  PROVE  Waits' /\ Filling' = Filling \ {t} /\ Holding' = Holding /\ Awake(e + 1, f)'
<1>1. CASE suspend_thread = <<>>
  <2>1. ReturnWaking(t, r, {}, "recv_resumed") /\ UNCHANGED <<attached, lists>>
    BY <1>1 DEF ReturnToReceiver, ResumeReceiver, lists
  <2>2. Waits' /\ Left(t) /\ Filling' = Filling \ {t} /\ Holding' = Holding \ {t}
    BY <2>1, WaitsReturn DEF Waits
  <2>3. /\ Holding \ {t} = Holding /\ Woken("send_resumed") \ {t} = Woken("send_resumed")
    BY DEF Holding, Woken, At
  <2>4. Awake(e + 1, f)'
    BY <1>1, <2>1, <2>2, <2>3 DEF Awake, Left, lists
  <2> QED BY <2>2, <2>3, <2>4
<1>2. CASE suspend_thread # <<>>
  <2>0. /\ suspend_thread \in Seq(Thread) /\ Enumerates(suspend_thread, At("recv_suspended"))
        /\ pc \in [Thread -> PC] /\ timeout \in [Thread -> Timeout] /\ error \in [Thread -> Error]
        /\ value \in [Thread -> Mail \cup {NoMail}] /\ result \in [Thread -> Result]
    BY DEF Waits, SuspendedExactlyOnce
  <2>1. PICK w \in Thread : /\ w = Head(suspend_thread) /\ w \in At("recv_suspended")
                            /\ Tail(suspend_thread) \in Seq(Thread)
                            /\ Enumerates(Tail(suspend_thread), At("recv_suspended") \ {w})
    BY <1>2, <2>0, EnumeratesTail
  <2>2. /\ suspend_thread' = Tail(suspend_thread) /\ ReturnWaking(t, r, {w}, "recv_resumed")
        /\ UNCHANGED <<attached, suspend_sender_thread>>
    BY <1>2, <2>1 DEF ReturnToReceiver, ResumeReceiver
  <2>3. pc[w] = "recv_suspended" /\ w # t /\ error[w] = "EOK"
    BY <2>1 DEF At, Waits, Calls
  <2>4. /\ pc' = [x \in Thread |-> IF x = t THEN "idle" ELSE IF x = w THEN "recv_resumed" ELSE pc[x]]
        /\ timeout' = [timeout EXCEPT ![t] = 0] /\ value' = [value EXCEPT ![t] = NoMail]
        /\ error' = [error EXCEPT ![t] = "EOK"] /\ result' = [result EXCEPT ![t] = r]
    BY <2>2 DEF ReturnWaking
  <2>5. IpcTypeOK' /\ pc' \in [Thread -> PC]
    BY <2>0, <2>1, <2>2, <2>4, TimeAssumption DEF Waits, PC, IpcPC, Error
  <2>6. /\ At("recv_suspended")' = At("recv_suspended") \ {w}
        /\ At("send_suspended")' = At("send_suspended")
        /\ Holding' = Holding /\ Filling' = Filling \ {t}
    BY <2>3, <2>4 DEF At, Holding, Filling
  <2>7. /\ Woken("send_resumed")' = Woken("send_resumed")
        /\ Woken("recv_resumed")' = Woken("recv_resumed") \cup {w}
        /\ w \notin Woken("recv_resumed")
    BY <2>0, <2>3, <2>4 DEF At, Woken
  <2>8. SuspendedExactlyOnce'
    BY <2>1, <2>2, <2>6 DEF Waits, SuspendedExactlyOnce
  <2>9. Calls'
    BY <2>0, <2>3, <2>4 DEF Waits, Calls
  <2>10. Awake(e + 1, f)'
    <3>1. /\ Cardinality(Woken("recv_resumed")') = Cardinality(Woken("recv_resumed")) + 1
          /\ Cardinality(Woken("recv_resumed")) \in Nat
      BY <2>7, SetTypes, CardAdd, CardType
    <3>2. e <= Cardinality(Woken("recv_resumed"))
      BY <1>2 DEF Awake
    <3>3. e + 1 <= Cardinality(Woken("recv_resumed")')
      BY <3>1, <3>2
    <3> QED BY <3>3, <2>2, <2>7 DEF Awake
  <2> QED BY <2>5, <2>6, <2>8, <2>9, <2>10 DEF Waits
<1> QED BY <1>1, <1>2

\* A slot is freed: its receiver returns, and the first waiting sender is made
\* ready for it.
LEMMA WaitsToSender ==
  ASSUME Waits, NEW t \in Thread, pc[t] = "recv_copy",
         NEW r \in Result, r # Pending, ReturnToSender(t, r),
         NEW e, NEW f \in Nat, Awake(e, f)
  PROVE  Waits' /\ Filling' = Filling /\ Holding' = Holding \ {t} /\ Awake(e, f + 1)'
<1>1. CASE suspend_sender_thread = <<>>
  <2>1. ReturnWaking(t, r, {}, "send_resumed") /\ UNCHANGED <<attached, lists>>
    BY <1>1 DEF ReturnToSender, ResumeSender, lists
  <2>2. Waits' /\ Left(t) /\ Filling' = Filling \ {t} /\ Holding' = Holding \ {t}
    BY <2>1, WaitsReturn DEF Waits
  <2>3. /\ Filling \ {t} = Filling /\ Woken("recv_resumed") \ {t} = Woken("recv_resumed")
    BY DEF Filling, Woken, At
  <2>4. Awake(e, f + 1)'
    BY <1>1, <2>1, <2>2, <2>3 DEF Awake, Left, lists
  <2> QED BY <2>2, <2>3, <2>4
<1>2. CASE suspend_sender_thread # <<>>
  <2>0. /\ suspend_sender_thread \in Seq(Thread) /\ Enumerates(suspend_sender_thread, At("send_suspended"))
        /\ pc \in [Thread -> PC] /\ timeout \in [Thread -> Timeout] /\ error \in [Thread -> Error]
        /\ value \in [Thread -> Mail \cup {NoMail}] /\ result \in [Thread -> Result]
    BY DEF Waits, SuspendedExactlyOnce
  <2>1. PICK w \in Thread : /\ w = Head(suspend_sender_thread) /\ w \in At("send_suspended")
                            /\ Tail(suspend_sender_thread) \in Seq(Thread)
                            /\ Enumerates(Tail(suspend_sender_thread), At("send_suspended") \ {w})
    BY <1>2, <2>0, EnumeratesTail
  <2>2. /\ suspend_sender_thread' = Tail(suspend_sender_thread)
        /\ ReturnWaking(t, r, {w}, "send_resumed")
        /\ UNCHANGED <<attached, suspend_thread>>
    BY <1>2, <2>1 DEF ReturnToSender, ResumeSender
  <2>3. pc[w] = "send_suspended" /\ w # t /\ error[w] = "EOK"
    BY <2>1 DEF At, Waits, Calls
  <2>4. /\ pc' = [x \in Thread |-> IF x = t THEN "idle" ELSE IF x = w THEN "send_resumed" ELSE pc[x]]
        /\ timeout' = [timeout EXCEPT ![t] = 0] /\ value' = [value EXCEPT ![t] = NoMail]
        /\ error' = [error EXCEPT ![t] = "EOK"] /\ result' = [result EXCEPT ![t] = r]
    BY <2>2 DEF ReturnWaking
  <2>5. IpcTypeOK' /\ pc' \in [Thread -> PC]
    BY <2>0, <2>1, <2>2, <2>4, TimeAssumption DEF Waits, PC, IpcPC, Error
  <2>6. /\ At("send_suspended")' = At("send_suspended") \ {w}
        /\ At("recv_suspended")' = At("recv_suspended")
        /\ Holding' = Holding \ {t} /\ Filling' = Filling
    BY <2>3, <2>4 DEF At, Holding, Filling
  <2>7. /\ Woken("recv_resumed")' = Woken("recv_resumed")
        /\ Woken("send_resumed")' = Woken("send_resumed") \cup {w}
        /\ w \notin Woken("send_resumed")
    BY <2>0, <2>3, <2>4 DEF At, Woken
  <2>8. SuspendedExactlyOnce'
    BY <2>1, <2>2, <2>6 DEF Waits, SuspendedExactlyOnce
  <2>9. Calls'
    BY <2>0, <2>3, <2>4 DEF Waits, Calls
  <2>10. Awake(e, f + 1)'
    <3>1. /\ Cardinality(Woken("send_resumed")') = Cardinality(Woken("send_resumed")) + 1
          /\ Cardinality(Woken("send_resumed")) \in Nat
      BY <2>7, SetTypes, CardAdd, CardType
    <3>2. f <= Cardinality(Woken("send_resumed"))
      BY <1>2 DEF Awake
    <3>3. f + 1 <= Cardinality(Woken("send_resumed")')
      BY <3>1, <3>2
    <3> QED BY <3>3, <2>2, <2>7 DEF Awake
  <2> QED BY <2>5, <2>6, <2>8, <2>9, <2>10 DEF Waits
<1> QED BY <1>1, <1>2

\* A sender goes to sleep when no slot is free.
LEMMA WaitsSuspendSender ==
  ASSUME Waits, NEW t \in Thread, pc[t] \in {"send", "send_resumed"}, NEW to \in Timeout,
         SuspendSender(t, to), NEW e, Awake(e, 0)
  PROVE  Waits' /\ Filling' = Filling /\ Holding' = Holding /\ Awake(e, 0)'
<1>0. /\ pc \in [Thread -> PC] /\ timeout \in [Thread -> Timeout] /\ error \in [Thread -> Error]
      /\ suspend_sender_thread \in Seq(Thread) /\ Enumerates(suspend_sender_thread, At("send_suspended"))
      /\ suspend_sender_thread' = Append(suspend_sender_thread, t)
      /\ pc' = [pc EXCEPT ![t] = "send_suspended"]
      /\ timeout' = [timeout EXCEPT ![t] = to] /\ error' = [error EXCEPT ![t] = "EOK"]
      /\ UNCHANGED <<attached, suspend_thread, value, result>>
  BY DEF SuspendSender, Goto, Waits, SuspendedExactlyOnce
<1>1. IpcTypeOK' /\ pc' \in [Thread -> PC]
  BY <1>0 DEF Waits, PC, IpcPC, Error
<1>2. /\ At("send_suspended")' = At("send_suspended") \cup {t} /\ t \notin At("send_suspended")
      /\ At("recv_suspended")' = At("recv_suspended")
      /\ Holding' = Holding /\ Filling' = Filling
      /\ Woken("recv_resumed")' = Woken("recv_resumed")
  BY <1>0 DEF At, Holding, Filling, Woken
<1>3. Enumerates(suspend_sender_thread', At("send_suspended")')
  BY <1>0, <1>2, EnumeratesAppend
<1>4. SuspendedExactlyOnce'
  BY <1>0, <1>2, <1>3 DEF Waits, SuspendedExactlyOnce
<1>5. Calls'
  BY <1>0 DEF Waits, Calls
<1>6. Awake(e, 0)'
  <2>1. Cardinality(Woken("send_resumed")') \in Nat
    BY CardType DEF Woken, At
  <2> QED BY <2>1, <1>0, <1>2 DEF Awake
<1> QED BY <1>1, <1>2, <1>4, <1>5, <1>6 DEF Waits

\* A receiver goes to sleep when no message is queued.
LEMMA WaitsSuspendReceiver ==
  ASSUME Waits, NEW t \in Thread, pc[t] \in {"recv", "recv_resumed"}, NEW to \in Timeout,
         SuspendReceiver(t, to), NEW f, Awake(0, f)
  PROVE  Waits' /\ Filling' = Filling /\ Holding' = Holding /\ Awake(0, f)'
<1>0. /\ pc \in [Thread -> PC] /\ timeout \in [Thread -> Timeout] /\ error \in [Thread -> Error]
      /\ suspend_thread \in Seq(Thread) /\ Enumerates(suspend_thread, At("recv_suspended"))
      /\ suspend_thread' = Append(suspend_thread, t)
      /\ pc' = [pc EXCEPT ![t] = "recv_suspended"]
      /\ timeout' = [timeout EXCEPT ![t] = to] /\ error' = [error EXCEPT ![t] = "EOK"]
      /\ UNCHANGED <<attached, suspend_sender_thread, value, result>>
  BY DEF SuspendReceiver, Goto, Waits, SuspendedExactlyOnce
<1>1. IpcTypeOK' /\ pc' \in [Thread -> PC]
  BY <1>0 DEF Waits, PC, IpcPC, Error
<1>2. /\ At("recv_suspended")' = At("recv_suspended") \cup {t} /\ t \notin At("recv_suspended")
      /\ At("send_suspended")' = At("send_suspended")
      /\ Holding' = Holding /\ Filling' = Filling
      /\ Woken("send_resumed")' = Woken("send_resumed")
  BY <1>0 DEF At, Holding, Filling, Woken
<1>3. Enumerates(suspend_thread', At("recv_suspended")')
  BY <1>0, <1>2, EnumeratesAppend
<1>4. SuspendedExactlyOnce'
  BY <1>0, <1>2, <1>3 DEF Waits, SuspendedExactlyOnce
<1>5. Calls'
  BY <1>0 DEF Waits, Calls
<1>6. Awake(0, f)'
  <2>1. Cardinality(Woken("recv_resumed")') \in Nat
    BY CardType DEF Woken, At
  <2> QED BY <2>1, <1>0, <1>2 DEF Awake
<1> QED BY <1>1, <1>2, <1>4, <1>5, <1>6 DEF Waits

\* The first receiver of a detached queue is made ready with an error.
LEMMA WaitsDetachRecv ==
  ASSUME Waits, NEW t \in Thread, DetachResumeRecv(t), suspend_thread # <<>>,
         NEW e, NEW f, Awake(e, f)
  PROVE  Waits' /\ Filling' = Filling /\ Holding' = Holding /\ Awake(e, f)'
<1>0. /\ suspend_thread \in Seq(Thread) /\ Enumerates(suspend_thread, At("recv_suspended"))
      /\ pc \in [Thread -> PC] /\ error \in [Thread -> Error]
  BY DEF Waits, SuspendedExactlyOnce
<1>1. PICK w \in Thread : /\ w = Head(suspend_thread) /\ w \in At("recv_suspended")
                          /\ Tail(suspend_thread) \in Seq(Thread)
                          /\ Enumerates(Tail(suspend_thread), At("recv_suspended") \ {w})
  BY <1>0, EnumeratesTail
<1>2. /\ pc[t] = "detach_recv_locked" /\ pc[w] = "recv_suspended"
      /\ suspend_thread' = Tail(suspend_thread)
      /\ pc' = [pc EXCEPT ![t] = "detach_recv", ![w] = "recv_resumed"]
      /\ error' = [error EXCEPT ![w] = "ERROR"]
      /\ UNCHANGED <<attached, suspend_sender_thread, timeout, value, result>>
  BY <1>1 DEF DetachResumeRecv, At
<1>3. IpcTypeOK' /\ pc' \in [Thread -> PC]
  BY <1>0, <1>1, <1>2 DEF Waits, PC, IpcPC, Error
<1>4. /\ At("recv_suspended")' = At("recv_suspended") \ {w}
      /\ At("send_suspended")' = At("send_suspended")
      /\ Holding' = Holding /\ Filling' = Filling
      /\ Woken("recv_resumed")' = Woken("recv_resumed")
      /\ Woken("send_resumed")' = Woken("send_resumed")
  BY <1>0, <1>2 DEF At, Woken, Holding, Filling
<1>5. SuspendedExactlyOnce'
  BY <1>1, <1>2, <1>4 DEF Waits, SuspendedExactlyOnce
<1>6. Calls'
  BY <1>0, <1>2 DEF Waits, Calls
<1>7. Awake(e, f)'
  BY <1>2, <1>4 DEF Awake
<1> QED BY <1>3, <1>4, <1>5, <1>6, <1>7 DEF Waits

\* The first sender of a detached queue is made ready with an error.
LEMMA WaitsDetachSend ==
  ASSUME Waits, NEW t \in Thread, DetachResumeSend(t), suspend_sender_thread # <<>>,
         NEW e, NEW f, Awake(e, f)
  PROVE  Waits' /\ Filling' = Filling /\ Holding' = Holding /\ Awake(e, f)'
<1>0. /\ suspend_sender_thread \in Seq(Thread) /\ Enumerates(suspend_sender_thread, At("send_suspended"))
      /\ pc \in [Thread -> PC] /\ error \in [Thread -> Error]
  BY DEF Waits, SuspendedExactlyOnce
<1>1. PICK w \in Thread : /\ w = Head(suspend_sender_thread) /\ w \in At("send_suspended")
                          /\ Tail(suspend_sender_thread) \in Seq(Thread)
                          /\ Enumerates(Tail(suspend_sender_thread), At("send_suspended") \ {w})
  BY <1>0, EnumeratesTail
<1>2. /\ pc[t] = "detach_send_locked" /\ pc[w] = "send_suspended"
      /\ suspend_sender_thread' = Tail(suspend_sender_thread)
      /\ pc' = [pc EXCEPT ![t] = "detach_send", ![w] = "send_resumed"]
      /\ error' = [error EXCEPT ![w] = "ERROR"]
      /\ UNCHANGED <<attached, suspend_thread, timeout, value, result>>
  BY <1>1 DEF DetachResumeSend, At
<1>3. IpcTypeOK' /\ pc' \in [Thread -> PC]
  BY <1>0, <1>1, <1>2 DEF Waits, PC, IpcPC, Error
<1>4. /\ At("send_suspended")' = At("send_suspended") \ {w}
      /\ At("recv_suspended")' = At("recv_suspended")
      /\ Holding' = Holding /\ Filling' = Filling
      /\ Woken("recv_resumed")' = Woken("recv_resumed")
      /\ Woken("send_resumed")' = Woken("send_resumed")
  BY <1>0, <1>2 DEF At, Woken, Holding, Filling
<1>5. SuspendedExactlyOnce'
  BY <1>1, <1>2, <1>4 DEF Waits, SuspendedExactlyOnce
<1>6. Calls'
  BY <1>0, <1>2 DEF Waits, Calls
<1>7. Awake(e, f)'
  BY <1>2, <1>4 DEF Awake
<1> QED BY <1>3, <1>4, <1>5, <1>6, <1>7 DEF Waits

\* A reset makes every sleeper ready with an error.
LEMMA WaitsResumeAll ==
  ASSUME Waits, NEW t \in Thread, ResumeAll(t)
  PROVE  Waits' /\ Filling' = Filling /\ Holding' = Holding /\ \A e, f : Awake(e, f)'
<1>0. /\ pc \in [Thread -> PC] /\ error \in [Thread -> Error] /\ result \in [Thread -> Result]
      /\ Ok(NoMail) \in Result /\ Ok(NoMail) # Pending
  BY ResultType DEF Waits
<1>1. IpcTypeOK' /\ pc' \in [Thread -> PC]
  BY <1>0 DEF ResumeAll, Waits, PC, IpcPC, Error
<1>2. /\ At("recv_suspended")' = {} /\ At("send_suspended")' = {}
      /\ Holding' = Holding /\ Filling' = Filling
  BY <1>0 DEF ResumeAll, At, Holding, Filling
<1>3. SuspendedExactlyOnce'
  BY <1>2 DEF ResumeAll, SuspendedExactlyOnce, Enumerates
<1>4. Calls'
  BY <1>0 DEF ResumeAll, Waits, Calls
<1>5. ASSUME NEW e, NEW f PROVE Awake(e, f)'
  BY DEF ResumeAll, Awake
<1> QED BY <1>1, <1>2, <1>3, <1>4, <1>5 DEF Waits

\* A thread timer takes its thread off either list.
LEMMA WaitsExpire ==
  ASSUME Waits, NEW t \in Thread, Expire(t), NEW e, NEW f, Awake(e, f)
  PROVE  Waits' /\ Filling' = Filling /\ Holding' = Holding /\ Awake(e, f)'
<1>0. /\ suspend_thread \in Seq(Thread) /\ Enumerates(suspend_thread, At("recv_suspended"))
      /\ suspend_sender_thread \in Seq(Thread) /\ Enumerates(suspend_sender_thread, At("send_suspended"))
      /\ pc \in [Thread -> PC] /\ error \in [Thread -> Error]
      /\ error' = [error EXCEPT ![t] = "ETIMEOUT"]
      /\ UNCHANGED <<attached, timeout, value, result>>
  BY DEF Waits, SuspendedExactlyOnce, Expire
<1>1. ASSUME NEW i \in 1 .. Len(suspend_thread), suspend_thread[i] = t,
             suspend_thread' = Remove(suspend_thread, i), Goto(t, "recv_resumed"),
             UNCHANGED suspend_sender_thread
      PROVE  Waits' /\ Filling' = Filling /\ Holding' = Holding /\ Awake(e, f)'
  <2>1. /\ pc[t] = "recv_suspended" /\ suspend_thread # <<>>
        /\ Remove(suspend_thread, i) \in Seq(Thread)
        /\ Enumerates(Remove(suspend_thread, i), At("recv_suspended") \ {t})
    <3>1. pc[t] = "recv_suspended"
      BY <1>0, <1>1 DEF Enumerates, At
    <3>2. suspend_thread # <<>>
      BY <1>0
    <3> QED BY <1>0, <1>1, <3>1, <3>2, RemoveType, EnumeratesRemove
  <2>2. pc' = [pc EXCEPT ![t] = "recv_resumed"]
    BY <1>1 DEF Goto
  <2>3. IpcTypeOK' /\ pc' \in [Thread -> PC]
    BY <1>0, <1>1, <2>1, <2>2 DEF Waits, PC, IpcPC, Error
  <2>4. /\ At("recv_suspended")' = At("recv_suspended") \ {t}
        /\ At("send_suspended")' = At("send_suspended")
        /\ Holding' = Holding /\ Filling' = Filling
        /\ Woken("recv_resumed")' = Woken("recv_resumed")
        /\ Woken("send_resumed")' = Woken("send_resumed")
    BY <1>0, <2>1, <2>2 DEF At, Woken, Holding, Filling
  <2>5. SuspendedExactlyOnce'
    BY <1>0, <1>1, <2>1, <2>4 DEF SuspendedExactlyOnce
  <2>6. Calls'
    BY <1>0, <2>1, <2>2 DEF Waits, Calls
  <2>7. Awake(e, f)'
    BY <1>1, <2>1, <2>4 DEF Awake
  <2> QED BY <2>3, <2>4, <2>5, <2>6, <2>7 DEF Waits
<1>2. ASSUME NEW i \in 1 .. Len(suspend_sender_thread), suspend_sender_thread[i] = t,
             suspend_sender_thread' = Remove(suspend_sender_thread, i), Goto(t, "send_resumed"),
             UNCHANGED suspend_thread
      PROVE  Waits' /\ Filling' = Filling /\ Holding' = Holding /\ Awake(e, f)'
  <2>1. /\ pc[t] = "send_suspended" /\ suspend_sender_thread # <<>>
        /\ Remove(suspend_sender_thread, i) \in Seq(Thread)
        /\ Enumerates(Remove(suspend_sender_thread, i), At("send_suspended") \ {t})
    <3>1. pc[t] = "send_suspended"
      BY <1>0, <1>2 DEF Enumerates, At
    <3>2. suspend_sender_thread # <<>>
      BY <1>0
    <3> QED BY <1>0, <1>2, <3>1, <3>2, RemoveType, EnumeratesRemove
  <2>2. pc' = [pc EXCEPT ![t] = "send_resumed"]
    BY <1>2 DEF Goto
  <2>3. IpcTypeOK' /\ pc' \in [Thread -> PC]
    BY <1>0, <1>2, <2>1, <2>2 DEF Waits, PC, IpcPC, Error
  <2>4. /\ At("send_suspended")' = At("send_suspended") \ {t}
        /\ At("recv_suspended")' = At("recv_suspended")
        /\ Holding' = Holding /\ Filling' = Filling
        /\ Woken("recv_resumed")' = Woken("recv_resumed")
        /\ Woken("send_resumed")' = Woken("send_resumed")
    BY <1>0, <2>1, <2>2 DEF At, Woken, Holding, Filling
  <2>5. SuspendedExactlyOnce'
    BY <1>0, <1>2, <2>1, <2>4 DEF SuspendedExactlyOnce
  <2>6. Calls'
    BY <1>0, <2>1, <2>2 DEF Waits, Calls
  <2>7. Awake(e, f)'
    BY <1>2, <2>1, <2>4 DEF Awake
  <2> QED BY <2>3, <2>4, <2>5, <2>6, <2>7 DEF Waits
<1> QED BY <1>1, <1>2 DEF Expire, Unlink

-----------------------------------------------------------------------------
(* The slots: each is free, queued or with one thread that copies.         *)

\* F is free, Q is queued, the threads C have the slots m
Held(F, Q, C, m) ==
    /\ F \cap Q = {}
    /\ \A t \in C : m[t] \in Slots /\ m[t] \notin F /\ m[t] \notin Q
    /\ \A t, u \in C : m[t] = m[u] => t = u
    /\ \A s \in Slots : s \in F \/ s \in Q \/ \E t \in C : m[t] = s

\* Free and queued slots are alike in this.
LEMMA HeldSwap ==
  ASSUME NEW F, NEW Q, NEW C, NEW m, Held(F, Q, C, m)
  PROVE  Held(Q, F, C, m)
BY DEF Held

\* A thread takes a slot.
LEMMA HeldTake ==
  ASSUME NEW F \in SUBSET Slots, NEW Q, NEW C \in SUBSET Thread, NEW m, m \in [Thread -> 0 .. max_msgs],
         Held(F, Q, C, m), NEW s \in F, NEW t \in Thread, t \notin C
  PROVE  Held(F \ {s}, Q, C \cup {t}, [m EXCEPT ![t] = s])
<1>1. PICK n : n = [m EXCEPT ![t] = s]
  OBVIOUS
<1>2. n[t] = s /\ \A x \in C : n[x] = m[x]
  BY <1>1
<1>3. ASSUME NEW x \in C \cup {t}
      PROVE  n[x] \in Slots /\ n[x] \notin F \ {s} /\ n[x] \notin Q
  BY <1>2 DEF Held
<1>4. ASSUME NEW x \in C \cup {t}, NEW y \in C \cup {t}, n[x] = n[y] PROVE x = y
  BY <1>2, <1>4 DEF Held
<1>5. ASSUME NEW x \in Slots PROVE x \in F \ {s} \/ x \in Q \/ \E y \in C \cup {t} : n[y] = x
  BY <1>2 DEF Held
<1>6. (F \ {s}) \cap Q = {}
  BY DEF Held
<1>7. Held(F \ {s}, Q, C \cup {t}, n)
  BY <1>3, <1>4, <1>5, <1>6 DEF Held
<1> QED BY <1>1, <1>7

\* A thread gives its slot back.
LEMMA HeldGive ==
  ASSUME NEW F, NEW Q, NEW C \in SUBSET Thread, NEW m, m \in [Thread -> 0 .. max_msgs],
         Held(F, Q, C, m), NEW t \in C
  PROVE  Held(F \cup {m[t]}, Q, C \ {t}, [m EXCEPT ![t] = Null])
<1>1. PICK n : n = [m EXCEPT ![t] = Null]
  OBVIOUS
<1>2. \A x \in C \ {t} : n[x] = m[x]
  BY <1>1
<1>3. ASSUME NEW x \in C \ {t}
      PROVE  n[x] \in Slots /\ n[x] \notin F \cup {m[t]} /\ n[x] \notin Q
  BY <1>2 DEF Held
<1>4. ASSUME NEW x \in C \ {t}, NEW y \in C \ {t}, n[x] = n[y] PROVE x = y
  BY <1>2, <1>4 DEF Held
<1>5. ASSUME NEW x \in Slots PROVE x \in F \cup {m[t]} \/ x \in Q \/ \E y \in C \ {t} : n[y] = x
  BY <1>2 DEF Held
<1>6. (F \cup {m[t]}) \cap Q = {}
  BY DEF Held
<1>7. Held(F \cup {m[t]}, Q, C \ {t}, n)
  BY <1>3, <1>4, <1>5, <1>6 DEF Held
<1> QED BY <1>1, <1>7

\* All queued slots become free.
LEMMA HeldJoin ==
  ASSUME NEW F, NEW Q, NEW C, NEW m, Held(F, Q, C, m)
  PROVE  Held(Q \cup F, {}, C, m)
BY DEF Held

Copies == Filling \cup Holding

Typed == /\ next \in [Slots -> 0 .. max_msgs]
         /\ data \in [Slots -> Mail \cup {NoMail}]
         /\ msg \in [Thread -> 0 .. max_msgs]

\* fr is the free list and q the message list
Layout(fr, q) ==
    /\ Typed
    /\ IsList(next, fr, msg_queue_free)
    /\ IsList(next, q, msg_queue_head)
    /\ entry = Len(q)
    /\ msg_queue_tail = IF q = <<>> THEN Null ELSE q[Len(q)]
    /\ Held(Elems(fr), Elems(q), Copies, msg)
    /\ \A s \in Elems(q) : data[s] \in Mail
    /\ \A t \in Holding : data[msg[t]] \in Mail
    /\ Len(fr) + Len(q) + Cardinality(Filling) + Cardinality(Holding) = max_msgs

\* The threads that copy are threads, and no thread copies both ways.
LEMMA CopySets ==
  /\ Filling \in SUBSET Thread /\ Holding \in SUBSET Thread /\ Copies \in SUBSET Thread
  /\ Cardinality(Filling) \in Nat /\ Cardinality(Holding) \in Nat
  /\ Filling \cap Holding = {}
<1>1. Filling \in SUBSET Thread /\ Holding \in SUBSET Thread /\ Filling \cap Holding = {}
  BY DEF Filling, Holding, At
<1>2. Copies \in SUBSET Thread
  BY <1>1 DEF Copies
<1> QED BY <1>1, <1>2, CardType

\* A sender takes the first free slot.
LEMMA LayoutTakeFree ==
  ASSUME NEW fr, NEW q, Layout(fr, q), NEW t \in Thread, t \notin Copies, msg_queue_free # Null,
         msg' = [msg EXCEPT ![t] = msg_queue_free], msg_queue_free' = next[msg_queue_free],
         UNCHANGED <<next, data, msg_queue_head, msg_queue_tail, entry>>,
         Filling' = Filling \cup {t}, Holding' = Holding
  PROVE  Layout(Tail(fr), q)' /\ Len(fr) # 0 /\ Len(Tail(fr)) = Len(fr) - 1
<1>0. Typed /\ IsList(next, fr, msg_queue_free) /\ IsList(next, q, msg_queue_head)
  BY DEF Layout
<1>1. /\ Len(fr) \in Nat /\ Len(q) \in Nat /\ Len(fr) # 0 /\ msg_queue_free \in Slots
      /\ msg_queue_free \in 0 .. max_msgs
      /\ msg_queue_free \in Elems(fr) /\ Elems(fr) \subseteq Slots
  BY <1>0, ListBegin
<1>2. /\ IsList(next, Tail(fr), next[msg_queue_free]) /\ Len(Tail(fr)) = Len(fr) - 1
      /\ Elems(Tail(fr)) = Elems(fr) \ {msg_queue_free}
  BY <1>0, ListTail
<1>3. Typed'
  BY <1>0, <1>1 DEF Typed
<1>4. Held(Elems(Tail(fr)), Elems(q), Copies', msg')
  <2>1. Copies' = Copies \cup {t}
    BY DEF Copies
  <2>2. /\ Elems(fr) \in SUBSET Slots /\ Copies \in SUBSET Thread
        /\ msg \in [Thread -> 0 .. max_msgs] /\ Held(Elems(fr), Elems(q), Copies, msg)
    BY <1>0, <1>1, CopySets DEF Layout, Typed
  <2>3. Held(Elems(fr) \ {msg_queue_free}, Elems(q), Copies \cup {t}, [msg EXCEPT ![t] = msg_queue_free])
    BY <1>1, <2>2, HeldTake
  <2> QED BY <1>2, <2>1, <2>3
<1>5. \A x \in Holding : msg'[x] = msg[x]
  BY <1>0, CopySets DEF Copies, Typed
<1>6. Len(Tail(fr)) + Len(q) + Cardinality(Filling') + Cardinality(Holding') = max_msgs
  <2>1. Cardinality(Filling') = Cardinality(Filling) + 1
    BY CardAdd, CopySets DEF Copies
  <2>2. PICK a \in Nat, b \in Nat : a = Cardinality(Filling) /\ b = Cardinality(Holding)
    BY CopySets
  <2> QED BY <1>1, <1>2, <2>1, <2>2 DEF Layout
<1> QED BY <1>0, <1>1, <1>2, <1>3, <1>4, <1>5, <1>6 DEF Layout

\* A receiver takes the first message.
LEMMA LayoutTakeMessage ==
  ASSUME NEW fr, NEW q, Layout(fr, q), NEW t \in Thread, t \notin Copies, entry # 0,
         msg' = [msg EXCEPT ![t] = msg_queue_head], msg_queue_head' = next[msg_queue_head],
         msg_queue_tail' = TailAfterTake(msg_queue_head), entry' = entry - 1,
         UNCHANGED <<next, data, msg_queue_free>>,
         Filling' = Filling, Holding' = Holding \cup {t}
  PROVE  Layout(fr, Tail(q))' /\ Len(q) # 0 /\ Len(Tail(q)) = Len(q) - 1
<1>0. Typed /\ IsList(next, fr, msg_queue_free) /\ IsList(next, q, msg_queue_head)
  BY DEF Layout
<1>1. /\ Len(fr) \in Nat /\ Len(q) \in Nat /\ Len(q) # 0 /\ msg_queue_head \in Slots
      /\ msg_queue_head # Null /\ q # <<>>
      /\ msg_queue_head \in 0 .. max_msgs
      /\ msg_queue_head \in Elems(q) /\ Elems(q) \subseteq Slots /\ Elems(fr) \subseteq Slots
  BY <1>0, ListBegin DEF Layout
<1>2. /\ IsList(next, Tail(q), next[msg_queue_head]) /\ Len(Tail(q)) = Len(q) - 1
      /\ Elems(Tail(q)) = Elems(q) \ {msg_queue_head}
      /\ msg_queue_tail' = IF Tail(q) = <<>> THEN Null ELSE Tail(q)[Len(Tail(q))]
  <2>1. msg_queue_tail = q[Len(q)]
    BY <1>1 DEF Layout
  <2> QED BY <1>0, <1>1, <2>1, ListTail DEF TailAfterTake
<1>3. Typed'
  BY <1>0, <1>1 DEF Typed
<1>4. Held(Elems(fr), Elems(Tail(q)), Copies', msg')
  <2>1. Copies' = Copies \cup {t}
    BY DEF Copies
  <2>2. Held(Elems(q), Elems(fr), Copies, msg)
    BY HeldSwap DEF Layout
  <2>3. Held(Elems(Tail(q)), Elems(fr), Copies', msg')
    <3>1. /\ Elems(q) \in SUBSET Slots /\ Copies \in SUBSET Thread
          /\ msg \in [Thread -> 0 .. max_msgs]
      BY <1>0, <1>1, CopySets DEF Typed
    <3>2. Held(Elems(q) \ {msg_queue_head}, Elems(fr), Copies \cup {t}, [msg EXCEPT ![t] = msg_queue_head])
      BY <1>1, <2>2, <3>1, HeldTake
    <3> QED BY <1>2, <2>1, <3>2
  <2> QED BY <2>3, HeldSwap
<1>5. \A x \in Holding' : data'[msg'[x]] \in Mail
  <2>1. msg'[t] = msg_queue_head /\ \A x \in Holding : msg'[x] = msg[x]
    BY <1>0, CopySets DEF Copies, Typed
  <2> QED BY <1>1, <2>1 DEF Layout
<1>6. Len(fr) + Len(Tail(q)) + Cardinality(Filling') + Cardinality(Holding') = max_msgs
  <2>1. Cardinality(Holding') = Cardinality(Holding) + 1
    BY CardAdd, CopySets DEF Copies
  <2>2. PICK a \in Nat, b \in Nat : a = Cardinality(Filling) /\ b = Cardinality(Holding)
    BY CopySets
  <2> QED BY <1>1, <1>2, <2>1, <2>2 DEF Layout
<1>7. \A s \in Elems(Tail(q)) : data'[s] \in Mail
  BY <1>2 DEF Layout
<1>8. entry' = Len(Tail(q))
  BY <1>2 DEF Layout
<1> QED BY <1>0, <1>1, <1>2, <1>3, <1>4, <1>5, <1>6, <1>7, <1>8 DEF Layout

\* What is known of the slot of a thread that copies.
LEMMA CopySlot ==
  ASSUME NEW fr, NEW q, Layout(fr, q), NEW t \in Copies
  PROVE  /\ msg[t] \in Slots /\ msg[t] # Null /\ msg[t] \in 0 .. max_msgs
         /\ msg[t] \notin Elems(fr) /\ msg[t] \notin Elems(q)
         /\ \A x \in Copies : x # t => msg[x] # msg[t]
<1>1. Held(Elems(fr), Elems(q), Copies, msg)
  BY DEF Layout
<1>2. /\ msg[t] \in Slots /\ msg[t] \notin Elems(fr) /\ msg[t] \notin Elems(q)
      /\ \A x \in Copies : x # t => msg[x] # msg[t]
  BY <1>1 DEF Held
<1> QED BY <1>2, SlotAssumption DEF Slots

\* A message is linked, at either end of the message list.
LEMMA LayoutLink ==
  ASSUME NEW fr, NEW q, Layout(fr, q), NEW r, NEW t \in Filling, NEW v \in Mail,
         data' = CopyIn(msg[t], v), msg' = [msg EXCEPT ![t] = Null],
         next' \in [Slots -> 0 .. max_msgs], IsList(next', r, msg_queue_head'),
         \A s \in Elems(fr) : next'[s] = next[s],
         Len(r) = Len(q) + 1, Elems(r) = Elems(q) \cup {msg[t]},
         msg_queue_tail' = r[Len(r)], entry' = entry + 1, UNCHANGED msg_queue_free,
         Filling' = Filling \ {t}, Holding' = Holding
  PROVE  Layout(fr, r)'
<1>0. Typed /\ IsList(next, fr, msg_queue_free) /\ IsList(next, q, msg_queue_head)
  BY DEF Layout
<1>s. t \in Copies /\ t \in Thread /\ t \notin Holding
  BY CopySets DEF Copies
<1>1. /\ msg[t] \in Slots /\ \A x \in Copies : x # t => msg[x] # msg[t]
      /\ msg[t] \notin Elems(q)
  BY <1>s, CopySlot
<1>2. Len(fr) \in Nat /\ Len(q) \in Nat /\ Elems(q) \subseteq Slots
  BY <1>0, ListBegin
<1>3. Typed'
  <2>1. data' \in [Slots -> Mail \cup {NoMail}]
    BY <1>0, <1>1 DEF Typed, CopyIn
  <2>2. msg' \in [Thread -> 0 .. max_msgs]
    <3>1. Null \in 0 .. max_msgs
      BY SlotAssumption
    <3> QED BY <1>0, <1>s, <3>1 DEF Typed
  <2> QED BY <2>1, <2>2 DEF Typed
<1>4. IsList(next', fr, msg_queue_free')
  BY <1>0, ListSame
<1>5. Held(Elems(fr), Elems(r), Copies', msg')
  <2>1. Copies' = Copies \ {t}
    BY <1>s DEF Copies
  <2>2. /\ Copies \in SUBSET Thread /\ msg \in [Thread -> 0 .. max_msgs]
        /\ Held(Elems(q), Elems(fr), Copies, msg)
    BY <1>0, CopySets, HeldSwap DEF Layout, Typed
  <2>3. Held(Elems(q) \cup {msg[t]}, Elems(fr), Copies \ {t}, [msg EXCEPT ![t] = Null])
    BY <1>s, <2>2, HeldGive
  <2> QED BY <2>1, <2>3, HeldSwap
<1>6. ASSUME NEW s \in Elems(r) PROVE data'[s] \in Mail
  <2>1. s = msg[t] => data'[s] = v
    BY <1>0, <1>1 DEF CopyIn, Typed
  <2>2. s # msg[t] => s \in Elems(q) /\ s \in Slots /\ data'[s] = data[s]
    BY <1>0, <1>1, <1>2 DEF CopyIn, Typed
  <2> QED BY <2>1, <2>2 DEF Layout
<1>7. ASSUME NEW x \in Holding PROVE data'[msg'[x]] \in Mail
  <2>1. x # t /\ x \in Copies /\ x \in Thread
    BY <1>s, CopySets DEF Copies
  <2>2. msg'[x] = msg[x] /\ msg[x] # msg[t] /\ msg[x] \in Slots
    BY <2>1, <1>0, <1>1, CopySlot DEF Typed
  <2>3. data'[msg[x]] = data[msg[x]]
    BY <2>2, <1>0, <1>1 DEF CopyIn, Typed
  <2> QED BY <2>2, <2>3 DEF Layout
<1>8. Len(fr) + Len(r) + Cardinality(Filling') + Cardinality(Holding') = max_msgs
  <2>1. Cardinality(Filling') = Cardinality(Filling) - 1
    BY CopySets, CardType, FS_RemoveElement
  <2>2. PICK a \in Nat, b \in Nat : a = Cardinality(Filling) /\ b = Cardinality(Holding)
    BY CopySets
  <2> QED BY <1>2, <2>1, <2>2 DEF Layout
<1>9. r # <<>> /\ entry' = Len(r)
  <2>1. entry' = Len(r)
    BY DEF Layout
  <2>2. r # <<>>
    BY <1>2, ListBegin
  <2> QED BY <2>1, <2>2
<1> QED BY <1>3, <1>4, <1>5, <1>6, <1>7, <1>8, <1>9 DEF Layout

\* rt_mq_send links at the tail.
LEMMA LayoutSend ==
  ASSUME NEW fr, NEW q, Layout(fr, q), NEW t \in Thread, SendLink(t), value[t] \in Mail,
         Filling' = Filling \ {t}, Holding' = Holding
  PROVE  \E r : Layout(fr, r)' /\ Len(r) = Len(q) + 1 /\ r = Behind(q, msg[t])
<1> DEFINE s == msg[t]
<1>0. Typed /\ IsList(next, fr, msg_queue_free) /\ IsList(next, q, msg_queue_head)
  BY DEF Layout
<1>1. t \in Filling /\ t \in Copies
  BY DEF SendLink, Filling, Copies
<1>2. s \in Slots /\ s \in 0 .. max_msgs /\ s # Null /\ s \notin Elems(fr) /\ s \notin Elems(q)
  BY <1>1, CopySlot
<1>3. /\ data' = CopyIn(s, value[t]) /\ msg' = [msg EXCEPT ![t] = Null]
      /\ next' = TailLink(s) /\ msg_queue_tail' = s
      /\ msg_queue_head' = (IF msg_queue_head = Null THEN s ELSE msg_queue_head)
      /\ entry' = entry + 1 /\ UNCHANGED msg_queue_free
  BY DEF SendLink
<1> HIDE DEF s
<1>4. /\ Len(q) \in Nat /\ Elems(q) \subseteq Slots /\ Elems(fr) \subseteq Slots
      /\ q # <<>> => q[Len(q)] \in Elems(q)
  BY <1>0, ListBegin
<1>5. msg_queue_tail = IF q = <<>> THEN Null ELSE q[Len(q)]
  BY DEF Layout
<1>6. /\ next' \in [Slots -> 0 .. max_msgs]
      /\ \A x \in Slots : next'[x] = (IF x = s THEN Null ELSE IF x = msg_queue_tail THEN s ELSE next[x])
  BY <1>0, <1>2, <1>3, SlotAssumption DEF TailLink, Typed
<1>7. \A x \in Elems(fr) : x # s /\ x # msg_queue_tail
  <2>1. Elems(fr) \cap Elems(q) = {}
    BY DEF Layout, Held
  <2>2. \A x \in Slots : x # Null
    BY DEF Slots
  <2> QED BY <2>1, <2>2, <1>2, <1>4, <1>5
<1>8. \A x \in Elems(fr) : next'[x] = next[x]
  BY <1>4, <1>6, <1>7
<1>9. /\ next'[s] = Null
      /\ q # <<>> => next'[q[Len(q)]] = s
      /\ \A x \in Elems(q) : x # q[Len(q)] => next'[x] = next[x]
  <2>1. Elems(q) # {} => q # <<>>
    BY DEF Elems
  <2>2. \A x \in Elems(q) : x \in Slots /\ x # s
    BY <1>2, <1>4
  <2> QED BY <2>1, <2>2, <1>2, <1>4, <1>5, <1>6
<1>10. PICK r : r = Behind(q, s)
  OBVIOUS
<1>11. /\ IsList(next', r, msg_queue_head')
       /\ Len(r) = Len(q) + 1
       /\ r[Len(q) + 1] = s
       /\ Elems(r) = Elems(q) \cup {s}
  <2>1. PICK ny : ny = next'
    OBVIOUS
  <2>2. /\ ny[s] = Null
        /\ q # <<>> => ny[q[Len(q)]] = s
        /\ \A x \in Elems(q) : x # q[Len(q)] => ny[x] = next[x]
    BY <1>9, <2>1
  <2>3. EndLinked(next, ny, q, s)
    BY <2>2 DEF EndLinked
  <2>4. /\ IsList(ny, r, HeadWith(msg_queue_head, s))
        /\ Len(r) = Len(q) + 1 /\ r[Len(q) + 1] = s /\ Elems(r) = Elems(q) \cup {s}
    <3>1. IsList(next, q, msg_queue_head)
      BY <1>0
    <3>2. s \in Slots /\ s \notin Elems(q)
      BY <1>2
    <3>3. IsList(ny, r, HeadWith(msg_queue_head, s))
      BY <3>1, <3>2, <1>10, <2>3, ListAppend, Zenon
    <3>4. q \in Seq(Slots)
      BY <1>0 DEF IsList
    <3>5. Len(r) = Len(q) + 1 /\ r[Len(q) + 1] = s /\ Elems(r) = Elems(q) \cup {s}
      BY <3>2, <3>4, <1>10, BehindIs DEF IsBehind
    <3> QED BY <3>3, <3>4, <3>5
  <2> QED BY <1>3, <2>1, <2>4 DEF HeadWith
<1>12. Layout(fr, r)'
  <2>1. msg_queue_tail' = r[Len(r)]
    BY <1>3, <1>10, <1>11
  <2> QED BY <1>1, <1>3, <1>6, <1>8, <1>10, <1>11, <2>1, LayoutLink DEF s
<1> QED BY <1>10, <1>11, <1>12, Zenon DEF s

\* rt_mq_urgent links at the head.
LEMMA LayoutUrgent ==
  ASSUME NEW fr, NEW q, Layout(fr, q), NEW t \in Thread, UrgentLink(t), value[t] \in Mail,
         Filling' = Filling \ {t}, Holding' = Holding
  PROVE  \E r : Layout(fr, r)' /\ Len(r) = Len(q) + 1 /\ r = InFront(msg[t], q)
<1> DEFINE s == msg[t]
<1>0. Typed /\ IsList(next, fr, msg_queue_free) /\ IsList(next, q, msg_queue_head)
  BY DEF Layout
<1>1. t \in Filling /\ t \in Copies
  BY DEF UrgentLink, Filling, Copies
<1>2. s \in Slots /\ s \in 0 .. max_msgs /\ s # Null /\ s \notin Elems(fr) /\ s \notin Elems(q)
  BY <1>1, CopySlot
<1>3. /\ data' = CopyIn(s, value[t]) /\ msg' = [msg EXCEPT ![t] = Null]
      /\ next' = [next EXCEPT ![s] = msg_queue_head] /\ msg_queue_head' = s
      /\ msg_queue_tail' = (IF msg_queue_tail = Null THEN s ELSE msg_queue_tail)
      /\ entry' = entry + 1 /\ UNCHANGED msg_queue_free
  BY DEF UrgentLink
<1> HIDE DEF s
<1>4. /\ Len(q) \in Nat /\ Elems(q) \subseteq Slots /\ Elems(fr) \subseteq Slots
      /\ q # <<>> => q[Len(q)] \in Elems(q)
      /\ q = <<>> <=> Len(q) = 0
      /\ msg_queue_head \in 0 .. max_msgs
  BY <1>0, ListBegin
<1>5. msg_queue_tail = IF q = <<>> THEN Null ELSE q[Len(q)]
  BY DEF Layout
<1>6. /\ next' \in [Slots -> 0 .. max_msgs] /\ next'[s] = msg_queue_head
      /\ \A x \in Elems(fr) : next'[x] = next[x]
      /\ \A x \in Elems(q) : next'[x] = next[x]
  BY <1>0, <1>2, <1>3, <1>4 DEF Typed
<1>7. PICK r : r = InFront(s, q)
  OBVIOUS
<1>8. /\ IsList(next', r, msg_queue_head') /\ Len(r) = Len(q) + 1 /\ r[1] = s
      /\ \A i \in 1 .. Len(q) : r[i + 1] = q[i]
      /\ Elems(r) = Elems(q) \cup {s}
  <2>1. PICK ny : ny = next'
    OBVIOUS
  <2>2. ny[s] = msg_queue_head /\ \A x \in Elems(q) : ny[x] = next[x]
    BY <1>6, <2>1
  <2>3. /\ IsList(ny, r, s) /\ Len(r) = Len(q) + 1 /\ r[1] = s
        /\ \A i \in 1 .. Len(q) : r[i + 1] = q[i]
        /\ Elems(r) = Elems(q) \cup {s}
    BY <1>0, <1>2, <1>7, <2>2, ListCons
  <2> QED BY <1>3, <2>1, <2>3
<1>9. msg_queue_tail' = r[Len(r)]
  <2>1. CASE q = <<>>
    BY <2>1, <1>3, <1>4, <1>5, <1>8
  <2>2. CASE q # <<>>
    <3>1. Len(q) \in 1 .. Len(q)
      BY <2>2, <1>4
    <3>2. r[Len(q) + 1] = q[Len(q)]
      BY <3>1, <1>8
    <3>3. q[Len(q)] # Null
      BY <2>2, <1>4 DEF Slots
    <3> QED BY <2>2, <3>2, <3>3, <1>3, <1>5, <1>8
  <2> QED BY <2>1, <2>2
<1>10. Layout(fr, r)'
  BY <1>1, <1>3, <1>6, <1>8, <1>9, LayoutLink DEF s
<1> QED BY <1>7, <1>8, <1>10, Zenon DEF s

\* A received slot goes to the front of the free list.
LEMMA LayoutFree ==
  ASSUME NEW fr, NEW q, Layout(fr, q), NEW t \in Thread, RecvFree(t),
         Filling' = Filling, Holding' = Holding \ {t}
  PROVE  \E r : Layout(r, q)' /\ Len(r) = Len(fr) + 1
<1> DEFINE s == msg[t]
<1>0. Typed /\ IsList(next, fr, msg_queue_free) /\ IsList(next, q, msg_queue_head)
  BY DEF Layout
<1>1. t \in Holding /\ t \in Copies /\ t \notin Filling
  BY DEF RecvFree, Filling, Holding, At, Copies
<1>2. /\ s \in Slots /\ s \in 0 .. max_msgs /\ s # Null /\ s \notin Elems(fr) /\ s \notin Elems(q)
      /\ \A x \in Copies : x # t => msg[x] # s
  BY <1>1, CopySlot
<1>3. /\ msg' = [msg EXCEPT ![t] = Null] /\ next' = [next EXCEPT ![s] = msg_queue_free]
      /\ msg_queue_free' = s
      /\ UNCHANGED <<data, msg_queue_head, msg_queue_tail, entry>>
  BY DEF RecvFree
<1> HIDE DEF s
<1>4. /\ Len(q) \in Nat /\ Len(fr) \in Nat /\ Elems(q) \subseteq Slots /\ Elems(fr) \subseteq Slots
      /\ msg_queue_free \in 0 .. max_msgs
  BY <1>0, ListBegin
<1>5. /\ next' \in [Slots -> 0 .. max_msgs] /\ next'[s] = msg_queue_free
      /\ \A x \in Elems(fr) : next'[x] = next[x]
      /\ \A x \in Elems(q) : next'[x] = next[x]
  BY <1>0, <1>2, <1>3, <1>4 DEF Typed
<1>6. PICK r : r = InFront(s, fr)
  OBVIOUS
<1>7. IsList(next', r, msg_queue_free') /\ Len(r) = Len(fr) + 1 /\ Elems(r) = Elems(fr) \cup {s}
  <2>1. PICK ny : ny = next'
    OBVIOUS
  <2>2. ny[s] = msg_queue_free /\ \A x \in Elems(fr) : ny[x] = next[x]
    BY <1>5, <2>1
  <2>3. IsList(ny, r, s) /\ Len(r) = Len(fr) + 1 /\ Elems(r) = Elems(fr) \cup {s}
    BY <1>0, <1>2, <1>6, <2>2, ListCons
  <2> QED BY <1>3, <2>1, <2>3
<1>8. IsList(next', q, msg_queue_head')
  BY <1>0, <1>3, <1>5, ListSame
<1>9. Typed'
  BY <1>0, <1>3, <1>5, SlotAssumption DEF Typed
<1>10. Held(Elems(r), Elems(q), Copies', msg')
  <2>1. Copies' = Copies \ {t}
    BY <1>1 DEF Copies
  <2>2. /\ Copies \in SUBSET Thread /\ msg \in [Thread -> 0 .. max_msgs]
        /\ Held(Elems(fr), Elems(q), Copies, msg)
    BY <1>0, CopySets DEF Layout, Typed
  <2>3. Held(Elems(fr) \cup {s}, Elems(q), Copies \ {t}, [msg EXCEPT ![t] = Null])
    BY <1>1, <2>2, HeldGive DEF s
  <2> QED BY <1>3, <1>7, <2>1, <2>3
<1>11. ASSUME NEW x \in Holding' PROVE data'[msg'[x]] \in Mail
  <2>1. x # t /\ x \in Holding /\ x \in Thread
    BY CopySets
  <2>2. msg'[x] = msg[x]
    BY <2>1, <1>0, <1>3 DEF Typed
  <2> QED BY <2>1, <2>2, <1>3 DEF Layout
<1>12. Len(r) + Len(q) + Cardinality(Filling') + Cardinality(Holding') = max_msgs
  <2>1. Cardinality(Holding') = Cardinality(Holding) - 1
    BY <1>1, CopySets, CardType, FS_RemoveElement
  <2>2. PICK a \in Nat, b \in Nat : a = Cardinality(Filling) /\ b = Cardinality(Holding)
    BY CopySets
  <2> QED BY <1>4, <1>7, <2>1, <2>2 DEF Layout
<1>13. Layout(r, q)'
  BY <1>3, <1>7, <1>8, <1>9, <1>10, <1>11, <1>12 DEF Layout
<1> QED BY <1>7, <1>13, Zenon

\* The message list is what the head pointer leads to.
LEMMA LayoutLinked ==
  ASSUME NEW fr, NEW q, Layout(fr, q)
  PROVE  /\ Linked(msg_queue_head) = q /\ Linked(msg_queue_free) = fr
         /\ q \in Seq(Slots) /\ fr \in Seq(Slots)
         /\ Len(q) \in 0 .. max_msgs /\ Len(fr) \in 0 .. max_msgs
<1>0. IsList(next, fr, msg_queue_free) /\ IsList(next, q, msg_queue_head)
  BY DEF Layout
<1>1. q \in Seq(Slots) /\ fr \in Seq(Slots) /\ Len(q) \in Nat /\ Len(fr) \in Nat
  BY <1>0 DEF IsList
<1>2. PICK a \in Nat, b \in Nat : a = Cardinality(Filling) /\ b = Cardinality(Holding)
  BY CopySets
<1>3. max_msgs \in Nat /\ Len(fr) + Len(q) + a + b = max_msgs
  BY <1>2, SlotAssumption DEF Layout
<1>4. Len(q) <= max_msgs /\ Len(fr) <= max_msgs
  BY <1>1, <1>3
<1>5. Len(q) \in 0 .. max_msgs /\ Len(fr) \in 0 .. max_msgs
  BY <1>1, <1>3, <1>4
<1>6. Linked(msg_queue_head) = q
  BY <1>0, <1>4, LinkedIs
<1>7. Linked(msg_queue_free) = fr
  BY <1>0, <1>4, LinkedIs
<1> QED BY <1>1, <1>5, <1>6, <1>7

\* A reset frees every queued slot.
LEMMA LayoutReset ==
  ASSUME NEW fr, NEW q, Layout(fr, q), NEW t \in Thread, ControlReset(t),
         Filling' = Filling, Holding' = Holding
  PROVE  \E r : Layout(r, <<>>)' /\ Len(r) \in Nat
<1>0. Typed /\ IsList(next, fr, msg_queue_free) /\ IsList(next, q, msg_queue_head)
  BY DEF Layout
<1>1. q = Linked(msg_queue_head) /\ q \in Seq(Slots) /\ Len(q) \in Nat
  BY LayoutLinked
<1>2. /\ next' = [s \in Slots |-> IF \E i \in 1 .. Len(q) : q[i] = s
                                  THEN LET i == CHOOSE j \in 1 .. Len(q) : q[j] = s
                                       IN IF i = 1 THEN msg_queue_free ELSE q[i - 1]
                                  ELSE next[s]]
      /\ msg_queue_free' = (IF q = <<>> THEN msg_queue_free ELSE q[Len(q)])
      /\ msg_queue_head' = Null
      /\ msg_queue_tail' = (IF q = <<>> THEN msg_queue_tail ELSE Null)
      /\ entry' = 0
      /\ UNCHANGED <<data, msg>>
  BY <1>1, Zenon DEF ControlReset
<1>3. /\ Elems(q) \subseteq Slots /\ Elems(fr) \subseteq Slots /\ msg_queue_free \in 0 .. max_msgs
      /\ Len(fr) \in Nat
  BY <1>0, ListBegin
<1>4. Elems(q) \cap Elems(fr) = {}
  BY DEF Layout, Held
<1>5. ASSUME NEW i \in 1 .. Len(q)
      PROVE  next'[q[i]] = IF i = 1 THEN msg_queue_free ELSE q[i - 1]
  <2>1. q[i] \in Slots
    BY <1>1
  <2>2. i = CHOOSE j \in 1 .. Len(q) : q[j] = q[i]
    BY <1>0 DEF IsList
  <2> QED BY <1>2, <2>1, <2>2
<1>6. \A x \in Slots : x \notin Elems(q) => next'[x] = next[x]
  BY <1>2 DEF Elems
<1>7. next' \in [Slots -> 0 .. max_msgs]
  <2>1. ASSUME NEW x \in Slots PROVE next'[x] \in 0 .. max_msgs
    <3>1. CASE x \notin Elems(q)
      BY <3>1, <1>0, <1>6 DEF Typed
    <3>2. CASE x \in Elems(q)
      <4>1. PICK i \in 1 .. Len(q) : x = q[i]
        BY <3>2 DEF Elems
      <4>2. i # 1 => i - 1 \in 1 .. Len(q)
        BY <1>1
      <4>3. i # 1 => q[i - 1] \in Slots
        BY <4>2, <1>1
      <4>4. \A s \in Slots : s \in 0 .. max_msgs
        BY SlotAssumption DEF Slots
      <4> QED BY <4>1, <4>3, <4>4, <1>3, <1>5
    <3> QED BY <3>1, <3>2
  <2>2. next' = [x \in Slots |-> next'[x]]
    BY <1>2, Zenon
  <2> QED BY <2>1, <2>2
<1>8. PICK r : r = Joined(q, fr)
  OBVIOUS
<1>9. IsList(next', r, msg_queue_free') /\ Len(r) = Len(q) + Len(fr) /\ Elems(r) = Elems(q) \cup Elems(fr)
  <2>1. PICK ny : ny = next'
    OBVIOUS
  <2>2. /\ \A i \in 1 .. Len(q) : ny[q[i]] = IF i = 1 THEN msg_queue_free ELSE q[i - 1]
        /\ \A x \in Elems(fr) : ny[x] = next[x]
    BY <1>3, <1>4, <1>5, <1>6, <2>1
  <2>3. /\ IsList(ny, Joined(q, fr), IF q = <<>> THEN msg_queue_free ELSE q[Len(q)])
        /\ Len(Joined(q, fr)) = Len(q) + Len(fr)
        /\ Elems(Joined(q, fr)) = Elems(q) \cup Elems(fr)
    BY <1>0, <1>4, <2>2, ListJoin
  <2> QED BY <1>2, <1>8, <2>1, <2>3
<1>10. IsList(next', <<>>, msg_queue_head') /\ Elems(<<>>) = {} /\ Len(<<>>) = 0
  BY <1>2 DEF IsList, Elems
<1>11. Typed'
  BY <1>0, <1>2, <1>7 DEF Typed
<1>12. Held(Elems(r), Elems(<<>>), Copies', msg')
  <2>1. Copies' = Copies
    BY DEF Copies
  <2>2. Held(Elems(q) \cup Elems(fr), {}, Copies, msg)
    BY HeldJoin DEF Layout
  <2> QED BY <1>2, <1>9, <1>10, <2>1, <2>2
<1>13. \A x \in Holding' : data'[msg'[x]] \in Mail
  BY <1>2 DEF Layout
<1>14. Len(r) + Len(<<>>) + Cardinality(Filling') + Cardinality(Holding') = max_msgs
  <2>1. PICK a \in Nat, b \in Nat : a = Cardinality(Filling) /\ b = Cardinality(Holding)
    BY CopySets
  <2> QED BY <1>1, <1>3, <1>9, <1>10, <2>1 DEF Layout
<1>15. msg_queue_tail' = Null
  BY <1>2 DEF Layout
<1>16. Layout(r, <<>>)'
  BY <1>2, <1>9, <1>10, <1>11, <1>12, <1>13, <1>14, <1>15 DEF Layout
<1>17. Len(r) \in Nat
  BY <1>1, <1>3, <1>9
<1> QED BY <1>16, <1>17, Zenon

\* A step that leaves the pool alone, and nobody begins or ends a copy.
LEMMA LayoutKept ==
  ASSUME NEW fr, NEW q, Layout(fr, q), UNCHANGED pool, Filling' = Filling, Holding' = Holding
  PROVE  Layout(fr, q)'
<1>1. UNCHANGED <<next, data, msg_queue_head, msg_queue_tail, msg_queue_free, entry, msg>>
  BY DEF pool
<1>2. Copies' = Copies
  BY DEF Copies
<1> QED BY <1>1, <1>2 DEF Layout, Typed

\* The pool rt_mq_init leaves: one free list, slot max_msgs first.
LEMMA LayoutInit ==
  ASSUME Init
  PROVE  \E fr : Layout(fr, <<>>) /\ Len(fr) = max_msgs
<1>0. max_msgs \in Nat /\ max_msgs # 0
  BY SlotAssumption
<1>1. /\ next = [s \in Slots |-> s - 1] /\ data = [s \in Slots |-> NoMail]
      /\ msg_queue_head = Null /\ msg_queue_tail = Null /\ msg_queue_free = max_msgs
      /\ entry = 0 /\ msg = [t \in Thread |-> Null] /\ pc = [t \in Thread |-> "idle"]
  BY DEF Init, IpcInit, FreeNext
<1>2. Filling = {} /\ Holding = {} /\ Copies = {}
  BY <1>1 DEF Filling, Holding, At, Copies
<1>3. PICK fr : fr = [i \in 1 .. max_msgs |-> max_msgs + 1 - i]
  OBVIOUS
<1>4. \A i \in 1 .. max_msgs : fr[i] = max_msgs + 1 - i /\ max_msgs + 1 - i \in Slots
  BY <1>0, <1>3 DEF Slots
<1>5. fr \in Seq(Slots) /\ Len(fr) = max_msgs
  <2>1. fr \in [1 .. max_msgs -> Slots]
    BY <1>3, <1>4
  <2> QED BY <1>0, <2>1
<1>6. ASSUME NEW i \in 1 .. Len(fr) PROVE next[fr[i]] = IF i = Len(fr) THEN Null ELSE fr[i + 1]
  <2>1. next[fr[i]] = max_msgs + 1 - i - 1
    BY <1>1, <1>4, <1>5
  <2>2. i # Len(fr) => fr[i + 1] = max_msgs + 1 - (i + 1)
    BY <1>0, <1>4, <1>5
  <2>3. i = Len(fr) => max_msgs + 1 - i - 1 = 0
    BY <1>0, <1>5
  <2> QED BY <1>0, <1>5, <2>1, <2>2, <2>3
<1>7. IsList(next, fr, msg_queue_free)
  <2>1. fr # <<>> /\ fr[1] = max_msgs
    BY <1>0, <1>4, <1>5
  <2>2. \A i, j \in 1 .. Len(fr) : fr[i] = fr[j] => i = j
    BY <1>0, <1>4, <1>5
  <2> QED BY <1>1, <1>5, <1>6, <2>1, <2>2 DEF IsList
<1>8. IsList(next, <<>>, msg_queue_head) /\ Elems(<<>>) = {} /\ Len(<<>>) = 0
  BY <1>1 DEF IsList, Elems
<1>9. Typed
  BY <1>0, <1>1 DEF Typed, Slots
<1>10. \A s \in Slots : s \in Elems(fr)
  <2>1. ASSUME NEW s \in Slots PROVE max_msgs + 1 - s \in 1 .. max_msgs /\ max_msgs + 1 - (max_msgs + 1 - s) = s
    BY <1>0 DEF Slots
  <2>2. ASSUME NEW s \in Slots PROVE fr[max_msgs + 1 - s] = s
    BY <1>4, <2>1
  <2> QED BY <1>5, <2>1, <2>2 DEF Elems
<1>11. Held(Elems(fr), Elems(<<>>), Copies, msg)
  BY <1>2, <1>8, <1>10 DEF Held
<1>12. Cardinality(Filling) = 0 /\ Cardinality(Holding) = 0
  BY <1>2, FS_EmptySet
<1>13. Layout(fr, <<>>)
  BY <1>0, <1>1, <1>2, <1>5, <1>7, <1>8, <1>9, <1>11, <1>12 DEF Layout
<1> QED BY <1>5, <1>13, Zenon

-----------------------------------------------------------------------------
(* The queue: the steps of the specification, one by one.                  *)

\* the queue with its threads, when fr is the free list and q the message list
Good(fr, q) == Waits /\ Layout(fr, q) /\ Awake(Len(q), Len(fr))

QInv == \E fr, q : Good(fr, q)

\* Lengths, and who does not copy.
LEMMA GoodFacts ==
  ASSUME NEW fr, NEW q, Good(fr, q)
  PROVE  /\ Len(fr) \in Nat /\ Len(q) \in Nat
         /\ msg_queue_free = Null <=> Len(fr) = 0
         /\ entry = Len(q)
<1>1. IsList(next, fr, msg_queue_free) /\ IsList(next, q, msg_queue_head) /\ entry = Len(q)
  BY DEF Good, Layout
<1> QED BY <1>1, ListBegin

\* A call is entered.
LEMMA GoodEnter ==
  ASSUME NEW fr, NEW q, Good(fr, q), NEW t \in Thread, Start(t)
  PROVE  Good(fr, q)'
<1>1. UNCHANGED pool
  BY DEF Start, SendCall, RecvCall, UrgentCall
<1>2. \E v \in Mail \cup {NoMail}, to \in Timeout,
         p \in {"send", "urgent", "recv", "detach_recv", "control", "assert_type"} :
           (p \in {"send", "urgent"} => v \in Mail) /\ Enter(t, p, v, to)
  <2>0. 0 \in Timeout
    BY TimeAssumption
  <2>1. ASSUME NEW to \in Timeout, NEW v \in Mail, SendCall(t, v, to)
        PROVE  Enter(t, "send", v, to)
    BY <2>1 DEF SendCall, Call
  <2>2. ASSUME NEW to \in Timeout, RecvCall(t, to)
        PROVE  Enter(t, "recv", NoMail, to)
    BY <2>2 DEF RecvCall, Call
  <2>3. ASSUME NEW v \in Mail, UrgentCall(t, v)
        PROVE  Enter(t, "urgent", v, 0)
    BY <2>3 DEF UrgentCall, Call
  <2>4. ASSUME DetachCall(t) PROVE Enter(t, "detach_recv", NoMail, 0)
    BY <2>4 DEF DetachCall, Call
  <2>5. ASSUME ControlCall(t) PROVE Enter(t, "control", NoMail, 0)
    BY <2>5 DEF ControlCall, Call
  <2>6. ASSUME AssertType(t) PROVE Enter(t, "assert_type", NoMail, 0)
    BY <2>6 DEF AssertType
  <2> QED BY <2>0, <2>1, <2>2, <2>3, <2>4, <2>5, <2>6, Zenon DEF Start
<1>3. PICK v \in Mail \cup {NoMail}, to \in Timeout,
           p \in {"send", "urgent", "recv", "detach_recv", "control", "assert_type"} :
             (p \in {"send", "urgent"} => v \in Mail) /\ Enter(t, p, v, to)
  BY <1>2
<1>4. Waits' /\ Filling' = Filling /\ Holding' = Holding /\ Awake(Len(q), Len(fr))'
  BY <1>3, WaitsEnter DEF Good
<1>5. Layout(fr, q)'
  BY <1>1, <1>4, LayoutKept DEF Good
<1> QED BY <1>4, <1>5 DEF Good

\* A thread that neither sleeps nor copies returns, or goes on without a slot,
\* and nothing was spoken for by it.
LEMMA GoodLeave ==
  ASSUME NEW fr, NEW q, Good(fr, q), NEW t \in Thread, t \notin Copies, UNCHANGED <<pool, lists>>,
         Waits', Left(t), Filling' = Filling \ {t}, Holding' = Holding \ {t},
         t \in Woken("send_resumed") => Len(fr) = 0, t \in Woken("recv_resumed") => Len(q) = 0
  PROVE  Good(fr, q)'
<1>1. Filling' = Filling /\ Holding' = Holding
  BY DEF Copies
<1>2. Layout(fr, q)'
  BY <1>1, LayoutKept DEF Good
<1>3. t \notin Woken("send_resumed") \/ t \notin Woken("recv_resumed")
  BY DEF Woken, At
<1>4. Len(q) \in Nat /\ Len(fr) \in Nat /\ Awake(Len(q), Len(fr)) /\ UNCHANGED lists
  BY GoodFacts DEF Good
<1>5. PICK e \in Nat, f \in Nat : e = Len(q) /\ f = Len(fr)
  BY <1>4
<1>6. Awake(e, f)'
  <2>1. Awake(e, f)
    BY <1>4, <1>5
  <2> QED BY <1>3, <1>4, <1>5, <2>1, AwakeLeft
<1> QED BY <1>2, <1>5, <1>6 DEF Good

\* A call returns without having touched the pool or the lists.
LEMMA GoodReturn ==
  ASSUME NEW fr, NEW q, Good(fr, q), NEW t \in Thread, t \notin Copies, UNCHANGED pool,
         pc[t] \notin {"recv_suspended", "send_suspended"},
         NEW r \in Result, r # Pending, Return(t, r),
         t \in Woken("send_resumed") => Len(fr) = 0, t \in Woken("recv_resumed") => Len(q) = 0
  PROVE  Good(fr, q)'
<1>1. ReturnWaking(t, r, {}, "idle") /\ UNCHANGED <<attached, lists>>
  BY DEF Return
<1>2. attached' \in BOOLEAN
  BY <1>1 DEF Good, Waits
<1>3. Waits' /\ Left(t) /\ Filling' = Filling \ {t} /\ Holding' = Holding \ {t}
  BY <1>1, <1>2, WaitsReturn DEF Good
<1> QED BY <1>1, <1>3, GoodLeave

\* A sender takes a free slot.
LEMMA GoodTakeFree ==
  ASSUME NEW fr, NEW q, Good(fr, q), NEW t \in Thread, NEW p \in {"send_copy", "urgent_copy"},
         pc[t] \in {"send", "send_resumed", "urgent"}, TakeFree(t, p)
  PROVE  Good(Tail(fr), q)' /\ Len(fr) # 0
<1>1. /\ t \notin Copies /\ value[t] \in Mail /\ t \notin Woken("recv_resumed")
  BY DEF Copies, Filling, Holding, At, Woken, Good, Waits, Calls
<1>2. /\ msg_queue_free # Null /\ msg' = [msg EXCEPT ![t] = msg_queue_free]
      /\ msg_queue_free' = next[msg_queue_free] /\ Goto(t, p)
      /\ UNCHANGED <<next, data, msg_queue_head, msg_queue_tail, entry>>
      /\ UNCHANGED <<attached, lists, timeout, error, value, result>>
  BY DEF TakeFree
<1>3. Waits' /\ Left(t) /\ Filling' = Filling \cup {t} /\ Holding' = Holding
  <2>1. /\ Waits' /\ Left(t)
        /\ Filling' = (IF p \in {"send_copy", "urgent_copy"} THEN Filling \cup {t} ELSE Filling \ {t})
        /\ Holding' = (IF p = "recv_copy" THEN Holding \cup {t} ELSE Holding \ {t})
    BY <1>1, <1>2, WaitsGoto DEF Good
  <2> QED BY <2>1, <1>1 DEF Copies
<1>4. Layout(Tail(fr), q)' /\ Len(fr) # 0 /\ Len(Tail(fr)) = Len(fr) - 1
  BY <1>1, <1>2, <1>3, LayoutTakeFree DEF Good
<1>5. Awake(Len(q), Len(fr) - 1)'
  <2>1. Len(q) \in Nat /\ Len(fr) \in Nat /\ Awake(Len(q), Len(fr)) /\ UNCHANGED lists
    BY <1>2, GoodFacts DEF Good
  <2>2. PICK e \in Nat, f \in Nat : e = Len(q) /\ f = Len(fr)
    BY <2>1
  <2>3. Awake(e, f - 1)'
    BY <1>1, <1>3, <1>4, <2>1, <2>2, AwakeLeft
  <2> QED BY <2>2, <2>3
<1> QED BY <1>3, <1>4, <1>5 DEF Good

\* A sender is refused or sleeps while no slot is free.
LEMMA GoodNoSlot ==
  ASSUME NEW fr, NEW q, Good(fr, q), NEW t \in Thread, NEW to \in Timeout,
         pc[t] \in {"send", "send_resumed", "urgent"},
         SendRefuse(t, to) \/ (pc[t] # "urgent" /\ SendSuspend(t, to))
  PROVE  Good(fr, q)' /\ Len(fr) = 0
<1>1. t \notin Copies /\ t \notin Woken("recv_resumed")
  BY DEF Copies, Filling, Holding, At, Woken
<1>2. Len(fr) = 0 /\ UNCHANGED pool
  BY GoodFacts DEF SendRefuse, SendSuspend
<1>3. CASE SendRefuse(t, to)
  BY <1>1, <1>2, <1>3, ResultType, GoodReturn DEF SendRefuse
<1>4. CASE pc[t] # "urgent" /\ SendSuspend(t, to)
  <2>1. Awake(Len(q), 0)
    BY <1>2 DEF Good
  <2>2. Waits' /\ Filling' = Filling /\ Holding' = Holding /\ Awake(Len(q), 0)'
    BY <1>4, <2>1, WaitsSuspendSender DEF SendSuspend, Good
  <2>3. Layout(fr, q)'
    BY <1>2, <2>2, LayoutKept DEF Good
  <2> QED BY <1>2, <2>2, <2>3 DEF Good
<1> QED BY <1>2, <1>3, <1>4

\* A receiver takes the first message.
LEMMA GoodTakeMessage ==
  ASSUME NEW fr, NEW q, Good(fr, q), NEW t \in Thread,
         pc[t] \in {"recv", "recv_resumed"}, RecvTake(t)
  PROVE  Good(fr, Tail(q))' /\ Len(q) # 0
<1>1. t \notin Copies /\ t \notin Woken("send_resumed")
  BY DEF Copies, Filling, Holding, At, Woken
<1>2. /\ entry # 0 /\ msg' = [msg EXCEPT ![t] = msg_queue_head]
      /\ msg_queue_head' = next[msg_queue_head] /\ msg_queue_tail' = TailAfterTake(msg_queue_head)
      /\ entry' = entry - 1 /\ Goto(t, "recv_copy")
      /\ UNCHANGED <<next, data, msg_queue_free>>
      /\ UNCHANGED <<attached, lists, timeout, error, value, result>>
  BY DEF RecvTake, FreeAfterTake
<1>3. Waits' /\ Left(t) /\ Filling' = Filling /\ Holding' = Holding \cup {t}
  <2> DEFINE p == "recv_copy"
  <2>1. /\ Waits' /\ Left(t)
        /\ Filling' = (IF p \in {"send_copy", "urgent_copy"} THEN Filling \cup {t} ELSE Filling \ {t})
        /\ Holding' = (IF p = "recv_copy" THEN Holding \cup {t} ELSE Holding \ {t})
    BY <1>1, <1>2, WaitsGoto DEF Good
  <2> QED BY <2>1, <1>1 DEF Copies
<1>4. Layout(fr, Tail(q))' /\ Len(q) # 0 /\ Len(Tail(q)) = Len(q) - 1
  BY <1>1, <1>2, <1>3, LayoutTakeMessage DEF Good
<1>5. Awake(Len(q) - 1, Len(fr))'
  <2>1. Len(q) \in Nat /\ Len(fr) \in Nat /\ Awake(Len(q), Len(fr)) /\ UNCHANGED lists
    BY <1>2, GoodFacts DEF Good
  <2>2. PICK e \in Nat, f \in Nat : e = Len(q) /\ f = Len(fr)
    BY <2>1
  <2>3. Awake(e - 1, f)'
    BY <1>1, <1>3, <1>4, <2>1, <2>2, AwakeLeft
  <2> QED BY <2>2, <2>3
<1> QED BY <1>3, <1>4, <1>5 DEF Good

\* A receiver is refused or sleeps while no message is queued.
LEMMA GoodNoMessage ==
  ASSUME NEW fr, NEW q, Good(fr, q), NEW t \in Thread, NEW to \in Timeout,
         pc[t] \in {"recv", "recv_resumed"}, RecvRefuse(t, to) \/ RecvSuspend(t, to)
  PROVE  Good(fr, q)'
<1>1. t \notin Copies /\ t \notin Woken("send_resumed")
  BY DEF Copies, Filling, Holding, At, Woken
<1>2. Len(q) = 0 /\ UNCHANGED pool
  BY GoodFacts DEF RecvRefuse, RecvSuspend
<1>3. CASE RecvRefuse(t, to)
  BY <1>1, <1>2, <1>3, ResultType, GoodReturn DEF RecvRefuse
<1>4. CASE RecvSuspend(t, to)
  <2>1. Awake(0, Len(fr))
    BY <1>2 DEF Good
  <2>2. Waits' /\ Filling' = Filling /\ Holding' = Holding /\ Awake(0, Len(fr))'
    BY <1>4, <2>1, WaitsSuspendReceiver DEF RecvSuspend, Good
  <2>3. Layout(fr, q)'
    BY <1>2, <2>2, LayoutKept DEF Good
  <2> QED BY <1>2, <2>2, <2>3 DEF Good
<1> QED BY <1>3, <1>4

\* A message is linked at the tail or, an urgent one, at the head.
LEMMA GoodLink ==
  ASSUME NEW fr, NEW q, Good(fr, q), NEW t \in Thread, SendLink(t) \/ UrgentLink(t)
  PROVE  \E r : Good(fr, r)' /\ r = (IF SendLink(t) THEN Behind(q, msg[t]) ELSE InFront(msg[t], q))
<1>1. /\ pc[t] \in {"send_copy", "urgent_copy"} /\ ReturnToReceiver(t, Ok(value[t]))
      /\ value[t] \in Mail
  BY DEF SendLink, UrgentLink, Good, Waits, Calls
<1>2. Len(q) \in Nat /\ Awake(Len(q), Len(fr)) /\ Waits /\ Layout(fr, q)
  BY GoodFacts DEF Good
<1>3. Waits' /\ Filling' = Filling \ {t} /\ Holding' = Holding /\ Awake(Len(q) + 1, Len(fr))'
  <2>1. Ok(value[t]) \in Result /\ Ok(value[t]) # Pending
    BY <1>1, ResultType
  <2> QED BY <1>1, <1>2, <2>1, WaitsToReceiver
<1>4. CASE SendLink(t)
  <2>1. PICK r : Layout(fr, r)' /\ Len(r) = Len(q) + 1 /\ r = Behind(q, msg[t])
    BY <1>1, <1>2, <1>3, <1>4, LayoutSend
  <2>2. Good(fr, r)'
    BY <1>3, <2>1 DEF Good
  <2> QED BY <1>4, <2>1, <2>2, Zenon
<1>5. CASE ~ SendLink(t)
  <2>1. PICK r : Layout(fr, r)' /\ Len(r) = Len(q) + 1 /\ r = InFront(msg[t], q)
    BY <1>1, <1>2, <1>3, <1>5, LayoutUrgent
  <2>2. Good(fr, r)'
    BY <1>3, <2>1 DEF Good
  <2> QED BY <1>5, <2>1, <2>2, Zenon
<1> QED BY <1>4, <1>5

\* A received slot is freed.
LEMMA GoodFree ==
  ASSUME NEW fr, NEW q, Good(fr, q), NEW t \in Thread, RecvFree(t)
  PROVE  \E r : Good(r, q)'
<1>1. /\ pc[t] = "recv_copy" /\ ReturnToSender(t, Ok(data[msg[t]]))
      /\ data[msg[t]] \in Mail
  BY DEF RecvFree, Good, Layout, Holding, At
<1>2. Len(fr) \in Nat /\ Awake(Len(q), Len(fr)) /\ Waits /\ Layout(fr, q)
  BY GoodFacts DEF Good
<1>3. Waits' /\ Filling' = Filling /\ Holding' = Holding \ {t} /\ Awake(Len(q), Len(fr) + 1)'
  <2>1. Ok(data[msg[t]]) \in Result /\ Ok(data[msg[t]]) # Pending
    BY <1>1, ResultType
  <2> QED BY <1>1, <1>2, <2>1, WaitsToSender
<1>4. PICK r : Layout(r, q)' /\ Len(r) = Len(fr) + 1
  BY <1>2, <1>3, LayoutFree
<1>5. Good(r, q)'
  BY <1>3, <1>4 DEF Good
<1> QED BY <1>5, Zenon

\* A reset frees every queued slot and wakes everybody.
LEMMA GoodReset ==
  ASSUME NEW fr, NEW q, Good(fr, q), NEW t \in Thread, ControlReset(t)
  PROVE  \E r : Good(r, <<>>)'
<1>1. Waits' /\ Filling' = Filling /\ Holding' = Holding /\ \A e, f : Awake(e, f)'
  BY WaitsResumeAll DEF Good, ControlReset
<1>2. PICK r : Layout(r, <<>>)' /\ Len(r) \in Nat
  BY <1>1, LayoutReset DEF Good
<1>3. Awake(Len(<<>>), Len(r))'
  BY <1>1, Zenon
<1>4. Good(r, <<>>)'
  BY <1>1, <1>2, <1>3 DEF Good
<1> QED BY <1>4, Zenon

\* A call goes on, or a timer fires, without touching the pool.
LEMMA GoodContinue ==
  ASSUME NEW fr, NEW q, Good(fr, q), NEW t \in Thread, UNCHANGED pool,
         IpcContinue(t) \/ Expire(t)
  PROVE  Good(fr, q)'
<1>0. Waits /\ Layout(fr, q) /\ Awake(Len(q), Len(fr)) /\ error \in [Thread -> Error]
      /\ attached \in BOOLEAN
  BY DEF Good, Waits
<1>1. ASSUME Waits' /\ Filling' = Filling /\ Holding' = Holding /\ Awake(Len(q), Len(fr))'
      PROVE  Good(fr, q)'
  BY <1>0, <1>1, LayoutKept DEF Good
<1>2. CASE SendFailed(t) \/ RecvFailed(t)
  <2>1. /\ pc[t] \in {"send_resumed", "recv_resumed"} /\ error[t] \in {"ETIMEOUT", "ERROR"}
        /\ Return(t, Failed(error[t]))
    BY <1>0, <1>2 DEF SendFailed, RecvFailed, Error
  <2>2. t \notin Copies /\ t \notin Woken("send_resumed") /\ t \notin Woken("recv_resumed")
    BY <2>1 DEF Copies, Filling, Holding, At, Woken
  <2>3. Failed(error[t]) \in Result /\ Failed(error[t]) # Pending
    BY <2>1, ResultType
  <2> QED BY <2>1, <2>2, <2>3, GoodReturn
<1>3. ASSUME NEW p \in {"detach_recv_locked", "detach_send", "detach_send_locked", "assert_thread"},
             pc[t] \in {"detach_recv", "detach_recv_locked", "detach_send", "detach_send_locked"},
             Goto(t, p), UNCHANGED <<attached, lists, timeout, error, value, result>>
      PROVE  Good(fr, q)'
  <2>1. t \notin Copies /\ t \notin Woken("send_resumed") /\ t \notin Woken("recv_resumed")
    BY <1>3 DEF Copies, Filling, Holding, At, Woken
  <2>2. Waits' /\ Left(t) /\ Filling' = Filling \ {t} /\ Holding' = Holding \ {t}
    BY <1>0, <1>3, WaitsGoto
  <2> QED BY <1>3, <2>1, <2>2, GoodLeave
<1>4. CASE DetachTestRecv(t)
  BY <1>4, <1>3 DEF DetachTestRecv
<1>5. CASE DetachTestSend(t)
  BY <1>5, <1>3 DEF DetachTestSend
<1>6. CASE DetachResumeRecv(t)
  <2>1. CASE suspend_thread = <<>>
    <3>1. Goto(t, "assert_thread") /\ UNCHANGED <<attached, lists, timeout, error, value, result>>
          /\ pc[t] = "detach_recv_locked"
      BY <1>6, <2>1 DEF DetachResumeRecv, lists
    <3> QED BY <3>1, <1>3
  <2>2. CASE suspend_thread # <<>>
    BY <1>0, <1>1, <1>6, <2>2, WaitsDetachRecv
  <2> QED BY <2>1, <2>2
<1>7. CASE DetachResumeSend(t)
  <2>1. CASE suspend_sender_thread = <<>>
    <3>1. Goto(t, "assert_thread") /\ UNCHANGED <<attached, lists, timeout, error, value, result>>
          /\ pc[t] = "detach_send_locked"
      BY <1>7, <2>1 DEF DetachResumeSend, lists
    <3> QED BY <3>1, <1>3
  <2>2. CASE suspend_sender_thread # <<>>
    BY <1>0, <1>1, <1>7, <2>2, WaitsDetachSend
  <2> QED BY <2>1, <2>2
<1>8. CASE DetachObject(t)
  <2>1. /\ pc[t] = "detach_send" /\ attached' \in BOOLEAN /\ UNCHANGED lists
        /\ ReturnWaking(t, Ok(NoMail), {}, "idle")
        /\ Ok(NoMail) \in Result /\ Ok(NoMail) # Pending
    BY <1>8, ResultType DEF DetachObject
  <2>2. t \notin Copies /\ t \notin Woken("send_resumed") /\ t \notin Woken("recv_resumed")
    BY <2>1 DEF Copies, Filling, Holding, At, Woken
  <2>3. Waits' /\ Left(t) /\ Filling' = Filling \ {t} /\ Holding' = Holding \ {t}
    BY <1>0, <2>1, WaitsReturn
  <2> QED BY <2>1, <2>2, <2>3, GoodLeave
<1>9. CASE Expire(t)
  BY <1>0, <1>1, <1>9, WaitsExpire
<1> QED BY <1>2, <1>4, <1>5, <1>6, <1>7, <1>8, <1>9 DEF IpcContinue

\* The ticks left are a timeout.
LEMMA RemainingTicks ==
  ASSUME timeout \in [Thread -> Timeout], NEW t \in Thread
  PROVE  Remaining(t) \subseteq Timeout
<1>1. timeout[t] \in Int /\ -1 <= timeout[t] /\ timeout[t] <= MaxTimeout /\ MaxTimeout \in Nat
  BY TimeAssumption
<1> QED BY <1>1 DEF Remaining

\* The sections of a send and of a receive, as first tried and as tried again.
LEMMA TryCases ==
  ASSUME NEW fr, NEW q, Good(fr, q), NEW t \in Thread
  PROVE  /\ SendFirst(t) \/ SendAgain(t) \/ UrgentTake(t) =>
              /\ pc[t] \in {"send", "send_resumed", "urgent"}
              /\ \/ \E p \in {"send_copy", "urgent_copy"} :
                      TakeFree(t, p) /\ (p = "urgent_copy" <=> pc[t] = "urgent")
                 \/ \E to \in Timeout : SendRefuse(t, to) \/ (pc[t] # "urgent" /\ SendSuspend(t, to))
         /\ RecvFirst(t) \/ RecvAgain(t) =>
              /\ pc[t] \in {"recv", "recv_resumed"}
              /\ RecvTake(t) \/ \E to \in Timeout : RecvRefuse(t, to) \/ RecvSuspend(t, to)
<1>0. timeout[t] \in Timeout /\ Remaining(t) \subseteq Timeout /\ 0 \in Timeout
  BY RemainingTicks, TimeAssumption DEF Good, Waits
<1> USE <1>0
<1> HIDE DEF Timeout
<1>1. SendFirst(t) => \E to \in Timeout : pc[t] = "send" /\ SendTry(t, to)
  BY DEF SendFirst
<1>2. SendAgain(t) => \E to \in Timeout : pc[t] = "send_resumed" /\ SendTry(t, to)
  BY DEF SendAgain
<1>3. UrgentTake(t) => pc[t] = "urgent" /\ (TakeFree(t, "urgent_copy") \/ SendRefuse(t, 0))
  BY DEF UrgentTake
<1>4. RecvFirst(t) => \E to \in Timeout : pc[t] = "recv" /\ RecvTry(t, to)
  BY DEF RecvFirst
<1>5. RecvAgain(t) => \E to \in Timeout : pc[t] = "recv_resumed" /\ RecvTry(t, to)
  BY DEF RecvAgain
<1>6. ASSUME NEW to \in Timeout, SendTry(t, to), pc[t] \in {"send", "send_resumed"}
      PROVE  \/ \E p \in {"send_copy", "urgent_copy"} :
                  TakeFree(t, p) /\ (p = "urgent_copy" <=> pc[t] = "urgent")
             \/ \E x \in Timeout : SendRefuse(t, x) \/ (pc[t] # "urgent" /\ SendSuspend(t, x))
  BY <1>6, Zenon DEF SendTry
<1>7. ASSUME NEW to \in Timeout, RecvTry(t, to)
      PROVE  RecvTake(t) \/ \E x \in Timeout : RecvRefuse(t, x) \/ RecvSuspend(t, x)
  BY <1>7, Zenon DEF RecvTry
<1> QED BY <1>1, <1>2, <1>3, <1>4, <1>5, <1>6, <1>7, Zenon

\* The inductive invariant is kept.
LEMMA QInvStep ==
  ASSUME NEW fr, NEW q, Good(fr, q), NEW t \in Thread, Start(t) \/ Continue(t) \/ TimerStep(t)
  PROVE  QInv'
<1>a. ASSUME NEW f, NEW r, Good(f, r)' PROVE QInv'
  BY <1>a, Zenon DEF QInv
<1>1. CASE Start(t)
  BY <1>1, <1>a, GoodEnter
<1>2. CASE TimerStep(t)
  BY <1>2, <1>a, GoodContinue DEF TimerStep
<1>3. CASE SendTooLong(t)
  <2>1. pc[t] \in {"send", "urgent"} /\ Return(t, Failed("ERROR")) /\ UNCHANGED pool
    BY <1>3 DEF SendTooLong
  <2>2. t \notin Copies /\ t \notin Woken("send_resumed") /\ t \notin Woken("recv_resumed")
    BY <2>1 DEF Copies, Filling, Holding, At, Woken
  <2>3. Good(fr, q)'
    BY <2>1, <2>2, ResultType, GoodReturn
  <2> QED BY <2>3, <1>a
<1>4. CASE SendFirst(t) \/ SendAgain(t) \/ UrgentTake(t)
  BY <1>4, <1>a, TryCases, GoodTakeFree, GoodNoSlot, Zenon
<1>5. CASE RecvFirst(t) \/ RecvAgain(t)
  BY <1>5, <1>a, TryCases, GoodTakeMessage, GoodNoMessage, Zenon
<1>6. CASE SendLink(t) \/ UrgentLink(t)
  BY <1>6, <1>a, GoodLink
<1>7. CASE RecvFree(t)
  BY <1>7, <1>a, GoodFree
<1>8. CASE ControlReset(t)
  BY <1>8, <1>a, GoodReset
<1>9. CASE IpcContinue(t) /\ UNCHANGED pool
  BY <1>9, <1>a, GoodContinue
<1> QED BY <1>1, <1>2, <1>3, <1>4, <1>5, <1>6, <1>7, <1>8, <1>9 DEF Continue

\* The inductive invariant holds at first: everybody is idle, every slot free.
LEMMA QInvInit == Init => QInv
<1> SUFFICES ASSUME Init PROVE QInv
  OBVIOUS
<1>1. PICK fr : Layout(fr, <<>>) /\ Len(fr) = max_msgs
  BY LayoutInit
<1>2. Waits
  <2>1. IpcTypeOK
    BY ResultType, TimeAssumption DEF Init, IpcInit, Error
  <2>2. pc \in [Thread -> PC] /\ Calls
    BY ResultType DEF Init, IpcInit, PC, IpcPC, Calls
  <2>3. SuspendedExactlyOnce
    BY DEF Init, IpcInit, SuspendedExactlyOnce, Enumerates, At
  <2> QED BY <2>1, <2>2, <2>3 DEF Waits
<1>3. Awake(Len(<<>>), Len(fr))
  BY DEF Awake, Init, IpcInit
<1> QED BY <1>1, <1>2, <1>3, Zenon DEF QInv, Good

\* A step of the specification keeps it, and so does a stuttering one.
LEMMA QInvNext == QInv /\ [Next]_vars => QInv'
<1> SUFFICES ASSUME QInv, [Next]_vars PROVE QInv'
  OBVIOUS
<1>1. PICK fr, q : Good(fr, q)
  BY DEF QInv
<1>2. CASE Next
  BY <1>1, <1>2, QInvStep DEF Next, Step
<1>3. CASE UNCHANGED vars
  <2>1. UNCHANGED ipcvars /\ UNCHANGED pool
    BY <1>3 DEF vars
  <2>2. /\ UNCHANGED <<attached, lists, pc, timeout, error, value, result>>
        /\ UNCHANGED <<suspend_thread, suspend_sender_thread>>
    BY <2>1 DEF ipcvars, calls, lists
  <2>3. /\ Filling' = Filling /\ Holding' = Holding
        /\ At("recv_suspended")' = At("recv_suspended") /\ At("send_suspended")' = At("send_suspended")
        /\ Woken("recv_resumed")' = Woken("recv_resumed") /\ Woken("send_resumed")' = Woken("send_resumed")
    BY <2>2 DEF Filling, Holding, At, Woken
  <2>4. Waits'
    <3>1. SuspendedExactlyOnce'
      BY <1>1, <2>2, <2>3, ListsKept DEF Good, Waits
    <3> QED BY <1>1, <2>2, <3>1 DEF Good, Waits, Calls
  <2>5. Awake(Len(q), Len(fr))'
    BY <1>1, <2>2, <2>3, AwakeKept DEF Good
  <2>6. Layout(fr, q)'
    BY <1>1, <2>1, <2>3, LayoutKept DEF Good
  <2> QED BY <2>4, <2>5, <2>6, Zenon DEF QInv, Good
<1> QED BY <1>2, <1>3

\* The pool is two lists and the slots being copied, and the waiting lists
\* agree with the threads: this is what every step of the queue keeps.
THEOREM QueueInvariance == Spec => []QInv
BY QInvInit, QInvNext, PTL DEF Spec

-----------------------------------------------------------------------------
(* What follows from it.                                                   *)

\* the places in S where g is s
Places(S, g, s) == {i \in S : g[i] = s}

\* What is in at most one place is counted once or not at all.
LEMMA OnePlace ==
  ASSUME NEW S, NEW g, NEW s, \A i, j \in S : g[i] = s /\ g[j] = s => i = j
  PROVE  Cardinality(Places(S, g, s)) = IF \E i \in S : g[i] = s THEN 1 ELSE 0
<1>1. ASSUME NEW i \in S, g[i] = s PROVE Cardinality(Places(S, g, s)) = 1
  <2>1. Places(S, g, s) = {i}
    BY <1>1 DEF Places
  <2> QED BY <2>1, FS_Singleton
<1>2. ASSUME ~ (\E i \in S : g[i] = s) PROVE Cardinality(Places(S, g, s)) = 0
  <2>1. Places(S, g, s) = {}
    BY <1>2 DEF Places
  <2> QED BY <2>1, FS_EmptySet
<1> QED BY <1>1, <1>2

\* Every slot is in one place.
LEMMA GoodPartition ==
  ASSUME NEW fr, NEW q, Layout(fr, q)
  PROVE  SlotsPartitioned
<1>0. IsList(next, fr, msg_queue_free) /\ IsList(next, q, msg_queue_head)
      /\ Held(Elems(fr), Elems(q), Copies, msg)
  BY DEF Layout
<1>1. fr = Linked(msg_queue_free) /\ q = Linked(msg_queue_head)
      /\ DOMAIN fr = 1 .. Len(fr) /\ DOMAIN q = 1 .. Len(q)
  BY LayoutLinked
<1>2. Copying = Copies
  BY DEF Copying, Copies, Filling, Holding, At
<1>4. ASSUME NEW s \in Slots
      PROVE  Cardinality(Places(DOMAIN fr, fr, s)) + Cardinality(Places(DOMAIN q, q, s))
               + Cardinality(Places(Copying, msg, s)) = 1
  <2>1. Cardinality(Places(DOMAIN fr, fr, s)) = IF s \in Elems(fr) THEN 1 ELSE 0
    <3>1. \A i, j \in DOMAIN fr : fr[i] = s /\ fr[j] = s => i = j
      BY <1>0, <1>1 DEF IsList
    <3>2. s \in Elems(fr) <=> \E i \in DOMAIN fr : fr[i] = s
      BY <1>1 DEF Elems
    <3> QED BY <3>1, <3>2, OnePlace
  <2>2. Cardinality(Places(DOMAIN q, q, s)) = IF s \in Elems(q) THEN 1 ELSE 0
    <3>1. \A i, j \in DOMAIN q : q[i] = s /\ q[j] = s => i = j
      BY <1>0, <1>1 DEF IsList
    <3>2. s \in Elems(q) <=> \E i \in DOMAIN q : q[i] = s
      BY <1>1 DEF Elems
    <3> QED BY <3>1, <3>2, OnePlace
  <2>3. Cardinality(Places(Copying, msg, s)) = IF \E t \in Copying : msg[t] = s THEN 1 ELSE 0
    <3>1. \A t, u \in Copying : msg[t] = s /\ msg[u] = s => t = u
      BY <1>0, <1>2 DEF Held
    <3> QED BY <3>1, OnePlace
  <2>4. /\ ~ (s \in Elems(fr) /\ s \in Elems(q))
        /\ s \in Elems(fr) \/ s \in Elems(q) => ~ (\E t \in Copying : msg[t] = s)
        /\ s \in Elems(fr) \/ s \in Elems(q) \/ \E t \in Copying : msg[t] = s
    BY <1>0, <1>2 DEF Held
  <2> QED BY <2>1, <2>2, <2>3, <2>4
<1> QED BY <1>1, <1>4, Zenon DEF SlotsPartitioned, Places

\* What TLC checks is what the inductive invariant says.
LEMMA QInvImplies == QInv => QueueInv /\ NoLostWakeup
<1> SUFFICES ASSUME QInv PROVE QueueInv /\ NoLostWakeup
  OBVIOUS
<1>1. PICK fr, q : Good(fr, q)
  BY DEF QInv
<1>2. Waits /\ Layout(fr, q) /\ Awake(Len(q), Len(fr))
  BY <1>1 DEF Good
<1>3. /\ fr = Linked(msg_queue_free) /\ q = Linked(msg_queue_head) /\ entry = Len(q)
      /\ Len(q) \in 0 .. max_msgs
      /\ msg_queue_tail = IF q = <<>> THEN Null ELSE q[Len(q)]
  BY <1>2, LayoutLinked DEF Layout
<1>4. {msg_queue_head, msg_queue_tail, msg_queue_free} \subseteq 0 .. max_msgs
  <2>1. IsList(next, fr, msg_queue_free) /\ IsList(next, q, msg_queue_head)
    BY <1>2 DEF Layout
  <2>2. /\ msg_queue_free \in 0 .. max_msgs /\ msg_queue_head \in 0 .. max_msgs
        /\ q # <<>> => q[Len(q)] \in Slots
    BY <2>1, ListBegin
  <2>3. Null \in 0 .. max_msgs /\ \A s \in Slots : s \in 0 .. max_msgs
    BY SlotAssumption DEF Slots
  <2> QED BY <1>3, <2>2, <2>3
<1>5. TypeOK
  BY <1>2, <1>3, <1>4 DEF TypeOK, Waits, Layout, Typed
<1>6. ListIsConsistent
  BY <1>3 DEF ListIsConsistent
<1>7. SlotsPartitioned
  BY <1>2, GoodPartition
<1>8. NoLostWakeup
  BY <1>2, <1>3 DEF NoLostWakeup, Awake
<1> QED BY <1>2, <1>5, <1>6, <1>7, <1>8 DEF QueueInv, Waits

\* The queue is in order, whatever the number of slots and threads: the waiting
\* lists are exact, every slot of the pool is free, queued or with one thread
\* that copies, and count and tail agree with the message list.
THEOREM QueueIsInOrder == Spec => []QueueInv
BY QueueInvariance, QInvImplies, PTL

\* No message and no free slot waits for a thread that sleeps on.
THEOREM QueueWakeups == Spec => []NoLostWakeup
BY QueueInvariance, QInvImplies, PTL

-----------------------------------------------------------------------------
(* The queue implements the bounded channel MsgChannel.                    *)

\* what the slots of q hold
Mails(d, q) == [i \in 1 .. Len(q) |-> d[q[i]]]

\* Reading the slots of a list gives a sequence of that length.
LEMMA MailsType ==
  ASSUME NEW d, NEW q \in Seq(Slots), \A i \in 1 .. Len(q) : d[q[i]] \in Mail
  PROVE  Mails(d, q) \in Seq(Mail) /\ Len(Mails(d, q)) = Len(q)
<1>1. Mails(d, q) \in [1 .. Len(q) -> Mail]
  BY DEF Mails
<1> QED BY <1>1

\* The same, with the messages one by one.
LEMMA MailsAre ==
  ASSUME NEW d, NEW q \in Seq(Slots), \A i \in 1 .. Len(q) : d[q[i]] \in Mail
  PROVE  \E m \in Seq(Mail) : /\ m = Mails(d, q) /\ Len(m) = Len(q)
                              /\ \A i \in 1 .. Len(q) : m[i] = d[q[i]]
<1>1. Mails(d, q) \in Seq(Mail) /\ Len(Mails(d, q)) = Len(q)
  BY MailsType
<1>2. \A i \in 1 .. Len(q) : Mails(d, q)[i] = d[q[i]]
  BY DEF Mails
<1> QED BY <1>1, <1>2, Zenon

\* The first slot is taken off: the first message is.
LEMMA MailsTail ==
  ASSUME NEW d, NEW q \in Seq(Slots), Len(q) # 0, \A i \in 1 .. Len(q) : d[q[i]] \in Mail
  PROVE  /\ Mails(d, Tail(q)) = Tail(Mails(d, q))
         /\ Head(Mails(d, q)) = d[q[1]] /\ Mails(d, q) # <<>>
<1>0. Len(q) \in Nat /\ Len(q) >= 1 /\ q # <<>>
  OBVIOUS
<1>1. PICK m \in Seq(Mail) : m = Mails(d, q) /\ Len(m) = Len(q) /\ \A i \in 1 .. Len(q) : m[i] = d[q[i]]
  BY MailsAre, Zenon
<1>2. PICK r \in Seq(Slots) : r = Tail(q) /\ Len(r) = Len(q) - 1 /\ \A i \in 1 .. Len(q) - 1 : r[i] = q[i + 1]
  <2>1. Tail(q) \in Seq(Slots) /\ Len(Tail(q)) = Len(q) - 1 /\ \A i \in 1 .. Len(q) - 1 : Tail(q)[i] = q[i + 1]
    BY <1>0
  <2> QED BY <2>1, Zenon
<1>3. \A i \in 1 .. Len(r) : d[r[i]] \in Mail /\ i + 1 \in 1 .. Len(q)
  BY <1>0, <1>2
<1>4. Mails(d, r) \in Seq(Mail) /\ Len(Mails(d, r)) = Len(q) - 1
  BY <1>2, <1>3, MailsType
<1>5. /\ Tail(m) \in Seq(Mail) /\ Len(Tail(m)) = Len(q) - 1 /\ \A i \in 1 .. Len(q) - 1 : Tail(m)[i] = m[i + 1]
      /\ m # <<>> /\ Head(m) = m[1]
  BY <1>0, <1>1
<1>6. \A i \in 1 .. Len(q) - 1 : Mails(d, r)[i] = Tail(m)[i]
  <2>1. \A i \in 1 .. Len(q) - 1 : Mails(d, r)[i] = d[r[i]]
    BY <1>2 DEF Mails
  <2>2. \A i \in 1 .. Len(q) - 1 : m[i + 1] = d[q[i + 1]]
    BY <1>0, <1>1
  <2> QED BY <2>1, <2>2, <1>2, <1>5
<1>7. Mails(d, r) = Tail(m)
  BY <1>4, <1>5, <1>6, SeqEqual
<1>8. m[1] = d[q[1]]
  BY <1>0, <1>1
<1> QED BY <1>1, <1>2, <1>5, <1>7, <1>8

\* A slot behind: its message is last.
LEMMA MailsBehind ==
  ASSUME NEW d, NEW c, NEW q \in Seq(Slots), NEW s \in Slots, NEW v \in Mail, c[s] = v,
         \A i \in 1 .. Len(q) : d[q[i]] \in Mail /\ c[q[i]] = d[q[i]]
  PROVE  Mails(c, Behind(q, s)) = Append(Mails(d, q), v)
<1>1. PICK r \in Seq(Slots) : /\ r = Behind(q, s) /\ Len(r) = Len(q) + 1 /\ r[Len(q) + 1] = s
                              /\ \A i \in 1 .. Len(q) : r[i] = q[i]
  <2>1. IsBehind(Behind(q, s), q, s)
    BY BehindIs
  <2> QED BY <2>1, Zenon DEF IsBehind
<1>a. \A i \in 1 .. Len(q) : d[q[i]] \in Mail
  OBVIOUS
<1>2. PICK m \in Seq(Mail) : m = Mails(d, q) /\ Len(m) = Len(q) /\ \A i \in 1 .. Len(q) : m[i] = d[q[i]]
  BY <1>a, MailsAre
<1>3. \A i \in 1 .. Len(r) : i = Len(q) + 1 \/ i \in 1 .. Len(q)
  BY <1>1
<1>4. \A i \in 1 .. Len(r) : c[r[i]] = IF i = Len(q) + 1 THEN v ELSE m[i]
  BY <1>1, <1>2, <1>3
<1>5. \A i \in 1 .. Len(r) : c[r[i]] \in Mail
  BY <1>1, <1>3
<1>6. Mails(c, r) \in Seq(Mail) /\ Len(Mails(c, r)) = Len(q) + 1
  BY <1>1, <1>5, MailsType
<1>7. /\ Append(m, v) \in Seq(Mail) /\ Len(Append(m, v)) = Len(q) + 1
      /\ \A i \in 1 .. Len(q) + 1 : Append(m, v)[i] = IF i = Len(q) + 1 THEN v ELSE m[i]
  BY <1>2
<1>8. \A i \in 1 .. Len(q) + 1 : Mails(c, r)[i] = Append(m, v)[i]
  BY <1>1, <1>4, <1>7 DEF Mails
<1>9. Mails(c, r) = Append(m, v)
  BY <1>6, <1>7, <1>8, SeqEqual
<1> QED BY <1>1, <1>2, <1>9

\* A slot in front: its message is first.
LEMMA MailsInFront ==
  ASSUME NEW d, NEW c, NEW q \in Seq(Slots), NEW s \in Slots, NEW v \in Mail, c[s] = v,
         \A i \in 1 .. Len(q) : d[q[i]] \in Mail /\ c[q[i]] = d[q[i]]
  PROVE  Mails(c, InFront(s, q)) = InFront(v, Mails(d, q))
<1>1. PICK r \in Seq(Slots) : /\ r = InFront(s, q) /\ Len(r) = Len(q) + 1 /\ r[1] = s
                              /\ \A i \in 2 .. Len(q) + 1 : r[i] = q[i - 1]
  <2>1. /\ <<s>> \o q \in Seq(Slots) /\ Len(<<s>> \o q) = Len(q) + 1 /\ (<<s>> \o q)[1] = s
        /\ \A i \in 2 .. Len(q) + 1 : (<<s>> \o q)[i] = q[i - 1]
    OBVIOUS
  <2> QED BY <2>1, Zenon DEF InFront
<1>a. \A i \in 1 .. Len(q) : d[q[i]] \in Mail
  OBVIOUS
<1>2. PICK m \in Seq(Mail) : m = Mails(d, q) /\ Len(m) = Len(q) /\ \A i \in 1 .. Len(q) : m[i] = d[q[i]]
  BY <1>a, MailsAre
<1>3. \A i \in 1 .. Len(r) : i = 1 \/ (i \in 2 .. Len(q) + 1 /\ i - 1 \in 1 .. Len(q))
  BY <1>1
<1>4. \A i \in 1 .. Len(r) : c[r[i]] = IF i = 1 THEN v ELSE m[i - 1]
  BY <1>1, <1>2, <1>3
<1>5. \A i \in 1 .. Len(r) : c[r[i]] \in Mail
  BY <1>1, <1>3
<1>6. Mails(c, r) \in Seq(Mail) /\ Len(Mails(c, r)) = Len(q) + 1
  BY <1>1, <1>5, MailsType
<1>7. PICK z \in Seq(Mail) :
        /\ z = <<v>> \o m /\ Len(z) = Len(q) + 1
        /\ \A i \in 1 .. Len(q) + 1 : z[i] = IF i = 1 THEN v ELSE m[i - 1]
  <2>1. /\ <<v>> \o m \in Seq(Mail) /\ Len(<<v>> \o m) = Len(q) + 1
        /\ \A i \in 1 .. Len(q) + 1 : (<<v>> \o m)[i] = IF i = 1 THEN v ELSE m[i - 1]
    BY <1>2
  <2> QED BY <2>1, Zenon
<1>8. ASSUME NEW i \in 1 .. Len(z) PROVE Mails(c, r)[i] = z[i]
  <2>1. i \in 1 .. Len(r) /\ i \in 1 .. Len(q) + 1
    BY <1>1, <1>7
  <2>2. Mails(c, r)[i] = c[r[i]]
    BY <2>1 DEF Mails
  <2> QED BY <2>1, <2>2, <1>4, <1>7
<1>9. Mails(c, r) = z
  <2>1. Len(Mails(c, r)) = Len(z)
    BY <1>6, <1>7
  <2> QED BY <2>1, <1>6, <1>8, SeqEqual
<1> QED BY <1>1, <1>2, <1>7, <1>9 DEF InFront

\* the messages queued are what the slots of the message list hold
Reading == \A fr, q : Good(fr, q) => /\ Messages = Mails(data, q)
                                     /\ q \in Seq(Slots)
                                     /\ \A i \in 1 .. Len(q) : data[q[i]] \in Mail /\ q[i] \in Elems(q)
                                     /\ Len(Messages) = Len(q)

\* It is so in every state.
LEMMA ReadingHolds == Reading
<1> SUFFICES ASSUME NEW fr, NEW q, Good(fr, q)
             PROVE  /\ Messages = Mails(data, q)
                    /\ q \in Seq(Slots)
                    /\ \A i \in 1 .. Len(q) : data[q[i]] \in Mail /\ q[i] \in Elems(q)
                    /\ Len(Messages) = Len(q)
  BY DEF Reading
<1>1. Linked(msg_queue_head) = q /\ q \in Seq(Slots)
  BY LayoutLinked DEF Good
<1>2. \A i \in 1 .. Len(q) : data[q[i]] \in Mail /\ q[i] \in Elems(q)
  BY DEF Good, Layout, Elems
<1>3. Messages = Mails(data, q)
  BY <1>1 DEF Messages, Mails
<1>4. Len(Messages) = Len(q)
  BY <1>1, <1>2, <1>3, MailsType
<1> QED BY <1>1, <1>2, <1>3, <1>4

\* It is so in the next state.
LEMMA ReadingNext == Reading'
BY ReadingHolds, PTL

\* What a call of the queue returns is what a call of the channel returns.
LEMMA SameResults == /\ Pending = M!Pending
                     /\ \A v : Ok(v) = M!Ok(v)
                     /\ \A c : Failed(c) = M!Failed(c)
BY DEF Pending, Ok, Failed, M!Pending, M!Ok, M!Failed

\* a thread at o and at p is in the same operation and copies the same way
Alike(o, p) == /\ p = "recv_copy" <=> o = "recv_copy"
               /\ p \in {"send_copy", "urgent_copy"} <=> o \in {"send_copy", "urgent_copy"}
               /\ Operation(p) = Operation(o)

\* Every program counter is like itself.
LEMMA AlikeSame == \A p : Alike(p, p)
BY DEF Alike

\* A returning call sets its own thread's result and ends its call; every other
\* thread goes on with its operation and its message.
LEMMA ReturnIsReturn ==
  ASSUME NEW t \in Thread, NEW r, result' = [result EXCEPT ![t] = r], pc'[t] = "idle",
         \A x \in Thread \ {t} : Alike(pc[x], pc'[x]) /\ value'[x] = value[x]
  PROVE  M!Return(t, r)
<1>1. CallAt(pc'[t], value'[t]) = M!NoCall
  BY DEF CallAt, Operation, M!NoCall
<1>2. \A x \in Thread \ {t} : CallAt(pc'[x], value'[x]) = CallAt(pc[x], value[x])
  BY DEF Alike, CallAt
<1>3. Doing' = [x \in Thread |-> IF x = t THEN M!NoCall ELSE CallAt(pc[x], value[x])]
  BY <1>1, <1>2 DEF Doing
<1>4. Doing' = [Doing EXCEPT ![t] = M!NoCall]
  BY <1>3 DEF Doing
<1> QED BY <1>4 DEF M!Return

\* The operation and the message of the call a thread is in.
LEMMA DoingIs ==
  ASSUME NEW t \in Thread
  PROVE  /\ Doing[t] = CallAt(pc[t], value[t])
         /\ Doing[t].op = Operation(pc[t])
         /\ Operation(pc[t]) \in {"send", "urgent"} => Doing[t].mail = value[t]
BY DEF Doing, CallAt

\* Nobody begins or ends a call.
LEMMA DoingSame ==
  ASSUME UNCHANGED value, \A x \in Thread : Alike(pc[x], pc'[x])
  PROVE  Doing' = Doing
BY DEF Doing, CallAt, Alike

\* Nobody begins or ends a copy: the channel's copies do not change.
LEMMA CopiesSame ==
  ASSUME UNCHANGED <<data, msg>>,
         \A x \in Thread :
           /\ pc'[x] = "recv_copy" <=> pc[x] = "recv_copy"
           /\ pc'[x] \in {"send_copy", "urgent_copy"} <=> pc[x] \in {"send_copy", "urgent_copy"}
  PROVE  Filling' = Filling /\ Holds' = Holds
BY DEF Filling, Holds

\* The messages do not change with the pool.
LEMMA MessagesSame ==
  ASSUME UNCHANGED pool
  PROVE  Messages' = Messages
<1>1. UNCHANGED <<next, data, msg_queue_head>>
  BY DEF pool
<1> QED BY <1>1 DEF Messages, Linked, Follows

\* A thread that does not copy holds nothing; one that copies out, a message.
LEMMA HoldsIs ==
  ASSUME NEW fr, NEW q, Good(fr, q)
  PROVE  /\ \A t \in Thread : t \notin Holding => Holds[t] = NoMail
         /\ \A t \in Holding : Holds[t] = data[msg[t]] /\ Holds[t] \in Mail /\ Holds[t] # NoMail
         /\ M!Holding = Holding
<1>1. \A t \in Thread : t \notin Holding => Holds[t] = NoMail
  BY DEF Holds, Holding, At
<1>2. \A t \in Holding : t \in Thread /\ Holds[t] = data[msg[t]]
  BY DEF Holds, Holding, At
<1>3. \A t \in Holding : data[msg[t]] \in Mail
  BY DEF Good, Layout
<1>4. \A t \in Holding : Holds[t] \in Mail /\ Holds[t] # NoMail
  BY <1>2, <1>3, MailAssumption
<1>5. M!Holding = Holding
  BY <1>1, <1>2, <1>4 DEF M!Holding
<1> QED BY <1>1, <1>2, <1>4, <1>5

\* The places that are not occupied are the slots of the free list.
LEMMA FreePlaces ==
  ASSUME NEW fr, NEW q, Good(fr, q)
  PROVE  (Len(fr) # 0 => M!Occupied < max_msgs) /\ (Len(fr) = 0 => M!Occupied = max_msgs)
<1>1. PICK a \in Nat, b \in Nat : a = Cardinality(Filling) /\ b = Cardinality(Holding)
  BY CopySets
<1>2. M!Occupied = Len(q) + a + b
  <2>1. Len(Messages) = Len(q)
    BY ReadingHolds DEF Reading
  <2>2. M!Holding = Holding
    BY HoldsIs
  <2>3. M!Occupied = Len(Messages) + Cardinality(Filling) + Cardinality(M!Holding)
    BY Zenon DEF M!Occupied, M!Cardinality, Cardinality
  <2> QED BY <1>1, <2>1, <2>2, <2>3, Zenon
<1>3. Len(fr) + Len(q) + a + b = max_msgs /\ max_msgs \in Nat
  BY <1>1, SlotAssumption DEF Good, Layout
<1> QED BY <1>2, <1>3, GoodFacts

\* A thread in a call, not copying, can return with the pool as it is.
LEMMA QuitStep ==
  ASSUME NEW fr, NEW q, Good(fr, q), NEW t \in Thread, t \notin Copies,
         UNCHANGED <<data, msg>>, NEW r, result' = [result EXCEPT ![t] = r], pc'[t] = "idle",
         \A x \in Thread \ {t} : Alike(pc[x], pc'[x]) /\ value'[x] = value[x],
         NEW ops, Operation(pc[t]) \in ops
  PROVE  M!Quit(t, ops, r)
<1>1. Doing[t].op \in ops
  BY DoingIs
<1>2. t \notin Filling /\ Holds[t] = NoMail
  BY HoldsIs DEF Copies
<1>3. \A x \in Thread :
           /\ pc'[x] = "recv_copy" <=> pc[x] = "recv_copy"
           /\ pc'[x] \in {"send_copy", "urgent_copy"} <=> pc[x] \in {"send_copy", "urgent_copy"}
  BY DEF Alike, Copies, Filling, Holding, At
<1>4. Filling' = Filling /\ Holds' = Holds
  BY <1>3, CopiesSame
<1>5. M!Return(t, r)
  BY ReturnIsReturn
<1> QED BY <1>1, <1>2, <1>4, <1>5 DEF M!Quit

\* A plain return.
LEMMA ReturnStep ==
  ASSUME NEW fr, NEW q, Good(fr, q), NEW t \in Thread, t \notin Copies,
         UNCHANGED pool, NEW r, ReturnWaking(t, r, {}, "idle"),
         NEW ops, Operation(pc[t]) \in ops
  PROVE  M!Quit(t, ops, r) /\ Messages' = Messages
<1>1. /\ pc' = [x \in Thread |-> IF x = t THEN "idle" ELSE pc[x]] /\ UNCHANGED <<data, msg>>
      /\ value' = [value EXCEPT ![t] = NoMail] /\ result' = [result EXCEPT ![t] = r]
  BY DEF ReturnWaking, pool
<1>2. value \in [Thread -> Mail \cup {NoMail}]
  BY DEF Good, Waits, IpcTypeOK
<1>3. pc'[t] = "idle" /\ \A x \in Thread \ {t} : Alike(pc[x], pc'[x]) /\ value'[x] = value[x]
  BY <1>1, <1>2, AlikeSame
<1> QED BY <1>1, <1>3, QuitStep, MessagesSame

\* A step inside a call that is no step of the channel.
LEMMA Stutters ==
  ASSUME UNCHANGED <<pool, value, result>>, \A x \in Thread : Alike(pc[x], pc'[x])
  PROVE  UNCHANGED M!mvars
<1>1. UNCHANGED <<data, msg>>
  BY DEF pool
<1>2. \A x \in Thread :
           /\ pc'[x] = "recv_copy" <=> pc[x] = "recv_copy"
           /\ pc'[x] \in {"send_copy", "urgent_copy"} <=> pc[x] \in {"send_copy", "urgent_copy"}
  BY DEF Alike
<1> QED BY <1>1, <1>2, CopiesSame, DoingSame, MessagesSame DEF M!mvars

\* One thread moves on inside its call: no step of the channel.
LEMMA MoveStutters ==
  ASSUME UNCHANGED <<pool, value, result>>, pc \in [Thread -> PC], NEW t \in Thread, NEW p,
         pc' = [pc EXCEPT ![t] = p], Alike(pc[t], p)
  PROVE  UNCHANGED M!mvars
<1>1. \A x \in Thread : Alike(pc[x], pc'[x])
  BY AlikeSame
<1> QED BY <1>1, Stutters

\* A call is entered: a call of the channel.
LEMMA StartStep ==
  ASSUME NEW fr, NEW q, Good(fr, q), NEW t \in Thread, Start(t)
  PROVE  M!Call(t)
<1>1. PICK p, v, to : /\ Enter(t, p, v, to) /\ UNCHANGED pool
                      /\ p \in {"send", "urgent", "recv", "detach_recv", "control", "assert_type"}
                      /\ p \in {"send", "urgent"} => v \in Mail
  BY DEF Start, SendCall, RecvCall, UrgentCall, DetachCall, ControlCall, AssertType, Call
<1>2. /\ pc[t] = "idle" /\ pc' = [pc EXCEPT ![t] = p] /\ pc \in [Thread -> PC]
      /\ value' = [value EXCEPT ![t] = v] /\ value \in [Thread -> Mail \cup {NoMail}]
      /\ result' = [result EXCEPT ![t] = Pending]
  BY <1>1 DEF Enter, Goto, Good, Waits, IpcTypeOK
<1>3. /\ UNCHANGED <<data, msg>>
      /\ \A x \in Thread :
           /\ pc'[x] = "recv_copy" <=> pc[x] = "recv_copy"
           /\ pc'[x] \in {"send_copy", "urgent_copy"} <=> pc[x] \in {"send_copy", "urgent_copy"}
  BY <1>1, <1>2 DEF pool
<1>4. Messages' = Messages /\ Filling' = Filling /\ Holds' = Holds
  BY <1>1, <1>3, CopiesSame, MessagesSame
<1>5. result' = [result EXCEPT ![t] = M!Pending]
  BY <1>2, SameResults
<1>6. Doing[t] = M!NoCall
  BY <1>2 DEF Doing, CallAt, Operation, M!NoCall
<1>7. PICK c : c = CallAt(p, v)
  OBVIOUS
<1>8. c \in M!SendCalls \cup M!BareCalls
  <2>1. CASE p \in {"send", "urgent"}
    BY <1>1, <1>7, <2>1 DEF CallAt, Operation, M!SendCalls
  <2>2. CASE p \notin {"send", "urgent"}
    BY <1>1, <1>7, <2>2 DEF CallAt, Operation, M!BareCalls
  <2> QED BY <2>1, <2>2
<1>9. Doing' = [Doing EXCEPT ![t] = c]
  <2>1. \A x \in Thread : x # t => pc'[x] = pc[x] /\ value'[x] = value[x]
    BY <1>2
  <2>2. pc'[t] = p /\ value'[t] = v
    BY <1>2
  <2>3. Doing' = [x \in Thread |-> IF x = t THEN c ELSE CallAt(pc[x], value[x])]
    BY <1>7, <2>1, <2>2 DEF Doing
  <2> QED BY <2>3 DEF Doing
<1> QED BY <1>4, <1>5, <1>6, <1>8, <1>9 DEF M!Call

\* A free slot is taken: a place is claimed.
LEMMA ClaimStep ==
  ASSUME NEW fr, NEW q, Good(fr, q), NEW t \in Thread, NEW p \in {"send_copy", "urgent_copy"},
         pc[t] \in {"send", "send_resumed", "urgent"}, p = "urgent_copy" <=> pc[t] = "urgent",
         TakeFree(t, p)
  PROVE  M!Claim(t)
<1>1. /\ pc' = [pc EXCEPT ![t] = p] /\ pc \in [Thread -> PC] /\ msg' = [msg EXCEPT ![t] = msg_queue_free]
      /\ UNCHANGED <<next, data, msg_queue_head, value, result>> /\ msg \in [Thread -> 0 .. max_msgs]
  BY DEF TakeFree, Goto, Good, Waits, Layout, Typed
<1>2. Filling' = Filling \cup {t} /\ Holds' = Holds
  <2>1. \A x \in Thread : x # t => pc'[x] = pc[x] /\ msg'[x] = msg[x]
    BY <1>1
  <2>2. pc'[t] = p
    BY <1>1
  <2>3. Filling' = Filling \cup {t}
    BY <2>1, <2>2 DEF Filling
  <2>4. Holds' = Holds
    BY <1>1, <2>1, <2>2 DEF Holds
  <2> QED BY <2>3, <2>4
<1>3. Messages' = Messages
  BY <1>1 DEF Messages, Linked, Follows
<1>4. t \notin Filling /\ t \notin Holding
  BY DEF Filling, Holding, At
<1>5. Doing[t].op \in {"send", "urgent"} /\ Operation(p) = Operation(pc[t])
  BY DoingIs DEF Operation
<1>6. Doing' = Doing
  <2>1. \A x \in Thread : Operation(pc'[x]) = Operation(pc[x])
    BY <1>1, <1>5
  <2> QED BY <1>1, <2>1 DEF Doing, CallAt
<1>7. M!Occupied < max_msgs
  BY GoodTakeFree, FreePlaces
<1> QED BY <1>1, <1>2, <1>3, <1>4, <1>5, <1>6, <1>7 DEF M!Claim

\* A sender is refused because every place is occupied, or sleeps.
LEMMA NoSlotStep ==
  ASSUME NEW fr, NEW q, Good(fr, q), NEW t \in Thread, NEW to \in Timeout,
         pc[t] \in {"send", "send_resumed", "urgent"},
         SendRefuse(t, to) \/ (pc[t] # "urgent" /\ SendSuspend(t, to))
  PROVE  M!Full(t) \/ UNCHANGED M!mvars
<1>1. CASE SendRefuse(t, to)
  <2>1. t \notin Copies
    BY DEF Copies, Filling, Holding, At
  <2>2. ReturnWaking(t, Failed("EFULL"), {}, "idle") /\ UNCHANGED pool
    BY <1>1 DEF SendRefuse, Return
  <2>a. Operation(pc[t]) \in {"send", "urgent"}
    BY DEF Operation
  <2>3. M!Quit(t, {"send", "urgent"}, Failed("EFULL")) /\ Messages' = Messages
    BY <2>1, <2>2, <2>a, ReturnStep
  <2>4. M!Occupied = max_msgs
    BY <1>1, GoodNoSlot, FreePlaces
  <2> QED BY <2>3, <2>4, SameResults DEF M!Full
<1>2. CASE pc[t] # "urgent" /\ SendSuspend(t, to)
  <2>1. pc' = [pc EXCEPT ![t] = "send_suspended"] /\ UNCHANGED <<pool, value, result>> /\ pc \in [Thread -> PC]
    BY <1>2 DEF SendSuspend, SuspendSender, Goto, Good, Waits
  <2>2. Alike(pc[t], "send_suspended")
    BY <1>2 DEF Alike, Operation
  <2> QED BY <2>1, <2>2, MoveStutters
<1> QED BY <1>1, <1>2

\* A receiver is refused, or sleeps.
LEMMA NoMessageStep ==
  ASSUME NEW fr, NEW q, Good(fr, q), NEW t \in Thread, NEW to \in Timeout,
         pc[t] \in {"recv", "recv_resumed"}, RecvRefuse(t, to) \/ RecvSuspend(t, to)
  PROVE  M!Fail(t) \/ UNCHANGED M!mvars
<1>1. CASE RecvRefuse(t, to)
  <2>1. t \notin Copies
    BY DEF Copies, Filling, Holding, At
  <2>2. ReturnWaking(t, Failed("ETIMEOUT"), {}, "idle") /\ UNCHANGED pool
    BY <1>1 DEF RecvRefuse, Return
  <2>a. Operation(pc[t]) \in {"send", "recv"}
    BY DEF Operation
  <2>3. M!Quit(t, {"send", "recv"}, Failed("ETIMEOUT")) /\ Messages' = Messages
    BY <2>1, <2>2, <2>a, ReturnStep
  <2> QED BY <2>3, SameResults DEF M!Fail
<1>2. CASE RecvSuspend(t, to)
  <2>1. pc' = [pc EXCEPT ![t] = "recv_suspended"] /\ UNCHANGED <<pool, value, result>> /\ pc \in [Thread -> PC]
    BY <1>2 DEF RecvSuspend, SuspendReceiver, Goto, Good, Waits
  <2>2. Alike(pc[t], "recv_suspended")
    BY DEF Alike, Operation
  <2> QED BY <2>1, <2>2, MoveStutters
<1> QED BY <1>1, <1>2

\* The first message is taken off.
LEMMA TakeStep ==
  ASSUME NEW fr, NEW q, Good(fr, q), NEW t \in Thread, pc[t] \in {"recv", "recv_resumed"}, RecvTake(t)
  PROVE  M!Take(t)
<1>1. /\ pc' = [pc EXCEPT ![t] = "recv_copy"] /\ pc \in [Thread -> PC]
      /\ msg' = [msg EXCEPT ![t] = msg_queue_head]
      /\ UNCHANGED <<data, value, result>> /\ msg \in [Thread -> 0 .. max_msgs]
  BY DEF RecvTake, Goto, Good, Waits, Layout, Typed
<1>2. Good(fr, Tail(q))' /\ Len(q) # 0
  BY GoodTakeMessage
<1>3. /\ Messages = Mails(data, q) /\ q \in Seq(Slots)
      /\ \A i \in 1 .. Len(q) : data[q[i]] \in Mail
  BY ReadingHolds DEF Reading
<1>4. Messages' = Mails(data, Tail(q))
  <2>1. Messages' = Mails(data', Tail(q))
    BY <1>2, ReadingNext, Zenon DEF Reading
  <2> QED BY <1>1, <2>1
<1>5. Messages' = Tail(Messages) /\ Messages # <<>> /\ Head(Messages) = data[q[1]]
  BY <1>2, <1>3, <1>4, MailsTail
<1>6. msg_queue_head = q[1]
  BY <1>2, <1>3 DEF Good, Layout, IsList
<1>7. Filling' = Filling /\ Holds' = [Holds EXCEPT ![t] = Head(Messages)]
  <2>1. \A x \in Thread : x # t => pc'[x] = pc[x] /\ msg'[x] = msg[x]
    BY <1>1
  <2>2. pc'[t] = "recv_copy" /\ msg'[t] = q[1]
    BY <1>1, <1>6
  <2>3. Filling' = Filling
    BY <2>1, <2>2 DEF Filling
  <2>4. Holds' = [x \in Thread |-> IF x = t THEN data[q[1]] ELSE Holds[x]]
    BY <1>1, <2>1, <2>2 DEF Holds
  <2>5. Holds = [x \in Thread |-> Holds[x]]
    BY DEF Holds
  <2>6. Holds' = [Holds EXCEPT ![t] = data[q[1]]]
    BY <2>4, <2>5
  <2> QED BY <1>5, <2>3, <2>6
<1>8. t \notin Filling /\ t \notin Holding
  BY DEF Filling, Holding, At
<1>9. Doing[t].op = "recv" /\ Holds[t] = NoMail
  BY <1>8, DoingIs, HoldsIs DEF Operation
<1>10. Doing' = Doing
  <2>1. Operation("recv_copy") = Operation(pc[t])
    BY DEF Operation
  <2>2. \A x \in Thread : Operation(pc'[x]) = Operation(pc[x])
    BY <1>1, <2>1
  <2> QED BY <1>1, <2>2 DEF Doing, CallAt
<1> QED BY <1>1, <1>5, <1>7, <1>9, <1>10 DEF M!Take

\* The heads of the waiting lists sleep.
LEMMA HeadsSleep ==
  ASSUME NEW fr, NEW q, Good(fr, q)
  PROVE  /\ suspend_thread # <<>> =>
              Head(suspend_thread) \in Thread /\ pc[Head(suspend_thread)] = "recv_suspended"
         /\ suspend_sender_thread # <<>> =>
              Head(suspend_sender_thread) \in Thread /\ pc[Head(suspend_sender_thread)] = "send_suspended"
<1>1. /\ Enumerates(suspend_thread, At("recv_suspended")) /\ suspend_thread \in Seq(Thread)
      /\ Enumerates(suspend_sender_thread, At("send_suspended")) /\ suspend_sender_thread \in Seq(Thread)
  BY DEF Good, Waits, SuspendedExactlyOnce
<1>2. suspend_thread # <<>> => Head(suspend_thread) \in At("recv_suspended")
  BY <1>1, EnumeratesTail
<1>3. suspend_sender_thread # <<>> => Head(suspend_sender_thread) \in At("send_suspended")
  BY <1>1, EnumeratesTail
<1> QED BY <1>2, <1>3 DEF At

\* Where the threads are after a return that made at most one sleeper ready.
LEMMA WakingCopies ==
  ASSUME NEW fr, NEW q, Good(fr, q), NEW t \in Thread, NEW r,
         \/ ReturnToReceiver(t, r)
         \/ ReturnToSender(t, r)
  PROVE  /\ M!Return(t, r) /\ pc'[t] = "idle"
         /\ \A x \in Thread \ {t} :
              /\ pc'[x] = "recv_copy" <=> pc[x] = "recv_copy"
              /\ pc'[x] \in {"send_copy", "urgent_copy"} <=> pc[x] \in {"send_copy", "urgent_copy"}
<1>2. suspend_thread # <<>> => pc[Head(suspend_thread)] = "recv_suspended"
  BY HeadsSleep
<1>3. suspend_sender_thread # <<>> => pc[Head(suspend_sender_thread)] = "send_suspended"
  BY HeadsSleep
<1>4. PICK w, p : /\ ReturnWaking(t, r, w, p)
                  /\ \A x \in w : \/ pc[x] = "recv_suspended" /\ p = "recv_resumed"
                                  \/ pc[x] = "send_suspended" /\ p = "send_resumed"
  <2>1. CASE ReturnToReceiver(t, r)
    <3>1. PICK w : /\ ReturnWaking(t, r, w, "recv_resumed")
                   /\ \A x \in w : pc[x] = "recv_suspended"
      BY <1>2, <2>1 DEF ReturnToReceiver, ResumeReceiver
    <3> QED BY <3>1
  <2>2. CASE ReturnToSender(t, r)
    <3>1. PICK w : /\ ReturnWaking(t, r, w, "send_resumed")
                   /\ \A x \in w : pc[x] = "send_suspended"
      BY <1>3, <2>2 DEF ReturnToSender, ResumeSender
    <3> QED BY <3>1
  <2> QED BY <2>1, <2>2
<1>5. /\ pc' = [x \in Thread |-> IF x = t THEN "idle" ELSE IF x \in w THEN p ELSE pc[x]]
      /\ value' = [value EXCEPT ![t] = NoMail] /\ result' = [result EXCEPT ![t] = r]
  BY <1>4 DEF ReturnWaking
<1>6. value \in [Thread -> Mail \cup {NoMail}]
  BY <1>4 DEF Good, Waits, IpcTypeOK
<1>7. \A x \in w : Alike(pc[x], p)
  BY <1>4 DEF Alike, Operation
<1>8. pc'[t] = "idle" /\ \A x \in Thread \ {t} : Alike(pc[x], pc'[x]) /\ value'[x] = value[x]
  BY <1>5, <1>6, <1>7, AlikeSame
<1>9. M!Return(t, r)
  BY <1>5, <1>8, ReturnIsReturn
<1> QED BY <1>8, <1>9 DEF Alike

\* A message is linked: the one of rt_mq_send at the end, the one of
\* rt_mq_urgent in front.
LEMMA PutStep ==
  ASSUME NEW fr, NEW q, Good(fr, q), NEW t \in Thread, SendLink(t) \/ UrgentLink(t)
  PROVE  M!Put(t)
<1> DEFINE v == value[t]
           s == msg[t]
<1>1. /\ pc[t] \in {"send_copy", "urgent_copy"} /\ ReturnToReceiver(t, Ok(v)) /\ v \in Mail
      /\ data' = CopyIn(s, v) /\ msg' = [msg EXCEPT ![t] = Null]
  BY DEF SendLink, UrgentLink, Good, Waits, Calls
<1>2. t \in Filling /\ t \in Copies /\ t \notin Holding
  BY <1>1 DEF Copies, Filling, Holding, At
<1>3. /\ s \in Slots /\ s \notin Elems(q) /\ \A x \in Copies : x # t => msg[x] # s
      /\ data \in [Slots -> Mail \cup {NoMail}] /\ msg \in [Thread -> 0 .. max_msgs]
  BY <1>2, CopySlot DEF Good, Layout, Typed
<1>4. PICK r : Good(fr, r)' /\ r = (IF SendLink(t) THEN Behind(q, s) ELSE InFront(s, q))
  BY GoodLink
<1> HIDE DEF v, s
<1>5. /\ Messages = Mails(data, q) /\ q \in Seq(Slots)
      /\ \A i \in 1 .. Len(q) : data[q[i]] \in Mail /\ q[i] \in Elems(q)
  BY ReadingHolds DEF Reading
<1>6. Messages' = Mails(data', r)
  BY <1>4, ReadingNext, Zenon DEF Reading
<1>7. data'[s] = v /\ \A x \in Slots : x # s => data'[x] = data[x]
  BY <1>1, <1>3 DEF CopyIn
<1>8. PICK c : c = data'
  OBVIOUS
<1>9. c[s] = v /\ \A i \in 1 .. Len(q) : data[q[i]] \in Mail /\ c[q[i]] = data[q[i]]
  <2>1. ASSUME NEW i \in 1 .. Len(q) PROVE q[i] \in Slots /\ q[i] # s
    BY <1>3, <1>5
  <2> QED BY <1>5, <1>7, <1>8, <2>1
<1>10. Messages' = IF SendLink(t) THEN Append(Messages, v) ELSE InFront(v, Messages)
  <2>1. CASE SendLink(t)
    <3>1. Mails(c, Behind(q, s)) = Append(Mails(data, q), v)
      BY <1>1, <1>3, <1>5, <1>9, MailsBehind
    <3> QED BY <2>1, <3>1, <1>4, <1>5, <1>6, <1>8
  <2>2. CASE ~ SendLink(t)
    <3>1. Mails(c, InFront(s, q)) = InFront(v, Mails(data, q))
      BY <1>1, <1>3, <1>5, <1>9, MailsInFront
    <3> QED BY <2>2, <3>1, <1>4, <1>5, <1>6, <1>8
  <2> QED BY <2>1, <2>2
<1>11. /\ M!Return(t, Ok(v)) /\ pc'[t] = "idle"
       /\ \A x \in Thread \ {t} :
              /\ pc'[x] = "recv_copy" <=> pc[x] = "recv_copy"
              /\ pc'[x] \in {"send_copy", "urgent_copy"} <=> pc[x] \in {"send_copy", "urgent_copy"}
  BY <1>1, WakingCopies
<1>12. Filling' = Filling \ {t}
  BY <1>11 DEF Filling
<1>13. Holds' = Holds
  <2>1. ASSUME NEW x \in Thread
        PROVE  (IF pc'[x] = "recv_copy" THEN data'[msg'[x]] ELSE NoMail)
               = (IF pc[x] = "recv_copy" THEN data[msg[x]] ELSE NoMail)
    <3>1. CASE pc[x] # "recv_copy"
      BY <3>1, <1>11
    <3>2. CASE pc[x] = "recv_copy"
      <4>1. x # t /\ x \in Copies
        BY <3>2, <1>1 DEF Copies, Holding, At
      <4>2. msg'[x] = msg[x] /\ msg[x] # s /\ msg[x] \in Slots /\ pc'[x] = "recv_copy"
        BY <4>1, <3>2, <1>1, <1>3, <1>11, CopySlot DEF Good
      <4> QED BY <4>2, <3>2, <1>7
    <3> QED BY <3>1, <3>2
  <2> QED BY <2>1 DEF Holds
<1>14. M!Return(t, M!Ok(v))
  BY <1>11, SameResults
<1>15. /\ Doing[t].mail = v
       /\ SendLink(t) => Doing[t].op = "send"
       /\ ~ SendLink(t) => Doing[t].op = "urgent"
  <2>1. SendLink(t) => pc[t] = "send_copy"
    BY DEF SendLink
  <2>2. ~ SendLink(t) => pc[t] = "urgent_copy"
    BY DEF UrgentLink
  <2> QED BY <1>1, <2>1, <2>2, DoingIs DEF Operation, v
<1>16. CASE SendLink(t)
  BY <1>2, <1>10, <1>12, <1>13, <1>14, <1>15, <1>16 DEF M!Put
<1>17. CASE ~ SendLink(t)
  BY <1>2, <1>10, <1>12, <1>13, <1>14, <1>15, <1>17 DEF M!Put, InFront
<1> QED BY <1>16, <1>17

\* A received slot is freed: the message is released.
LEMMA ReleaseStep ==
  ASSUME NEW fr, NEW q, Good(fr, q), NEW t \in Thread, RecvFree(t)
  PROVE  M!Release(t)
<1>1. /\ pc[t] = "recv_copy" /\ ReturnToSender(t, Ok(data[msg[t]])) /\ data' = data
      /\ msg' = [msg EXCEPT ![t] = Null] /\ msg \in [Thread -> 0 .. max_msgs]
  BY DEF RecvFree, Good, Layout, Typed
<1>2. t \in Holding
  BY <1>1 DEF Holding, At
<1>3. PICK r : Good(r, q)'
  BY GoodFree
<1>4. Messages = Mails(data, q)
  BY ReadingHolds DEF Reading
<1>5. Messages' = Mails(data', q)
  BY <1>3, ReadingNext, Zenon DEF Reading
<1>6. Messages' = Messages
  BY <1>1, <1>4, <1>5
<1>7. /\ M!Return(t, Ok(data[msg[t]])) /\ pc'[t] = "idle"
      /\ \A x \in Thread \ {t} :
              /\ pc'[x] = "recv_copy" <=> pc[x] = "recv_copy"
              /\ pc'[x] \in {"send_copy", "urgent_copy"} <=> pc[x] \in {"send_copy", "urgent_copy"}
  BY <1>1, WakingCopies
<1>8. Filling' = Filling
  BY <1>1, <1>7 DEF Filling
<1>9. Holds' = [Holds EXCEPT ![t] = NoMail]
  <2>1. \A x \in Thread \ {t} : msg'[x] = msg[x]
    BY <1>1
  <2>2. Holds' = [x \in Thread |-> IF x = t THEN NoMail ELSE Holds[x]]
    BY <2>1, <1>1, <1>7 DEF Holds
  <2>3. Holds = [x \in Thread |-> Holds[x]]
    BY DEF Holds
  <2> QED BY <2>2, <2>3
<1>10. Holds[t] # NoMail /\ Holds[t] = data[msg[t]]
  BY <1>2, HoldsIs
<1>11. M!Return(t, M!Ok(Holds[t]))
  BY <1>7, <1>10, SameResults
<1> QED BY <1>6, <1>8, <1>9, <1>10, <1>11 DEF M!Release

\* A reset empties the channel.
LEMMA ResetStep ==
  ASSUME NEW fr, NEW q, Good(fr, q), NEW t \in Thread, ControlReset(t)
  PROVE  M!Reset(t)
<1>1. /\ pc[t] = "control" /\ UNCHANGED <<data, msg>>
      /\ pc' = [x \in Thread |-> IF x = t THEN "idle"
                               ELSE IF pc[x] = "recv_suspended" THEN "recv_resumed"
                               ELSE IF pc[x] = "send_suspended" THEN "send_resumed"
                               ELSE pc[x]]
      /\ result' = [result EXCEPT ![t] = Ok(NoMail)] /\ value' = value
  BY DEF ControlReset, ResumeAll
<1>2. t \notin Copies
  BY <1>1 DEF Copies, Filling, Holding, At
<1>3. M!Quit(t, {"reset"}, Ok(NoMail))
  <2>1. pc'[t] = "idle" /\ \A x \in Thread \ {t} : Alike(pc[x], pc'[x])
    BY <1>1 DEF Alike, Operation
  <2>2. Operation(pc[t]) \in {"reset"}
    BY <1>1 DEF Operation
  <2> QED BY <1>1, <1>2, <2>1, <2>2, QuitStep
<1>4. PICK r : Good(r, <<>>)'
  BY GoodReset
<1>5. Messages' = Mails(data', <<>>)
  BY <1>4, ReadingNext, Zenon DEF Reading
<1>6. Messages' = <<>>
  BY <1>5 DEF Mails
<1> QED BY <1>3, <1>6, SameResults DEF M!Reset

\* A call ends in failure, a detach ends, or nothing happens to the channel.
LEMMA ContinueStep ==
  ASSUME NEW fr, NEW q, Good(fr, q), NEW t \in Thread, UNCHANGED pool, IpcContinue(t) \/ Expire(t)
  PROVE  M!Fail(t) \/ M!Done(t) \/ UNCHANGED M!mvars
<1>0. /\ pc \in [Thread -> PC] /\ error \in [Thread -> Error]
      /\ Enumerates(suspend_thread, At("recv_suspended")) /\ suspend_thread \in Seq(Thread)
      /\ Enumerates(suspend_sender_thread, At("send_suspended")) /\ suspend_sender_thread \in Seq(Thread)
  BY DEF Good, Waits, SuspendedExactlyOnce
<1>1. CASE SendFailed(t) \/ RecvFailed(t)
  <2>1. /\ pc[t] \in {"send_resumed", "recv_resumed"} /\ error[t] \in {"ETIMEOUT", "ERROR"}
        /\ ReturnWaking(t, Failed(error[t]), {}, "idle")
    BY <1>0, <1>1 DEF SendFailed, RecvFailed, Error, Return
  <2>2. t \notin Copies
    BY <2>1 DEF Copies, Filling, Holding, At
  <2>a. Operation(pc[t]) \in {"send", "recv"} /\ Operation(pc[t]) \in {"send", "urgent", "recv"}
    BY <2>1 DEF Operation
  <2>3. /\ M!Quit(t, {"send", "recv"}, Failed(error[t])) /\ Messages' = Messages
        /\ M!Quit(t, {"send", "urgent", "recv"}, Failed(error[t]))
    BY <2>1, <2>2, <2>a, ReturnStep
  <2> QED BY <2>1, <2>3, SameResults DEF M!Fail
<1>2. CASE DetachObject(t)
  <2>1. pc[t] = "detach_send" /\ ReturnWaking(t, Ok(NoMail), {}, "idle")
    BY <1>2 DEF DetachObject
  <2>2. t \notin Copies
    BY <2>1 DEF Copies, Filling, Holding, At
  <2>a. Operation(pc[t]) \in {"detach"}
    BY <2>1 DEF Operation
  <2>3. M!Quit(t, {"detach"}, Ok(NoMail)) /\ Messages' = Messages
    BY <2>1, <2>2, <2>a, ReturnStep
  <2> QED BY <2>3, SameResults DEF M!Done
<1>3. CASE DetachTestRecv(t) \/ DetachTestSend(t)
  <2>1. PICK p : /\ pc' = [pc EXCEPT ![t] = p] /\ UNCHANGED <<value, result>>
                 /\ p \in {"detach_recv_locked", "detach_send", "detach_send_locked"}
                 /\ pc[t] \in {"detach_recv", "detach_send"}
    BY <1>3 DEF DetachTestRecv, DetachTestSend, Goto
  <2>2. Alike(pc[t], p)
    BY <2>1 DEF Alike, Operation
  <2> QED BY <2>1, <2>2, <1>0, MoveStutters
<1>4. CASE DetachResumeRecv(t)
  <2>1. CASE suspend_thread = <<>>
    <3>1. /\ pc' = [pc EXCEPT ![t] = "assert_thread"] /\ UNCHANGED <<value, result>>
          /\ pc[t] = "detach_recv_locked"
      BY <1>4, <2>1 DEF DetachResumeRecv, Goto
    <3>2. Alike(pc[t], "assert_thread")
      BY <3>1 DEF Alike, Operation
    <3> QED BY <3>1, <3>2, <1>0, MoveStutters
  <2>2. CASE suspend_thread # <<>>
    <3>1. PICK w \in Thread : w = Head(suspend_thread) /\ pc[w] = "recv_suspended"
      BY <2>2, HeadsSleep
    <3>2. /\ pc' = [pc EXCEPT ![t] = "detach_recv", ![w] = "recv_resumed"]
          /\ UNCHANGED <<value, result>>
          /\ pc[t] = "detach_recv_locked"
      BY <1>4, <2>2, <3>1 DEF DetachResumeRecv
    <3>3. Alike(pc[t], "detach_recv") /\ Alike(pc[w], "recv_resumed")
      BY <3>1, <3>2 DEF Alike, Operation
    <3>4. \A x \in Thread : Alike(pc[x], pc'[x])
      BY <3>2, <3>3, <1>0, AlikeSame
    <3> QED BY <3>2, <3>4, Stutters
  <2> QED BY <2>1, <2>2
<1>5. CASE DetachResumeSend(t)
  <2>1. CASE suspend_sender_thread = <<>>
    <3>1. /\ pc' = [pc EXCEPT ![t] = "assert_thread"] /\ UNCHANGED <<value, result>>
          /\ pc[t] = "detach_send_locked"
      BY <1>5, <2>1 DEF DetachResumeSend, Goto
    <3>2. Alike(pc[t], "assert_thread")
      BY <3>1 DEF Alike, Operation
    <3> QED BY <3>1, <3>2, <1>0, MoveStutters
  <2>2. CASE suspend_sender_thread # <<>>
    <3>1. PICK w \in Thread : w = Head(suspend_sender_thread) /\ pc[w] = "send_suspended"
      BY <2>2, HeadsSleep
    <3>2. /\ pc' = [pc EXCEPT ![t] = "detach_send", ![w] = "send_resumed"]
          /\ UNCHANGED <<value, result>>
          /\ pc[t] = "detach_send_locked"
      BY <1>5, <2>2, <3>1 DEF DetachResumeSend
    <3>3. Alike(pc[t], "detach_send") /\ Alike(pc[w], "send_resumed")
      BY <3>1, <3>2 DEF Alike, Operation
    <3>4. \A x \in Thread : Alike(pc[x], pc'[x])
      BY <3>2, <3>3, <1>0, AlikeSame
    <3> QED BY <3>2, <3>4, Stutters
  <2> QED BY <2>1, <2>2
<1>6. CASE Expire(t)
  <2>1. PICK p : /\ pc' = [pc EXCEPT ![t] = p] /\ UNCHANGED <<value, result>>
                 /\ \/ pc[t] = "recv_suspended" /\ p = "recv_resumed"
                    \/ pc[t] = "send_suspended" /\ p = "send_resumed"
    <3>1. CASE \E i \in 1 .. Len(suspend_thread) : suspend_thread[i] = t /\ Goto(t, "recv_resumed")
      <4>1. t \in At("recv_suspended")
        BY <1>0, <3>1 DEF Enumerates
      <4>2. pc' = [pc EXCEPT ![t] = "recv_resumed"] /\ UNCHANGED <<value, result>>
        BY <1>6, <3>1 DEF Expire, Goto
      <4> QED BY <4>1, <4>2 DEF At
    <3>2. CASE \E i \in 1 .. Len(suspend_sender_thread) :
                 suspend_sender_thread[i] = t /\ Goto(t, "send_resumed")
      <4>1. t \in At("send_suspended")
        BY <1>0, <3>2 DEF Enumerates
      <4>2. pc' = [pc EXCEPT ![t] = "send_resumed"] /\ UNCHANGED <<value, result>>
        BY <1>6, <3>2 DEF Expire, Goto
      <4> QED BY <4>1, <4>2 DEF At
    <3> QED BY <1>6, <3>1, <3>2 DEF Expire, Unlink
  <2>2. Alike(pc[t], p)
    BY <2>1 DEF Alike, Operation
  <2> QED BY <2>1, <2>2, <1>0, MoveStutters
<1> QED BY <1>1, <1>2, <1>3, <1>4, <1>5, <1>6 DEF IpcContinue

\* Every step of the queue is a step of the channel or leaves it unchanged.
LEMMA ChannelStep == QInv /\ [Next]_vars => [M!MNext]_(M!mvars)
<1> SUFFICES ASSUME QInv, [Next]_vars PROVE [M!MNext]_(M!mvars)
  OBVIOUS
<1>1. PICK fr, q : Good(fr, q)
  BY DEF QInv
<1>2. CASE UNCHANGED vars
  <2>1. UNCHANGED <<pool, value, result, pc>>
    BY <1>2 DEF vars, ipcvars, calls
  <2> QED BY <2>1, AlikeSame, Stutters
<1>3. ASSUME NEW t \in Thread, Start(t) \/ Continue(t) \/ TimerStep(t)
      PROVE  \/ UNCHANGED M!mvars
             \/ M!Call(t) \/ M!Claim(t) \/ M!Put(t) \/ M!Take(t) \/ M!Release(t)
             \/ M!Fail(t) \/ M!Full(t) \/ M!Done(t) \/ M!Reset(t)
  <2>1. CASE Start(t)
    BY <1>1, <2>1, StartStep
  <2>2. CASE TimerStep(t)
    BY <1>1, <2>2, ContinueStep DEF TimerStep
  <2>3. CASE SendTooLong(t)
    <3>1. pc[t] \in {"send", "urgent"} /\ ReturnWaking(t, Failed("ERROR"), {}, "idle") /\ UNCHANGED pool
      BY <2>3 DEF SendTooLong, Return
    <3>2. t \notin Copies
      BY <3>1 DEF Copies, Filling, Holding, At
    <3>a. Operation(pc[t]) \in {"send", "urgent", "recv"}
      BY <3>1 DEF Operation
    <3>3. M!Quit(t, {"send", "urgent", "recv"}, Failed("ERROR")) /\ Messages' = Messages
      BY <1>1, <3>1, <3>2, <3>a, ReturnStep
    <3>4. M!Fail(t)
      BY <3>3, SameResults DEF M!Fail
    <3> QED BY <3>4
  <2>4. CASE SendFirst(t) \/ SendAgain(t) \/ UrgentTake(t)
    BY <1>1, <2>4, TryCases, ClaimStep, NoSlotStep, Zenon
  <2>5. CASE RecvFirst(t) \/ RecvAgain(t)
    BY <1>1, <2>5, TryCases, TakeStep, NoMessageStep, Zenon
  <2>6. CASE SendLink(t) \/ UrgentLink(t)
    BY <1>1, <2>6, PutStep
  <2>7. CASE RecvFree(t)
    BY <1>1, <2>7, ReleaseStep
  <2>8. CASE ControlReset(t)
    BY <1>1, <2>8, ResetStep
  <2>9. CASE IpcContinue(t) /\ UNCHANGED pool
    BY <1>1, <2>9, ContinueStep
  <2> QED BY <1>3, <2>1, <2>2, <2>3, <2>4, <2>5, <2>6, <2>7, <2>8, <2>9 DEF Continue
<1>4. CASE Next
  BY <1>3, <1>4, Zenon DEF Next, Step, M!MNext
<1> QED BY <1>2, <1>4

\* The channel is empty at first.
LEMMA ChannelInit == Init => M!MInit
<1> SUFFICES ASSUME Init PROVE M!MInit
  OBVIOUS
<1>1. PICK fr : Layout(fr, <<>>)
  BY LayoutInit
<1>2. Messages = <<>>
  BY <1>1, LayoutLinked DEF Messages
<1>3. pc = [t \in Thread |-> "idle"] /\ result = [t \in Thread |-> Ok(NoMail)]
  BY DEF Init, IpcInit
<1>4. Filling = {} /\ Holds = [t \in Thread |-> NoMail]
  BY <1>3 DEF Filling, Holds
<1>5. Doing = [t \in Thread |-> M!NoCall]
  BY <1>3 DEF Doing, CallAt, Operation, M!NoCall
<1> QED BY <1>2, <1>3, <1>4, <1>5, SameResults DEF M!MInit

\* For every number of slots, every set of threads and every interleaving, the
\* linked pool of rt_mq_send_wait, rt_mq_urgent and rt_mq_recv implements a
\* bounded channel: the message of a send is put behind all queued ones, the one
\* of an urgent send before them, a receive takes the first, none is lost,
\* duplicated or torn by a copy in flight, and -RT_EFULL is returned only to a
\* sender and only while every place is occupied.
THEOREM QueueIsChannel == Spec => IsMsgChannel
<1>1. Init => M!MInit
  BY ChannelInit
<1>2. QInv /\ [Next]_vars => [M!MNext]_(M!mvars)
  BY ChannelStep
<1> QED BY <1>1, <1>2, QueueInvariance, PTL DEF Spec, IsMsgChannel, M!MSpec
=============================================================================
