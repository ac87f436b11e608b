------------------------- MODULE UartReceiverProofs -------------------------
(***************************************************************************)
(* Proofs about the serial receive path, for every size of the ring, of    *)
(* the notification queue, of the read buffer and of the UART's own FIFO,  *)
(* and about the camera service at its end (module OpenMv).                *)
(***************************************************************************)
EXTENDS UartReceiver, OpenMv, SequenceTheorems, TLAPS

USE ByteAssumption, BufszAssumption, MsgsAssumption, ReadAssumption, BurstAssumption

-----------------------------------------------------------------------------
(* The ring.                                                               *)

\* The remainder of the distance of two indexes.
LEMMA DistanceIs ==
  ASSUME NEW n \in Nat, n > 0, NEW p \in 0 .. n - 1, NEW g \in 0 .. n - 1
  PROVE  (p + n - g) % n = IF p >= g THEN p - g ELSE p + n - g
OBVIOUS

\* The number of stored bytes without the remainder.
LEMMA StoredIs ==
  ASSUME FifoTypeOK
  PROVE  /\ Stored = IF put_index >= get_index THEN put_index - get_index
                                               ELSE put_index + bufsz - get_index
         /\ Stored \in 0 .. bufsz - 1
BY DistanceIs DEF FifoTypeOK, Stored

\* The same after a step.
LEMMA StoredIsNext ==
  ASSUME FifoTypeOK'
  PROVE  /\ Stored' = IF put_index' >= get_index' THEN put_index' - get_index'
                                                  ELSE put_index' + bufsz - get_index'
         /\ Stored' \in 0 .. bufsz - 1
<1>1. put_index' \in 0 .. bufsz - 1 /\ get_index' \in 0 .. bufsz - 1
  BY DEF FifoTypeOK
<1>2. Stored' = (put_index' + bufsz - get_index') % bufsz
  BY DEF Stored
<1>3. ASSUME NEW p \in 0 .. bufsz - 1, NEW g \in 0 .. bufsz - 1
      PROVE  /\ (p + bufsz - g) % bufsz = IF p >= g THEN p - g ELSE p + bufsz - g
             /\ (p + bufsz - g) % bufsz \in 0 .. bufsz - 1
  BY DistanceIs
<1> QED BY <1>1, <1>2, <1>3

\* The length the handler computes is the number of stored bytes, in the ring
\* that is full as well.
LEMMA RxLengthIsStored ==
  ASSUME FifoTypeOK
  PROVE  RxLength = Stored
BY StoredIs DEF FifoTypeOK, RxLength

\* _serial_int_rx finds no data exactly when none is stored.
LEMMA NoDataIsEmpty ==
  ASSUME FifoTypeOK, FullFlagIsExact
  PROVE  NoData <=> Stored = 0
BY StoredIs DEF FifoTypeOK, NoData, FullFlagIsExact

\* A byte that arrives is one more, unless the ring is full.
LEMMA PutStores ==
  ASSUME FifoTypeOK, NEW c \in Byte, PutChar(c)
  PROVE  /\ FifoTypeOK'
         /\ Stored < bufsz - 1 => /\ Stored' = Stored + 1
                                  /\ get_index' = get_index /\ is_full' = is_full
         /\ Stored = bufsz - 1 => /\ Stored' = bufsz - 1
                                  /\ get_index' = Advance(get_index) /\ is_full'
<1>1. /\ buffer' \in [0 .. bufsz - 1 -> Byte \cup {NoByte}]
      /\ put_index' \in 0 .. bufsz - 1 /\ get_index' \in 0 .. bufsz - 1
  BY DEF FifoTypeOK, PutChar, Advance
<1>2. is_full' = is_full \/ is_full' = TRUE
  BY DEF PutChar
<1>3. FifoTypeOK'
  BY <1>1, <1>2 DEF FifoTypeOK
<1>4. put_index' = get_index <=> Stored = bufsz - 1
  BY StoredIs DEF FifoTypeOK, PutChar, Advance
<1>5. ASSUME Stored < bufsz - 1
      PROVE  Stored' = Stored + 1 /\ get_index' = get_index /\ is_full' = is_full
  <2>1. get_index' = get_index /\ is_full' = is_full /\ put_index' = Advance(put_index)
    BY <1>4, <1>5, StoredIs DEF PutChar
  <2> QED BY <1>3, <1>5, <2>1, StoredIs, StoredIsNext DEF FifoTypeOK, Advance
<1>6. ASSUME Stored = bufsz - 1
      PROVE  Stored' = bufsz - 1 /\ get_index' = Advance(get_index) /\ is_full'
  <2>1. get_index' = Advance(get_index) /\ is_full' = TRUE /\ put_index' = Advance(put_index)
    BY <1>4, <1>6 DEF PutChar
  <2> QED BY <1>3, <1>6, <2>1, StoredIs, StoredIsNext DEF FifoTypeOK, Advance
<1> QED BY <1>3, <1>5, <1>6, StoredIs

\* A byte that is read is one less.
LEMMA GetStores ==
  ASSUME FifoTypeOK, FullFlagIsExact, GetChar
  PROVE  /\ FifoTypeOK' /\ FullFlagIsExact'
         /\ Stored > 0 /\ Stored' = Stored - 1
<1>0. is_full' = FALSE
  BY DEF GetChar, FlagAfterGet
<1>1. FifoTypeOK'
  <2>1. get_index' \in 0 .. bufsz - 1
    BY DEF FifoTypeOK, GetChar, Advance
  <2> QED BY <1>0, <2>1 DEF FifoTypeOK, GetChar
<1>2. Stored > 0
  BY NoDataIsEmpty, StoredIs DEF GetChar
<1>3. Stored' = Stored - 1
  BY <1>1, <1>2, StoredIs, StoredIsNext DEF FifoTypeOK, GetChar, Advance
<1> QED BY <1>0, <1>1, <1>2, <1>3 DEF FullFlagIsExact

\* The byte that arrives does not disturb is_full.
LEMMA PutKeepsFlag ==
  ASSUME FifoTypeOK, FullFlagIsExact, NEW c \in Byte, PutChar(c)
  PROVE  FullFlagIsExact'
<1>1. CASE Stored < bufsz - 1
  BY <1>1, PutStores, StoredIs DEF FullFlagIsExact
<1>2. CASE Stored = bufsz - 1
  BY <1>2, PutStores DEF FullFlagIsExact
<1> QED BY <1>1, <1>2, StoredIs

\* A step that leaves the ring alone.
LEMMA FifoSame ==
  ASSUME UNCHANGED fifo
  PROVE  /\ Stored' = Stored /\ Unread' = Unread
         /\ FifoTypeOK => FifoTypeOK'
         /\ FullFlagIsExact => FullFlagIsExact'
BY DEF fifo, Stored, Unread, Wrap, FifoTypeOK, FullFlagIsExact

-----------------------------------------------------------------------------
(* The ring and the receiver keep their types.                             *)

\* Init establishes the types and the flag.
LEMMA ReceiverInit == Init => ReceiverInv
<1> SUFFICES ASSUME Init PROVE ReceiverInv
  OBVIOUS
<1>1. FifoTypeOK /\ FullFlagIsExact
  <2>1. ~ is_full /\ is_full \in BOOLEAN
    BY DEF Init, FifoInit
  <2>2. buffer \in [0 .. bufsz - 1 -> Byte \cup {NoByte}]
    BY DEF Init, FifoInit
  <2>3. put_index \in 0 .. bufsz - 1 /\ get_index \in 0 .. bufsz - 1
    BY DEF Init, FifoInit
  <2> QED BY <2>1, <2>2, <2>3 DEF FifoTypeOK, FullFlagIsExact
<1>2. rx_mq \in Seq(1 .. bufsz - 1) /\ Len(rx_mq) <= MaxMsgs
  BY DEF Init
<1>3. opened \in BOOLEAN /\ indicate \in BOOLEAN /\ in_isr \in BOOLEAN /\ lost \in BOOLEAN
  BY DEF Init
<1>4. burst \in 0 .. Burst /\ left \in 0 .. bufsz - 1
  BY DEF Init
<1>5. thread = "start" /\ got = NoByte
  BY DEF Init
<1> QED BY <1>1, <1>2, <1>3, <1>4, <1>5 DEF ReceiverInv, TypeOK

\* Every step keeps them.
LEMMA ReceiverNext == ReceiverInv /\ [Next]_vars => ReceiverInv'
<1> SUFFICES ASSUME ReceiverInv, [Next]_vars PROVE ReceiverInv'
  OBVIOUS
<1> USE DEF ReceiverInv
<1>0. CASE UNCHANGED vars
  BY <1>0, FifoSame DEF vars, rest, TypeOK
<1>1. CASE IsrEnter
  BY <1>1, FifoSame DEF IsrEnter, TypeOK
<1>2. ASSUME NEW c \in Byte, IsrPut(c) PROVE ReceiverInv'
  <2>1. FifoTypeOK' /\ FullFlagIsExact'
    BY <1>2, PutStores, PutKeepsFlag DEF IsrPut, TypeOK
  <2>2. burst' \in 0 .. Burst
    BY <1>2 DEF IsrPut, TypeOK
  <2> QED BY <1>2, <2>1, <2>2 DEF IsrPut, TypeOK
<1>3. CASE IsrNotify
  <2>1. RxLength \in 0 .. bufsz - 1
    BY RxLengthIsStored, StoredIs DEF TypeOK
  <2>2. rx_mq' \in Seq(1 .. bufsz - 1) /\ Len(rx_mq') <= MaxMsgs
    <3>1. CASE indicate /\ RxLength # 0 /\ Occupied < MaxMsgs
      <4>1. rx_mq' = Append(rx_mq, RxLength) /\ RxLength \in 1 .. bufsz - 1
        BY <1>3, <2>1, <3>1 DEF IsrNotify
      <4>2. rx_mq \in Seq(1 .. bufsz - 1) /\ Len(rx_mq) < MaxMsgs
        BY <3>1 DEF TypeOK, Occupied
      <4> QED BY <4>1, <4>2
    <3>2. CASE ~ (indicate /\ RxLength # 0 /\ Occupied < MaxMsgs)
      BY <1>3, <3>2 DEF IsrNotify, TypeOK
    <3> QED BY <3>1, <3>2
  <2>3. lost' \in BOOLEAN /\ in_isr' \in BOOLEAN
    BY <1>3 DEF IsrNotify, TypeOK
  <2>4. burst' = 0 /\ UNCHANGED <<fifo, opened, indicate, thread, left, got>>
    BY <1>3 DEF IsrNotify
  <2> QED BY <2>2, <2>3, <2>4, FifoSame DEF TypeOK
<1>4. CASE OtherOpen
  BY <1>4, FifoSame DEF OtherOpen, TypeOK
<1>5. CASE SetIndicate \/ Open \/ Parse
  BY <1>5, FifoSame DEF SetIndicate, Open, Parse, AfterParse, Step, TypeOK
<1>6. CASE Recv
  <2>1. Head(rx_mq) \in 1 .. bufsz - 1 /\ Tail(rx_mq) \in Seq(1 .. bufsz - 1)
        /\ Len(Tail(rx_mq)) <= MaxMsgs
    BY <1>6 DEF Recv, TypeOK
  <2> QED BY <1>6, <2>1, FifoSame DEF Recv, Step, TypeOK
<1>7. CASE Copied
  BY <1>7, FifoSame DEF Copied, Step, Limit, TypeOK
<1>8. CASE ReadChar
  <2>1. FifoTypeOK' /\ FullFlagIsExact'
    BY <1>8, GetStores DEF ReadChar, TypeOK
  <2>2. got' \in Byte \cup {NoByte}
    BY <1>8 DEF ReadChar, Oldest, TypeOK, FifoTypeOK
  <2> QED BY <1>8, <2>1, <2>2 DEF ReadChar, Step, TypeOK
<1>9. CASE ReadEnd
  BY <1>9, FifoSame DEF ReadEnd, Step, TypeOK
<1> QED BY <1>0, <1>1, <1>2, <1>3, <1>4, <1>5, <1>6, <1>7, <1>8, <1>9 DEF Next, Isr, Threads

\* For every size of the ring: however the handler and the reading thread
\* interleave, the indexes stay inside the ring and is_full is set only while
\* the ring holds bufsz - 1 bytes.
THEOREM RingIsInOrder == Spec => []ReceiverInv
BY ReceiverInit, ReceiverNext, PTL DEF Spec

-----------------------------------------------------------------------------
(* No byte is left behind.  What is stored is covered: by the bytes the    *)
(* thread may still read for the notification in its hands, by what the    *)
(* waiting notifications allow it to read, and by the notification the     *)
(* running handler will send.  c adds these allowances up.                 *)

InHand  == CASE thread = "copy" -> Limit(left) [] thread = "read" -> left [] OTHER -> 0
InBurst == IF in_isr THEN burst ELSE 0

Covers(c) == /\ c \in [0 .. Len(rx_mq) -> Nat]
             /\ c[0] = InHand
             /\ \A k \in 1 .. Len(rx_mq) : c[k] = c[k - 1] + Limit(rx_mq[k])
             /\ \A j, k \in 0 .. Len(rx_mq) : j <= k => c[j] <= c[k]
             /\ Stored <= c[Len(rx_mq)] + InBurst

Covered == lost \/ \E c : Covers(c)

\* The inductive invariant of the receive path.
RxInv == ReceiverInv /\ Covered

\* Nothing is stored at first.
LEMMA RxInit == Init => RxInv
<1> SUFFICES ASSUME Init PROVE RxInv
  OBVIOUS
<1>1. ReceiverInv
  BY ReceiverInit
<1>2. Stored = 0 /\ rx_mq = <<>> /\ InHand = 0 /\ InBurst = 0
  <2>1. put_index = 0 /\ get_index = 0 /\ FifoTypeOK
    BY <1>1 DEF Init, FifoInit, ReceiverInv, TypeOK
  <2> QED BY <2>1, StoredIs DEF Init, InHand, InBurst
<1>3. Covers([k \in 0 .. 0 |-> 0])
  BY <1>2 DEF Covers
<1> QED BY <1>1, <1>3 DEF RxInv, Covered

\* The numbers the allowances are made of.
LEMMA CoverTypes ==
  ASSUME ReceiverInv
  PROVE  /\ InHand \in Nat /\ InBurst \in Nat /\ InBurst <= Burst
         /\ Stored \in Nat /\ Len(rx_mq) \in Nat
         /\ \A k \in 1 .. Len(rx_mq) : rx_mq[k] \in 1 .. bufsz - 1
         /\ \A n \in 0 .. bufsz - 1 : Limit(n) \in 0 .. bufsz - 1
<1>1. \A n \in 0 .. bufsz - 1 : Limit(n) \in 0 .. bufsz - 1
  BY DEF Limit
<1>2. left \in 0 .. bufsz - 1 /\ burst \in 0 .. Burst /\ rx_mq \in Seq(1 .. bufsz - 1)
  BY DEF ReceiverInv, TypeOK
<1>3. Stored \in Nat
  BY StoredIs DEF ReceiverInv, TypeOK
<1>4. InHand \in Nat /\ InBurst \in Nat /\ InBurst <= Burst
  BY <1>1, <1>2 DEF InHand, InBurst
<1> QED BY <1>1, <1>2, <1>3, <1>4

\* A step that leaves the queue alone and takes d bytes from the allowance in
\* hand.
LEMMA CoverShift ==
  ASSUME ReceiverInv, NEW c, Covers(c), rx_mq' = rx_mq,
         NEW d \in Nat, d <= InHand, InHand' = InHand - d,
         Stored' <= c[Len(rx_mq)] - d + InBurst'
  PROVE  Covered'
<1> DEFINE n == Len(rx_mq)
           e == [k \in 0 .. n |-> c[k] - d]
<1>0. n \in Nat /\ InHand \in Nat /\ c \in [0 .. n -> Nat] /\ c[0] = InHand
  BY CoverTypes DEF Covers
<1>1. \A k \in 0 .. n : c[k] \in Nat /\ c[k] - d \in Nat
  BY <1>0 DEF Covers
<1>2. e \in [0 .. n -> Nat] /\ e[0] = InHand'
  BY <1>0, <1>1
<1>3. ASSUME NEW k \in 1 .. n PROVE e[k] = e[k - 1] + Limit(rx_mq[k])
  <2>1. Limit(rx_mq[k]) \in Nat
    BY CoverTypes
  <2>2. k \in 0 .. n /\ k - 1 \in 0 .. n
    BY <1>0
  <2>3. e[k] = c[k] - d /\ e[k - 1] = c[k - 1] - d /\ c[k] \in Nat /\ c[k - 1] \in Nat
    BY <1>1, <2>2
  <2>4. c[k] = c[k - 1] + Limit(rx_mq[k])
    BY DEF Covers
  <2> QED BY <2>1, <2>3, <2>4
<1>4. \A j, k \in 0 .. n : j <= k => e[j] <= e[k]
  <2>1. \A k \in 0 .. n : e[k] = c[k] - d
    OBVIOUS
  <2> HIDE DEF e
  <2> QED BY <1>0, <1>1, <2>1 DEF Covers
<1>5. Stored' <= e[n] + InBurst'
  BY <1>0
<1>6. PICK f : f = e
  OBVIOUS
<1>7. Covers(f)'
  <2> HIDE DEF e
  <2> QED BY <1>2, <1>3, <1>4, <1>5, <1>6 DEF Covers, Limit
<1> QED BY <1>7 DEF Covered

\* The notification of the handler covers what it has stored: it announces all
\* that is stored, and as much as one burst is read for it.
LEMMA CoverNotify ==
  ASSUME ReceiverInv, Covered, IsrNotify
  PROVE  Covered'
<1>0. RxLength = Stored /\ Stored \in 0 .. bufsz - 1 /\ Stored' = Stored
  BY RxLengthIsStored, StoredIs, FifoSame DEF ReceiverInv, TypeOK, IsrNotify
<1>1. CASE lost'
  BY <1>1 DEF Covered
<1>2. CASE ~ lost'
  <2>1. ~ lost
    BY <1>2 DEF IsrNotify
  <2>2. PICK c : Covers(c)
    BY <2>1 DEF Covered
  <2> DEFINE n == Len(rx_mq)
  <2>3. /\ InHand' = InHand /\ InHand \in Nat /\ n \in Nat
        /\ InBurst' = 0 /\ InBurst \in Nat /\ InBurst <= Burst
    BY CoverTypes DEF IsrNotify, InHand, InBurst, Limit
  <2>4. c \in [0 .. n -> Nat] /\ c[n] \in Nat /\ Stored <= c[n] + InBurst
    BY <2>2, <2>3 DEF Covers
  <2>5. CASE rx_mq' = Append(rx_mq, RxLength)
    <3> DEFINE e == [k \in 0 .. n + 1 |-> IF k = n + 1 THEN c[n] + Limit(Stored) ELSE c[k]]
    <3>1. /\ Len(rx_mq') = n + 1 /\ rx_mq'[n + 1] = Stored
          /\ \A k \in 1 .. n : rx_mq'[k] = rx_mq[k]
      BY <1>0, <2>5 DEF ReceiverInv, TypeOK
    <3>2. Limit(Stored) \in Nat /\ (Limit(Stored) = Stored \/ Limit(Stored) >= Burst)
      BY <1>0 DEF Limit
    <3>3. e \in [0 .. n + 1 -> Nat]
      BY <2>3, <2>4, <3>2
    <3>4. e[n + 1] = c[n] + Limit(Stored) /\ \A k \in 0 .. n : e[k] = c[k]
      BY <2>3
    <3> HIDE DEF e
    <3>5. ASSUME NEW k \in 1 .. n + 1 PROVE e[k] = e[k - 1] + Limit(rx_mq'[k])
      <4>1. CASE k = n + 1
        BY <2>3, <3>1, <3>4, <4>1
      <4>2. CASE k \in 1 .. n
        BY <2>2, <2>3, <3>1, <3>4, <4>2 DEF Covers
      <4> QED BY <2>3, <4>1, <4>2
    <3>6. ASSUME NEW j \in 0 .. n + 1, NEW k \in 0 .. n + 1, j <= k PROVE e[j] <= e[k]
      <4>1. CASE k \in 0 .. n
        BY <2>2, <2>3, <3>4, <3>6, <4>1 DEF Covers
      <4>2. CASE k = n + 1 /\ j \in 0 .. n
        <5>0. j \in 0 .. n /\ n \in 0 .. n /\ j <= n
          BY <2>3, <4>2
        <5>1. c[j] <= c[n] /\ c[j] \in Nat
          BY <2>2, <2>4, <5>0 DEF Covers
        <5>2. e[j] = c[j] /\ e[k] = c[n] + Limit(Stored)
          BY <3>4, <4>2
        <5> QED BY <2>4, <3>2, <5>1, <5>2
      <4>3. CASE j = n + 1 /\ k = n + 1
        BY <3>3, <4>3
      <4> QED BY <2>3, <3>6, <4>1, <4>2, <4>3
    <3>7. Stored' <= e[n + 1] + InBurst'
      BY <1>0, <2>3, <2>4, <3>2, <3>4
    <3>8. e[0] = InHand'
      BY <2>2, <2>3, <3>4 DEF Covers
    <3>9. PICK f : f = e
      OBVIOUS
    <3>10. Covers(f)'
      BY <3>1, <3>3, <3>5, <3>6, <3>7, <3>8, <3>9 DEF Covers, Limit
    <3> QED BY <3>10 DEF Covered
  <2>6. CASE rx_mq' # Append(rx_mq, RxLength)
    <3>1. Stored = 0 /\ rx_mq' = rx_mq
      <4>1. ~ (indicate /\ RxLength # 0 /\ Occupied < MaxMsgs)
        BY <2>6 DEF IsrNotify
      <4>2. lost' = (lost \/ RxLength # 0) /\ rx_mq' = rx_mq
        BY <4>1 DEF IsrNotify
      <4> QED BY <1>0, <1>2, <4>2
    <3> QED BY <1>0, <2>2, <2>3, <2>4, <3>1, CoverShift
  <2> QED BY <2>5, <2>6
<1> QED BY <1>1, <1>2

\* The thread takes a notification: its allowance is now the one in hand.
LEMMA CoverRecv ==
  ASSUME ReceiverInv, Covered, Recv
  PROVE  Covered'
<1>1. CASE lost
  BY <1>1 DEF Recv, Covered
<1>2. CASE ~ lost
  <2>1. PICK c : Covers(c)
    BY <1>2 DEF Covered
  <2> DEFINE n == Len(rx_mq)
             e == [k \in 0 .. n - 1 |-> c[k + 1]]
  <2>2. /\ n \in Nat /\ n > 0 /\ c \in [0 .. n -> Nat] /\ c[0] = 0
        /\ Head(rx_mq) = rx_mq[1] /\ rx_mq[1] \in 1 .. bufsz - 1
    BY <2>1 DEF Covers, Recv, Step, InHand, ReceiverInv, TypeOK
  <2>3. /\ Len(rx_mq') = n - 1
        /\ \A k \in 1 .. n - 1 : rx_mq'[k] = rx_mq[k + 1]
    BY DEF Recv, ReceiverInv, TypeOK
  <2>4. InHand' = Limit(rx_mq[1]) /\ Stored' = Stored /\ InBurst' = InBurst
    BY <2>2, FifoSame DEF Recv, Step, InHand, InBurst, Limit
  <2>5. c[1] = Limit(rx_mq[1]) /\ Limit(rx_mq[1]) \in Nat
    <3>1. c[1] = c[1 - 1] + Limit(rx_mq[1]) /\ Limit(rx_mq[1]) \in Nat
      BY <2>1, <2>2, CoverTypes DEF Covers
    <3> QED BY <2>2, <3>1
  <2>6. e \in [0 .. n - 1 -> Nat] /\ \A k \in 0 .. n - 1 : e[k] = c[k + 1]
    BY <2>2
  <2> HIDE DEF e
  <2>7. ASSUME NEW k \in 1 .. n - 1 PROVE e[k] = e[k - 1] + Limit(rx_mq'[k])
    <3>1. c[k + 1] = c[(k + 1) - 1] + Limit(rx_mq[k + 1])
      BY <2>1, <2>2 DEF Covers
    <3>2. (k + 1) - 1 = k /\ e[k - 1] = c[k] /\ e[k] = c[k + 1]
      BY <2>2, <2>6
    <3> QED BY <2>3, <3>1, <3>2
  <2>8. \A j, k \in 0 .. n - 1 : j <= k => e[j] <= e[k]
    BY <2>1, <2>2, <2>6 DEF Covers
  <2>9. Stored' <= e[n - 1] + InBurst'
    BY <2>1, <2>2, <2>4, <2>6 DEF Covers
  <2>10. PICK f : f = e
    OBVIOUS
  <2>11. e[0] = InHand'
    BY <2>2, <2>4, <2>5, <2>6
  <2>12. Covers(f)'
    BY <2>3, <2>6, <2>7, <2>8, <2>9, <2>10, <2>11 DEF Covers, Limit
  <2> QED BY <2>12 DEF Covered
<1> QED BY <1>1, <1>2

\* Every step keeps the stored bytes covered.
LEMMA RxNext == RxInv /\ [Next]_vars => RxInv'
<1> SUFFICES ASSUME RxInv, [Next]_vars PROVE Covered'
  BY ReceiverNext DEF RxInv
<1> USE DEF RxInv
<1>1. CASE lost
  <2>1. lost'
    BY <1>1 DEF Next, Isr, Threads, IsrEnter, IsrPut, IsrNotify, OtherOpen, SetIndicate, Open,
                Recv, Copied, ReadChar, ReadEnd, Parse, vars, rest
  <2> QED BY <2>1 DEF Covered
<1>2. CASE ~ lost
  <2>1. PICK c : Covers(c)
    BY <1>2 DEF Covered
  <2>2. /\ InHand \in Nat /\ InBurst \in Nat /\ Stored \in Nat /\ Len(rx_mq) \in Nat
        /\ c[Len(rx_mq)] \in Nat /\ Stored <= c[Len(rx_mq)] + InBurst
        /\ InHand <= c[Len(rx_mq)]
    BY <2>1, CoverTypes DEF Covers
  <2>3. ASSUME rx_mq' = rx_mq, InHand' = InHand, Stored' = Stored, InBurst' = InBurst
        PROVE  Covered'
    BY <2>1, <2>2, <2>3, CoverShift
  <2>4. CASE UNCHANGED vars
    BY <2>3, <2>4, FifoSame DEF vars, rest, InHand, InBurst, Limit
  <2>5. CASE IsrEnter \/ OtherOpen
    BY <2>3, <2>5, FifoSame DEF IsrEnter, OtherOpen, InHand, InBurst, Limit
  <2>6. ASSUME NEW b \in Byte, IsrPut(b) PROVE Covered'
    <3>1. Stored' <= Stored + 1
      BY <2>6, PutStores, StoredIs DEF IsrPut, ReceiverInv, TypeOK
    <3>2. InBurst' = InBurst + 1 /\ InHand' = InHand /\ rx_mq' = rx_mq
      BY <2>6 DEF IsrPut, InBurst, InHand, Limit
    <3>3. Stored' \in Int
      BY <2>6, PutStores, StoredIsNext DEF IsrPut, ReceiverInv, TypeOK
    <3> QED BY <2>1, <2>2, <3>1, <3>2, <3>3, CoverShift
  <2>7. CASE IsrNotify
    BY <2>7, CoverNotify
  <2>8. CASE SetIndicate \/ Open \/ Parse
    BY <2>3, <2>8, FifoSame DEF SetIndicate, Open, Parse, AfterParse, Step, InHand, InBurst
  <2>9. CASE Recv
    BY <2>9, CoverRecv
  <2>10. CASE Copied
    BY <2>3, <2>10, FifoSame DEF Copied, Step, InHand, InBurst
  <2>11. CASE ReadChar
    <3>1. Stored' = Stored - 1
      BY <2>11, GetStores DEF ReadChar, ReceiverInv, TypeOK
    <3>2. InHand > 0 /\ InHand' = InHand - 1 /\ InBurst' = InBurst /\ rx_mq' = rx_mq
      BY <2>11 DEF ReadChar, Step, InHand, InBurst
    <3> QED BY <2>1, <2>2, <3>1, <3>2, CoverShift
  <2>12. CASE ReadEnd
    <3>1. InHand' = InHand - InHand /\ InBurst = 0 /\ InBurst' = 0 /\ rx_mq' = rx_mq
      BY <2>2, <2>12 DEF ReadEnd, Step, InHand, InBurst
    <3>2. InHand = 0 \/ Stored = 0
      BY <2>12, NoDataIsEmpty DEF ReadEnd, Step, InHand, ReceiverInv, TypeOK
    <3>3. Stored' = Stored
      BY <2>12, FifoSame DEF ReadEnd
    <3> QED BY <2>1, <2>2, <3>1, <3>2, <3>3, CoverShift
  <2> QED BY <2>4, <2>5, <2>6, <2>7, <2>8, <2>9, <2>10, <2>11, <2>12 DEF Next, Isr, Threads
<1> QED BY <1>1, <1>2

\* For every capacity: unless a notification was lost, a thread that has worked
\* off its notifications has left no byte in the ring, whatever it read of each
\* and whenever the handler came between.
THEOREM NoStrandedByte == Spec => []StrandedOnlyAfterLoss
<1>1. RxInv => StrandedOnlyAfterLoss
  <2> SUFFICES ASSUME RxInv, thread = "recv", rx_mq = <<>>, ~ in_isr, ~ lost PROVE Stored = 0
    BY DEF StrandedOnlyAfterLoss
  <2>1. PICK c : Covers(c)
    BY DEF RxInv, Covered
  <2>2. Stored \in Nat /\ c[0] = 0 /\ Stored <= c[0] + 0
    BY <2>1, CoverTypes DEF RxInv, Covers, InHand, InBurst
  <2> QED BY <2>2
<1> QED BY <1>1, RxInit, RxNext, PTL DEF Spec

-----------------------------------------------------------------------------
(* The ring is a stream of bytes that discards the oldest.                 *)

\* A function on 1 .. n is a sequence of length n.
LEMMA FunctionIsSeq ==
  ASSUME NEW S, NEW n \in Nat, NEW q \in [1 .. n -> S]
  PROVE  q \in Seq(S) /\ Len(q) = n
OBVIOUS

\* The positions of the unread bytes are positions of the ring.
LEMMA WrapInRing ==
  ASSUME NEW n \in 0 .. bufsz - 1, NEW o \in 0 .. bufsz - 1, NEW i \in 1 .. n
  PROVE  Wrap(o + i - 1) \in 0 .. bufsz - 1
BY DEF Wrap

\* The unread bytes as a sequence.
LEMMA UnreadType ==
  ASSUME FifoTypeOK
  PROVE  /\ Unread \in Seq(Byte \cup {NoByte})
         /\ Len(Unread) = Stored
         /\ \A i \in 1 .. Stored : Unread[i] = buffer[Wrap(get_index + i - 1)]
<1>1. Stored \in 0 .. bufsz - 1 /\ get_index \in 0 .. bufsz - 1 /\ Stored \in Nat
  BY StoredIs DEF FifoTypeOK
<1>2. \A i \in 1 .. Stored : Wrap(get_index + i - 1) \in 0 .. bufsz - 1
  BY <1>1, WrapInRing
<1>3. \A i \in 1 .. Stored : buffer[Wrap(get_index + i - 1)] \in Byte \cup {NoByte}
  BY <1>2 DEF FifoTypeOK
<1>4. Unread \in [1 .. Stored -> Byte \cup {NoByte}]
  BY <1>3 DEF Unread
<1>5. Unread \in Seq(Byte \cup {NoByte}) /\ Len(Unread) = Stored
  BY <1>1, <1>4, FunctionIsSeq
<1>6. \A i \in 1 .. Stored : Unread[i] = buffer[Wrap(get_index + i - 1)]
  BY DEF Unread
<1> QED BY <1>5, <1>6

\* The same after a step.
LEMMA UnreadTypeNext ==
  ASSUME FifoTypeOK'
  PROVE  /\ Unread' \in Seq(Byte \cup {NoByte})
         /\ Len(Unread') = Stored'
         /\ \A i \in 1 .. Stored' : Unread'[i] = buffer'[Wrap(get_index' + i - 1)]
<1>1. Stored' \in 0 .. bufsz - 1 /\ get_index' \in 0 .. bufsz - 1 /\ Stored' \in Nat
  BY StoredIsNext DEF FifoTypeOK
<1>2. \A i \in 1 .. Stored' : Wrap(get_index' + i - 1) \in 0 .. bufsz - 1
  BY <1>1, WrapInRing
<1>3. \A i \in 1 .. Stored' : buffer'[Wrap(get_index' + i - 1)] \in Byte \cup {NoByte}
  BY <1>2 DEF FifoTypeOK
<1>4. Unread' = [i \in 1 .. Stored' |-> buffer'[Wrap(get_index' + i - 1)]]
  BY DEF Unread, Wrap
<1>5. Unread' \in [1 .. Stored' -> Byte \cup {NoByte}]
  BY <1>3, <1>4
<1>6. Unread' \in Seq(Byte \cup {NoByte}) /\ Len(Unread') = Stored'
  BY <1>1, <1>5, FunctionIsSeq
<1>7. \A i \in 1 .. Stored' : Unread'[i] = buffer'[Wrap(get_index' + i - 1)]
  BY <1>4
<1> QED BY <1>6, <1>7

\* The byte read is the first of the unread ones and leaves them.
LEMMA GetTakesHead ==
  ASSUME FifoTypeOK, FullFlagIsExact, GetChar
  PROVE  Unread # <<>> /\ Oldest = Head(Unread) /\ Unread' = Tail(Unread)
<1>0. /\ Stored > 0 /\ Stored \in Nat /\ Stored' = Stored - 1 /\ FifoTypeOK'
      /\ Unread \in Seq(Byte \cup {NoByte}) /\ Len(Unread) = Stored
      /\ Unread' \in Seq(Byte \cup {NoByte}) /\ Len(Unread') = Stored - 1
  BY GetStores, StoredIs, UnreadType, UnreadTypeNext
<1>1. Unread # <<>> /\ Head(Unread) = Unread[1]
      /\ Tail(Unread) \in Seq(Byte \cup {NoByte}) /\ Len(Tail(Unread)) = Stored - 1
  BY <1>0
<1>2. Oldest = Unread[1]
  <2>1. Wrap(get_index + 1 - 1) = get_index
    BY DEF Wrap, FifoTypeOK
  <2> QED BY <1>0, <2>1, UnreadType DEF Oldest
<1>3. ASSUME NEW i \in 1 .. Stored - 1 PROVE Unread'[i] = Tail(Unread)[i]
  <2>1. Wrap(get_index' + i - 1) = Wrap(get_index + (i + 1) - 1)
    BY <1>0, StoredIs DEF Wrap, FifoTypeOK, GetChar, Advance
  <2>2. Unread'[i] = buffer'[Wrap(get_index' + i - 1)] /\ buffer' = buffer
    BY <1>0, UnreadTypeNext DEF GetChar
  <2>3. Tail(Unread)[i] = Unread[i + 1]
    BY <1>0, <1>1
  <2>4. Unread[i + 1] = buffer[Wrap(get_index + (i + 1) - 1)]
    BY <1>0, UnreadType
  <2> QED BY <2>1, <2>2, <2>3, <2>4
<1>4. Unread' = Tail(Unread)
  BY <1>0, <1>1, <1>3, SeqEqual
<1> QED BY <1>1, <1>2, <1>4

\* A byte that arrives in a ring that is not full becomes the last unread one.
LEMMA PutAppends ==
  ASSUME FifoTypeOK, NEW c \in Byte, PutChar(c), Stored < bufsz - 1
  PROVE  Unread' = Append(Unread, c)
<1>0. /\ Stored \in Nat /\ Stored' = Stored + 1 /\ FifoTypeOK' /\ get_index' = get_index
      /\ Unread \in Seq(Byte \cup {NoByte}) /\ Len(Unread) = Stored
      /\ Unread' \in Seq(Byte \cup {NoByte}) /\ Len(Unread') = Stored + 1
  BY PutStores, StoredIs, UnreadType, UnreadTypeNext
<1>1. /\ Append(Unread, c) \in Seq(Byte \cup {NoByte})
      /\ Len(Append(Unread, c)) = Stored + 1
      /\ Append(Unread, c)[Stored + 1] = c
      /\ \A i \in 1 .. Stored : Append(Unread, c)[i] = Unread[i]
  BY <1>0
<1>2. \A i \in 1 .. Stored + 1 : Unread'[i] = buffer'[Wrap(get_index + i - 1)]
  BY <1>0, UnreadTypeNext
<1>3. ASSUME NEW i \in 1 .. Stored + 1 PROVE Unread'[i] = Append(Unread, c)[i]
  <2>0. buffer' = [buffer EXCEPT ![put_index] = c] /\ put_index \in DOMAIN buffer
    BY DEF PutChar, FifoTypeOK
  <2>1. CASE i = Stored + 1
    <3>1. Wrap(get_index + i - 1) = put_index
      BY <2>1, StoredIs DEF FifoTypeOK, Wrap
    <3> QED BY <1>1, <1>2, <2>0, <2>1, <3>1
  <2>2. CASE i \in 1 .. Stored
    <3>1. Wrap(get_index + i - 1) # put_index
      BY <2>2, StoredIs DEF FifoTypeOK, Wrap
    <3>2. Unread[i] = buffer[Wrap(get_index + i - 1)]
      BY <2>2, UnreadType
    <3>3. Wrap(get_index + i - 1) \in DOMAIN buffer
      BY <2>2, StoredIs, WrapInRing DEF FifoTypeOK
    <3> QED BY <1>1, <1>2, <2>0, <2>2, <3>1, <3>2, <3>3
  <2> QED BY <1>0, <2>1, <2>2
<1> QED BY <1>0, <1>1, <1>3, SeqEqual

\* A byte that arrives in a full ring takes the place of the oldest one.
LEMMA PutDiscards ==
  ASSUME FifoTypeOK, NEW c \in Byte, PutChar(c), Stored = bufsz - 1
  PROVE  Unread' = Append(Tail(Unread), c)
<1>0. /\ Stored \in Nat /\ Stored > 0 /\ Stored' = Stored /\ FifoTypeOK'
      /\ get_index' = Advance(get_index)
      /\ Unread \in Seq(Byte \cup {NoByte}) /\ Len(Unread) = Stored
      /\ Unread' \in Seq(Byte \cup {NoByte}) /\ Len(Unread') = Stored
  BY PutStores, StoredIs, UnreadType, UnreadTypeNext
<1>1. /\ Append(Tail(Unread), c) \in Seq(Byte \cup {NoByte})
      /\ Len(Append(Tail(Unread), c)) = Stored
      /\ Append(Tail(Unread), c)[Stored] = c
      /\ \A i \in 1 .. Stored - 1 : Append(Tail(Unread), c)[i] = Unread[i + 1]
  <2>1. /\ Tail(Unread) \in Seq(Byte \cup {NoByte}) /\ Len(Tail(Unread)) = Stored - 1
        /\ \A i \in 1 .. Stored - 1 : Tail(Unread)[i] = Unread[i + 1]
    BY <1>0
  <2> QED BY <1>0, <2>1
<1>2. \A i \in 1 .. Stored : Unread'[i] = buffer'[Wrap(Advance(get_index) + i - 1)]
  BY <1>0, UnreadTypeNext
<1>3. ASSUME NEW i \in 1 .. Stored PROVE Unread'[i] = Append(Tail(Unread), c)[i]
  <2>0. buffer' = [buffer EXCEPT ![put_index] = c] /\ put_index \in DOMAIN buffer
    BY DEF PutChar, FifoTypeOK
  <2>1. CASE i = Stored
    <3>1. Wrap(Advance(get_index) + i - 1) = put_index
      BY <2>1, StoredIs DEF FifoTypeOK, Wrap, Advance
    <3> QED BY <1>1, <1>2, <2>0, <2>1, <3>1
  <2>2. CASE i \in 1 .. Stored - 1
    <3>1. /\ Wrap(Advance(get_index) + i - 1) # put_index
          /\ Wrap(Advance(get_index) + i - 1) = Wrap(get_index + (i + 1) - 1)
      BY <2>2, StoredIs DEF FifoTypeOK, Wrap, Advance
    <3>2. i + 1 \in 1 .. Stored
      BY <1>0, <2>2
    <3>3. /\ Unread[i + 1] = buffer[Wrap(get_index + (i + 1) - 1)]
          /\ Wrap(get_index + (i + 1) - 1) \in DOMAIN buffer
      BY <3>2, UnreadType, StoredIs, WrapInRing DEF FifoTypeOK
    <3> QED BY <1>1, <1>2, <2>0, <2>2, <3>1, <3>3
  <2> QED BY <1>0, <2>1, <2>2
<1> QED BY <1>0, <1>1, <1>3, SeqEqual

\* For every capacity: the receiver, with the handler's writes between any two
\* of the thread's reads, implements the stream of bytes of module ByteStream:
\* in order, each byte once, only the oldest discarded.
THEOREM ReceiverIsByteStream == Spec => IsByteStream
<1>1. Init => B!BInit
  <2> SUFFICES ASSUME Init PROVE Unread = <<>> /\ got = NoByte
    BY DEF B!BInit
  <2>1. FifoTypeOK /\ put_index = get_index
    BY ReceiverInit DEF ReceiverInv, TypeOK, Init, FifoInit
  <2>2. Stored = 0
    BY <2>1, StoredIs DEF FifoTypeOK
  <2>3. Unread \in Seq(Byte \cup {NoByte}) /\ Len(Unread) = 0
    BY <2>1, <2>2, UnreadType
  <2> QED BY <2>3 DEF Init
<1>2. ReceiverInv /\ [Next]_vars => [B!Take \/ \E c \in Byte : B!Put(c)]_(B!bvars)
  <2> SUFFICES ASSUME ReceiverInv, [Next]_vars
               PROVE  B!Take \/ (\E c \in Byte : B!Put(c)) \/ (Unread' = Unread /\ got' = got)
    BY DEF B!bvars
  <2>0. FifoTypeOK /\ FullFlagIsExact
    BY DEF ReceiverInv, TypeOK
  <2>1. CASE UNCHANGED vars
    BY <2>1, FifoSame DEF vars, rest
  <2>2. CASE IsrEnter \/ IsrNotify \/ SetIndicate \/ Open \/ Recv \/ Copied \/ ReadEnd \/ Parse \/ OtherOpen
    BY <2>2, FifoSame
       DEF IsrEnter, IsrNotify, SetIndicate, Open, Recv, Copied, ReadEnd, Parse, OtherOpen
  <2>3. ASSUME NEW c \in Byte, IsrPut(c) PROVE B!Put(c)
    <3>1. PutChar(c) /\ got' = got
      BY <2>3 DEF IsrPut
    <3>2. Len(Unread) = Stored /\ Stored \in 0 .. bufsz - 1
      BY <2>0, UnreadType, StoredIs
    <3>3. CASE Stored < bufsz - 1
      BY <2>0, <3>1, <3>2, <3>3, PutAppends DEF B!Put
    <3>4. CASE Stored = bufsz - 1
      BY <2>0, <3>1, <3>2, <3>4, PutDiscards DEF B!Put
    <3> QED BY <3>2, <3>3, <3>4
  <2>4. CASE ReadChar
    BY <2>0, <2>4, GetTakesHead DEF ReadChar, B!Take
  <2> QED BY <2>1, <2>2, <2>3, <2>4 DEF Next, Isr, Threads
<1> QED BY <1>1, <1>2, RingIsInOrder, PTL DEF Spec, IsByteStream, B!BSpec

-----------------------------------------------------------------------------
(* The camera service, which reads its batches through such a receiver.   *)

\* While the flag is set or the phone is about to be told, one face more was
\* seen than the phone knows of.  Between the answer and the clearing of the
\* flag nothing is owed: a face seen then is forgotten.
FaceIsOwed == (phone = "tell" \/ (phone = "idle" /\ face_flag)) => told < faces

\* While the phone has its answer and the flag is not cleared yet, no face was
\* forgotten for this answer.
AnswerPays == phone = "clear" => forgotten < told

CameraCore == CameraInv /\ FaceIsOwed /\ FaceIsKept /\ AnswerPays

\* A read batch is a sequence of reports.
LEMMA BatchIsReports ==
  ASSUME NEW b \in Batch
  PROVE  b \in Seq(Report)
BY DEF Batch

\* The types, the flags apart.
CameraFlags == /\ light \in BOOLEAN /\ face_flag \in BOOLEAN /\ frozen \in BOOLEAN
               /\ unanswered \in BOOLEAN
CameraRest ==
    /\ pending \in Seq(Batch) /\ Len(pending) <= MaxPending
    /\ openmv \in {"none", "recv", "timeout", "parse", "light_on"}
    /\ todo \in Seq(Report)
    /\ user_num_flag \in 0 .. 2
    /\ screen \in Seq(User) /\ Len(screen) <= ScreenSize
    /\ shown \in {"none", "recv", "delay"}
    /\ phone \in {"idle", "tell", "clear"}
    /\ faces \in Nat /\ told \in Nat /\ forgotten \in Nat
    /\ starts \in 0 .. MaxStarts

\* Together they are the type invariant.
LEMMA CameraTypeIs == CameraTypeOK <=> CameraFlags /\ CameraRest
BY Zenon DEF CameraTypeOK, CameraFlags, CameraRest

\* The same after a step.
LEMMA CameraTypeIsNext == CameraTypeOK' <=> CameraFlags' /\ CameraRest'
BY CameraTypeIs, PTL

\* The flags stay truth values.
LEMMA CameraFlagsNext ==
  ASSUME CameraFlags, [CameraNext]_camera_vars
  PROVE  CameraFlags'
<1> USE DEF CameraFlags
<1>1. CASE UNCHANGED camera_vars
  BY <1>1 DEF camera_vars, answers
<1>2. CASE Start
  <2>1. UNCHANGED <<light, face_flag, unanswered>> /\ (frozen' = TRUE \/ frozen' = frozen)
    BY <1>2, Zenon DEF Start, answers
  <2> QED BY <2>1, Zenon
<1>3. CASE \/ \E b \in Batch : Arrive(b)
           \/ CameraTimeout \/ CameraRecv \/ Identify \/ Registered \/ ParseEnd \/ Screen \/ Ask
  BY <1>3, Zenon DEF Arrive, CameraTimeout, CameraRecv, Identify, Registered, ParseEnd, Screen,
                     Ask, answers
<1>4. CASE Silence \/ LightOn \/ See \/ Tell \/ Clear
  BY <1>4, Zenon DEF Silence, LightOn, See, Tell, Clear, LightAfterReport, FlagAfterTell, answers
<1> QED BY <1>1, <1>2, <1>3, <1>4, Zenon DEF CameraNext, Camera, Phone

\* The other types, one action at a time.
LEMMA CameraRestNext ==
  ASSUME CameraRest, [CameraNext]_camera_vars
  PROVE  CameraRest'
<1> USE UserAssumption, BatchAssumption, FacesAssumption, ScreenAssumption DEF CameraRest
<1>1. CASE UNCHANGED camera_vars
  BY <1>1 DEF camera_vars, answers
<1>2. CASE Start
  <2>1. /\ starts < MaxStarts /\ starts' = starts + 1
        /\ openmv' \in {"none", "recv", openmv} /\ shown' \in {"none", "recv", shown}
        /\ UNCHANGED <<pending, todo, user_num_flag, screen, phone, faces, told, forgotten>>
    BY <1>2, Zenon DEF Start, answers
  <2> QED BY <2>1
<1>3. ASSUME NEW b \in Batch, Arrive(b) PROVE CameraRest'
  BY <1>3 DEF Arrive, answers
<1>4. CASE CameraRecv
  <2>1. Head(pending) \in Batch /\ Tail(pending) \in Seq(Batch) /\ Len(Tail(pending)) <= MaxPending
    BY <1>4 DEF CameraRecv
  <2> QED BY <1>4, <2>1, BatchIsReports DEF CameraRecv, CameraStep, answers
<1>5. CASE Identify
  <2>1. Head(todo) \in Report /\ Tail(todo) \in Seq(Report) /\ Head(todo).kind = "id"
    BY <1>5 DEF Identify
  <2>2. Head(todo).user \in User
    BY <2>1 DEF Report, Id
  <2> QED BY <1>5, <2>1, <2>2 DEF Identify, CameraStep, ShownUser, answers
<1>6. CASE See \/ Registered
  <2>1. Tail(todo) \in Seq(Report)
    BY <1>6 DEF See, Registered
  <2>2. /\ todo' = Tail(todo) /\ openmv' \in {"light_on", "parse"} /\ faces' \in {faces, faces + 1}
        /\ UNCHANGED <<pending, user_num_flag, screen, shown, phone, told, forgotten, starts>>
    BY <1>6, Zenon DEF See, Registered, CameraStep, answers
  <2> QED BY <2>1, <2>2
<1>7. CASE CameraTimeout \/ Silence \/ LightOn \/ ParseEnd
  <2>1. /\ openmv' \in {"recv", "timeout", "parse"}
        /\ UNCHANGED <<pending, todo, user_num_flag, screen, shown, phone, faces, told,
                       forgotten, starts>>
    BY <1>7, Zenon DEF CameraTimeout, Silence, AfterSilence, LightOn, ParseEnd, CameraStep, answers
  <2> QED BY <2>1
<1>8. CASE Screen
  <2>1. /\ (screen # <<>> /\ screen' = Tail(screen)) \/ screen' = screen
        /\ shown' \in {"recv", "delay"}
        /\ UNCHANGED <<pending, openmv, todo, user_num_flag, phone, faces, told, forgotten, starts>>
    BY <1>8, Zenon DEF Screen, answers
  <2>2. screen # <<>> => Tail(screen) \in Seq(User) /\ Len(Tail(screen)) = Len(screen) - 1
    OBVIOUS
  <2>3. ASSUME NEW s \in Seq(User), Len(s) = Len(screen) - 1 PROVE Len(s) <= ScreenSize
    BY <2>3
  <2>4. screen' \in Seq(User) /\ Len(screen') <= ScreenSize
    BY <2>1, <2>2, <2>3
  <2> QED BY <2>1, <2>4
<1>9. CASE Phone
  <2>1. /\ phone' \in {"idle", "tell", "clear"} /\ told' \in {told, told + 1}
        /\ forgotten' \in {forgotten, forgotten + 1}
        /\ UNCHANGED <<pending, openmv, todo, user_num_flag, screen, shown, faces, starts>>
    BY <1>9, Zenon DEF Phone, Ask, AfterAsk, Tell, Clear, PhoneStep, answers
  <2> QED BY <2>1
<1> QED BY <1>1, <1>2, <1>3, <1>4, <1>5, <1>6, <1>7, <1>8, <1>9 DEF CameraNext, Camera

\* The invariant of the camera service holds in the beginning.
LEMMA CameraCoreInit ==
  ASSUME CameraInit
  PROVE  CameraCore
<1>1. CameraFlags
  BY Zenon DEF CameraInit, CameraFlags
<1>2. CameraRest /\ told <= faces
  BY BatchAssumption, FacesAssumption, ScreenAssumption DEF CameraInit, CameraRest
<1>3. FaceIsOwed /\ FaceIsKept /\ AnswerPays
  BY DEF CameraInit, FaceIsOwed, FaceIsKept, AnswerPays
<1> QED BY <1>1, <1>2, <1>3, CameraTypeIs DEF CameraCore, CameraInv, ToldOnlyOfFaces

\* Every step keeps it.
LEMMA CameraCoreNext ==
  ASSUME CameraCore, [CameraNext]_camera_vars
  PROVE  CameraCore'
<1>1. CameraTypeOK'
  BY CameraTypeIs, CameraTypeIsNext, CameraFlagsNext, CameraRestNext DEF CameraCore, CameraInv
<1>2. /\ faces \in Nat /\ told \in Nat /\ forgotten \in Nat
      /\ told <= faces /\ FaceIsOwed /\ forgotten <= told /\ AnswerPays
      /\ phone \in {"idle", "tell", "clear"}
  BY DEF CameraCore, CameraInv, CameraTypeOK, ToldOnlyOfFaces, FaceIsKept
<1>3. unanswered /\ phone # "clear" => face_flag
  BY Zenon DEF CameraCore, FaceIsKept
<1>4. UNCHANGED <<phone, face_flag, told, faces, unanswered, forgotten>> \/ See \/ Phone
  BY DEF CameraNext, Camera, camera_vars, Start, Arrive, CameraTimeout, Silence, CameraRecv,
         Identify, LightOn, Registered, ParseEnd, Screen, answers
<1>5. ToldOnlyOfFaces' /\ FaceIsOwed'
  <2>1. CASE UNCHANGED <<phone, face_flag, told, faces, unanswered, forgotten>>
    BY <1>2, <2>1 DEF FaceIsOwed, ToldOnlyOfFaces
  <2>2. CASE See \/ Phone
    BY <1>2, <2>2 DEF See, Phone, Ask, AfterAsk, Tell, Clear, PhoneStep, FlagAfterTell, answers,
                      FaceIsOwed, ToldOnlyOfFaces
  <2> QED BY <1>4, <2>1, <2>2
<1>6. forgotten' <= told' /\ AnswerPays'
  <2>1. CASE UNCHANGED <<phone, face_flag, told, faces, unanswered, forgotten>>
    BY <1>2, <2>1 DEF AnswerPays
  <2>2. CASE See \/ Phone
    BY <1>2, <2>2 DEF See, Phone, Ask, AfterAsk, Tell, Clear, PhoneStep, answers, AnswerPays
  <2> QED BY <1>4, <2>1, <2>2
<1>7. unanswered' /\ phone' # "clear" => face_flag'
  <2>1. CASE UNCHANGED <<phone, face_flag, told, faces, unanswered, forgotten>>
    BY <1>3, <2>1, Zenon
  <2>2. CASE See
    BY <2>2, Zenon DEF See
  <2>3. CASE Ask
    <3>1. phone = "idle" /\ UNCHANGED <<unanswered, face_flag>>
      BY <2>3, Zenon DEF Ask, PhoneStep, answers
    <3>2. phone # "clear"
      BY <3>1
    <3> QED BY <1>3, <3>1, <3>2, Zenon
  <2>4. CASE Tell \/ Clear
    BY <2>4, Zenon DEF Tell, Clear
  <2> QED BY <1>4, <2>1, <2>2, <2>3, <2>4 DEF Phone
<1>8. FaceIsKept'
  BY <1>6, <1>7, Zenon DEF FaceIsKept
<1> QED BY <1>1, <1>5, <1>6, <1>8 DEF CameraCore, CameraInv

\* For every number of users, reports, batches and screen messages: the phone is
\* told of no more faces than the camera saw, although the test, the answer
\* and the clearing of face_flag are interrupted by the camera's thread.
THEOREM CameraIsSound == CameraSpec => []CameraInv
<1>1. CameraInit => CameraCore
  BY CameraCoreInit
<1>2. CameraCore /\ [CameraNext]_camera_vars => CameraCore'
  BY CameraCoreNext
<1>3. CameraCore => CameraInv
  BY DEF CameraCore
<1> QED BY <1>1, <1>2, <1>3, PTL DEF CameraSpec

\* A face the camera reported stays flagged until the phone is told, however
\* the two threads interrupt each other: it is forgotten only between an
\* answer and the clearing of face_flag, and never twice for one answer.
THEOREM FacesAreKept == CameraSpec => []FaceIsKept
<1>1. CameraInit => CameraCore
  BY CameraCoreInit
<1>2. CameraCore /\ [CameraNext]_camera_vars => CameraCore'
  BY CameraCoreNext
<1>3. CameraCore => FaceIsKept
  BY DEF CameraCore
<1> QED BY <1>1, <1>2, <1>3, PTL DEF CameraSpec
=============================================================================
