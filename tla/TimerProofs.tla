---------------------------- MODULE TimerProofs ----------------------------
(***************************************************************************)
(* Proofs about the timers, for every number of tick values, every set of  *)
(* thread and driver timers and every set of times and bound on the delay  *)
(* of a start that satisfy DelayAssumption.                                *)
(*                                                                         *)
(* The inductive invariant TInv has these parts:                           *)
(*   Ordered   the list is in the order of the true deadlines              *)
(*   Clocked   a timer that is listed or about to be has the deadline      *)
(*             tick + left, wrapped around, and less than Half is left     *)
(*   Delayed   how much a timer may be overdue, and that the client of a   *)
(*             timer about to be listed was not delayed for longer         *)
(*   Called    a timer called in this tick is not due again                *)
(*   Unlinked  where a client is while its timer is off the list           *)
(*   Stops     a stopped timer is off the list, and its client is not in   *)
(*             rt_timer_start                                              *)
(*   Marked    where the ACTIVATED flag may be wrong                       *)
(***************************************************************************)
EXTENDS Timer, WellFoundedInduction, TLAPS

Times == Time \cup {1}

Distinct(list)   == \A i, j \in 1 .. Len(list) : list[i] = list[j] => i = j
Ordered(list, f) == \A i, j \in 1 .. Len(list) : i < j => f[list[i]] <= f[list[j]]

\* t is in front of every later timer, by f, and of no other
Ahead(list, f, t) == \A i, j \in 1 .. Len(list) : i < j /\ list[i] = t => f[list[j]] > f[t]

-----------------------------------------------------------------------------
(* Ticks.                                                                  *)

\* x is at most one round away
Wrap(x) == IF x < 0 THEN x + TickMod ELSE IF x >= TickMod THEN x - TickMod ELSE x

\* Half of the range of ticks.
LEMMA HalfIs == Half \in Nat /\ 2 * Half <= TickMod - 1 /\ TickMod \in Nat /\ TickMod > 2
BY TickAssumption DEF Half, TickMax

\* Sums and differences of ticks without the remainder.
LEMMA TickIs ==
  ASSUME NEW a \in 0 .. TickMax, NEW b \in 0 .. TickMax
  PROVE  /\ Plus(a, b) = Wrap(a + b) /\ Plus(a, b) \in 0 .. TickMax
         /\ Minus(a, b) = Wrap(a - b) /\ Minus(a, b) \in 0 .. TickMax
<1>1. ASSUME NEW T \in Nat, T > 0, NEW x \in 0 .. 2 * T - 1
      PROVE  x % T = IF x >= T THEN x - T ELSE x
  OBVIOUS
<1>2. (a + b) % TickMod = IF a + b >= TickMod THEN a + b - TickMod ELSE a + b
  BY <1>1, HalfIs DEF TickMax
<1>3. (a - b + TickMod) % TickMod
         = IF a - b + TickMod >= TickMod THEN a - b + TickMod - TickMod ELSE a - b + TickMod
  BY <1>1, HalfIs DEF TickMax
<1> QED BY <1>2, <1>3, HalfIs DEF TickMax, Plus, Minus, Wrap

\* The order of two deadlines is that of the ticks left, if these are not too
\* far apart.
LEMMA LaterIs ==
  ASSUME NEW n \in 0 .. TickMax, NEW a \in Int, NEW b \in Int,
         a < TickMod, a > -TickMod, b < TickMod, b > -TickMod,
         a - b < Half, b - a <= TickMod - Half
  PROVE  /\ Later(Wrap(n + a), Wrap(n + b)) <=> a > b
         /\ Wrap(n + a) \in 0 .. TickMax
<1>1. Wrap(n + a) \in 0 .. TickMax /\ Wrap(n + b) \in 0 .. TickMax
  BY HalfIs DEF Wrap, TickMax
<1>2. Minus(Wrap(n + a), Wrap(n + b)) = Wrap(Wrap(n + a) - Wrap(n + b))
  BY <1>1, TickIs
<1> QED BY <1>1, <1>2, HalfIs DEF Later, Wrap, TickMax

\* A deadline is reached when no ticks are left.
LEMMA DueIs ==
  ASSUME NEW n \in 0 .. TickMax, NEW a \in Int, a < Half, a > -Half
  PROVE  Minus(n, Wrap(n + a)) < Half <=> a <= 0
<1>1. Wrap(n + a) \in 0 .. TickMax
  BY HalfIs DEF Wrap, TickMax
<1>2. Minus(n, Wrap(n + a)) = Wrap(n - Wrap(n + a))
  BY <1>1, TickIs
<1> QED BY <1>1, <1>2, HalfIs DEF Wrap, TickMax

-----------------------------------------------------------------------------
(* The list.                                                               *)

\* A set of numbers has a least one.
LEMMA LeastOf ==
  ASSUME NEW S \in SUBSET Nat, S # {}
  PROVE  \E m \in S : \A k \in S : m <= k
<1>1. PICK m \in S : \A k \in S : ~ (<<k, m>> \in OpToRel(<, Nat))
  BY NatLessThanWellFounded, WFMin
<1>2. \A k \in S : ~ (k < m)
  BY <1>1 DEF OpToRel
<1> QED BY <1>2

\* A list without the first timer.
LEMMA TailIs ==
  ASSUME NEW S, NEW list \in Seq(S), list # <<>>, Distinct(list)
  PROVE  /\ Head(list) \in S /\ Tail(list) \in Seq(S) /\ Distinct(Tail(list))
         /\ Head(list) \in Range(list) /\ Range(Tail(list)) = Range(list) \ {Head(list)}
         /\ \A f : Ordered(list, f) => /\ Ordered(Tail(list), f)
                                       /\ \A t \in Range(Tail(list)) : f[Head(list)] <= f[t]
<1>1. /\ Head(list) = list[1] /\ Len(list) \in Nat /\ Len(list) >= 1 /\ Head(list) \in S
      /\ Tail(list) \in Seq(S) /\ Len(Tail(list)) = Len(list) - 1
      /\ \A i \in 1 .. Len(list) - 1 : Tail(list)[i] = list[i + 1]
  OBVIOUS
<1>2. Distinct(Tail(list))
  BY <1>1 DEF Distinct
<1>3. Head(list) \in Range(list)
  BY <1>1 DEF Range
<1>4. Range(Tail(list)) \subseteq Range(list) \ {Head(list)}
  BY <1>1 DEF Range, Distinct
<1>5. ASSUME NEW t \in Range(list) \ {Head(list)} PROVE t \in Range(Tail(list))
  <2>1. PICK i \in 1 .. Len(list) : list[i] = t
    BY DEF Range
  <2>2. i - 1 \in 1 .. Len(list) - 1 /\ Tail(list)[i - 1] = t
    BY <1>1, <2>1
  <2> QED BY <1>1, <2>2 DEF Range
<1>6. ASSUME NEW f, Ordered(list, f)
      PROVE  /\ Ordered(Tail(list), f)
             /\ \A t \in Range(Tail(list)) : f[Head(list)] <= f[t]
  BY <1>1, <1>6 DEF Ordered, Range
<1> QED BY <1>1, <1>2, <1>3, <1>4, <1>5, <1>6

\* The elements of two lists together.
LEMMA CatIs ==
  ASSUME NEW S, NEW a \in Seq(S), NEW b \in Seq(S)
  PROVE  /\ a \o b \in Seq(S) /\ Len(a \o b) = Len(a) + Len(b)
         /\ \A i \in 1 .. Len(a) + Len(b) : (a \o b)[i] = IF i <= Len(a) THEN a[i] ELSE b[i - Len(a)]
OBVIOUS

\* The elements of a list with one more at its end.
LEMMA EndIs ==
  ASSUME NEW S, NEW a \in Seq(S), NEW t \in S
  PROVE  /\ a \o <<t>> \in Seq(S) /\ Len(a \o <<t>>) = Len(a) + 1
         /\ \A i \in 1 .. Len(a) + 1 : (a \o <<t>>)[i] = IF i <= Len(a) THEN a[i] ELSE t
OBVIOUS

\* list without its p-th element, and with t as its p-th
Without(list, p) == SubSeq(list, 1, p - 1) \o SubSeq(list, p + 1, Len(list))
With(list, p, t) == SubSeq(list, 1, p - 1) \o <<t>> \o SubSeq(list, p, Len(list))

\* The elements of a list with one taken out.
LEMMA WithoutIs ==
  ASSUME NEW S, NEW list \in Seq(S), NEW p \in 1 .. Len(list)
  PROVE  /\ Without(list, p) \in Seq(S)
         /\ Len(Without(list, p)) = Len(list) - 1
         /\ \A i \in 1 .. Len(list) - 1 : Without(list, p)[i] = IF i < p THEN list[i] ELSE list[i + 1]
<1>1. /\ SubSeq(list, 1, p - 1) \in Seq(S) /\ Len(SubSeq(list, 1, p - 1)) = p - 1
      /\ \A i \in 1 .. p - 1 : SubSeq(list, 1, p - 1)[i] = list[i]
  OBVIOUS
<1>2. /\ SubSeq(list, p + 1, Len(list)) \in Seq(S) /\ Len(SubSeq(list, p + 1, Len(list))) = Len(list) - p
      /\ \A i \in 1 .. Len(list) - p : SubSeq(list, p + 1, Len(list))[i] = list[p + i]
  OBVIOUS
<1>3. ASSUME NEW a \in Seq(S), NEW b \in Seq(S), Len(a) = p - 1, Len(b) = Len(list) - p,
             \A i \in 1 .. p - 1 : a[i] = list[i],
             \A i \in 1 .. Len(list) - p : b[i] = list[p + i]
      PROVE  /\ a \o b \in Seq(S) /\ Len(a \o b) = Len(list) - 1
             /\ \A i \in 1 .. Len(list) - 1 : (a \o b)[i] = IF i < p THEN list[i] ELSE list[i + 1]
  <2>1. PICK r \in Seq(S) : r = a \o b
    BY CatIs
  <2>2. /\ Len(r) = Len(a) + Len(b)
        /\ \A i \in 1 .. Len(a) + Len(b) : r[i] = IF i <= Len(a) THEN a[i] ELSE b[i - Len(a)]
    BY <2>1, CatIs
  <2>30. Len(a) + Len(b) = Len(list) - 1 /\ Len(a) = p - 1
    BY <1>3
  <2>3. /\ Len(r) = Len(list) - 1
        /\ \A i \in 1 .. Len(list) - 1 : r[i] = IF i <= p - 1 THEN a[i] ELSE b[i - (p - 1)]
    BY <2>2, <2>30
  <2>4. ASSUME NEW i \in 1 .. Len(list) - 1, i >= p PROVE b[i - (p - 1)] = list[i + 1]
    <3>1. i - (p - 1) \in 1 .. Len(list) - p /\ p + (i - (p - 1)) = i + 1
      BY <2>4
    <3> QED BY <1>3, <3>1
  <2>5. ASSUME NEW i \in 1 .. Len(list) - 1, i < p PROVE a[i] = list[i]
    <3>1. i \in 1 .. p - 1
      BY <2>5
    <3> QED BY <1>3, <3>1
  <2>6. ASSUME NEW i \in 1 .. Len(list) - 1 PROVE r[i] = IF i < p THEN list[i] ELSE list[i + 1]
    <3>1. CASE i < p
      <4>1. i <= p - 1
        BY <3>1
      <4>2. a[i] = list[i]
        BY <2>5, <3>1
      <4> QED BY <2>3, <3>1, <4>1, <4>2
    <3>2. CASE i >= p
      <4>1. ~ (i <= p - 1) /\ ~ (i < p)
        BY <3>2
      <4>2. b[i - (p - 1)] = list[i + 1]
        BY <2>4, <3>2
      <4> QED BY <2>3, <4>1, <4>2
    <3> QED BY <3>1, <3>2
  <2> QED BY <2>1, <2>3, <2>6
<1> QED BY <1>1, <1>2, <1>3 DEF Without

\* The elements of a list with one put in.
LEMMA WithIs ==
  ASSUME NEW S, NEW list \in Seq(S), NEW p \in 1 .. Len(list) + 1, NEW t \in S
  PROVE  /\ With(list, p, t) \in Seq(S)
         /\ Len(With(list, p, t)) = Len(list) + 1
         /\ \A i \in 1 .. Len(list) + 1 :
               With(list, p, t)[i] = IF i < p THEN list[i] ELSE IF i = p THEN t ELSE list[i - 1]
<1>1. /\ SubSeq(list, 1, p - 1) \in Seq(S) /\ Len(SubSeq(list, 1, p - 1)) = p - 1
      /\ \A i \in 1 .. p - 1 : SubSeq(list, 1, p - 1)[i] = list[i]
  OBVIOUS
<1>2. /\ SubSeq(list, p, Len(list)) \in Seq(S) /\ Len(SubSeq(list, p, Len(list))) = Len(list) + 1 - p
      /\ \A i \in 1 .. Len(list) + 1 - p : SubSeq(list, p, Len(list))[i] = list[p + i - 1]
  OBVIOUS
<1>3. ASSUME NEW a \in Seq(S), NEW b \in Seq(S), Len(a) = p - 1, Len(b) = Len(list) + 1 - p,
             \A i \in 1 .. p - 1 : a[i] = list[i],
             \A i \in 1 .. Len(list) + 1 - p : b[i] = list[p + i - 1]
      PROVE  /\ a \o <<t>> \o b \in Seq(S) /\ Len(a \o <<t>> \o b) = Len(list) + 1
             /\ \A i \in 1 .. Len(list) + 1 :
                   (a \o <<t>> \o b)[i] = IF i < p THEN list[i] ELSE IF i = p THEN t ELSE list[i - 1]
  <2>1. /\ a \o <<t>> \in Seq(S) /\ Len(a \o <<t>>) = p
        /\ \A i \in 1 .. p : (a \o <<t>>)[i] = IF i < p THEN list[i] ELSE t
    <3>1. PICK c \in Seq(S) : c = a \o <<t>>
      BY EndIs
    <3>2. Len(c) = Len(a) + 1 /\ \A i \in 1 .. Len(a) + 1 : c[i] = IF i <= Len(a) THEN a[i] ELSE t
      BY <3>1, EndIs
    <3>3. Len(c) = p /\ \A i \in 1 .. p : c[i] = IF i < p THEN list[i] ELSE t
      BY <1>3, <3>2
    <3> QED BY <3>1, <3>3
  <2>2. ASSUME NEW c \in Seq(S), Len(c) = p, \A i \in 1 .. p : c[i] = IF i < p THEN list[i] ELSE t
        PROVE  /\ c \o b \in Seq(S) /\ Len(c \o b) = Len(list) + 1
               /\ \A i \in 1 .. Len(list) + 1 :
                     (c \o b)[i] = IF i < p THEN list[i] ELSE IF i = p THEN t ELSE list[i - 1]
    <3>1. /\ c \o b \in Seq(S) /\ Len(c \o b) = Len(list) + 1
          /\ \A i \in 1 .. Len(list) + 1 : (c \o b)[i] = IF i <= p THEN c[i] ELSE b[i - p]
      <4>1. PICK r \in Seq(S) : r = c \o b
        BY CatIs
      <4>2. /\ Len(r) = Len(c) + Len(b)
            /\ \A i \in 1 .. Len(c) + Len(b) : r[i] = IF i <= Len(c) THEN c[i] ELSE b[i - Len(c)]
        BY <4>1, CatIs
      <4>3. Len(c) + Len(b) = Len(list) + 1 /\ Len(c) = p
        BY <1>3, <2>2
      <4> QED BY <4>1, <4>2, <4>3
    <3>2. ASSUME NEW i \in 1 .. Len(list) + 1, i > p PROVE b[i - p] = list[i - 1]
      <4>1. i - p \in 1 .. Len(list) + 1 - p
        BY <3>2
      <4>2. p + (i - p) - 1 = i - 1
        BY <3>2
      <4> QED BY <1>3, <4>1, <4>2
    <3> QED BY <2>2, <3>1, <3>2
  <2> QED BY <2>1, <2>2
<1> QED BY <1>1, <1>2, <1>3 DEF With

\* What _rt_timer_remove leaves: the others, in their order.
LEMMA RemovedIs ==
  ASSUME NEW list \in Seq(Timer), Distinct(list), NEW t
  PROVE  /\ Removed(list, t) \in Seq(Timer) /\ Distinct(Removed(list, t))
         /\ Range(Removed(list, t)) = Range(list) \ {t}
         /\ \A f : Ordered(list, f) => Ordered(Removed(list, t), f)
<1>1. CASE t \notin Range(list)
  <2>1. Removed(list, t) = list
    BY <1>1 DEF Removed
  <2> QED BY <1>1, <2>1
<1>2. CASE t \in Range(list)
  <2>1. \E p \in 1 .. Len(list) : list[p] = t
    BY <1>2 DEF Range
  <2>2. PICK p : p = CHOOSE k \in 1 .. Len(list) : list[k] = t
    OBVIOUS
  <2>3. p \in 1 .. Len(list) /\ list[p] = t
    BY <2>1, <2>2
  <2>4. Removed(list, t) = Without(list, p)
    BY <1>2, <2>2 DEF Removed, Without
  <2>40. /\ Without(list, p) \in Seq(Timer) /\ Len(Without(list, p)) = Len(list) - 1
         /\ \A i \in 1 .. Len(list) - 1 : Without(list, p)[i] = IF i < p THEN list[i] ELSE list[i + 1]
    BY <2>3, WithoutIs
  <2>5. PICK r \in Seq(Timer) : r = Without(list, p)
    BY <2>40
  <2>6. /\ Len(r) = Len(list) - 1 /\ Len(list) \in Nat
        /\ \A i \in 1 .. Len(list) - 1 : r[i] = IF i < p THEN list[i] ELSE list[i + 1]
    BY <2>40, <2>5
  <2>7. Distinct(r)
    BY <2>3, <2>6 DEF Distinct
  <2>8. Range(r) \subseteq Range(list) \ {t}
    BY <2>3, <2>6 DEF Range, Distinct
  <2>9. ASSUME NEW u \in Range(list) \ {t} PROVE u \in Range(r)
    <3>1. PICK i \in 1 .. Len(list) : list[i] = u
      BY DEF Range
    <3>2. CASE i < p
      <4>1. i \in 1 .. Len(r) /\ r[i] = u
        BY <2>3, <2>6, <3>1, <3>2
      <4> QED BY <4>1 DEF Range
    <3>3. CASE i > p
      <4>1. i - 1 \in 1 .. Len(r) /\ r[i - 1] = u
        BY <2>3, <2>6, <3>1, <3>3
      <4> QED BY <4>1 DEF Range
    <3>4. i # p
      BY <2>3, <3>1
    <3> QED BY <2>3, <3>2, <3>3, <3>4
  <2>10. \A f : Ordered(list, f) => Ordered(r, f)
    BY <2>3, <2>6 DEF Ordered
  <2> QED BY <2>4, <2>5, <2>7, <2>8, <2>9, <2>10
<1> QED BY <1>1, <1>2

\* r is list with t at its place by f
IsWith(r, list, t, f) ==
    /\ r \in Seq(Timer) /\ Distinct(r) /\ Range(r) = Range(list) \cup {t}
    /\ Ordered(r, f) /\ Ahead(r, f, t)

\* the deadline d is compared with those of the list as f compares t with them
Compares(list, t, d, f) ==
    /\ f[t] \in Int
    /\ \A u \in Range(list) : f[u] \in Int /\ (Later(timer[u].timeout_tick, d) <=> f[u] > f[t])

\* What the search of rt_timer_start makes of the list.
LEMMA InsertedIs ==
  ASSUME NEW list \in Seq(Timer), Distinct(list), NEW t \in Timer, t \notin Range(list),
         NEW d, NEW f, Ordered(list, f), Compares(list, t, d, f)
  PROVE  IsWith(Inserted(list, t, d), list, t, f)
<1> DEFINE Late(i) == Later(timer[list[i]].timeout_tick, d)
           Place(p) == (p <= Len(list) => Late(p)) /\ \A i \in 1 .. p - 1 : ~ Late(i)
<1>0. Len(list) \in Nat /\ \A i \in 1 .. Len(list) : list[i] \in Range(list)
  BY DEF Range
<1>1. \E p \in 1 .. Len(list) + 1 : Place(p)
  <2> DEFINE S == {i \in 1 .. Len(list) + 1 : i <= Len(list) => Late(i)}
  <2>1. Len(list) + 1 \in S /\ S \in SUBSET Nat
    BY <1>0
  <2>2. PICK p \in S : \A k \in S : p <= k
    <3> HIDE DEF S
    <3> QED BY <2>1, LeastOf
  <2>3. \A i \in 1 .. p - 1 : ~ Late(i)
    BY <1>0, <2>2
  <2> QED BY <2>2, <2>3
<1>2. PICK p : p = CHOOSE k \in 1 .. Len(list) + 1 : Place(k)
  OBVIOUS
<1>3. p \in 1 .. Len(list) + 1 /\ Place(p)
  <2> HIDE DEF Place
  <2> QED BY <1>1, <1>2
<1>4. Inserted(list, t, d) = With(list, p, t)
  BY <1>2 DEF Inserted, With
<1>40. /\ With(list, p, t) \in Seq(Timer) /\ Len(With(list, p, t)) = Len(list) + 1
       /\ \A i \in 1 .. Len(list) + 1 :
             With(list, p, t)[i] = IF i < p THEN list[i] ELSE IF i = p THEN t ELSE list[i - 1]
  BY <1>3, WithIs
<1>5. PICK r \in Seq(Timer) : r = With(list, p, t)
  BY <1>40
<1>6. /\ Len(r) = Len(list) + 1
      /\ \A i \in 1 .. Len(list) + 1 : r[i] = IF i < p THEN list[i] ELSE IF i = p THEN t ELSE list[i - 1]
  BY <1>40, <1>5
<1>7. Distinct(r)
  <2> SUFFICES ASSUME NEW i \in 1 .. Len(list) + 1, NEW j \in 1 .. Len(list) + 1, r[i] = r[j], i < j
               PROVE  FALSE
    BY <1>0, <1>6 DEF Distinct
  <2>1. \A k \in 1 .. Len(list) : list[k] # t
    BY <1>0
  <2> DEFINE a == IF i < p THEN i ELSE i - 1
             b == IF j < p THEN j ELSE j - 1
  <2>2. i # p => a \in 1 .. Len(list) /\ r[i] = list[a]
    BY <1>0, <1>3, <1>6
  <2>3. j # p => b \in 1 .. Len(list) /\ r[j] = list[b]
    BY <1>0, <1>3, <1>6
  <2>4. (i = p => r[i] = t) /\ (j = p => r[j] = t)
    BY <1>6
  <2>5. i # p /\ j # p
    BY <2>1, <2>2, <2>3, <2>4
  <2>6. a < b
    BY <1>3, <2>5
  <2> HIDE DEF a, b
  <2> QED BY <2>2, <2>3, <2>5, <2>6 DEF Distinct
<1>8. Range(r) \subseteq Range(list) \cup {t}
  BY <1>0, <1>3, <1>6 DEF Range
<1>9. ASSUME NEW u \in Range(list) \cup {t} PROVE u \in Range(r)
  <2>1. CASE u = t
    BY <1>0, <1>3, <1>6, <2>1 DEF Range
  <2>2. CASE u \in Range(list)
    <3>1. PICK i \in 1 .. Len(list) : list[i] = u
      BY <2>2 DEF Range
    <3>2. CASE i < p
      <4>1. i \in 1 .. Len(r) /\ r[i] = u
        BY <1>0, <1>3, <1>6, <3>1, <3>2
      <4> QED BY <4>1 DEF Range
    <3>3. CASE i >= p
      <4>1. i + 1 \in 1 .. Len(r) /\ r[i + 1] = u
        BY <1>0, <1>3, <1>6, <3>1, <3>3
      <4> QED BY <4>1 DEF Range
    <3> QED BY <1>3, <3>2, <3>3
  <2> QED BY <2>1, <2>2
<1>10. \A i \in 1 .. Len(list) : f[list[i]] \in Int /\ (Late(i) <=> f[list[i]] > f[t])
  BY <1>0 DEF Compares
<1>11. f[t] \in Int
  BY DEF Compares
<1>12. \A i \in 1 .. p - 1 : f[list[i]] <= f[t]
  BY <1>0, <1>3, <1>10, <1>11
<1>13. \A i \in p .. Len(list) : f[list[i]] > f[t]
  <2>1. ASSUME NEW i \in p .. Len(list) PROVE f[list[i]] > f[t]
    <3>1. p \in 1 .. Len(list) /\ f[list[p]] > f[t]
      BY <1>0, <1>3, <1>10, <2>1
    <3>2. f[list[p]] <= f[list[i]] /\ f[list[i]] \in Int
      <4>1. i \in 1 .. Len(list)
        BY <1>0, <1>3, <2>1
      <4>2. CASE i = p
        BY <1>10, <4>1, <4>2
      <4>3. CASE i > p
        BY <1>10, <3>1, <4>1, <4>3 DEF Ordered
      <4> QED BY <2>1, <3>1, <4>1, <4>2, <4>3
    <3> QED BY <1>10, <1>11, <3>1, <3>2
  <2> QED BY <2>1
<1> HIDE DEF Place, Late
<1>14. Ordered(r, f)
  <2> SUFFICES ASSUME NEW i \in 1 .. Len(list) + 1, NEW j \in 1 .. Len(list) + 1, i < j
               PROVE  f[r[i]] <= f[r[j]]
    BY <1>6 DEF Ordered
  <2>1. CASE i = p
    <3>1. j - 1 \in p .. Len(list) /\ r[j] = list[j - 1] /\ r[i] = t
      BY <1>0, <1>3, <1>6, <2>1
    <3>2. f[list[j - 1]] > f[t] /\ j - 1 \in 1 .. Len(list)
      BY <1>3, <1>13, <3>1
    <3> QED BY <1>10, <1>11, <3>1, <3>2
  <2>2. CASE j = p
    BY <1>3, <1>6, <1>12, <2>2
  <2>3. CASE i # p /\ j # p
    <3> DEFINE a == IF i < p THEN i ELSE i - 1
               b == IF j < p THEN j ELSE j - 1
    <3>1. a \in 1 .. Len(list) /\ b \in 1 .. Len(list) /\ a < b /\ r[i] = list[a] /\ r[j] = list[b]
      BY <1>0, <1>3, <1>6, <2>3
    <3> QED BY <3>1 DEF Ordered
  <2> QED BY <2>1, <2>2, <2>3
<1>15. Ahead(r, f, t)
  <2> SUFFICES ASSUME NEW i \in 1 .. Len(list) + 1, NEW j \in 1 .. Len(list) + 1, i < j, r[i] = t
               PROVE  f[r[j]] > f[t]
    BY <1>6 DEF Ahead
  <2>1. p \in 1 .. Len(r) /\ r[p] = t
    BY <1>0, <1>3, <1>6
  <2>2. i = p
    BY <1>6, <1>7, <2>1 DEF Distinct
  <2>3. j - 1 \in p .. Len(list) /\ r[j] = list[j - 1]
    BY <1>0, <1>3, <1>6, <2>2
  <2> QED BY <1>13, <2>3
<1> QED BY <1>4, <1>5, <1>7, <1>8, <1>9, <1>14, <1>15 DEF IsWith

-----------------------------------------------------------------------------
(* The invariant, timer by timer.                                          *)

Starting(t) == t \in Driver /\ pc[t] = "start_timed"
Running(t)  == Listed(t) \/ Starting(t)

\* where a client is while its timer is off the list
OffList == {"start", "start_timed", "stop_removed", "detached", "assert"}

Clocked(t) == Running(t) => /\ timer[t].timeout_tick = Wrap(tick + left[t])
                            /\ \E m \in Times : m < Half /\ left[t] <= m

Delayed(t) ==
    /\ timer[t].init_tick \in Times
    /\ Starting(t) => /\ timer[t].init_tick < Half
                      /\ left[t] \in timer[t].init_tick - MaxDelay .. timer[t].init_tick
    /\ Listed(t) => left[t] >= -MaxDelay /\ (isr = "off" => left[t] > -MaxDelay)

Called(t) == /\ calls[t] \in {0, 1}
             /\ isr = "off" => calls[t] = 0
             /\ calls[t] = 1 /\ Listed(t) => left[t] > 0

Unlinked(t) == t \in Driver /\ pc[t] \in OffList => ~ Listed(t)

Stops(t) == /\ stopped[t] => ~ Listed(t)
            /\ t \in Sleeper => ~ stopped[t]
            /\ t \in Driver /\ pc[t] \in {"start", "start_timed"} => ~ stopped[t]

Marked(t) == \/ timer[t].activated <=> Listed(t)
             \/ blurred[t]
             \/ t \in Driver /\ pc[t] \in {"stop_removed", "detached"}

One(t) == Clocked(t) /\ Delayed(t) /\ Called(t) /\ Unlinked(t) /\ Stops(t) /\ Marked(t)

TInv == TypeOK /\ Ordered(timer_list, left) /\ \A t \in Timer : One(t)

-----------------------------------------------------------------------------
(* The fields of a timer.                                                  *)

Fields == [init_tick : Nat, timeout_tick : 0 .. TickMax, activated : BOOLEAN, periodic : BOOLEAN]

\* a timer with these fields
Of(n, d, a, q) == [init_tick |-> n, timeout_tick |-> d, activated |-> a, periodic |-> q]

\* A timer is made of its fields.
LEMMA OfIs ==
  ASSUME NEW n, NEW d, NEW a, NEW q
  PROVE  /\ Of(n, d, a, q).init_tick = n /\ Of(n, d, a, q).timeout_tick = d
         /\ Of(n, d, a, q).activated = a /\ Of(n, d, a, q).periodic = q
         /\ n \in Nat /\ d \in 0 .. TickMax /\ a \in BOOLEAN /\ q \in BOOLEAN => Of(n, d, a, q) \in Fields
BY Zenon DEF Of, Fields

\* The fields of a timer, and what it is after some of them were set.
LEMMA FieldsAre ==
  ASSUME NEW r \in Fields
  PROVE  /\ r.init_tick \in Nat /\ r.timeout_tick \in 0 .. TickMax
         /\ r.activated \in BOOLEAN /\ r.periodic \in BOOLEAN
         /\ r = Of(r.init_tick, r.timeout_tick, r.activated, r.periodic)
<1>1. /\ r.init_tick \in Nat /\ r.timeout_tick \in 0 .. TickMax
      /\ r.activated \in BOOLEAN /\ r.periodic \in BOOLEAN
  BY Zenon DEF Fields
<1>2. r = Of(r.init_tick, r.timeout_tick, r.activated, r.periodic)
  BY DEF Fields, Of
<1> QED BY <1>1, <1>2

\* The fields of t are set, to n, d, a and q; the other timers are as before.
Put(t, n, d, a, q) ==
    /\ timer' \in [Timer -> Fields]
    /\ timer'[t].init_tick = n /\ timer'[t].timeout_tick = d
    /\ timer'[t].activated = a /\ timer'[t].periodic = q
    /\ \A u \in Timer \ {t} : timer'[u] = timer[u]

\* What the assignments of the actions make of the fields.
LEMMA PutIs ==
  ASSUME timer \in [Timer -> Fields], NEW t \in Timer,
         NEW n \in Nat, NEW d \in 0 .. TickMax, NEW a \in BOOLEAN, NEW q \in BOOLEAN
  PROVE  /\ timer' = [timer EXCEPT ![t].init_tick = n]
               => Put(t, n, timer[t].timeout_tick, timer[t].activated, timer[t].periodic)
         /\ timer' = [timer EXCEPT ![t].timeout_tick = d]
               => Put(t, timer[t].init_tick, d, timer[t].activated, timer[t].periodic)
         /\ timer' = [timer EXCEPT ![t].activated = a]
               => Put(t, timer[t].init_tick, timer[t].timeout_tick, a, timer[t].periodic)
         /\ timer' = [timer EXCEPT ![t].timeout_tick = d, ![t].activated = a]
               => Put(t, timer[t].init_tick, d, a, timer[t].periodic)
         /\ timer' = [timer EXCEPT ![t].activated = a, ![t].periodic = q]
               => Put(t, timer[t].init_tick, timer[t].timeout_tick, a, q)
         /\ timer' = [timer EXCEPT ![t] = Idle(t, a)]
               => Put(t, timer[t].init_tick, 0, a, timer[t].periodic)
<1> PICK n0 \in Nat, d0 \in 0 .. TickMax, a0 \in BOOLEAN, q0 \in BOOLEAN :
       timer[t] = Of(n0, d0, a0, q0)
  <2>1. timer[t] \in Fields
    OBVIOUS
  <2> QED BY <2>1, FieldsAre
<1>0. /\ timer[t].init_tick = n0 /\ timer[t].timeout_tick = d0
      /\ timer[t].activated = a0 /\ timer[t].periodic = q0 /\ 0 \in 0 .. TickMax
  BY OfIs, HalfIs DEF TickMax
<1>1. ASSUME NEW n1 \in Nat, NEW d1 \in 0 .. TickMax, NEW a1 \in BOOLEAN, NEW q1 \in BOOLEAN,
             timer'[t] = Of(n1, d1, a1, q1), DOMAIN timer' = Timer,
             timer' = [u \in Timer |-> timer'[u]],
             \A u \in Timer \ {t} : timer'[u] = timer[u]
      PROVE  Put(t, n1, d1, a1, q1)
  <2>1. timer'[t] \in Fields
    BY <1>1, OfIs
  <2>2. \A u \in Timer : timer'[u] \in Fields
    BY <1>1, <2>1
  <2>3. timer' \in [Timer -> Fields]
    BY <1>1, <2>2
  <2> QED BY <1>1, <2>3, OfIs DEF Put
<1>2. ASSUME timer' = [timer EXCEPT ![t].init_tick = n]
      PROVE  Put(t, n, d0, a0, q0)
  <2>1. timer'[t] = [Of(n0, d0, a0, q0) EXCEPT !.init_tick = n]
    BY <1>2
  <2>2. timer'[t] = Of(n, d0, a0, q0)
    BY <2>1 DEF Of
  <2>3. /\ DOMAIN timer' = Timer /\ timer' = [u \in Timer |-> timer'[u]]
        /\ \A u \in Timer \ {t} : timer'[u] = timer[u]
    BY <1>2
  <2> QED BY <1>1, <2>2, <2>3
<1>3. ASSUME timer' = [timer EXCEPT ![t].timeout_tick = d]
      PROVE  Put(t, n0, d, a0, q0)
  <2>1. timer'[t] = [Of(n0, d0, a0, q0) EXCEPT !.timeout_tick = d]
    BY <1>3
  <2>2. timer'[t] = Of(n0, d, a0, q0)
    BY <2>1 DEF Of
  <2>3. /\ DOMAIN timer' = Timer /\ timer' = [u \in Timer |-> timer'[u]]
        /\ \A u \in Timer \ {t} : timer'[u] = timer[u]
    BY <1>3
  <2> QED BY <1>1, <2>2, <2>3
<1>4. ASSUME timer' = [timer EXCEPT ![t].activated = a]
      PROVE  Put(t, n0, d0, a, q0)
  <2>1. timer'[t] = [Of(n0, d0, a0, q0) EXCEPT !.activated = a]
    BY <1>4
  <2>2. timer'[t] = Of(n0, d0, a, q0)
    BY <2>1 DEF Of
  <2>3. /\ DOMAIN timer' = Timer /\ timer' = [u \in Timer |-> timer'[u]]
        /\ \A u \in Timer \ {t} : timer'[u] = timer[u]
    BY <1>4
  <2> QED BY <1>1, <2>2, <2>3
<1>5. ASSUME timer' = [timer EXCEPT ![t].timeout_tick = d, ![t].activated = a]
      PROVE  Put(t, n0, d, a, q0)
  <2>1. timer'[t] = [[Of(n0, d0, a0, q0) EXCEPT !.timeout_tick = d] EXCEPT !.activated = a]
    BY <1>5
  <2>2. timer'[t] = Of(n0, d, a, q0)
    BY <2>1 DEF Of
  <2>3. /\ DOMAIN timer' = Timer /\ timer' = [u \in Timer |-> timer'[u]]
        /\ \A u \in Timer \ {t} : timer'[u] = timer[u]
    BY <1>5
  <2> QED BY <1>1, <2>2, <2>3
<1>6. ASSUME timer' = [timer EXCEPT ![t].activated = a, ![t].periodic = q]
      PROVE  Put(t, n0, d0, a, q)
  <2>1. timer'[t] = [[Of(n0, d0, a0, q0) EXCEPT !.activated = a] EXCEPT !.periodic = q]
    BY <1>6
  <2>2. timer'[t] = Of(n0, d0, a, q)
    BY <2>1 DEF Of
  <2>3. /\ DOMAIN timer' = Timer /\ timer' = [u \in Timer |-> timer'[u]]
        /\ \A u \in Timer \ {t} : timer'[u] = timer[u]
    BY <1>6
  <2> QED BY <1>1, <2>2, <2>3
<1>7. ASSUME timer' = [timer EXCEPT ![t] = Idle(t, a)]
      PROVE  Put(t, n0, 0, a, q0)
  <2>1. timer'[t] = [[Of(n0, d0, a0, q0) EXCEPT !.timeout_tick = 0] EXCEPT !.activated = a]
    BY <1>7 DEF Idle
  <2>2. timer'[t] = Of(n0, 0, a, q0)
    BY <2>1 DEF Of
  <2>3. /\ DOMAIN timer' = Timer /\ timer' = [u \in Timer |-> timer'[u]]
        /\ \A u \in Timer \ {t} : timer'[u] = timer[u]
    BY <1>7
  <2> QED BY <1>0, <1>1, <2>2, <2>3
<1> QED BY <1>0, <1>2, <1>3, <1>4, <1>5, <1>6, <1>7

\* What taking a timer off the list makes of its fields.
LEMMA IdleIs ==
  ASSUME timer \in [Timer -> Fields], NEW t \in Timer, NEW a \in BOOLEAN,
         timer' = [timer EXCEPT ![t] = Idle(t, a)]
  PROVE  Put(t, timer[t].init_tick, 0, a, timer[t].periodic)
<1>1. 0 \in Nat /\ 0 \in 0 .. TickMax
  BY HalfIs DEF TickMax
<1> QED BY Zenon, <1>1, PutIs

-----------------------------------------------------------------------------
(* A step of one timer.                                                    *)

\* The step changes nothing of any timer but t, and does not end the interrupt.
Frame(t) ==
    /\ tick' = tick /\ (isr' = "off" => isr = "off")
    /\ \A u \in Timer \ {t} :
          /\ timer'[u] = timer[u] /\ left'[u] = left[u] /\ calls'[u] = calls[u]
          /\ stopped'[u] = stopped[u] /\ blurred'[u] = blurred[u]
          /\ Listed(u)' <=> Listed(u)
    /\ \A u \in Driver \ {t} : pc'[u] = pc[u]

\* The invariant of the other timers is kept.
LEMMA Others ==
  ASSUME TInv, NEW t \in Timer, Frame(t)
  PROVE  \A u \in Timer \ {t} : One(u)'
<1> SUFFICES ASSUME NEW u \in Timer \ {t} PROVE One(u)'
  OBVIOUS
<1>1. One(u)
  BY DEF TInv
<1>2. /\ tick' = tick /\ (isr' = "off" => isr = "off")
      /\ timer'[u] = timer[u] /\ left'[u] = left[u] /\ calls'[u] = calls[u]
      /\ stopped'[u] = stopped[u] /\ blurred'[u] = blurred[u]
      /\ (Listed(u)' <=> Listed(u)) /\ (u \in Driver => pc'[u] = pc[u])
  BY DEF Frame
<1>3. (Starting(u)' <=> Starting(u)) /\ (Running(u)' <=> Running(u))
  BY Zenon, <1>2 DEF Starting, Running
<1>4. Clocked(u)'
  BY <1>1, <1>2, <1>3 DEF One, Clocked
<1>5. Delayed(u)'
  BY <1>1, <1>2, <1>3 DEF One, Delayed
<1>6. Called(u)'
  BY <1>1, <1>2 DEF One, Called
<1>7. Unlinked(u)' /\ Stops(u)' /\ Marked(u)'
  BY Zenon, <1>1, <1>2 DEF One, Unlinked, Stops, Marked
<1> QED BY Zenon, <1>4, <1>5, <1>6, <1>7 DEF One

\* The types, with the fields and the list named.
LEMMA TypeIs ==
  TypeOK <=> /\ tick \in 0 .. TickMax /\ timer_list \in Seq(Timer) /\ Distinct(timer_list)
             /\ timer \in [Timer -> Fields] /\ isr \in {"off", "check", "assert"}
             /\ pc \in [Driver -> ClientPC] /\ seen_flag \in [Driver -> BOOLEAN]
             /\ left \in [Timer -> Int] /\ calls \in [Timer -> Nat]
             /\ stopped \in [Timer -> BOOLEAN] /\ blurred \in [Timer -> BOOLEAN]
BY Zenon DEF TypeOK, Distinct, Fields

\* The types after a step, likewise.
LEMMA TypeNext ==
  ASSUME tick' \in 0 .. TickMax, timer_list' \in Seq(Timer), Distinct(timer_list'),
         timer' \in [Timer -> Fields], isr' \in {"off", "check", "assert"},
         pc' \in [Driver -> ClientPC], seen_flag' \in [Driver -> BOOLEAN],
         left' \in [Timer -> Int], calls' \in [Timer -> Nat],
         stopped' \in [Timer -> BOOLEAN], blurred' \in [Timer -> BOOLEAN]
  PROVE  TypeOK'
BY Zenon DEF TypeOK, Distinct, Fields

\* The order of a list is that of the values of its elements.
LEMMA OrderSame ==
  ASSUME NEW list \in Seq(Timer), NEW f, NEW g, Ordered(list, f), \A u \in Range(list) : g[u] = f[u]
  PROVE  Ordered(list, g)
<1>1. \A i \in 1 .. Len(list) : list[i] \in Range(list)
  BY DEF Range
<1> QED BY <1>1 DEF Ordered

\* Timer t is taken out of the list.
Out(t) == timer_list' = Removed(timer_list, t) /\ left' = [left EXCEPT ![t] = 0]

\* The list without t is in order, and the others are still on it.
LEMMA OutIs ==
  ASSUME TInv, NEW t \in Timer, Out(t)
  PROVE  /\ timer_list' \in Seq(Timer) /\ Distinct(timer_list)' /\ Ordered(timer_list, left)'
         /\ left' \in [Timer -> Int] /\ ~ Listed(t)'
         /\ \A u \in Timer \ {t} : left'[u] = left[u] /\ (Listed(u)' <=> Listed(u))
<1>1. timer_list \in Seq(Timer) /\ Distinct(timer_list) /\ Ordered(timer_list, left) /\ left \in [Timer -> Int]
  BY TypeIs DEF TInv
<1>2. /\ Removed(timer_list, t) \in Seq(Timer) /\ Distinct(Removed(timer_list, t))
      /\ Range(Removed(timer_list, t)) = Range(timer_list) \ {t}
      /\ Ordered(Removed(timer_list, t), left)
  BY <1>1, RemovedIs
<1>3. timer_list' = Removed(timer_list, t)
  BY DEF Out
<1>4. left' \in [Timer -> Int] /\ \A u \in Timer \ {t} : left'[u] = left[u]
  BY <1>1 DEF Out
<1>5. Range(timer_list') \subseteq Timer
  BY <1>1, <1>2, <1>3 DEF Range
<1>6. \A u \in Range(timer_list') : left'[u] = left[u]
  BY <1>2, <1>3, <1>4, <1>5
<1>7. Ordered(timer_list', left')
  BY <1>2, <1>3, <1>6, OrderSame
<1> QED BY <1>2, <1>3, <1>4, <1>7 DEF Listed

\* What a step of one timer has to show.
LEMMA OneStep ==
  ASSUME TInv, NEW t \in Timer, Frame(t), TypeOK', Ordered(timer_list, left)', One(t)'
  PROVE  TInv'
BY Others DEF TInv

\* A step that takes t out of the list.
LEMMA Removing ==
  ASSUME TInv, NEW t \in Timer, Out(t), isr = "off", UNCHANGED <<tick, isr, seen_flag, calls>>,
         NEW a \in BOOLEAN, timer' = [timer EXCEPT ![t] = Idle(t, a)],
         pc' \in [Driver -> ClientPC], \A u \in Driver \ {t} : pc'[u] = pc[u],
         stopped' \in [Timer -> BOOLEAN], \A u \in Timer \ {t} : stopped'[u] = stopped[u],
         blurred' \in [Timer -> BOOLEAN], \A u \in Timer \ {t} : blurred'[u] = blurred[u],
         ~ Starting(t)', Stops(t)',
         a = FALSE \/ (t \in Driver /\ pc'[t] \in {"stop_removed", "detached"})
  PROVE  TInv'
<1>1. TypeOK /\ One(t) /\ timer \in [Timer -> Fields]
  BY TypeIs DEF TInv
<1>2. Put(t, timer[t].init_tick, 0, a, timer[t].periodic)
  BY <1>1, IdleIs
<1>3. /\ timer_list' \in Seq(Timer) /\ Distinct(timer_list)' /\ Ordered(timer_list, left)'
      /\ left' \in [Timer -> Int] /\ ~ Listed(t)'
      /\ \A u \in Timer \ {t} : left'[u] = left[u] /\ (Listed(u)' <=> Listed(u))
  BY OutIs
<1>4. TypeOK'
  <2>1. timer' \in [Timer -> Fields]
    BY <1>2 DEF Put
  <2>2. /\ tick' \in 0 .. TickMax /\ isr' \in {"off", "check", "assert"}
        /\ seen_flag' \in [Driver -> BOOLEAN] /\ calls' \in [Timer -> Nat]
    BY <1>1, TypeIs
  <2> QED BY <1>3, <2>1, <2>2, TypeNext
<1>5. Frame(t)
  BY <1>2, <1>3 DEF Frame, Put
<1>6. Clocked(t)' /\ Unlinked(t)'
  BY Zenon, <1>3 DEF Clocked, Unlinked, Running
<1>7. Delayed(t)'
  <2>1. timer'[t].init_tick \in Times
    BY <1>1, <1>2 DEF One, Delayed, Put
  <2> QED BY Zenon, <1>3, <2>1 DEF Delayed
<1>8. Called(t)'
  <2>1. calls'[t] = calls[t] /\ calls[t] = 0
    BY <1>1 DEF One, Called
  <2> QED BY <1>3, <2>1 DEF Called
<1>9. Marked(t)'
  <2>1. timer'[t].activated = a
    BY <1>2 DEF Put
  <2> QED BY Zenon, <1>3, <2>1 DEF Marked
<1>10. One(t)'
  BY Zenon, <1>6, <1>7, <1>8, <1>9 DEF One
<1> QED BY <1>3, <1>4, <1>5, <1>10, OneStep

-----------------------------------------------------------------------------
(* Every action keeps the invariant.                                       *)

\* rt_thread_resume stops the timer of a thread.
LEMMA SleeperStopInv ==
  ASSUME TInv, NEW t \in Sleeper, SleeperStop(t)
  PROVE  TInv'
<1>1. /\ t \in Timer /\ t \notin Driver /\ TypeOK /\ One(t)
  BY TimerAssumption DEF TInv, Timer
<1>2. /\ Out(t) /\ isr = "off" /\ UNCHANGED <<tick, isr, seen_flag, calls, pc, stopped, blurred>>
      /\ timer' = [timer EXCEPT ![t] = Idle(t, FALSE)]
  BY DEF SleeperStop, Out
<1>3. /\ pc' \in [Driver -> ClientPC] /\ stopped' \in [Timer -> BOOLEAN] /\ blurred' \in [Timer -> BOOLEAN]
      /\ \A u \in Driver \ {t} : pc'[u] = pc[u]
      /\ \A u \in Timer \ {t} : stopped'[u] = stopped[u] /\ blurred'[u] = blurred[u]
  BY <1>1, <1>2, TypeIs
<1>4. ~ Starting(t)'
  BY <1>1 DEF Starting
<1>5. Stops(t)'
  BY Zenon, <1>1, <1>2 DEF One, Stops
<1> QED BY <1>1, <1>2, <1>3, <1>4, <1>5, Removing

\* The client of t goes to p.
LEMMA GotoIs ==
  ASSUME TInv, NEW t \in Driver, NEW p \in ClientPC, Goto(t, p)
  PROVE  /\ pc' \in [Driver -> ClientPC] /\ pc'[t] = p /\ \A u \in Driver \ {t} : pc'[u] = pc[u]
BY TypeIs DEF TInv, Goto

\* A driver timer is none of a thread.
LEMMA DriverIs ==
  ASSUME TInv, NEW t \in Driver
  PROVE  /\ t \in Timer /\ t \notin Sleeper /\ TypeOK /\ One(t) /\ timer \in [Timer -> Fields]
         /\ timer[t].activated \in BOOLEAN /\ timer[t].periodic \in BOOLEAN
<1>1. t \in Timer /\ t \notin Sleeper /\ TypeOK /\ One(t) /\ timer \in [Timer -> Fields]
  BY TimerAssumption, TypeIs DEF TInv, Timer
<1>2. timer[t] \in Fields
  BY <1>1
<1> QED BY <1>1, <1>2, FieldsAre

\* rt_timer_start takes the timer off the list.
LEMMA StartRemoveInv ==
  ASSUME TInv, NEW t \in Driver, StartRemove(t)
  PROVE  TInv'
<1>1. t \in Timer /\ t \notin Sleeper /\ TypeOK /\ One(t)
  BY DriverIs
<1>2. /\ Out(t) /\ isr = "off" /\ UNCHANGED <<tick, isr, seen_flag, calls>>
      /\ timer' = [timer EXCEPT ![t] = Idle(t, FALSE)] /\ Goto(t, "start")
      /\ stopped' = [stopped EXCEPT ![t] = FALSE] /\ blurred' = [blurred EXCEPT ![t] = FALSE]
  BY DEF StartRemove, Out, At
<1>3. /\ pc' \in [Driver -> ClientPC] /\ pc'[t] = "start" /\ \A u \in Driver \ {t} : pc'[u] = pc[u]
  BY <1>2, GotoIs DEF ClientPC
<1>4. /\ stopped' \in [Timer -> BOOLEAN] /\ blurred' \in [Timer -> BOOLEAN] /\ stopped'[t] = FALSE
      /\ \A u \in Timer \ {t} : stopped'[u] = stopped[u] /\ blurred'[u] = blurred[u]
  BY <1>1, <1>2, TypeIs
<1>5. ~ Starting(t)'
  BY <1>3 DEF Starting
<1>6. Stops(t)'
  BY <1>4 DEF Stops
<1> QED BY <1>1, <1>2, <1>3, <1>4, <1>5, <1>6, Removing

\* rt_timer_stop takes the timer off the list.
LEMMA StopRemoveInv ==
  ASSUME TInv, NEW t \in Driver, StopRemove(t)
  PROVE  TInv'
<1>1. t \in Timer /\ t \notin Sleeper /\ TypeOK /\ One(t) /\ timer[t].activated \in BOOLEAN
  BY DriverIs
<1>2. /\ Out(t) /\ isr = "off" /\ UNCHANGED <<tick, isr, seen_flag, calls, blurred>>
      /\ timer' = [timer EXCEPT ![t] = Idle(t, timer[t].activated)] /\ Goto(t, "stop_removed")
      /\ stopped' = [stopped EXCEPT ![t] = TRUE]
  BY DEF StopRemove, Out, At
<1>3. /\ pc' \in [Driver -> ClientPC] /\ pc'[t] = "stop_removed" /\ \A u \in Driver \ {t} : pc'[u] = pc[u]
  BY <1>2, GotoIs DEF ClientPC
<1>4. /\ stopped' \in [Timer -> BOOLEAN] /\ blurred' \in [Timer -> BOOLEAN]
      /\ \A u \in Timer \ {t} : stopped'[u] = stopped[u] /\ blurred'[u] = blurred[u]
  BY <1>1, <1>2, TypeIs
<1>5. ~ Starting(t)'
  BY <1>3 DEF Starting
<1>6. Stops(t)'
  <2>1. ~ Listed(t)'
    BY <1>1, <1>2, OutIs
  <2> QED BY <1>1, <1>3, <2>1 DEF Stops
<1> QED BY <1>1, <1>2, <1>3, <1>4, <1>5, <1>6, Removing

\* rt_timer_detach takes the timer off the list.
LEMMA DetachInv ==
  ASSUME TInv, NEW t \in Driver, Detach(t)
  PROVE  TInv'
<1>1. t \in Timer /\ t \notin Sleeper /\ TypeOK /\ One(t) /\ timer[t].activated \in BOOLEAN
  BY DriverIs
<1>2. /\ Out(t) /\ isr = "off" /\ UNCHANGED <<tick, isr, seen_flag, calls, blurred>>
      /\ timer' = [timer EXCEPT ![t] = Idle(t, timer[t].activated)] /\ Goto(t, "detached")
      /\ stopped' = [stopped EXCEPT ![t] = TRUE]
  BY DEF Detach, Out, At
<1>3. /\ pc' \in [Driver -> ClientPC] /\ pc'[t] = "detached" /\ \A u \in Driver \ {t} : pc'[u] = pc[u]
  BY <1>2, GotoIs DEF ClientPC
<1>4. /\ stopped' \in [Timer -> BOOLEAN] /\ blurred' \in [Timer -> BOOLEAN]
      /\ \A u \in Timer \ {t} : stopped'[u] = stopped[u] /\ blurred'[u] = blurred[u]
  BY <1>1, <1>2, TypeIs
<1>5. ~ Starting(t)'
  BY <1>3 DEF Starting
<1>6. Stops(t)'
  <2>1. ~ Listed(t)'
    BY <1>1, <1>2, OutIs
  <2> QED BY <1>1, <1>3, <2>1 DEF Stops
<1> QED BY <1>1, <1>2, <1>3, <1>4, <1>5, <1>6, Removing

\* A step of the client of t, with interrupts enabled, that leaves the list as it is.
LEMMA Keeping ==
  ASSUME TInv, NEW t \in Driver, isr = "off", UNCHANGED <<tick, timer_list, isr, calls, stopped>>,
         timer' \in [Timer -> Fields], \A u \in Timer \ {t} : timer'[u] = timer[u],
         NEW p \in ClientPC, Goto(t, p), seen_flag' \in [Driver -> BOOLEAN],
         left' \in [Timer -> Int], \A u \in Timer \ {t} : left'[u] = left[u],
         Listed(t) => left'[t] = left[t],
         blurred' \in [Timer -> BOOLEAN], \A u \in Timer \ {t} : blurred'[u] = blurred[u],
         One(t)'
  PROVE  TInv'
<1>1. /\ t \in Timer /\ TypeOK /\ timer_list \in Seq(Timer) /\ Ordered(timer_list, left)
  BY DriverIs, TypeIs DEF TInv
<1>2. /\ pc' \in [Driver -> ClientPC] /\ \A u \in Driver \ {t} : pc'[u] = pc[u]
  BY GotoIs
<1>3. /\ tick' \in 0 .. TickMax /\ timer_list' \in Seq(Timer) /\ Distinct(timer_list')
      /\ isr' \in {"off", "check", "assert"} /\ calls' \in [Timer -> Nat] /\ stopped' \in [Timer -> BOOLEAN]
  BY <1>1, TypeIs
<1>4. TypeOK'
  BY <1>2, <1>3, TypeNext
<1>5. \A u \in Timer : Listed(u)' <=> Listed(u)
  BY DEF Listed
<1>6. Frame(t)
  BY <1>2, <1>5 DEF Frame
<1>7. \A u \in Range(timer_list) : left'[u] = left[u]
  <2>1. Range(timer_list) \subseteq Timer
    BY <1>1 DEF Range
  <2> QED BY <2>1 DEF Listed
<1>8. Ordered(timer_list', left')
  BY <1>1, <1>7, OrderSame
<1> QED BY <1>1, <1>4, <1>6, <1>8, OneStep

\* A step that leaves the deadline of t as it is.
LEMMA SameClock ==
  ASSUME NEW t \in Timer, One(t), UNCHANGED <<tick, timer_list, isr, calls>>, ~ Starting(t)',
         timer'[t].timeout_tick = timer[t].timeout_tick, timer'[t].init_tick \in Times,
         left'[t] = left[t]
  PROVE  Clocked(t)' /\ Delayed(t)' /\ Called(t)' /\ (Listed(t)' <=> Listed(t))
<1>1. Listed(t)' <=> Listed(t)
  BY DEF Listed
<1>2. Running(t)' => Running(t)
  BY <1>1 DEF Running
<1>3. Clocked(t)'
  BY <1>2 DEF One, Clocked
<1>4. Delayed(t)'
  BY <1>1 DEF One, Delayed
<1>5. Called(t)'
  BY <1>1 DEF One, Called
<1> QED BY <1>1, <1>3, <1>4, <1>5

\* rt_timer_stop finds the timer activated.
LEMMA StopTestInv ==
  ASSUME TInv, NEW t \in Driver, StopTest(t)
  PROVE  TInv'
<1>1. t \in Timer /\ t \notin Sleeper /\ TypeOK /\ One(t)
  BY DriverIs
<1>2. /\ isr = "off" /\ pc[t] = "idle" /\ Goto(t, "stop") /\ pc'[t] = "stop"
      /\ UNCHANGED <<tick, timer_list, timer, isr, seen_flag, left, calls, stopped, blurred>>
  BY GotoIs DEF StopTest, At, ClientPC, history
<1>3. Clocked(t)' /\ Delayed(t)' /\ Called(t)' /\ (Listed(t)' <=> Listed(t))
  <2>1. ~ Starting(t)' /\ timer'[t].init_tick \in Times
    BY <1>1, <1>2 DEF Starting, One, Delayed
  <2> QED BY <1>1, <1>2, <2>1, SameClock
<1>4. Unlinked(t)' /\ Stops(t)'
  BY <1>1, <1>2, <1>3 DEF One, Unlinked, Stops, OffList
<1>5. Marked(t)'
  BY Zenon, <1>1, <1>2, <1>3 DEF One, Marked
<1>6. One(t)'
  BY Zenon, <1>3, <1>4, <1>5 DEF One
<1>7. "stop" \in ClientPC
  BY DEF ClientPC
<1>8. /\ timer' \in [Timer -> Fields] /\ seen_flag' \in [Driver -> BOOLEAN]
      /\ left' \in [Timer -> Int] /\ blurred' \in [Timer -> BOOLEAN]
  BY <1>1, <1>2, TypeIs
<1> QED BY <1>2, <1>6, <1>7, <1>8, Keeping

\* rt_timer_control reads the flags.
LEMMA ControlReadInv ==
  ASSUME TInv, NEW t \in Driver, ControlRead(t)
  PROVE  TInv'
<1>1. t \in Timer /\ t \notin Sleeper /\ TypeOK /\ One(t) /\ timer[t].activated \in BOOLEAN
  BY DriverIs
<1>2. /\ isr = "off" /\ pc[t] = "idle" /\ Goto(t, "control") /\ pc'[t] = "control"
      /\ seen_flag' = [seen_flag EXCEPT ![t] = timer[t].activated]
      /\ UNCHANGED <<tick, timer_list, timer, isr, left, calls, stopped, blurred>>
  BY GotoIs DEF ControlRead, At, ClientPC, history
<1>3. Clocked(t)' /\ Delayed(t)' /\ Called(t)' /\ (Listed(t)' <=> Listed(t))
  <2>1. ~ Starting(t)' /\ timer'[t].init_tick \in Times
    BY <1>1, <1>2 DEF Starting, One, Delayed
  <2> QED BY <1>1, <1>2, <2>1, SameClock
<1>4. Unlinked(t)' /\ Stops(t)'
  BY <1>1, <1>2, <1>3 DEF One, Unlinked, Stops, OffList
<1>5. Marked(t)'
  BY Zenon, <1>1, <1>2, <1>3 DEF One, Marked
<1>6. One(t)'
  BY Zenon, <1>3, <1>4, <1>5 DEF One
<1>7. "control" \in ClientPC
  BY DEF ClientPC
<1>8. /\ timer' \in [Timer -> Fields] /\ seen_flag' \in [Driver -> BOOLEAN]
      /\ left' \in [Timer -> Int] /\ blurred' \in [Timer -> BOOLEAN]
  BY <1>1, <1>2, TypeIs
<1> QED BY <1>2, <1>6, <1>7, <1>8, Keeping

\* rt_timer_control sets the time.
LEMMA ControlTimeInv ==
  ASSUME TInv, NEW t \in Driver, NEW n \in Time, ControlTime(t, n)
  PROVE  TInv'
<1>1. t \in Timer /\ t \notin Sleeper /\ TypeOK /\ One(t) /\ timer \in [Timer -> Fields]
  BY DriverIs
<1>2. /\ isr = "off" /\ pc[t] = "idle" /\ Goto(t, "idle") /\ pc' = pc
      /\ timer' = [timer EXCEPT ![t].init_tick = n]
      /\ UNCHANGED <<tick, timer_list, isr, seen_flag, left, calls, stopped, blurred>>
  BY <1>1, TypeIs DEF ControlTime, At, history, Goto
<1>20. Put(t, n, timer[t].timeout_tick, timer[t].activated, timer[t].periodic)
  <2>1. n \in Nat /\ 0 \in 0 .. TickMax
    BY TimeAssumption, HalfIs DEF TickMax
  <2> QED BY <1>1, <1>2, <2>1, PutIs
<1>3. Clocked(t)' /\ Delayed(t)' /\ Called(t)' /\ (Listed(t)' <=> Listed(t))
  <2>1. ~ Starting(t)' /\ timer'[t].init_tick \in Times
    BY <1>1, <1>2, <1>20 DEF Starting, Put, Times
  <2> QED BY <1>1, <1>2, <1>20, <2>1, SameClock DEF Put
<1>4. Unlinked(t)' /\ Stops(t)'
  BY <1>1, <1>2, <1>3 DEF One, Unlinked, Stops, OffList
<1>5. Marked(t)'
  BY Zenon, <1>1, <1>2, <1>20, <1>3 DEF One, Marked, Put
<1>6. One(t)'
  BY Zenon, <1>3, <1>4, <1>5 DEF One
<1>7. "idle" \in ClientPC
  BY DEF ClientPC
<1>8. /\ timer' \in [Timer -> Fields] /\ \A u \in Timer \ {t} : timer'[u] = timer[u]
      /\ seen_flag' \in [Driver -> BOOLEAN] /\ left' \in [Timer -> Int] /\ blurred' \in [Timer -> BOOLEAN]
  BY <1>1, <1>2, <1>20, TypeIs DEF Put
<1> QED BY <1>2, <1>6, <1>7, <1>8, Keeping

\* rt_timer_stop clears the flag.
LEMMA StopReturnInv ==
  ASSUME TInv, NEW t \in Driver, StopReturn(t)
  PROVE  TInv'
<1>1. t \in Timer /\ t \notin Sleeper /\ TypeOK /\ One(t) /\ timer \in [Timer -> Fields]
  BY DriverIs
<1>2. /\ isr = "off" /\ pc[t] = "stop_removed" /\ Goto(t, "idle") /\ pc'[t] = "idle"
      /\ timer' = [timer EXCEPT ![t].activated = FALSE] /\ blurred' = [blurred EXCEPT ![t] = FALSE]
      /\ UNCHANGED <<tick, timer_list, isr, seen_flag, left, calls, stopped>>
  BY GotoIs DEF StopReturn, StopClear, At, ClientPC
<1>20. Put(t, timer[t].init_tick, timer[t].timeout_tick, FALSE, timer[t].periodic)
  <2>1. 0 \in Nat /\ 0 \in 0 .. TickMax
    BY HalfIs DEF TickMax
  <2> QED BY <1>1, <1>2, <2>1, PutIs
<1>3. Clocked(t)' /\ Delayed(t)' /\ Called(t)' /\ (Listed(t)' <=> Listed(t))
  <2>1. ~ Starting(t)' /\ timer'[t].init_tick \in Times
    BY <1>1, <1>2, <1>20 DEF Starting, Put, One, Delayed
  <2> QED BY <1>1, <1>2, <1>20, <2>1, SameClock DEF Put
<1>4. Unlinked(t)' /\ Stops(t)'
  BY <1>1, <1>2, <1>3 DEF One, Unlinked, Stops, OffList
<1>5. Marked(t)'
  <2>1. ~ Listed(t)
    BY <1>1, <1>2 DEF One, Unlinked, OffList
  <2>2. timer'[t].activated = FALSE
    BY <1>20 DEF Put
  <2> QED BY Zenon, <1>3, <2>1, <2>2 DEF Marked
<1>6. One(t)'
  BY Zenon, <1>3, <1>4, <1>5 DEF One
<1>7. "idle" \in ClientPC
  BY DEF ClientPC
<1>8. /\ timer' \in [Timer -> Fields] /\ \A u \in Timer \ {t} : timer'[u] = timer[u]
      /\ seen_flag' \in [Driver -> BOOLEAN] /\ left' \in [Timer -> Int] /\ blurred' \in [Timer -> BOOLEAN]
      /\ \A u \in Timer \ {t} : blurred'[u] = blurred[u]
  BY <1>1, <1>2, <1>20, TypeIs DEF Put
<1> QED BY <1>2, <1>6, <1>7, <1>8, Keeping

\* rt_timer_init sets the flags.
LEMMA MakeInv ==
  ASSUME TInv, NEW t \in Driver, NEW q \in BOOLEAN, Make(t, q)
  PROVE  TInv'
<1>1. t \in Timer /\ t \notin Sleeper /\ TypeOK /\ One(t) /\ timer \in [Timer -> Fields]
  BY DriverIs
<1>2. /\ isr = "off" /\ pc[t] = "detached" /\ Goto(t, "idle") /\ pc'[t] = "idle"
      /\ timer' = [timer EXCEPT ![t].activated = FALSE, ![t].periodic = q]
      /\ blurred' = [blurred EXCEPT ![t] = FALSE]
      /\ UNCHANGED <<tick, timer_list, isr, seen_flag, left, calls, stopped>>
  BY GotoIs DEF Make, At, ClientPC
<1>20. Put(t, timer[t].init_tick, timer[t].timeout_tick, FALSE, q)
  <2>1. 0 \in Nat /\ 0 \in 0 .. TickMax
    BY HalfIs DEF TickMax
  <2> QED BY <1>1, <1>2, <2>1, PutIs
<1>3. Clocked(t)' /\ Delayed(t)' /\ Called(t)' /\ (Listed(t)' <=> Listed(t))
  <2>1. ~ Starting(t)' /\ timer'[t].init_tick \in Times
    BY <1>1, <1>2, <1>20 DEF Starting, Put, One, Delayed
  <2> QED BY <1>1, <1>2, <1>20, <2>1, SameClock DEF Put
<1>4. Unlinked(t)' /\ Stops(t)'
  BY <1>1, <1>2, <1>3 DEF One, Unlinked, Stops, OffList
<1>5. Marked(t)'
  <2>1. ~ Listed(t)
    BY <1>1, <1>2 DEF One, Unlinked, OffList
  <2>2. timer'[t].activated = FALSE
    BY <1>20 DEF Put
  <2> QED BY Zenon, <1>3, <2>1, <2>2 DEF Marked
<1>6. One(t)'
  BY Zenon, <1>3, <1>4, <1>5 DEF One
<1>7. "idle" \in ClientPC
  BY DEF ClientPC
<1>8. /\ timer' \in [Timer -> Fields] /\ \A u \in Timer \ {t} : timer'[u] = timer[u]
      /\ seen_flag' \in [Driver -> BOOLEAN] /\ left' \in [Timer -> Int] /\ blurred' \in [Timer -> BOOLEAN]
      /\ \A u \in Timer \ {t} : blurred'[u] = blurred[u]
  BY <1>1, <1>2, <1>20, TypeIs DEF Put
<1> QED BY <1>2, <1>6, <1>7, <1>8, Keeping

\* rt_timer_control writes the flags it has read.
LEMMA ControlWriteInv ==
  ASSUME TInv, NEW t \in Driver, NEW q \in BOOLEAN, ControlWrite(t, q)
  PROVE  TInv'
<1>1. /\ t \in Timer /\ t \notin Sleeper /\ TypeOK /\ One(t) /\ timer \in [Timer -> Fields]
      /\ seen_flag[t] \in BOOLEAN /\ blurred[t] \in BOOLEAN /\ timer[t].activated \in BOOLEAN
  BY DriverIs, TypeIs
<1>2. PICK x \in BOOLEAN, b \in BOOLEAN :
        x = seen_flag[t] /\ (b <=> blurred[t] \/ x # timer[t].activated)
  BY Zenon, <1>1
<1>21. /\ isr = "off" /\ pc[t] = "control" /\ Goto(t, "idle") /\ pc'[t] = "idle"
       /\ UNCHANGED <<tick, timer_list, isr, left, calls, stopped>>
  BY GotoIs DEF ControlWrite, At, ClientPC
<1>22. timer' = [timer EXCEPT ![t].activated = x, ![t].periodic = q]
  BY <1>2 DEF ControlWrite
<1>23. seen_flag' = [seen_flag EXCEPT ![t] = FALSE]
  BY DEF ControlWrite
<1>24. /\ blurred' \in [Timer -> BOOLEAN] /\ \A u \in Timer \ {t} : blurred'[u] = blurred[u]
       /\ blurred'[t] = b
  <2>1. blurred' = [blurred EXCEPT ![t] = blurred[t] \/ seen_flag[t] # timer[t].activated]
    BY DEF ControlWrite
  <2>2. (blurred[t] \/ seen_flag[t] # timer[t].activated) = b
    BY Zenon, <1>1, <1>2
  <2>3. blurred' = [blurred EXCEPT ![t] = b]
    BY Zenon, <2>1, <2>2
  <2>4. blurred \in [Timer -> BOOLEAN]
    BY <1>1, TypeIs
  <2> QED BY <1>1, <2>3, <2>4
<1>20. Put(t, timer[t].init_tick, timer[t].timeout_tick, x, q)
  <2>1. 0 \in Nat /\ 0 \in 0 .. TickMax
    BY HalfIs DEF TickMax
  <2> QED BY <1>1, <1>22, <2>1, PutIs
<1>3. Clocked(t)' /\ Delayed(t)' /\ Called(t)' /\ (Listed(t)' <=> Listed(t))
  <2>1. ~ Starting(t)' /\ timer'[t].init_tick \in Times
    BY <1>1, <1>21, <1>20 DEF Starting, Put, One, Delayed
  <2> QED BY <1>1, <1>21, <1>20, <2>1, SameClock DEF Put
<1>4. Unlinked(t)' /\ Stops(t)'
  BY <1>1, <1>21, <1>3 DEF One, Unlinked, Stops, OffList
<1>5. Marked(t)'
  <2>1. (timer[t].activated <=> Listed(t)) \/ blurred[t]
    BY <1>1, <1>21 DEF One, Marked
  <2>2. timer'[t].activated = x
    BY <1>20 DEF Put
  <2>3. b \/ (blurred[t] = FALSE /\ x = timer[t].activated)
    BY Zenon, <1>1, <1>2
  <2> QED BY Zenon, <1>1, <1>24, <1>3, <2>1, <2>2, <2>3 DEF Marked
<1>6. One(t)'
  BY Zenon, <1>3, <1>4, <1>5 DEF One
<1>7. "idle" \in ClientPC
  BY DEF ClientPC
<1>8. /\ timer' \in [Timer -> Fields] /\ \A u \in Timer \ {t} : timer'[u] = timer[u]
      /\ seen_flag' \in [Driver -> BOOLEAN] /\ left' \in [Timer -> Int]
  BY <1>1, <1>21, <1>23, <1>20, TypeIs DEF Put
<1> QED BY <1>21, <1>24, <1>6, <1>7, <1>8, Keeping

\* A time a timer can be started with, and the delay of its start.
LEMMA TimesAre ==
  ASSUME NEW k \in Times
  PROVE  /\ k \in 1 .. TickMax /\ MaxDelay \in Nat
         /\ k < Half => /\ k + MaxDelay <= Half
                        /\ MaxDelay < Half
                        /\ \A m \in Times : m < Half => m - k + MaxDelay < Half
<1>1. Times \subseteq 1 .. TickMax /\ MaxDelay \in Nat /\ k \in 1 .. TickMax /\ Half \in Nat /\ 1 \in Times
  BY TimeAssumption, HalfIs DEF Times, TickMax
<1>2. \A m \in Times : m < Half => m - k + MaxDelay < Half
  BY DelayAssumption DEF Times
<1>3. k < Half => k - 1 + MaxDelay < Half
  BY <1>1, DelayAssumption DEF Times
<1> QED BY <1>1, <1>2, <1>3

\* The deadline of a timer started now.
LEMMA DeadlineIs ==
  ASSUME TypeOK, NEW k \in Times
  PROVE  Deadline(k) = Wrap(tick + k) /\ Deadline(k) \in 0 .. TickMax
<1>1. k \in 0 .. TickMax /\ tick \in 0 .. TickMax
  BY TimesAre, TypeIs
<1> QED BY <1>1, TickIs DEF Deadline

\* The comparisons of rt_timer_start are those of the ticks left.
LEMMA ComparesIs ==
  ASSUME TInv, NEW list \in Seq(Timer), Range(list) \subseteq Range(timer_list), NEW t \in Timer,
         NEW k \in Times, k < Half, NEW b \in k - MaxDelay .. k,
         NEW f, f[t] = b, \A u \in Range(list) : f[u] = left[u]
  PROVE  Compares(list, t, Wrap(tick + b), f)
<1>1. tick \in 0 .. TickMax /\ left \in [Timer -> Int] /\ Range(list) \subseteq Timer
  BY TypeIs DEF TInv, Range
<1>2. k \in 1 .. TickMax /\ MaxDelay \in Nat /\ k + MaxDelay <= Half /\ MaxDelay < Half /\ b \in Int
  BY TimesAre
<1>3. ASSUME NEW u \in Range(list)
      PROVE  f[u] \in Int /\ (Later(timer[u].timeout_tick, Wrap(tick + b)) <=> f[u] > f[t])
  <2>1. u \in Timer /\ Listed(u) /\ One(u)
    BY <1>1 DEF TInv, Listed
  <2>2. PICK m \in Times : m < Half /\ left[u] <= m
    BY <2>1 DEF One, Clocked, Running
  <2>3. timer[u].timeout_tick = Wrap(tick + left[u]) /\ left[u] >= -MaxDelay
    BY <2>1 DEF One, Clocked, Delayed, Running
  <2>4. PICK a \in Int : a = left[u]
    BY <1>1, <2>1
  <2>5. m \in Int /\ m - k + MaxDelay < Half
    BY <2>2, TimesAre
  <2>6. a < TickMod /\ a > -TickMod /\ b < TickMod /\ b > -TickMod /\ a - b < Half /\ b - a <= TickMod - Half
    BY <1>2, <2>2, <2>3, <2>4, <2>5, HalfIs DEF TickMax
  <2>7. Later(Wrap(tick + a), Wrap(tick + b)) <=> a > b
    BY <1>1, <1>2, <2>6, LaterIs
  <2> QED BY <2>3, <2>4, <2>7
<1> QED BY <1>2, <1>3 DEF Compares

\* A step that puts t into the list.
LEMMA Inserting ==
  ASSUME TInv, NEW t \in Timer, isr = "off", ~ Listed(t), ~ stopped[t],
         NEW k \in Times, k < Half, NEW b \in k - MaxDelay .. k, NEW d, d = Wrap(tick + b),
         left' = [left EXCEPT ![t] = b], timer_list' = Inserted(timer_list, t, d),
         Put(t, timer[t].init_tick, d, TRUE, timer[t].periodic),
         UNCHANGED <<tick, isr, seen_flag, calls, stopped, blurred>>,
         pc' \in [Driver -> ClientPC], \A u \in Driver \ {t} : pc'[u] = pc[u],
         t \in Driver => pc'[t] = "idle"
  PROVE  TInv' /\ IsWith(timer_list', timer_list, t, left')
<1>1. TypeOK /\ One(t) /\ timer_list \in Seq(Timer) /\ Distinct(timer_list) /\ Ordered(timer_list, left)
  BY TypeIs DEF TInv
<1>2. /\ left' \in [Timer -> Int] /\ left'[t] = b /\ \A u \in Timer \ {t} : left'[u] = left[u]
      /\ k \in Nat /\ k >= 1 /\ MaxDelay \in Nat
  BY <1>1, TypeIs, TimesAre
<1>3. \A u \in Range(timer_list) : left'[u] = left[u]
  <2>1. Range(timer_list) \subseteq Timer
    BY <1>1 DEF Range
  <2> QED BY <1>2, <2>1 DEF Listed
<1>4. Compares(timer_list, t, d, left')
  BY <1>1, <1>2, <1>3, ComparesIs
<1>5. Ordered(timer_list, left')
  BY <1>1, <1>3, OrderSame
<1>6. IsWith(timer_list', timer_list, t, left')
  <2>1. t \notin Range(timer_list)
    BY DEF Listed
  <2> QED BY <1>1, <1>4, <1>5, <2>1, InsertedIs
<1>7. /\ timer_list' \in Seq(Timer) /\ Distinct(timer_list') /\ Ordered(timer_list', left')
      /\ Range(timer_list') = Range(timer_list) \cup {t}
  BY <1>6 DEF IsWith
<1>8. Listed(t)' /\ \A u \in Timer \ {t} : Listed(u)' <=> Listed(u)
  BY <1>7 DEF Listed
<1>9. TypeOK'
  <2>1. timer' \in [Timer -> Fields]
    BY DEF Put
  <2>2. /\ tick' \in 0 .. TickMax /\ isr' \in {"off", "check", "assert"}
        /\ seen_flag' \in [Driver -> BOOLEAN] /\ calls' \in [Timer -> Nat]
        /\ stopped' \in [Timer -> BOOLEAN] /\ blurred' \in [Timer -> BOOLEAN]
    BY <1>1, TypeIs
  <2> QED BY <1>2, <1>7, <2>1, <2>2, TypeNext
<1>10. Frame(t)
  BY <1>2, <1>8 DEF Frame, Put
<1>11. ~ Starting(t)'
  BY DEF Starting
<1>12. Clocked(t)'
  <2>1. timer'[t].timeout_tick = Wrap(tick + b) /\ tick' = tick
    BY DEF Put
  <2>2. b <= k
    OBVIOUS
  <2> QED BY <1>2, <2>1, <2>2 DEF Clocked
<1>13. Delayed(t)'
  <2>1. timer'[t].init_tick \in Times
    BY <1>1 DEF One, Delayed, Put
  <2>2. left'[t] > -MaxDelay /\ left'[t] >= -MaxDelay
    BY <1>2
  <2> QED BY <1>11, <2>1, <2>2 DEF Delayed
<1>14. Called(t)'
  BY <1>1 DEF One, Called
<1>15. Unlinked(t)' /\ Stops(t)'
  BY <1>1 DEF One, Unlinked, Stops, OffList
<1>16. Marked(t)'
  <2>1. timer'[t].activated = TRUE
    BY DEF Put
  <2> QED BY Zenon, <1>8, <2>1 DEF Marked
<1>17. One(t)'
  BY Zenon, <1>12, <1>13, <1>14, <1>15, <1>16 DEF One
<1> QED BY <1>6, <1>7, <1>9, <1>10, <1>17, OneStep

\* A thread starts its timer.
LEMMA SleeperStartInv ==
  ASSUME TInv, NEW t \in Sleeper, NEW n \in Time, SleeperStart(t, n)
  PROVE  TInv' /\ IsWith(timer_list', timer_list, t, left')
<1>1. /\ t \in Timer /\ t \notin Driver /\ TypeOK /\ One(t) /\ timer \in [Timer -> Fields]
  BY TimerAssumption, TypeIs DEF TInv, Timer
<1>2. n \in Times /\ n < Half /\ n \in n - MaxDelay .. n
  <2>1. n \in Times
    BY DEF Times
  <2> QED BY <2>1, TimesAre DEF SleeperStart
<1>3. PICK d : d = Deadline(n)
  OBVIOUS
<1>4. d = Wrap(tick + n) /\ d \in 0 .. TickMax
  BY <1>1, <1>2, <1>3, DeadlineIs
<1>5. /\ isr = "off" /\ ~ Listed(t) /\ left' = [left EXCEPT ![t] = n]
      /\ timer_list' = Inserted(timer_list, t, d)
      /\ timer' = [timer EXCEPT ![t].timeout_tick = d, ![t].activated = TRUE]
      /\ UNCHANGED <<tick, isr, pc, seen_flag, calls, stopped, blurred>>
  BY <1>3 DEF SleeperStart
<1>6. Put(t, timer[t].init_tick, d, TRUE, timer[t].periodic)
  BY <1>1, <1>4, <1>5, PutIs
<1>7. ~ stopped[t]
  BY <1>1 DEF One, Stops
<1>8. /\ pc' \in [Driver -> ClientPC] /\ \A u \in Driver \ {t} : pc'[u] = pc[u]
  BY <1>1, <1>5, TypeIs
<1> QED BY <1>1, <1>2, <1>4, <1>5, <1>6, <1>7, <1>8, Inserting

\* rt_timer_start puts the timer into the list.
LEMMA StartInsertInv ==
  ASSUME TInv, NEW t \in Driver, StartInsert(t)
  PROVE  TInv' /\ IsWith(timer_list', timer_list, t, left')
<1>1. t \in Timer /\ TypeOK /\ One(t) /\ timer \in [Timer -> Fields]
  BY DriverIs
<1>2. /\ isr = "off" /\ pc[t] = "start_timed" /\ Goto(t, "idle")
      /\ timer_list' = Inserted(timer_list, t, timer[t].timeout_tick)
      /\ timer' = [timer EXCEPT ![t].activated = TRUE]
      /\ UNCHANGED <<tick, isr, seen_flag, left, calls, stopped, blurred>>
  BY DEF StartInsert, At, history
<1>3. Starting(t) /\ Running(t) /\ ~ Listed(t) /\ ~ stopped[t]
  BY <1>1, <1>2 DEF Starting, Running, One, Unlinked, Stops, OffList
<1>4. PICK k \in Times : /\ k < Half /\ left[t] \in k - MaxDelay .. k
  BY <1>1, <1>3 DEF One, Delayed
<1>5. PICK d \in 0 .. TickMax : d = timer[t].timeout_tick
  <2>1. timer[t] \in Fields
    BY <1>1
  <2> QED BY <2>1, FieldsAre
<1>6. d = Wrap(tick + left[t])
  BY <1>1, <1>3, <1>5 DEF One, Clocked
<1>7. Put(t, timer[t].init_tick, d, TRUE, timer[t].periodic)
  <2>1. 0 \in Nat
    OBVIOUS
  <2> QED BY <1>1, <1>2, <1>5, <2>1, PutIs
<1>8. /\ pc' \in [Driver -> ClientPC] /\ pc'[t] = "idle" /\ \A u \in Driver \ {t} : pc'[u] = pc[u]
  BY <1>2, GotoIs DEF ClientPC
<1>9. left' = [left EXCEPT ![t] = left[t]]
  BY <1>1, <1>2, TypeIs
<1> QED BY <1>1, <1>2, <1>3, <1>4, <1>5, <1>6, <1>7, <1>8, <1>9, Inserting

\* rt_timer_start sets the deadline, or is stuck in its assertion.
LEMMA StartTimeInv ==
  ASSUME TInv, NEW t \in Driver, StartTime(t)
  PROVE  TInv'
<1>1. t \in Timer /\ t \notin Sleeper /\ TypeOK /\ One(t) /\ timer \in [Timer -> Fields] /\ left \in [Timer -> Int]
  BY DriverIs, TypeIs
<1>2. /\ isr = "off" /\ pc[t] = "start"
      /\ UNCHANGED <<tick, timer_list, isr, seen_flag, calls, stopped, blurred>>
  BY DEF StartTime, At
<1>3. ~ Listed(t) /\ ~ stopped[t] /\ (Listed(t)' <=> Listed(t))
  BY <1>1, <1>2 DEF One, Unlinked, Stops, OffList, Listed
<1>4. PICK k \in Times : k = timer[t].init_tick
  BY <1>1 DEF One, Delayed
<1>5. k \in 1 .. TickMax /\ Half \in Nat /\ MaxDelay \in Nat
  BY TimesAre, HalfIs
<1>6. seen_flag' \in [Driver -> BOOLEAN] /\ blurred' \in [Timer -> BOOLEAN]
  BY <1>1, <1>2, TypeIs
<1>7. CASE TooLong(t)
  <2>1. Goto(t, "assert") /\ pc'[t] = "assert" /\ timer' = timer /\ left' = left
    BY <1>7, GotoIs DEF StartTime, ClientPC
  <2>2. ~ Starting(t)'
    BY <2>1 DEF Starting
  <2>3. Clocked(t)' /\ Delayed(t)' /\ Called(t)'
    BY <1>1, <1>2, <1>4, <2>1, <2>2, SameClock
  <2>4. Unlinked(t)' /\ Stops(t)'
    BY <1>1, <1>2, <1>3, <2>1 DEF Unlinked, Stops
  <2>5. Marked(t)'
    <3>1. (timer[t].activated <=> Listed(t)) \/ blurred[t]
      BY <1>1, <1>2 DEF One, Marked
    <3> QED BY Zenon, <1>2, <1>3, <2>1, <3>1 DEF Marked
  <2>6. One(t)'
    BY Zenon, <2>3, <2>4, <2>5 DEF One
  <2>7. "assert" \in ClientPC
    BY DEF ClientPC
  <2> QED BY <1>1, <1>2, <1>6, <2>1, <2>6, <2>7, Keeping
<1>8. CASE ~ TooLong(t)
  <2>1. PICK d : d = Deadline(k)
    OBVIOUS
  <2>2. d = Wrap(tick + k) /\ d \in 0 .. TickMax /\ k < Half
    BY <1>1, <1>4, <1>5, <1>8, <2>1, DeadlineIs DEF TooLong
  <2>3. /\ Goto(t, "start_timed") /\ pc'[t] = "start_timed"
        /\ timer' = [timer EXCEPT ![t].timeout_tick = d] /\ left' = [left EXCEPT ![t] = k]
    BY <1>4, <1>8, <2>1, GotoIs DEF StartTime, ClientPC
  <2>4. Put(t, k, d, timer[t].activated, timer[t].periodic)
    <3>1. 0 \in Nat
      OBVIOUS
    <3> QED BY <1>1, <1>4, <2>2, <2>3, <3>1, PutIs
  <2>5. left' \in [Timer -> Int] /\ left'[t] = k /\ \A u \in Timer \ {t} : left'[u] = left[u]
    BY <1>1, <1>5, <2>3
  <2>6. Clocked(t)'
    <3>1. timer'[t].timeout_tick = Wrap(tick + k) /\ tick' = tick /\ k <= k
      BY <1>2, <1>5, <2>2, <2>4 DEF Put
    <3> QED BY <2>2, <2>5, <3>1 DEF Clocked
  <2>7. Delayed(t)'
    <3>1. timer'[t].init_tick = k /\ k \in k - MaxDelay .. k
      BY <1>5, <2>4 DEF Put
    <3> QED BY <1>3, <2>2, <2>5, <3>1 DEF Delayed
  <2>8. Called(t)'
    <3>1. calls'[t] = 0
      BY <1>1, <1>2 DEF One, Called
    <3> QED BY <3>1 DEF Called
  <2>9. Unlinked(t)' /\ Stops(t)'
    BY <1>1, <1>2, <1>3 DEF Unlinked, Stops
  <2>10. Marked(t)'
    <3>1. (timer[t].activated <=> Listed(t)) \/ blurred[t]
      BY <1>1, <1>2 DEF One, Marked
    <3>2. timer'[t].activated = timer[t].activated
      BY <2>4 DEF Put
    <3> QED BY Zenon, <1>2, <1>3, <3>1, <3>2 DEF Marked
  <2>11. One(t)'
    BY Zenon, <2>6, <2>7, <2>8, <2>9, <2>10 DEF One
  <2>12. "start_timed" \in ClientPC
    BY DEF ClientPC
  <2>13. timer' \in [Timer -> Fields] /\ \A u \in Timer \ {t} : timer'[u] = timer[u]
    BY <2>4 DEF Put
  <2> QED BY <1>2, <1>3, <1>6, <2>3, <2>5, <2>11, <2>12, <2>13, Keeping
<1> QED BY <1>7, <1>8

\* A listed timer has less than Half of the range of ticks to go, or to be overdue.
LEMMA ListedIs ==
  ASSUME TInv, NEW t \in Timer, Running(t)
  PROVE  /\ left[t] \in Int /\ left[t] < Half /\ left[t] > -Half /\ MaxDelay \in Nat
         /\ timer[t].timeout_tick = Wrap(tick + left[t])
<1>1. One(t) /\ left[t] \in Int
  BY TypeIs DEF TInv
<1>2. PICK m \in Times : m < Half /\ left[t] <= m
  BY <1>1 DEF One, Clocked
<1>3. m \in Nat /\ MaxDelay \in Nat /\ MaxDelay < Half /\ Half \in Nat
  BY <1>2, TimesAre, HalfIs
<1>4. left[t] >= -MaxDelay
  <2>1. CASE Listed(t)
    BY <1>1, <2>1 DEF One, Delayed
  <2>2. CASE Starting(t)
    <3>1. timer[t].init_tick \in Nat /\ left[t] >= timer[t].init_tick - MaxDelay
      BY <1>1, <2>2, TimesAre DEF One, Delayed
    <3> QED BY <1>1, <1>3, <3>1
  <2> QED BY <2>1, <2>2 DEF Running
<1> QED BY <1>1, <1>2, <1>3, <1>4 DEF One, Clocked

\* The first timer is due when no ticks are left.
LEMMA DueLeft ==
  ASSUME TInv, NEW t \in Timer, Listed(t)
  PROVE  Due(t) <=> left[t] <= 0
<1>1. tick \in 0 .. TickMax /\ Running(t)
  BY TypeIs DEF TInv, Running
<1>2. PICK a \in Int : a = left[t]
  BY <1>1, ListedIs
<1>3. a < Half /\ a > -Half /\ timer[t].timeout_tick = Wrap(tick + a)
  BY <1>1, <1>2, ListedIs
<1>4. Minus(tick, Wrap(tick + a)) < Half <=> a <= 0
  BY <1>1, <1>3, DueIs
<1> QED BY <1>2, <1>3, <1>4 DEF Due

\* One tick more and one less to go make the same deadline.
LEMMA WrapSame ==
  ASSUME NEW n \in 0 .. TickMax, NEW a \in Int, a < Half, a > -Half
  PROVE  /\ Wrap(n + a) = Wrap(Plus(n, 1) + (a - 1)) /\ Plus(n, 1) \in 0 .. TickMax
<1>1. 1 \in 0 .. TickMax
  BY HalfIs DEF TickMax
<1>2. Plus(n, 1) = Wrap(n + 1) /\ Plus(n, 1) \in 0 .. TickMax
  BY <1>1, TickIs
<1> QED BY <1>2, HalfIs DEF Wrap, TickMax

\* rt_tick_increase: every listed timer has a tick less to go.
LEMMA TickInv ==
  ASSUME TInv, Tick
  PROVE  TInv'
<1>1. /\ TypeOK /\ tick \in 0 .. TickMax /\ left \in [Timer -> Int] /\ isr = "off"
      /\ timer_list \in Seq(Timer) /\ Ordered(timer_list, left)
  BY TypeIs DEF TInv, Tick
<1>2. /\ tick' = Plus(tick, 1) /\ isr' = "check"
      /\ UNCHANGED <<timer_list, timer, pc, seen_flag, calls, stopped, blurred>>
      /\ left' = [t \in Timer |-> IF Running(t) THEN Less(left[t]) ELSE left[t]]
  BY DEF Tick, Ticked, Running, Starting
<1>3. \A t \in Timer : Listed(t)' <=> Listed(t)
  BY <1>2 DEF Listed
<1>4. \A t \in Timer : (Starting(t)' <=> Starting(t)) /\ (Running(t)' <=> Running(t))
  BY <1>2, <1>3 DEF Running, Starting
<1>5. ASSUME NEW t \in Timer, Running(t)
      PROVE  /\ left'[t] = left[t] - 1 /\ left'[t] >= -MaxDelay
             /\ Starting(t) => left[t] > timer[t].init_tick - MaxDelay
  <2>1. One(t) /\ left[t] \in Int /\ MaxDelay \in Nat
    BY <1>5, ListedIs DEF TInv
  <2>2. Starting(t) => left[t] > timer[t].init_tick - MaxDelay /\ timer[t].init_tick >= 1
    <3>1. Starting(t) => timer[t].init_tick - left[t] < MaxDelay
      BY DEF Tick, Starting
    <3>2. timer[t].init_tick \in Int /\ timer[t].init_tick >= 1
      BY <2>1, TimesAre DEF One, Delayed
    <3> QED BY <2>1, <3>1, <3>2
  <2>3. left[t] > -MaxDelay
    <3>1. CASE Listed(t)
      BY <1>1, <2>1, <3>1 DEF One, Delayed
    <3>2. CASE Starting(t)
      <4>1. timer[t].init_tick \in Int
        BY <2>1, TimesAre DEF One, Delayed
      <4> QED BY <2>1, <2>2, <3>2, <4>1
    <3> QED BY <1>5, <3>1, <3>2 DEF Running
  <2>4. left'[t] = Less(left[t])
    BY <1>2, <1>5
  <2> QED BY <2>1, <2>2, <2>3, <2>4 DEF Less
<1>6. left' \in [Timer -> Int]
  <2>1. \A t \in Timer : left'[t] \in Int
    BY <1>1, <1>2, <1>5
  <2> QED BY <1>2, <2>1
<1>7. TypeOK'
  <2>1. /\ tick' \in 0 .. TickMax /\ isr' \in {"off", "check", "assert"}
    BY <1>1, <1>2, HalfIs, WrapSame, TickIs DEF TickMax
  <2>2. /\ timer_list' \in Seq(Timer) /\ Distinct(timer_list')
        /\ timer' \in [Timer -> Fields] /\ pc' \in [Driver -> ClientPC]
        /\ seen_flag' \in [Driver -> BOOLEAN] /\ calls' \in [Timer -> Nat]
        /\ stopped' \in [Timer -> BOOLEAN] /\ blurred' \in [Timer -> BOOLEAN]
    BY <1>1, <1>2, TypeIs
  <2> QED BY <1>6, <2>1, <2>2, TypeNext
<1>8. Ordered(timer_list', left')
  <2>1. \A i \in 1 .. Len(timer_list) :
           timer_list[i] \in Timer /\ Running(timer_list[i]) /\ left[timer_list[i]] \in Int
    BY <1>1 DEF Running, Listed, Range
  <2>2. \A i \in 1 .. Len(timer_list) : left'[timer_list[i]] = left[timer_list[i]] - 1
    BY <1>5, <2>1
  <2> QED BY <1>1, <1>2, <2>1, <2>2 DEF Ordered
<1>9. ASSUME NEW t \in Timer PROVE One(t)'
  <2>1. One(t) /\ left[t] \in Int /\ MaxDelay \in Nat
    BY <1>1, TimeAssumption DEF TInv
  <2>2. Clocked(t)'
    <3> SUFFICES ASSUME Running(t)
                 PROVE  /\ timer'[t].timeout_tick = Wrap(tick' + left'[t])
                        /\ \E m \in Times : m < Half /\ left'[t] <= m
      BY <1>4 DEF Clocked
    <3>1. PICK m \in Times : m < Half /\ left[t] <= m
      BY <2>1 DEF One, Clocked
    <3>2. m \in Int
      BY <3>1, TimesAre
    <3>3. left'[t] = left[t] - 1 /\ left'[t] <= m
      BY <1>5, <2>1, <3>1, <3>2
    <3>4. Wrap(tick + left[t]) = Wrap(tick' + left'[t])
      BY <1>1, <1>2, <3>3, ListedIs, WrapSame
    <3>5. timer'[t].timeout_tick = Wrap(tick + left[t])
      BY <1>2, ListedIs
    <3> QED BY <3>1, <3>3, <3>4, <3>5
  <2>3. Delayed(t)'
    <3>1. timer'[t].init_tick = timer[t].init_tick /\ timer[t].init_tick \in Times
      BY <1>2, <2>1 DEF One, Delayed
    <3>2. timer[t].init_tick \in Int
      BY <3>1, TimesAre
    <3>3. Starting(t)' => /\ timer[t].init_tick < Half
                          /\ left'[t] \in timer[t].init_tick - MaxDelay .. timer[t].init_tick
      BY <1>4, <1>5, <2>1, <3>2 DEF Running, One, Delayed
    <3>4. Listed(t)' => left'[t] >= -MaxDelay
      BY <1>3, <1>5 DEF Running
    <3> QED BY <1>2, <3>1, <3>3, <3>4 DEF Delayed
  <2>4. Called(t)'
    <3>1. calls'[t] = 0
      BY <1>1, <1>2, <2>1 DEF One, Called
    <3> QED BY <3>1 DEF Called
  <2>5. Unlinked(t)' /\ Stops(t)' /\ Marked(t)'
    BY Zenon, <1>2, <1>3, <2>1 DEF One, Unlinked, Stops, Marked
  <2> QED BY Zenon, <2>2, <2>3, <2>4, <2>5 DEF One
<1> QED BY <1>7, <1>8, <1>9 DEF TInv

\* rt_timer_check ends: the first timer, and so every timer, is not due.
LEMMA CheckEndInv ==
  ASSUME TInv, CheckEnd
  PROVE  TInv'
<1>1. /\ TypeOK /\ timer_list \in Seq(Timer) /\ Distinct(timer_list) /\ Ordered(timer_list, left)
      /\ left \in [Timer -> Int] /\ MaxDelay \in Nat
  BY TypeIs, TimeAssumption DEF TInv
<1>2. /\ isr' = "off" /\ calls' = [t \in Timer |-> 0]
      /\ UNCHANGED <<tick, timer_list, timer, pc, seen_flag, left, stopped, blurred>>
      /\ timer_list # <<>> => ~ Due(Head(timer_list))
  BY DEF CheckEnd
<1>3. \A t \in Timer : Listed(t)' <=> Listed(t)
  BY <1>2 DEF Listed
<1>4. ASSUME NEW t \in Timer, Listed(t) PROVE left[t] > 0
  <2>1. timer_list # <<>>
    BY <1>1, <1>4 DEF Listed, Range
  <2>2. PICK h : h = Head(timer_list)
    OBVIOUS
  <2>3. h \in Timer /\ Listed(h) /\ (t = h \/ left[h] <= left[t])
    <3>1. /\ Head(timer_list) \in Timer /\ Head(timer_list) \in Range(timer_list)
          /\ Range(Tail(timer_list)) = Range(timer_list) \ {Head(timer_list)}
          /\ \A u \in Range(Tail(timer_list)) : left[Head(timer_list)] <= left[u]
      BY <1>1, <2>1, TailIs
    <3> QED BY <1>4, <2>2, <3>1 DEF Listed
  <2>4. ~ (left[h] <= 0)
    BY <1>2, <2>1, <2>2, <2>3, DueLeft
  <2> QED BY <1>1, <2>3, <2>4
<1>5. TypeOK'
  <2>1. /\ tick' \in 0 .. TickMax /\ timer_list' \in Seq(Timer) /\ Distinct(timer_list')
        /\ timer' \in [Timer -> Fields] /\ pc' \in [Driver -> ClientPC]
        /\ seen_flag' \in [Driver -> BOOLEAN] /\ left' \in [Timer -> Int]
        /\ stopped' \in [Timer -> BOOLEAN] /\ blurred' \in [Timer -> BOOLEAN]
        /\ isr' \in {"off", "check", "assert"}
    BY <1>1, <1>2, TypeIs
  <2>2. calls' \in [Timer -> Nat]
    BY <1>2
  <2> QED BY <2>1, <2>2, TypeNext
<1>6. Ordered(timer_list', left')
  BY <1>1, <1>2
<1>7. ASSUME NEW t \in Timer PROVE One(t)'
  <2>1. One(t) /\ (Starting(t)' <=> Starting(t)) /\ (Running(t)' <=> Running(t))
    BY <1>2, <1>3 DEF TInv, Running, Starting
  <2>2. Clocked(t)'
    BY <1>2, <2>1 DEF One, Clocked
  <2>3. Delayed(t)'
    <3>1. Listed(t) => left[t] > -MaxDelay /\ left[t] >= -MaxDelay
      BY <1>1, <1>4
    <3> QED BY <1>2, <1>3, <2>1, <3>1 DEF One, Delayed
  <2>4. Called(t)'
    BY <1>2 DEF Called
  <2>5. Unlinked(t)' /\ Stops(t)' /\ Marked(t)'
    BY Zenon, <1>2, <1>3, <2>1 DEF One, Unlinked, Stops, Marked
  <2> QED BY Zenon, <2>2, <2>3, <2>4, <2>5 DEF One
<1> QED BY <1>5, <1>6, <1>7 DEF TInv


\* t as its callback c leaves it
Back(t, c) == [timer[t] EXCEPT !.activated = CASE c = "none"  -> timer[t].activated
                                               [] c = "start" -> TRUE
                                               [] c = "stop"  -> FALSE]
Again(t, c) == c = "start" \/ Restarts(Back(t, c))

\* The callback of t is counted, and its history set.
Count(t, n, s, b) ==
    /\ isr' = isr /\ left' = [left EXCEPT ![t] = n] /\ calls' = [calls EXCEPT ![t] = calls[t] + 1]
    /\ stopped' = [stopped EXCEPT ![t] = s] /\ blurred' = [blurred EXCEPT ![t] = b]

\* The three ways a callback may end: in the assertion, off the list, started again.
Stuck(t, k) ==
    /\ isr' = "assert" /\ timer_list' = Tail(timer_list) /\ UNCHANGED history
    /\ Put(t, k, 0, FALSE, timer[t].periodic)
Gone(t, k, s) ==
    /\ s => t \notin Sleeper
    /\ timer_list' = Tail(timer_list) /\ Put(t, k, 0, FALSE, timer[t].periodic) /\ Count(t, 0, s, FALSE)
StartedAgain(t, k, d, a) ==
    /\ k < Half /\ timer_list' = Inserted(Tail(timer_list), t, d)
    /\ Put(t, k, d, a, timer[t].periodic) /\ Count(t, k, FALSE, ~ a)

\* A callback ends in one of these ways.
LEMMA FireIs ==
  ASSUME TInv, NEW c \in {"none", "start", "stop"}, CheckFire(c),
         NEW t, t = Head(timer_list), t \in Timer, NEW k \in Times, k = timer[t].init_tick,
         NEW d \in 0 .. TickMax, d = Deadline(k)
  PROVE  /\ isr = "check" /\ timer_list # <<>> /\ Due(t) /\ UNCHANGED <<tick, pc, seen_flag>>
         /\ Stuck(t, k) \/ (\E s \in BOOLEAN : Gone(t, k, s)) \/ (\E a \in BOOLEAN : StartedAgain(t, k, d, a))
<1>1. isr = "check" /\ timer_list # <<>> /\ Due(t) /\ UNCHANGED <<tick, pc, seen_flag>>
  BY DEF CheckFire
<1>2. timer \in [Timer -> Fields] /\ timer[t] \in Fields
  BY TypeIs DEF TInv
<1>3. timer[t].activated \in BOOLEAN /\ timer[t].periodic \in BOOLEAN
  BY <1>2, FieldsAre
<1>4. PICK x \in BOOLEAN : /\ Back(t, c) = [timer[t] EXCEPT !.activated = x]
                           /\ (c = "stop" => x = FALSE) /\ (c = "start" => x = TRUE)
  <2>1. CASE c = "none"
    BY <1>3, <2>1 DEF Back
  <2>2. CASE c = "start"
    BY <2>2 DEF Back
  <2>3. CASE c = "stop"
    BY <2>3 DEF Back
  <2> QED BY <2>1, <2>2, <2>3
<1>5. PICK n0 \in Nat, d0 \in 0 .. TickMax, a0 \in BOOLEAN, q0 \in BOOLEAN : timer[t] = Of(n0, d0, a0, q0)
  BY <1>2, FieldsAre
<1>6. n0 = k /\ q0 = timer[t].periodic /\ a0 = timer[t].activated
  BY <1>5, OfIs
<1>7. Back(t, c) = Of(k, d0, x, q0)
  BY <1>4, <1>5, <1>6 DEF Of
<1>8. Restarts(Back(t, c)) <=> q0 /\ x
  <2>1. Back(t, c).periodic = q0 /\ Back(t, c).activated = x
    BY <1>7, OfIs
  <2> QED BY Zenon, <2>1 DEF Restarts
<1>9. ASSUME NEW a \in BOOLEAN, NEW e \in 0 .. TickMax,
             timer' = [timer EXCEPT ![t] = [Back(t, c) EXCEPT !.activated = a, !.timeout_tick = e]]
      PROVE  Put(t, k, e, a, q0)
  <2>1. timer'[t] = [[Back(t, c) EXCEPT !.activated = a] EXCEPT !.timeout_tick = e]
    BY <1>2, <1>9
  <2>10. timer'[t] = [[Of(k, d0, x, q0) EXCEPT !.activated = a] EXCEPT !.timeout_tick = e]
    BY Zenon, <1>7, <2>1
  <2>2. timer'[t] = Of(k, e, a, q0)
    BY <2>10 DEF Of
  <2>3. /\ timer'[t].init_tick = k /\ timer'[t].timeout_tick = e
        /\ timer'[t].activated = a /\ timer'[t].periodic = q0
    BY <2>2, OfIs
  <2>4. timer'[t] \in Fields
    BY <1>5, <1>6, <2>2, OfIs
  <2>5. timer' \in [Timer -> Fields] /\ \A u \in Timer \ {t} : timer'[u] = timer[u]
    BY <1>2, <1>9, <2>4
  <2> QED BY <2>3, <2>5 DEF Put
<1>10. Half \in Nat /\ k \in Nat /\ 0 \in 0 .. TickMax
  BY TimesAre, HalfIs DEF TickMax
<1>11. CASE Again(t, c) /\ TooLong(t)
  <2>1. /\ isr' = "assert" /\ timer_list' = Tail(timer_list) /\ UNCHANGED history
        /\ timer' = [timer EXCEPT ![t] = Idle(t, FALSE)]
    BY <1>11 DEF CheckFire, Again, Back
  <2>2. Put(t, k, 0, FALSE, timer[t].periodic)
    BY <1>2, <2>1, IdleIs
  <2> QED BY <1>1, <2>1, <2>2 DEF Stuck
<1>12. CASE ~ (Again(t, c) /\ TooLong(t))
  <2>1. /\ timer_list' = IF Again(t, c) THEN Inserted(Tail(timer_list), t, Deadline(timer[t].init_tick))
                                        ELSE Tail(timer_list)
        /\ timer' = [timer EXCEPT ![t] =
              [Back(t, c) EXCEPT !.activated = Restarts(Back(t, c)),
                                 !.timeout_tick = IF Again(t, c) THEN Deadline(timer[t].init_tick) ELSE 0]]
        /\ left' = [left EXCEPT ![t] = IF Again(t, c) THEN timer[t].init_tick ELSE 0]
        /\ calls' = [calls EXCEPT ![t] = calls[t] + 1]
        /\ stopped' = [stopped EXCEPT ![t] = c = "stop" /\ timer[t].activated]
        /\ blurred' = [blurred EXCEPT ![t] = Again(t, c) /\ ~ Restarts(Back(t, c))]
        /\ isr' = isr
    BY <1>12 DEF CheckFire, Again, Back
  <2>2. PICK s \in BOOLEAN : s = (c = "stop" /\ timer[t].activated)
    BY Zenon
  <2>3. PICK a \in BOOLEAN : a = Restarts(Back(t, c))
    BY Zenon DEF Restarts
  <2>4. CASE Again(t, c)
    <3>1. k < Half
      BY <1>10, <1>12, <2>4 DEF TooLong
    <3>2. s = FALSE
      BY <1>4, <1>8, <2>2, <2>4 DEF Again
    <3>3. (Again(t, c) /\ ~ Restarts(Back(t, c))) = ~ a
      BY Zenon, <2>3, <2>4
    <3>4. timer' = [timer EXCEPT ![t] = [Back(t, c) EXCEPT !.activated = a, !.timeout_tick = d]]
      BY <2>1, <2>3, <2>4
    <3>5. Put(t, k, d, a, timer[t].periodic)
      BY <1>6, <1>9, <3>4
    <3>6. stopped' = [stopped EXCEPT ![t] = FALSE] /\ blurred' = [blurred EXCEPT ![t] = ~ a]
      BY Zenon, <2>1, <2>2, <3>2, <3>3
    <3>7. timer_list' = Inserted(Tail(timer_list), t, d) /\ left' = [left EXCEPT ![t] = k]
      BY <2>1, <2>4
    <3> QED BY <1>1, <2>1, <3>1, <3>5, <3>6, <3>7 DEF StartedAgain, Count
  <2>5. CASE ~ Again(t, c)
    <3>1. a = FALSE
      BY <2>3, <2>5 DEF Again
    <3>2. (Again(t, c) /\ ~ Restarts(Back(t, c))) = FALSE
      BY Zenon, <2>5
    <3>3. timer' = [timer EXCEPT ![t] = [Back(t, c) EXCEPT !.activated = FALSE, !.timeout_tick = 0]]
      BY <2>1, <2>3, <2>5, <3>1
    <3>4. Put(t, k, 0, FALSE, timer[t].periodic)
      BY <1>6, <1>9, <1>10, <3>3
    <3>5. stopped' = [stopped EXCEPT ![t] = s] /\ blurred' = [blurred EXCEPT ![t] = FALSE]
      BY Zenon, <2>1, <2>2, <3>2
    <3>6. timer_list' = Tail(timer_list) /\ left' = [left EXCEPT ![t] = 0]
      BY <2>1, <2>5
    <3>7. s => t \notin Sleeper
      BY <2>2 DEF CheckFire, Callback
    <3> QED BY <1>1, <2>1, <3>4, <3>5, <3>6, <3>7 DEF Gone, Count
  <2> QED BY <2>4, <2>5
<1> QED BY <1>11, <1>12

\* A timer that is inserted is in front of later ones only (EarlyInsertedFirst).
InFront ==
    \A i, j \in 1 .. Len(timer_list') :
       LET t == timer_list'[i]
           new == ~ Listed(t) \/ left'[t] > left[t]
       IN  new /\ i < j => left'[timer_list'[j]] # left'[t]

\* Only t is inserted.
LEMMA InFrontIs ==
  ASSUME NEW t, timer_list' \in Seq(Timer), left \in [Timer -> Int], left' \in [Timer -> Int],
         \A u \in Range(timer_list') \ {t} : Listed(u) /\ left'[u] <= left[u],
         t \in Range(timer_list') => Ahead(timer_list', left', t)
  PROVE  InFront
<1> SUFFICES ASSUME NEW i \in 1 .. Len(timer_list'), NEW j \in 1 .. Len(timer_list'), i < j,
                    ~ Listed(timer_list'[i]) \/ left'[timer_list'[i]] > left[timer_list'[i]],
                    left'[timer_list'[j]] = left'[timer_list'[i]]
             PROVE  FALSE
  BY DEF InFront
<1>1. /\ timer_list'[i] \in Range(timer_list') /\ timer_list'[i] \in Timer
      /\ timer_list'[j] \in Timer
  BY DEF Range
<1>2. timer_list'[i] = t
  BY <1>1
<1>3. left'[timer_list'[j]] > left'[t]
  BY <1>1, <1>2 DEF Ahead
<1> QED BY <1>1, <1>2, <1>3

\* The first timer, which is due, and the others.
LEMMA FirstIs ==
  ASSUME TInv, isr = "check", timer_list # <<>>, NEW t, t = Head(timer_list), Due(t)
  PROVE  /\ t \in Timer /\ Listed(t) /\ TypeOK /\ One(t) /\ left[t] \in -MaxDelay .. 0 /\ calls[t] = 0
         /\ Tail(timer_list) \in Seq(Timer) /\ Distinct(Tail(timer_list))
         /\ Range(Tail(timer_list)) = Range(timer_list) \ {t} /\ Ordered(Tail(timer_list), left)
         /\ timer[t].init_tick \in Times
         /\ t \in Driver => pc[t] \notin OffList
<1>1. /\ TypeOK /\ timer_list \in Seq(Timer) /\ Distinct(timer_list) /\ Ordered(timer_list, left)
      /\ left \in [Timer -> Int] /\ MaxDelay \in Nat
  BY TypeIs, TimeAssumption DEF TInv
<1>2. /\ t \in Timer /\ Listed(t)
      /\ Tail(timer_list) \in Seq(Timer) /\ Distinct(Tail(timer_list))
      /\ Range(Tail(timer_list)) = Range(timer_list) \ {t} /\ Ordered(Tail(timer_list), left)
  BY <1>1, TailIs DEF Listed
<1>3. One(t) /\ left[t] \in Int /\ left[t] <= 0
  BY <1>1, <1>2, DueLeft DEF TInv
<1>4. left[t] \in -MaxDelay .. 0
  BY <1>1, <1>2, <1>3 DEF One, Delayed
<1>5. calls[t] = 0
  BY <1>2, <1>3 DEF One, Called
<1> QED BY <1>1, <1>2, <1>3, <1>4, <1>5 DEF One, Delayed, Unlinked

\* rt_timer_check calls the first timer.
LEMMA CheckFireInv ==
  ASSUME TInv, NEW c \in {"none", "start", "stop"}, CheckFire(c)
  PROVE  TInv' /\ InFront
<1>1. PICK t : t = Head(timer_list)
  OBVIOUS
<1>2. isr = "check" /\ timer_list # <<>> /\ Due(t)
  BY <1>1 DEF CheckFire
<1>3. /\ t \in Timer /\ Listed(t) /\ TypeOK /\ One(t) /\ left[t] \in -MaxDelay .. 0 /\ calls[t] = 0
      /\ Tail(timer_list) \in Seq(Timer) /\ Distinct(Tail(timer_list))
      /\ Range(Tail(timer_list)) = Range(timer_list) \ {t} /\ Ordered(Tail(timer_list), left)
      /\ timer[t].init_tick \in Times /\ (t \in Driver => pc[t] \notin OffList)
  BY <1>1, <1>2, FirstIs
<1>4. PICK k \in Times : k = timer[t].init_tick
  BY <1>3
<1>5. PICK d : d = Deadline(k)
  OBVIOUS
<1>6. d = Wrap(tick + k) /\ d \in 0 .. TickMax
  BY <1>3, <1>5, DeadlineIs
<1>7. /\ UNCHANGED <<tick, pc, seen_flag>>
      /\ Stuck(t, k) \/ (\E s \in BOOLEAN : Gone(t, k, s)) \/ (\E a \in BOOLEAN : StartedAgain(t, k, d, a))
  <2>1. t = Head(timer_list) /\ t \in Timer /\ k = timer[t].init_tick /\ d \in 0 .. TickMax /\ d = Deadline(k)
    BY <1>1, <1>3, <1>4, <1>5, <1>6
  <2> QED BY ONLY TInv, CheckFire(c), <2>1, FireIs, Zenon
<1>8. /\ tick' \in 0 .. TickMax /\ pc' \in [Driver -> ClientPC] /\ seen_flag' \in [Driver -> BOOLEAN]
      /\ left \in [Timer -> Int] /\ calls \in [Timer -> Nat]
      /\ stopped \in [Timer -> BOOLEAN] /\ blurred \in [Timer -> BOOLEAN]
      /\ timer \in [Timer -> Fields] /\ MaxDelay \in Nat /\ k \in Nat /\ k >= 1
  BY <1>3, <1>7, TypeIs, TimesAre
<1>9. ~ Starting(t)' /\ Range(timer_list) \subseteq Timer
  <2>1. timer_list \in Seq(Timer)
    BY <1>3, TypeIs
  <2> QED BY <1>3, <1>7, <2>1 DEF Starting, OffList, Range
<1>10. CASE Stuck(t, k)
  <2>1. /\ isr' = "assert" /\ timer_list' = Tail(timer_list) /\ UNCHANGED <<left, calls, stopped, blurred>>
        /\ Put(t, k, 0, FALSE, timer[t].periodic)
    BY <1>10 DEF Stuck, history
  <2>2. ~ Listed(t)' /\ \A u \in Timer \ {t} : Listed(u)' <=> Listed(u)
    BY <1>3, <2>1 DEF Listed
  <2>3. TypeOK'
    <3>1. /\ timer' \in [Timer -> Fields] /\ timer_list' \in Seq(Timer) /\ Distinct(timer_list')
          /\ isr' \in {"off", "check", "assert"} /\ left' \in [Timer -> Int] /\ calls' \in [Timer -> Nat]
          /\ stopped' \in [Timer -> BOOLEAN] /\ blurred' \in [Timer -> BOOLEAN]
      BY <1>3, <1>8, <2>1 DEF Put
    <3> QED BY <1>8, <3>1, TypeNext
  <2>4. Frame(t)
    BY <1>7, <2>1, <2>2 DEF Frame, Put
  <2>5. Ordered(timer_list', left')
    BY <1>3, <2>1
  <2>6. Clocked(t)' /\ Unlinked(t)'
    BY Zenon, <1>9, <2>2 DEF Clocked, Unlinked, Running
  <2>7. Delayed(t)' /\ Called(t)'
    BY <1>3, <1>9, <2>1, <2>2 DEF Delayed, Called, Put
  <2>8. Stops(t)' /\ Marked(t)'
    <3>1. timer'[t].activated = FALSE
      BY <2>1 DEF Put
    <3> QED BY Zenon, <1>3, <1>7, <2>1, <2>2, <3>1 DEF One, Stops, Marked
  <2>9. One(t)'
    BY Zenon, <2>6, <2>7, <2>8 DEF One
  <2>10. InFront
    <3>1. \A u \in Range(timer_list') : Listed(u) /\ left'[u] <= left[u] /\ u # t
      BY <1>3, <1>8, <1>9, <2>1 DEF Listed
    <3>2. timer_list' \in Seq(Timer) /\ left' \in [Timer -> Int]
      BY <1>3, <1>8, <2>1
    <3> QED BY <1>8, <3>1, <3>2, InFrontIs
  <2> QED BY <1>3, <2>3, <2>4, <2>5, <2>9, <2>10, OneStep
<1>11. ASSUME NEW s \in BOOLEAN, Gone(t, k, s)
       PROVE  TInv' /\ InFront
  <2>1. /\ isr' = isr /\ timer_list' = Tail(timer_list) /\ left' = [left EXCEPT ![t] = 0]
        /\ calls' = [calls EXCEPT ![t] = calls[t] + 1]
        /\ stopped' = [stopped EXCEPT ![t] = s] /\ blurred' = [blurred EXCEPT ![t] = FALSE]
        /\ Put(t, k, 0, FALSE, timer[t].periodic)
    BY <1>11 DEF Gone, Count
  <2>2. ~ Listed(t)' /\ \A u \in Timer \ {t} : Listed(u)' <=> Listed(u)
    BY <1>3, <2>1 DEF Listed
  <2>3. /\ left' \in [Timer -> Int] /\ calls' \in [Timer -> Nat] /\ calls'[t] = 1
        /\ stopped' \in [Timer -> BOOLEAN] /\ blurred' \in [Timer -> BOOLEAN]
        /\ \A u \in Timer \ {t} : /\ left'[u] = left[u] /\ calls'[u] = calls[u]
                                  /\ stopped'[u] = stopped[u] /\ blurred'[u] = blurred[u]
    BY <1>3, <1>8, <2>1
  <2>4. TypeOK'
    <3>1. /\ timer' \in [Timer -> Fields] /\ timer_list' \in Seq(Timer) /\ Distinct(timer_list')
          /\ isr' \in {"off", "check", "assert"}
      BY <1>2, <1>3, <2>1 DEF Put
    <3> QED BY <1>8, <2>3, <3>1, TypeNext
  <2>5. Frame(t)
    BY <1>7, <2>1, <2>2, <2>3 DEF Frame, Put
  <2>6. Ordered(timer_list', left')
    <3>1. \A u \in Range(Tail(timer_list)) : left'[u] = left[u]
      BY <1>3, <1>9, <2>3
    <3> QED BY <1>3, <2>1, <3>1, OrderSame
  <2>7. Clocked(t)' /\ Unlinked(t)'
    BY Zenon, <1>9, <2>2 DEF Clocked, Unlinked, Running
  <2>8. Delayed(t)' /\ Called(t)'
    BY <1>2, <1>3, <1>9, <2>1, <2>2, <2>3 DEF Delayed, Called, Put
  <2>9. Stops(t)'
    <3>1. t \in Sleeper => ~ s
      BY <1>11 DEF Gone
    <3> QED BY <1>3, <1>7, <2>1, <2>2, <2>3, <3>1 DEF Stops, OffList
  <2>10. Marked(t)'
    <3>1. timer'[t].activated = FALSE
      BY <2>1 DEF Put
    <3> QED BY Zenon, <2>2, <3>1 DEF Marked
  <2>11. One(t)'
    BY Zenon, <2>7, <2>8, <2>9, <2>10 DEF One
  <2>12. InFront
    <3>1. \A u \in Range(timer_list') : Listed(u) /\ left'[u] <= left[u] /\ u # t
      BY <1>3, <1>8, <1>9, <2>1, <2>3 DEF Listed
    <3>2. timer_list' \in Seq(Timer)
      BY <1>3, <2>1
    <3> QED BY <1>8, <2>3, <3>1, <3>2, InFrontIs
  <2> QED BY <1>3, <2>4, <2>5, <2>6, <2>11, <2>12, OneStep
<1>12. ASSUME NEW a \in BOOLEAN, StartedAgain(t, k, d, a)
       PROVE  TInv' /\ InFront
  <2>1. /\ isr' = isr /\ timer_list' = Inserted(Tail(timer_list), t, d) /\ left' = [left EXCEPT ![t] = k]
        /\ calls' = [calls EXCEPT ![t] = calls[t] + 1] /\ k < Half
        /\ stopped' = [stopped EXCEPT ![t] = FALSE] /\ blurred' = [blurred EXCEPT ![t] = ~ a]
        /\ Put(t, k, d, a, timer[t].periodic)
    BY <1>12 DEF StartedAgain, Count
  <2>2. /\ left' \in [Timer -> Int] /\ left'[t] = k /\ calls' \in [Timer -> Nat] /\ calls'[t] = 1
        /\ \A u \in Timer \ {t} : left'[u] = left[u] /\ calls'[u] = calls[u]
    BY <1>3, <1>8, <2>1
  <2>3. /\ stopped' \in [Timer -> BOOLEAN] /\ stopped'[t] = FALSE
        /\ blurred' \in [Timer -> BOOLEAN] /\ blurred'[t] = ~ a
        /\ \A u \in Timer \ {t} : stopped'[u] = stopped[u] /\ blurred'[u] = blurred[u]
    <3>1. (~ a) \in BOOLEAN
      BY Zenon
    <3> QED BY <1>3, <1>8, <2>1, <3>1
  <2>4. \A u \in Range(Tail(timer_list)) : left'[u] = left[u]
    BY <1>3, <1>9, <2>2
  <2>5. IsWith(timer_list', Tail(timer_list), t, left')
    <3>1. k \in k - MaxDelay .. k
      BY <1>8
    <3>2. Compares(Tail(timer_list), t, d, left')
      BY <1>3, <1>6, <2>1, <2>2, <2>4, <3>1, ComparesIs
    <3>3. Ordered(Tail(timer_list), left') /\ t \notin Range(Tail(timer_list))
      BY <1>3, <2>4, OrderSame
    <3> QED BY <1>3, <2>1, <3>2, <3>3, InsertedIs
  <2>6. /\ timer_list' \in Seq(Timer) /\ Distinct(timer_list') /\ Ordered(timer_list', left')
        /\ Range(timer_list') = Range(Tail(timer_list)) \cup {t} /\ Ahead(timer_list', left', t)
    BY <2>5 DEF IsWith
  <2>7. Listed(t)' /\ \A u \in Timer \ {t} : Listed(u)' <=> Listed(u)
    BY <1>3, <2>6 DEF Listed
  <2>8. TypeOK'
    <3>1. timer' \in [Timer -> Fields] /\ isr' \in {"off", "check", "assert"}
      BY <1>2, <2>1 DEF Put
    <3> QED BY <1>8, <2>2, <2>3, <2>6, <3>1, TypeNext
  <2>9. Frame(t)
    BY <1>7, <2>1, <2>2, <2>3, <2>7 DEF Frame, Put
  <2>10. Clocked(t)'
    <3>1. timer'[t].timeout_tick = Wrap(tick' + k) /\ k <= k
      BY <1>6, <1>7, <1>8, <2>1 DEF Put
    <3> QED BY <2>1, <2>2, <3>1 DEF Clocked
  <2>11. Delayed(t)'
    <3>1. k > -MaxDelay /\ k >= -MaxDelay /\ timer'[t].init_tick = k
      BY <1>8, <2>1 DEF Put
    <3> QED BY <1>9, <2>2, <3>1 DEF Delayed
  <2>12. Called(t)' /\ Unlinked(t)'
    BY <1>2, <1>3, <1>7, <1>8, <2>1, <2>2 DEF Called, Unlinked
  <2>13. Stops(t)'
    BY <2>3 DEF Stops
  <2>14. Marked(t)'
    <3>1. timer'[t].activated = a
      BY <2>1 DEF Put
    <3> QED BY Zenon, <2>3, <2>7, <3>1 DEF Marked
  <2>15. One(t)'
    BY Zenon, <2>10, <2>11, <2>12, <2>13, <2>14 DEF One
  <2>16. InFront
    <3>1. \A u \in Range(timer_list') \ {t} : Listed(u) /\ left'[u] <= left[u]
      BY <1>3, <1>8, <1>9, <2>4, <2>6 DEF Listed
    <3> QED BY <1>8, <2>2, <2>6, <3>1, InFrontIs
  <2> QED BY <1>3, <2>6, <2>8, <2>9, <2>15, <2>16, OneStep
<1> QED BY <1>7, <1>10, <1>11, <1>12

\* The invariant holds before any timer is started.
LEMMA InitInv == Init => TInv
<1> SUFFICES ASSUME Init PROVE TInv
  OBVIOUS
<1>1. /\ tick = 0 /\ timer_list = <<>> /\ isr = "off" /\ pc = [t \in Driver |-> "idle"]
      /\ timer = [t \in Timer |-> Of(1, 0, FALSE, FALSE)] /\ seen_flag = [t \in Driver |-> FALSE]
      /\ left = [t \in Timer |-> 0] /\ calls = [t \in Timer |-> 0]
      /\ stopped = [t \in Timer |-> FALSE] /\ blurred = [t \in Timer |-> FALSE]
  BY DEF Init, Of
<1>2. 0 \in 0 .. TickMax /\ 1 \in Times
  BY HalfIs DEF TickMax, Times
<1>3. Of(1, 0, FALSE, FALSE) \in Fields
  BY <1>2, OfIs
<1>4. timer \in [Timer -> Fields] /\ pc \in [Driver -> ClientPC]
  BY <1>1, <1>3 DEF ClientPC
<1>5. timer_list \in Seq(Timer) /\ Distinct(timer_list) /\ Ordered(timer_list, left)
  BY <1>1 DEF Distinct, Ordered
<1>6. TypeOK
  <2>1. /\ seen_flag \in [Driver -> BOOLEAN] /\ stopped \in [Timer -> BOOLEAN] /\ blurred \in [Timer -> BOOLEAN]
        /\ left \in [Timer -> Int] /\ calls \in [Timer -> Nat]
    BY <1>1
  <2>2. tick \in 0 .. TickMax /\ isr \in {"off", "check", "assert"}
    BY <1>1, <1>2
  <2> QED BY Zenon, <1>4, <1>5, <2>1, <2>2, TypeIs
<1>7. ASSUME NEW t \in Timer PROVE One(t)
  <2>1. ~ Listed(t) /\ ~ Starting(t) /\ ~ Running(t)
    BY <1>1 DEF Listed, Starting, Running, Range
  <2>20. timer[t] = Of(1, 0, FALSE, FALSE)
    BY <1>1
  <2>2. timer[t].init_tick = 1 /\ timer[t].activated = FALSE
    BY <2>20 DEF Of
  <2>3. Clocked(t) /\ Unlinked(t)
    BY Zenon, <2>1 DEF Clocked, Unlinked
  <2>4. Delayed(t) /\ Called(t)
    BY <1>1, <1>2, <2>1, <2>2 DEF Delayed, Called
  <2>5. Stops(t)
    BY <1>1 DEF Stops
  <2>6. Marked(t)
    BY Zenon, <2>1, <2>2 DEF Marked
  <2> QED BY Zenon, <2>3, <2>4, <2>5, <2>6 DEF One
<1> QED BY <1>5, <1>6, <1>7 DEF TInv

\* A step that leaves the list as it is, and no listed timer with more to go.
LEMMA SameInFront ==
  ASSUME TInv, TInv', timer_list' = timer_list, \A u \in Timer : Listed(u) => left'[u] <= left[u]
  PROVE  InFront
<1>1. timer_list \in Seq(Timer) /\ left \in [Timer -> Int] /\ left' \in [Timer -> Int]
  BY DEF TInv, TypeOK
<1>2. \A u \in Range(timer_list') : u \in Timer /\ Listed(u)
  BY <1>1 DEF Range, Listed
<1>3. PICK t : t \notin Range(timer_list')
  <2>1. \E t : t \notin Range(timer_list')
    BY NoSetContainsEverything
  <2> QED BY <2>1
<1> QED BY <1>1, <1>2, <1>3, InFrontIs

\* A step that takes a timer out of the list.
LEMMA OutInFront ==
  ASSUME TInv, NEW t \in Timer, Out(t)
  PROVE  InFront
<1>1. /\ timer_list' \in Seq(Timer) /\ left' \in [Timer -> Int] /\ ~ Listed(t)' /\ left \in [Timer -> Int]
      /\ \A u \in Timer \ {t} : left'[u] = left[u] /\ (Listed(u)' <=> Listed(u))
  BY OutIs DEF TInv, TypeOK
<1>2. \A u \in Range(timer_list') : u \in Timer /\ u # t
  BY <1>1 DEF Range, Listed
<1>3. \A u \in Range(timer_list') \ {t} : Listed(u) /\ left'[u] <= left[u]
  BY <1>1, <1>2 DEF Listed
<1>4. t \notin Range(timer_list')
  BY <1>1 DEF Listed
<1> QED BY <1>1, <1>3, <1>4, InFrontIs

\* A step that puts a timer into the list.
LEMMA InInFront ==
  ASSUME TInv, TInv', NEW t \in Timer, IsWith(timer_list', timer_list, t, left'),
         \A u \in Timer \ {t} : left'[u] = left[u]
  PROVE  InFront
<1>1. /\ timer_list' \in Seq(Timer) /\ left' \in [Timer -> Int] /\ left \in [Timer -> Int]
      /\ Range(timer_list') = Range(timer_list) \cup {t} /\ Ahead(timer_list', left', t)
  BY DEF TInv, TypeOK, IsWith
<1>2. \A u \in Range(timer_list') \ {t} : u \in Timer /\ Listed(u)
  <2>1. Range(timer_list') \subseteq Timer
    BY <1>1 DEF Range
  <2> QED BY <1>1, <2>1 DEF Listed
<1> QED BY <1>1, <1>2, InFrontIs

\* Every step keeps the invariant, and puts timers of one deadline in order.
LEMMA NextInv ==
  ASSUME TInv, Next
  PROVE  TInv' /\ InFront
<1>0. left \in [Timer -> Int] /\ Sleeper \subseteq Timer /\ Driver \subseteq Timer
  BY DEF TInv, TypeOK, Timer
<1>1. CASE Tick
  <2>1. TInv' /\ timer_list' = timer_list
    BY <1>1, TickInv DEF Tick
  <2>2. ASSUME NEW u \in Timer PROVE left'[u] <= left[u]
    BY <1>0, <1>1, TimeAssumption DEF Tick, Less
  <2> QED BY <2>1, <2>2, SameInFront
<1>2. CASE CheckEnd
  <2>1. TInv' /\ timer_list' = timer_list /\ left' = left
    BY <1>2, CheckEndInv DEF CheckEnd
  <2> QED BY <1>0, <2>1, SameInFront
<1>3. CASE \E c \in {"none", "start", "stop"} : CheckFire(c)
  BY <1>3, CheckFireInv
<1>4. CASE \E t \in Sleeper : SleeperStop(t)
  <2>1. PICK t \in Sleeper : SleeperStop(t)
    BY <1>4
  <2>2. Out(t)
    BY <2>1 DEF SleeperStop, Out
  <2> QED BY <1>0, <2>1, <2>2, SleeperStopInv, OutInFront
<1>5. CASE \E t \in Sleeper, n \in Time : SleeperStart(t, n)
  <2>1. PICK t \in Sleeper, n \in Time : SleeperStart(t, n)
    BY <1>5
  <2>2. \A u \in Timer \ {t} : left'[u] = left[u]
    BY <1>0, <2>1 DEF SleeperStart
  <2> QED BY <1>0, <2>1, <2>2, SleeperStartInv, InInFront
<1>6. ASSUME NEW t \in Driver, ClientCall(t)
      PROVE  TInv' /\ InFront
  <2>1. CASE StartRemove(t)
    <3>1. Out(t)
      BY <2>1 DEF StartRemove, Out
    <3> QED BY <1>0, <2>1, <3>1, StartRemoveInv, OutInFront
  <2>2. CASE StopTest(t)
    <3>1. timer_list' = timer_list /\ left' = left
      BY <2>2 DEF StopTest, history
    <3> QED BY <1>0, <2>2, <3>1, StopTestInv, SameInFront
  <2>3. CASE ControlRead(t)
    <3>1. timer_list' = timer_list /\ left' = left
      BY <2>3 DEF ControlRead, history
    <3> QED BY <1>0, <2>3, <3>1, ControlReadInv, SameInFront
  <2>4. CASE Detach(t)
    <3>1. Out(t)
      BY <2>4 DEF Detach, Out
    <3> QED BY <1>0, <2>4, <3>1, DetachInv, OutInFront
  <2>5. ASSUME NEW n \in Time, ControlTime(t, n) PROVE TInv' /\ InFront
    <3>1. timer_list' = timer_list /\ left' = left
      BY <2>5 DEF ControlTime, history
    <3> QED BY <1>0, <2>5, <3>1, ControlTimeInv, SameInFront
  <2> QED BY <1>6, <2>1, <2>2, <2>3, <2>4, <2>5 DEF ClientCall
<1>7. ASSUME NEW t \in Driver, ClientStep(t)
      PROVE  TInv' /\ InFront
  <2>1. CASE StartTime(t)
    <3>1. timer_list' = timer_list /\ \A u \in Timer \ {t} : left'[u] = left[u]
      BY <1>0, <2>1 DEF StartTime
    <3>2. ~ Listed(t)
      <4>1. One(t) /\ pc[t] = "start"
        BY <1>0, <2>1 DEF TInv, StartTime, At
      <4> QED BY <4>1 DEF One, Unlinked, OffList
    <3>3. \A u \in Timer : Listed(u) => left'[u] <= left[u]
      BY <1>0, <3>1, <3>2
    <3> QED BY <2>1, <3>1, <3>3, StartTimeInv, SameInFront
  <2>2. CASE StartInsert(t)
    <3>1. left' = left
      BY <2>2 DEF StartInsert, history
    <3> QED BY <1>0, <2>2, <3>1, StartInsertInv, InInFront
  <2>3. CASE StopRemove(t)
    <3>1. Out(t)
      BY <2>3 DEF StopRemove, Out
    <3> QED BY <1>0, <2>3, <3>1, StopRemoveInv, OutInFront
  <2>4. CASE StopReturn(t)
    <3>1. timer_list' = timer_list /\ left' = left
      BY <2>4 DEF StopReturn
    <3> QED BY <1>0, <2>4, <3>1, StopReturnInv, SameInFront
  <2>5. ASSUME NEW q \in BOOLEAN, ControlWrite(t, q) PROVE TInv' /\ InFront
    <3>1. timer_list' = timer_list /\ left' = left
      BY <2>5 DEF ControlWrite
    <3> QED BY <1>0, <2>5, <3>1, ControlWriteInv, SameInFront
  <2>6. ASSUME NEW q \in BOOLEAN, Make(t, q) PROVE TInv' /\ InFront
    <3>1. timer_list' = timer_list /\ left' = left
      BY <2>6 DEF Make
    <3> QED BY <1>0, <2>6, <3>1, MakeInv, SameInFront
  <2> QED BY <1>7, <2>1, <2>2, <2>3, <2>4, <2>5, <2>6 DEF ClientStep
<1> QED BY <1>1, <1>2, <1>3, <1>4, <1>5, <1>6, <1>7 DEF Next, Check

\* Nothing happens.
LEMMA StutterInv ==
  ASSUME TInv, UNCHANGED vars
  PROVE  TInv'
BY DEF vars, history, TInv, TypeOK, Ordered, One, Clocked, Delayed, Called, Unlinked, Stops, Marked,
       Running, Starting, Listed

-----------------------------------------------------------------------------
(* The theorems.                                                           *)

\* The invariant of the timers is inductive.
THEOREM TimersKeepTInv == Spec => []TInv
<1>1. TInv /\ [Next]_vars => TInv'
  BY NextInv, StutterInv
<1> QED BY InitInv, <1>1, PTL DEF Spec

\* rt_timer_start, stop, control, detach and rt_timer_check, interleaved at their
\* locked sections, keep the list sorted by the true deadlines although the
\* deadlines are compared modulo 2^32; no timer is missed or called twice in a
\* tick, and the ACTIVATED flag is wrong in two cases only.
THEOREM TimersAreSound == Spec => []TimerInv
<1>1. TInv => TimerInv
  <2> SUFFICES ASSUME TInv PROVE TimerInv
    OBVIOUS
  <2>1. TypeOK
    BY DEF TInv
  <2>2. InDeadlineOrder
    BY DEF TInv, Ordered, One, Delayed, InDeadlineOrder
  <2>3. ActivatedIsListed
    <3> SUFFICES ASSUME NEW t \in Timer, timer[t].activated # Listed(t)
                 PROVE  blurred[t] \/ (t \in Driver /\ pc[t] \in {"stop_removed", "detached"})
      BY DEF ActivatedIsListed
    <3>1. timer[t] \in Fields /\ Marked(t)
      BY TypeIs DEF TInv, One
    <3>2. timer[t].activated \in BOOLEAN
      BY <3>1, FieldsAre
    <3>3. ~ (timer[t].activated <=> Listed(t))
      <4>1. Listed(t) \in BOOLEAN
        BY DEF Listed
      <4>2. \A x, y \in BOOLEAN : x # y => ~ (x <=> y)
        BY Zenon
      <4> QED BY Zenon, <3>2, <4>1, <4>2
    <3> QED BY Zenon, <3>1, <3>3 DEF Marked
  <2>4. OncePerTick
    BY DEF TInv, One, Called, OncePerTick
  <2> QED BY <2>1, <2>2, <2>3, <2>4 DEF TimerInv
<1> QED BY <1>1, TimersKeepTInv, PTL

\* A timer that rt_timer_stop or rt_timer_detach took out is not on the list, and
\* so not called, before it is started again.
THEOREM StoppedTimersAreOut == Spec => []StoppedIsOut
<1>1. TInv => StoppedIsOut
  BY DEF TInv, One, Stops, StoppedIsOut
<1> QED BY <1>1, TimersKeepTInv, PTL

\* rt_timer_check calls a timer when its time has passed, late only by the delay
\* of its start, and timers of one deadline in the order of their insertion.
THEOREM TimersAreCalledInOrder == Spec => CallsInOrder
<1>1. TInv /\ [Next]_vars => [\A c \in {"none", "start", "stop"} :
         CheckFire(c) => left[Head(timer_list)] \in -MaxDelay .. 0]_vars
  <2> SUFFICES ASSUME TInv, NEW c \in {"none", "start", "stop"}, CheckFire(c)
               PROVE  left[Head(timer_list)] \in -MaxDelay .. 0
    OBVIOUS
  <2>1. isr = "check" /\ timer_list # <<>> /\ Due(Head(timer_list))
    BY DEF CheckFire
  <2> QED BY <2>1, FirstIs
<1>2. TInv /\ [Next]_vars => [\A i, j \in 1 .. Len(timer_list') :
         LET t == timer_list'[i]
             new == ~ Listed(t) \/ left'[t] > left[t]
         IN  new /\ i < j => left'[timer_list'[j]] # left'[t]]_vars
  BY NextInv DEF InFront
<1>3. Spec => FiresOnTime
  BY <1>1, TimersKeepTInv, PTL DEF Spec, FiresOnTime
<1>4. Spec => EarlyInsertedFirst
  BY <1>2, TimersKeepTInv, PTL DEF Spec, EarlyInsertedFirst
<1> QED BY <1>3, <1>4 DEF CallsInOrder
=============================================================================
