----------------------------- MODULE HeapProofs -----------------------------
(***************************************************************************)
(* Proofs about the heap and the semaphore it is locked with, for every    *)
(* size of the heap and every number of threads.                           *)
(***************************************************************************)
EXTENDS KernelSyncProofs

-----------------------------------------------------------------------------
(* Headers: what splitting and joining blocks does to them.                *)

Header == [used : BOOLEAN, next : 0 .. HeapEnd, prev : 0 .. HeapEnd]

\* a part of the heap's headers is linked in the order of their addresses
Shape(h) ==
    /\ h \in [DOMAIN h -> Header]
    /\ DOMAIN h \subseteq 0 .. HeapEnd /\ 0 \in DOMAIN h /\ HeapEnd \in DOMAIN h
    /\ h[HeapEnd].used
    /\ h[0].prev = 0
    /\ \A a \in DOMAIN h \ {HeapEnd} :
          /\ h[a].next \in DOMAIN h /\ h[a].next >= a + SizeofMem
          /\ \A x \in DOMAIN h : ~ (a < x /\ x < h[a].next)
          /\ h[a].next # HeapEnd => h[h[a].next].prev = a
    /\ \A a \in DOMAIN h \ {0, HeapEnd} :
          h[a].prev \in DOMAIN h \ {HeapEnd} /\ h[h[a].prev].next = a

UsedIn(h) == {a \in DOMAIN h \ {HeapEnd} : h[a].used}

\* no two free blocks are neighbours
Tight(h) == \A a \in DOMAIN h \ {HeapEnd} :
               ~ h[a].used /\ h[a].next # HeapEnd => h[h[a].next].used

\* m is the lowest free block, or heap_end
IsLowest(h, m) == /\ m \in DOMAIN h
                  /\ m = HeapEnd \/ ~ h[m].used
                  /\ \A x \in DOMAIN h : ~ h[x].used => m <= x

\* The sizes are numbers, and the heap has room for a block.
LEMMA HeapSizes ==
  /\ SizeofMem \in Nat /\ SizeofMem > 0 /\ MinSize \in Nat /\ MinSize > 0 /\ MemSize \in Nat
  /\ HeapEnd \in Nat /\ HeapEnd > 0 /\ HeapEnd = MemSize + SizeofMem
BY HeapAssumption DEF HeapEnd

\* Two blocks do not end at the same place.
LEMMA NextIsOne ==
  ASSUME NEW h, Shape(h), NEW a \in DOMAIN h \ {HeapEnd}, NEW b \in DOMAIN h \ {HeapEnd},
         h[a].next = h[b].next
  PROVE  a = b
BY HeapSizes DEF Shape

\* s is h with block a cut at b
IsSplit(h, s, a, b) ==
    /\ DOMAIN s = DOMAIN h \cup {b} /\ b \notin DOMAIN h /\ b \in 0 .. HeapEnd
    /\ a < b /\ b < h[a].next
    /\ s[a] = [used |-> h[a].used, next |-> b, prev |-> h[a].prev]
    /\ s[b] = [used |-> FALSE, next |-> h[a].next, prev |-> a]
    /\ \A x \in DOMAIN h \ {a} :
          s[x] = [used |-> h[x].used, next |-> h[x].next,
                  prev |-> IF x = h[a].next /\ x # HeapEnd THEN b ELSE h[x].prev]

\* A split: the headers afterwards.
LEMMA SplitIs ==
  ASSUME NEW h, Shape(h), NEW a \in DOMAIN h \ {HeapEnd}, NEW n \in Nat,
         NEW b, b = a + SizeofMem + n, b + SizeofMem <= h[a].next
  PROVE  IsSplit(h, Split(h, a, n), a, b)
<1>1. a \in Nat /\ h[a] \in Header /\ b \in 0 .. HeapEnd /\ a < b /\ b < h[a].next /\ b \notin DOMAIN h
  BY HeapSizes DEF Shape, Header
<1>2. \A x \in DOMAIN h : h[x] \in Header
  BY DEF Shape
<1>3. DOMAIN Split(h, a, n) = DOMAIN h \cup {b}
  BY DEF Split
<1>4. Split(h, a, n)[a] = [h[a] EXCEPT !.next = b]
  BY <1>1 DEF Split
<1>5. Split(h, a, n)[b] = [used |-> FALSE, next |-> h[a].next, prev |-> a]
  BY <1>1 DEF Split
<1>6. ASSUME NEW x \in DOMAIN h \ {a}
      PROVE  Split(h, a, n)[x] = [used |-> h[x].used, next |-> h[x].next,
                                    prev |-> IF x = h[a].next /\ x # HeapEnd THEN b ELSE h[x].prev]
  <2>1. Split(h, a, n)[x] = IF x = h[a].next /\ x # HeapEnd THEN [h[x] EXCEPT !.prev = b] ELSE h[x]
    BY <1>1 DEF Split
  <2>2. h[x] = [used |-> h[x].used, next |-> h[x].next, prev |-> h[x].prev]
    BY <1>2 DEF Header
  <2>3. [h[x] EXCEPT !.prev = b] = [used |-> h[x].used, next |-> h[x].next, prev |-> b]
    BY <1>1, <1>2 DEF Header
  <2> QED BY <2>1, <2>2, <2>3
<1>7. [h[a] EXCEPT !.next = b] = [used |-> h[a].used, next |-> b, prev |-> h[a].prev]
  BY <1>1 DEF Header
<1> QED BY <1>1, <1>3, <1>4, <1>5, <1>6, <1>7 DEF IsSplit

\* A split of a block keeps the links, and adds a free block behind it.
LEMMA SplitShape ==
  ASSUME NEW h, Shape(h), NEW a \in DOMAIN h \ {HeapEnd}, NEW n \in Nat,
         NEW b, b = a + SizeofMem + n, b + SizeofMem <= h[a].next
  PROVE  /\ Shape(Split(h, a, n)) /\ UsedIn(Split(h, a, n)) = UsedIn(h)
<1> DEFINE s == Split(h, a, n)
           c == h[a].next
<1>1. /\ DOMAIN s = DOMAIN h \cup {b} /\ b \notin DOMAIN h /\ b \in 0 .. HeapEnd /\ a < b /\ b < c
      /\ s[a] = [used |-> h[a].used, next |-> b, prev |-> h[a].prev]
      /\ s[b] = [used |-> FALSE, next |-> c, prev |-> a]
      /\ \A x \in DOMAIN h \ {a} :
            s[x] = [used |-> h[x].used, next |-> h[x].next,
                    prev |-> IF x = c /\ x # HeapEnd THEN b ELSE h[x].prev]
  BY SplitIs DEF IsSplit
<1> HIDE DEF s
<1>2. a \in 0 .. HeapEnd /\ h[a] \in Header /\ c \in DOMAIN h /\ c \in 0 .. HeapEnd
      /\ \A x \in DOMAIN h : h[x] \in Header /\ x \in 0 .. HeapEnd
  BY DEF Shape, Header
<1>3. ASSUME NEW x \in DOMAIN s PROVE s[x] \in Header
  <2>1. CASE x = a
    <3>1. s[a].used \in BOOLEAN /\ s[a].next \in 0 .. HeapEnd /\ s[a].prev \in 0 .. HeapEnd
      BY <1>1, <1>2 DEF Header
    <3> QED BY <1>1, <2>1, <3>1 DEF Header
  <2>3. CASE x = b
    <3>1. s[b].used \in BOOLEAN /\ s[b].next \in 0 .. HeapEnd /\ s[b].prev \in 0 .. HeapEnd
      BY <1>1, <1>2
    <3> QED BY <1>1, <2>3, <3>1 DEF Header
  <2>2. CASE x \notin {a, b}
    <3>1. s[x] = [used |-> h[x].used, next |-> h[x].next,
                  prev |-> IF x = c /\ x # HeapEnd THEN b ELSE h[x].prev]
      BY <1>1, <2>2
    <3> QED BY <1>1, <1>2, <2>2, <3>1 DEF Header
  <2> QED BY <2>1, <2>2, <2>3
<1>4. s = [x \in DOMAIN s |-> s[x]]
  BY DEF s, Split
<1>5. s \in [DOMAIN s -> Header]
  BY <1>3, <1>4
<1>6. DOMAIN s \subseteq 0 .. HeapEnd /\ 0 \in DOMAIN s /\ HeapEnd \in DOMAIN s
  BY <1>1 DEF Shape
<1>7. s[HeapEnd].used /\ s[0].prev = 0
  <2>1. c # 0
    BY <1>1, <1>2, HeapSizes
  <2> QED BY <1>1, <1>2, <2>1 DEF Shape
<1>8. ASSUME NEW x \in DOMAIN s \ {HeapEnd}
      PROVE  /\ s[x].next \in DOMAIN s /\ s[x].next >= x + SizeofMem
             /\ \A y \in DOMAIN s : ~ (x < y /\ y < s[x].next)
             /\ s[x].next # HeapEnd => s[s[x].next].prev = x
  <2>1. CASE x = a
    <3>1. s[x].next = b /\ s[b].prev = a
      BY <1>1, <2>1
    <3>2. \A y \in DOMAIN s : ~ (a < y /\ y < b)
      BY <1>1, <1>2 DEF Shape
    <3> QED BY <1>1, <1>2, <2>1, <3>1, <3>2, HeapSizes
  <2>2. CASE x = b
    <3>1. s[x].next = c
      BY <1>1, <2>2
    <3>2. \A y \in DOMAIN s : ~ (b < y /\ y < c)
      BY <1>1, <1>2 DEF Shape
    <3>3. c # HeapEnd => s[c].prev = b
      BY <1>1, <1>2
    <3> QED BY <1>1, <1>2, <2>2, <3>1, <3>2, <3>3, HeapSizes
  <2>3. CASE x # a /\ x # b
    <3>1. x \in DOMAIN h \ {HeapEnd} /\ s[x].next = h[x].next
      BY <1>1, <2>3
    <3>2. h[x].next # c
      BY <2>3, <3>1, NextIsOne
    <3>3. /\ h[x].next \in DOMAIN h /\ h[x].next >= x + SizeofMem
          /\ \A y \in DOMAIN h : ~ (x < y /\ y < h[x].next)
          /\ h[x].next # HeapEnd => h[h[x].next].prev = x
      BY <3>1 DEF Shape
    <3>4. ~ (x < b /\ b < h[x].next)
      <4>1. ~ (a < x /\ x < c) /\ ~ (x < a /\ a < h[x].next)
        BY <1>2, <3>1, <3>3 DEF Shape
      <4>2. x \in 0 .. HeapEnd /\ h[x].next \in 0 .. HeapEnd
        BY <1>2, <3>1, <3>3
      <4> QED BY <1>1, <1>2, <2>3, <4>1, <4>2
    <3>5. h[x].next # HeapEnd /\ h[x].next # a => s[h[x].next].prev = x
      BY <1>1, <3>2, <3>3
    <3>6. h[x].next = a => s[a].prev = x
      BY <1>1, <3>3
    <3> QED BY <1>1, <3>1, <3>3, <3>4, <3>5, <3>6
  <2> QED BY <2>1, <2>2, <2>3
<1>9. ASSUME NEW x \in DOMAIN s \ {0, HeapEnd}
      PROVE  s[x].prev \in DOMAIN s \ {HeapEnd} /\ s[s[x].prev].next = x
  <2>1. CASE x = b
    BY <1>1, <1>2, <2>1
  <2>2. CASE x = c /\ x # b
    <3>1. s[x].prev = b
      BY <1>1, <1>2, <2>2
    <3> QED BY <1>1, <1>2, <2>2, <3>1
  <2>3. CASE x # b /\ x # c
    <3>1. x \in DOMAIN h \ {0, HeapEnd} /\ s[x].prev = h[x].prev
      BY <1>1, <2>3
    <3>2. h[x].prev \in DOMAIN h \ {HeapEnd} /\ h[h[x].prev].next = x
      BY <3>1 DEF Shape
    <3>3. h[x].prev # a
      BY <2>3, <3>2
    <3> QED BY <1>1, <3>1, <3>2, <3>3
  <2> QED BY <2>1, <2>2, <2>3
<1>10. Shape(s)
  BY <1>5, <1>6, <1>7, <1>8, <1>9 DEF Shape
<1>11. UsedIn(s) = UsedIn(h)
  BY <1>1 DEF UsedIn
<1> QED BY <1>10, <1>11 DEF s

\* A join: the headers afterwards.
LEMMA JoinIs ==
  ASSUME NEW h, Shape(h), NEW a \in DOMAIN h \ {HeapEnd}, NEW b, b = h[a].next, b # HeapEnd
  PROVE  /\ DOMAIN Joined(h, a, b) = DOMAIN h \ {b} /\ a # b /\ b \in DOMAIN h
         /\ Joined(h, a, b)[a] = [used |-> h[a].used, next |-> h[b].next, prev |-> h[a].prev]
         /\ \A x \in DOMAIN h : x # a /\ x # b =>
               Joined(h, a, b)[x] = [used |-> h[x].used, next |-> h[x].next,
                                     prev |-> IF x = h[b].next /\ x # HeapEnd THEN a ELSE h[x].prev]
<1>1. a \in 0 .. HeapEnd /\ h[a] \in Header /\ b \in DOMAIN h \ {HeapEnd} /\ a # b /\ h[b].next \in 0 .. HeapEnd
  BY HeapSizes DEF Shape, Header
<1>2. \A x \in DOMAIN h : h[x] \in Header
  BY DEF Shape
<1>3. DOMAIN Joined(h, a, b) = DOMAIN h \ {b}
  BY DEF Joined
<1>4. Joined(h, a, b)[a] = [h[a] EXCEPT !.next = h[b].next]
  <2>1. a # h[b].next
    BY <1>1, HeapSizes DEF Shape
  <2> QED BY <1>1, <2>1 DEF Joined
<1>5. ASSUME NEW x \in DOMAIN h \ {a, b}
      PROVE  Joined(h, a, b)[x] = [used |-> h[x].used, next |-> h[x].next,
                                   prev |-> IF x = h[b].next /\ x # HeapEnd THEN a ELSE h[x].prev]
  <2>1. Joined(h, a, b)[x] = IF x = h[b].next /\ x # HeapEnd THEN [h[x] EXCEPT !.prev = a] ELSE h[x]
    BY <1>1 DEF Joined
  <2>2. h[x] = [used |-> h[x].used, next |-> h[x].next, prev |-> h[x].prev]
    BY <1>2 DEF Header
  <2>3. [h[x] EXCEPT !.prev = a] = [used |-> h[x].used, next |-> h[x].next, prev |-> a]
    BY <1>1, <1>2 DEF Header
  <2> QED BY <2>1, <2>2, <2>3
<1>6. [h[a] EXCEPT !.next = h[b].next] = [used |-> h[a].used, next |-> h[b].next, prev |-> h[a].prev]
  <2>1. PICK k \in 0 .. HeapEnd : k = h[b].next
    BY <1>1
  <2>2. [h[a] EXCEPT !.next = k] = [used |-> h[a].used, next |-> k, prev |-> h[a].prev]
    BY <1>1 DEF Header
  <2> QED BY <2>1, <2>2
<1> QED BY <1>1, <1>3, <1>4, <1>5, <1>6

\* Taking the header between two blocks out keeps the links.
LEMMA JoinShape ==
  ASSUME NEW h, Shape(h), NEW a \in DOMAIN h \ {HeapEnd}, NEW b, b = h[a].next, b # HeapEnd
  PROVE  Shape(Joined(h, a, b))
<1> DEFINE s == Joined(h, a, b)
<1>0. PICK c : c = h[b].next
  OBVIOUS
<1>1. /\ DOMAIN s = DOMAIN h \ {b} /\ a # b /\ b \in DOMAIN h
      /\ s[a] = [used |-> h[a].used, next |-> c, prev |-> h[a].prev]
      /\ \A x \in DOMAIN h : x # a /\ x # b =>
            s[x] = [used |-> h[x].used, next |-> h[x].next,
                    prev |-> IF x = c /\ x # HeapEnd THEN a ELSE h[x].prev]
  BY <1>0, JoinIs
<1>4. s = [x \in DOMAIN s |-> s[x]]
  BY DEF Joined
<1> HIDE DEF s
<1>2. /\ a \in 0 .. HeapEnd /\ h[a] \in Header /\ c \in DOMAIN h /\ c \in 0 .. HeapEnd
      /\ b \in 0 .. HeapEnd /\ a < b /\ b < c
      /\ \A x \in DOMAIN h : h[x] \in Header /\ x \in 0 .. HeapEnd
  BY <1>0, <1>1, HeapSizes DEF Shape, Header
<1>v. ASSUME NEW x \in DOMAIN h, x # a, x # b
      PROVE  /\ s[x].used = h[x].used /\ s[x].next = h[x].next
             /\ s[x].prev = IF x = c /\ x # HeapEnd THEN a ELSE h[x].prev
  <2>1. s[x] = [used |-> h[x].used, next |-> h[x].next,
                prev |-> IF x = c /\ x # HeapEnd THEN a ELSE h[x].prev]
    BY <1>1, <1>v, Zenon
  <2> QED BY <2>1
<1>3. ASSUME NEW x \in DOMAIN s PROVE s[x] \in Header
  <2>1. CASE x = a
    <3>1. s[a].used \in BOOLEAN /\ s[a].next \in 0 .. HeapEnd /\ s[a].prev \in 0 .. HeapEnd
      BY <1>1, <1>2 DEF Header
    <3> QED BY <1>1, <2>1, <3>1 DEF Header
  <2>2. CASE x # a
    <3>1. s[x] = [used |-> h[x].used, next |-> h[x].next,
                  prev |-> IF x = c /\ x # HeapEnd THEN a ELSE h[x].prev]
      BY <1>1, <2>2
    <3> QED BY <1>1, <1>2, <2>2, <3>1 DEF Header
  <2> QED BY <2>1, <2>2
<1>5. s \in [DOMAIN s -> Header]
  BY <1>3, <1>4
<1>6. DOMAIN s \subseteq 0 .. HeapEnd /\ 0 \in DOMAIN s /\ HeapEnd \in DOMAIN s
  BY <1>1, <1>v, <1>0, <1>2 DEF Shape
<1>7. s[HeapEnd].used /\ s[0].prev = 0
  <2>1. c # 0
    BY <1>1, <1>v, <1>0, <1>2, HeapSizes
  <2> QED BY <1>1, <1>v, <1>0, <1>2, <1>6, <2>1 DEF Shape
<1>8. ASSUME NEW x \in DOMAIN s \ {HeapEnd}
      PROVE  /\ s[x].next \in DOMAIN s /\ s[x].next >= x + SizeofMem
             /\ \A y \in DOMAIN s : ~ (x < y /\ y < s[x].next)
             /\ s[x].next # HeapEnd => s[s[x].next].prev = x
  <2>1. CASE x = a
    <3>1. s[x].next = c /\ c \in DOMAIN s
      BY <1>1, <1>v, <1>0, <1>2, <2>1
    <3>2. \A y \in DOMAIN s : ~ (a < y /\ y < c)
      <4>1. \A y \in DOMAIN h : ~ (a < y /\ y < b) /\ ~ (b < y /\ y < c)
        BY <1>1, <1>v, <1>0 DEF Shape
      <4> QED BY <1>1, <1>v, <1>0, <1>2, <4>1
    <3>3. c # HeapEnd => s[c].prev = a
      BY <1>1, <1>v, <1>0, <1>2
    <3>4. b >= a + SizeofMem
      BY DEF Shape
    <3> QED BY <1>1, <1>v, <1>0, <1>2, <2>1, <3>1, <3>2, <3>3, <3>4, HeapSizes
  <2>3. CASE x # a
    <3>1. x \in DOMAIN h \ {HeapEnd} /\ s[x].next = h[x].next /\ x # b
      BY <1>1, <1>v, <1>0, <2>3
    <3>2. h[x].next # c /\ h[x].next # b
      BY <1>1, <1>v, <1>0, <2>3, <3>1, NextIsOne
    <3>3. /\ h[x].next \in DOMAIN h /\ h[x].next >= x + SizeofMem
          /\ \A y \in DOMAIN h : ~ (x < y /\ y < h[x].next)
          /\ h[x].next # HeapEnd => h[h[x].next].prev = x
      BY <3>1 DEF Shape
    <3>5. h[x].next # HeapEnd /\ h[x].next # a => s[h[x].next].prev = x
      BY <1>1, <1>v, <1>0, <3>2, <3>3
    <3>6. h[x].next = a => s[a].prev = x
      BY <1>1, <1>v, <1>0, <3>3
    <3> QED BY <1>1, <1>v, <1>0, <3>1, <3>2, <3>3, <3>5, <3>6
  <2> QED BY <2>1, <2>3
<1>9. ASSUME NEW x \in DOMAIN s \ {0, HeapEnd}
      PROVE  s[x].prev \in DOMAIN s \ {HeapEnd} /\ s[s[x].prev].next = x
  <2>2. CASE x = c
    <3>1. s[x].prev = a
      BY <1>1, <1>v, <1>0, <1>2, <2>2
    <3> QED BY <1>1, <1>v, <1>0, <1>2, <2>2, <3>1
  <2>3. CASE x # c
    <3>1. x \in DOMAIN h \ {0, HeapEnd} /\ s[x].prev = h[x].prev /\ x # b
      BY <1>1, <1>v, <1>0, <2>3
    <3>2. h[x].prev \in DOMAIN h \ {HeapEnd} /\ h[h[x].prev].next = x
      BY <3>1 DEF Shape
    <3>3. h[x].prev # a /\ h[x].prev # b
      BY <1>0, <2>3, <3>1, <3>2
    <3> QED BY <1>1, <1>v, <1>0, <3>1, <3>2, <3>3
  <2> QED BY <2>2, <2>3
<1>10. Shape(s)
  BY <1>5, <1>6, <1>7, <1>8, <1>9 DEF Shape
<1> QED BY <1>10 DEF s

\* Marking a block used or free.
LEMMA MarkKeeps ==
  ASSUME NEW h, Shape(h), NEW a \in DOMAIN h \ {HeapEnd}, NEW u \in BOOLEAN
  PROVE  /\ Shape([h EXCEPT ![a].used = u]) /\ DOMAIN [h EXCEPT ![a].used = u] = DOMAIN h
         /\ [h EXCEPT ![a].used = u][a].used = u
         /\ \A x \in DOMAIN h : x # a => [h EXCEPT ![a].used = u][x] = h[x]
         /\ \A x \in DOMAIN h : /\ [h EXCEPT ![a].used = u][x].next = h[x].next
                                /\ [h EXCEPT ![a].used = u][x].prev = h[x].prev
<1> DEFINE s == [h EXCEPT ![a].used = u]
<1>1. h \in [DOMAIN h -> Header] /\ h[a] \in Header
  BY DEF Shape
<1>2. PICK r \in Header : r = [h[a] EXCEPT !.used = u]
  BY <1>1 DEF Header
<1>3. r.used = u /\ r.next = h[a].next /\ r.prev = h[a].prev
  BY <1>1, <1>2 DEF Header
<1>4. s = [h EXCEPT ![a] = r]
  BY <1>2
<1>5. /\ DOMAIN s = DOMAIN h /\ s[a] = r /\ s \in [DOMAIN h -> Header]
      /\ \A x \in DOMAIN h : x # a => s[x] = h[x]
  BY <1>1, <1>4
<1> HIDE DEF s
<1>6. \A x \in DOMAIN h : s[x].next = h[x].next /\ s[x].prev = h[x].prev
  BY <1>3, <1>5
<1>7. \A x \in DOMAIN h \ {HeapEnd} : h[x].next \in DOMAIN h
  BY DEF Shape
<1>8. \A x \in DOMAIN h \ {0, HeapEnd} : h[x].prev \in DOMAIN h
  BY DEF Shape
<1>9. \A x \in DOMAIN h \ {HeapEnd} :
          /\ s[x].next \in DOMAIN h /\ s[x].next >= x + SizeofMem
          /\ \A y \in DOMAIN h : ~ (x < y /\ y < s[x].next)
          /\ s[x].next # HeapEnd => s[s[x].next].prev = x
  BY <1>6, <1>7 DEF Shape
<1>10. \A x \in DOMAIN h \ {0, HeapEnd} :
          s[x].prev \in DOMAIN h \ {HeapEnd} /\ s[s[x].prev].next = x
  BY <1>6, <1>8 DEF Shape
<1>11. Shape(s)
  BY <1>5, <1>6, <1>9, <1>10 DEF Shape
<1>12. s[a].used = u
  BY <1>3, <1>5
<1> QED BY <1>5, <1>6, <1>11, <1>12 DEF s

\* g is h with the free blocks a and b made one
Merged(h, g, a, b) ==
    /\ Shape(g) /\ UsedIn(g) = UsedIn(h) /\ DOMAIN g = DOMAIN h \ {b}
    /\ \A x \in DOMAIN h : x # a /\ x # b => g[x].next = h[x].next /\ g[x].used = h[x].used
    /\ g[a].next = h[b].next /\ g[a].prev = h[a].prev /\ g[a].used = FALSE
    /\ \A m : IsLowest(h, m) => IsLowest(g, m)

\* Two free neighbours become one block.
LEMMA JoinFree ==
  ASSUME NEW h, Shape(h), NEW a \in DOMAIN h \ {HeapEnd}, NEW b, b = h[a].next, b # HeapEnd,
         h[a].used = FALSE, h[b].used = FALSE
  PROVE  Merged(h, Joined(h, a, b), a, b)
<1> DEFINE s == Joined(h, a, b)
<1>0. PICK c : c = h[b].next
  OBVIOUS
<1>1. /\ DOMAIN s = DOMAIN h \ {b} /\ a # b /\ b \in DOMAIN h
      /\ s[a] = [used |-> h[a].used, next |-> c, prev |-> h[a].prev]
      /\ \A x \in DOMAIN h : x # a /\ x # b =>
            s[x] = [used |-> h[x].used, next |-> h[x].next,
                    prev |-> IF x = c /\ x # HeapEnd THEN a ELSE h[x].prev]
  BY <1>0, JoinIs
<1>2. Shape(s)
  BY JoinShape
<1> HIDE DEF s
<1>3. ASSUME NEW x \in DOMAIN h, x # a, x # b
      PROVE  s[x].used = h[x].used /\ s[x].next = h[x].next
  <2>1. s[x] = [used |-> h[x].used, next |-> h[x].next,
                prev |-> IF x = c /\ x # HeapEnd THEN a ELSE h[x].prev]
    BY <1>1, <1>3, Zenon
  <2> QED BY <2>1
<1>4. s[a].used = FALSE /\ s[a].next = c /\ s[a].prev = h[a].prev
  BY <1>1
<1>5. UsedIn(s) = UsedIn(h)
  BY <1>1, <1>3, <1>4 DEF UsedIn
<1>6. ASSUME NEW m, IsLowest(h, m) PROVE IsLowest(s, m)
  <2>1. a < b /\ a \in Nat /\ b \in Nat /\ m <= a /\ m \in Nat
    BY <1>1, <1>6, HeapSizes DEF Shape, IsLowest
  <2>2. m # b
    BY <2>1
  <2>3. m \in DOMAIN s /\ (m = HeapEnd \/ ~ s[m].used)
    BY <1>1, <1>3, <1>4, <1>6, <2>2 DEF IsLowest
  <2>4. \A x \in DOMAIN s : ~ s[x].used => m <= x
    BY <1>1, <1>3, <1>4, <1>6 DEF IsLowest
  <2> QED BY <2>3, <2>4 DEF IsLowest
<1>7. Merged(h, s, a, b)
  BY <1>0, <1>1, <1>2, <1>3, <1>4, <1>5, <1>6 DEF Merged
<1> QED BY <1>7 DEF s

\* no two free blocks are neighbours, but for a
TightBut(h, a) == \A x \in DOMAIN h \ {HeapEnd} :
    ~ h[x].used /\ h[x].next # HeapEnd => h[h[x].next].used \/ x = a \/ h[x].next = a

\* g is h without free neighbours
IsPlugged(h, g) ==
    /\ Shape(g) /\ Tight(g) /\ UsedIn(g) = UsedIn(h)
    /\ \A x \in UsedIn(h) : g[x].next = h[x].next
    /\ \A m : IsLowest(h, m) => IsLowest(g, m)

\* plug_holes: the links stay, no two free blocks are neighbours any more, the
\* used blocks and the lowest free one are what they were.
LEMMA PlugKeeps ==
  ASSUME NEW h, Shape(h), NEW a \in DOMAIN h \ {HeapEnd}, h[a].used = FALSE, TightBut(h, a)
  PROVE  IsPlugged(h, Plugged(h, a))
<1>1. PICK b : b = h[a].next
  OBVIOUS
<1>2. PICK f : f = IF b # HeapEnd /\ ~ h[b].used THEN Joined(h, a, b) ELSE h
  OBVIOUS
<1>3. PICK p : p = h[a].prev
  OBVIOUS
<1>4. PICK g : g = IF p # a /\ ~ f[p].used THEN Joined(f, p, a) ELSE f
  OBVIOUS
<1>5. Plugged(h, a) = g
  BY <1>1, <1>2, <1>3, <1>4, Zenon DEF Plugged
<1>6. a \in Nat /\ b \in DOMAIN h /\ b \in Nat /\ a < b /\ h[b].used \in BOOLEAN
  BY <1>1, HeapSizes DEF Shape, Header
<1>7. /\ Shape(f) /\ UsedIn(f) = UsedIn(h) /\ a \in DOMAIN f \ {HeapEnd} /\ f[a].used = FALSE
      /\ f[a].prev = p
      /\ \A x \in UsedIn(h) : f[x].next = h[x].next
      /\ \A m : IsLowest(h, m) => IsLowest(f, m)
      /\ \A x \in DOMAIN f \ {HeapEnd} :
            ~ f[x].used /\ f[x].next # HeapEnd => f[f[x].next].used \/ f[x].next = a
  <2>1. CASE b # HeapEnd /\ ~ h[b].used
    <3>1. f = Joined(h, a, b) /\ h[b].used = FALSE
      BY <1>2, <1>6, <2>1
    <3>2. /\ Shape(f) /\ UsedIn(f) = UsedIn(h)
          /\ \A x \in DOMAIN h : x # a /\ x # b => f[x].next = h[x].next /\ f[x].used = h[x].used
          /\ DOMAIN f = DOMAIN h \ {b}
          /\ f[a].next = h[b].next /\ f[a].prev = p /\ f[a].used = FALSE
          /\ \A m : IsLowest(h, m) => IsLowest(f, m)
      <4>1. Merged(h, f, a, b)
        BY <1>1, <2>1, <3>1, JoinFree
      <4> QED BY <1>3, <4>1 DEF Merged
    <3>3. ASSUME NEW x \in DOMAIN f \ {HeapEnd}, ~ f[x].used, f[x].next # HeapEnd
          PROVE  f[f[x].next].used \/ f[x].next = a
      <4>1. CASE x = a
        <5>1. h[b].next \in DOMAIN h /\ h[b].next > b /\ h[b].next \in Nat
          BY <1>6, <2>1, HeapSizes DEF Shape
        <5>2. h[h[b].next].used
          BY <1>6, <2>1, <3>2, <3>3, <4>1, <5>1 DEF TightBut
        <5> QED BY <1>6, <3>2, <4>1, <5>1, <5>2
      <4>2. CASE x # a
        <5>1. x \in DOMAIN h \ {HeapEnd} /\ x # b /\ f[x].next = h[x].next /\ ~ h[x].used
          BY <3>2, <3>3, <4>2
        <5>2. h[x].next \in DOMAIN h /\ h[x].next # b
          BY <1>1, <4>2, <5>1, NextIsOne DEF Shape
        <5>3. h[h[x].next].used \/ h[x].next = a
          BY <3>3, <4>2, <5>1 DEF TightBut
        <5> QED BY <3>2, <5>1, <5>2, <5>3
      <4> QED BY <4>1, <4>2
    <3>4. \A x \in UsedIn(h) : x \in DOMAIN h /\ x # a /\ x # b
      BY <3>1 DEF UsedIn
    <3> QED BY <1>6, <3>2, <3>3, <3>4
  <2>2. CASE ~ (b # HeapEnd /\ ~ h[b].used)
    <3>1. f = h
      BY <1>2, <2>2
    <3>2. ASSUME NEW x \in DOMAIN h \ {HeapEnd}, ~ h[x].used, h[x].next # HeapEnd
          PROVE  h[h[x].next].used \/ h[x].next = a
      BY <1>1, <2>2, <3>2 DEF TightBut
    <3> QED BY <1>3, <3>1, <3>2
  <2> QED BY <2>1, <2>2
<1>8. CASE p # a /\ ~ f[p].used
  <2>1. p \in DOMAIN f \ {HeapEnd} /\ f[p].next = a /\ f[p].used = FALSE
    <3>1. a # 0
      BY <1>7, <1>8 DEF Shape
    <3>2. p \in DOMAIN f \ {HeapEnd} /\ f[p].next = a
      BY <1>7, <3>1 DEF Shape
    <3> QED BY <1>7, <1>8, <3>2 DEF Shape, Header
  <2>2. /\ g = Joined(f, p, a)
        /\ Shape(g) /\ UsedIn(g) = UsedIn(f)
        /\ \A x \in DOMAIN f : x # p /\ x # a => g[x].next = f[x].next /\ g[x].used = f[x].used
        /\ DOMAIN g = DOMAIN f \ {a}
        /\ g[p].next = f[a].next /\ g[p].used = FALSE
        /\ \A m : IsLowest(f, m) => IsLowest(g, m)
    <3>1. g = Joined(f, p, a)
      BY <1>4, <1>8
    <3>2. HeapEnd # a /\ a = f[p].next
      BY <1>7, <2>1
    <3>3. Merged(f, g, p, a)
      BY <1>7, <2>1, <3>1, <3>2, JoinFree
    <3> QED BY <3>1, <3>3 DEF Merged
  <2>3. ASSUME NEW x \in DOMAIN g \ {HeapEnd}, ~ g[x].used, g[x].next # HeapEnd
        PROVE  g[g[x].next].used
    <3>1. CASE x = p
      <4>1. f[a].next \in DOMAIN f /\ f[a].next # a /\ f[a].next # p
        BY <1>6, <1>7, <2>1, HeapSizes DEF Shape
      <4>2. f[f[a].next].used
        BY <1>7, <2>2, <2>3, <3>1, <4>1
      <4> QED BY <2>2, <3>1, <4>1, <4>2
    <3>2. CASE x # p
      <4>1. x \in DOMAIN f \ {HeapEnd} /\ x # a /\ g[x].next = f[x].next /\ ~ f[x].used
        BY <2>2, <2>3, <3>2
      <4>2. f[x].next \in DOMAIN f /\ f[x].next # a
        BY <1>7, <2>1, <3>2, <4>1, NextIsOne DEF Shape
      <4>3. f[f[x].next].used
        BY <1>7, <2>3, <4>1, <4>2
      <4>4. f[x].next # p
        BY <2>1, <4>3
      <4> QED BY <2>2, <4>1, <4>2, <4>3, <4>4
    <3> QED BY <3>1, <3>2
  <2>4. Tight(g)
    BY <2>3 DEF Tight
  <2>5. \A x \in UsedIn(h) : x \in DOMAIN f /\ x # p /\ x # a
    <3>1. \A x \in UsedIn(f) : x \in DOMAIN f /\ x # p /\ x # a
      BY <1>7, <2>1 DEF UsedIn
    <3> QED BY <1>7, <3>1
  <2> QED BY <1>5, <1>7, <2>2, <2>4, <2>5 DEF IsPlugged
<1>9. CASE ~ (p # a /\ ~ f[p].used)
  <2>1. g = f
    BY <1>4, <1>9
  <2>2. ASSUME NEW x \in DOMAIN f \ {HeapEnd}, ~ f[x].used, f[x].next # HeapEnd PROVE f[f[x].next].used
    <3> SUFFICES ASSUME f[x].next = a PROVE FALSE
      BY <1>7, <2>2
    <3>1. a # 0
      BY <1>7, HeapSizes DEF Shape
    <3>2. p \in DOMAIN f \ {HeapEnd} /\ f[p].next = a
      BY <1>7, <3>1 DEF Shape
    <3>3. p = x
      BY <1>7, <3>2, NextIsOne
    <3>4. p # a
      BY <1>6, <1>7, <3>2, HeapSizes DEF Shape
    <3> QED BY <1>9, <2>2, <3>3, <3>4
  <2>3. Tight(f)
    BY <2>2 DEF Tight
  <2> QED BY <1>5, <1>7, <2>1, <2>3 DEF IsPlugged
<1> QED BY <1>8, <1>9

-----------------------------------------------------------------------------
(* What the three operations leave behind.                                 *)

\* Min and Max are what their names say.
LEMMA MinMaxIs ==
  ASSUME NEW S \in SUBSET Nat, NEW m \in S
  PROVE  /\ (\A x \in S : m <= x) => Min(S) = m
         /\ (\A x \in S : x <= m) => Max(S) = m
<1>1. ASSUME \A x \in S : m <= x PROVE Min(S) = m
  <2>1. \E k \in S : \A y \in S : k =< y
    BY <1>1
  <2>2. Min(S) \in S /\ \A y \in S : Min(S) =< y
    BY <2>1, Zenon DEF Min
  <2>3. ASSUME NEW k \in S, k =< m PROVE k = m
    BY <1>1, <2>3
  <2> QED BY <2>2, <2>3
<1>2. ASSUME \A x \in S : x <= m PROVE Max(S) = m
  <2>1. \E k \in S : \A y \in S : k >= y
    BY <1>2
  <2>2. Max(S) \in S /\ \A y \in S : Max(S) >= y
    BY <2>1, Zenon DEF Max
  <2>3. ASSUME NEW k \in S, k >= m PROVE k = m
    BY <1>2, <2>3
  <2> QED BY <2>2, <2>3
<1> QED BY <1>1, <1>2

\* the heap and lfree, in terms of headers, and who owns the blocks
HeapShape == /\ Shape(heap) /\ Tight(heap) /\ IsLowest(heap, lfree)
             /\ owners \in [0 .. HeapEnd -> Nat]
             /\ \A a \in 0 .. HeapEnd : owners[a] = IF a \in UsedIn(heap) THEN 1 ELSE 0

\* The heap h afterwards, with m as lfree: linked, joined, with these used blocks,
\* and those that were used before as long as they were.
Leaves(h, m, used, kept) ==
    /\ Shape(h) /\ Tight(h) /\ IsLowest(h, m) /\ UsedIn(h) = used
    /\ \A x \in kept : h[x].next = heap[x].next

\* The lowest free block after one was plugged, if it is where one was expected.
LEMMA LowestIs ==
  ASSUME NEW h, Shape(h), NEW a \in Nat, NEW m \in DOMAIN h, lfree \in Nat,
         m = IF a < lfree THEN a ELSE lfree
  PROVE  Lowest(h, a) = m
<1>1. Min({a, lfree}) = m
  <2>1. {a, lfree} \in SUBSET Nat /\ m \in {a, lfree} /\ \A x \in {a, lfree} : m <= x
    OBVIOUS
  <2> QED BY <2>1, MinMaxIs
<1>2. PICK S : S = {x \in DOMAIN h : x <= m}
  OBVIOUS
<1>3. S \in SUBSET Nat /\ m \in S /\ \A x \in S : x <= m
  BY <1>2, HeapSizes DEF Shape
<1>4. Max(S) = m
  BY <1>3, MinMaxIs
<1> QED BY <1>1, <1>2, <1>4 DEF Lowest

\* rt_free.
LEMMA FreeLeaves ==
  ASSUME HeapShape, NEW a \in UsedIn(heap),
         NEW h, h = Plugged([heap EXCEPT ![a].used = FALSE], a)
  PROVE  Leaves(h, Lowest(h, a), UsedIn(heap) \ {a}, UsedIn(heap) \ {a})
<1>1. PICK s : s = [heap EXCEPT ![a].used = FALSE]
  OBVIOUS
<1>0. a \in DOMAIN heap \ {HeapEnd} /\ a \in Nat /\ Shape(heap) /\ Tight(heap) /\ IsLowest(heap, lfree) /\ lfree \in Nat
  BY HeapSizes DEF UsedIn, HeapShape, Shape, IsLowest
<1>2. /\ Shape(s) /\ DOMAIN s = DOMAIN heap /\ s[a].used = FALSE
      /\ \A x \in DOMAIN heap : x # a => s[x] = heap[x]
      /\ \A x \in DOMAIN heap : s[x].next = heap[x].next
  BY <1>0, <1>1, MarkKeeps
<1>3. TightBut(s, a)
  <2>1. ASSUME NEW x \in DOMAIN s \ {HeapEnd}, ~ s[x].used, s[x].next # HeapEnd, x # a, s[x].next # a
        PROVE  s[s[x].next].used
    <3>1. s[x] = heap[x] /\ heap[x].next \in DOMAIN heap
      BY <1>0, <1>2, <2>1 DEF Shape
    <3> QED BY <1>0, <1>2, <2>1, <3>1 DEF Tight
  <2> QED BY <2>1 DEF TightBut
<1>4. PICK m : m = IF a < lfree THEN a ELSE lfree
  OBVIOUS
<1>5. IsLowest(s, m)
  <2>1. lfree < a => lfree # a
    BY <1>0
  <2>2. \A x \in DOMAIN heap : ~ s[x].used => x = a \/ ~ heap[x].used
    BY <1>2
  <2>3. m \in DOMAIN s /\ (m = HeapEnd \/ ~ s[m].used)
    BY <1>0, <1>2, <1>4 DEF IsLowest
  <2>4. \A x \in DOMAIN s : ~ s[x].used => m <= x
    <3> SUFFICES ASSUME NEW x \in DOMAIN heap, ~ s[x].used PROVE m <= x
      BY <1>2
    <3>1. x \in Nat
      BY <1>0, HeapSizes DEF Shape
    <3>2. x = a \/ lfree <= x
      BY <1>0, <2>2 DEF IsLowest
    <3> QED BY <1>0, <1>4, <3>1, <3>2
  <2> QED BY <2>3, <2>4 DEF IsLowest
<1>6. UsedIn(s) = UsedIn(heap) \ {a}
  BY <1>2 DEF UsedIn
<1>7. /\ Shape(h) /\ Tight(h) /\ UsedIn(h) = UsedIn(s) /\ IsLowest(h, m)
      /\ \A x \in UsedIn(s) : h[x].next = s[x].next
  <2>1. IsPlugged(s, h)
    BY <1>0, <1>1, <1>2, <1>3, PlugKeeps
  <2> QED BY <1>5, <2>1 DEF IsPlugged
<1>8. Lowest(h, a) = m
  BY <1>0, <1>4, <1>7, LowestIs DEF IsLowest
<1>9. \A x \in UsedIn(heap) \ {a} : h[x].next = heap[x].next
  BY <1>2, <1>6, <1>7 DEF UsedIn
<1> QED BY <1>6, <1>7, <1>8, <1>9 DEF Leaves

\* rt_realloc, where it cuts a block.
LEMMA CutLeaves ==
  ASSUME HeapShape, NEW a \in UsedIn(heap), NEW n \in Nat, WorthSplitting(n, DataSize(a)),
         NEW b, b = a + SizeofMem + n, NEW h, h = Plugged(Split(heap, a, n), b)
  PROVE  Leaves(h, Lowest(h, b), UsedIn(heap), UsedIn(heap) \ {a}) /\ h[a].next = b
<1>0. /\ a \in DOMAIN heap \ {HeapEnd} /\ a \in Nat /\ Shape(heap) /\ Tight(heap)
      /\ IsLowest(heap, lfree) /\ lfree \in Nat /\ heap[a].used /\ heap[a].next \in Nat
  BY HeapSizes DEF UsedIn, HeapShape, Shape, IsLowest
<1>1. PICK s : s = Split(heap, a, n)
  OBVIOUS
<1>2. b \in Nat /\ b + SizeofMem <= heap[a].next
  BY <1>0, HeapSizes DEF WorthSplitting, DataSize
<1>3. /\ DOMAIN s = DOMAIN heap \cup {b} /\ b \notin DOMAIN heap /\ b \in 0 .. HeapEnd
      /\ s[a] = [used |-> heap[a].used, next |-> b, prev |-> heap[a].prev]
      /\ s[b] = [used |-> FALSE, next |-> heap[a].next, prev |-> a]
      /\ \A x \in DOMAIN heap \ {a} :
            s[x] = [used |-> heap[x].used, next |-> heap[x].next,
                    prev |-> IF x = heap[a].next /\ x # HeapEnd THEN b ELSE heap[x].prev]
  <2>1. IsSplit(heap, s, a, b)
    BY <1>0, <1>1, <1>2, SplitIs
  <2> QED BY <2>1 DEF IsSplit
<1>4. Shape(s) /\ UsedIn(s) = UsedIn(heap)
  BY <1>0, <1>1, <1>2, SplitShape
<1>5. \A x \in DOMAIN heap : s[x].used = heap[x].used
  BY <1>3
<1>6. \A x \in DOMAIN heap \ {a} : s[x].next = heap[x].next
  BY <1>3
<1>7. s[b].used = FALSE /\ s[a].next = b
  BY <1>3
<1>8. TightBut(s, b)
  <2>1. ASSUME NEW x \in DOMAIN s \ {HeapEnd}, ~ s[x].used, s[x].next # HeapEnd, x # b, s[x].next # b
        PROVE  s[s[x].next].used
    <3>1. x \in DOMAIN heap \ {a}
      BY <1>0, <1>3, <1>5, <2>1
    <3>2. s[x].next = heap[x].next /\ heap[x].next \in DOMAIN heap
      BY <1>0, <1>6, <2>1, <3>1 DEF Shape
    <3> QED BY <1>0, <1>5, <2>1, <3>1, <3>2 DEF Tight
  <2> QED BY <2>1 DEF TightBut
<1>9. PICK m : m = IF b < lfree THEN b ELSE lfree
  OBVIOUS
<1>10. IsLowest(s, m)
  <2>1. HeapEnd \in DOMAIN heap /\ HeapEnd \in Nat
    BY <1>0, HeapSizes DEF Shape
  <2>2. m \in DOMAIN s /\ (m = HeapEnd \/ ~ s[m].used)
    <3>1. CASE b < lfree
      BY <1>3, <1>7, <1>9, <3>1
    <3>2. CASE ~ (b < lfree)
      BY <1>0, <1>3, <1>5, <1>9, <3>2 DEF IsLowest
    <3> QED BY <3>1, <3>2
  <2>3. \A x \in DOMAIN s : ~ s[x].used => m <= x
    <3> SUFFICES ASSUME NEW x \in DOMAIN s, ~ s[x].used PROVE m <= x
      OBVIOUS
    <3>1. x \in Nat
      BY <1>4, HeapSizes DEF Shape
    <3>2. x = b \/ lfree <= x
      BY <1>0, <1>3, <1>5 DEF IsLowest
    <3> QED BY <1>0, <1>2, <1>9, <3>1, <3>2
  <2> QED BY <2>2, <2>3 DEF IsLowest
<1>11. b # HeapEnd
  BY <1>0, <1>3 DEF Shape
<1>12. /\ Shape(h) /\ Tight(h) /\ UsedIn(h) = UsedIn(s) /\ IsLowest(h, m)
       /\ \A x \in UsedIn(s) : h[x].next = s[x].next
  <2>1. IsPlugged(s, h)
    BY <1>1, <1>3, <1>4, <1>7, <1>8, <1>11, PlugKeeps
  <2> QED BY <1>10, <2>1 DEF IsPlugged
<1>13. Lowest(h, b) = m
  BY <1>0, <1>2, <1>9, <1>12, LowestIs DEF IsLowest
<1>14. \A x \in UsedIn(heap) \ {a} : h[x].next = heap[x].next
  BY <1>4, <1>6, <1>12 DEF UsedIn
<1>15. h[a].next = b
  BY <1>4, <1>7, <1>12
<1> QED BY <1>4, <1>12, <1>13, <1>14, <1>15 DEF Leaves

\* rt_malloc.
LEMMA CarveLeaves ==
  ASSUME HeapShape, NEW n \in Nat, NEW a \in Block, a >= lfree, Fits(a, n), NEW h, h = Carved(a, n)
  PROVE  /\ Leaves(h, IF a = lfree THEN FirstFree(h, a) ELSE lfree, UsedIn(heap) \cup {a}, UsedIn(heap))
         /\ a \notin UsedIn(heap)
<1>0. /\ a \in DOMAIN heap \ {HeapEnd} /\ a \in Nat /\ Shape(heap) /\ Tight(heap)
      /\ IsLowest(heap, lfree) /\ lfree \in Nat /\ ~ heap[a].used /\ heap[a].next \in Nat
      /\ HeapEnd \in Nat
  BY HeapSizes DEF Block, HeapShape, Shape, IsLowest, Fits
<1>1. PICK s : s = [heap EXCEPT ![a].used = TRUE]
  OBVIOUS
<1>2. /\ Shape(s) /\ DOMAIN s = DOMAIN heap /\ s[a].used
      /\ \A x \in DOMAIN heap : x # a => s[x] = heap[x]
      /\ \A x \in DOMAIN heap : s[x].next = heap[x].next
  BY <1>0, <1>1, MarkKeeps
<1>3. UsedIn(s) = UsedIn(heap) \cup {a}
  BY <1>0, <1>2 DEF UsedIn
<1>4. Tight(s)
  <2>1. ASSUME NEW x \in DOMAIN s \ {HeapEnd}, ~ s[x].used, s[x].next # HeapEnd
        PROVE  s[s[x].next].used
    <3>1. x # a /\ s[x] = heap[x] /\ heap[x].next \in DOMAIN heap
      BY <1>0, <1>2, <2>1 DEF Shape
    <3>2. heap[heap[x].next].used
      BY <1>0, <1>2, <2>1, <3>1 DEF Tight
    <3> QED BY <1>2, <3>1, <3>2
  <2> QED BY <2>1 DEF Tight
<1>5. /\ Shape(h) /\ Tight(h) /\ UsedIn(h) = UsedIn(s) /\ DOMAIN heap \subseteq DOMAIN h
      /\ \A x \in DOMAIN h : ~ h[x].used => x > a \/ (x \in DOMAIN heap /\ ~ heap[x].used /\ x # a)
      /\ \A x \in DOMAIN heap : h[x].used = s[x].used
      /\ \A x \in UsedIn(heap) : h[x].next = heap[x].next
  <2>1. CASE DataSize(a) >= n + SizeofMem + MinSize
    <3>1. h = Split(s, a, n)
      BY <1>1, <2>1 DEF Carved
    <3>2. PICK b \in Nat : b = a + SizeofMem + n
      BY <1>0, HeapSizes
    <3>3. b + SizeofMem <= s[a].next
      BY <1>0, <1>2, <2>1, <3>2, HeapSizes DEF DataSize
    <3>4. /\ DOMAIN h = DOMAIN s \cup {b} /\ b \notin DOMAIN s /\ b \in 0 .. HeapEnd /\ a < b
          /\ h[a] = [used |-> s[a].used, next |-> b, prev |-> s[a].prev]
          /\ h[b] = [used |-> FALSE, next |-> s[a].next, prev |-> a]
          /\ \A x \in DOMAIN s \ {a} :
                h[x] = [used |-> s[x].used, next |-> s[x].next,
                        prev |-> IF x = s[a].next /\ x # HeapEnd THEN b ELSE s[x].prev]
      <4>1. IsSplit(s, h, a, b)
        BY <1>0, <1>2, <3>1, <3>2, <3>3, SplitIs
      <4> QED BY <4>1 DEF IsSplit
    <3>5. Shape(h) /\ UsedIn(h) = UsedIn(s)
      BY <1>0, <1>2, <3>1, <3>2, <3>3, SplitShape
    <3>6. \A x \in DOMAIN s : h[x].used = s[x].used
      BY <3>4
    <3>7. \A x \in DOMAIN s \ {a} : h[x].next = s[x].next
      BY <3>4
    <3>8. h[b].used = FALSE /\ h[b].next = s[a].next /\ h[a].next = b
      BY <3>4
    <3>9. ASSUME NEW x \in DOMAIN h \ {HeapEnd}, ~ h[x].used, h[x].next # HeapEnd
          PROVE  h[h[x].next].used
      <4>1. CASE x = b
        <5>1. heap[a].next # HeapEnd /\ heap[a].next \in DOMAIN heap /\ heap[heap[a].next].used
          BY <1>0, <1>2, <3>8, <3>9, <4>1 DEF Shape, Tight
        <5>2. heap[a].next # a
          BY <1>0, <5>1
        <5> QED BY <1>2, <1>0, <3>6, <3>8, <4>1, <5>1, <5>2
      <4>2. CASE x # b
        <5>1. x \in DOMAIN s \ {a}
          BY <1>2, <3>4, <3>6, <3>9, <4>2
        <5>2. h[x].next = s[x].next /\ s[x].next \in DOMAIN s
          BY <1>2, <3>7, <3>9, <5>1 DEF Shape
        <5> QED BY <1>4, <3>6, <3>9, <5>1, <5>2 DEF Tight
      <4> QED BY <4>1, <4>2
    <3>10. Tight(h)
      BY <3>9 DEF Tight
    <3>11. \A x \in DOMAIN h : ~ h[x].used => x > a \/ (x \in DOMAIN heap /\ ~ heap[x].used /\ x # a)
      BY <1>2, <3>4, <3>6
    <3>12. \A x \in UsedIn(heap) : x \in DOMAIN s \ {a}
      BY <1>0, <1>2 DEF UsedIn
    <3> QED BY <1>2, <3>4, <3>5, <3>6, <3>7, <3>10, <3>11, <3>12
  <2>2. CASE ~ (DataSize(a) >= n + SizeofMem + MinSize)
    <3>1. h = s
      BY <1>1, <2>2 DEF Carved
    <3>2. \A x \in UsedIn(heap) : x \in DOMAIN heap
      BY DEF UsedIn
    <3> QED BY <1>2, <1>4, <3>1, <3>2
  <2> QED BY <2>1, <2>2
<1>6. HeapEnd \in DOMAIN h /\ DOMAIN h \subseteq 0 .. HeapEnd /\ h[HeapEnd].used
  BY <1>5 DEF Shape
<1>7. IsLowest(h, IF a = lfree THEN FirstFree(h, a) ELSE lfree)
  <2>1. CASE a = lfree
    <3>1. PICK S : S = {HeapEnd} \cup {x \in DOMAIN h : x >= a /\ ~ h[x].used}
      OBVIOUS
    <3>2. S \in SUBSET Nat /\ S # {}
      BY <1>6, <3>1, HeapSizes
    <3>3. PICK m \in S : \A k \in S : m <= k
      BY <3>2, LeastNat
    <3>4. FirstFree(h, a) = m
      BY <3>1, <3>2, <3>3, MinMaxIs DEF FirstFree
    <3>5. \A x \in DOMAIN h : ~ h[x].used => x >= a
      <4> SUFFICES ASSUME NEW x \in DOMAIN h, ~ h[x].used PROVE x >= a
        OBVIOUS
      <4>1. x \in Nat
        BY <1>6, HeapSizes
      <4>2. x > a \/ (x \in DOMAIN heap /\ ~ heap[x].used)
        BY <1>5
      <4>3. x > a \/ lfree <= x
        BY <1>0, <4>2 DEF IsLowest
      <4> QED BY <1>0, <2>1, <4>1, <4>3
    <3>6. IsLowest(h, m)
      BY <1>6, <3>1, <3>3, <3>5 DEF IsLowest
    <3> QED BY <2>1, <3>4, <3>6
  <2>2. CASE a # lfree
    <3>1. lfree < a
      BY <1>0, <2>2
    <3>2. lfree # HeapEnd
      BY <1>0, <3>1, HeapSizes DEF Shape
    <3>3. lfree \in DOMAIN heap /\ ~ heap[lfree].used
      BY <1>0, <3>2 DEF IsLowest
    <3>4. lfree \in DOMAIN h /\ ~ h[lfree].used
      BY <1>2, <1>5, <2>2, <3>3
    <3>5. \A x \in DOMAIN h : ~ h[x].used => lfree <= x
      <4> SUFFICES ASSUME NEW x \in DOMAIN h, ~ h[x].used PROVE lfree <= x
        OBVIOUS
      <4>1. x \in Nat
        BY <1>6, HeapSizes
      <4>2. x > a \/ (x \in DOMAIN heap /\ ~ heap[x].used)
        BY <1>5
      <4> QED BY <1>0, <3>1, <4>1, <4>2 DEF IsLowest
    <3> QED BY <2>2, <3>4, <3>5 DEF IsLowest
  <2> QED BY <2>1, <2>2
<1>8. a \notin UsedIn(heap)
  BY <1>0 DEF UsedIn
<1> QED BY <1>3, <1>5, <1>7, <1>8 DEF Leaves

-----------------------------------------------------------------------------
(* heap_sem.                                                               *)

JobOp == {"none", "malloc", "free", "realloc", "grow", "drop"}
Jobs  == [op : JobOp, size : Nat, at : 0 .. HeapEnd, held : BOOLEAN]

\* the threads that hold heap_sem, were handed it or give it back
Tokens == {x \in Thread : \/ x \in HeapUser /\ job[x].held
                          \/ x \in Granted
                          \/ In(x, "release")}

\* Nobody takes heap_sem with a time limit and nobody resets or detaches it, so
\* there is one token: in value, or with one thread.
LockInv ==
    /\ job \in [HeapUser -> Jobs]
    /\ kind # "heap" => \A t \in HeapUser : job[t].held = FALSE
    /\ kind = "heap" =>
          /\ attached /\ value \in 0 .. 1
          /\ \A t \in Thread : /\ pc[t] \in {"idle", "call", "suspended", "resumed"}
                               /\ error[t] = "EOK"
                               /\ call[t].op = "take" => call[t].wait = "forever"
                               /\ pc[t] = "suspended" => call[t].op = "take"
          /\ \A t \in HeapUser : job[t].held => pc[t] = "idle"
          /\ \A x, y \in Tokens : x = y
          /\ value = 1 => Tokens = {}

\* The job that is no job is a job.
LEMMA NoJobType == NoJob \in Jobs /\ NoJob.held = FALSE /\ NoJob.op = "none"
BY HeapSizes DEF NoJob, Jobs, JobOp

\* A call of the heap begins: of the take by a thread without heap_sem, or of the
\* release by the one that holds it.
LEMMA LockEnter ==
  ASSUME SyncInv, LockInv, kind = "heap", NEW t \in HeapUser, NEW c \in Calls, Enter(t, c),
         UNCHANGED semVars, NEW j \in Jobs, j.held = FALSE, job' = [job EXCEPT ![t] = j],
         \/ c.op = "take" /\ c.wait = "forever"
         \/ c.op = "release" /\ job[t].held
  PROVE  LockInv'
<1>0. t \in Thread /\ HeapUser \subseteq Thread
  BY HeapAssumption
<1>1. /\ pc \in [Thread -> WaitPC] /\ call \in [Thread -> Calls] /\ job \in [HeapUser -> Jobs]
      /\ attached
  BY DEF SyncInv, WaitCore, WaitTypeOK, LockInv
<1>2. /\ pc' = [pc EXCEPT ![t] = "call"] /\ call' = [call EXCEPT ![t] = c] /\ pc[t] = "idle"
      /\ UNCHANGED <<kind, attached, error, value>>
  BY <1>1 DEF Enter, semVars
<1>3. job' \in [HeapUser -> Jobs]
  BY <1>1
<1>4. Granted' = Granted /\ t \notin Granted
  BY <1>0, <1>1, <1>2 DEF Granted
<1>5. Tokens' \subseteq Tokens
  <2> SUFFICES ASSUME NEW x \in Tokens' PROVE x \in Tokens
    OBVIOUS
  <2>0. x \in Thread
    BY DEF Tokens
  <2>1. CASE x = t
    <3>1. c.op = "release" /\ job[t].held
      BY <1>0, <1>1, <1>2, <1>4, <2>1 DEF Tokens, In
    <3> QED BY <1>0, <2>1, <3>1 DEF Tokens
  <2>2. CASE x # t
    <3>1. pc'[x] = pc[x] /\ call'[x] = call[x] /\ (x \in HeapUser => job'[x] = job[x])
      BY <1>1, <1>2, <2>0, <2>2
    <3> QED BY <1>4, <2>0, <3>1 DEF Tokens, In
  <2> QED BY <2>1, <2>2
<1>6. ASSUME NEW x \in Thread
      PROVE  /\ pc'[x] \in {"idle", "call", "suspended", "resumed"} /\ error'[x] = "EOK"
             /\ call'[x].op = "take" => call'[x].wait = "forever"
             /\ pc'[x] = "suspended" => call'[x].op = "take"
  BY <1>1, <1>2 DEF LockInv
<1>7. \A x \in HeapUser : job'[x].held => pc'[x] = "idle"
  BY <1>0, <1>1, <1>2 DEF LockInv
<1> QED BY <1>2, <1>3, <1>5, <1>6, <1>7 DEF LockInv

\* A section of heap_sem.
LEMMA LockStep ==
  ASSUME SyncInv, LockInv, kind = "heap", NEW t \in HeapUser, HeapLock(t)
  PROVE  LockInv'
<1>0. t \in Thread /\ HeapUser \subseteq Thread
  BY HeapAssumption
<1>1. /\ pc \in [Thread -> WaitPC] /\ call \in [Thread -> Calls] /\ job \in [HeapUser -> Jobs]
      /\ attached /\ value \in 0 .. 1 /\ SemMax \in Nat /\ SemMax > 0 /\ error \in [Thread -> {"EOK"}]
      /\ suspend_thread \in Seq(Thread)
      /\ \A i \in 1 .. Len(suspend_thread) : suspend_thread[i] \in Suspended
  BY SemAssumption DEF SyncInv, WaitCore, WaitTypeOK, LockInv, ListIsExact
<1>2. PICK u \in BOOLEAN : u = (call[t].op = "take" /\ pc'[t] = "idle")
  OBVIOUS
<1>3. job' = [job EXCEPT ![t] = [job[t] EXCEPT !.held = u]]
  BY <1>2 DEF HeapLock
<1>4. [job[t] EXCEPT !.held = u] \in Jobs /\ [job[t] EXCEPT !.held = u].held = u
  BY <1>1 DEF Jobs
<1>5. job' \in [HeapUser -> Jobs] /\ job'[t].held = u /\ \A x \in HeapUser : x # t => job'[x] = job[x]
  BY <1>1, <1>3, <1>4
<1>6. kind' = kind /\ attached' = attached
  BY DEF HeapLock, SemTake, SemRelease, SemReturn, Return, Refuse, Suspend, ReturnResuming, ReturnWaking
<1>s. ASSUME \A x \in Thread : x # t => pc'[x] = pc[x] /\ call'[x] = call[x] /\ error'[x] = "EOK"
      PROVE  \A x \in Tokens' : x # t => x \in Tokens
  BY <1>1, <1>5, <1>s DEF Tokens, Granted, In
<1>7. CASE SemTake(t) /\ value > 0
  <2>1. /\ pc' = [x \in Thread |-> IF x = t THEN "idle" ELSE pc[x]] /\ call' = [call EXCEPT ![t] = NoCall]
        /\ error' = [error EXCEPT ![t] = "EOK"] /\ value' = Down(value)
    BY <1>7 DEF SemTake, Return, ReturnWaking
  <2>2. value = 1 /\ value' = 0 /\ Tokens = {}
    BY <1>1, <1>7, <2>1, UpDownIs DEF LockInv
  <2>3. \A x \in Tokens' : x = t
    BY <1>1, <2>1, <2>2, <1>s
  <2>4. ASSUME NEW x \in Thread
        PROVE  /\ pc'[x] \in {"idle", "call", "suspended", "resumed"} /\ error'[x] = "EOK"
               /\ call'[x].op = "take" => call'[x].wait = "forever"
               /\ pc'[x] = "suspended" => call'[x].op = "take"
    BY <1>1, <2>1 DEF LockInv, NoCall
  <2>5. \A x \in HeapUser : job'[x].held => pc'[x] = "idle"
    BY <1>0, <1>1, <1>5, <2>1 DEF LockInv
  <2> QED BY <1>1, <1>5, <1>6, <2>2, <2>3, <2>4, <2>5 DEF LockInv
<1>8. CASE SemTake(t) /\ ~ (value > 0)
  <2>1. pc[t] = "call" /\ call[t].op = "take" /\ call[t].wait = "forever"
    BY <1>0, <1>8 DEF SemTake, In, LockInv
  <2>2. /\ pc' = [pc EXCEPT ![t] = "suspended"] /\ call' = call /\ error' = [error EXCEPT ![t] = "EOK"]
        /\ value' = value
    BY <1>8, <2>1 DEF SemTake, Refuse, Suspend, semVars
  <2>3. u = FALSE
    BY <1>0, <1>1, <1>2, <2>2
  <2>4. Tokens' \subseteq Tokens
    <3>1. t \notin Tokens'
      BY <1>0, <1>1, <1>5, <2>2, <2>3 DEF Tokens, Granted, In
    <3> QED BY <1>1, <2>2, <3>1, <1>s
  <2>5. ASSUME NEW x \in Thread
        PROVE  /\ pc'[x] \in {"idle", "call", "suspended", "resumed"} /\ error'[x] = "EOK"
               /\ call'[x].op = "take" => call'[x].wait = "forever"
               /\ pc'[x] = "suspended" => call'[x].op = "take"
    BY <1>1, <2>1, <2>2 DEF LockInv
  <2>6. \A x \in HeapUser : job'[x].held => pc'[x] = "idle"
    BY <1>0, <1>1, <1>5, <2>2, <2>3 DEF LockInv
  <2> QED BY <1>1, <1>5, <1>6, <2>2, <2>4, <2>5, <2>6 DEF LockInv
<1>9. CASE SemRelease(t)
  <2>1. pc[t] = "call" /\ call[t].op = "release" /\ t \in Tokens /\ value = 0
    <3>1. pc[t] = "call" /\ call[t].op = "release"
      BY <1>9 DEF SemRelease, In
    <3>2. t \in Tokens
      BY <1>0, <3>1 DEF Tokens, In
    <3> QED BY <1>1, <3>1, <3>2 DEF LockInv
  <2>2. u = FALSE
    BY <1>2, <2>1
  <2>3. CASE suspend_thread # <<>>
    <3>1. PICK w : w = Head(suspend_thread)
      OBVIOUS
    <3>2. w \in Thread /\ pc[w] = "suspended" /\ w # t
      <4>1. 1 \in 1 .. Len(suspend_thread) /\ w = suspend_thread[1]
        BY <1>1, <2>3, <3>1
      <4> QED BY <1>1, <2>1, <4>1 DEF Suspended
    <3>3. /\ pc' = [x \in Thread |-> IF x = t THEN "idle" ELSE IF x = w THEN "resumed" ELSE pc[x]]
          /\ call' = [call EXCEPT ![t] = NoCall] /\ error' = error /\ value' = value
      BY <1>9, <2>3, <3>1 DEF SemRelease, ReturnResuming, ReturnWaking, AfterHandOver
    <3>4. \A x \in Tokens' : x = w
      <4> SUFFICES ASSUME NEW x \in Tokens', x # w PROVE FALSE
        OBVIOUS
      <4>0. x \in Thread
        BY DEF Tokens
      <4>1. x # t
        BY <1>0, <1>1, <1>5, <2>2, <3>3 DEF Tokens, Granted, In
      <4>2. pc'[x] = pc[x] /\ call'[x] = call[x] /\ error'[x] = error[x] /\ (x \in HeapUser => job'[x] = job[x])
        BY <1>1, <1>5, <3>3, <4>0, <4>1
      <4>3. x \in Tokens
        BY <4>0, <4>2 DEF Tokens, Granted, In
      <4> QED BY <2>1, <4>1, <4>3 DEF LockInv
    <3>5. ASSUME NEW x \in Thread
          PROVE  /\ pc'[x] \in {"idle", "call", "suspended", "resumed"} /\ error'[x] = "EOK"
                 /\ call'[x].op = "take" => call'[x].wait = "forever"
                 /\ pc'[x] = "suspended" => call'[x].op = "take"
      BY <1>1, <3>3 DEF LockInv, NoCall
    <3>6. \A x \in HeapUser : job'[x].held => pc'[x] = "idle"
      BY <1>0, <1>1, <1>5, <2>2, <3>2, <3>3 DEF LockInv
    <3> QED BY <1>1, <1>5, <1>6, <2>1, <3>3, <3>4, <3>5, <3>6 DEF LockInv
  <2>4. CASE suspend_thread = <<>>
    <3>1. /\ pc' = [x \in Thread |-> IF x = t THEN "idle" ELSE pc[x]] /\ call' = [call EXCEPT ![t] = NoCall]
          /\ error' = [error EXCEPT ![t] = "EOK"] /\ value' = Up(value)
      BY <1>9, <2>4 DEF SemRelease, Return, ReturnWaking
    <3>2. value' = 1
      BY <1>1, <2>1, <3>1, UpDownIs
    <3>3. Tokens' = {}
      <4>1. t \notin Tokens'
        BY <1>0, <1>1, <1>5, <2>2, <3>1 DEF Tokens, Granted, In
      <4>2. \A x \in Tokens' : x # t => x \in Tokens
        BY <1>1, <3>1, <1>s
      <4> QED BY <2>1, <4>1, <4>2 DEF LockInv
    <3>4. ASSUME NEW x \in Thread
          PROVE  /\ pc'[x] \in {"idle", "call", "suspended", "resumed"} /\ error'[x] = "EOK"
                 /\ call'[x].op = "take" => call'[x].wait = "forever"
                 /\ pc'[x] = "suspended" => call'[x].op = "take"
      BY <1>1, <3>1 DEF LockInv, NoCall
    <3>5. \A x \in HeapUser : job'[x].held => pc'[x] = "idle"
      BY <1>0, <1>1, <1>5, <2>2, <3>1 DEF LockInv
    <3> QED BY <1>1, <1>5, <1>6, <3>2, <3>3, <3>4, <3>5 DEF LockInv
  <2> QED BY <2>3, <2>4
<1>10. CASE SemReturn(t)
  <2>1. /\ pc' = [x \in Thread |-> IF x = t THEN "idle" ELSE pc[x]] /\ call' = [call EXCEPT ![t] = NoCall]
        /\ error' = [error EXCEPT ![t] = "EOK"] /\ value' = value /\ pc[t] = "resumed"
    BY <1>10 DEF SemReturn, Return, ReturnWaking
  <2>2. t \in Tokens /\ value = 0
    <3>1. t \in Granted
      BY <1>0, <1>1, <2>1 DEF Granted
    <3>2. t \in Tokens
      BY <1>0, <3>1 DEF Tokens
    <3> QED BY <1>1, <3>2 DEF LockInv
  <2>3. \A x \in Tokens' : x = t
    <3>1. \A x \in Tokens' : x # t => x \in Tokens
      BY <1>1, <2>1, <1>s
    <3> QED BY <2>2, <3>1 DEF LockInv
  <2>4. ASSUME NEW x \in Thread
        PROVE  /\ pc'[x] \in {"idle", "call", "suspended", "resumed"} /\ error'[x] = "EOK"
               /\ call'[x].op = "take" => call'[x].wait = "forever"
               /\ pc'[x] = "suspended" => call'[x].op = "take"
    BY <1>1, <2>1 DEF LockInv, NoCall
  <2>5. \A x \in HeapUser : job'[x].held => pc'[x] = "idle"
    BY <1>0, <1>1, <1>5, <2>1 DEF LockInv
  <2> QED BY <1>1, <1>5, <1>6, <2>1, <2>2, <2>3, <2>4, <2>5 DEF LockInv
<1> QED BY <1>7, <1>8, <1>9, <1>10 DEF HeapLock

-----------------------------------------------------------------------------
(* Sums over the blocks.                                                   *)

\* the memory of the blocks of S, by the headers f
SumOf(f, S) == MapThenSumSet(LAMBDA a : f[a].next - a, S)

\* the element of s that the sum takes first
FirstOf(s) == CHOOSE x \in s : TRUE

\* g is the recursive function behind the sum
Sums(f, g, S) == g = [s \in SUBSET S |-> IF s = {} THEN 0
                                         ELSE (f[FirstOf(s)].next - FirstOf(s)) + g[s \ {FirstOf(s)}]]

\* Of some subsets of a finite set, one contains no other.
LEMMA SmallestSet ==
  ASSUME NEW S, IsFiniteSet(S), NEW B \in SUBSET (SUBSET S), B # {}
  PROVE  \E s \in B : \A r \in B : r \subseteq s => r = s
<1> DEFINE C == {Cardinality(s) : s \in B}
<1>1. \A s \in B : IsFiniteSet(s) /\ Cardinality(s) \in Nat
  BY FS_Subset, FS_CardinalityType
<1>2. C \in SUBSET Nat /\ C # {}
  BY <1>1
<1>3. PICK m \in C : \A k \in C : m <= k
  BY <1>2, LeastNat
<1>4. PICK s \in B : Cardinality(s) = m
  BY <1>3
<1>5. ASSUME NEW r \in B, r \subseteq s PROVE r = s
  <2>1. IsFiniteSet(s) /\ r \in SUBSET s
    BY <1>1, <1>5
  <2>2. Cardinality(r) <= Cardinality(s) /\ (Cardinality(s) = Cardinality(r) => s = r)
    BY <2>1, FS_Subset
  <2>3. Cardinality(s) <= Cardinality(r)
    BY <1>3, <1>4
  <2> QED BY <1>1, <2>2, <2>3
<1> QED BY <1>5

\* What is taken is taken from the set.
LEMMA FirstOfIs ==
  ASSUME NEW s, s # {}
  PROVE  FirstOf(s) \in s /\ s \ {FirstOf(s)} \subseteq s /\ s \ {FirstOf(s)} # s
<1>1. FirstOf(s) \in s
  BY DEF FirstOf
<1> QED BY <1>1

\* Two such functions agree where both are defined.
LEMMA SumsAgree ==
  ASSUME NEW f, NEW S, IsFiniteSet(S), NEW T, NEW g, Sums(f, g, S), NEW h, Sums(f, h, T)
  PROVE  \A s \in SUBSET S : s \in SUBSET T => g[s] = h[s]
<1> DEFINE Bad == {s \in SUBSET S : s \in SUBSET T /\ g[s] # h[s]}
<1> SUFFICES ASSUME Bad # {} PROVE FALSE
  OBVIOUS
<1>1. PICK s \in Bad : \A r \in Bad : r \subseteq s => r = s
  <2>1. Bad \in SUBSET (SUBSET S)
    OBVIOUS
  <2> HIDE DEF Bad
  <2> QED BY <2>1, SmallestSet
<1>2. PICK r : r = s \ {FirstOf(s)}
  OBVIOUS
<1>3. s \in SUBSET S /\ s \in SUBSET T /\ g[s] # h[s] /\ s # {}
  BY <1>1 DEF Sums
<1>4. r \in SUBSET S /\ r \in SUBSET T /\ r \subseteq s /\ r # s
  BY <1>2, <1>3, FirstOfIs
<1>5. g[r] = h[r]
  BY <1>1, <1>4
<1>6. g[s] = (f[FirstOf(s)].next - FirstOf(s)) + g[r]
  BY <1>2, <1>3 DEF Sums
<1>7. h[s] = (f[FirstOf(s)].next - FirstOf(s)) + h[r]
  BY <1>2, <1>3 DEF Sums
<1> QED BY <1>3, <1>5, <1>6, <1>7

\* The function behind the sum exists, for every finite set.
LEMMA SumsExist ==
  ASSUME NEW f, NEW S, IsFiniteSet(S)
  PROVE  \E g : Sums(f, g, S)
<1> DEFINE Bad == {s \in SUBSET S : ~ \E g : Sums(f, g, s)}
<1> SUFFICES ASSUME Bad # {} PROVE FALSE
  <2>1. S \in SUBSET S
    OBVIOUS
  <2> QED BY <2>1
<1>1. PICK m \in Bad : \A r \in Bad : r \subseteq m => r = m
  <2>1. Bad \in SUBSET (SUBSET S)
    OBVIOUS
  <2> HIDE DEF Bad
  <2> QED BY <2>1, SmallestSet
<1>2. m \in SUBSET S /\ ~ \E g : Sums(f, g, m)
  OBVIOUS
<1> DEFINE F(q) == CHOOSE g : Sums(f, g, q)
           V(q) == F(q)[q]
           W(s) == (f[FirstOf(s)].next - FirstOf(s)) + V(s \ {FirstOf(s)})
<1>3. ASSUME NEW q \in SUBSET m, q # m PROVE Sums(f, F(q), q)
  <2>1. q \in SUBSET S /\ q \notin Bad
    BY <1>1, <1>2, <1>3
  <2>2. \E g : Sums(f, g, q)
    BY <2>1
  <2> QED BY <2>2
<1>4. PICK G : G = [s \in SUBSET m |-> IF s = {} THEN 0 ELSE W(s)]
  OBVIOUS
<1>5. ASSUME NEW q \in SUBSET m, q # m PROVE G[q] = V(q)
  <2>1. Sums(f, F(q), q)
    BY <1>3, <1>5
  <2>2. PICK k : k = F(q)
    OBVIOUS
  <2>3. Sums(f, k, q) /\ V(q) = k[q] /\ q \in SUBSET q
    BY <2>1, <2>2
  <2>4. CASE q = {}
    BY <1>4, <2>3, <2>4 DEF Sums
  <2>5. CASE q # {}
    <3>1. PICK r : r = q \ {FirstOf(q)}
      OBVIOUS
    <3>2. r \in SUBSET q /\ r # q /\ r \in SUBSET m /\ r # m /\ r \in SUBSET r /\ IsFiniteSet(r)
      BY <1>2, <2>5, <3>1, FirstOfIs, FS_Subset
    <3>3. PICK l : l = F(r)
      OBVIOUS
    <3>4. Sums(f, l, r) /\ V(r) = l[r]
      BY <1>3, <3>2, <3>3
    <3>5. l[r] = k[r]
      BY <2>3, <3>2, <3>4, SumsAgree
    <3>6. k[q] = (f[FirstOf(q)].next - FirstOf(q)) + k[r]
      BY <2>3, <2>5, <3>1 DEF Sums
    <3>7. G[q] = (f[FirstOf(q)].next - FirstOf(q)) + V(r)
      BY <1>4, <2>5, <3>1
    <3> QED BY <2>3, <3>4, <3>5, <3>6, <3>7
  <2> QED BY <2>4, <2>5
<1>6. ASSUME NEW s \in SUBSET m, s # {}
      PROVE  G[s] = (f[FirstOf(s)].next - FirstOf(s)) + G[s \ {FirstOf(s)}]
  <2>1. PICK q : q = s \ {FirstOf(s)}
    OBVIOUS
  <2>2. q \in SUBSET m /\ q # m
    BY <1>6, <2>1, FirstOfIs
  <2>3. G[q] = V(q)
    BY <1>5, <2>2
  <2>4. G[s] = (f[FirstOf(s)].next - FirstOf(s)) + V(q)
    BY <1>4, <1>6, <2>1
  <2> QED BY <2>1, <2>3, <2>4
<1>7. Sums(f, G, m)
  <2>1. G = [s \in SUBSET m |-> G[s]] /\ (G[{}] = 0)
    BY <1>4
  <2>2. G = [s \in SUBSET m |-> IF s = {} THEN 0
                                ELSE (f[FirstOf(s)].next - FirstOf(s)) + G[s \ {FirstOf(s)}]]
    BY <1>6, <2>1
  <2> QED BY <2>2 DEF Sums
<1> QED BY <1>2, <1>7

\* The sum of the fold, as a recursion.
LEMMA SumUnfold ==
  ASSUME NEW f, NEW S, IsFiniteSet(S)
  PROVE  \E g : Sums(f, g, S) /\ SumOf(f, S) = g[S]
<1>1. PICK h : h = CHOOSE g : Sums(f, g, S)
  OBVIOUS
<1>2. Sums(f, h, S)
  BY <1>1, SumsExist
<1>3. SumOf(f, S) = h[S]
  BY <1>1 DEF SumOf, MapThenSumSet, MapThenFoldSet, Sums, FirstOf
<1> QED BY <1>2, <1>3

\* The sum of a set, from the sum of one element less.
LEMMA SumNext ==
  ASSUME NEW f, NEW S, IsFiniteSet(S)
  PROVE  /\ S = {} => SumOf(f, S) = 0
         /\ S # {} => SumOf(f, S) = (f[FirstOf(S)].next - FirstOf(S)) + SumOf(f, S \ {FirstOf(S)})
<1>1. PICK g : Sums(f, g, S) /\ SumOf(f, S) = g[S]
  BY SumUnfold
<1>2. S = {} => SumOf(f, S) = 0
  BY <1>1 DEF Sums
<1>3. ASSUME S # {}
      PROVE  SumOf(f, S) = (f[FirstOf(S)].next - FirstOf(S)) + SumOf(f, S \ {FirstOf(S)})
  <2>1. PICK r : r = S \ {FirstOf(S)}
    OBVIOUS
  <2>2. r \in SUBSET S /\ r \in SUBSET r /\ S \in SUBSET S
    BY <2>1
  <2>3. IsFiniteSet(r)
    BY <2>2, FS_Subset
  <2>4. PICK h : Sums(f, h, r) /\ SumOf(f, r) = h[r]
    BY <2>3, SumUnfold
  <2>5. h[r] = g[r]
    <3>1. \A s \in SUBSET r : s \in SUBSET S => h[s] = g[s]
      BY <1>1, <2>3, <2>4, SumsAgree
    <3> QED BY <2>2, <3>1
  <2>6. g[S] = (f[FirstOf(S)].next - FirstOf(S)) + g[r]
    BY <1>1, <1>3, <2>1, <2>2 DEF Sums
  <2> QED BY <1>1, <2>1, <2>4, <2>5, <2>6
<1> QED BY <1>2, <1>3

\* The sum is a number.
LEMMA SumType ==
  ASSUME NEW f, NEW S, IsFiniteSet(S), S \subseteq Int, \A x \in S : f[x].next \in Int
  PROVE  SumOf(f, S) \in Int
<1> DEFINE Bad == {s \in SUBSET S : SumOf(f, s) \notin Int}
<1> SUFFICES ASSUME Bad # {} PROVE FALSE
  <2>1. S \in SUBSET S
    OBVIOUS
  <2> QED BY <2>1
<1>1. PICK s \in Bad : \A r \in Bad : r \subseteq s => r = s
  <2>1. Bad \in SUBSET (SUBSET S)
    OBVIOUS
  <2>2. Bad # {} /\ IsFiniteSet(S)
    OBVIOUS
  <2> HIDE DEF Bad
  <2> QED BY ONLY <2>1, <2>2, SmallestSet
<1>2. s \in SUBSET S /\ SumOf(f, s) \notin Int
  OBVIOUS
<1>3. IsFiniteSet(s)
  BY <1>2, FS_Subset
<1>4. s # {} /\ SumOf(f, s) = (f[FirstOf(s)].next - FirstOf(s)) + SumOf(f, s \ {FirstOf(s)})
  BY <1>2, <1>3, SumNext
<1>5. FirstOf(s) \in S /\ s \ {FirstOf(s)} \in SUBSET S /\ s \ {FirstOf(s)} \notin Bad
  BY <1>1, <1>2, <1>4, FirstOfIs
<1>6. SumOf(f, s \ {FirstOf(s)}) \in Int
  BY <1>5
<1>7. PICK x \in S : x = FirstOf(s)
  BY <1>5
<1>8. x \in Int /\ f[x].next \in Int
  OBVIOUS
<1> QED BY <1>2, <1>4, <1>6, <1>7, <1>8

\* The sum does not depend on the order: any element may be taken first.
LEMMA SumTake ==
  ASSUME NEW f, NEW S, IsFiniteSet(S), S \subseteq Int, \A x \in S : f[x].next \in Int, NEW x \in S
  PROVE  SumOf(f, S) = (f[x].next - x) + SumOf(f, S \ {x})
<1> DEFINE Good(s) == \A z \in s : SumOf(f, s) = (f[z].next - z) + SumOf(f, s \ {z})
           Bad == {s \in SUBSET S : ~ Good(s)}
<1> SUFFICES ASSUME Bad # {} PROVE FALSE
  <2>1. S \in SUBSET S
    OBVIOUS
  <2> QED BY <2>1
<1>1. PICK s \in Bad : \A r \in Bad : r \subseteq s => r = s
  <2>1. Bad \in SUBSET (SUBSET S)
    OBVIOUS
  <2>2. Bad # {} /\ IsFiniteSet(S)
    OBVIOUS
  <2> HIDE DEF Bad
  <2> QED BY ONLY <2>1, <2>2, SmallestSet
<1>2. s \in SUBSET S /\ ~ Good(s)
  OBVIOUS
<1>3. PICK z \in s : SumOf(f, s) # (f[z].next - z) + SumOf(f, s \ {z})
  BY <1>2
<1>4. PICK y : y = FirstOf(s)
  OBVIOUS
<1>5. IsFiniteSet(s) /\ s # {} /\ y \in s
  BY <1>2, <1>3, <1>4, FS_Subset, FirstOfIs
<1>6. SumOf(f, s) = (f[y].next - y) + SumOf(f, s \ {y})
  BY <1>4, <1>5, SumNext
<1>7. y # z
  BY <1>3, <1>6
<1>8. /\ s \ {y} \in SUBSET S /\ s \ {z} \in SUBSET S /\ s \ {y, z} \in SUBSET S
      /\ s \ {y} \notin Bad /\ s \ {z} \notin Bad
      /\ (s \ {y}) \ {z} = s \ {y, z} /\ (s \ {z}) \ {y} = s \ {y, z}
      /\ z \in s \ {y} /\ y \in s \ {z}
  BY <1>1, <1>2, <1>3, <1>5, <1>7
<1>9. SumOf(f, s \ {y}) = (f[z].next - z) + SumOf(f, s \ {y, z})
  <2>1. Good(s \ {y})
    BY <1>8
  <2> QED BY <1>8, <2>1
<1>10. SumOf(f, s \ {z}) = (f[y].next - y) + SumOf(f, s \ {y, z})
  <2>1. Good(s \ {z})
    BY <1>8
  <2> QED BY <1>8, <2>1
<1>11. IsFiniteSet(s \ {y, z}) /\ s \ {y, z} \subseteq Int /\ \A v \in s \ {y, z} : f[v].next \in Int
  BY <1>8, FS_Subset
<1>12. PICK w : w = SumOf(f, s \ {y, z})
  OBVIOUS
<1>13. w \in Int
  BY <1>11, <1>12, SumType
<1>14. y \in Int /\ z \in Int /\ f[y].next \in Int /\ f[z].next \in Int
  BY <1>2, <1>3, <1>5
<1>15. PICK u, v \in Int : u = f[y].next - y /\ v = f[z].next - z
  BY <1>14
<1>16. SumOf(f, s) = u + (v + w) /\ SumOf(f, s \ {z}) = u + w /\ SumOf(f, s) # v + SumOf(f, s \ {z})
  BY <1>3, <1>6, <1>9, <1>10, <1>12, <1>15
<1> QED BY <1>13, <1>15, <1>16

\* Only the headers of the set matter.
LEMMA SumSame ==
  ASSUME NEW f, NEW h, NEW S, IsFiniteSet(S), \A x \in S : f[x].next = h[x].next
  PROVE  SumOf(f, S) = SumOf(h, S)
<1> DEFINE Bad == {s \in SUBSET S : SumOf(f, s) # SumOf(h, s)}
<1> SUFFICES ASSUME Bad # {} PROVE FALSE
  <2>1. S \in SUBSET S
    OBVIOUS
  <2> QED BY <2>1
<1>1. PICK s \in Bad : \A r \in Bad : r \subseteq s => r = s
  <2>1. Bad \in SUBSET (SUBSET S)
    OBVIOUS
  <2>2. Bad # {} /\ IsFiniteSet(S)
    OBVIOUS
  <2> HIDE DEF Bad
  <2> QED BY ONLY <2>1, <2>2, SmallestSet
<1>2. s \in SUBSET S /\ SumOf(f, s) # SumOf(h, s)
  OBVIOUS
<1>3. IsFiniteSet(s)
  BY <1>2, FS_Subset
<1>4. s # {}
  BY <1>2, <1>3, SumNext
<1>5. /\ SumOf(f, s) = (f[FirstOf(s)].next - FirstOf(s)) + SumOf(f, s \ {FirstOf(s)})
      /\ SumOf(h, s) = (h[FirstOf(s)].next - FirstOf(s)) + SumOf(h, s \ {FirstOf(s)})
  BY <1>3, <1>4, SumNext
<1>6. FirstOf(s) \in S /\ s \ {FirstOf(s)} \in SUBSET S /\ s \ {FirstOf(s)} \notin Bad
  BY <1>1, <1>2, <1>4, FirstOfIs
<1> QED BY <1>2, <1>5, <1>6

\* The used blocks are finitely many numbers.
LEMMA UsedFinite ==
  ASSUME NEW h, Shape(h), NEW S \in SUBSET UsedIn(h)
  PROVE  IsFiniteSet(S) /\ S \subseteq Int /\ \A x \in S : h[x].next \in Int
<1>1. S \subseteq 0 .. HeapEnd /\ S \in SUBSET Nat
  BY HeapSizes DEF Shape, UsedIn
<1>2. \A x \in S : x <= HeapEnd /\ x \in Nat
  BY <1>1, HeapSizes
<1>3. IsFiniteSet(S)
  BY <1>1, <1>2, HeapSizes, FS_BoundedSetOfNaturals
<1>4. \A x \in S : h[x].next \in 0 .. HeapEnd
  BY DEF Shape, UsedIn
<1>5. \A x \in S : h[x].next \in Int
  BY <1>4, HeapSizes
<1>6. S \subseteq Int
  BY <1>1
<1> QED BY <1>3, <1>5, <1>6

\* Every header but the first has one in front of it that leads to it.
LEMMA BeforeIs ==
  ASSUME NEW h, Shape(h), NEW a \in DOMAIN h, a # 0
  PROVE  \E p \in DOMAIN h \ {HeapEnd} : h[p].next = a
<1> DEFINE D == {d \in Nat : d > 0 /\ a - d \in DOMAIN h}
<1>1. DOMAIN h \subseteq Nat /\ DOMAIN h \subseteq 0 .. HeapEnd /\ a \in Nat /\ a <= HeapEnd /\ 0 \in DOMAIN h
  BY HeapSizes DEF Shape
<1>2. a \in D /\ D \in SUBSET Nat
  BY <1>1
<1>3. PICK d \in D : \A k \in D : d <= k
  <2> HIDE DEF D
  <2> QED BY <1>2, LeastNat
<1>4. PICK p \in DOMAIN h : p = a - d
  OBVIOUS
<1>5. p \in Nat /\ p < a /\ p # HeapEnd
  BY <1>1, <1>3, <1>4, HeapSizes
<1>6. h[p].next \in DOMAIN h /\ h[p].next \in Nat /\ h[p].next > p /\ ~ (p < a /\ a < h[p].next)
  BY <1>1, <1>5, HeapSizes DEF Shape
<1>7. ~ (h[p].next < a)
  <2> SUFFICES ASSUME h[p].next < a PROVE FALSE
    OBVIOUS
  <2>1. PICK k \in Nat : k = a - h[p].next
    BY <1>1, <1>6
  <2>2. k > 0 /\ a - k = h[p].next /\ k < d
    BY <1>1, <1>3, <1>4, <1>6, <2>1
  <2>3. k \in D
    BY <1>6, <2>2
  <2> QED BY <1>3, <2>2, <2>3
<1> QED BY <1>1, <1>5, <1>6, <1>7

\* The used blocks take no more than the heap has.
LEMMA SumBound ==
  ASSUME NEW h, Shape(h)
  PROVE  SumOf(h, UsedIn(h)) \in 0 .. HeapEnd
<1> DEFINE U(a) == {x \in UsedIn(h) : x < a}
           Bad == {a \in DOMAIN h : SumOf(h, U(a)) \notin 0 .. a}
<1>0. DOMAIN h \in SUBSET Nat /\ HeapEnd \in DOMAIN h /\ \A x \in DOMAIN h \ {HeapEnd} : x < HeapEnd
  BY HeapSizes DEF Shape
<1>1. Bad = {}
  <2> SUFFICES ASSUME Bad # {} PROVE FALSE
    OBVIOUS
  <2>1. PICK a \in Bad : \A k \in Bad : a <= k
    <3>1. Bad \in SUBSET Nat
      BY <1>0
    <3> HIDE DEF Bad
    <3> QED BY <3>1, LeastNat
  <2>2. a \in DOMAIN h /\ SumOf(h, U(a)) \notin 0 .. a /\ a \in Nat
    BY <1>0
  <2>3. a # 0
    <3> SUFFICES ASSUME a = 0 PROVE FALSE
      OBVIOUS
    <3>1. U(a) = {}
      BY <1>0 DEF UsedIn
    <3>2. SumOf(h, {}) = 0
      BY FS_EmptySet, SumNext
    <3>3. SumOf(h, U(a)) = 0
      BY <3>1, <3>2
    <3> QED BY <2>2, <3>3
  <2>4. PICK p \in DOMAIN h \ {HeapEnd} : h[p].next = a
    BY <2>2, <2>3, BeforeIs
  <2>5. p \in Nat /\ p < a /\ \A x \in DOMAIN h : ~ (p < x /\ x < a)
    BY <1>0, <2>2, <2>4, HeapSizes DEF Shape
  <2>6. p \notin Bad
    BY <2>1, <2>2, <2>5
  <2>7. PICK v \in 0 .. p : v = SumOf(h, U(p))
    BY <2>6
  <2>8. \A x \in UsedIn(h) : x \in Nat /\ (x < a => x < p \/ x = p)
    BY <1>0, <2>5 DEF UsedIn
  <2>9. CASE p \in UsedIn(h)
    <3>1. U(a) \in SUBSET UsedIn(h) /\ p \in U(a) /\ U(a) \ {p} = U(p)
      <4>1. \A x \in UsedIn(h) : x < p <=> x < a /\ x # p
        BY <2>2, <2>5, <2>8
      <4>2. U(a) \ {p} = U(p)
        BY <4>1
      <4> QED BY <2>5, <2>9, <4>2
    <3>2. IsFiniteSet(U(a)) /\ U(a) \subseteq Int /\ \A x \in U(a) : h[x].next \in Int
      BY <3>1, UsedFinite
    <3> HIDE DEF U
    <3>3. SumOf(h, U(a)) = (h[p].next - p) + SumOf(h, U(a) \ {p})
      BY <3>1, <3>2, SumTake
    <3>4. SumOf(h, U(a)) = (a - p) + v
      BY <2>4, <2>7, <3>1, <3>3
    <3> QED BY <2>2, <2>5, <3>4
  <2>10. CASE p \notin UsedIn(h)
    <3>1. U(a) = U(p)
      BY <2>2, <2>5, <2>8, <2>10
    <3>2. SumOf(h, U(a)) = v
      BY <2>7, <3>1
    <3> QED BY <2>2, <2>5, <3>2
  <2> QED BY <2>9, <2>10
<1>2. U(HeapEnd) = UsedIn(h)
  BY <1>0 DEF UsedIn
<1>3. SumOf(h, U(HeapEnd)) \in 0 .. HeapEnd
  BY <1>0, <1>1
<1> QED BY <1>2, <1>3

-----------------------------------------------------------------------------
(* The steps of the heap.                                                  *)

\* the jobs that are about a block
OnBlock == {"free", "realloc", "grow", "drop"}

\* a job is about a block in use, and two jobs are not about the same
JobInv ==
    /\ \A t \in HeapUser : job[t].op \in OnBlock => job[t].at \in UsedIn(heap)
    /\ \A t, u \in HeapUser : /\ job[t].op \in OnBlock /\ job[u].op \in OnBlock
                              /\ job[t].at = job[u].at
                              => t = u

Counted == used_mem = SumOf(heap, UsedIn(heap))

HeapCore == HeapShape /\ Counted /\ JobInv /\ LockInv

\* what OthersUntouched says of a step
Untouched == \A a \in UsedIn(heap) \cap UsedIn(heap') :
                 \/ heap'[a].next = heap[a].next
                 \/ \E t \in HeapUser : HeapRealloc(t) /\ job[t].at = a

\* The blocks that were returned and not given back are the used ones.
LEMMA OwnedIs == HeapShape => Owned = UsedIn(heap)
<1> SUFFICES ASSUME HeapShape PROVE Owned = UsedIn(heap)
  OBVIOUS
<1>1. UsedIn(heap) \subseteq 0 .. HeapEnd /\ DOMAIN owners = 0 .. HeapEnd
  BY DEF HeapShape, Shape, UsedIn
<1>2. \A a \in 0 .. HeapEnd : owners[a] > 0 <=> a \in UsedIn(heap)
  BY DEF HeapShape
<1> QED BY <1>1, <1>2 DEF Owned

\* A thread's job changes: it is about no block, about the one it was about, or
\* about one that nobody else works on.
LEMMA JobNext ==
  ASSUME JobInv, job \in [HeapUser -> Jobs], NEW t \in HeapUser, NEW j, job' = [job EXCEPT ![t] = j],
         \A u \in HeapUser : u # t /\ job[u].op \in OnBlock => job[u].at \in UsedIn(heap'),
         j.op \in OnBlock => /\ j.at \in UsedIn(heap')
                             /\ \A u \in HeapUser : u # t /\ job[u].op \in OnBlock => job[u].at # j.at
  PROVE  JobInv'
<1>1. job'[t] = j /\ \A u \in HeapUser : u # t => job'[u] = job[u]
  OBVIOUS
<1>2. UsedIn(heap)' = UsedIn(heap')
  BY DEF UsedIn
<1>3. ASSUME NEW u \in HeapUser, job'[u].op \in OnBlock PROVE job'[u].at \in UsedIn(heap')
  BY <1>1, <1>3
<1>4. ASSUME NEW u \in HeapUser, NEW v \in HeapUser, job'[u].op \in OnBlock, job'[v].op \in OnBlock,
             job'[u].at = job'[v].at
      PROVE  u = v
  <2>1. CASE u # t /\ v # t
    <3>1. job'[u] = job[u] /\ job'[v] = job[v]
      BY <1>1, <2>1
    <3> QED BY <1>4, <3>1 DEF JobInv
  <2>2. CASE u = t /\ v # t
    <3>1. job'[u] = j /\ job'[v] = job[v]
      BY <1>1, <2>2
    <3> QED BY <1>4, <2>2, <3>1
  <2>3. CASE u # t /\ v = t
    <3>1. job'[u] = job[u] /\ job'[v] = j
      BY <1>1, <2>3
    <3> QED BY <1>4, <2>3, <3>1
  <2> QED BY <2>1, <2>2, <2>3
<1> QED BY <1>2, <1>3, <1>4 DEF JobInv

\* The heap is not touched.
LEMMA ShapeSame ==
  ASSUME HeapShape, Counted, UNCHANGED <<heap, lfree, used_mem, owners>>
  PROVE  HeapShape' /\ Counted' /\ Untouched
<1>1. UsedIn(heap') = UsedIn(heap) /\ UsedIn(heap)' = UsedIn(heap)
  BY DEF UsedIn
<1>2. HeapShape'
  BY <1>1 DEF HeapShape, Shape, Header, Tight, IsLowest
<1>3. Counted'
  BY <1>1 DEF Counted
<1>4. Untouched
  BY DEF Untouched
<1> QED BY <1>2, <1>3, <1>4

\* What an operation leaves behind is a heap again.
LEMMA ShapeNext ==
  ASSUME NEW used, NEW kept, Leaves(heap', lfree', used, kept), owners' \in [0 .. HeapEnd -> Nat],
         \A a \in 0 .. HeapEnd : owners'[a] = IF a \in used THEN 1 ELSE 0
  PROVE  HeapShape'
<1>1. /\ Shape(heap') /\ Tight(heap') /\ IsLowest(heap', lfree') /\ UsedIn(heap') = used
  BY DEF Leaves
<1>2. UsedIn(heap)' = UsedIn(heap') /\ Tight(heap)' /\ IsLowest(heap, lfree)'
  BY <1>1 DEF UsedIn, Tight, IsLowest
<1>3. Shape(heap)'
  BY <1>1 DEF Shape, Header
<1> QED BY <1>1, <1>2, <1>3 DEF HeapShape

\* The sums of the three operations.
LEMMA CountAdd ==
  ASSUME NEW h, Shape(h), Shape(heap), NEW a, a \notin UsedIn(heap), UsedIn(h) = UsedIn(heap) \cup {a},
         \A x \in UsedIn(heap) : h[x].next = heap[x].next
  PROVE  SumOf(h, UsedIn(h)) = (h[a].next - a) + SumOf(heap, UsedIn(heap))
<1>1. PICK S : S = UsedIn(h)
  OBVIOUS
<1>2. PICK U : U = UsedIn(heap)
  OBVIOUS
<1>3. a \in S /\ S \ {a} = U
  BY <1>1, <1>2
<1>4. IsFiniteSet(S) /\ S \subseteq Int /\ \A x \in S : h[x].next \in Int
  BY <1>1, UsedFinite
<1>5. SumOf(h, S) = (h[a].next - a) + SumOf(h, U)
  <2>1. PICK z \in S : z = a
    BY <1>3
  <2>2. \A x \in S : SumOf(h, S) = (h[x].next - x) + SumOf(h, S \ {x})
    BY ONLY <1>4, SumTake
  <2> QED BY <1>3, <2>1, <2>2
<1>6. IsFiniteSet(U)
  BY <1>2, UsedFinite
<1>7. SumOf(h, U) = SumOf(heap, U)
  BY <1>2, <1>6, SumSame
<1> QED BY <1>1, <1>2, <1>5, <1>7

\* The bytes in use after a free: those of the block less.
LEMMA CountRemove ==
  ASSUME NEW h, Shape(h), Shape(heap), NEW a \in UsedIn(heap), UsedIn(h) = UsedIn(heap) \ {a},
         \A x \in UsedIn(h) : h[x].next = heap[x].next
  PROVE  SumOf(h, UsedIn(h)) = SumOf(heap, UsedIn(heap)) - (heap[a].next - a)
<1>1. PICK S : S = UsedIn(h)
  OBVIOUS
<1>2. PICK U : U = UsedIn(heap)
  OBVIOUS
<1>3. a \in U /\ U \ {a} = S
  BY <1>1, <1>2
<1>4. IsFiniteSet(U) /\ U \subseteq Int /\ \A x \in U : heap[x].next \in Int
  BY <1>2, UsedFinite
<1>5. SumOf(heap, U) = (heap[a].next - a) + SumOf(heap, S)
  <2>1. PICK z \in U : z = a
    BY <1>3
  <2>2. \A x \in U : SumOf(heap, U) = (heap[x].next - x) + SumOf(heap, U \ {x})
    BY ONLY <1>4, SumTake
  <2> QED BY <1>3, <2>1, <2>2
<1>6. IsFiniteSet(S) /\ S \subseteq Int /\ \A x \in S : h[x].next \in Int
  BY <1>1, UsedFinite
<1>7. SumOf(h, S) = SumOf(heap, S)
  BY <1>1, <1>6, SumSame
<1>8. SumOf(h, S) \in Int
  BY <1>6, SumType
<1>9. PICK w \in Int : w = SumOf(h, S)
  BY <1>8
<1>10. PICK v \in Int : v = heap[a].next - a
  BY <1>3, <1>4
<1> QED BY <1>1, <1>2, <1>5, <1>7, <1>9, <1>10

\* The bytes in use after a realloc that cuts a block: what is cut off less.
LEMMA CountCut ==
  ASSUME NEW h, Shape(h), Shape(heap), NEW a \in UsedIn(heap), UsedIn(h) = UsedIn(heap),
         \A x \in UsedIn(heap) \ {a} : h[x].next = heap[x].next
  PROVE  SumOf(h, UsedIn(h)) = SumOf(heap, UsedIn(heap)) - (heap[a].next - h[a].next)
<1>1. PICK U : U = UsedIn(heap)
  OBVIOUS
<1>2. PICK S : S = U \ {a}
  OBVIOUS
<1>3. IsFiniteSet(U) /\ U \subseteq Int /\ \A x \in U : heap[x].next \in Int
  BY <1>1, UsedFinite
<1>4. \A x \in U : h[x].next \in Int
  BY <1>1, UsedFinite
<1>5. SumOf(heap, U) = (heap[a].next - a) + SumOf(heap, S)
  BY <1>1, <1>2, <1>3, SumTake
<1>6. SumOf(h, U) = (h[a].next - a) + SumOf(h, S)
  BY <1>1, <1>2, <1>3, <1>4, SumTake
<1>7. IsFiniteSet(S) /\ S \subseteq Int /\ \A x \in S : h[x].next \in Int
  BY <1>2, <1>3, <1>4, FS_Subset
<1>8. SumOf(h, S) = SumOf(heap, S)
  BY <1>1, <1>2, <1>7, SumSame
<1>9. PICK w \in Int : w = SumOf(h, S)
  BY <1>7, SumType
<1>10. PICK v, u, z \in Int : v = heap[a].next /\ u = h[a].next /\ z = a
  BY <1>1, <1>3, <1>4
<1>11. SumOf(heap, U) = (v - z) + w /\ SumOf(h, U) = (u - z) + w
  BY <1>5, <1>6, <1>8, <1>9, <1>10
<1> QED BY <1>1, <1>9, <1>10, <1>11

\* A thread calls rt_malloc, rt_free or rt_realloc.
LEMMA HeapCallKeeps ==
  ASSUME SyncInv, HeapCore, kind = "heap", NEW t \in Thread, HeapCall(t)
  PROVE  HeapCore' /\ Untouched
<1>0. t \in HeapUser /\ job[t] = NoJob /\ UNCHANGED semVars /\ HeapShape /\ Counted /\ JobInv /\ LockInv
  BY DEF HeapCall, HeapCore
<1>1. job \in [HeapUser -> Jobs] /\ Owned = UsedIn(heap) /\ UsedIn(heap) \subseteq 0 .. HeapEnd
  BY <1>0, OwnedIs DEF LockInv, HeapShape, Shape, UsedIn
<1>2. ASSUME NEW j \in Jobs, j.held = FALSE, Lock(t, j),
             j.op \in OnBlock => /\ j.at \in UsedIn(heap)
                                 /\ \A u \in HeapUser : u # t /\ job[u].op \in OnBlock => job[u].at # j.at
      PROVE  HeapCore' /\ Untouched
  <2>1. /\ Enter(t, Timed("take", "forever")) /\ job' = [job EXCEPT ![t] = j]
        /\ UNCHANGED <<heap, lfree, used_mem, owners>>
    BY <1>2 DEF Lock
  <2>2. Timed("take", "forever") \in Calls /\ Timed("take", "forever").op = "take"
        /\ Timed("take", "forever").wait = "forever"
    BY CallsType DEF Timed, NoCall, Op, Wait
  <2>3. LockInv'
    BY <1>0, <1>2, <2>1, <2>2, LockEnter
  <2>4. HeapShape' /\ Counted' /\ Untouched
    BY <1>0, <2>1, ShapeSame
  <2>5. UsedIn(heap') = UsedIn(heap)
    BY <2>1
  <2>6. \A u \in HeapUser : job[u].op \in OnBlock => job[u].at \in UsedIn(heap)
    BY <1>0 DEF JobInv
  <2>7. JobInv'
    BY <1>0, <1>1, <1>2, <2>1, <2>5, <2>6, JobNext
  <2> QED BY <2>3, <2>4, <2>7 DEF HeapCore
<1>3. ASSUME NEW n \in AskedSize PROVE n \in Nat /\ Least(n) \in Nat
  BY HeapAssumption DEF Least
<1>4. ASSUME NEW n \in AskedSize, NEW j, j = [NoJob EXCEPT !.op = "malloc", !.size = Least(n)]
      PROVE  j \in Jobs /\ j.held = FALSE /\ j.op = "malloc"
  <2>1. PICK k \in Nat : k = Least(n)
    BY <1>3
  <2>2. j = [NoJob EXCEPT !.op = "malloc", !.size = k]
    BY <1>4, <2>1, Zenon
  <2>3. j = [op |-> "malloc", size |-> k, at |-> HeapEnd, held |-> FALSE]
    BY <2>2 DEF NoJob
  <2> QED BY <2>3, HeapSizes DEF Jobs, JobOp
<1>5. ASSUME NEW a \in UsedIn(heap), NEW j, j = [NoJob EXCEPT !.op = "free", !.at = a]
      PROVE  j \in Jobs /\ j.held = FALSE /\ j.at = a
  BY <1>1, <1>5, HeapSizes DEF NoJob, Jobs, JobOp
<1>7. ASSUME NEW a \in UsedIn(heap), Free(a)
      PROVE  \A u \in HeapUser : u # t /\ job[u].op \in OnBlock => job[u].at # a
  BY <1>7 DEF Free, OnBlock
<1>8. \/ \E n \in AskedSize : Lock(t, [NoJob EXCEPT !.op = "malloc", !.size = Least(n)])
      \/ \E a \in UsedIn(heap) : Free(a) /\ Lock(t, [NoJob EXCEPT !.op = "free", !.at = a])
      \/ \E a \in UsedIn(heap), n \in AskedSize :
            Free(a) /\ Lock(t, [NoJob EXCEPT !.op = "realloc", !.at = a, !.size = n])
  BY <1>1 DEF HeapCall
<1>9. CASE \E n \in AskedSize : Lock(t, [NoJob EXCEPT !.op = "malloc", !.size = Least(n)])
  <2>1. PICK n \in AskedSize : Lock(t, [NoJob EXCEPT !.op = "malloc", !.size = Least(n)])
    BY <1>9
  <2>2. PICK j : j = [NoJob EXCEPT !.op = "malloc", !.size = Least(n)]
    OBVIOUS
  <2>3. j \in Jobs /\ j.held = FALSE /\ j.op = "malloc"
    BY <1>4, <2>2
  <2> QED BY <1>2, <2>1, <2>2, <2>3 DEF OnBlock
<1>10. CASE \E a \in UsedIn(heap) : Free(a) /\ Lock(t, [NoJob EXCEPT !.op = "free", !.at = a])
  <2>1. PICK a \in UsedIn(heap) : Free(a) /\ Lock(t, [NoJob EXCEPT !.op = "free", !.at = a])
    BY <1>10
  <2>2. PICK j : j = [NoJob EXCEPT !.op = "free", !.at = a]
    OBVIOUS
  <2>3. j \in Jobs /\ j.held = FALSE /\ j.at = a
    BY <1>5, <2>2
  <2> QED BY <1>2, <1>7, <2>1, <2>2, <2>3
<1>11. CASE \E a \in UsedIn(heap), n \in AskedSize :
            Free(a) /\ Lock(t, [NoJob EXCEPT !.op = "realloc", !.at = a, !.size = n])
  <2>1. PICK a \in UsedIn(heap), n \in AskedSize :
           Free(a) /\ Lock(t, [NoJob EXCEPT !.op = "realloc", !.at = a, !.size = n])
    BY <1>11
  <2>2. PICK j : j = [NoJob EXCEPT !.op = "realloc", !.at = a, !.size = n]
    OBVIOUS
  <2>3. j \in Jobs /\ j.held = FALSE /\ j.at = a
    BY <1>1, <1>3, <2>2, HeapSizes DEF NoJob, Jobs, JobOp
  <2> QED BY <1>2, <1>7, <2>1, <2>2, <2>3
<1> QED BY <1>8, <1>9, <1>10, <1>11

\* The release of heap_sem by the thread that holds it.
LEMMA LeaveKeeps ==
  ASSUME SyncInv, LockInv, kind = "heap", NEW t \in HeapUser, Holding(t),
         NEW j \in Jobs, j.held = FALSE, Leave(t, j)
  PROVE  LockInv' /\ job' = [job EXCEPT ![t] = j]
<1>1. Enter(t, Plain("release")) /\ job' = [job EXCEPT ![t] = j] /\ UNCHANGED semVars /\ job[t].held
  BY DEF Leave, Holding
<1>2. Plain("release") \in Calls /\ Plain("release").op = "release"
  BY CallsType DEF Op
<1> QED BY <1>1, <1>2, LockEnter

\* rt_realloc goes on with rt_malloc or rt_free.
LEMMA HeapAgainKeeps ==
  ASSUME SyncInv, HeapCore, kind = "heap", NEW t \in HeapUser, HeapAgain(t)
  PROVE  HeapCore' /\ Untouched
<1>0. HeapShape /\ Counted /\ JobInv /\ LockInv /\ job \in [HeapUser -> Jobs]
  BY DEF HeapCore, LockInv
<1>1. /\ Enter(t, Timed("take", "forever")) /\ job' = [job EXCEPT ![t] = job[t]] /\ UNCHANGED semVars
      /\ UNCHANGED <<heap, lfree, used_mem, owners>> /\ ~ job[t].held
  BY DEF HeapAgain, Lock
<1>2. Timed("take", "forever") \in Calls /\ Timed("take", "forever").op = "take"
      /\ Timed("take", "forever").wait = "forever"
  BY CallsType DEF Timed, NoCall, Op, Wait
<1>3. job[t] \in Jobs /\ job[t].held = FALSE /\ job' = job
  BY <1>0, <1>1 DEF Jobs
<1>4. LockInv'
  BY <1>0, <1>1, <1>2, <1>3, LockEnter
<1>5. JobInv'
  BY <1>0, <1>1, <1>3 DEF JobInv, UsedIn
<1> QED BY <1>0, <1>1, <1>4, <1>5, ShapeSame DEF HeapCore

\* A section of heap_sem.
LEMMA HeapLockKeeps ==
  ASSUME SyncInv, HeapCore, kind = "heap", NEW t \in HeapUser, HeapLock(t)
  PROVE  HeapCore' /\ Untouched
<1>0. HeapShape /\ Counted /\ JobInv /\ LockInv /\ job \in [HeapUser -> Jobs]
  BY DEF HeapCore, LockInv
<1>1. LockInv' /\ UNCHANGED <<heap, lfree, used_mem, owners>>
  BY <1>0, LockStep DEF HeapLock
<1>2. PICK u \in BOOLEAN : u = (call[t].op = "take" /\ pc'[t] = "idle")
  OBVIOUS
<1>3. job' = [job EXCEPT ![t] = [job[t] EXCEPT !.held = u]]
  BY <1>2 DEF HeapLock
<1>4. \A x \in HeapUser : job'[x].op = job[x].op /\ job'[x].at = job[x].at
  <2>1. [job[t] EXCEPT !.held = u].op = job[t].op /\ [job[t] EXCEPT !.held = u].at = job[t].at
    BY <1>0 DEF Jobs
  <2> QED BY <1>0, <1>3, <2>1
<1>5. JobInv'
  BY <1>0, <1>1, <1>4 DEF JobInv, UsedIn
<1> QED BY <1>0, <1>1, <1>5, ShapeSame DEF HeapCore

\* rt_malloc.
LEMMA HeapMallocKeeps ==
  ASSUME SyncInv, HeapCore, kind = "heap", NEW t \in HeapUser, HeapMalloc(t)
  PROVE  /\ HeapCore' /\ Untouched
         /\ owners' = owners => Found(Least(job[t].size)) = {}
<1>0. HeapShape /\ Counted /\ JobInv /\ LockInv /\ job \in [HeapUser -> Jobs]
  BY DEF HeapCore, LockInv
<1>1. PICK n : n = Least(job[t].size)
  OBVIOUS
<1>2. n \in Nat /\ Holding(t) /\ job[t].op \in {"malloc", "grow"} /\ job[t] \in Jobs
  BY <1>0, <1>1, HeapSizes DEF Least, Jobs, HeapMalloc
<1>3. ASSUME NEW ok \in BOOLEAN, NEW j, j = AfterMalloc(t, ok)
      PROVE  j \in Jobs /\ j.held = FALSE
             /\ (j.op \in OnBlock => job[t].op = "grow" /\ j.at = job[t].at)
  <2>1. job[t].at \in 0 .. HeapEnd
    BY <1>2 DEF Jobs
  <2>2. CASE job[t].op = "grow" /\ ok
    <3>1. j = [NoJob EXCEPT !.op = "drop", !.at = job[t].at]
      BY <1>3, <2>2 DEF AfterMalloc
    <3>2. PICK k \in 0 .. HeapEnd : k = job[t].at
      BY <2>1
    <3> QED BY <2>2, <3>1, <3>2, HeapSizes DEF NoJob, Jobs, JobOp
  <2>3. CASE ~ (job[t].op = "grow" /\ ok)
    <3>1. j = NoJob
      BY <1>3, <2>3 DEF AfterMalloc
    <3> QED BY <3>1, NoJobType DEF OnBlock
  <2> QED BY <2>2, <2>3
<1>4. ASSUME NEW ok \in BOOLEAN, NEW j, j = AfterMalloc(t, ok), Leave(t, j), UsedIn(heap) \subseteq UsedIn(heap')
      PROVE  LockInv' /\ JobInv'
  <2>1. j \in Jobs /\ j.held = FALSE /\ (j.op \in OnBlock => job[t].op = "grow" /\ j.at = job[t].at)
    BY <1>3, <1>4
  <2>2. LockInv' /\ job' = [job EXCEPT ![t] = j]
    BY <1>0, <1>2, <1>4, <2>1, LeaveKeeps
  <2>3. \A u \in HeapUser : job[u].op \in OnBlock => job[u].at \in UsedIn(heap')
    BY <1>0, <1>4 DEF JobInv
  <2>4. j.op \in OnBlock => /\ j.at \in UsedIn(heap')
                            /\ \A u \in HeapUser : u # t /\ job[u].op \in OnBlock => job[u].at # j.at
    BY <1>0, <2>1, <2>3 DEF JobInv, OnBlock
  <2>5. JobInv'
    BY <1>0, <2>2, <2>3, <2>4, JobNext
  <2> QED BY <2>2, <2>5
<1>5. CASE Found(n) = {}
  <2>1. Leave(t, AfterMalloc(t, FALSE)) /\ UNCHANGED <<heap, lfree, used_mem, owners>>
    BY <1>1, <1>5 DEF HeapMalloc
  <2>2. LockInv' /\ JobInv'
    BY <1>4, <2>1
  <2> QED BY <1>0, <1>1, <1>5, <2>1, <2>2, ShapeSame DEF HeapCore
<1>6. CASE Found(n) # {}
  <2>1. PICK a : a = Min(Found(n))
    OBVIOUS
  <2>2. /\ Leave(t, AfterMalloc(t, TRUE))
        /\ heap' = Carved(a, n)
        /\ lfree' = IF a = lfree THEN FirstFree(heap', a) ELSE lfree
        /\ used_mem' = used_mem + Charged(heap', a, n)
        /\ owners' = [owners EXCEPT ![a] = @ + 1]
    BY <1>1, <1>6, <2>1 DEF HeapMalloc
  <2>3. a \in Found(n)
    <3>1. Found(n) \in SUBSET Nat
      BY <1>0, HeapSizes DEF Found, Block, HeapShape, Shape
    <3>2. PICK m \in Found(n) : \A k \in Found(n) : m <= k
      BY <1>6, <3>1, LeastNat
    <3> QED BY <2>1, <3>1, <3>2, MinMaxIs
  <2>4. a \in Block /\ a >= lfree /\ Fits(a, n)
    BY <2>3 DEF Found
  <2>5. Leaves(heap', lfree', UsedIn(heap) \cup {a}, UsedIn(heap)) /\ a \notin UsedIn(heap)
    BY <1>0, <1>2, <2>2, <2>4, CarveLeaves
  <2>6. a \in 0 .. HeapEnd /\ owners[a] = 0 /\ owners'[a] = 1
    BY <1>0, <2>2, <2>4, <2>5 DEF HeapShape, Shape, Block
  <2>7. HeapShape'
    <3>1. owners' \in [0 .. HeapEnd -> Nat]
      BY <1>0, <2>2, <2>6 DEF HeapShape
    <3>2. \A x \in 0 .. HeapEnd : owners'[x] = IF x \in UsedIn(heap) \cup {a} THEN 1 ELSE 0
      BY <1>0, <2>2, <2>6 DEF HeapShape
    <3> QED BY <2>5, <3>1, <3>2, ShapeNext
  <2>8. /\ Shape(heap') /\ Shape(heap) /\ UsedIn(heap') = UsedIn(heap) \cup {a}
        /\ \A x \in UsedIn(heap) : heap'[x].next = heap[x].next
    BY <1>0, <2>5 DEF Leaves, HeapShape
  <2>9. Counted'
    <3>1. SumOf(heap', UsedIn(heap')) = (heap'[a].next - a) + SumOf(heap, UsedIn(heap))
      BY <2>5, <2>8, CountAdd
    <3>2. PICK v \in Int : v = heap'[a].next - a
      <4>1. a \in UsedIn(heap')
        BY <2>8
      <4>2. heap'[a].next \in Int /\ a \in Int
        BY <2>8, <4>1, UsedFinite
      <4> QED BY <4>2
    <3>3. PICK w \in Int : w = SumOf(heap, UsedIn(heap))
      BY <2>8, SumType, UsedFinite
    <3>4. used_mem' = w + v
      BY <1>0, <2>2, <3>2, <3>3 DEF Counted, Charged
    <3>5. UsedIn(heap)' = UsedIn(heap')
      BY DEF UsedIn
    <3> QED BY <3>1, <3>2, <3>3, <3>4, <3>5 DEF Counted
  <2>10. LockInv' /\ JobInv'
    BY <1>4, <2>2, <2>8
  <2>11. Untouched
    BY <2>8 DEF Untouched
  <2>12. owners' # owners
    BY <2>6
  <2> QED BY <2>7, <2>9, <2>10, <2>11, <2>12 DEF HeapCore
<1> QED BY <1>5, <1>6

\* rt_free.
LEMMA HeapFreeKeeps ==
  ASSUME SyncInv, HeapCore, kind = "heap", NEW t \in HeapUser, HeapFree(t)
  PROVE  HeapCore' /\ Untouched
<1>0. HeapShape /\ Counted /\ JobInv /\ LockInv /\ job \in [HeapUser -> Jobs]
  BY DEF HeapCore, LockInv
<1>1. PICK a : a = job[t].at
  OBVIOUS
<1>2. /\ heap' = Plugged([heap EXCEPT ![a].used = FALSE], a)
      /\ lfree' = Lowest(heap', a)
      /\ used_mem' = used_mem - (heap[a].next - a)
      /\ owners' = [owners EXCEPT ![a] = @ - 1]
      /\ Leave(t, NoJob) /\ Holding(t) /\ job[t].op \in OnBlock
  BY <1>1 DEF HeapFree, OnBlock
<1>3. a \in UsedIn(heap)
  BY <1>0, <1>1, <1>2 DEF JobInv
<1>4. Leaves(heap', lfree', UsedIn(heap) \ {a}, UsedIn(heap) \ {a})
  BY <1>0, <1>2, <1>3, FreeLeaves
<1>5. a \in 0 .. HeapEnd /\ owners[a] = 1 /\ owners'[a] = 0
  <2>1. a \in 0 .. HeapEnd
    BY <1>0, <1>3 DEF HeapShape, Shape, UsedIn
  <2>2. owners \in [0 .. HeapEnd -> Nat] /\ owners[a] = 1
    BY <1>0, <1>3, <2>1 DEF HeapShape
  <2> QED BY <1>2, <2>1, <2>2
<1>6. HeapShape'
  <2>1. owners' \in [0 .. HeapEnd -> Nat]
    BY <1>0, <1>2, <1>5 DEF HeapShape
  <2>2. \A x \in 0 .. HeapEnd : owners'[x] = IF x \in UsedIn(heap) \ {a} THEN 1 ELSE 0
    BY <1>0, <1>2, <1>5 DEF HeapShape
  <2> QED BY <1>4, <2>1, <2>2, ShapeNext
<1>7. /\ Shape(heap') /\ Shape(heap) /\ UsedIn(heap') = UsedIn(heap) \ {a}
      /\ \A x \in UsedIn(heap') : heap'[x].next = heap[x].next
  BY <1>0, <1>4 DEF Leaves, HeapShape
<1>8. Counted'
  <2>1. SumOf(heap', UsedIn(heap')) = SumOf(heap, UsedIn(heap)) - (heap[a].next - a)
    BY <1>3, <1>7, CountRemove
  <2>2. UsedIn(heap)' = UsedIn(heap')
    BY DEF UsedIn
  <2> QED BY <1>0, <1>2, <2>1, <2>2 DEF Counted
<1>9. LockInv' /\ job' = [job EXCEPT ![t] = NoJob]
  BY <1>0, <1>2, NoJobType, LeaveKeeps
<1>10. JobInv'
  <2>1. \A u \in HeapUser : u # t /\ job[u].op \in OnBlock => job[u].at \in UsedIn(heap')
    BY <1>0, <1>1, <1>2, <1>7 DEF JobInv
  <2>2. NoJob.op \notin OnBlock
    BY NoJobType DEF OnBlock
  <2> QED BY <1>0, <1>9, <2>1, <2>2, JobNext
<1>11. Untouched
  BY <1>7 DEF Untouched
<1> QED BY <1>6, <1>8, <1>9, <1>10, <1>11 DEF HeapCore

\* rt_realloc.
LEMMA HeapReallocKeeps ==
  ASSUME SyncInv, HeapCore, kind = "heap", NEW t \in HeapUser, HeapRealloc(t)
  PROVE  HeapCore' /\ Untouched
<1>0. HeapShape /\ Counted /\ JobInv /\ LockInv /\ job \in [HeapUser -> Jobs]
  BY DEF HeapCore, LockInv
<1>1. PICK a, n : a = job[t].at /\ n = job[t].size
  OBVIOUS
<1>2. Holding(t) /\ job[t].op = "realloc" /\ job[t].op \in OnBlock /\ n \in Nat /\ owners' = owners
  BY <1>0, <1>1 DEF HeapRealloc, OnBlock, Jobs
<1>3. a \in UsedIn(heap)
  BY <1>0, <1>1, <1>2 DEF JobInv
<1>4. ASSUME NEW j \in Jobs, j.held = FALSE, Leave(t, j), UsedIn(heap') = UsedIn(heap),
             j.op \in OnBlock => j.at = a
      PROVE  LockInv' /\ JobInv'
  <2>1. LockInv' /\ job' = [job EXCEPT ![t] = j]
    BY <1>0, <1>2, <1>4, LeaveKeeps
  <2>2. \A u \in HeapUser : u # t /\ job[u].op \in OnBlock => job[u].at \in UsedIn(heap')
    BY <1>0, <1>4 DEF JobInv
  <2>3. j.op \in OnBlock => /\ j.at \in UsedIn(heap')
                            /\ \A u \in HeapUser : u # t /\ job[u].op \in OnBlock => job[u].at # j.at
    BY <1>0, <1>1, <1>2, <1>3, <1>4 DEF JobInv
  <2> QED BY <1>0, <2>1, <2>2, <2>3, JobNext
<1>5. \/ Leave(t, NoJob) /\ UNCHANGED <<heap, lfree, used_mem>>
      \/ /\ WorthSplitting(n, DataSize(a)) /\ Leave(t, NoJob)
         /\ heap' = Plugged(Split(heap, a, n), a + SizeofMem + n)
         /\ lfree' = Lowest(heap', a + SizeofMem + n)
         /\ used_mem' = used_mem - (DataSize(a) - n)
      \/ Leave(t, [job[t] EXCEPT !.op = "grow", !.held = FALSE]) /\ UNCHANGED <<heap, lfree, used_mem>>
  BY <1>1 DEF HeapRealloc
<1>6. CASE Leave(t, NoJob) /\ UNCHANGED <<heap, lfree, used_mem>>
  <2>1. LockInv' /\ JobInv'
    BY <1>4, <1>6, NoJobType DEF OnBlock
  <2> QED BY <1>0, <1>2, <1>6, <2>1, ShapeSame DEF HeapCore
<1>7. CASE Leave(t, [job[t] EXCEPT !.op = "grow", !.held = FALSE]) /\ UNCHANGED <<heap, lfree, used_mem>>
  <2>1. PICK j : j = [job[t] EXCEPT !.op = "grow", !.held = FALSE]
    OBVIOUS
  <2>2. j \in Jobs /\ j.held = FALSE /\ j.at = a
    BY <1>0, <1>1, <2>1 DEF Jobs, JobOp
  <2>3. LockInv' /\ JobInv'
    BY <1>4, <1>7, <2>1, <2>2
  <2> QED BY <1>0, <1>2, <1>7, <2>3, ShapeSame DEF HeapCore
<1>8. CASE /\ WorthSplitting(n, DataSize(a)) /\ Leave(t, NoJob)
           /\ heap' = Plugged(Split(heap, a, n), a + SizeofMem + n)
           /\ lfree' = Lowest(heap', a + SizeofMem + n)
           /\ used_mem' = used_mem - (DataSize(a) - n)
  <2>1. PICK b : b = a + SizeofMem + n
    OBVIOUS
  <2>2. Leaves(heap', lfree', UsedIn(heap), UsedIn(heap) \ {a}) /\ heap'[a].next = b
    BY <1>0, <1>2, <1>3, <1>8, <2>1, CutLeaves
  <2>3. HeapShape'
    BY <1>0, <1>2, <2>2, ShapeNext DEF HeapShape
  <2>4. /\ Shape(heap') /\ Shape(heap) /\ UsedIn(heap') = UsedIn(heap)
        /\ \A x \in UsedIn(heap) \ {a} : heap'[x].next = heap[x].next
    BY <1>0, <2>2 DEF Leaves, HeapShape
  <2>5. Counted'
    <3>1. SumOf(heap', UsedIn(heap')) = SumOf(heap, UsedIn(heap)) - (heap[a].next - b)
      BY <1>3, <2>2, <2>4, CountCut
    <3>2. DataSize(a) - n = heap[a].next - b
      <4>1. a \in Int /\ heap[a].next \in Int
        BY <1>3, <2>4, UsedFinite
      <4> QED BY <1>2, <2>1, <4>1, HeapSizes DEF DataSize
    <3>3. UsedIn(heap)' = UsedIn(heap')
      BY DEF UsedIn
    <3> QED BY <1>0, <1>8, <3>1, <3>2, <3>3 DEF Counted
  <2>6. LockInv' /\ JobInv'
    BY <1>4, <1>8, <2>4, NoJobType DEF OnBlock
  <2>7. Untouched
    BY <1>1, <2>4 DEF Untouched
  <2> QED BY <2>3, <2>5, <2>6, <2>7 DEF HeapCore
<1> QED BY <1>5, <1>6, <1>7, <1>8

-----------------------------------------------------------------------------
(* All steps.                                                              *)

\* No step makes another object of it.
LEMMA KindSame == [Next]_vars => kind' = kind
<1> SUFFICES ASSUME [Next]_vars PROVE kind' = kind
  OBVIOUS
<1>1. CASE UNCHANGED vars
  BY <1>1 DEF vars, waitVars
<1>2. ASSUME NEW t \in Thread, NEW c, Enter(t, c) PROVE kind' = kind
  BY <1>2 DEF Enter
<1>3. ASSUME NEW t \in Thread, Call(t) PROVE kind' = kind
  BY <1>2, <1>3 DEF Call, SemCall, MutexCall, EventCall, HeapCall, Lock
<1>4. ASSUME NEW t, \/ Return(t) \/ ReturnResuming(t) \/ ReturnResumingAll(t)
                    \/ Refuse(t) \/ Suspend(t)
      PROVE  kind' = kind
  BY <1>4 DEF Return, ReturnResuming, ReturnResumingAll, ReturnWaking, Refuse, Suspend
<1>5. ASSUME NEW t \in Thread, SemStep(t) PROVE kind' = kind
  BY <1>4, <1>5 DEF SemStep, SemTake, SemRelease, SemReset, SemReturn
<1>6. ASSUME NEW t \in Thread, MutexStep(t) PROVE kind' = kind
  BY <1>4, <1>6 DEF MutexStep, MutexTake, MutexRelease, MutexReturn
<1>7. ASSUME NEW t \in Thread, EventStep(t) PROVE kind' = kind
  BY <1>4, <1>7 DEF EventStep, EventRecv, EventSend, EventReset, EventReturn, ReturnWaking
<1>8. ASSUME NEW t \in Thread, HeapStep(t) PROVE kind' = kind
  BY <1>2, <1>4, <1>8
     DEF HeapStep, HeapLock, SemTake, SemRelease, SemReturn, HeapAgain, Lock, HeapMalloc, HeapFree,
         HeapRealloc, Leave
<1>9. ASSUME NEW t \in Thread, Detach(t) \/ Expire(t) PROVE kind' = kind
  BY <1>9 DEF Detach, DetachTest, DetachResume, DetachObject, Expire
<1>10. ASSUME NEW t \in Thread, Step(t) PROVE kind' = kind
  BY <1>5, <1>6, <1>7, <1>8, <1>9, <1>10 DEF Step
<1> QED BY <1>1, <1>3, <1>9, <1>10 DEF Next, Tick

\* A step of another object.
LEMMA HeapOther ==
  ASSUME HeapCore, UNCHANGED heapVars, kind # "heap", kind' = kind
  PROVE  HeapCore' /\ Untouched
<1>1. UNCHANGED <<heap, lfree, used_mem, owners>> /\ job' = job
  BY DEF heapVars
<1>2. JobInv'
  BY <1>1 DEF HeapCore, JobInv, UsedIn
<1>3. LockInv'
  BY <1>1 DEF HeapCore, LockInv
<1> QED BY <1>1, <1>2, <1>3, ShapeSame DEF HeapCore

\* A step that changes nothing.
LEMMA HeapStutter ==
  ASSUME HeapCore, UNCHANGED vars
  PROVE  HeapCore' /\ Untouched
<1>1. /\ UNCHANGED <<heap, lfree, used_mem, owners, job>>
      /\ UNCHANGED <<kind, attached, pc, call, error, value>>
  BY DEF vars, heapVars, waitVars, semVars
<1>2. JobInv'
  BY <1>1 DEF HeapCore, JobInv, UsedIn
<1>3. Tokens' = Tokens
  BY <1>1 DEF Tokens, Granted, In
<1>4. LockInv'
  BY <1>1, <1>3 DEF HeapCore, LockInv
<1> QED BY <1>1, <1>2, <1>4, ShapeSame DEF HeapCore

\* Every step keeps the heap in order and the other blocks as they are.
LEMMA HeapNext == SyncInv /\ HeapCore /\ [Next]_vars => HeapCore' /\ Untouched
<1> SUFFICES ASSUME SyncInv, HeapCore, [Next]_vars PROVE HeapCore' /\ Untouched
  OBVIOUS
<1>0. kind' = kind
  BY KindSame
<1>1. CASE UNCHANGED vars
  BY <1>1, HeapStutter
<1>2. CASE kind # "heap" /\ Next
  <2>1. UNCHANGED heapVars
    BY <1>2 DEF Next, Call, Step, Tick
  <2> QED BY <1>0, <1>2, <2>1, HeapOther
<1>3. CASE kind = "heap" /\ Next
  <2>1. PICK t \in Thread : Call(t) \/ Step(t) \/ Tick(t)
    BY <1>3 DEF Next
  <2>2. CASE Call(t)
    BY <1>3, <2>2, HeapCallKeeps DEF Call
  <2>3. ~ Detach(t) /\ ~ Expire(t)
    <3>1. /\ pc[t] \in {"idle", "call", "suspended", "resumed"}
          /\ pc[t] = "suspended" => call[t].wait = "forever"
      BY <1>3 DEF HeapCore, LockInv
    <3> QED BY <3>1 DEF Detach, DetachTest, DetachResume, DetachObject, Expire
  <2>4. CASE Step(t)
    <3>1. HeapStep(t)
      BY <1>3, <2>3, <2>4 DEF Step
    <3> QED BY <1>3, <3>1, HeapLockKeeps, HeapAgainKeeps, HeapMallocKeeps, HeapFreeKeeps, HeapReallocKeeps
            DEF HeapStep
  <2> QED BY <2>1, <2>2, <2>3, <2>4 DEF Tick
<1> QED BY <1>1, <1>2, <1>3

\* The heap of rt_system_heap_init.
LEMMA HeapStart == Init => HeapCore
<1> SUFFICES ASSUME Init PROVE HeapCore
  OBVIOUS
<1>0. WaitInit /\ SemInit /\ HeapInit
  BY DEF Init
<1>1. /\ heap = [a \in {0, HeapEnd} |-> [used |-> a = HeapEnd, next |-> HeapEnd, prev |-> a]]
      /\ lfree = 0 /\ used_mem = 0 /\ job = [t \in HeapUser |-> NoJob]
      /\ owners = [a \in 0 .. HeapEnd |-> 0]
  BY <1>0 DEF HeapInit
<1>2. /\ DOMAIN heap = {0, HeapEnd} /\ 0 # HeapEnd /\ heap[HeapEnd].used /\ heap[0].used = FALSE
      /\ heap[0].next = HeapEnd /\ heap[0].prev = 0
  <2>1. 0 # HeapEnd
    BY HeapSizes
  <2>2. /\ heap[HeapEnd] = [used |-> HeapEnd = HeapEnd, next |-> HeapEnd, prev |-> HeapEnd]
        /\ heap[0] = [used |-> 0 = HeapEnd, next |-> HeapEnd, prev |-> 0]
    BY <1>1
  <2> QED BY <1>1, <2>1, <2>2
<1>3. heap \in [{0, HeapEnd} -> Header]
  BY <1>1, HeapSizes DEF Header
<1>4. HeapEnd >= 0 + SizeofMem
  BY HeapSizes
<1>5. \A a \in DOMAIN heap \ {HeapEnd} : a = 0
  BY <1>2
<1>6. Shape(heap)
  <2>1. DOMAIN heap \subseteq 0 .. HeapEnd
    BY <1>2, HeapSizes
  <2>2. \A x \in DOMAIN heap : ~ (0 < x /\ x < HeapEnd)
    BY <1>2, HeapSizes
  <2>3. DOMAIN heap \ {0, HeapEnd} = {}
    BY <1>2
  <2> QED BY <1>2, <1>3, <1>4, <1>5, <2>1, <2>2, <2>3 DEF Shape
<1>7. UsedIn(heap) = {}
  BY <1>2 DEF UsedIn
<1>8. Tight(heap) /\ IsLowest(heap, lfree)
  BY <1>1, <1>2, <1>5, HeapSizes DEF Tight, IsLowest
<1>9. HeapShape
  BY <1>1, <1>6, <1>7, <1>8 DEF HeapShape
<1>10. Counted
  <2>1. SumOf(heap, {}) = 0
    BY FS_EmptySet, SumNext
  <2> QED BY <1>1, <1>7, <2>1 DEF Counted
<1>11. \A t \in HeapUser : job[t] \in Jobs /\ job[t].held = FALSE /\ job[t].op \notin OnBlock
  BY <1>1, NoJobType DEF OnBlock
<1>12. JobInv
  BY <1>11 DEF JobInv
<1>13. job \in [HeapUser -> Jobs]
  BY <1>1, NoJobType
<1>14. LockInv
  <2>1. /\ attached /\ pc = [t \in Thread |-> "idle"] /\ call = [t \in Thread |-> NoCall]
        /\ error = [t \in Thread |-> "EOK"]
    BY <1>0 DEF WaitInit
  <2>2. kind = "heap" => value = 1
    BY <1>0 DEF SemInit
  <2>3. Tokens = {}
    BY <1>11, <2>1 DEF Tokens, Granted, In
  <2> QED BY <1>11, <1>13, <2>1, <2>2, <2>3 DEF LockInv, NoCall
<1> QED BY <1>9, <1>10, <1>12, <1>14 DEF HeapCore

-----------------------------------------------------------------------------
(* The theorems.                                                           *)

\* The inductive invariant of the heap holds.
THEOREM HeapInvariance == Spec => [](SyncInv /\ HeapCore)
<1>1. Init => SyncInv /\ HeapCore
  BY SyncInit, HeapStart
<1>2. SyncInv /\ HeapCore /\ [Next]_vars => SyncInv' /\ HeapCore'
  BY SyncNext, HeapNext
<1> QED BY <1>1, <1>2, PTL DEF Spec

\* The heap's invariant follows.
LEMMA CoreIsHeapInv == HeapCore => HeapInv
<1> SUFFICES ASSUME HeapCore PROVE HeapInv
  OBVIOUS
<1>0. /\ HeapShape /\ Shape(heap) /\ Tight(heap) /\ IsLowest(heap, lfree)
      /\ \A a \in 0 .. HeapEnd : owners[a] = IF a \in UsedIn(heap) THEN 1 ELSE 0
  BY DEF HeapCore, HeapShape
<1>1. HeapIsExclusive
  <2> DEFINE H == {t \in HeapUser : job[t].held}
  <2>1. \A x, y \in H : x = y
    <3>1. CASE kind = "heap"
      <4>1. H \subseteq Tokens
        BY HeapAssumption DEF Tokens
      <4> QED BY <3>1, <4>1 DEF HeapCore, LockInv
    <3>2. CASE kind # "heap"
      BY <3>2 DEF HeapCore, LockInv
    <3> QED BY <3>1, <3>2
  <2>2. H = {} \/ \E x : H = {x}
    <3> SUFFICES ASSUME H # {} PROVE \E x : H = {x}
      OBVIOUS
    <3>1. PICK x : x \in H
      OBVIOUS
    <3>2. H = {x}
      BY <2>1, <3>1
    <3> QED BY <3>2
  <2> HIDE DEF H
  <2>3. Cardinality(H) \in {0, 1}
    BY <2>2, FS_EmptySet, FS_Singleton
  <2>4. Cardinality(H) <= 1
    BY <2>3
  <2> QED BY <2>4 DEF HeapIsExclusive, H
<1>2. BlocksTile
  BY <1>0 DEF BlocksTile, Block, Shape
<1>3. UsedAreOwned
  BY <1>0 DEF UsedAreOwned, Block, UsedIn
<1>4. FreeIsJoined
  <2>1. PICK S : S = {HeapEnd} \cup {x \in DOMAIN heap : x >= 0 /\ ~ heap[x].used}
    OBVIOUS
  <2>2. DOMAIN heap \subseteq 0 .. HeapEnd
    BY <1>0 DEF Shape
  <2>3. S \in SUBSET Nat /\ lfree \in S /\ \A x \in S : lfree <= x
    BY <1>0, <2>1, <2>2, HeapSizes DEF IsLowest
  <2>4. Min(S) = lfree
    BY <2>3, MinMaxIs
  <2>5. lfree = FirstFree(heap, 0)
    BY <2>1, <2>4 DEF FirstFree
  <2> QED BY <1>0, <2>5 DEF FreeIsJoined, Tight, Block
<1>5. StatsAreExact
  <2>1. Owned = UsedIn(heap)
    BY <1>0, OwnedIs
  <2>2. used_mem = SumOf(heap, Owned)
    BY <2>1 DEF HeapCore, Counted
  <2> QED BY <2>2 DEF StatsAreExact, SumOf
<1> QED BY <1>1, <1>2, <1>3, <1>4, <1>5 DEF HeapInv

\* For every size of the heap, every size asked for and every number of threads:
\* one thread at a time works on the heap, its blocks tile it and are joined where
\* they are free, every used one has one owner, and used_mem is what they take.
THEOREM HeapIsSound == Spec => []HeapInv
BY HeapInvariance, CoreIsHeapInv, PTL

\* For every number of threads and every size: the list of each object is exactly
\* its sleeping threads, in its order, and no field leaves its type.
THEOREM ListsAreExact == Spec => []WaitInv
<1>1. SyncInv /\ HeapCore => WaitInv
  <2> SUFFICES ASSUME SyncInv, HeapCore PROVE WaitInv
    OBVIOUS
  <2>1. WaitTypeOK /\ SemTypeOK /\ MutexTypeOK /\ EventTypeOK /\ ListIsExact /\ ListIsSorted
    BY DEF SyncInv, WaitCore, SemCore, MutexCore, MutexRecord, MutexTypeOK, EventCore
  <2>2. HeapTypeOK
    <3>1. DOMAIN heap \subseteq 0 .. HeapEnd /\ {0, HeapEnd} \subseteq DOMAIN heap /\ Shape(heap)
      BY DEF HeapCore, HeapShape, Shape
    <3>2. lfree \in 0 .. HeapEnd
      BY <3>1 DEF HeapCore, HeapShape, IsLowest
    <3>3. used_mem \in 0 .. HeapEnd
      BY <3>1, SumBound DEF HeapCore, Counted
    <3> QED BY <3>1, <3>2, <3>3 DEF HeapTypeOK, HeapCore, HeapShape
  <2> QED BY <2>1, <2>2 DEF WaitInv, TypeOK
<1> QED BY <1>1, HeapInvariance, PTL

\* For every size of the heap: the memory of a block in use changes only by the
\* rt_realloc of it, and rt_malloc fails only when no free block is large enough,
\* or only the last one is, and that one exactly.
THEOREM HeapKeepsItsPromise == Spec => HeapPromise
<1> DEFINE A == \A a \in Owned \cap Owned' :
                   \/ a \in DOMAIN heap' /\ heap'[a].next = heap[a].next
                   \/ \E t \in HeapUser : HeapRealloc(t) /\ job[t].at = a
           R == \A t \in HeapUser : HeapMalloc(t) /\ owners' = owners =>
                   \A a \in Block : ~ heap[a].used /\ DataSize(a) >= Least(job[t].size) =>
                       heap[a].next = HeapEnd /\ DataSize(a) = Least(job[t].size)
<1>1. SyncInv /\ HeapCore /\ [Next]_vars => A
  <2> SUFFICES ASSUME SyncInv, HeapCore, [Next]_vars PROVE A
    OBVIOUS
  <2>1. HeapCore' /\ Untouched
    BY HeapNext
  <2>2. Owned = UsedIn(heap)
    BY OwnedIs DEF HeapCore
  <2>3. HeapShape' => (Owned = UsedIn(heap))'
    BY OwnedIs, PTL
  <2>4. Owned' = UsedIn(heap') /\ UsedIn(heap') \subseteq DOMAIN heap'
    BY <2>1, <2>3 DEF HeapCore, UsedIn
  <2> QED BY <2>1, <2>2, <2>4 DEF Untouched
<1>2. SyncInv /\ HeapCore => R
  <2> SUFFICES ASSUME SyncInv, HeapCore, NEW t \in HeapUser, HeapMalloc(t), owners' = owners,
                      NEW a \in Block, ~ heap[a].used, NEW n, n = Least(job[t].size), DataSize(a) >= n
               PROVE  heap[a].next = HeapEnd /\ DataSize(a) = n
    OBVIOUS
  <2>1. kind = "heap"
    BY DEF HeapMalloc, Holding, HeapCore, LockInv
  <2>2. Found(n) = {}
    BY <2>1, HeapMallocKeeps
  <2>3. n \in Nat
    BY HeapSizes DEF HeapCore, LockInv, Jobs, Least
  <2>4. a >= lfree /\ a \in Nat /\ heap[a].next \in Nat /\ heap[a].next <= HeapEnd
    BY HeapSizes DEF HeapCore, HeapShape, IsLowest, Shape, Block
  <2>5. ~ (a < MemSize - n)
    BY <2>2, <2>4 DEF Found, Fits
  <2> QED BY <2>3, <2>4, <2>5, HeapSizes DEF DataSize
<1>3. Spec => [][A]_heapVars
  <2>1. SyncInv /\ HeapCore /\ [Next]_vars => [A]_heapVars
    BY <1>1
  <2> QED BY <2>1, HeapInvariance, PTL DEF Spec
<1>4. Spec => [][R]_heapVars
  <2>1. SyncInv /\ HeapCore => [R]_heapVars
    BY <1>2
  <2> QED BY <2>1, HeapInvariance, PTL DEF Spec
<1> QED BY <1>3, <1>4 DEF HeapPromise, OthersUntouched, RefusedOnlyIfFull
=============================================================================
