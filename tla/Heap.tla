-------------------------------- MODULE Heap --------------------------------
(***************************************************************************)
(* The heap of src/rt-thread/src/mem.c (RT_USING_SMALL_MEM): blocks in the *)
(* order of their addresses, each behind a header that links it to the     *)
(* next and to the previous one; first fit from the lowest free block,     *)
(* neighbours are joined when one is freed.  Every operation runs while    *)
(* its thread holds heap_sem, a semaphore of value 1; rt_realloc may hold  *)
(* it three times.                                                         *)
(*                                                                         *)
(* Addresses are offsets from heap_ptr and sizes are aligned, both counted *)
(* in units of RT_ALIGN_SIZE.  The field prev of heap_end, which is never  *)
(* read, max_mem and the magic word are left out.                          *)
(***************************************************************************)
EXTENDS Semaphore, FiniteSetsExt

CONSTANTS HeapUser,    \* the threads that allocate
          SizeofMem,   \* SIZEOF_STRUCT_MEM
          MinSize,     \* MIN_SIZE_ALIGNED
          MemSize,     \* mem_size_aligned
          AskedSize    \* the sizes asked for, aligned

ASSUME HeapAssumption == /\ HeapUser \subseteq Thread
                         /\ SizeofMem \in Nat \ {0} /\ MinSize \in Nat \ {0}
                         /\ MemSize \in Nat /\ MemSize > MinSize
                         /\ AskedSize \subseteq Nat \ {0}

HeapEnd == MemSize + SizeofMem

VARIABLES heap,        \* heap[a]: the header at a
          lfree,       \* the lowest free block
          used_mem,
          job,         \* job[t]: what t does with the heap, and whether it has heap_sem
          owners       \* history: owners[a], how often a was returned and not given back

heapVars == <<heap, lfree, used_mem, job, owners>>

NoJob == [op |-> "none", size |-> 0, at |-> HeapEnd, held |-> FALSE]

HeapInit ==
    /\ heap = [a \in {0, HeapEnd} |-> [used |-> a = HeapEnd, next |-> HeapEnd, prev |-> a]]
    /\ lfree = 0
    /\ used_mem = 0
    /\ job = [t \in HeapUser |-> NoJob]
    /\ owners = [a \in 0 .. HeapEnd |-> 0]

Block        == DOMAIN heap \ {HeapEnd}
Owned        == {a \in DOMAIN owners : owners[a] > 0}
DataSize(a)  == heap[a].next - (a + SizeofMem)
Least(n)     == IF n < MinSize THEN MinSize ELSE n

-----------------------------------------------------------------------------
(* heap_sem.                                                               *)

\* a call: rt_sem_take(&heap_sem, RT_WAITING_FOREVER)
Lock(t, j) ==
    /\ Enter(t, Timed("take", "forever"))
    /\ job' = [job EXCEPT ![t] = j]
    /\ UNCHANGED <<heap, lfree, used_mem, owners>>

\* what threads allocate, free and resize; a block is given back by one thread
Free(a) == a \in Owned /\ \A u \in HeapUser : job[u].op # "none" => job[u].at # a

HeapCall(t) ==
    /\ t \in HeapUser /\ job[t] = NoJob
    /\ \/ \E n \in AskedSize :
             n <= MemSize /\ Lock(t, [NoJob EXCEPT !.op = "malloc", !.size = Least(n)])
       \/ \E a \in Owned : Free(a) /\ Lock(t, [NoJob EXCEPT !.op = "free", !.at = a])
       \/ \E a \in Owned, n \in AskedSize :
             /\ n <= MemSize /\ Free(a)
             /\ Lock(t, [NoJob EXCEPT !.op = "realloc", !.at = a, !.size = n])
    /\ UNCHANGED semVars

\* rt_realloc calls rt_malloc, and then rt_free
HeapAgain(t) ==
    /\ job[t].op \in {"grow", "drop"} /\ ~ job[t].held
    /\ Lock(t, job[t])
    /\ UNCHANGED semVars

\* t holds heap_sem: it was taken, or handed over to t
Holding(t) == pc[t] = "idle" /\ job[t].held

\* t leaves with what is left to do, and calls rt_sem_release
Leave(t, j) ==
    /\ Enter(t, Plain("release"))
    /\ job' = [job EXCEPT ![t] = j]
    /\ UNCHANGED semVars

-----------------------------------------------------------------------------
(* rt_malloc.                                                              *)

\* mutant: used blocks are not skipped
FitsUsed(a, n) == a < MemSize - n /\ DataSize(a) >= n

\* the condition of the loop, which leaves a last block of exactly n out, and
\* of the block
Fits(a, n) == a < MemSize - n /\ ~ heap[a].used /\ DataSize(a) >= n

Found(n) == {a \in Block : a >= lfree /\ Fits(a, n)}

\* block a of h is cut to n, the rest becomes a free block
Split(h, a, n) ==
    LET b    == a + SizeofMem + n
        next == h[a].next
    IN  [x \in DOMAIN h \cup {b} |->
            CASE x = a -> [h[a] EXCEPT !.next = b]
              [] x = b -> [used |-> FALSE, next |-> next, prev |-> a]
              [] x = next /\ next # HeapEnd -> [h[x] EXCEPT !.prev = b]
              [] OTHER -> h[x]]

\* block a is used for n; a rest that is worth a block is split off
Carved(a, n) ==
    LET h == [heap EXCEPT ![a].used = TRUE]
    IN  IF DataSize(a) >= n + SizeofMem + MinSize THEN Split(h, a, n) ELSE h

\* the first block from a on that is free in h, or heap_end
FirstFree(h, a) == Min({HeapEnd} \cup {x \in DOMAIN h : x >= a /\ ~ h[x].used})

\* what is left to do when rt_malloc returns: rt_realloc gives the old block
\* back if it has a new one
AfterMalloc(t, ok) == IF job[t].op = "grow" /\ ok
                      THEN [NoJob EXCEPT !.op = "drop", !.at = job[t].at] ELSE NoJob

\* mutant: only what was asked for is counted
ChargedAsked(h, a, n) == n + SizeofMem

\* what the block at a of h, given for n, adds to used_mem
Charged(h, a, n) == h[a].next - a

HeapMalloc(t) ==
    /\ Holding(t) /\ job[t].op \in {"malloc", "grow"}
    /\ LET n == Least(job[t].size) IN
       IF Found(n) = {}
       THEN /\ Leave(t, AfterMalloc(t, FALSE))
            /\ UNCHANGED <<heap, lfree, used_mem, owners>>
       ELSE LET a == Min(Found(n)) IN
            /\ Leave(t, AfterMalloc(t, TRUE))
            /\ heap' = Carved(a, n)
            /\ lfree' = IF a = lfree THEN FirstFree(heap', a) ELSE lfree
            /\ used_mem' = used_mem + Charged(heap', a, n)
            /\ owners' = [owners EXCEPT ![a] = @ + 1]

-----------------------------------------------------------------------------
(* rt_free and rt_realloc.                                                 *)

\* mutant: the block behind does not learn of it
JoinedForward(h, a, b) ==
    [x \in DOMAIN h \ {b} |-> IF x = a THEN [h[a] EXCEPT !.next = h[b].next] ELSE h[x]]

\* header b is taken out of h: the block before it, a, reaches to b's end
Joined(h, a, b) ==
    LET next == h[b].next
    IN  [x \in DOMAIN h \ {b} |->
            CASE x = a -> [h[a] EXCEPT !.next = next]
              [] x = next /\ next # HeapEnd -> [h[x] EXCEPT !.prev = a]
              [] OTHER -> h[x]]

\* mutant: the block in front is not looked at
PluggedForward(h, a) ==
    LET b == h[a].next IN IF b # HeapEnd /\ ~ h[b].used THEN Joined(h, a, b) ELSE h

\* mutant: the next block is joined though it is used
PluggedUsed(h, a) ==
    LET b == h[a].next IN IF b # HeapEnd THEN Joined(h, a, b) ELSE h

\* plug_holes, of h and the free block a
Plugged(h, a) ==
    LET b == h[a].next
        f == IF b # HeapEnd /\ ~ h[b].used THEN Joined(h, a, b) ELSE h
        p == h[a].prev
    IN  IF p # a /\ ~ f[p].used THEN Joined(f, p, a) ELSE f

\* mutant: a block that is freed below lfree is not noticed
LowestKept(h, a) == Max({x \in DOMAIN h : x <= lfree})

\* lfree after block a became free and was joined with its neighbours in h: a
\* block that was joined to the one before it stands for both
Lowest(h, a) == Max({x \in DOMAIN h : x <= Min({a, lfree})})

HeapFree(t) ==
    /\ Holding(t) /\ job[t].op \in {"free", "drop"}
    /\ LET a == job[t].at IN
       /\ heap' = Plugged([heap EXCEPT ![a].used = FALSE], a)
       /\ lfree' = Lowest(heap', a)
       /\ used_mem' = used_mem - (heap[a].next - a)
       /\ owners' = [owners EXCEPT ![a] = @ - 1]
    /\ Leave(t, NoJob)

\* the rest of a block of this size, cut to n, is worth a block.  The code asks
\* for more than the 12 bytes of MIN_SIZE behind the header: of multiples of 8,
\* that is MIN_SIZE_ALIGNED
WorthSplitting(n, size) == n + SizeofMem + MinSize <= size

HeapRealloc(t) ==
    /\ Holding(t) /\ job[t].op = "realloc"
    /\ LET a    == job[t].at
           n    == job[t].size
           size == DataSize(a)
           b    == a + SizeofMem + n
       IN  \/ /\ size = n
              /\ Leave(t, NoJob)
              /\ UNCHANGED <<heap, lfree, used_mem>>
           \/ /\ size # n /\ WorthSplitting(n, size)
              /\ Leave(t, NoJob)
              /\ heap' = Plugged(Split(heap, a, n), b)
              /\ lfree' = Lowest(heap', b)
              /\ used_mem' = used_mem - (size - n)
           \/ /\ size # n /\ ~ WorthSplitting(n, size)
              /\ Leave(t, [job[t] EXCEPT !.op = "grow", !.held = FALSE])
              /\ UNCHANGED <<heap, lfree, used_mem>>
    /\ UNCHANGED owners

-----------------------------------------------------------------------------

\* a step of the semaphore; t has it when its take returns
HeapLock(t) ==
    /\ SemTake(t) \/ SemRelease(t) \/ SemReturn(t)
    /\ job' = [job EXCEPT ![t].held = (call[t].op = "take" /\ pc'[t] = "idle")]
    /\ UNCHANGED <<heap, lfree, used_mem, owners>>

HeapStep(t) ==
    /\ t \in HeapUser
    /\ HeapLock(t) \/ HeapAgain(t) \/ HeapMalloc(t) \/ HeapFree(t) \/ HeapRealloc(t)

-----------------------------------------------------------------------------
(* Properties.                                                             *)

HeapTypeOK == /\ DOMAIN heap \subseteq 0 .. HeapEnd /\ {0, HeapEnd} \subseteq DOMAIN heap
              /\ lfree \in 0 .. HeapEnd
              /\ used_mem \in 0 .. HeapEnd
              /\ owners \in [0 .. HeapEnd -> Nat]

\* One thread at a time is between its take and its release of heap_sem, by
\* whatever hand-overs it got there.
HeapIsExclusive == Cardinality({t \in HeapUser : job[t].held}) <= 1

\* The blocks tile the heap: each one ends where the next begins and knows the
\* one before it, after every split, cut and join.
BlocksTile == \A a \in Block :
    /\ heap[a].next \in DOMAIN heap /\ heap[a].next >= a + SizeofMem
    /\ \A x \in DOMAIN heap : ~ (a < x /\ x < heap[a].next)
    /\ heap[a].next # HeapEnd => heap[heap[a].next].prev = a

\* The used blocks are those that were returned and not given back: no block
\* is given to two callers, none is lost.
UsedAreOwned ==
    \A a \in 0 .. HeapEnd : owners[a] = (IF a \in Block /\ heap[a].used THEN 1 ELSE 0)

\* No two free blocks are neighbours (rt_malloc says so where it does not
\* split), and lfree is the lowest free one, or heap_end.
FreeIsJoined ==
    /\ \A a \in Block : ~ heap[a].used /\ heap[a].next # HeapEnd => heap[heap[a].next].used
    /\ lfree = FirstFree(heap, 0)

\* used_mem is what the used blocks take.
StatsAreExact == used_mem = MapThenSumSet(LAMBDA a : heap[a].next - a, Owned)

\* The heap is a tiling of free and used blocks, joined where they are free, each
\* used one with one owner, whenever heap_sem is free.
HeapInv == HeapIsExclusive /\ BlocksTile /\ UsedAreOwned /\ FreeIsJoined /\ StatsAreExact

\* The memory of a block that is in use changes only by the rt_realloc of it.
OthersUntouched ==
    [][\A a \in Owned \cap Owned' :
          \/ a \in DOMAIN heap' /\ heap'[a].next = heap[a].next
          \/ \E t \in HeapUser : HeapRealloc(t) /\ job[t].at = a]_heapVars

\* rt_malloc fails only when no free block is large enough, or only the last
\* one of the heap is, and that one exactly.
RefusedOnlyIfFull ==
    [][\A t \in HeapUser : HeapMalloc(t) /\ owners' = owners =>
          \A a \in Block : ~ heap[a].used /\ DataSize(a) >= Least(job[t].size) =>
              heap[a].next = HeapEnd /\ DataSize(a) = Least(job[t].size)]_heapVars

\* What the callers of rt_malloc, rt_realloc and rt_free rely on.
HeapPromise == OthersUntouched /\ RefusedOnlyIfFull
=============================================================================
