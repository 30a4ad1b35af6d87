----------------------------------- MODULE Heap -----------------------------------
(***************************************************************************)
(* The small-memory heap of rt-thread/src/mem.c: rt_system_heap_init,       *)
(* rt_malloc, rt_realloc, rt_free.  A block begins with a header that says  *)
(* whether it is used and where the next and the previous one begin.  The   *)
(* heap holds a header exactly where a block begins; sizes and offsets are  *)
(* counted in units of RT_ALIGN_SIZE.                                       *)
(*                                                                         *)
(* Each section that holds heap_sem is one step.  rt_realloc gives the      *)
(* semaphore up between the look at the old block, rt_malloc and rt_free.   *)
(***************************************************************************)
EXTENDS Integers, FiniteSets, Functions, FiniteSetsExt

CONSTANTS HeapSize,    \* mem_size_aligned
          Hdr,         \* SIZEOF_STRUCT_MEM
          MinSize,     \* MIN_SIZE_ALIGNED
          Sizes,       \* the sizes asked for
          HeapUsers,   \* the threads that use the heap
          Null         \* RT_NULL

ASSUME HeapAssumption ==
    /\ HeapSize \in Nat /\ Hdr \in Nat \ {0} /\ MinSize \in 1..HeapSize
    /\ Sizes \subseteq Nat \ {0} /\ Null \notin 0..HeapSize

VARIABLES mem,         \* the headers: offset -> [used, next, prev]
          lfree,       \* the offset of the lowest free block
          live,        \* history: offset -> the size its user asked for
          moving       \* the rt_realloc of each thread: the block it moves and the new one

heapVars == <<mem, lfree, live, moving>>

End == HeapSize + Hdr                  \* heap_end
NotMoving == [old |-> Null, new |-> Null, size |-> 0]

HeapInit ==
    /\ mem = [p \in {0, End} |-> IF p = 0 THEN [used |-> FALSE, next |-> End, prev |-> 0]
                                 ELSE [used |-> TRUE, next |-> End, prev |-> End]]
    /\ lfree = 0
    /\ live = [p \in {} |-> 0]
    /\ moving = [u \in HeapUsers |-> NotMoving]

\* The size of the data of the block at p.
Data(m, p) == m[p].next - (p + Hdr)

-----------------------------------------------------------------------------
(* plug_holes(mem) *)

\* The block after p is absorbed by p.
Merge(m, p) ==
    LET n == m[p].next
    IN  [q \in DOMAIN m \ {n} |->
            CASE q = p         -> [m[p] EXCEPT !.next = m[n].next]
              [] q = m[n].next -> [m[q] EXCEPT !.prev = p]
              [] OTHER         -> m[q]]

\* Seeded fault: only the following block is merged.
PlugForward(m, low, p) ==
    LET n == m[p].next
    IN  IF ~m[n].used /\ n # End
        THEN [mem |-> Merge(m, p), lfree |-> IF low = n THEN p ELSE low]
        ELSE [mem |-> m, lfree |-> low]

\* The free block p is merged with the next and with the previous one.
PlugHoles(m, low, p) ==
    LET n  == m[p].next
        forward == ~m[n].used /\ n # End
        m1 == IF forward THEN Merge(m, p) ELSE m
        l1 == IF forward /\ low = n THEN p ELSE low
        q  == m1[p].prev
    IN  IF q # p /\ ~m1[q].used
        THEN [mem |-> Merge(m1, q), lfree |-> IF l1 = p THEN q ELSE l1]
        ELSE [mem |-> m1, lfree |-> l1]

-----------------------------------------------------------------------------
(* rt_malloc(size) *)

Smallest(size) == IF size < MinSize THEN MinSize ELSE size

\* The blocks at which the loop from lfree may stop.  The last possible place,
\* where the block would end the heap, is not looked at.
Fits(m, low, size) ==
    {p \in DOMAIN m : low <= p /\ p < HeapSize - size /\ ~m[p].used /\ Data(m, p) >= size}

\* The block at p is used up to size, and split if the rest can hold a block.
Split(m, p, size) ==
    LET r == p + Hdr + size
    IN  [q \in DOMAIN m \cup {r} |->
            CASE q = p                          -> [m[p] EXCEPT !.next = r]
              [] q = r                          -> [used |-> FALSE, next |-> m[p].next, prev |-> p]
              [] q = m[p].next /\ q # End       -> [m[q] EXCEPT !.prev = r]
              [] OTHER                          -> m[q]]

Use(m, p, size) ==
    LET m1 == IF Data(m, p) >= size + Hdr + MinSize THEN Split(m, p, size) ELSE m
    IN  [m1 EXCEPT ![p].used = TRUE]

\* lfree moves to the next free block if it was the one allocated.
NextFree(m, low, p) ==
    IF p # low THEN low
    ELSE Min({q \in DOMAIN m : q >= low /\ (~m[q].used \/ q = End)})

\* Where rt_malloc(size) allocates: the first block that fits.
Found(size) == size <= HeapSize /\ Fits(mem, lfree, Smallest(size)) # {}
Best(size) == Min(Fits(mem, lfree, Smallest(size)))

\* The part of rt_malloc under heap_sem.
Allocate(size) ==
    LET p  == Best(size)
        m1 == Use(mem, p, Smallest(size))
    IN  /\ mem' = m1
        /\ lfree' = NextFree(m1, lfree, p)
        /\ live' = [q \in DOMAIN live \cup {p} |-> IF q = p THEN size ELSE live[q]]

\* A thread asks for memory; without a block that fits it gets RT_NULL.
Malloc(u, size) ==
    /\ moving[u] = NotMoving /\ Found(size)
    /\ Allocate(size)
    /\ UNCHANGED moving

-----------------------------------------------------------------------------
(* rt_free(rmem), of a block that its user has got and not given back *)

\* The part of rt_free under heap_sem.
Release(p) ==
    LET low     == IF p < lfree THEN p ELSE lfree
        plugged == PlugHoles([mem EXCEPT ![p].used = FALSE], low, p)
    IN  /\ mem' = plugged.mem /\ lfree' = plugged.lfree
        /\ live' = Restrict(live, DOMAIN live \ {p})

\* The blocks whose user is not inside a rt_realloc of them.
Settled == DOMAIN live \ UNION {{moving[u].old, moving[u].new} : u \in HeapUsers}

Free(u, p) ==
    /\ moving[u] = NotMoving /\ p \in Settled
    /\ Release(p)
    /\ UNCHANGED moving

-----------------------------------------------------------------------------
(* rt_realloc(rmem, newsize) *)

\* The block shrinks in place if the rest can hold a block.
Shrink(u, p, size) ==
    /\ moving[u] = NotMoving /\ p \in Settled
    /\ size + Hdr + MinSize < Data(mem, p)
    /\ LET r       == p + Hdr + size
           plugged == PlugHoles(Split(mem, p, size), IF r < lfree THEN r ELSE lfree, r)
       IN  mem' = plugged.mem /\ lfree' = plugged.lfree
    /\ live' = [live EXCEPT ![p] = size]
    /\ UNCHANGED moving

KeepSize(u, p, size) ==
    /\ moving[u] = NotMoving /\ p \in Settled /\ size = Data(mem, p)
    /\ live' = [live EXCEPT ![p] = size]
    /\ UNCHANGED <<mem, lfree, moving>>

\* Otherwise, larger or not, it is moved: rt_sem_release ...
MoveBegin(u, p, size) ==
    /\ moving[u] = NotMoving /\ p \in Settled /\ size <= HeapSize
    /\ size # Data(mem, p) /\ size + Hdr + MinSize >= Data(mem, p)
    /\ moving' = [moving EXCEPT ![u] = [old |-> p, new |-> Null, size |-> size]]
    /\ UNCHANGED <<mem, lfree, live>>

\* ... rt_malloc, and if there is no memory RT_NULL with the old block kept ...
MoveMalloc(u) ==
    /\ moving[u].old # Null /\ moving[u].new = Null
    /\ IF Found(moving[u].size)
       THEN /\ Allocate(moving[u].size)
            /\ moving' = [moving EXCEPT ![u].new = Best(moving[u].size)]
       ELSE /\ moving' = [moving EXCEPT ![u] = NotMoving]
            /\ UNCHANGED <<mem, lfree, live>>

\* ... and rt_free of the old block.
MoveFree(u) ==
    /\ moving[u].new # Null
    /\ Release(moving[u].old)
    /\ moving' = [moving EXCEPT ![u] = NotMoving]

HeapNext ==
    \E u \in HeapUsers :
        \/ \E size \in Sizes : Malloc(u, size)
        \/ \E p \in DOMAIN live :
              \/ Free(u, p)
              \/ \E size \in Sizes :
                    Shrink(u, p, size) \/ KeepSize(u, p, size) \/ MoveBegin(u, p, size)
        \/ MoveMalloc(u) \/ MoveFree(u)

HeapSpec == HeapInit /\ [][HeapNext]_heapVars

-----------------------------------------------------------------------------
(* Properties *)

\* The headers form one chain in the order of their offsets from the start of
\* the heap to its end, and lead back the same way.
BlocksTile ==
    /\ {0, End} \subseteq DOMAIN mem /\ DOMAIN mem \subseteq 0..End
    /\ \A p \in DOMAIN mem \ {End} :
          /\ mem[p].next = Min({q \in DOMAIN mem : q > p})
          /\ p + Hdr <= mem[p].next
          /\ IF p = 0 THEN mem[p].prev = 0
             ELSE mem[p].prev \in DOMAIN mem /\ mem[mem[p].prev].next = p
    /\ mem[End].used /\ mem[End].next = End

\* "pointer to the lowest free block", and no two free blocks in a row
\* ("plug_holes should have take care of this"): a block that fits is never
\* below lfree, nor cut in two.
FreeBlocksKnown ==
    /\ lfree = Min({p \in DOMAIN mem : ~mem[p].used \/ p = End})
    /\ \A p \in DOMAIN mem \ {End} : mem[p].used \/ mem[mem[p].next].used

\* Every block a user has is used and holds at least what was asked for, so that
\* no two users share memory; and no block is used that nobody has.
LiveIntact ==
    /\ DOMAIN live = {p \in DOMAIN mem \ {End} : mem[p].used}
    /\ \A p \in DOMAIN live : live[p] <= Data(mem, p)

\* The heap is intact after every operation, whatever the order in which blocks
\* are split, merged, shrunk and moved by rt_malloc, rt_realloc and rt_free.
HeapIntact == BlocksTile /\ FreeBlocksKnown /\ LiveIntact
=============================================================================
