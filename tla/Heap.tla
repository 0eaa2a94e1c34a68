-------------------------------- MODULE Heap --------------------------------
(***************************************************************************)
(* The heap (rt-thread/src/mem.c, the small-memory allocator): a chain of  *)
(* blocks, each with a header in front, searched from the lowest free one. *)
(*                                                                         *)
(* Addresses are offsets from heap_ptr, and all sizes are in units of      *)
(* RT_ALIGN_SIZE bytes, to which the code rounds every request up.  Each   *)
(* section between taking and releasing heap_sem is one step.  rt_realloc  *)
(* has three of them when it moves a block, and other threads come in      *)
(* between.                                                                *)
(*                                                                         *)
(* A thread frees and resizes only blocks it was given (the rest is kept   *)
(* out by the assertions on `used` and `magic`).  rt_calloc is rt_malloc   *)
(* of a product; rt_realloc is rt_malloc when there is no block and        *)
(* rt_free when the new size is 0; a request of size 0, or one that is     *)
(* refused, changes nothing and is no step.                                *)
(***************************************************************************)
EXTENDS Integers, FiniteSetsExt

CONSTANTS
    Threads,
    HeaderSize,     \* SIZEOF_STRUCT_MEM
    MinSize,        \* MIN_SIZE_ALIGNED
    MemSize,        \* mem_size_aligned
    Sizes           \* sizes that are asked for

ASSUME HeaderAssumption == HeaderSize \in Nat \ {0}
ASSUME MinSizeAssumption == MinSize \in Nat \ {0} /\ MinSize <= MemSize
ASSUME MemSizeAssumption == MemSize \in Nat
ASSUME SizesAssumption == Sizes \subseteq 1 .. MemSize

VARIABLES
    mem,        \* address of a header -> struct heap_mem
    lfree,
    used_mem,
    max_mem,
    held,       \* address of a block -> who was given it, for which size
    move        \* thread -> its call of rt_realloc that moves a block

vars == <<mem, lfree, used_mem, max_mem, held, move>>

heap_end == MemSize + HeaderSize

Blocks == DOMAIN mem

\* The bytes of a block behind its header.
Room(p) == mem[p].next - (p + HeaderSize)

NoMove == [pc |-> "none", rmem |-> 0, size |-> 0, newsize |-> 0, nmem |-> 0]

\* rt_system_heap_init: one free block, and the end.
Init ==
    /\ mem = [p \in {0, heap_end} |->
                IF p = 0 THEN [used |-> FALSE, next |-> heap_end, prev |-> 0]
                ELSE [used |-> TRUE, next |-> heap_end, prev |-> heap_end]]
    /\ lfree = 0
    /\ used_mem = 0
    /\ max_mem = 0
    /\ held = [p \in {} |-> 0]
    /\ move = [t \in Threads |-> NoMove]

-----------------------------------------------------------------------------
(***************************************************************************)
(* The chain.                                                              *)
(***************************************************************************)

\* Mutant: the block behind keeps its link to the block in front.
SplitAt_OldPrev(p, size, used) ==
    LET ptr2 == p + HeaderSize + size IN
    [q \in Blocks \cup {ptr2} |->
        CASE q = p    -> [mem[p] EXCEPT !.next = ptr2, !.used = used]
          [] q = ptr2 -> [used |-> FALSE, next |-> mem[p].next, prev |-> p]
          [] OTHER    -> mem[q]]

\* Cut block p behind size: a free block takes the rest.
SplitAt(p, size, used) ==
    LET ptr2 == p + HeaderSize + size IN
    [q \in Blocks \cup {ptr2} |->
        CASE q = p    -> [mem[p] EXCEPT !.next = ptr2, !.used = used]
          [] q = ptr2 -> [used |-> FALSE, next |-> mem[p].next, prev |-> p]
          [] q = mem[p].next /\ q # heap_end -> [mem[q] EXCEPT !.prev = ptr2]
          [] OTHER    -> mem[q]]

\* Mutant: the links are not led past the header that is taken out.
Merge_OldNext(m, p, n) ==
    [q \in DOMAIN m \ {n} |-> IF q = m[n].next THEN [m[q] EXCEPT !.prev = p] ELSE m[q]]

\* Take header n out of the chain m; its block becomes part of block p.
Merge(m, p, n) ==
    [q \in DOMAIN m \ {n} |->
        CASE q = p         -> [m[p] EXCEPT !.next = m[n].next]
          [] q = m[n].next -> [m[q] EXCEPT !.prev = p]
          [] OTHER         -> m[q]]

\* The two halves of plug_holes.  A heap is [mem, lfree].
PlugForward(h, p) ==
    LET n == h.mem[p].next IN
    IF n # p /\ ~h.mem[n].used /\ n # heap_end
    THEN [mem |-> Merge(h.mem, p, n), lfree |-> IF h.lfree = n THEN p ELSE h.lfree]
    ELSE h

\* Mutant: only the block behind is looked at.
PlugBackward_Not(h, p) == h

PlugBackward(h, p) ==
    LET q == h.mem[p].prev IN
    IF q # p /\ ~h.mem[q].used
    THEN [mem |-> Merge(h.mem, q, p), lfree |-> IF h.lfree = p THEN q ELSE h.lfree]
    ELSE h

plug_holes(h, p) == PlugBackward(PlugForward(h, p), p)

-----------------------------------------------------------------------------
(***************************************************************************)
(* rt_malloc.                                                              *)
(***************************************************************************)
AtLeastMin(size) == IF size < MinSize THEN MinSize ELSE size

\* Mutant: the search ends a header too early.
Searched_Short(size) == {p \in Blocks : p >= lfree /\ p + HeaderSize < MemSize - size}

\* The blocks the loop comes to, from the lowest free one up.
Searched(size) == {p \in Blocks : p >= lfree /\ p < MemSize - size}

\* Mutant: the header of the block is taken for room.
Fitting_WithHeader(size) ==
    {p \in Searched(size) : ~mem[p].used /\ mem[p].next - p >= size}

Fitting(size) == {p \in Searched(size) : ~mem[p].used /\ Room(p) >= size}

Splits(p, size) == Room(p) >= size + HeaderSize + MinSize

\* The first block that fits is taken.
Allocate(size) ==
    LET p == Min(Fitting(size)) IN
    /\ Fitting(size) # {}
    /\ mem' = IF Splits(p, size) THEN SplitAt(p, size, TRUE)
              ELSE [mem EXCEPT ![p].used = TRUE]
    /\ used_mem' = used_mem + (IF Splits(p, size) THEN size + HeaderSize
                               ELSE mem[p].next - p)
    /\ max_mem' = Max({max_mem, used_mem'})
    /\ lfree' = IF p # lfree THEN lfree
                ELSE Min({q \in DOMAIN mem' : q >= lfree
                                              /\ (~mem'[q].used \/ q = heap_end)})

rt_malloc(t, size) ==
    /\ move[t].pc = "none"
    /\ Allocate(AtLeastMin(size))
    /\ held' = [p \in DOMAIN held \cup {Min(Fitting(AtLeastMin(size)))} |->
                  IF p \in DOMAIN held THEN held[p] ELSE [owner |-> t, size |-> size]]
    /\ UNCHANGED move

(***************************************************************************)
(* rt_free.                                                                *)
(***************************************************************************)

\* Mutant: the lowest free block is not looked after.
LowestAfterFree_Old(p) == lfree

LowestAfterFree(p) == IF p < lfree THEN p ELSE lfree

Release(p) ==
    LET h == plug_holes([mem   |-> [mem EXCEPT ![p].used = FALSE],
                         lfree |-> LowestAfterFree(p)], p)
    IN  /\ mem' = h.mem
        /\ lfree' = h.lfree
        /\ used_mem' = used_mem - (mem[p].next - p)
        /\ held' = [q \in DOMAIN held \ {p} |-> held[q]]
        /\ UNCHANGED max_mem

rt_free(t, p) ==
    /\ move[t].pc = "none"
    /\ held[p].owner = t
    /\ Release(p)
    /\ UNCHANGED move

-----------------------------------------------------------------------------
(***************************************************************************)
(* rt_realloc of block p to newsize.                                       *)
(***************************************************************************)
Shrinks(p, newsize) == newsize + HeaderSize + MinSize < Room(p)

\* Mutant: the statistics are left alone.
UsedAfterShrink_Old(p, newsize) == used_mem

UsedAfterShrink(p, newsize) == used_mem - (Room(p) - newsize)

\* The block stays where it is: it has the size already, or it is cut.
ReallocInPlace(t, p, newsize) ==
    /\ move[t].pc = "none"
    /\ held[p].owner = t
    /\ \/ /\ Room(p) = newsize
          /\ UNCHANGED <<mem, lfree, used_mem>>
       \/ /\ Room(p) # newsize /\ Shrinks(p, newsize)
          /\ LET ptr2 == p + HeaderSize + newsize
                 h == plug_holes([mem   |-> SplitAt(p, newsize, mem[p].used),
                                  lfree |-> LowestAfterFree(ptr2)], ptr2)
             IN mem' = h.mem /\ lfree' = h.lfree
          /\ used_mem' = UsedAfterShrink(p, newsize)
    /\ held' = [held EXCEPT ![p].size = newsize]
    /\ UNCHANGED <<max_mem, move>>

\* Otherwise its size is noted and heap_sem is released ...
ReallocMove(t, p, newsize) ==
    /\ move[t].pc = "none"
    /\ held[p].owner = t
    /\ Room(p) # newsize /\ ~Shrinks(p, newsize)
    /\ move' = [move EXCEPT ![t] = [pc |-> "malloc", rmem |-> p, size |-> Room(p),
                                    newsize |-> newsize, nmem |-> 0]]
    /\ UNCHANGED <<mem, lfree, used_mem, max_mem, held>>

\* ... a new block is allocated (without one the caller keeps the old) ...
ReallocMalloc(t) ==
    LET size == AtLeastMin(move[t].newsize) IN
    /\ move[t].pc = "malloc"
    /\ \/ /\ Allocate(size)
          /\ move' = [move EXCEPT ![t].pc = "free", ![t].nmem = Min(Fitting(size))]
          /\ held' = [p \in DOMAIN held \cup {Min(Fitting(size))} |->
                        IF p \in DOMAIN held THEN held[p]
                        ELSE [owner |-> t, size |-> move[t].newsize]]
       \/ /\ Fitting(size) = {}
          /\ move' = [move EXCEPT ![t] = NoMove]
          /\ UNCHANGED <<mem, lfree, used_mem, max_mem, held>>

\* ... the data are copied, and the old block is freed.
ReallocFree(t) ==
    /\ move[t].pc = "free"
    /\ Release(move[t].rmem)
    /\ move' = [move EXCEPT ![t] = NoMove]

-----------------------------------------------------------------------------
Next ==
    \E t \in Threads :
        \/ \E size \in Sizes : rt_malloc(t, size)
        \/ \E p \in DOMAIN held : rt_free(t, p)
        \/ \E p \in DOMAIN held, newsize \in Sizes :
              ReallocInPlace(t, p, newsize) \/ ReallocMove(t, p, newsize)
        \/ ReallocMalloc(t)
        \/ ReallocFree(t)

Spec == Init /\ [][Next]_vars

-----------------------------------------------------------------------------
(***************************************************************************)
(* Type invariant.                                                         *)
(***************************************************************************)
TypeOK ==
    /\ Blocks \subseteq 0 .. heap_end
    /\ {0, heap_end} \subseteq Blocks
    /\ \A p \in Blocks : mem[p] \in [used : BOOLEAN, next : Blocks, prev : 0 .. heap_end]
    /\ lfree \in Blocks
    /\ used_mem \in 0 .. heap_end
    /\ max_mem \in used_mem .. heap_end
    /\ DOMAIN held \subseteq Blocks
    /\ \A p \in DOMAIN held : held[p] \in [owner : Threads, size : Sizes]
    /\ \A t \in Threads :
          /\ move[t].pc \in {"none", "malloc", "free"}
          /\ move[t].rmem \in Blocks /\ move[t].nmem \in Blocks

(***************************************************************************)
(* The chain covers the heap: from each block next leads to the block      *)
(* behind it and prev back (that of heap_end is not kept up), nothing lies *)
(* between the two, and there is room for data.  So no two blocks overlap  *)
(* and none is lost, whatever was split and merged in which order.         *)
(***************************************************************************)
ChainOK ==
    \A p \in Blocks \ {heap_end} :
        /\ mem[p].next > p + HeaderSize
        /\ \A q \in Blocks : ~ (p < q /\ q < mem[p].next)
        /\ mem[p].next # heap_end => mem[mem[p].next].prev = p
        /\ p = 0 => mem[p].prev = 0

(***************************************************************************)
(* "plug_holes should have take care of this" (rt_malloc): no two free     *)
(* blocks lie side by side, also after a block was cut by rt_realloc.      *)
(***************************************************************************)
Coalesced ==
    \A p \in Blocks \ {heap_end} : mem[p].used \/ mem[mem[p].next].used

(***************************************************************************)
(* lfree is what its comment says, the "pointer to the lowest free block", *)
(* or heap_end when all memory is in use: a search from there misses       *)
(* nothing.                                                                *)
(***************************************************************************)
LowestFree == lfree = Min({p \in Blocks : ~mem[p].used} \cup {heap_end})

(***************************************************************************)
(* The used blocks are those the threads were given, each of them with     *)
(* room for the size that was asked for; and the copy of rt_realloc, whose *)
(* length was read before heap_sem was released, stays inside both blocks. *)
(***************************************************************************)
HeldBlocks ==
    /\ DOMAIN held = {p \in Blocks \ {heap_end} : mem[p].used}
    /\ \A p \in DOMAIN held : Room(p) >= held[p].size
    /\ \A t \in Threads : move[t].pc = "free" =>
          /\ Room(move[t].rmem) = move[t].size
          /\ Room(move[t].nmem) >= move[t].newsize

(***************************************************************************)
(* What rt_memory_info reports as used is what the used blocks and their   *)
(* headers take.                                                           *)
(***************************************************************************)
StatsRight ==
    used_mem = MapThenSumSet(LAMBDA p : mem[p].next - p,
                             {p \in Blocks \ {heap_end} : mem[p].used})

(***************************************************************************)
(* rt_malloc returns "NULL if no free memory was found", with one          *)
(* exception: the last block is passed over when it would be filled        *)
(* exactly, because the loop ends at ptr < mem_size_aligned - size.        *)
(***************************************************************************)
RefusedAtTheEndOnly ==
    \A size \in MinSize .. MemSize : Fitting(size) = {} =>
        \A p \in Blocks : ~mem[p].used /\ Room(p) >= size =>
            mem[p].next = heap_end /\ Room(p) = size
=============================================================================
