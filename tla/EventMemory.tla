------------------------------ MODULE EventMemory ------------------------------
(***************************************************************************)
(* The memories (source/mem.c, heap.c, static.c) and the event storage of  *)
(* source/event.c that picks one of them for a new event.  Every operation *)
(* runs in a locked section, so each is one step.  Sizes are in words; an  *)
(* address is counted from the start of its memory.                        *)
(*                                                                         *)
(* A memory is set up by the first allocation from it: vf_alloc is at      *)
(* first heap_init_alloc or static_init_alloc.                             *)
(***************************************************************************)
EXTENDS Heap, Sequences

CONSTANTS
    HeapMem,        \* the memories that are heaps
    StaticMem,      \* the static memories
    Capacity,       \* Capacity[m]: words of storage of memory m
    GenericHeap,    \* g_generic_heap_
    Sizes,          \* bound: the sizes asked for
    NPools          \* CONFIG_EVENT_STORAGE_NPOOLS

Memory == HeapMem \cup StaticMem

(* heap_init_alloc requires room for more than two blocks. *)
ASSUME MemoryAssumption ==
    /\ HeapMem \cap StaticMem = {} /\ GenericHeap \in HeapMem
    /\ Capacity \in [Memory -> Nat]
    /\ \A m \in HeapMem : Capacity[m] > 2 * Block
    /\ Sizes \subseteq Nat \ {0} /\ IsFiniteSet(Sizes)
    /\ NPools \in Nat \ {0}

VARIABLES
    ready,      \* the memories an allocation has set up
    heap,       \* heap[m]: the blocks of a heap that is ready
    size,       \* nmem.size
    free,       \* nmem.free of a static memory
    pools,      \* g_event_storage: the memories for events
    owned       \* events, state machines and storage: [mem, at, words]

vars == <<ready, heap, size, free, pools, owned>>

NoHeap == [base |-> 0, size |-> << >>, phyPrev |-> << >>, next |-> << >>, prev |-> << >>]

Init ==
    /\ ready = {}
    /\ heap = [m \in HeapMem |-> NoHeap]
    /\ size = Capacity
    /\ free = [m \in StaticMem |-> 0]
    /\ pools = << >>
    /\ owned = {}

TypeOK ==
    /\ ready \subseteq Memory
    /\ \A m \in HeapMem : heap[m].base \in Nat
    /\ size \in [Memory -> Nat] /\ free \in [StaticMem -> Nat]
    /\ pools \in Seq(Memory) /\ Len(pools) <= NPools
    /\ \A o \in owned : o.mem \in Memory /\ o.at \in Nat /\ o.words \in Sizes

--------------------------------------------------------------------------------
(* The heap that the allocation at hand finds or sets up *)
ReadyHeap(m) == IF m \in ready THEN heap[m] ELSE InitHeap(size[m])

(* heap_alloc: the first block that fits, or none *)
HeapAlloc(m, n) ==
    LET h == ReadyHeap(m)
        w == AlignUp(n)
    IN  /\ \/ \E b \in FreeBlocks(h) :
                /\ FirstFit(h, w, b)
                /\ heap' = [heap EXCEPT ![m] = Alloc(h, b, w)]
                /\ owned' = owned \cup {[mem |-> m, at |-> b + Phy, words |-> n]}
           \/ /\ \A b \in FreeBlocks(h) : ~FirstFit(h, w, b)
              /\ heap' = [heap EXCEPT ![m] = h]
              /\ UNCHANGED owned
        /\ size' = IF m \in ready THEN size ELSE [size EXCEPT ![m] = h.size[0]]
        /\ UNCHANGED free

(* Variant for sensitivity: the end of the words that are left is returned. *)
StaticAllocEnd(m, n) ==
    LET left == IF m \in ready THEN free[m] ELSE size[m]
    IN  /\ free' = [free EXCEPT ![m] = IF n <= left THEN left - n ELSE left]
        /\ owned' = IF n <= left THEN owned \cup {[mem |-> m, at |-> left, words |-> n]}
                                 ELSE owned
        /\ UNCHANGED <<heap, size>>

(* static_alloc: from the end of the memory down *)
StaticAlloc(m, n) ==
    LET left == IF m \in ready THEN free[m] ELSE size[m]
    IN  /\ free' = [free EXCEPT ![m] = IF n <= left THEN left - n ELSE left]
        /\ owned' = IF n <= left THEN owned \cup {[mem |-> m, at |-> left - n, words |-> n]}
                                 ELSE owned
        /\ UNCHANGED <<heap, size>>

(* nmem_alloc_i *)
AllocIn(m, n) ==
    /\ IF m \in HeapMem THEN HeapAlloc(m, n) ELSE StaticAlloc(m, n)
    /\ ready' = ready \cup {m}
    /\ UNCHANGED pools

(* nmem_free_i of a heap; a static memory takes nothing back. *)
FreeIn(m, o) ==
    /\ m \in HeapMem
    /\ heap' = [heap EXCEPT ![m] = Free(heap[m], o.at - Phy)]
    /\ owned' = owned \ {o}
    /\ UNCHANGED <<ready, size, free, pools>>

--------------------------------------------------------------------------------
(* Variant for sensitivity: the memory goes one place too far to the front. *)
InsertPoolEarly(m) ==
    LET i == CHOOSE c \in 0 .. Len(pools) :
               /\ c = 0 \/ size[pools[c]] < size[m]
               /\ \A d \in c + 1 .. Len(pools) : size[pools[d]] >= size[m]
        j == IF i > 0 THEN i - 1 ELSE 0
    IN  SubSeq(pools, 1, j) \o <<m>> \o SubSeq(pools, j + 1, Len(pools))

(* The loop of nevent_register_mem: a memory goes behind the last one that *)
(* is not larger, counting from the end.                                   *)
InsertPool(m) ==
    LET i == CHOOSE c \in 0 .. Len(pools) :
               /\ c = 0 \/ size[pools[c]] <= size[m]
               /\ \A d \in c + 1 .. Len(pools) : size[pools[d]] > size[m]
    IN  SubSeq(pools, 1, i) \o <<m>> \o SubSeq(pools, i + 1, Len(pools))

(* nevent_register_mem *)
RegisterMem(m) ==
    /\ Len(pools) < NPools /\ \A i \in 1 .. Len(pools) : pools[i] # m
    /\ pools' = InsertPool(m)
    /\ UNCHANGED <<ready, heap, size, free, owned>>

(* find_memory_i: the first memory whose size is enough, or the last *)
FindMemory(n) ==
    pools[CHOOSE i \in 1 .. Len(pools) :
            /\ i = Len(pools) \/ size[pools[i]] >= n
            /\ \A j \in 1 .. i - 1 : size[pools[j]] < n]

(* nevent_create, nevent_create_i *)
Create(n) == pools # << >> /\ AllocIn(FindMemory(n), n)

(* nevent_create_from_i *)
CreateFrom(m, n) == AllocIn(m, n)

(* nevent_forward of an event that has a memory *)
Forward(o) == AllocIn(o.mem, o.words)

(* nsm_alloc; nepa_create_storage takes the memory of the agent, or the    *)
(* generic heap for an agent that has none.                                *)
AllocMachine(m, n) == AllocIn(m, n)
CreateStorage(n) == AllocIn(GenericHeap, n)

(* nevent_destroy_i of an event nobody refers to, nsm_free: the object is  *)
(* given back to the memory it came from.                                  *)
Destroy(o) == FreeIn(o.mem, o)

Next ==
    \/ \E m \in HeapMem : RegisterMem(m)
    \/ \E n \in Sizes :
         \/ Create(n) \/ CreateStorage(n)
         \/ \E m \in Memory : CreateFrom(m, n) \/ AllocMachine(m, n)
    \/ \E o \in owned : Forward(o) \/ Destroy(o)

Spec == Init /\ [][Next]_vars

--------------------------------------------------------------------------------
Heaps == HeapMem \cap ready

(* The blocks of every heap lie end to end from its start to its sentinel, *)
(* each pointing back to the one before, and no two neighbours are free,   *)
(* whatever mix of splits and merges made them (heap.c:86-110, 147-180).   *)
HeapsTiled ==
    \A m \in Heaps : Tiled(heap[m]) /\ heap[m].base = Capacity[m] - Block

(* The free list of every heap is one ring through the sentinel and all    *)
(* free blocks.                                                            *)
FreeListIsRing ==
    \A m \in Heaps :
        LET h == heap[m]
            n == Cardinality(FreeBlocks(h))
            list == FreeList(h, n)
        IN  /\ Linked(h) /\ list[n] = h.base
            /\ {list[i] : i \in 0 .. n - 1} = FreeBlocks(h)

(* The allocated blocks of a heap are those of the objects in it: none is  *)
(* lost, none is in use twice, none is smaller than what was asked for.    *)
BlocksAreOwned ==
    \A m \in Heaps :
        LET mine == {o \in owned : o.mem = m}
        IN  /\ InUse(heap[m]) = {o.at - Phy : o \in mine}
            /\ \A o \in mine : Words(heap[m], o.at - Phy) >= o.words
            /\ \A o, p \in mine : o.at = p.at => o = p

(* An allocation is refused only when no run of words outside the blocks   *)
(* in use is long enough: free neighbours are merged and found.            *)
NoRoomIsWasted ==
    \A m \in Heaps, n \in Sizes :
        LET h == heap[m]
            w == AlignUp(n)
            taken == UNION {b .. After(h, b) - 1 : b \in InUse(h)}
            room == \E x \in 0 .. h.base - w - Phy :
                      (x .. x + w + Phy - 1) \cap taken = {}
        IN  room => \E b \in FreeBlocks(h) : FirstFit(h, w, b)

(* A new event comes from the smallest memory that is large enough, and    *)
(* from the largest when none is, also after allocations have changed the  *)
(* sizes the table was sorted by, as long as they differ by more than what *)
(* a heap keeps for itself (event.c:124-133, 155-165).                     *)
SmallestIsPicked ==
    \A n \in Sizes : \A i \in 1 .. Len(pools) :
        LET picked == size[FindMemory(n)]
        IN  IF picked >= n THEN size[pools[i]] >= n => picked <= size[pools[i]]
                           ELSE size[pools[i]] <= picked

(* The memories implement Allocator: objects never share a word. *)
Objects == INSTANCE Allocator
ImplementsAllocator == Objects!Spec
================================================================================
