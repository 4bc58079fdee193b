---------------------------------- MODULE Heap ---------------------------------
(***************************************************************************)
(* The heap of source/heap.c: blocks with a boundary tag, free ones on a   *)
(* circular list.  Addresses and sizes are in words of a pointer; a block  *)
(* is two words of tag, struct heap_phy, and its memory, whose first two   *)
(* words are the links of a free block.                                    *)
(*                                                                         *)
(* A heap h has the fields                                                 *)
(*   base     the sentinel, the last block, which is never free            *)
(*   size     size[b]: words of block b, negative when it is allocated     *)
(*   phyPrev  phyPrev[b]: the block before b, of the first the sentinel    *)
(*   next, prev  the links of the free blocks and the sentinel             *)
(* Tags and links that no block has any more are not in their domains.     *)
(***************************************************************************)
EXTENDS Integers, FiniteSets

Phy == 2            \* sizeof(struct heap_phy)
Block == 4          \* sizeof(struct heap_block)

(* Variant for sensitivity: rounded down. *)
AlignDown(n) == n - (n % Phy)

(* NALIGN_UP(size, sizeof(struct heap_phy)) *)
AlignUp(n) == n + (n % Phy)

Words(h, b) == IF h.size[b] < 0 THEN -h.size[b] ELSE h.size[b]
After(h, b) == b + Words(h, b) + Phy

Blocks(h) == DOMAIN h.size \ {h.base}
IsFree(h, b) == h.size[b] > 0
FreeBlocks(h) == {b \in Blocks(h) : IsFree(h, b)}
InUse(h) == Blocks(h) \ FreeBlocks(h)

(* heap_init_alloc, up to its allocation, for a memory of n words *)
InitHeap(n) ==
    LET s == n - Block
    IN  [base    |-> s,
         size    |-> [b \in {0, s} |-> IF b = 0 THEN n - Block - Phy ELSE -1],
         phyPrev |-> [b \in {0, s} |-> IF b = 0 THEN s ELSE 0],
         next    |-> [b \in {0, s} |-> IF b = 0 THEN s ELSE 0],
         prev    |-> [b \in {0, s} |-> IF b = 0 THEN s ELSE 0]]

--------------------------------------------------------------------------------
(* The free list from its first block on, read n times *)
FreeList(h, n) ==
    LET walk[i \in 0 .. n] == IF i = 0 THEN h.next[h.base] ELSE h.next[walk[i - 1]]
    IN  walk

(* Variant for sensitivity: a block of exactly the size is passed over. *)
FirstFitStrict(h, n, b) ==
    \E k \in 0 .. Cardinality(FreeBlocks(h)) - 1 :
        LET list == FreeList(h, k)
        IN  /\ list[k] = b /\ b \in FreeBlocks(h) /\ h.size[b] > n
            /\ \A i \in 0 .. k - 1 : list[i] \in FreeBlocks(h) /\ h.size[list[i]] <= n

(* The loop of heap_alloc stops at b: it is large enough, the blocks that  *)
(* come before it on the free list are not.                                *)
FirstFit(h, n, b) ==
    \E k \in 0 .. Cardinality(FreeBlocks(h)) - 1 :
        LET list == FreeList(h, k)
        IN  /\ list[k] = b /\ b \in FreeBlocks(h) /\ h.size[b] >= n
            /\ \A i \in 0 .. k - 1 : list[i] \in FreeBlocks(h) /\ h.size[list[i]] < n

(* Variant for sensitivity: the tag of the new block is not counted. *)
SplitNoTag(h, b, n) ==
    LET t == b + n + Phy
        all == DOMAIN h.size \cup {t}
        listed == (DOMAIN h.next \ {b}) \cup {t}
    IN  [base    |-> h.base,
         size    |-> [x \in all |-> IF x = t THEN h.size[b] - n
                                    ELSE IF x = b THEN -n ELSE h.size[x]],
         phyPrev |-> [x \in all |-> IF x = t THEN b
                                    ELSE IF x = After(h, b) THEN t ELSE h.phyPrev[x]],
         next    |-> [x \in listed |-> IF x = t THEN h.next[b]
                                       ELSE IF x = h.prev[b] THEN t ELSE h.next[x]],
         prev    |-> [x \in listed |-> IF x = t THEN h.prev[b]
                                       ELSE IF x = h.next[b] THEN t ELSE h.prev[x]]]

(* A block is split: its end becomes a block that takes its place on the   *)
(* free list.                                                              *)
Split(h, b, n) ==
    LET t == b + n + Phy
        all == DOMAIN h.size \cup {t}
        listed == (DOMAIN h.next \ {b}) \cup {t}
    IN  [base    |-> h.base,
         size    |-> [x \in all |-> IF x = t THEN h.size[b] - n - Phy
                                    ELSE IF x = b THEN -n ELSE h.size[x]],
         phyPrev |-> [x \in all |-> IF x = t THEN b
                                    ELSE IF x = After(h, b) THEN t ELSE h.phyPrev[x]],
         next    |-> [x \in listed |-> IF x = t THEN h.next[b]
                                       ELSE IF x = h.prev[b] THEN t ELSE h.next[x]],
         prev    |-> [x \in listed |-> IF x = t THEN h.prev[b]
                                       ELSE IF x = h.next[b] THEN t ELSE h.prev[x]]]

(* The free list without block b *)
UnlinkNext(h, b) ==
    [x \in DOMAIN h.next \ {b} |-> IF x = h.prev[b] THEN h.next[b] ELSE h.next[x]]
UnlinkPrev(h, b) ==
    [x \in DOMAIN h.prev \ {b} |-> IF x = h.next[b] THEN h.prev[b] ELSE h.prev[x]]

(* A block is taken whole. *)
TakeWhole(h, b) ==
    [h EXCEPT !.size[b] = -@, !.next = UnlinkNext(h, b), !.prev = UnlinkPrev(h, b)]

(* heap_alloc of n words in the block b it has found *)
Alloc(h, b, n) == IF h.size[b] > n + Block THEN Split(h, b, n) ELSE TakeWhole(h, b)

--------------------------------------------------------------------------------
(* The cases of heap_free: the block before b takes it in, *)
JoinPrev(h, b) ==
    LET p == h.phyPrev[b]
        all == DOMAIN h.size \ {b}
    IN  [h EXCEPT
          !.size = [x \in all |-> IF x = p THEN h.size[p] + Words(h, b) + Phy ELSE h.size[x]],
          !.phyPrev = [x \in all |-> IF x = After(h, b) THEN p ELSE h.phyPrev[x]]]

(* b takes in the block after it, and its place on the free list, *)
JoinNext(h, b) ==
    LET a == After(h, b)
        all == DOMAIN h.size \ {a}
        listed == (DOMAIN h.next \ {a}) \cup {b}
    IN  [base    |-> h.base,
         size    |-> [x \in all |-> IF x = b THEN Words(h, b) + h.size[a] + Phy ELSE h.size[x]],
         phyPrev |-> [x \in all |-> IF x = After(h, a) THEN b ELSE h.phyPrev[x]],
         next    |-> [x \in listed |-> IF x = b THEN h.next[a]
                                       ELSE IF x = h.prev[a] THEN b ELSE h.next[x]],
         prev    |-> [x \in listed |-> IF x = b THEN h.prev[a]
                                       ELSE IF x = h.next[a] THEN b ELSE h.prev[x]]]

(* Variant for sensitivity: the block after b stays on the free list, its  *)
(* links where they were.                                                  *)
JoinBothLinked(h, b) ==
    LET p == h.phyPrev[b]
        a == After(h, b)
        all == DOMAIN h.size \ {a, b}
    IN  [h EXCEPT
          !.size = [x \in all |-> IF x = p THEN h.size[p] + Words(h, b) + h.size[a] + 2 * Phy
                                  ELSE h.size[x]],
          !.phyPrev = [x \in all |-> IF x = After(h, a) THEN p ELSE h.phyPrev[x]]]

(* the block before b takes in b and the block after it, *)
JoinBoth(h, b) ==
    LET p == h.phyPrev[b]
        a == After(h, b)
        all == DOMAIN h.size \ {a, b}
    IN  [base    |-> h.base,
         size    |-> [x \in all |-> IF x = p THEN h.size[p] + Words(h, b) + h.size[a] + 2 * Phy
                                    ELSE h.size[x]],
         phyPrev |-> [x \in all |-> IF x = After(h, a) THEN p ELSE h.phyPrev[x]],
         next    |-> UnlinkNext(h, a),
         prev    |-> UnlinkPrev(h, a)]

(* b goes to the front of the free list. *)
PushFree(h, b) ==
    LET s == h.base
        listed == DOMAIN h.next \cup {b}
    IN  [h EXCEPT
          !.size[b] = -@,
          !.next = [x \in listed |-> IF x = b THEN h.next[s] ELSE IF x = s THEN b ELSE h.next[x]],
          !.prev = [x \in listed |-> IF x = b THEN s
                                     ELSE IF x = h.next[s] THEN b ELSE h.prev[x]]]

(* heap_free of the block b *)
Free(h, b) ==
    LET before == IsFree(h, h.phyPrev[b])
        after == IsFree(h, After(h, b))
    IN  IF before /\ after THEN JoinBoth(h, b)
        ELSE IF before THEN JoinPrev(h, b)
        ELSE IF after THEN JoinNext(h, b) ELSE PushFree(h, b)

--------------------------------------------------------------------------------
(* Every block ends where the next one begins, which points back to it; a  *)
(* block has room for its links; no two free blocks are neighbours.        *)
TiledBlock(h, b) ==
    /\ h.size[b] \in Int /\ Words(h, b) >= Phy
    /\ After(h, b) \in DOMAIN h.size
    /\ h.phyPrev[After(h, b)] = b
    /\ \A c \in DOMAIN h.size : c <= b \/ c >= After(h, b)
    /\ IsFree(h, b) => ~IsFree(h, After(h, b))

Tiled(h) ==
    /\ DOMAIN h.size \subseteq 0 .. h.base /\ DOMAIN h.phyPrev = DOMAIN h.size
    /\ 0 \in DOMAIN h.size /\ h.base \in DOMAIN h.size
    /\ h.base # 0 /\ h.size[h.base] = -1 /\ h.phyPrev[0] = h.base
    /\ \A b \in Blocks(h) : TiledBlock(h, b)

(* The links are those of the free blocks and the sentinel, and agree. *)
Linked(h) ==
    LET listed == FreeBlocks(h) \cup {h.base}
    IN  /\ h.next \in [listed -> listed] /\ h.prev \in [listed -> listed]
        /\ \A b \in listed : h.prev[h.next[b]] = b /\ h.next[h.prev[b]] = b
================================================================================
