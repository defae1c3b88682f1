-------------------------------- MODULE Buddy --------------------------------
(***************************************************************************)
(* The buddy allocator of kernel/buddy.c for one kmem_state.               *)
(*                                                                         *)
(* Every operation runs from acquire(&buddy_lock) to its release, so the   *)
(* operations of all CPUs are serialised; `op' says whether the lock is    *)
(* free ("idle") or which loop its holder is in, and `blk', `ord' and      *)
(* `target' are that holder's locals.  One pass of a loop is one step,     *)
(* which is what lets the partition of the pages be proved by induction.   *)
(*                                                                         *)
(* A page is its index in block_meta.  A free list is the sequence of the  *)
(* blocks linked through their first word, head first.                     *)
(***************************************************************************)
EXTENDS PageParams, Sequences

CONSTANTS Starts,        \* where the region may begin, as page numbers
          MaxRequest     \* bound: the largest size_in_pages asked for

ASSUME BuddyAssumption == Starts \subseteq Nat /\ MaxRequest \in Nat

VARIABLES managed_start,
          free_area,               \* free lists, by order
          is_head_of_free_block, free_order,      \* block_meta[], by page
          is_head_of_alloc_block, alloc_order,
          owner_slab,
          op, blk, ord, target     \* the lock holder

meta  == <<is_head_of_free_block, free_order, is_head_of_alloc_block, alloc_order, owner_slab>>
local == <<op, blk, ord, target>>
vars  == <<managed_start, free_area, meta, local>>

-----------------------------------------------------------------------------
(* Helpers                                                                 *)

push_free(order, b) == free_area' = [free_area EXCEPT ![order] = <<b>> \o @]

(* remove_from_freelist, when the block is there: at place i.              *)
without(s, i) == [j \in 1 .. Len(s) - 1 |-> IF j < i THEN s[j] ELSE s[j+1]]

(* addr ^ bytes on absolute addresses, given and returned as an index.     *)
buddy_of(b, order) ==
  IF ((managed_start + b) \div 2^order) % 2 = 0 THEN b + 2^order ELSE b - 2^order

(* The smallest order whose block holds n pages.                           *)
order_for_pages(n) == CHOOSE o \in 0 .. n : 2^o >= n /\ (o = 0 \/ 2^(o-1) < n)

(* buddy_init: a block of this order fits at page c and is aligned to its  *)
(* own size, counting from managed_start.                                  *)
fits(order, c) == 2^order <= NumBlocks - c /\ c % 2^order = 0

-----------------------------------------------------------------------------
(* buddy_init                                                              *)

Init ==
  /\ managed_start \in Starts
  /\ free_area = [o \in Orders |-> <<>>]
  /\ is_head_of_free_block = [p \in Pages |-> FALSE]
  /\ free_order = [p \in Pages |-> 0]
  /\ is_head_of_alloc_block = [p \in Pages |-> FALSE]
  /\ alloc_order = [p \in Pages |-> 0]
  /\ owner_slab = [p \in Pages |-> NULL]
  /\ op = "init" /\ blk = 0 /\ ord = 0 /\ target = 0

(* One pass of the carving loop: the largest order that fits at blk.       *)
buddy_init_carve(order) ==
  /\ op = "init" /\ blk < NumBlocks
  /\ order = 0 \/ fits(order, blk)
  /\ \A o \in Orders : o > order => ~fits(o, blk)
  /\ is_head_of_free_block' = [is_head_of_free_block EXCEPT ![blk] = TRUE]
  /\ free_order' = [free_order EXCEPT ![blk] = order]
  /\ push_free(order, blk)
  /\ blk' = blk + 2^order
  /\ UNCHANGED <<is_head_of_alloc_block, alloc_order, owner_slab, op, ord, target>>

buddy_init_done ==
  /\ op = "init" /\ blk >= NumBlocks
  /\ op' = "idle" /\ blk' = 0
  /\ UNCHANGED <<free_area, meta, ord, target>>

-----------------------------------------------------------------------------
(* buddy_alloc                                                             *)

(* The smallest non-empty free list at or above the target, and its head.  *)
buddy_alloc(n, k) ==
  /\ op = "idle" /\ n > 0
  /\ order_for_pages(n) \in Orders
  /\ k >= order_for_pages(n) /\ free_area[k] # <<>>
  /\ \A j \in order_for_pages(n) .. k-1 : free_area[j] = <<>>
  /\ free_area' = [free_area EXCEPT ![k] = Tail(@)]
  /\ is_head_of_free_block' = [is_head_of_free_block EXCEPT ![Head(free_area[k])] = FALSE]
  /\ op' = "split" /\ blk' = Head(free_area[k]) /\ ord' = k /\ target' = order_for_pages(n)
  /\ UNCHANGED <<free_order, is_head_of_alloc_block, alloc_order, owner_slab>>

(* The early returns: no pages asked for, too many, or no block left.      *)
buddy_alloc_null(n) ==
  /\ op = "idle"
  /\ \/ n = 0
     \/ order_for_pages(n) > MaxOrder
     \/ \A k \in Orders : k >= order_for_pages(n) => free_area[k] = <<>>
  /\ UNCHANGED vars

(* One pass of the splitting loop: the upper half becomes a free block.    *)
buddy_alloc_split ==
  LET k == ord - 1
      buddy == blk + 2^k
  IN /\ op = "split" /\ ord > target
     /\ ord' = k
     /\ is_head_of_free_block' = [is_head_of_free_block EXCEPT ![buddy] = TRUE]
     /\ free_order' = [free_order EXCEPT ![buddy] = k]
     /\ push_free(k, buddy)
     /\ UNCHANGED <<is_head_of_alloc_block, alloc_order, owner_slab, op, blk, target>>

(* Faulty variant: the release of buddy_lock is missing.                   *)
Bug_alloc_keeps_lock ==
  /\ op = "split" /\ ord = target
  /\ is_head_of_alloc_block' = [is_head_of_alloc_block EXCEPT ![blk] = TRUE]
  /\ alloc_order' = [alloc_order EXCEPT ![blk] = target]
  /\ UNCHANGED <<free_area, is_head_of_free_block, free_order, owner_slab, local>>

buddy_alloc_done ==
  /\ op = "split" /\ ord = target
  /\ is_head_of_alloc_block' = [is_head_of_alloc_block EXCEPT ![blk] = TRUE]
  /\ alloc_order' = [alloc_order EXCEPT ![blk] = target]
  /\ is_head_of_free_block' = [is_head_of_free_block EXCEPT ![blk] = FALSE]
  /\ op' = "idle" /\ blk' = 0 /\ ord' = 0 /\ target' = 0
  /\ UNCHANGED <<free_area, free_order, owner_slab>>

-----------------------------------------------------------------------------
(* buddy_free                                                              *)

(* Faulty variant: a block that is still a slab is taken back.             *)
Bug_free_slab_owned(p) ==
  /\ op = "idle"
  /\ is_head_of_alloc_block[p]
  /\ is_head_of_alloc_block' = [is_head_of_alloc_block EXCEPT ![p] = FALSE]
  /\ op' = "merge" /\ blk' = p /\ ord' = alloc_order[p]
  /\ UNCHANGED <<free_area, is_head_of_free_block, free_order, alloc_order, owner_slab, target>>

(* Only the head of an allocated block that no slab owns is taken back.    *)
buddy_free(p) ==
  /\ op = "idle"
  /\ is_head_of_alloc_block[p] /\ owner_slab[p] = NULL
  /\ is_head_of_alloc_block' = [is_head_of_alloc_block EXCEPT ![p] = FALSE]
  /\ op' = "merge" /\ blk' = p /\ ord' = alloc_order[p]
  /\ UNCHANGED <<free_area, is_head_of_free_block, free_order, alloc_order, owner_slab, target>>

(* Any other page, and (p = -1) any address addr_to_index rejects.         *)
buddy_free_ignored(p) ==
  /\ op = "idle"
  /\ p \in Pages => ~is_head_of_alloc_block[p] \/ owner_slab[p] # NULL
  /\ UNCHANGED vars

(* Faulty variant: the merging loop stops one order early.                 *)
Bug_merge_stops_early ==
  LET b == buddy_of(blk, ord)
  IN /\ ord < MaxOrder - 1
     /\ b \in Pages
     /\ is_head_of_free_block[b] /\ free_order[b] = ord
     /\ owner_slab[b] = NULL /\ ~is_head_of_alloc_block[b]
     /\ \E i \in 1 .. Len(free_area[ord]) : free_area[ord][i] = b

(* The merging loop of buddy_free_order goes on while this holds: the      *)
(* buddy is a free block of the same order and is found in the free list.  *)
mergeable ==
  LET b == buddy_of(blk, ord)
  IN /\ ord < MaxOrder
     /\ b \in Pages
     /\ is_head_of_free_block[b] /\ free_order[b] = ord
     /\ owner_slab[b] = NULL /\ ~is_head_of_alloc_block[b]
     /\ \E i \in 1 .. Len(free_area[ord]) : free_area[ord][i] = b

(* Faulty variant: the head mark of the buddy merged away stays set.       *)
Bug_merge_keeps_mark ==
  LET b == buddy_of(blk, ord)
  IN /\ op = "merge" /\ mergeable
     /\ \E i \in 1 .. Len(free_area[ord]) :
          /\ free_area[ord][i] = b
          /\ free_area' = [free_area EXCEPT ![ord] = without(@, i)]
     /\ blk' = IF b < blk THEN b ELSE blk
     /\ ord' = ord + 1
     /\ UNCHANGED <<is_head_of_free_block, free_order, is_head_of_alloc_block, alloc_order, owner_slab, op, target>>

(* Faulty variant: the merged block does not start at the lower buddy.     *)
Bug_merge_keeps_addr ==
  LET b == buddy_of(blk, ord)
  IN /\ op = "merge" /\ mergeable
     /\ \E i \in 1 .. Len(free_area[ord]) :
          /\ free_area[ord][i] = b
          /\ free_area' = [free_area EXCEPT ![ord] = without(@, i)]
     /\ is_head_of_free_block' = [is_head_of_free_block EXCEPT ![b] = FALSE]
     /\ ord' = ord + 1
     /\ UNCHANGED <<free_order, is_head_of_alloc_block, alloc_order, owner_slab, op, blk, target>>

(* One pass, with i the first place of the buddy in its free list.         *)
buddy_free_merge ==
  LET b == buddy_of(blk, ord)
  IN /\ op = "merge" /\ mergeable
     /\ \E i \in 1 .. Len(free_area[ord]) :
          /\ free_area[ord][i] = b
          /\ \A j \in 1 .. i-1 : free_area[ord][j] # b
          /\ free_area' = [free_area EXCEPT ![ord] = without(@, i)]
     /\ is_head_of_free_block' = [is_head_of_free_block EXCEPT ![b] = FALSE]
     /\ blk' = IF b < blk THEN b ELSE blk
     /\ ord' = ord + 1
     /\ UNCHANGED <<free_order, is_head_of_alloc_block, alloc_order, owner_slab, op, target>>

buddy_free_done ==
  /\ op = "merge" /\ ~mergeable
  /\ is_head_of_free_block' = [is_head_of_free_block EXCEPT ![blk] = TRUE]
  /\ free_order' = [free_order EXCEPT ![blk] = ord]
  /\ push_free(ord, blk)
  /\ op' = "idle" /\ blk' = 0 /\ ord' = 0
  /\ UNCHANGED <<is_head_of_alloc_block, alloc_order, owner_slab, target>>

-----------------------------------------------------------------------------
(* The slab layer writes owner_slab of a block it got from buddy_alloc,    *)
(* under buddy_lock: to itself when the block becomes a slab, to NULL      *)
(* before the block is given back.                                         *)
set_owner_slab(p, owner) ==
  /\ op = "idle" /\ is_head_of_alloc_block[p]
  /\ owner_slab' = [q \in Pages |-> IF q \in Span(p, alloc_order[p]) THEN owner ELSE owner_slab[q]]
  /\ UNCHANGED <<free_area, is_head_of_free_block, free_order, is_head_of_alloc_block, alloc_order, local>>

-----------------------------------------------------------------------------
Internal ==
  /\ \/ \E o \in Orders : buddy_init_carve(o)
     \/ buddy_init_done
     \/ buddy_alloc_split
     \/ buddy_alloc_done
     \/ buddy_free_merge
     \/ buddy_free_done
  /\ UNCHANGED managed_start

Call ==
  \/ \E n \in 0 .. MaxRequest, k \in Orders : buddy_alloc(n, k)
  \/ \E n \in 0 .. MaxRequest : buddy_alloc_null(n)
  \/ \E p \in Pages : buddy_free(p)
  \/ \E p \in Pages \cup {-1} : buddy_free_ignored(p)
  \/ \E p \in Pages : \E owner \in {p, NULL} : set_owner_slab(p, owner)

Next == Internal \/ (Call /\ UNCHANGED managed_start)

Spec == Init /\ [][Next]_vars

-----------------------------------------------------------------------------
(* Properties                                                              *)

TypeOK ==
  /\ free_area \in [Orders -> Seq(Pages)]
  /\ is_head_of_free_block \in [Pages -> BOOLEAN]
  /\ free_order \in [Pages -> Orders]
  /\ is_head_of_alloc_block \in [Pages -> BOOLEAN]
  /\ alloc_order \in [Pages -> Orders]
  /\ owner_slab \in [Pages -> Pages \cup {NULL}]
  /\ op \in {"init", "idle", "split", "merge"}
  /\ blk \in Nat /\ ord \in Orders /\ target \in Orders

(* The lock holder has a block in hand that is neither free nor allocated. *)
InHand == op \in {"split", "merge"}

(* The free lists and block_meta say the same thing: a block is in the     *)
(* list of order o, once, exactly when its first page is marked the head   *)
(* of a free block of order o.  buddy_free_order trusts the mark before it *)
(* walks the list, pop_free trusts the list before it clears the mark.     *)
FreeListsExact ==
  /\ \A o \in Orders : \A i \in 1 .. Len(free_area[o]) :
       LET b == free_area[o][i]
       IN /\ is_head_of_free_block[b] /\ free_order[b] = o
          /\ \A j \in 1 .. Len(free_area[o]) : free_area[o][j] = b => i = j
  /\ \A p \in Pages : is_head_of_free_block[p] =>
       \E i \in 1 .. Len(free_area[free_order[p]]) : free_area[free_order[p]][i] = p

(* The size of the block whose head is page p, 0 when p heads no block.    *)
BlockSize ==
  [p \in Pages |-> IF is_head_of_free_block[p] THEN 2^free_order[p]
                   ELSE IF is_head_of_alloc_block[p] THEN 2^alloc_order[p]
                   ELSE IF InHand /\ p = blk THEN 2^ord ELSE 0]

(* No page heads two blocks.                                               *)
OneBlockPerHead ==
  \A p \in Pages :
    /\ ~(is_head_of_free_block[p] /\ is_head_of_alloc_block[p])
    /\ InHand /\ p = blk => ~is_head_of_free_block[p] /\ ~is_head_of_alloc_block[p]

(* Blocks of these sizes cover the pages below n, each of them once.       *)
Inside(size, n) == \A p \in Pages : size[p] > 0 => p + size[p] <= n

NoOverlap(size) == \A p, q \in Pages : size[p] > 0 /\ size[q] > 0 /\ p < q => p + size[p] <= q

Covers(size, n) == \A x \in 0 .. n-1 : \E p \in Pages : p <= x /\ x < p + size[p]

Tiles(size, n) == Inside(size, n) /\ NoOverlap(size) /\ Covers(size, n)

(* Free blocks, allocated blocks and the block in hand partition the pages *)
(* (while buddy_init runs: those carved so far) at every step of every     *)
(* operation, wherever managed_start is: splitting, and merging by XOR on  *)
(* absolute addresses, neither lose a page nor give one away twice.        *)
Partition ==
  /\ OneBlockPerHead
  /\ Tiles(BlockSize, IF op = "init" THEN blk ELSE NumBlocks)

(* Merging is never left undone: no two free blocks are buddies of one     *)
(* another below the largest order.                                        *)
NoFreeBuddies ==
  op = "idle" =>
    \A p \in Pages : is_head_of_free_block[p] /\ free_order[p] < MaxOrder =>
      LET b == buddy_of(p, free_order[p])
      IN b \in Pages => ~(is_head_of_free_block[b] /\ free_order[b] = free_order[p])

(* The carving of an unused region: the blocks aligned, from managed_start,*)
(* to their size that fit and are not part of a larger one.                *)
CarvedBlocks ==
  {b \in Pages \X Orders :
     /\ fits(b[2], b[1])
     /\ b[2] < MaxOrder => LET up == b[1] - (b[1] % 2^(b[2]+1)) IN ~fits(b[2]+1, up)}

(* When everything has been freed the free blocks are those buddy_init     *)
(* made: no fragmentation is left.  Holds when managed_start is a multiple *)
(* of 2^MAX_ORDER pages, so that index and address alignment agree.        *)
FullyCoalesced ==
  managed_start % 2^MaxOrder = 0 /\ op = "idle" /\ (\A p \in Pages : ~is_head_of_alloc_block[p]) =>
    {<<p, free_order[p]>> : p \in {q \in Pages : is_head_of_free_block[q]}} = CarvedBlocks

(* Both: freeing leaves nothing that could have been merged.               *)
Coalesced == NoFreeBuddies /\ FullyCoalesced

(* The blocks that callers of buddy_alloc hold.                            *)
Held == {<<p, alloc_order[p]>> : p \in {q \in Pages : is_head_of_alloc_block[q]}}

PA == INSTANCE PageAllocator WITH held <- Held

(* buddy_alloc, buddy_free and the slab layer's writes of owner_slab       *)
(* implement the page allocator's contract.                                *)
PageAllocatorSpec == PA!Spec

=============================================================================
