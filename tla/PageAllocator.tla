---------------------------- MODULE PageAllocator ----------------------------
(***************************************************************************)
(* What the page layer (kernel/buddy.c) promises to the code above it      *)
(* (kernel/slab.c, kernel/kalloc.c), free lists and merging left out.      *)
(*                                                                         *)
(* The NumBlocks pages of one kmem_state are 0 .. NumBlocks-1 (the indices *)
(* addr_to_index computes).  A block is a base page with an order; a block *)
(* of order o is 2^o consecutive pages.  The layer hands blocks out, takes *)
(* them back, and keeps for every page the slab that owns it               *)
(* (block_meta[].owner_slab); a slab is named by its base page.            *)
(***************************************************************************)
EXTENDS PageParams

VARIABLES held,        \* the blocks handed out: a set of <<base, order>>
          owner_slab   \* block_meta[].owner_slab

pageVars == <<held, owner_slab>>

Init ==
  /\ held = {}
  /\ owner_slab = [p \in Pages |-> NULL]

(* buddy_alloc succeeds: any run of pages no other caller holds.  It may   *)
(* also return NULL at any time (fragmentation), which changes nothing.    *)
Alloc(base, order) ==
  /\ base + 2^order <= NumBlocks
  /\ \A b \in held : Span(b[1], b[2]) \cap Span(base, order) = {}
  /\ held' = held \cup {<<base, order>>}
  /\ UNCHANGED owner_slab

(* buddy_free of a block that is handed out and not slab-owned.            *)
Free(base, order) ==
  /\ <<base, order>> \in held
  /\ owner_slab[base] = NULL
  /\ held' = held \ {<<base, order>>}
  /\ UNCHANGED owner_slab

(* The slab layer makes a block it holds a slab, or stops doing so.        *)
SetOwner(base, order, owner) ==
  /\ <<base, order>> \in held
  /\ owner \in {base, NULL}
  /\ owner_slab' = [p \in Pages |-> IF p \in Span(base, order) THEN owner ELSE owner_slab[p]]
  /\ UNCHANGED held

Next ==
  \/ \E base \in Pages, order \in Orders : Alloc(base, order)
  \/ \E b \in held : \/ Free(b[1], b[2])
                     \/ \E owner \in {b[1], NULL} : SetOwner(b[1], b[2], owner)

Spec == Init /\ [][Next]_pageVars

PageTypeOK ==
  /\ held \in SUBSET (Pages \X Orders)
  /\ owner_slab \in [Pages -> Pages \cup {NULL}]

(* No page is in two blocks at a time: two callers of buddy_alloc never    *)
(* share memory.                                                           *)
HeldDisjoint ==
  \A b, c \in held : b # c => Span(b[1], b[2]) \cap Span(c[1], c[2]) = {}

(* owner_slab names the base of the block the page is in, for all of the   *)
(* block or for none of it: the lookup kmem_cache_free and k_free do by    *)
(* page finds the right slab header and never one whose block was freed.   *)
OwnerIsHeld ==
  \A p \in Pages :
    owner_slab[p] # NULL =>
      \E b \in held : /\ owner_slab[p] = b[1]
                      /\ p \in Span(b[1], b[2])
                      /\ \A q \in Span(b[1], b[2]) : owner_slab[q] = b[1]

=============================================================================
