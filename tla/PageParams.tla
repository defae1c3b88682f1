------------------------------ MODULE PageParams ------------------------------
(***************************************************************************)
(* The parameters of one kmem_state that the page and slab layers share.   *)
(* A page is its index in block_meta (what addr_to_index computes); a      *)
(* block of order o is 2^o consecutive pages, named by its first.          *)
(***************************************************************************)
EXTENDS Integers

CONSTANTS NumBlocks,   \* managed_num_blocks
          MaxOrder,    \* MAX_ORDER
          NULL         \* the null pointer

(* There is a page to manage, and a free list for order 0.                 *)
ASSUME SizeAssumption == NumBlocks \in Nat \ {0} /\ MaxOrder \in Nat

ASSUME NullAssumption == NULL \notin Int

(* 1 << k, for the orders the allocator uses.                              *)
ASSUME PowerAssumption ==
  \A k \in 0 .. MaxOrder : 2^k \in Nat \ {0} /\ (k > 0 => 2^k = 2^(k-1) + 2^(k-1))

Pages  == 0 .. NumBlocks - 1
Orders == 0 .. MaxOrder

Span(base, order) == base .. base + 2^order - 1

=============================================================================
