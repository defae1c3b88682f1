-------------------------------- MODULE MCSlab --------------------------------
(* The slab allocator for small sets of threads, caches and pages.         *)
EXTENDS Slab, TLC

CONSTANTS t1, t2

(* SlabsExact and NoPageLost, when kmem_cache_destroy overlaps allocations *)
(* and objects are freed to the wrong cache.                               *)
SlabsKept == SlabsExact /\ NoPageLost

=============================================================================
