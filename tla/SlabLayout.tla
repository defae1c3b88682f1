------------------------------ MODULE SlabLayout ------------------------------
(***************************************************************************)
(* How kmem_cache_create (kernel/slab.c) lays out a slab, the caches that  *)
(* kmem_init makes with it, and which of them kmalloc takes: sizes in      *)
(* bytes, one step per pass of the loop over the slab orders.              *)
(*                                                                         *)
(* A slab is a header (slab_t), an array of uint16 free-list links and the *)
(* objects, in 2^slab_order pages.  The number of objects depends on the   *)
(* size of the array, which depends on their number; the code computes it  *)
(* twice instead of solving for it.                                        *)
(***************************************************************************)
EXTENDS Integers, Sequences

CONSTANTS BLOCK_SIZE, MAX_SLAB_ORDER, MIN_OBJS_PER_SLAB,
          HEADER,    \* sizeof(slab_t)
          WORD,      \* sizeof(void*)
          LINK,      \* sizeof(uint16)
          NOFREE,    \* 0xFFFF, no index
          LARGE,     \* objects above this size may be alone in a slab
          Sizes      \* bound: the sizes asked for

SlabOrders == 0 .. MAX_SLAB_ORDER

slab_bytes(order) == BLOCK_SIZE * 2^order

ALIGN_UP(addr, align) == IF addr % align = 0 THEN addr ELSE addr + (align - (addr % align))

(* Faulty variant: a slip in one of the sizes.                             *)
Bug_size_repeated ==
  <<32, 64, 128, 256, 512, 1024, 2048, 4096, 8192, 16384, 32768, 32768, 131072>>

(* The sizes of the caches kmem_init creates, and the limits kmalloc_index *)
(* compares with: two tables, indexed from 1.                              *)
kmalloc_caches_sizes ==
  <<32, 64, 128, 256, 512, 1024, 2048, 4096, 8192, 16384, 32768, 65536, 131072>>

kmalloc_index_limits ==
  <<32, 64, 128, 256, 512, 1024, 2048, 4096, 8192, 16384, 32768, 65536, 131072>>

KMALLOC_NUM_CACHES == 13

(* The object size: at least a pointer, and a multiple of its size.        *)
rounded(sz) == ALIGN_UP(IF sz < WORD THEN WORD ELSE sz, WORD)

(* The header with the array of links for n objects.                       *)
header(n) == ALIGN_UP(HEADER + n * LINK, WORD)

min_objs(objsize) == IF objsize > LARGE THEN 1 ELSE MIN_OBJS_PER_SLAB

(* The number of objects if there were no links, then with links for that. *)
count0(order, objsize) == (slab_bytes(order) - ALIGN_UP(HEADER, WORD)) \div objsize

(* Faulty variant: the links are forgotten.                                *)
Bug_no_links(order, objsize) == slab_bytes(order) - ALIGN_UP(HEADER, WORD)

(* Faulty variant: the header takes whole pages.                           *)
Bug_page_header(order, objsize) ==
  LET h == ALIGN_UP(HEADER + count0(order, objsize) * LINK, BLOCK_SIZE)
  IN IF slab_bytes(order) > h THEN slab_bytes(order) - h ELSE 0

usable(order, objsize) ==
  LET h == header(count0(order, objsize))
  IN IF slab_bytes(order) > h THEN slab_bytes(order) - h ELSE 0

count(order, objsize) == usable(order, objsize) \div objsize

enough(order, objsize) ==
  count0(order, objsize) >= min_objs(objsize) /\ count(order, objsize) >= min_objs(objsize)

ASSUME LayoutAssumption ==
  /\ {BLOCK_SIZE, MIN_OBJS_PER_SLAB, HEADER, WORD, LINK} \subseteq Nat \ {0}
  /\ {MAX_SLAB_ORDER, NOFREE, LARGE} \subseteq Nat
  /\ Sizes \subseteq Nat
  /\ HEADER % WORD = 0

(* BLOCK_SIZE << order, for the orders of a slab: a header fits, and the   *)
(* smallest objects that fill the largest slab still have uint16 indices.  *)
ASSUME SlabBytesAssumption ==
  \A o \in SlabOrders : /\ slab_bytes(o) \in Nat
                        /\ slab_bytes(o) >= HEADER /\ slab_bytes(o) <= NOFREE * WORD

(* What kmem_init counts on: the sizes it asks for need no rounding, and   *)
(* some slab holds enough objects of each.                                 *)
ASSUME KmallocSizeAssumption ==
  \A i \in 1 .. KMALLOC_NUM_CACHES :
    LET sz == kmalloc_caches_sizes[i]
    IN sz >= WORD /\ sz % WORD = 0 /\ \E o \in SlabOrders : enough(o, sz)

VARIABLES pc,
          size,                        \* what the caller asks for
          object_size, slab_order, objs_per_slab, obj_offset,
          kmalloc_caches,              \* the object sizes of the caches, 0 for NULL
          index                        \* kmalloc_index, from 1

layout     == <<object_size, slab_order, objs_per_slab, obj_offset>>
layoutVars == <<pc, size, layout, kmalloc_caches, index>>

-----------------------------------------------------------------------------
LayoutInit ==
  /\ pc = "idle" /\ size = 0 /\ index = 0 /\ kmalloc_caches = <<>>
  /\ object_size = 0 /\ slab_order = 0 /\ objs_per_slab = 0 /\ obj_offset = 0

(* kmem_init has got to this cache, or is done with all of them.           *)
next_cache  == Len(kmalloc_caches) + 1
caches_made == Len(kmalloc_caches) = KMALLOC_NUM_CACHES

kmem_cache_create(sz) ==
  /\ pc = "idle"
  /\ size' = sz /\ object_size' = rounded(sz)
  /\ slab_order' = 0
  /\ pc' = "loop"
  /\ UNCHANGED <<objs_per_slab, obj_offset, kmalloc_caches, index>>

loop_next ==
  /\ pc = "loop" /\ slab_order <= MAX_SLAB_ORDER /\ ~enough(slab_order, object_size)
  /\ slab_order' = slab_order + 1
  /\ UNCHANGED <<pc, size, object_size, objs_per_slab, obj_offset, kmalloc_caches, index>>

loop_found ==
  /\ pc = "loop" /\ slab_order <= MAX_SLAB_ORDER /\ enough(slab_order, object_size)
  /\ objs_per_slab' = count(slab_order, object_size)
  /\ obj_offset' = header(count(slab_order, object_size))
  /\ pc' = "created"
  /\ UNCHANGED <<size, object_size, slab_order, kmalloc_caches, index>>

create_null ==
  /\ pc = "loop" /\ slab_order > MAX_SLAB_ORDER
  /\ pc' = "null"
  /\ UNCHANGED <<size, layout, kmalloc_caches, index>>

(* kmalloc_index: the first limit that is not exceeded, if there is one.   *)
kmalloc_index(sz, i) ==
  sz <= kmalloc_index_limits[i] /\ \A j \in 1 .. i-1 : sz > kmalloc_index_limits[j]

no_index(sz) == \A i \in 1 .. KMALLOC_NUM_CACHES : sz > kmalloc_index_limits[i]

kmalloc(sz, i) ==
  /\ pc = "idle" /\ caches_made /\ sz > 0
  /\ kmalloc_index(ALIGN_UP(sz, WORD), i)
  /\ size' = sz /\ index' = i
  /\ pc' = IF kmalloc_caches[i] = 0 THEN "kmalloc_null" ELSE "kmalloc"
  /\ UNCHANGED <<layout, kmalloc_caches>>

kmalloc_null(sz) ==
  /\ pc = "idle" /\ caches_made
  /\ sz = 0 \/ no_index(ALIGN_UP(sz, WORD))
  /\ size' = sz
  /\ pc' = "kmalloc_null"
  /\ UNCHANGED <<layout, kmalloc_caches, index>>

(* The call returns; what kmem_cache_create returns to kmem_init is one of *)
(* the caches of kmalloc.                                                  *)
return ==
  /\ pc \in {"created", "null", "kmalloc", "kmalloc_null"}
  /\ kmalloc_caches' = IF caches_made THEN kmalloc_caches
                       ELSE Append(kmalloc_caches, IF pc = "created" THEN object_size ELSE 0)
  /\ pc' = "idle" /\ size' = 0 /\ index' = 0
  /\ object_size' = 0 /\ slab_order' = 0 /\ objs_per_slab' = 0 /\ obj_offset' = 0

LayoutNext ==
  \/ ~caches_made /\ kmem_cache_create(kmalloc_caches_sizes[next_cache])
  \/ /\ pc = "idle" /\ caches_made
     /\ \E sz \in Sizes : \/ kmem_cache_create(sz)
                          \/ \E i \in 1 .. KMALLOC_NUM_CACHES : kmalloc(sz, i)
                          \/ kmalloc_null(sz)
  \/ loop_next \/ loop_found \/ create_null
  \/ return

LayoutSpec == LayoutInit /\ [][LayoutNext]_layoutVars

-----------------------------------------------------------------------------
LayoutTypeOK ==
  /\ pc \in {"idle", "loop", "created", "null", "kmalloc", "kmalloc_null"}
  /\ size \in Nat /\ object_size \in Nat /\ objs_per_slab \in Nat /\ obj_offset \in Nat
  /\ slab_order \in 0 .. MAX_SLAB_ORDER + 1
  /\ kmalloc_caches \in Seq(Nat) /\ Len(kmalloc_caches) <= KMALLOC_NUM_CACHES
  /\ index \in 0 .. KMALLOC_NUM_CACHES
  /\ pc \in {"loop", "created"} => object_size >= WORD

(* The layout kmem_cache_create settles on is sound: the objects are large *)
(* enough and aligned, they begin behind the header and its links and end  *)
(* inside the slab's pages, and there are as many as a slab must have and  *)
(* no more than have a uint16 index other than NOFREE (0 .. n-1).          *)
(* The second count is made with the header of the first, larger one, and  *)
(* the offset with the header of the second: the two must agree.           *)
LayoutFits ==
  pc = "created" =>
    /\ object_size >= size /\ object_size % WORD = 0
    /\ obj_offset >= HEADER + objs_per_slab * LINK /\ obj_offset % WORD = 0
    /\ obj_offset + objs_per_slab * object_size <= slab_bytes(slab_order)
    /\ objs_per_slab >= min_objs(object_size) /\ objs_per_slab <= NOFREE

(* The slab order is the smallest one that gives enough objects with room  *)
(* for their links: no smaller slab would do.                              *)
OrderMinimal ==
  pc = "created" =>
    \A o \in 0 .. slab_order - 1 :
      LET n == min_objs(object_size) IN header(n) + n * object_size > slab_bytes(o)

(* The two tables and the slabs work together: kmalloc hands out an object *)
(* as large as it was asked for, from the cache with the smallest objects  *)
(* that are, and refuses only what no cache of kmem_init's holds.          *)
KmallocFits ==
  /\ pc = "kmalloc" =>
       /\ kmalloc_caches[index] >= size
       /\ \A j \in 1 .. Len(kmalloc_caches) :
            kmalloc_caches[j] >= size => kmalloc_caches[index] <= kmalloc_caches[j]
  /\ pc = "kmalloc_null" =>
       size = 0 \/ \A j \in 1 .. Len(kmalloc_caches) : kmalloc_caches[j] < size

=============================================================================
